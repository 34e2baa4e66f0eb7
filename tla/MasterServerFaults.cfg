\* Two connections with any frame, every fault and every error.
SPECIFICATION Spec
CONSTANTS
  c1 = c1
  c2 = c2
  NoJob = NoJob
  Clients = {c1, c2}
  MaxQueue = 1
  Kinds = {"check", "exit", "request"}
  Targets = {"same", "identity", "persist"}
  Sentinels = {"unknown", "not-started", "cleanup-failed", "deadline", "canceled"}
  Faults = {"interrupt", "listener", "heartbeat"}
SYMMETRY ClientSymmetry
INVARIANTS
  TypeOK
  NoDoubleClose
  SerialExecution
  NoLostJob
  IdleTimerCovers
  ExitReachesStop
  RefusedNeverSent
  QuietBeforeLanesClose
PROPERTIES
  ImplementsService
  AnswerFinal
