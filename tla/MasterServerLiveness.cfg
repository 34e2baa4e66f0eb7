\* Two connections, a failing heartbeat, fair scheduling.
SPECIFICATION FairSpec
CONSTANTS
  c1 = c1
  c2 = c2
  NoJob = NoJob
  Clients = {c1, c2}
  MaxQueue = 1
  Kinds = {"exit", "request"}
  Targets = {"same"}
  Sentinels = {}
  Faults = {"heartbeat"}
PROPERTIES
  JobsAnswered
  ExitAnswered
  MasterReturns
