\* control exit and a command, while the master is interrupted.
SPECIFICATION Spec
CONSTANTS
  c1 = c1
  c2 = c2
  NoJob = NoJob
  Clients = {c1, c2}
  MaxQueue = 1
  Kinds = {"exit", "request"}
  Targets = {"same"}
  Sentinels = {"canceled"}
  Faults = {"interrupt"}
SYMMETRY ClientSymmetry
INVARIANTS
  ExitWaits
