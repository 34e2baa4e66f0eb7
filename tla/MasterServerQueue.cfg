\* Three connections, a queue that two of them can fill, a failing heartbeat.
SPECIFICATION Spec
CONSTANTS
  c1 = c1
  c2 = c2
  c3 = c3
  NoJob = NoJob
  Clients = {c1, c2, c3}
  MaxQueue = 2
  Kinds = {"exit", "request"}
  Targets = {"same"}
  Sentinels = {"not-started"}
  Faults = {"heartbeat"}
SYMMETRY ClientSymmetry
INVARIANTS
  AdmissionOrder
  LanesNotReused
  ExitWaits
