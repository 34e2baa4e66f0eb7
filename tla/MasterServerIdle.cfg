\* One command against a late idle callback.
SPECIFICATION Spec
CONSTANTS
  c1 = c1
  NoJob = NoJob
  Clients = {c1}
  MaxQueue = 1
  Kinds = {"request"}
  Targets = {"same"}
  Sentinels = {}
  Faults = {}
SYMMETRY ClientSymmetry
PROPERTIES
  IdleStopIsDue
