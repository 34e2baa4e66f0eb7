\* An interrupted command of Run on sound lanes.
SPECIFICATION Spec
CONSTANTS
  Procs <- MCProcs
  LaneSet <- MCLanes
  Free = "free"
  Retries = 2
  Faults = {}
  Modes = {"run"}
  Endings = {"canceled", "deadline"}
INVARIANTS
  CancelSparesCleanup
