\* A command of a master or of Run, every fault.
SPECIFICATION Spec
CONSTANTS
  Procs <- MCProcs
  LaneSet <- MCLanes
  Free = "free"
  Retries = 2
  Faults = {"break", "refuse", "slow"}
  Modes = {"master", "run"}
  Endings = {"canceled", "deadline"}
INVARIANTS
  SessionTypeOK
  NoOrphan
  NoReplay
  SequenceIntact
  CleanReturn
PROPERTIES
  ImplementsContract
