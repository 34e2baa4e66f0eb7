\* The calls of a master and of Run return; the host may never answer.
SPECIFICATION FairSpec
CONSTANTS
  Procs <- MCProcs
  LaneSet <- MCLanes
  Free = "free"
  Retries = 2
  Faults = {"slow"}
  Modes = {"master", "run"}
  Endings = {"canceled"}
PROPERTIES
  CancelReturns
