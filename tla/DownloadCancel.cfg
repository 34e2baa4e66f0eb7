\* A download whose context ends, without any fault.
SPECIFICATION Spec
CONSTANTS
  Chunks = 1
  Directions = {"download"}
  Faults = {}
INVARIANT
  SenderEnded
