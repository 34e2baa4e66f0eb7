\* Envelopes of five bytes and every request length up to six; lines of at most two bytes
\* and every stream of at most eight.
SPECIFICATION Spec
CONSTANTS
  MaxEnvelope = 5
  MaxLength = 6
  MaxLine = 2
  MaxStream = 8
CHECK_DEADLOCK FALSE
INVARIANTS
  LargestFits
  CutsDoNotMatter
  LinesArrive
PROPERTY
  LoopsEnd
