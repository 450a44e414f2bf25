\* Reads end anywhere, and the last packet but one is malformed.
CONSTANTS
  None = None
  Sizes <- MixedSizes
  Base = 2
  BufferSize = 64
SPECIFICATION LiveSpec
INVARIANTS
  TypeOK
  DecodesPackets
  StreamSurvives
PROPERTIES
  AllDecoded
\* The receive loop ends.
CHECK_DEADLOCK FALSE
