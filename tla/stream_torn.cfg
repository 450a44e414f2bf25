\* Reads end anywhere, also inside the body of a packet.
CONSTANTS
  None = None
  Sizes <- MixedSizes
  Base = 2
  BufferSize = 64
SPECIFICATION Spec
INVARIANTS
  NoneUntilComplete
\* The receive loop ends.
CHECK_DEADLOCK FALSE
