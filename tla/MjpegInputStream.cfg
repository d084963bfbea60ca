\* Deadlock is not checked: reading stops at the end of the stream.
SPECIFICATION Spec
CONSTANTS
  Bodies <- SmallBodies
  Preambles <- SmallPreambles
  Counted = {TRUE, FALSE}
  MaxFrames = 3
  FRAME_MAX_LENGTH = 10
  HEADER_MAX_LENGTH = 2
INVARIANTS
  CountedLossless
  ImagesAreWhole
  SearchedInStep
  NoCrash
PROPERTIES
  CallsProgress
CHECK_DEADLOCK FALSE
