\* Deadlock is checked: a codec that is done stays where it is (Over), so any
\* other state without a step is a fault.
SPECIFICATION Spec
CONSTANTS
  DCTSIZE = 2
  MCUsPerRow = 2
  Pictures <- MCPictures
  Cases <- MCCases
  Lines = {1, 3}
  Rooms = {0, 1, 1000}
  Feeds = {0, 1, 1000}
  MaxPasses = 2
INVARIANTS FileIsImage ShownRowsAreSource ShownUpToScan CallsAreLegal
PROPERTY CodecEnds
