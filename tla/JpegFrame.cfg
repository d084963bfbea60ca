\* Deadlock is not checked: MaxFrames ends a behaviour.
SPECIFICATION Spec
CONSTANTS
  DCTSIZE = 2
  MCUsPerRow = 2
  Pictures <- MCPictures
  MaxFrames = 2
  MaxRows = 7
INVARIANT RowsCopiedAreRead
CHECK_DEADLOCK FALSE
