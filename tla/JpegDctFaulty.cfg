\* The sizes left out of JpegDct.cfg.
SPECIFICATION Spec
CONSTANTS
  QuantTables <- MCQuantTables
  Setups <- FaultySetups
  Methods <- MCMethods
  Pictures <- MCPictures
  MaxPasses = 1
  NULL = NULL
CHECK_DEADLOCK FALSE
INVARIANTS
  RecompressedSame
