\* Deadlock is not checked: an uncaught exception ends the process.
SPECIFICATION FairSpec
CONSTANTS
  USE_NSD_MANAGER = TRUE
  Tasks = {t1, t2}
  NoTask = NoTask
  Services <- MCServices
  Kind <- MCKind
  Host <- MCHost
  Address <- MCAddress
  Port <- MCPort
  MaxListed = 2
INVARIANTS
  ScanBelongsToScreen
  NullOnlyAfterCancel
PROPERTY CancelledScanEnds
CHECK_DEADLOCK FALSE
