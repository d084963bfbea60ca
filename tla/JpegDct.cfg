\* Deadlock is not checked: a picture compressed, shown and compressed again ends
\* the behaviour.
SPECIFICATION Spec
CONSTANTS
  QuantTables <- MCQuantTables
  Setups <- MCSetups
  Methods <- MCMethods
  Pictures <- MCPictures
  MaxPasses = 2
  NULL = NULL
CHECK_DEADLOCK FALSE
INVARIANTS
  ShownClose
  MeanKept
  RecompressedSame
  MultipliersMatch
  BlankIsGrey
  MeanCoded
