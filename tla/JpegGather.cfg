SPECIFICATION Spec
CONSTANTS
  MaxCodeLength = 3
  MAX_CLEN = 4
  Symbols <- MCSymbols
  Tables = {"dc1", "ac1"}
  EobScans = {2}
  Script <- MCScript
  MaxSymbols <- MCMaxSymbols
  NULL = NULL
CHECK_DEADLOCK FALSE
INVARIANTS TablesSound
