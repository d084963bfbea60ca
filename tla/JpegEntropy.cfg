\* Deadlock is checked: Over is the only state in which nothing is left to do.
CONSTANTS
  Jobs <- MCJobs
  BufferSize = 24
  FinishRoom = 6
  MaxCut = 4
  MaxLostMarkers = 2
  MAX_EOBRUN = 2
  MAX_CORR_BITS = 1
  MaxCodeLength = 4
  MAX_CLEN = 16
  HUFF_LOOKAHEAD = 2
  arith_dc_L = 0
  arith_dc_U = 1
  arith_ac_K = 2
  NULL = NULL
SPECIFICATION Spec
INVARIANTS ScansExact DamageContained
PROPERTY ImageEnds
