\* Fair scheduling; a network read may block for ever, and an uncaught exception
\* ends the process, so the system may stop.
SPECIFICATION ActFairSpec
CONSTANTS
  Cams = {1, 2}
  Slots = {k1}
  Streams = {s1, s2, s3}
  NoThread = NoThread
  NoStream = NoStream
  NoCam = NoCam
  MaxReads = 2
INVARIANTS
  CrashNeedsDoubleRead
  DeadDecoderShown
PROPERTIES
  PauseLeavesNothing
  ViewSpec
  ErrorIsShown
  ReadIsReported
CHECK_DEADLOCK FALSE
