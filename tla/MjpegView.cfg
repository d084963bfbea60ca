\* Two views, their decoders and the UI thread, fairly scheduled.  No symmetry:
\* there are temporal properties.  An uncaught exception ends the process.
SPECIFICATION FairSpec
CONSTANTS
  Cams = {1, 2}
  Slots = {k1, k2}
  Streams = {s1, s2}
  NoThread = NoThread
  NoStream = NoStream
  NoCam = NoCam
INVARIANTS
  IndInv
  OneDecoder
  NoDrawWithoutSurface
  NoReadAfterClose
  StreamingSeesDecoder
PROPERTIES
  SurfaceContract
  StopReturns
  SourceIsRead
CHECK_DEADLOCK FALSE
