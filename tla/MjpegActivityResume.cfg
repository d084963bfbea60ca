\* Does onResume bring back both cameras?
SPECIFICATION ActSpec
CONSTANTS
  Cams = {1, 2}
  Slots = {k1}
  Streams = {s1, s2, s3}
  NoThread = NoThread
  NoStream = NoStream
  NoCam = NoCam
  MaxReads = 2
PROPERTY ResumeReconnectsBoth
CHECK_DEADLOCK FALSE
