CONSTANTS
  Conns = {c1}
  Planes = {p1}
  Buffers = {b1, b2}
  NoBuffer = NoBuffer
  NoConn = NoConn
  NoPlane = NoPlane
  Preroll = 0
  OffloadCapacity = 2
  MaxFrames = 3
  ExitTicks = 1
  MaxPosts = 1
SPECIFICATION FairSpec
PROPERTIES
  SpentComesBack
CHECK_DEADLOCK FALSE
