CONSTANTS
  Conns = {c1, c2}
  Planes = {p1}
  Buffers = {b1, b2}
  NoBuffer = NoBuffer
  NoConn = NoConn
  NoPlane = NoPlane
  Preroll = 0
  OffloadCapacity = 1
  MaxFrames = 2
  ExitTicks = 1
  MaxPosts = 1
SPECIFICATION Spec
INVARIANTS
  ScreenIsLive
SYMMETRY MCBothSymmetry
CHECK_DEADLOCK FALSE
