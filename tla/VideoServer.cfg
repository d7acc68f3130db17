CONSTANTS
  Conns = {c1}
  Planes = {p1}
  Buffers = {b1, b2, b3}
  NoBuffer = NoBuffer
  NoConn = NoConn
  NoPlane = NoPlane
  Preroll = 2
  OffloadCapacity = 3
  MaxFrames = 4
  ExitTicks = 1
  MaxPosts = 1
SPECIFICATION Spec
INVARIANTS
  ReturnedIsForgotten
  NoBufferLost
  
  
  QueueIsBounded
PROPERTIES
  ShownInOrder
  ImplementsLoan
SYMMETRY MCSymmetry
CHECK_DEADLOCK FALSE
