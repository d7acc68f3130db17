SPECIFICATION Spec
CONSTANTS
    Surfaces = {s1, s2}
    Videos = {s1}
    Buffers = {b1, b2}
    None = None
    MaxFlips = 1
INVARIANTS  ShownUntilReplaced RenderMutexHandedOver PathAgrees
CHECK_DEADLOCK FALSE
