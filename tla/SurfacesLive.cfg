SPECIFICATION Spec
CONSTANTS
    Surfaces = {s1, s2}
    Videos = {s1}
    Buffers = {b1, b2}
    None = None
    MaxFlips = 0
PROPERTIES Paced
CHECK_DEADLOCK FALSE
