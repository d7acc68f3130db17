SPECIFICATION Spec
CONSTANTS
    A = A
    B = B
    sA1 = sA1
    sA2 = sA2
    sB = sB
    kA1 = kA1
    kA2 = kA2
    kB = kB
    pA1 = pA1
    pA2 = pA2
    pB = pB
    Surfaces = {sA1, sA2, sB}
    Keyboards = {kA1, kA2, kB}
    Pointers = {pA1, pA2, pB}
    ClientOf <- MCClientOf
    XdgClients = {A}
    None = None
SYMMETRY MCSymmetry
INVARIANTS FocusIsLive  EnterMatchesLeave
CHECK_DEADLOCK FALSE
