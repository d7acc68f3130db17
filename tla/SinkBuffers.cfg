SPECIFICATION FairSpec
CONSTANTS
    Buffers = {b1, b2}
    None = None
    Lead = 1
    MaxFrames = 2
    MaxSetups = 2
    MaxFlips = 2
INVARIANTS LocksAreHolders NotOverwritten NoneLost 
PROPERTIES Returns
CHECK_DEADLOCK FALSE
