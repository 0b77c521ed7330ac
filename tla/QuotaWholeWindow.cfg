SPECIFICATION Spec
CONSTANTS
    r1 = r1
    r2 = r2
    r3 = r3
    Req <- MCReq
    MinLimit = 1
    MaxLimit = 1
    WindowLength = 3
    Second = 2
    LastBucket = 0
INVARIANT
    LimitHoldsForWholeWindow
SYMMETRY RequestSymmetry
CHECK_DEADLOCK FALSE
