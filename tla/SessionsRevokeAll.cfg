SPECIFICATION Spec
CONSTANTS
    r1 = r1
    r2 = r2
    r3 = r3
    r4 = r4
    Req <- MCReq
    User = {u1}
INVARIANT
    RevokeAllEndsSessions
SYMMETRY RequestSymmetry
CHECK_DEADLOCK FALSE
