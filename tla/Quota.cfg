SPECIFICATION Spec
CONSTANTS
    r1 = r1
    r2 = r2
    r3 = r3
    Req <- MCReq
    MinLimit = 1
    MaxLimit = 2
    WindowLength = 3
    Second = 2
    LastBucket = 1
INVARIANTS
    TypeOK
    CounterIsCharge
    GrantsWithinLimit
    DenialDeserved
    UnarmedKeyHasCulprit
PROPERTY
    ImplementsBudget
SYMMETRY RequestSymmetry
CHECK_DEADLOCK FALSE
