SPECIFICATION Spec
CONSTANTS
    s1 = s1
    s2 = s2
    c1 = c1
    c2 = c2
    Slot = {s1, s2}
    Coupon = {c1, c2}
    Cap = 1
    MaxOpened = 3
    LastTime = 2
INVARIANTS
    TypeOK
    IndexAgrees
    NotifiedOnce
    LeftOutForAReason
PROPERTY
    ConfirmationRevivesNothing
SYMMETRY SlotAndCouponSymmetry
CHECK_DEADLOCK FALSE
