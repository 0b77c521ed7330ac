SPECIFICATION Spec
CONSTANTS
    s1 = s1
    s2 = s2
    u1 = u1
    g1 = g1
    g2 = g2
    e1 = e1
    e2 = e2
    e3 = e3
    NoGsub = NoGsub
    Slot = {s1, s2}
    User = {u1}
    Gsub = {g1}
    Stripe = {g1}
    OwnerOf <- MCOwnerOf
    Event = {e1, e2, e3}
    MaxCheckouts = 1
    Refundable = {1}
    LastYear = 0
INVARIANTS
    TypeOK
    OnlyNewestIsActive
    AppliedOnce
    AckedIsRecorded
PROPERTIES
    ImplementsLedger
SYMMETRY SlotAndEventSymmetry
