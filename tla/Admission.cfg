\* Two updates and one dashboard action at a time, three codes,
\* one deletion of the person, one fault.
CONSTANTS
    u1 = u1
    u2 = u2
    a1 = a1
    Updates <- TwoUpdates
    Admins <- OneAdmin
    MaxCodes = 3
    MaxDeletions = 1
    MaxFaults = 1
SPECIFICATION Spec
SYMMETRY Sym
INVARIANTS
    NoticeOnce
    OneCodeAtATime
PROPERTIES
    ApprovalTakesEffect
CHECK_DEADLOCK FALSE
