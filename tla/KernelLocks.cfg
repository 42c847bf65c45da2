SPECIFICATION Spec
CONSTANTS
    Processors = {p1, p2}
    Devices <- MCDevices
    None = None
SYMMETRY MCSymmetry
INVARIANTS
    TypeOK
    NoCircularWait
    Exclusion
    LosesOnlyOuterLocks
    VictimSearchOutside
    FollowsRules
PROPERTIES
    TakesLocksInOrder
    DevicesStayLocked
\* Every processor may end up behind a lock that was taken for good.
CHECK_DEADLOCK FALSE
