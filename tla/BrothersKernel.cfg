SPECIFICATION Spec
CONSTANTS
    Processors = {p1, p2}
    Devices <- Eleven
INVARIANT
    HaltsOnlyInUserspace
CHECK_DEADLOCK FALSE
