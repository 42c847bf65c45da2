SPECIFICATION Spec
CONSTANTS
    Processors = {p1, p2, p3}
    Devices <- ElevenOrTwelve
INVARIANTS
    TypeOK
    KernelNotPreempted
    ThreadPoolLock
    SleepOutsideRaised
    EnumerationExclusive
SYMMETRY Symmetry
CHECK_DEADLOCK FALSE
VIEW View
