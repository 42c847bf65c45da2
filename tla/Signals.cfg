SPECIFICATION Spec
CONSTANTS
    Depth = 3
    Faults = {"SIGFPE", "BREAKPOINT"}
    MaxStep = 2
    Null = Null
INVARIANTS
    TypeOK
    MainContextSafe
    ResumesInterrupted
