SPECIFICATION Spec
CONSTANTS
    BarFlags = {{}, {0}, {1}, {2, 3}}
    Address = {12, 20, 31}
    Bases = {{}, {12, 31}, {20}}
    Prompt = FALSE
INVARIANT ProbeRestores
