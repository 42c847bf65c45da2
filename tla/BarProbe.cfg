SPECIFICATION FairSpec
CONSTANTS
    BarFlags = {{}, {0}, {1}, {2, 3}}
    Address = {12, 20, 31}
    Bases = {{}, {12, 31}, {20}}
    Prompt = TRUE
INVARIANTS
    TypeOK
    ProbeRestores
    
PROPERTY
    ProbeEnds
