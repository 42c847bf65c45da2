SPECIFICATION Spec
CONSTANTS
    Callers = {c1, c2}
    Kinds = {"gdt", "kptr", "growable", "objects"}
    InitialLength = 4
    MaxLength = 5
    LowEntries = 3
    ObjectWidth = 3
    MaxRequest = 2
    MaxShift = 1
    CountModulus = 5
SYMMETRY Symmetry
INVARIANTS
    TypeOK
    MutualExclusion
    LowerHalfReserved
    CountExact
