SPECIFICATION Spec
CONSTANTS
    Processors = {p1, p2}
    Devices = {d1}
    Offsets = {5, 8}
    Values = {0, 1}
    MaxCount = 2
    Latch <- StoreAll
    NoCall = NoCall
INVARIANTS
    TypeOK
    MutualExclusion
    PortPairing
PROPERTIES
    OnlyNamedRegisters
    AtomicRegisters
