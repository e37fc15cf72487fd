SPECIFICATION Spec
CONSTANTS
    Blocks = {b1, b2, b3}
    Keys = {k1}
    Vals = {v1, v2}
    None = None
    Windows = 2
    RevMod = 8
    BlockCycles = 1
    IsRoot = FALSE
    MaxTries = 2
    MaxFaults = 1
    AnyRevs = {0, 4}
SYMMETRY Symmetry
INVARIANTS TypeOK AlwaysMountable ProgramsErasedCells StaleHalfIsOlder
PROPERTY IsAtomic
