\* A pair that meets several worn blocks, in one commit or over many.
SPECIFICATION Spec
CONSTANTS
    Blocks = {b1, b2, b3, b4}
    Keys = {k1}
    Vals = {v1, v2}
    None = None
    Windows = 1
    RevMod = 10
    BlockCycles = 1
    IsRoot = FALSE
    MaxTries = 2
    MaxFaults = 2
    AnyRevs = {0}
SYMMETRY Symmetry
INVARIANTS StaleHalfIsOlder
PROPERTY IsAtomic
