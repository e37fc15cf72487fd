\* The root pair: it has nowhere to move.
SPECIFICATION Spec
CONSTANTS
    Blocks = {b1, b2, b3}
    Keys = {k1}
    Vals = {v1, v2}
    None = None
    Windows = 3
    RevMod = 8
    BlockCycles = 1
    IsRoot = TRUE
    MaxTries = 1
    MaxFaults = 1
    AnyRevs = {0, 4}
SYMMETRY Symmetry
INVARIANTS AlwaysMountable
PROPERTY IsAtomic
