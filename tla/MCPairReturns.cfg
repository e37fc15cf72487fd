\* Two faults and the retry over worn candidates: every commit returns
\* (no symmetry, which liveness checking does not allow).
SPECIFICATION FairSpec
CONSTANTS
    Blocks = {b1, b2, b3}
    Keys = {k1}
    Vals = {v1, v2}
    None = None
    Windows = 1
    RevMod = 10
    BlockCycles = 1
    IsRoot = FALSE
    MaxTries = 2
    MaxFaults = 2
    AnyRevs = {}
PROPERTY CommitReturns
