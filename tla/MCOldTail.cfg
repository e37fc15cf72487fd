SPECIFICATION Spec
CONSTANTS
    PtrSize = 1
    BlockSize = 5
    NumBlocks = 4
    MaxTries = 1
    ZeroChunk = 12
    BlockCycles = 0
    Calls <- WriteCalls
    Lens = {1, 5}
    Sizes = {10}
    MaxSize = 11
    MaxOps = 5
    MaxCrashes = 0
    MaxFaults = 2
    None = None
INVARIANT HandleIntact
