SPECIFICATION Spec
CONSTANTS
    PtrSize = 1
    BlockSize = 5
    NumBlocks = 8
    MaxTries = 1
    ZeroChunk = 5
    BlockCycles = 0
    Calls <- HandleCalls
    Lens = {1, 5}
    Sizes = {2, 5, 10}
    MaxSize = 11
    MaxOps = 4
    MaxCrashes = 0
    MaxFaults = 1
    None = None
INVARIANT SyncIsDurable
