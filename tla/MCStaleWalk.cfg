SPECIFICATION Spec
CONSTANTS
    PtrSize = 1
    BlockSize = 5
    NumBlocks = 7
    MaxTries = 1
    ZeroChunk = 12
    BlockCycles = 1
    Calls <- PathCalls
    Lens = {1, 6}
    Sizes = {1}
    MaxSize = 6
    MaxOps = 5
    MaxCrashes = 1
    MaxFaults = 0
    None = None
INVARIANT NoFalseCorrupt
