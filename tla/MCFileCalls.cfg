\* Every call, by path or through a handle, with a pair that relocates and a device that fills up.
SPECIFICATION FairSpec
CONSTANTS
    PtrSize = 1
    BlockSize = 5
    NumBlocks = 6
    MaxTries = 1
    ZeroChunk = 12
    BlockCycles = 1
    Calls <- AnyCalls
    Lens = {1, 6}
    Sizes = {2}
    MaxSize = 8
    MaxOps = 3
    MaxCrashes = 1
    MaxFaults = 1
    None = None
INVARIANTS CommittedIntact MetadataApart
PROPERTY CallReturns
