SPECIFICATION Spec
CONSTANTS
    PtrSize = 4
    BlockSizes = {128, 136, 256}
    MaxOffset = 1400
INVARIANTS IndexMatchesLayout CountMatchesLayout SeekArrives
