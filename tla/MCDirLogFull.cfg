SPECIFICATION Spec
CONSTANTS
    None = None
    Names = {"a", "b", "c", "d", "e"}
    Structs <- FileStructs
    Pairs = {"p"}
    Attrs = {"x"}
    Values = {"v"}
    Length <- Bodies
    BlockSize = 256
    ProgSize = 4
    MaxLive = 4
    SplitEntries = 3
    MaxSplitCuts = 2
    MaxPairs = 3
    Images <- FullImages
INVARIANT Replays
CHECK_DEADLOCK FALSE
