SPECIFICATION Spec
CONSTANTS
    None = None
    Names = {"a", "b", "c", "d", "e"}
    Structs <- FileStructs
    Pairs = {"p"}
    Attrs = {"x"}
    Values = {"v"}
    Length <- Bodies
    BlockSize = 128
    ProgSize = 4
    MaxLive = 6
    SplitEntries = 5
    MaxSplitCuts = 2
    MaxPairs = 3
    Images <- SmallImages
INVARIANTS
    TypeOK
    Replays
    AppendFits
    RebuildFits
    RemoveLands
PROPERTY
    ImplementsDirectory
CHECK_DEADLOCK FALSE
