SPECIFICATION FairSpec
CONSTANTS
    Dirs = {"A", "B", "C", "D"}
    Files = {"f", "g", "h", "i"}
    Setups <- SplitSetups
    NumBlocks = 12
    Weight <- Unit
    None = None
INVARIANTS TypeOK NamespaceAtomic GstateSettled ThreadIsTree NoSharedBlock AlwaysParses OneBodyAtMost WithinBudget
PROPERTY Remounts
