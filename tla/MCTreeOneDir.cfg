SPECIFICATION Spec
CONSTANTS
    Dirs = {"A", "B", "C", "D"}
    Files = {"f", "g", "h", "i"}
    Setups <- OneDirLonger
    NumBlocks = 12
    Weight <- Unit
    None = None
INVARIANTS TypeOK NamespaceAtomic GstateSettled ThreadIsTree NoSharedBlock AlwaysParses OneBodyAtMost WithinBudget
