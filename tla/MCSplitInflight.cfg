SPECIFICATION Spec
CONSTANTS
    Dirs = {"A", "B", "C", "D"}
    Files = {"f", "g", "h", "i"}
    Setups <- SplitInflight
    NumBlocks = 12
    Weight <- Unit
    None = None
INVARIANT NamespaceAtomic
