SPECIFICATION Spec
CONSTANTS
    Dirs = {"A", "B"}
    Files = {"f"}
    Setups <- HalfOrphanMove
    NumBlocks = 10
    Weight <- Unit
    None = None
INVARIANT NamespaceAtomic
