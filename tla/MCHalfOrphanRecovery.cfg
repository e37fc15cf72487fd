SPECIFICATION Spec
CONSTANTS
    Dirs = {"A", "B"}
    Files = {"f"}
    Setups <- HalfOrphanRecovery
    NumBlocks = 10
    Weight <- Unit
    None = None
INVARIANT ThreadIsTree
