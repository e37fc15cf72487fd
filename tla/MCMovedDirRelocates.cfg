SPECIFICATION Spec
CONSTANTS
    Dirs = {"A", "B"}
    Files = {"f"}
    Setups <- MovedDirRelocates
    NumBlocks = 10
    Weight <- Unit
    None = None
INVARIANT ThreadIsTree
