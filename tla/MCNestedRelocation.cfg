SPECIFICATION Spec
CONSTANTS
    Dirs = {"A", "B"}
    Files = {"f"}
    Setups <- NestedRelocation
    NumBlocks = 10
    Weight <- Unit
    None = None
INVARIANT OneBodyAtMost
