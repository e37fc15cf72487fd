SPECIFICATION Spec
CONSTANTS
    Dirs = {"A", "B"}
    Files = {"f"}
    Setups <- RenameError
    NumBlocks = 10
    Weight <- Unit
    None = None
PROPERTY MountLosesNoName
CHECK_DEADLOCK FALSE
