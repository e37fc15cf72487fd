SPECIFICATION Spec
CONSTANTS
    Dirs = {"A", "B"}
    Files = {"f"}
    Setups <- TreeSetups
    NumBlocks = 10
    Weight <- Unit
    None = None
INVARIANTS NamespaceAtomic GstateSettled ThreadIsTree NoSharedBlock
PROPERTY MountLosesNoName
