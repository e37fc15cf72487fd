SPECIFICATION Spec
CONSTANTS
    Dirs = {"A", "B", "C", "D"}
    Files = {"f", "g", "h", "i"}
    Setups <- BudgetCuts
    NumBlocks = 12
    Weight <- Unit
    None = None
INVARIANT WithinBudget
