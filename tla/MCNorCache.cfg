SPECIFICATION Spec
CONSTANTS
    Blocks = {b1, b2}
    NumWindows = 2
    Cells = {c1, c2}
    Clobbers = FALSE
    MaxPrograms = 2
    MaxFaults = 1
    MaxReadFaults = 1
    MaxCrashes = 1
    None = None
    Lost = Lost
SYMMETRY Perms
INVARIANTS TypeOK ReadsOwnWrites VerifiedIsDurable OnlyCachedPending
