SPECIFICATION Spec
CONSTANTS
    Blocks = {b1, b2}
    NumWindows = 2
    Cells = {c1, c2}
    Clobbers = TRUE
    MaxPrograms = 3
    MaxFaults = 0
    MaxReadFaults = 1
    MaxCrashes = 1
    None = None
    Lost = Lost
SYMMETRY Perms
INVARIANT ReadsOwnWrites
