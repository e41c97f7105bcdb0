CONSTANTS
    Procs = {p1, p2}
    Parts = 2
    Shared = TRUE
    MaxLines = 3
    MaxOpens = 3
SPECIFICATION Spec
PROPERTY CutsOnlyItsOwn
\* A writer may append nothing more.
CHECK_DEADLOCK FALSE
