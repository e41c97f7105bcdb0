CONSTANTS
    Procs = {p1, p2}
    Parts = 3
    Shared = FALSE
    MaxLines = 4
    MaxOpens = 4
    r = r
    Unattributed = Unattributed
    Sharers = {p1, p2}
    Runs = {r, Unattributed}
    Blobs = {b1}
    MaxStarts = 4
    MaxItems = 3
    NoProc = NoProc
SPECIFICATION FairSpec
INVARIANTS
    LinesSurvive
    SeqsDense
    LocksProtect
PROPERTIES
    RunsInUseStay
    WaitersGetIn
\* A writer may append nothing more, and the last process may have exited.
CHECK_DEADLOCK FALSE
