CONSTANTS
    a = a
    b = b
    Ids = {a, b}
    Items <- AllItems
    Classes <- AllClasses
    QueueSize = 2
    MaxQueuedBytes = 2
    MaxPuts = 3
    MaxLives = 1
    Unattributed = Unattributed
    NoItem = NoItem
SPECIFICATION FairSpec
INVARIANTS
    EveryItemAccounted
    CountsOnDiskAtClose
    ReportFindsRunOnDisk
PROPERTY EndsArrive
\* A closed store stops.
CHECK_DEADLOCK FALSE
