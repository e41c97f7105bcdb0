CONSTANTS
    a = a
    b = b
    Ids = {a}
    Items <- OwnItems
    Classes <- OwnClasses
    QueueSize = 2
    MaxQueuedBytes = 2
    MaxPuts = 3
    MaxLives = 2
    Unattributed = Unattributed
    NoItem = NoItem
SPECIFICATION Spec
INVARIANT RunsResumeWhole
PROPERTY EndIsKept
\* A closed store stops.
CHECK_DEADLOCK FALSE
