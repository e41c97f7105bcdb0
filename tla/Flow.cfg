CONSTANTS
    None = None
    MaxFaults = 2
    Cap = 3
    MaxChunks = 3
    Chunk <- Chunks
SPECIFICATION FairSpec
INVARIANTS
    OnlyPlannedLeaves
    AnsweredAsTold
    StreamsRecordedInOrder
PROPERTY EverythingEnds
\* A flow that is done stays done, and a stopped engine stays stopped.
CHECK_DEADLOCK FALSE
