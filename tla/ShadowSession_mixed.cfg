CONSTANTS
    Runs = {r1, r2}
    Keys = {k1}
    Objects = {o1, o2}
    r1 = r1
    r2 = r2
    k1 = k1
    o1 = o1
    o2 = o2
    NoKey = NoKey
    NoFlow = NoFlow
    NoRun = NoRun
    Flows = {f1, f2}
    Requests <- MixedRequests
    MaxEndedRuns = 1
    MaxEnds = 2
SPECIFICATION FairSpec
INVARIANTS
    CheckSeesEarlierWrites
    EndedRunsHoldNothing
PROPERTIES
    FakedWritesAreAnswered
    ImplementsMemory
\* Every flow may have been answered and every run ended.
CHECK_DEADLOCK FALSE
