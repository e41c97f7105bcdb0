CONSTANTS
    k1 = k1
    w1 = w1
    w2 = w2
    Keys = {k1}
    NoKey = NoKey
    NoMatch = NoMatch
    Live = {f1, f2, f3, f4}
    Matches <- AllMatches
    Recordings <- AllRecordings
    NoFlow = NoFlow
    Flows = {w1, w2}
    Services = {"stripe", "slack"}
    Asks = "stripe"
    Objects = {"ch_1", "ch_2"}
    Telling = {"ch_1", "ch_2"}
    LastTick = 1
    MaxRest = 3
    MaxShown = 1
    Recordable <- AllRecordable
    MaxRun = 3
SPECIFICATION ReplaysSpec
INVARIANTS
    AnswersAsRecorded
    NothingStaleServed
    NothingMissedSilently
    ReadsUnderTheirWrites
    TotalsAgree
    ComparisonTells
SYMMETRY RequestSymmetry
\* Every request may have been answered.
CHECK_DEADLOCK FALSE
