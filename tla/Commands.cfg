CONSTANTS
    ReturnCodes <- Reported
    MaxTerms = 2
    MaxCtrlCs = 3
    MaxSignals = 2
    Typed <- TypedLines
    Sources <- Stored
    Shipped <- AllShipped
    Overrides <- AllOverrides
    Flags <- AllFlags
    Allowed <- AllAllowed
    Requests <- AllRequests
    CredentialPathHosts <- BuiltIn
SPECIFICATION FairSpec
INVARIANTS
    CommandLookedAfter
    OutcomeTold
    DeathIsReported
    AnsweredAsMapped
PROPERTY CommandsEnd
\* irimi exits.
CHECK_DEADLOCK FALSE
