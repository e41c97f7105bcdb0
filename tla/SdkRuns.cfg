CONSTANTS
    c1 = c1
    c2 = c2
    http = http
    httpx = httpx
    Contexts = {c1, c2}
    Root = c1
    RunIds = {r1, r2}
    ReplayRun = replayed
    NoRun = NoRun
    Transports <- TwoTransports
    MaxNest = 2
    MaxWork = 1
    MaxFaults = 1
SPECIFICATION Spec
INVARIANTS
    RequestsLabelled
    PostsBracketRequests
    NoRunForgotten
\* Every block may have been left.
CHECK_DEADLOCK FALSE
