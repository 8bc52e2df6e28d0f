\* One turn with parallel tools, an interrupt and errors.
SPECIFICATION FairSpec
CONSTANTS
    Calls = {p1, p2, q}
    Questions = {q}
    Interrupts = {x1}
    MaxIterations = 1
    MaxFaults = 1
    MaxCot = 2
INVARIANT CotInOrder  AbortReachesTools
PROPERTY HistoryKept InterruptedTurnEnds
\* A turn that is over stops.
CHECK_DEADLOCK FALSE
