\* Queued requests are served and every message ends.
SPECIFICATION AnsweringSpec
CONSTANTS
    Inputs = {i1}
    Adds = {a1, a2}
    Interrupts = {}
    None = None
    MaxChain = 1
    MaxFaults = 0
    MaxCrashes = 0
    MaxEdits = 0
PROPERTY EveryMessageEnds
PROPERTY QueuedDuringTurnServed
\* A session with nothing left to do stops.
CHECK_DEADLOCK FALSE
