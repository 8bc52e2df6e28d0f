\* A request queued as the last turn ends is never started.
SPECIFICATION AnsweringSpec
CONSTANTS
    Inputs = {i1}
    Adds = {a1}
    Interrupts = {}
    None = None
    MaxChain = 1
    MaxFaults = 0
    MaxCrashes = 0
    MaxEdits = 0
PROPERTY QueuedItemRuns
\* A session with nothing left to do stops.
CHECK_DEADLOCK FALSE
