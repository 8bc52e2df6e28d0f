\* Inputs, a queued request, an interrupt, an error, a crash and an edit, interleaved at every await.
SPECIFICATION Spec
CONSTANTS
    Inputs = {i1}
    Adds = {a1}
    Interrupts = {x1}
    None = None
    MaxChain = 1
    MaxFaults = 1
    MaxCrashes = 1
    MaxEdits = 1
SYMMETRY Interchangeable
INVARIANT OneClaimant TurnExclusive GuardAccounted
PROPERTY InterruptKept
CHECK_DEADLOCK FALSE
