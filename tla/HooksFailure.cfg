\* The hooks of one turn; the other components stand still or nearly so.
SPECIFICATION MCSpec
CONSTANTS
    Procs = {s1}
    Others = {}
    Pids = {n1}
    None = None
    Clients = {w1}
    Limit = 1
    MaxRequests = 1
    MaxEvents = 0
    MaxLines = 1
    Inputs <- MCInputs
    UserHooks = 2
    MaxIterations = 1
    RewriterLimit = 2
    MaxEffects = 3
INVARIANT FailureRecorded
\* Each component may come to its end.
CHECK_DEADLOCK FALSE
