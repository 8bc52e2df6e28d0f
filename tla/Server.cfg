\* Three servers and another process with three pids; one connection; two chat
\* requests; a process that writes a line; two user hooks.
SPECIFICATION MCSpec
CONSTANTS
    Procs = {s1, s2, s3, o1}
    Others = {o1}
    Pids = {n1, n2, n3}
    None = None
    Clients = {w1}
    Limit = 3
    MaxRequests = 2
    MaxEvents = 4
    MaxLines = 1
    Inputs <- MCInputs
    UserHooks = 2
    MaxIterations = 1
    RewriterLimit = 2
    MaxEffects = 3
INVARIANT OneServer ChatsFree HooksApplied
PROPERTY VanishedLeaves ToolCallEnds HooksEnd
\* Each component may come to its end.
CHECK_DEADLOCK FALSE
