\* Four items; two pages editing a queue of two items; two turns and two
\* summaries of one page; two requests and two drafts.
SPECIFICATION MCSpec
CONSTANTS
    Ids = {a, b, c}
    Pages = {p1, p2}
    Picks = {1, 2}
    Misfits = {2}
    FileLimit = 1
    MaxItems = 2
    MaxSent = 1
    MaxTool = 1
    MaxLag = 1
    Absent = Absent
    MaxTurns = 2
    MaxDeltas = 1
    MaxSummaries = 2
    MaxNet = 2
    LiveEvents = 1
    None = None
    Drafts = {d1, d2}
    MaxRequests = 2
    MaxEvents = 2
SYMMETRY Alike
INVARIANT NoRepeats 
PROPERTY QueueKept Converges 
\* Each component may come to its end.
CHECK_DEADLOCK FALSE
