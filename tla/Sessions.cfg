\* Two turns against any two of a deletion, a turn deletion, a branch and an
\* interrupt; two pages with two questions; two selfchecks of two rows.
SPECIFICATION MCSpec
CONSTANTS
    i1 = i1
    i2 = i2
    Turns = {t1, t2}
    Deletes = {d1}
    Cuts = {c1}
    Branches = {b1}
    Interrupts = {x1}
    Source = Source
    None = None
    Nobody = Nobody
    MaxEvents = 2
    Pages = {p1, p2}
    Questions = {q1, q2}
    Attaches = {h1}
    Root = Root
    Sub = Sub
    ClientEvents = 2
    Jobs = {j1, j2}
    Conns = {k1, k2}
    Issues = {i1, i2}
    RowIssue <- MCRowIssue
    Batch = 1
    Analyses = 2
    MaxAttempts = 3
    MaxFaults = 1
SYMMETRY Interchangeable
INVARIANT WholeTurns BranchOfFinishedTurns BranchSettles StrandedRequestWasLate DialogsTrue
PROPERTY DeleteSparesTurns SelfcheckSound
\* Each component may come to its end.
CHECK_DEADLOCK FALSE
