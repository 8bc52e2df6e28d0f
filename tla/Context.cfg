\* Three turns of two iterations under the stream guard; a call of two attempts and
\* three pieces; two sessions with three turns; two turns of two iterations, with a
\* skill and a name of none; two histories of six rows.
SPECIFICATION MCSpec
CONSTANTS
    Paragraphs = {p1, p2, p3}
    Limits = {1, 2}
    Iterations = 2
    MaxTurns = 3
    MaxEdits = 2
    Ids = {c1}
    MaxCalls = 1
    MaxPieces = 3
    Attempts = 2
    n1 = n1
    n3 = n3
    s1 = s1
    Sessions = {x1, x2}
    TurnSizes <- MCTurns
    Size = 20
    Prefix = 1
    Request = 1
    Summaries = {1}
    AverageFloor = 4
    OutputFloor = 2
    OutputCap = 8
    PromptFloor = 4
    FallbackCap = 12
    BudgetTurns = 3
    MaxDeletes = 1
    Names = {n1, n3}
    SkillOf <- MCSkillOf
    None = None
    Versions = {1, 2}
    MaxIterations = 2
    ContextTurns = 2
    MaxExtras = 3
    Answers <- MCAnswers
    OwnId = {"f"}
    Natives = {"n"}
    Thought = "r"
    Histories = {h1, h2}
    Words = {w1}
    Queries = {w1, w2}
    Absent = Absent
    FirstId = 8
    RecallLimit = 2
    MaxRows = 6
    MaxCopies = 1
SYMMETRY Symmetry
INVARIANT StopsItsOwn BudgetKept 
PROPERTY AnswerShown RequestSound RecallExact
\* Each component may come to its end.
CHECK_DEADLOCK FALSE
