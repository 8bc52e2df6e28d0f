\* Two drafts of a patch for two folders; two settings operations and a crash;
\* one project on two pages; two loads of two skill directories.
SPECIFICATION MCSpec
CONSTANTS
    Folders = {f1, f2}
    Aliases = {1}
    Absent = Absent
    MaxDrafts = 2
    MaxEdits = 1
    Providers = {p}
    Models = {chat}
    Embeddings = {emb}
    MaxOps = 2
    MaxCrashes = 1
    Empty = Empty
    Mixed = Mixed
    None = None
    Projects = {p1}
    Pages = {g1, g2}
    MaxDeletes = 2
    MaxCreates = 1
    MaxSessions = 1
    MaxWork = 2
    Loads = {l1, l2}
    Root <- MCRoot
    Names = {a, b}
    Lengths = {4}
    Broken = Broken
    Line = 2
    PathLength = 8
    AliasLength = 2
    RootLine = 5
    Intro = 1
    Limits = {15, 22, 24}
    SkillEdits = 1
SYMMETRY Symmetry
INVARIANT ManifestRestores KeptUnlessCrossed References ProjectsKept SkillsListed
\* Each component may come to its end.
CHECK_DEADLOCK FALSE
