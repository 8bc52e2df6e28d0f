SPECIFICATION Spec
CONSTANTS
    Folders = {f1, f2}
    Aliases = {1}
    Absent = Absent
    MaxDrafts = 2
    MaxEdits = 1
INVARIANT WriteBacksUp
CHECK_DEADLOCK FALSE
