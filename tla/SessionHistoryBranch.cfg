SPECIFICATION Spec
CONSTANTS
    Sessions = {s1, s2}
    Words = {w1}
    Queries = {w1, w2}
    Absent = Absent
    FirstId = 8
    RecallLimit = 2
    MaxRows = 6
    MaxCopies = 1
PROPERTY RecallAnywhere
CHECK_DEADLOCK FALSE
