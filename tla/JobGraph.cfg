SPECIFICATION Spec
CONSTANTS
    Stages = {s1, s2}
    Pipelines = {p1, p2}
    Steps = {a, b, c}
    Terminal = {a, b, c}
    Payloads <- MCPayloads
    Editors = {e1, e2}
    Readers = {r1}
    Null = Null
    MaxPerLevel = 3
    TempBase = 10
    MaxRequests = 3
    MaxFaults = 1
    s1 = s1
    s2 = s2
    p1 = p1
    p2 = p2
    a = a
    b = b
    c = c
SYMMETRY Symmetry
CHECK_DEADLOCK FALSE
INVARIANTS TypeOK SavedIsRead StepsNeverCollide
