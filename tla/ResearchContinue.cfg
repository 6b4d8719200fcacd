SPECIFICATION Spec
CONSTANTS
    Requests = {r1}
    Tasks = {t1, t2}
    Messages = {m1}
    MaxGuidance = 1
    MaxRuns = 3
    None = None
SYMMETRY Symmetry
INVARIANT ContinueIsHonoured
CHECK_DEADLOCK FALSE
