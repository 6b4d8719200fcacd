SPECIFICATION Spec
CONSTANTS
    Requests = {r1, r2}
    Tasks = {t1, t2}
    Messages = {m1}
    MaxGuidance = 1
    MaxRuns = 3
    None = None
SYMMETRY Symmetry
INVARIANTS TypeOK ReportStandsOnReview IncompleteIsDirected
PROPERTIES KeepsWork
CHECK_DEADLOCK FALSE
