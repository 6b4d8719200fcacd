SPECIFICATION Spec
CONSTANTS
    Requests = {r1, r2}
    Ids = {i1}
    MaxRuns = 3
    None = None
SYMMETRY Symmetry
INVARIANT AcceptedWasReviewed
CHECK_DEADLOCK FALSE
