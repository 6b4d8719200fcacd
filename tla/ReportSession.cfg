SPECIFICATION Spec
CONSTANTS
    Requests = {r1, r2}
    Ids = {i1}
    MaxRuns = 3
    None = None
SYMMETRY Symmetry
INVARIANTS TypeOK VersionNamesText OncePerRequest UnreviewedByLapse
PROPERTY ImplementsBook
CHECK_DEADLOCK FALSE
