SPECIFICATION Spec
CONSTANTS
    Reads = {a, b}
    Methods = {m}
    Notes = {n}
    MaxTurns = 2
    MaxTools = 2
    MaxBatch = 2
    MaxRuns = 2
    MaxRestarts = 1
    FieldEdits = TRUE
    None = None
INVARIANTS TypeOK RepeatsOnlyWhatWasLost WithinAllowance SeenBeforeCited EndsWithReason
PROPERTIES ReadsAnswered
SYMMETRY Symmetry
CHECK_DEADLOCK FALSE
