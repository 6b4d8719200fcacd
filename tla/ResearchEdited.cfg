SPECIFICATION Spec
CONSTANTS
    Papers = {P01, P02}
    MaxParallel = 2
    Followups = 1
    Changes = 1
SYMMETRY Symmetry
INVARIANT EditsAreRead
