SPECIFICATION Spec
CONSTANTS
    Contents = {m1, m2}
    Keys = {k1, k2, k3}
    MaxCalls = 3
    Overlap = FALSE
    None = None
SYMMETRY Symmetry
INVARIANTS TypeOK AtMostOnce NoBlindRepeat
PROPERTIES ImplementsLedger
CHECK_DEADLOCK FALSE
