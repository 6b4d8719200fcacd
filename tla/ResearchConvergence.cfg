SPECIFICATION DeliverySpec
CONSTANTS
    Papers = {P01, P02, P03}
    MaxParallel = 2
    Followups = 2
    Changes = 1
CONSTRAINT Bound
SYMMETRY Symmetry
INVARIANTS
    TypeOK
    ReadyIsReviewed
    WritersComeAfterAuthors
    RoutesOnCurrentText
PROPERTY DeliversAsPromised
