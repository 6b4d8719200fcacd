CONSTANTS
    j1 = j1 j2 = j2 c1 = c1 None = None
    Jobs <- TwoJobs Cancels <- OneCancel MaxActive = 1 Prunes = TRUE
SPECIFICATION RunnersSpec
INVARIANT TypeOK
PROPERTIES ImplementsPool JobsEnd CancelStops
CHECK_DEADLOCK FALSE
