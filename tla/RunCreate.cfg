SPECIFICATION Spec
CONSTANTS
    Sessions = {s1}
    Threads = {t1}
    Runs = {r1, r2}
    Invocations = {i1, i2}
    ServerRuns = {x1, x2}
    Statuses = {running}
    Digests = {d1, d2}
    MaxOrdinal = 1
    None = None
INVARIANT TypeOK
INVARIANT ServerIdentityAgrees
INVARIANT OperatorDecides
INVARIANT OneExecutionPerInvocation
PROPERTY AppendOnly
PROPERTY ImplementsBinding
SYMMETRY Symmetry
CHECK_DEADLOCK FALSE
