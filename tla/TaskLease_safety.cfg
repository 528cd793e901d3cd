SPECIFICATION Spec
CONSTANTS
    Orchestrators = {o1, o2}
    DagRuns = {d1}
    Sweepers = {s1}
    Requests = {r1}
    NoToken = NoToken
    CanStall = TRUE
INVARIANTS
    TypeOK
    ActiveRowHasLease
    ReturnedExecutorHoldsNothing
    SoleOrchestrator
PROPERTY LostLeaseStaysLost
SYMMETRY Symmetry
\* Executors end.
CHECK_DEADLOCK FALSE
