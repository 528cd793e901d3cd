SPECIFICATION FairSpec
CONSTANTS
    n1 = n1
    n2 = n2
    n3 = n3
    Nodes = {n1, n2, n3}
    Unknown = Unknown
    Templates <- EveryTemplate
    MaxFaults = 1
INVARIANTS
    DependenciesFirst
    FailureStopsLaterLayers
    RefusedIsUnsortable
    CompletedRunRanEveryNode
PROPERTY RunIsSettled
\* The run ends.
CHECK_DEADLOCK FALSE
