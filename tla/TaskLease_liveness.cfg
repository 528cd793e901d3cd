SPECIFICATION FairSpec
CONSTANTS
    Orchestrators = {o1}
    DagRuns = {d1}
    Sweepers = {s1}
    Requests = {r1}
    NoToken = NoToken
    CanStall = TRUE
PROPERTY RunningIsSettled
\* Executors end.
CHECK_DEADLOCK FALSE
