SPECIFICATION FairSpec
CONSTANTS
    Tasks = {t1}
    Nodes = {n1}
    Dispatches = {1, 2}
    Requests = {r1}
    MaxConcurrency = 1
    MaxPolls = 1
    Reports <- NoLoad
    MaxFaults = 1
    NoTask = NoTask
    NoNode = NoNode
    NoDispatch = NoDispatch
INVARIANTS
    TypeOK
    CancelIsHeard
    EndedDispatchIsSettled
PROPERTY DispatchesEnd
PROPERTY OrphansAreFailed
\* Dispatches are used up.
CHECK_DEADLOCK FALSE
