SPECIFICATION Spec
CONSTANTS
    Requests = {1, 2, 3}
    a1 = a1
    a2 = a2
    n1 = n1
    Agents = {a1, a2}
    Nodes = {n1}
    NoAgent = NoAgent
    Default = NoAgent
    Messages <- Written
    MaxRelay = 2
    MaxRunning = 1
    Limits = {0}
    FirstLimit = 1
    Minute = 1
    MaxTime = 2
    MaxFaults = 1
INVARIANTS
    TypeOK
    RateIsBounded
    
    
\* Requests run out.
CHECK_DEADLOCK FALSE
