SPECIFICATION Spec
CONSTANTS
    g1 = g1
    g2 = g2
    g3 = g3
    Gates = {g1, g2, g3}
    Depth <- DeepDepth
    OnDag = TRUE
    Handlers = {h1}
    Decisions = {"approved", "rejected"}
    CanCancel = TRUE
    NoGate = NoGate
    MaxFaults = 1
INVARIANT NoWorkUnapproved
INVARIANT CompletedIsApproved
\* The task ends.
CHECK_DEADLOCK FALSE
