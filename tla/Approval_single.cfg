SPECIFICATION FairSpec
CONSTANTS
    g1 = g1
    g2 = g2
    g3 = g3
    Gates = {g1}
    Depth <- FlatDepth
    OnDag = FALSE
    Handlers = {h1, h2}
    Decisions = {"approved", "rejected"}
    CanCancel = FALSE
    NoGate = NoGate
    MaxFaults = 1
INVARIANT WaitingStepIsDecidable
PROPERTY SuspensionEnds
\* The task ends.
CHECK_DEADLOCK FALSE
