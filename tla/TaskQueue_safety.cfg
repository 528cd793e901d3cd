SPECIFICATION Spec
CONSTANTS
    Tasks = {t1}
    Consumers = {c1, c2, c3}
    NoToken = NoToken
    NoTask = NoTask
    MaxAttempts = 2
    Interference = {"pending", "running", "waiting_approval",
                    "completed", "failed", "cancelled"}
    CanLapse = TRUE
    MaxFaults = 2
    MaxResumes = 1
INVARIANTS
    DeliveriesBounded
SYMMETRY Symmetry
\* A queue without work waits.
CHECK_DEADLOCK FALSE
