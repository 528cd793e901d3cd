SPECIFICATION FairSpec
CONSTANTS
    Tasks = {t1, t2}
    Consumers = {c1, c2}
    NoToken = NoToken
    NoTask = NoTask
    MaxAttempts = 3
    Interference = {"completed", "failed", "cancelled"}
    CanLapse = FALSE
    MaxFaults = 2
    MaxResumes = 0
INVARIANT OneConsumerPerTask
PROPERTY ImplementsDelivery
PROPERTY PendingTaskIsTaken
\* A queue without work waits.
CHECK_DEADLOCK FALSE
