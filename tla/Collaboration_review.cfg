SPECIFICATION Spec
CONSTANTS
    Modes = {"sequential"}
    Hops = 2
    Subtasks = 1
    Parallelism = 1
    MaxRounds = 0
    MaxFaults = 0
INVARIANT FailureNeverBlamesAnother
\* The run ends.
CHECK_DEADLOCK FALSE
