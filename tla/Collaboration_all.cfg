SPECIFICATION FairSpec
CONSTANTS
    Modes = {"relay", "sequential", "parallel"}
    Hops = 3
    Subtasks = 3
    Parallelism = 2
    MaxRounds = 1
    MaxFaults = 1
INVARIANTS
    TypeOK
    AnswersAreHandedOver
    FailuresStayApart
    OneFaultIsSurvived
PROPERTY RunEnds
\* The run ends.
CHECK_DEADLOCK FALSE
