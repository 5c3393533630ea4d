\* A cancelled call leaves its command running without a slot.
SPECIFICATION Spec
CONSTANTS
    t1 = t1
    t2 = t2
    t3 = t3
    t4 = t4
    Task <- Tasks3
    MaxConcurrent = 2
    NumCores = 2
    Weight <- Light
    WeightCap = 2
    Modes = {"rlimit"}
    CountPartial = TRUE
INVARIANTS
    MaxConcurrentCommands
\* Each call is made once.
CHECK_DEADLOCK FALSE
