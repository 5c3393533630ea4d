\* A wait, an execute_blocking and a cancel on two jobs, with room for one
\* record.
SPECIFICATION FairSpec
CONSTANTS
    w1 = w1
    w2 = w2
    c1 = c1
    NumJobs = 2
    Waiter = {w1, w2}
    Blocking = {w2}
    Canceller = {c1}
    Ids <- Calls
    Backends = {"slurm", "lsf"}
    ArraySets = {{2}}
    ArrayFates = {{"ok", "fail"}, {"ok", "killed"}, {"killed"}}
    Cap = 1
INVARIANTS
    TypeOK
    ResultIsTrue
    AnsweredOrEvicted
PROPERTIES
    EvictedWereOver
    WaitsEnd
\* Each call is made once.
CHECK_DEADLOCK FALSE
