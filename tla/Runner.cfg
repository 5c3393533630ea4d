\* Two heavy commands and two light ones, cap 2, a core for every slot.
SPECIFICATION FairSpec
CONSTANTS
    t1 = t1
    t2 = t2
    t3 = t3
    t4 = t4
    Task <- Tasks4
    MaxConcurrent = 2
    NumCores = 2
    Weight <- TwoHeavy4
    WeightCap = 2
    Modes = {"cgroup", "allowlist"}
    CountPartial = TRUE
INVARIANTS
    TypeOK
    PermitsConserved
    CoresExclusive
    ChildrenAccounted
PROPERTIES
    EveryCallEnds
\* Each call is made once.
CHECK_DEADLOCK FALSE
