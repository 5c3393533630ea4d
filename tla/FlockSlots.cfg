\* Weights above one (weight_cap 2), equal caps, a death, flock errors and files
\* that cannot be opened at every step.
SPECIFICATION FairSpec
CONSTANTS
    p1 = p1
    p2 = p2
    p3 = p3
    t1 = t1
    t2 = t2
    t3 = t3
    NoTask = NoTask
    Doctor = doctor
    Proc <- Procs
    Task <- Tasks
    Owner <- Owners
    MaxConcurrent <- Caps
    Weight <- Weights
    WeightCap = 2
    MaxCrashes = 1
    MaxOpenErrors = 1
    MaxProbes = 1
INVARIANTS
    TypeOK
    LocksAreAccounted
    CapIsGlobal
PROPERTIES
    ImplementsLease
    CallersProgress
