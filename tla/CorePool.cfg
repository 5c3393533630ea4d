\* Starts, exits, deaths and reuse of pids, with too few cores for all.
SPECIFICATION FairSpec
CONSTANTS
    p1 = p1
    p2 = p2
    p3 = p3
    i1 = i1
    i2 = i2
    i3 = i3
    Nobody = Nobody
    Proc <- Procs3
    Pid <- Pids3
    NumCores = 3
    MaxConcurrent <- Wants3
INVARIANTS
    TypeOK
    ClaimsDisjoint
    ClaimRegistered
PROPERTY
    Starts
