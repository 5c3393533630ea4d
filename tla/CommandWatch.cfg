\* A leader and two children, in and out of cgroups and sandboxes.
SPECIFICATION Spec
CONSTANTS
    Leader = leader
    k1 = k1
    k2 = k2
    Kids = {k1, k2}
    Hosts <- MCHosts
    MemCap = 1
    MaxOom = 1
    None = None
INVARIANTS
    TypeOK
    MemoryKillReported
    TimeoutKillsTree
PROPERTIES
    CallAnswers
    RssOverrunEnds
\* Nothing is followed after the reply.
CHECK_DEADLOCK FALSE
