\* Deaths, losses of power and failing calls together.
SPECIFICATION Spec
CONSTANTS
    a1 = a1
    a2 = a2
    d1 = d1
    d2 = d2
    None = None
    Torn = Torn
    Inode <- Inodes6
    Agent <- Agents1
    Path <- Paths1
    MaxSeq = 3
    MaxDeaths = 1
    MaxPowerLoss = 2
    MaxRotations = 1
    MaxErrors = 1
INVARIANTS
    ScopeSurvivesCrashes
    ReplyIsSaved
