\* Two agents, deaths of the process at every step of a save and of a start.
SPECIFICATION Spec
CONSTANTS
    a1 = a1
    a2 = a2
    d1 = d1
    d2 = d2
    None = None
    Torn = Torn
    Inode <- Inodes
    Agent <- Agents2
    Path <- Paths2
    MaxSeq = 3
    MaxDeaths = 2
    MaxPowerLoss = 0
    MaxRotations = 0
    MaxErrors = 0
INVARIANTS
    TypeOK
    ObservedNeverRolledBack
    SwapSeesWhatItReplaces
    LayersNarrowTogether
PROPERTY
    ImplementsRegister
