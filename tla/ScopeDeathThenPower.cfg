\* A death leaves the tmp file unsynced; the start commits it; power is lost.
SPECIFICATION Spec
CONSTANTS
    a1 = a1
    a2 = a2
    d1 = d1
    d2 = d2
    None = None
    Torn = Torn
    Inode <- Inodes
    Agent <- Agents1
    Path <- Paths1
    MaxSeq = 2
    MaxDeaths = 1
    MaxPowerLoss = 1
    MaxRotations = 0
    MaxErrors = 0
INVARIANTS
    ObservedNeverRolledBack
