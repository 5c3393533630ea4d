\* Two calls, one or two slots, with and without dialogs, the log on and off.
SPECIFICATION Spec
CONSTANTS
    c1 = c1
    c2 = c2
    Push = Push
    Rm = Rm
    And = And
    None = None
    AutoWord = AutoWord
    Unbalanced = Unbalanced
    Pytest = Pytest
    Make = Make
    Ninja = Ninja
    Cargo = Cargo
    Call = {c1, c2}
    Commands <- MCCommands
    Deny = {Rm}
    Suspect = {Push}
    Sizes <- MCSizes
    Weights = {2}
    Hosts <- Servers
INVARIANTS
    TypeOK
    OnlyApprovedRuns
    AuditedOnce
    WorkersFitWeight
PROPERTY
    OthersProceed
\* Both calls may be over.
CHECK_DEADLOCK FALSE
