\* A command line with an operator is rewritten.
SPECIFICATION Spec
CONSTANTS
    c1 = c1
    c2 = c2
    Push = Push
    Rm = Rm
    And = And
    None = None
    AutoWord = AutoWord
    Unbalanced = Unbalanced
    Pytest = Pytest
    Make = Make
    Ninja = Ninja
    Cargo = Cargo
    Call = {c1}
    Commands <- CompoundCommands
    Deny = {Rm}
    Suspect = {Push}
    Sizes <- MCSizes
    Weights = {1}
    Hosts <- OneServer
INVARIANTS
    ShellEquivalent
CHECK_DEADLOCK FALSE
