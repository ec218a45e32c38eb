SPECIFICATION Spec
CONSTANTS
    Constructs = {"while", "if", "case", "list"}
    Outcomes = {0, 1}
    Errexit = FALSE
    Posix = FALSE
    MaxLevels = 1
    MaxSignals = 0
    MaxFrames = 4
PROPERTIES
    OrdinaryFailureGoesOn
