CONSTANTS
    Known <- NoneKnown
    Plugins <- MCMaintenance
    MaxTroubles = 1
SPECIFICATION Spec
PROPERTY RollbackKeepsTheOriginals
CHECK_DEADLOCK FALSE
