SPECIFICATION Spec
CONSTANTS
    Coordinators = {c1, c2}
    NoCoordinator = none
    Kind <- ChainKind
    DependsOn <- ChainNeeds
    MaxParallelStages = 0
    CleanupAfterRun = TRUE
    HasResult = FALSE
    Gate = 2
    Mutating = {1}
    Failures = {"cleanup"}
    MaxRetries = 0
    MaxInterrupts = 0
    MaxStalls = 1
    MaxExpiries = 1
INVARIANTS OutcomeIsSound
PROPERTIES DecidedOutcomeStands CleanupInOrder
SYMMETRY Symmetry
CHECK_DEADLOCK FALSE
