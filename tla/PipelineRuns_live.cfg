SPECIFICATION FairSpec
CONSTANTS
    Coordinators = {c1}
    NoCoordinator = none
    Kind <- ChainKind
    DependsOn <- ChainNeeds
    MaxParallelStages = 0
    CleanupAfterRun = TRUE
    HasResult = TRUE
    Gate = 2
    Mutating = {2}
    Failures = {"pipeline", "operation"}
    MaxRetries = 1
    MaxInterrupts = 1
    MaxStalls = 0
    MaxExpiries = 1
PROPERTIES RunSettles
CHECK_DEADLOCK FALSE
