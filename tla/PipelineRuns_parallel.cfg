SPECIFICATION Spec
CONSTANTS
    Coordinators = {c1}
    NoCoordinator = none
    Kind <- BranchKind
    DependsOn <- BranchNeeds
    MaxParallelStages = 2
    CleanupAfterRun = TRUE
    HasResult = TRUE
    Gate = 0
    Mutating = {1, 2}
    Failures = {"result"}
    MaxRetries = 1
    MaxInterrupts = 1
    MaxStalls = 0
    MaxExpiries = 1
INVARIANTS TypeOK OutcomeIsSound RowsTellTheTruth
PROPERTIES CleanupInOrder
CHECK_DEADLOCK FALSE
