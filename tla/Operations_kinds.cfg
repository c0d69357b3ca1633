SPECIFICATION Spec
CONSTANTS
    provision = provision
    teardown = teardown
    discover = discover
    s1 = s1
    s2 = s2
    NoSlot = NoSlot
    NoOp = NoOp
    Validation <- MCValidation
    Ops = {teardown, discover}
    Slots = {s1}
    NumSteps = 1
    CleanupOps = {teardown}
    Mutating = {teardown}
    Discovery = {discover}
    Stalls = TRUE
CHECK_DEADLOCK FALSE
INVARIANTS
    ActiveHasLease
