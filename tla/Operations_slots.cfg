SPECIFICATION FairSpec
CONSTANTS
    provision = provision
    teardown = teardown
    discover = discover
    s1 = s1
    s2 = s2
    NoSlot = NoSlot
    NoOp = NoOp
    Validation <- MCValidation
    Ops = {provision}
    Slots = {s1, s2}
    NumSteps = 3
    CleanupOps = {}
    Mutating = {provision}
    Discovery = {}
    Stalls = TRUE
CHECK_DEADLOCK FALSE
INVARIANTS
    TypeOK
    SingleRunner
    ExecutedAtMostOnce
    SucceededIsVerified
PROPERTIES
    OnlyExpiryIsRevised
    RolledBackBeforeReport
    ClaimedSettles
    HonoursContract
