SPECIFICATION Spec
CONSTANTS
    MaxStages = 4
    MaxParallel = 3
    MaxOrdered = 7
    MaxPools = 3
    MaxMachines = 7
    MaxEvents = 3
    MaxSamples = 3
    MaxRestarts = 1
INVARIANTS
    PlanFollowsItsRules
    LayoutPassesItsChecks
    CountersNeverInvent
CHECK_DEADLOCK FALSE
