SPECIFICATION RecordsSpec
CONSTANTS
    Ids = {"m1", "m2"}
    Ops = {"o1", "o2", "o3"}
    Creates <- MCCreates
    Shared = {"m2"}
    Temporary = {"o1"}
    Cleanups = {"c1", "c2", "c3"}
    Target <- MCTarget
    MaxFaults = 1
    Editors = {"e1", "e2"}
    Count = 2
    Keys = {"zone"}
    Values = {"a"}
    Workloads = {"d1", "d2"}
    NoVersion = 99
    MaxEdits = 2
INVARIANTS
    LedgerCoversMachines
    StoredIsInForce
    PlacementFollowsTheRow
CHECK_DEADLOCK FALSE
