SPECIFICATION UpkeepSpec
CONSTANTS
    Experiments = {"x1", "x2"}
    Runs = {"r1", "r2"}
    Ops = {"o1", "o2", "o3"}
    Imports = {"i1"}
    Trials <- MCTrials
    Owns <- MCOwns
    Feeds <- MCFeeds
    Pinned = {}
    Workers = {"w1", "w2"}
    BatchSize = 2
    MaxFaults = 2
    Monitors = {"w1", "w2"}
    Targets = {"t1", "t2"}
    NoLease = "never"
INVARIANTS
    FilesFollowTheRows
PROPERTIES
    QueueDrains
    NewestVerdictStands
    VerdictSettles
    FollowerCatchesUp
CHECK_DEADLOCK FALSE
