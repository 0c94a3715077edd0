SPECIFICATION MCSpec
CONSTANTS
    c1 = c1
    None = None
    Key = {1, 2, 3}
    Value = {11, 12}
    MaxLevel = 2
    NumServers = 2
    Clerk = {c1}
    Script <- ReadThenWrite
    Levels = {1}
    SnapshotAt = {}
    MaxFaults <- TwoCalls
    LateGets = TRUE
    OldInstall = FALSE
CONSTRAINT ApplyInTurn
PROPERTY ReplicaIsLog
CHECK_DEADLOCK FALSE
