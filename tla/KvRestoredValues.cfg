SPECIFICATION MCSpec
CONSTANTS
    c1 = c1
    None = None
    Key = {1, 2, 3}
    Value = {11, 12}
    MaxLevel = 2
    NumServers = 2
    Clerk = {c1}
    Script <- WriteThenRead
    Levels = {1}
    SnapshotAt <- AtTwo
    MaxFaults <- OneEach
    LateGets = FALSE
    OldInstall = FALSE
CONSTRAINT ApplyInTurn
INVARIANT RestoredReadsLastWrite
CHECK_DEADLOCK FALSE
