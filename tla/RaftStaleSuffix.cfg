SPECIFICATION Spec
CONSTANTS
    s1 = s1
    s2 = s2
    s3 = s3
    Server = {s1, s2, s3}
    Node0 = s1
    NoVote = NoVote
    Command = {c1}
    Ballots <- Turns
    Reach <- ToS3
    MaxLog = 3
    Restarts <- NoRestart
    MaxWalFailures = 0
    MaxInFlight <- One
    SnapshotAt = {}
    TornPersist = FALSE
CONSTRAINT TurnsOnly
INVARIANTS
    LeaderComplete
CHECK_DEADLOCK FALSE
