SPECIFICATION Spec
CONSTANTS
    s1 = s1
    s2 = s2
    s3 = s3
    Server = {s1, s2, s3}
    Node0 = s1
    NoVote = NoVote
    Command = {c1}
    Ballots <- OneTerm
    Reach <- S1ToS2
    MaxLog = 2
    Restarts <- RestartS2
    MaxWalFailures = 0
    MaxInFlight <- Two
    SnapshotAt = {}
    TornPersist = FALSE
INVARIANTS
    CommitWithinLog
CHECK_DEADLOCK FALSE
