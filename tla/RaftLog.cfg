SPECIFICATION Spec
CONSTANTS
    s1 = s1
    s2 = s2
    s3 = s3
    Server = {s1, s2, s3}
    Node0 = s1
    NoVote = NoVote
    Command = {c1}
    Ballots <- AnyLeader
    Reach <- AllButS2ToS1
    MaxLog = 2
    Restarts <- NoRestart
    MaxWalFailures = 1
    MaxInFlight <- TwoToS3AndS1
    SnapshotAt = {1}
    TornPersist = TRUE
CONSTRAINT QuestionOfLeader
INVARIANTS
    LogIndexed
    CommitWithinLog
    MatchIsHeld
    AckedEntriesKept
PROPERTIES
    ProgressMonotone
CHECK_DEADLOCK FALSE
