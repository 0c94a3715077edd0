SPECIFICATION Spec
CONSTANTS
    s1 = s1
    s2 = s2
    s3 = s3
    Server = {s1, s2, s3}
    Node0 = s1
    NoVote = NoVote
    Command = {c1}
    Ballots <- Rivals
    Reach <- S1AndS2
    MaxLog = 0
    Restarts <- RestartS1
    MaxWalFailures = 0
    MaxInFlight <- One
    SnapshotAt = {}
    TornPersist = TRUE
INVARIANTS
    VoteOnce
CHECK_DEADLOCK FALSE
