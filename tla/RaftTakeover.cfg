SPECIFICATION FairSpec
CONSTANTS
    s1 = s1
    s2 = s2
    s3 = s3
    Server = {s1, s2, s3}
    Node0 = s1
    NoVote = NoVote
    Command = {c1, c2}
    Ballots <- Takeover
    Reach <- S1AndS2
    MaxLog = 1
    Restarts <- NoRestart
    MaxWalFailures = 0
    MaxInFlight <- One
    SnapshotAt = {}
    TornPersist = FALSE
INVARIANTS
    EntryIdentity
    LeaderComplete
PROPERTIES
    LeaderAppendOnly
    EntriesGetApplied
CHECK_DEADLOCK FALSE
