SPECIFICATION FairSpec
CONSTANTS
    kSyncBatchCount = 2
    kMaxSegmentNumEntries = 2
    SnapshotAt = {1}
    MaxRequests = 1
    MaxBatch = 1
    MaxFailures = 0
    MaxCrashes = 0
    Faults = {}
PROPERTY SaveReturns
CHECK_DEADLOCK FALSE
