SPECIFICATION Spec
CONSTANTS
    kSyncBatchCount = 2
    kMaxSegmentNumEntries = 2
    SnapshotAt = {1, 2}
    MaxRequests = 3
    MaxBatch = 2
    MaxFailures = 1
    MaxCrashes = 1
    Faults = {}
CONSTRAINT WithinSegment
INVARIANTS
    SegmentsAreTheLog
    StableSurvives
    CountersFitSegment
    AckedInv
CHECK_DEADLOCK FALSE
