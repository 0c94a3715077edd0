SPECIFICATION MCSpec
CONSTANTS
    Call = {1, 2}
    Connection = {1, 2, 3}
    MaxDrops = 1
    m_retry = 1
    PartSent <- MCPartSent
    Ints <- MCInts
    Blobs <- MCBlobs
INVARIANTS
    RoundTrip
    FramesSurviveCuts
PROPERTIES
    CallsAreOnce
    CallsComplete
CHECK_DEADLOCK FALSE
