SPECIFICATION FairSpec
CONSTANTS
    NumRings = 2
    RingCapacity = 2
    Batch = 2
    SegmentSize = 3
    MaxPushes = 5
    MaxIOErrors = 2
INVARIANTS
    Conserved
    ReadBack
    FlushedBeforeSignal
PROPERTIES
    EventuallyPublished
    ReturnsAfterShutdown
