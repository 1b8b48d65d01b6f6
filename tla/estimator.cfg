\* A ring of five slots (four counts), up to six blocks of up to three packets.
CONSTANTS
    MaxSize = 5
    Elements <- MCElements
    Garbage = junk
    Best = 2
    Uninitialised <- MCUninitialised
    MaxBlocks = 6
SPECIFICATION Spec
INVARIANTS
    TypeOK
    QueueHoldsLastBlocks
    SumsAreWindows
    IndexFresh
    SampledFitsRate
    DrawCoversRate
    AffineLoadPredicted
PROPERTIES
    SamplingSpec
CHECK_DEADLOCK FALSE
