\* Four counts are three pairs, the last of which is not used.
CONSTANTS
    MaxSize = 5
    Elements <- MCElements
    Garbage = junk
    Best = 2
    Uninitialised <- MCUninitialised
    MaxBlocks = 4
SPECIFICATION Spec
INVARIANT EstimateIsLeastSquares
CHECK_DEADLOCK FALSE
