\* A captured_time of two seconds and a half, a wall clock set back a little,
\* and one flow followed through the blocks.
CONSTANTS
    CapturedTime = 5
    Second = 2
    SetupMayFail = TRUE
    MaxSetBack = 2
    MaxFailed = 2
    MaxErrors = 1
SPECIFICATION FlowSpec
INVARIANTS
    FlowTypeOK
    BlockBounded
    SocketsAccounted
    IntervalOfThisBlock
PROPERTIES
    ShortOnlyIfIdle
    BlockEnds
