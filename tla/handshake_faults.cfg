\* pthread_create may fail and either wait may return by itself: what still
\* holds.  A failed create leaves threads waiting for good, so the system stops.
CONSTANTS
    N = 3
    SpuriousProducers = TRUE
    CreateMayFail = TRUE
    ValueBound = 5
SPECIFICATION SafeSpec
INVARIANTS
    NoSleepOnFullCount
    OneProducerPerInterface
CHECK_DEADLOCK FALSE
