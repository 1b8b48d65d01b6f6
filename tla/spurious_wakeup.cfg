\* pthread_cond_wait on cond_pro returns by itself once.
CONSTANTS
    N = 2
    SpuriousProducers = TRUE
    CreateMayFail = FALSE
    ValueBound = 3
SPECIFICATION SafeSpec
INVARIANT NobodyCapturesDuringReport
