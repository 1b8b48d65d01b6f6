\* Four interfaces, nothing fails: who works when, and that it goes on.
CONSTANTS
    N = 4
    SpuriousProducers = FALSE
    CreateMayFail = FALSE
    ValueBound = 0
SPECIFICATION Spec
INVARIANTS
    TypeOK
    AllParkedDuringReport
    ValueCountsParked
    SomeoneGoesOn
PROPERTIES
    RoundsSpec
    EveryBlockIsReported
