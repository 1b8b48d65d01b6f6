\* A ring of five slots and two values: every fill and every wrap-around.
CONSTANTS
    MaxSize = 5
    Elements = {a, b}
    Garbage = junk
SPECIFICATION Spec
INVARIANTS
    TypeOK
    FillAgrees
    LentSlotIntact
PROPERTY FifoSpec
