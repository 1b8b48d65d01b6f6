\* Two interfaces, two keys, tables of two flows, up to three packets a round.
CONSTANTS
    Size = 2
    Active = {0, 1}
    Keys = {k1, k2}
    Lengths = {1}
    Word = 3
    MaxFlow = 3
    SendCapacity = 2
    BeforeArray <- MCBeforeArray
    Elsewhere = elsewhere
    Garbage = garbage
    MaxPackets = 3
SPECIFICATION Spec
INVARIANTS
    TypeOK
    ListsCoverTable
    FlowsWhole
    ReportsAreTrue
    RateNeverZero
    InputIsAReceiver
SYMMETRY Symmetric
