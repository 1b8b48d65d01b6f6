\* One active interface sends a flow that it forwards for nobody.
CONSTANTS
    Size = 2
    Active = {0}
    Keys = {k1}
    Lengths = {1}
    Word = 3
    MaxFlow = 3
    SendCapacity = 2
    BeforeArray <- MCBeforeArray
    Elsewhere = elsewhere
    Garbage = garbage
    MaxPackets = 2
SPECIFICATION Spec
INVARIANT NoInputIsMinusOne
