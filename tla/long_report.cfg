\* The XML of three flows is longer than the buffer of send_data.
CONSTANTS
    Size = 2
    Active = {0}
    Keys = {k1, k2}
    Lengths = {1}
    Word = 3
    MaxFlow = 4
    SendCapacity = 2
    BeforeArray <- MCBeforeArray
    Elsewhere = elsewhere
    Garbage = garbage
    MaxPackets = 3
SPECIFICATION Spec
INVARIANT AgentGetsReports
