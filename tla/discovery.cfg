\* The program from its start: five links of every kind, the last of them
\* beyond the table, two notifications while it is read, every call may fail.
CONSTANTS
    MaxIndex = 5
    MAX_INTERFACE_SIZE = 5
    MaxEvents = 2
    MayFail = TRUE
    zp = 271
    Configs <- MCConfigs
SPECIFICATION StartupSpec
INVARIANTS
    StartupTypeOK
    CountFitsSlots
    EveryCardServed
    StatsOfThreads
    CapturesOnlyInitialised
    LoopsStayInside
    BestWithinCapacity
PROPERTIES
    StartsOrBlocks
CHECK_DEADLOCK FALSE
