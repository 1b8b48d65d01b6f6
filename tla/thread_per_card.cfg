\* Four links, all within the table, and no notification.
CONSTANTS
    MaxIndex = 4
    MAX_INTERFACE_SIZE = 6
    MaxEvents = 0
    MayFail = FALSE
SPECIFICATION Spec
INVARIANTS
    ThreadPerCard
CHECK_DEADLOCK FALSE
