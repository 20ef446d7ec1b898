SPECIFICATION MemorizeSpec
CONSTANTS
    Messages = 3
    Stamp <- Stamps
    Synchronous = {2}
    MaxSlips = 0
CHECK_DEADLOCK FALSE
INVARIANTS UsedRemembered
