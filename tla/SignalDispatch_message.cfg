SPECIFICATION Spec
CONSTANTS
    MaxInts = 1
    MaxTraps = 1
    ExitCodes = {0, 7}
    LowRegions = {}
INVARIANTS
    RefusalIsBadAccess
\* The process ends, waits for the program for ever, or deadlocks on the allocator.
CHECK_DEADLOCK FALSE
