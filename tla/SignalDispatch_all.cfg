SPECIFICATION FairSpec
CONSTANTS
    MaxInts = 2
    MaxTraps = 2
    ExitCodes = {0, 7}
    LowRegions = {"emulator"}
INVARIANTS
    TypeOK
    ServicesNeverOverlap
    ServiceIsCounted
    NoSpuriousRefusal
PROPERTIES
    TrapsAreAnswered
    InterruptEndsProcess
\* The process ends, waits for the program for ever, or deadlocks on the allocator.
CHECK_DEADLOCK FALSE
