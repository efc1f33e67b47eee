\* Days of four seconds, seconds of three hundredths, a word of 32 thousandths.
SPECIFICATION Spec
CONSTANTS
    TailSize = 9
    ArgLists <- MCArgLists
    EnvBlocks <- MCEnvBlocks
    AppNames = {2}
    Day = 4
    Hundred = 3
    Ten = 2
    Word = 32
    StartTimes = {9}
    EndTime = 32
    BaseDates = {3}
    DstShifts = {0, 1}
    TimeArgs = {3, 4}
    CentiArgs = {0, 2, 3}
    MaxSets = 2
    PSP_DTA = 128
    DtaArgs = {1}
INVARIANTS TypeOK TailHoldsArguments EnvironmentIsComplete SetTimeIsKept
PROPERTY RunsForward
\* Without an environment the constructor crashes.
CHECK_DEADLOCK FALSE
