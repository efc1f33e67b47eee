\* A word of eight: offsets from -4 to 3, positions beyond the word, two objects on one
\* file of up to five bytes.
SPECIFICATION Spec
CONSTANTS
    Word = 8
    HostObjects = {f1, f2}
    Files = {game}
    StartSizes = {3}
    MaxSize = 5
    MaxPosition = 9
    Counts = {0, 3, 4}
    HighWords = {0, 1, 7}
    LowWords = {3, 4, 6}
    Modes = {0, 1, 2, 3}
    NULL = NULL
INVARIANTS TypeOK ProgramKnowsPosition
PROPERTY SeekLandsWhereAsked
\* The process may be aborted.
CHECK_DEADLOCK FALSE
