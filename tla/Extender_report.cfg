\* More than MaxMemory is allocated, and more reported as free.
SPECIFICATION Spec
CONSTANTS
    Word = 32
    PageSize = 4
    ParagraphSize = 4
    MaxMemory = 13
    HeapEnd = 21
    LimitTop = 8
    LimitUnit = 4
    EnvironmentSizes = {3, 8, 30}
    Foreign = Foreign
    Sizes = {0, 3, 9}
    Paragraphs = {5, 6, 8}
    SpareEntries = {5, 6, 47}
    MaxBlocks = 3
INVARIANT ReportsAtMostMax
\* The program may end.
CHECK_DEADLOCK FALSE
