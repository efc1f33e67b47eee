\* Seven pages of memory, up to three LDT entries to spare, blocks of 3 and 9 cells, and
\* environments below, at and above the first limit that has to be granular.
SPECIFICATION Spec
CONSTANTS
    Word = 32
    PageSize = 4
    ParagraphSize = 4
    MaxMemory = 13
    HeapEnd = 21
    LimitTop = 8
    LimitUnit = 4
    EnvironmentSizes = {3, 8, 30}
    Foreign = Foreign
    Sizes = {0, 3, 9}
    Paragraphs = {5, 6, 8}
    SpareEntries = {5, 6, 47}
    MaxBlocks = 3
INVARIANTS TypeOK SelectorsResolve AllocatedIsSum ReportAgrees
PROPERTY BlocksStand
\* The program may end.
CHECK_DEADLOCK FALSE
