\* Files whose pages are not contiguous: the loaded object differs from the file.
SPECIFICATION Spec
CONSTANTS
    Images <- MCAll
    PageSize = 2
    HeapSize = 3
    Word = 1000
INVARIANT RegionsAreContiguous
\* load ends.
CHECK_DEADLOCK FALSE
