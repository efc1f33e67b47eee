\* Every file a linker writes around the boundaries, and every kind of bad file.
SPECIFICATION Spec
CONSTANTS
    Images <- MCAll
    PageSize = 2
    HeapSize = 3
    Word = 1000
INVARIANTS TypeOK LoadedAsWritten ContiguousRegionsAreInside HeapIsMapped FailureFreesImage CrashNeedsBadReference
\* load ends.
CHECK_DEADLOCK FALSE
