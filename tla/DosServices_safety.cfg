SPECIFICATION Spec
CONSTANTS
    MaxEntries = 2
    NumConsoles = 1
    HostFdLimit = 2
    HostFiles <- MCHostFiles
    HostDirs <- MCHostDirs
    PathArgs <- MCPathArgs
    DriveArgs <- MCDriveArgs
    FileErrors <- MCFileErrors
    Strays <- MCStrays
    InitialBlocks <- MCBlocks
    stray = stray
    NULL = NULL
INVARIANTS
    TypeOK
    HandlesOwnTheirFiles
    CurrentPlaceExists
PROPERTIES
    LeakOnlyWhenFull
    FailureIsReported
    FailedCallsAreAtomic
    ImplementsService
\* The program ends.
CHECK_DEADLOCK FALSE
