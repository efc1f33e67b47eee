\* Four entries, two objects, every pattern of entries left over in the block.
SPECIFICATION Spec
CONSTANTS
    MaxEntries = 4
    CountMod = 65536
    o1 = o1
    o2 = o2
    stray = stray
    NULL = NULL
    Objects <- MCObjects
    Strays <- MCStrays
    InitialBlocks <- MCBlocks
INVARIANTS
    TypeOK
    CountOffByStrays
    AllocateTerminates
PROPERTIES
    ImplementsAllocator
\* After undefined behaviour, or in the endless loop, nothing more is modelled.
CHECK_DEADLOCK FALSE
