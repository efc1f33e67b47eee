\* Two general registers of four bits in four bytes, every segment register the
\* host's or the program's, two writes of each service, an INT below the stub and one
\* behind it, a CLI behind it.
SPECIFICATION Spec
CONSTANTS
    Byte = 2
    General = {"EAX", "ECX"}
    Patterns = {9}
    Values = {7}
    mOSCodeSel = 1
    mOSDataSel = 2
    mOSThreadSel = 3
    ProgramSels = {0}
    IntAddrs = {40, 200}
    FlagAddrs = {220}
    StubBase = 100
    StubSize = 64
    AddrMod = 256
    MaxWrites = 2
INVARIANTS TypeOK ResumesIntact ServiceSeesProgram
PROPERTY ComesBack
\* The process may be ended.
CHECK_DEADLOCK FALSE
