----------------------------- MODULE DosServices -----------------------------
(***************************************************************************)
(* INT 21h: the services of class DOS that keep state - drives, current    *)
(* directory, files and the extended error - with the classes they call:   *)
(* HandleTable, VolumeManager, HostDirectoryMapper, HostFile, ConsoleFile  *)
(* and DOSException.  An action is one whole call, from the registers the  *)
(* program set to the registers it gets back; calls do not overlap, which  *)
(* SignalDispatch establishes.                                             *)
(*                                                                         *)
(* A DOS path is the sequence of its components, as `\` separates them:    *)
(* `\GAME` is <<"", "GAME">>, `GAME` is <<"GAME">>, the empty path <<"">>. *)
(***************************************************************************)
EXTENDS Integers, Sequences, FiniteSets

CONSTANTS
    MaxEntries,   \* NUM_FILE_HANDLES: 20
    NumConsoles,  \* the standard handles the constructor allocates: 5
    HostFdLimit,  \* bound of the host: files the process can have open
    HostFiles,    \* regular files below the base directory (external)
    HostDirs,     \* directories below the base directory (external)
    FileErrors,   \* what errno may be when the host refuses an existing file (external)
    PathArgs,     \* the paths the program passes
    DriveArgs,    \* the drive numbers the program passes or writes before `:`
    Strays,       \* pointers that may lie in the memory operator new gives the table
    InitialBlocks,\* what `new T*[n]`, which nothing clears, may find there
    NULL

MAX_DRIVE == 25

CountMod == 65536   \* uint16_t

ERROR_NO_ERROR == 0
ERROR_FUNCTION_NOT_SUPPORTED == 1
ERROR_FILE_NOT_FOUND == 2
ERROR_PATH_NOT_FOUND == 3
ERROR_OUT_OF_HANDLES == 4
ERROR_ACCESS_DENIED == 5
ERROR_INVALID_HANDLE == 6
ERROR_OUT_OF_MEMORY == 8
ERROR_INVALID_DATA == 13
ERROR_INVALID_DRIVE == 15
ERROR_GENERAL_FAILURE == 31
ERROR_UNKNOWN == 255

ASSUME DosServicesAssumption ==
    /\ NumConsoles \in Nat
    /\ MaxEntries \in Nat /\ MaxEntries >= NumConsoles /\ MaxEntries > 0
    /\ 2 * MaxEntries < CountMod
    /\ HostFdLimit \in Nat
    /\ DriveArgs \subseteq 0 .. 255

\* File objects are numbered: the standard ones, then those over host files.
Consoles == 1 .. NumConsoles
HostObjects == NumConsoles + 1 .. NumConsoles + HostFdLimit
Objects == Consoles \cup HostObjects

Handles == 0 .. MaxEntries - 1

\* A stray is an entry no call has stored.  What it points to is not known.
ASSUME StraysAreNoObjects ==
    /\ NULL \notin Objects \cup Strays
    /\ Strays \cap Objects = {}
    /\ InitialBlocks \subseteq [Handles -> Strays \cup {NULL}]

VARIABLES
    mObjects, mNumEntries,     \* mOpenFiles
    tableReply, tableStatus,   \* what HandleTable's last call returned or threw
    found,                     \* history: the content the table's block began with
    booted,                    \* console handles the constructor has allocated
    live,                      \* the File objects that exist
    volume25,                  \* what the constructor left in mVolumes[25]
    mCurrentDrive,
    mCurPathName,              \* of the one volume, drive 2
    mLastError,
    regs,                      \* who answered the last call, carry, and EAX
    process                    \* "running", or how the program was ended

table == <<mObjects, mNumEntries, tableReply, tableStatus>>
vars == <<table, found, booted, live, volume25, mCurrentDrive, mCurPathName, mLastError,
          regs, process>>

FoundUsed == {h \in Handles : found[h] # NULL}

Table == INSTANCE HandleTable WITH
    strays <- Cardinality(FoundUsed), reply <- tableReply, status <- tableStatus

-----------------------------------------------------------------------------
(* Volumes and host paths.                                                 *)

\* mVolumes[25] is the one slot the constructor's loop does not reach.
Volume(d) ==
    CASE d = 2 -> "host"
      [] d = MAX_DRIVE -> volume25
      [] OTHER -> NULL

\* HostDirectoryMapper's base directory is "."; UnixPath appends the DOS path to it
\* as text, so only a path that begins with `\` stays below that directory: `GAME`
\* becomes `.GAME`.  Empty components vanish.
HostPath(path) ==
    LET below == SelectSeq(Tail(path), LAMBDA c : c # "")
    IN  IF Head(path) = "" THEN below ELSE <<"dot " \o Head(path)>> \o below

Exists(path) == HostPath(path) \in HostFiles \cup HostDirs

\* The base directory, which `\` names, exists.
ASSUME BaseDirectoryExists == Exists(<<"">>)

\* createFile: the name is appended to the current path as text.
Qualified(path) == mCurPathName \o path

Proper(s) == {SubSeq(s, 1, n) : n \in 1 .. Len(s) - 1}

\* UnixException::getError: what becomes of errno ...
OSError(errno) ==
    CASE errno \in {"EPERM", "EACCES"} -> "OS_ACCESS_DENIED"
      [] errno \in {"ENOENT", "EISDIR"} -> "OS_FILE_NOT_FOUND"
      [] errno \in {"EIO", "ENOSPC"} -> "OS_IO_ERROR"
      [] errno \in {"EBADF", "EINVAL"} -> "OS_INVALID_PARAMETER"
      [] errno \in {"ENOMEM", "ENFILE", "EMFILE"} -> "OS_OUT_OF_MEMORY"
      [] errno = "EFAULT" -> "OS_BAD_ADDRESS"
      [] OTHER -> "OS_UNKNOWN_ERROR"

\* Mutant: the error of a directory opened as a file gets no code.
DosErrorWithHole(e) ==
    CASE e = "OS_ACCESS_DENIED" -> ERROR_ACCESS_DENIED
      [] e = "OS_OUT_OF_MEMORY" -> ERROR_OUT_OF_MEMORY
      [] e = "OS_IO_ERROR" -> ERROR_GENERAL_FAILURE
      [] OTHER -> ERROR_NO_ERROR

\* ... and DOSException's conversion: the code the program gets.
DosError(e) ==
    CASE e = "OS_ACCESS_DENIED" -> ERROR_ACCESS_DENIED
      [] e = "OS_INVALID_PARAMETER" -> ERROR_INVALID_DATA
      [] e \in {"OS_IO_ERROR", "OS_BAD_ADDRESS"} -> ERROR_GENERAL_FAILURE
      [] e = "OS_FILE_NOT_FOUND" -> ERROR_FILE_NOT_FOUND
      [] e = "OS_OUT_OF_MEMORY" -> ERROR_OUT_OF_MEMORY
      [] OTHER -> ERROR_UNKNOWN

\* The errors open(O_RDWR) may give for the host path: those of FileErrors can happen
\* to any existing file; a file used as a directory is ENOTDIR.
HostOpenErrors(path) ==
    LET p == HostPath(path)
    IN  CASE Cardinality(live \cap HostObjects) = HostFdLimit -> {"EMFILE"}
          [] p \in HostFiles -> FileErrors
          [] p \in HostDirs -> {"EISDIR"}
          [] OTHER -> IF Proper(p) \cap HostFiles # {} THEN {"ENOTDIR"}
                                                      ELSE {"ENOENT"}

CanOpen(path) ==
    /\ HostPath(path) \in HostFiles
    /\ Cardinality(live \cap HostObjects) < HostFdLimit

-----------------------------------------------------------------------------
Init ==
    /\ found \in InitialBlocks
    /\ mObjects = found
    /\ Table!Init
    /\ booted = 0
    /\ live = {}
    /\ volume25 \in {NULL, "wild"}
    /\ mCurrentDrive = 2
    /\ mCurPathName = <<"">>
    /\ mLastError = ERROR_NO_ERROR
    /\ regs = [by |-> "none", cf |-> FALSE, eax |-> 0]
    /\ process = "running"

\* DOS::DOS allocates the five standard handles.  If strays fill the table, allocate
\* never returns.
Construct ==
    /\ booted < NumConsoles
    /\ \/ Table!Allocate(booted + 1) /\ booted' = booted + 1
       \/ Table!AllocateSpins /\ UNCHANGED booted
    /\ live' = live \cup {booted + 1}
    /\ UNCHANGED <<found, volume25, mCurrentDrive, mCurPathName, mLastError, regs,
                   process>>

Ready == booted = NumConsoles /\ process = "running" /\ tableStatus = "ok"

\* The call returns with carry clear; NULL is an EAX left as the program set it and
\* stands for every byte count and position ...
Return(value) ==
    /\ regs' = [by |-> "DOS", cf |-> FALSE, eax |-> value]
    /\ UNCHANGED <<mLastError, process>>

\* ... or handleInterrupt catches a DOSException ...
Throw(code) ==
    /\ regs' = [by |-> "DOS", cf |-> TRUE, eax |-> code]
    /\ mLastError' = code
    /\ UNCHANGED process

\* ... or the program ends: "stopped" by canResume = false, "aborted" by an exception
\* nobody catches, "crashed" by a wild pointer, "exited" by its own wish.  After a call
\* through a stray pointer anything may happen: "undefined".
End(how) ==
    /\ process' = how
    /\ UNCHANGED <<regs, mLastError>>

-----------------------------------------------------------------------------
(* Drives and directories.                                                 *)

\* Mutant: an empty slot is not refused.
SetAnyDrive(d) ==
    /\ Ready
    /\ mCurrentDrive' = IF d <= MAX_DRIVE THEN d ELSE mCurrentDrive
    /\ Return(MAX_DRIVE)
    /\ UNCHANGED <<table, found, booted, live, volume25, mCurPathName>>

\* 0Eh
SetCurrentDrive(d) ==
    /\ Ready
    /\ mCurrentDrive' = IF d <= MAX_DRIVE /\ Volume(d) # NULL THEN d ELSE mCurrentDrive
    /\ Return(MAX_DRIVE)
    /\ UNCHANGED <<table, found, booted, live, volume25, mCurPathName>>

\* 19h
GetCurrentDrive ==
    /\ Ready
    /\ Return(mCurrentDrive)
    /\ UNCHANGED <<table, found, booted, live, volume25, mCurrentDrive, mCurPathName>>

\* extractDrive: the letter before `:`, or the current drive.
DriveOf(d) == IF d = NULL THEN mCurrentDrive ELSE d

NoVolume(d) == Volume(d) = NULL /\ Throw(ERROR_INVALID_DRIVE)

WildVolume(d) == Volume(d) = "wild" /\ End("crashed")

\* Mutant: the path is stored before it is checked.
SetPathThenCheck(d, path) ==
    /\ Ready
    /\ \/ NoVolume(DriveOf(d)) /\ UNCHANGED mCurPathName
       \/ WildVolume(DriveOf(d)) /\ UNCHANGED mCurPathName
       \/ /\ Volume(DriveOf(d)) = "host"
          /\ mCurPathName' = path
          /\ IF Exists(path) THEN Return(NULL)
                             ELSE Throw(ERROR_PATH_NOT_FOUND)
    /\ UNCHANGED <<table, found, booted, live, volume25, mCurrentDrive>>

\* 3Bh
SetCurrentDirectory(d, path) ==
    /\ Ready
    /\ \/ NoVolume(DriveOf(d)) /\ UNCHANGED mCurPathName
       \/ WildVolume(DriveOf(d)) /\ UNCHANGED mCurPathName
       \/ /\ Volume(DriveOf(d)) = "host"
          /\ IF Exists(path)
             THEN mCurPathName' = path /\ Return(NULL)
             ELSE Throw(ERROR_PATH_NOT_FOUND) /\ UNCHANGED mCurPathName
    /\ UNCHANGED <<table, found, booted, live, volume25, mCurrentDrive>>

\* 47h: DL = 0 is the current drive, 1 is A, ...
GetCurrentDirectory(dl) ==
    LET d == IF dl = 0 THEN mCurrentDrive ELSE dl - 1
    IN  /\ Ready
        /\ \/ NoVolume(d)
           \/ WildVolume(d)
           \/ Volume(d) = "host" /\ Return(NULL)
        /\ UNCHANGED <<table, found, booted, live, volume25, mCurrentDrive, mCurPathName>>

-----------------------------------------------------------------------------
(* Files.                                                                  *)

\* allocate, in all the ways HandleTable knows ...
TableAllocates(f) ==
    \/ Table!Allocate(f) \/ Table!AllocateRefused
    \/ Table!AllocateSpins \/ Table!AllocateOutOfBounds(f)

\* ... and what the program gets: a handle, an error, or no answer.
TableAnswers ==
    IF tableStatus' # "ok" THEN UNCHANGED <<regs, mLastError, process>>
    ELSE IF tableReply'.ok THEN Return(tableReply'.value)
                           ELSE Throw(tableReply'.value)

\* 3Dh: the host file is opened first; when the table is full, the HostFile and its
\* descriptor are not given back.
Open(d, path) ==
    /\ Ready
    /\ \/ NoVolume(DriveOf(d)) /\ UNCHANGED <<table, live>>
       \/ WildVolume(DriveOf(d)) /\ UNCHANGED <<table, live>>
       \/ /\ Volume(DriveOf(d)) = "host"
          /\ \E errno \in HostOpenErrors(Qualified(path)) : Throw(DosError(OSError(errno)))
          /\ UNCHANGED <<table, live>>
       \/ /\ Volume(DriveOf(d)) = "host"
          /\ CanOpen(Qualified(path))
          /\ \E f \in HostObjects \ live :
                /\ live' = live \cup {f}
                /\ TableAllocates(f)
                /\ TableAnswers
    /\ UNCHANGED <<found, booted, volume25, mCurrentDrive, mCurPathName>>

\* A File is called, or deleted, that no call has created.
UseStray(file) == file \in Strays /\ End("undefined")

\* Mutants: the object is deleted and the handle kept; the handle is given up and the
\* object kept.
CloseKeepsHandle(h) ==
    /\ Ready
    /\ Table!Get(h)
    /\ live' = live \ {tableReply'.value}
    /\ Return(NULL)
    /\ UNCHANGED <<found, booted, volume25, mCurrentDrive, mCurPathName>>

CloseKeepsFile(h) ==
    /\ Ready
    /\ \/ Table!ReleaseValid(h) /\ Return(NULL)
       \/ Table!ReleaseInvalid(h) /\ Throw(tableReply'.value)
    /\ UNCHANGED <<found, live, booted, volume25, mCurrentDrive, mCurPathName>>

\* 3Eh: the entry is cleared, then the object deleted.  Deleting a stray may go
\* unnoticed.
Close(h) ==
    /\ Ready
    /\ \/ /\ Table!ReleaseValid(h)
          /\ live' = live \ {tableReply'.value}
          /\ Return(NULL) \/ UseStray(tableReply'.value)
       \/ /\ Table!ReleaseInvalid(h)
          /\ Throw(tableReply'.value)
          /\ UNCHANGED live
    /\ UNCHANGED <<found, booted, volume25, mCurrentDrive, mCurPathName>>

\* What a call on a valid handle does: a console call always succeeds, except seek;
\* a host call may throw an OSException, which no one catches; a call on a stray may
\* come back.
OnConsole(fn) ==
    IF fn = "42" THEN Throw(ERROR_FUNCTION_NOT_SUPPORTED) ELSE Return(NULL)

OnHostFile == Return(NULL) \/ End("aborted")

OnFile(fn, file) ==
    CASE file \in Consoles -> OnConsole(fn)
      [] file \in HostObjects -> OnHostFile
      [] OTHER -> Return(NULL) \/ UseStray(file)

\* 3Fh, 40h, 42h
Transfer(fn, h) ==
    /\ Ready
    /\ Table!Get(h)
    /\ IF tableReply'.ok THEN OnFile(fn, tableReply'.value)
                         ELSE Throw(tableReply'.value)
    /\ UNCHANGED <<found, booted, live, volume25, mCurrentDrive, mCurPathName>>

\* 44h: only sub-function 0 exists; the answer goes to DX.
Ioctl(sub, h) ==
    /\ Ready
    /\ IF sub # 0 THEN End("stopped") /\ UNCHANGED table
       ELSE /\ Table!Get(h)
            /\ IF tableReply'.ok THEN Return(NULL) \/ UseStray(tableReply'.value)
                                 ELSE Throw(tableReply'.value)
    /\ UNCHANGED <<found, booted, live, volume25, mCurrentDrive, mCurPathName>>

-----------------------------------------------------------------------------
(* The extended error, the end, and what the DOS extender keeps to itself. *)

\* 59h
GetExtendedError(sub) ==
    /\ Ready
    /\ IF sub # 0 THEN End("stopped") ELSE Return(mLastError)
    /\ UNCHANGED <<table, found, booted, live, volume25, mCurrentDrive, mCurPathName>>

\* 4Ch, and every function number without a case.
Leave ==
    /\ Ready
    /\ End("exited") \/ End("stopped")
    /\ UNCHANGED <<table, found, booted, live, volume25, mCurrentDrive, mCurPathName>>

\* 4Ah, EDh and FFh are answered by DOSExtender: a failure sets carry, and neither
\* EAX nor the extended error.
ExtenderFails ==
    /\ Ready
    /\ regs' = [by |-> "extender", cf |-> TRUE, eax |-> NULL]
    /\ UNCHANGED <<table, found, booted, live, volume25, mCurrentDrive, mCurPathName,
                   mLastError, process>>

-----------------------------------------------------------------------------
HandleArgs == 0 .. MaxEntries

Next ==
    \/ Construct
    \/ \E d \in DriveArgs : SetCurrentDrive(d) \/ GetCurrentDirectory(d)
    \/ GetCurrentDrive
    \/ \E d \in DriveArgs \cup {NULL}, p \in PathArgs :
          SetCurrentDirectory(d, p) \/ Open(d, p)
    \/ \E h \in HandleArgs :
          \/ Close(h)
          \/ \E fn \in {"3F", "40", "42"} : Transfer(fn, h)
          \/ \E sub \in {0, 1} : Ioctl(sub, h)
    \/ \E sub \in {0, 1} : GetExtendedError(sub)
    \/ Leave
    \/ ExtenderFails

Spec == Init /\ [][Next]_vars

-----------------------------------------------------------------------------
(* Properties.                                                              *)

TypeOK ==
    /\ Table!TypeOK
    /\ found \in InitialBlocks
    /\ booted \in 0 .. NumConsoles
    /\ live \subseteq Objects
    /\ volume25 \in {NULL, "wild"}
    /\ mCurrentDrive \in {2, MAX_DRIVE}
    /\ mCurPathName \in PathArgs \cup {<<"">>}
    /\ mLastError \in 0 .. 255
    /\ regs.cf \in BOOLEAN
    /\ process \in {"running", "exited", "stopped", "aborted", "crashed", "undefined"}

\* Every handle in use names a File object that exists, and no two name the same:
\* closing one handle never pulls the file from under another.  The exception is an
\* entry that is what the uncleared block held there from the beginning.
HandlesOwnTheirFiles ==
    \A h \in Handles : mObjects[h] \notin {NULL, found[h]} =>
        /\ mObjects[h] \in live
        /\ \A k \in Handles : mObjects[k] = mObjects[h] => k = h

\* Host files that are open although no handle names them.
Leaked == (live \cap HostObjects) \ {mObjects[h] : h \in Handles}

\* Two ways to lose a host descriptor, and nothing gives it back: an open that is
\* refused because every handle names a file of the program, and an open that never
\* answers, which takes a block with strays.
LeakOnlyWhenFull ==
    [][Leaked' # Leaked =>
          /\ Leaked \subseteq Leaked'
          /\ \/ /\ \A h \in Handles : mObjects[h] \in live
                /\ regs' = [by |-> "DOS", cf |-> TRUE, eax |-> ERROR_OUT_OF_HANDLES]
             \/ tableStatus' # "ok" /\ FoundUsed # {}]_vars

\* A call of class DOS that fails reports one code other than 0, in EAX and to a later
\* 59h as the extended error; whatever succeeds in between, and whatever the extender
\* fails at, does not disturb it.
FailureIsReported ==
    [][IF regs'.cf /\ regs'.by = "DOS"
       THEN regs'.eax = mLastError' /\ mLastError' # ERROR_NO_ERROR
       ELSE UNCHANGED mLastError]_vars

\* A call that fails, and leaves the program running, has changed neither the handles
\* nor the drive nor the current directory.
FailedCallsAreAtomic ==
    [][regs'.cf /\ process' = "running" =>
          UNCHANGED <<mObjects, mNumEntries, mCurrentDrive, mCurPathName>>]_vars

\* The current drive has a volume and the current directory exists, unless memory
\* that was never initialised passed for the volume of drive 25.
CurrentPlaceExists ==
    volume25 = NULL => Volume(mCurrentDrive) = "host" /\ Exists(mCurPathName)

\* What the comment in VolumeManager::setCurrentDrive says: "keep current drive if
\* new one is invalid".  The current drive always has a volume of the program.
InvalidDriveIsNotKept == Volume(mCurrentDrive) = "host"

-----------------------------------------------------------------------------
(* What the program sees of its handles. *)

\* The handles calls have given out.
Given == {h \in Handles : mObjects[h] \in Objects}

OpenFiles == [h \in Given |-> mObjects[h]]

Service == INSTANCE FileService WITH
    open <- OpenFiles, answer <- regs, StandardFiles <- Consoles

\* Whatever the block held at first, a handle that a call has given out names one file
\* until the call that closes it, whatever is called in between; it is given out only
\* when free, with a file no other handle has, and refused only when none is free.
ImplementsService == Service!Spec
=============================================================================
