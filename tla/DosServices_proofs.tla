-------------------------- MODULE DosServices_proofs --------------------------
(***************************************************************************)
(* Proofs about DosServices, for every size of the handle table, every     *)
(* content of the memory it begins with, every number of descriptors the   *)
(* host grants, every content of the base directory and every path and     *)
(* drive the program passes.                                               *)
(***************************************************************************)
EXTENDS DosServices, FiniteSetTheorems, TLAPS

\* What is proved of HandleTable holds of mOpenFiles.
Proved == INSTANCE HandleTable_proofs WITH
    strays <- Cardinality(FoundUsed), reply <- tableReply, status <- tableStatus

\* The table of open files: its types, a counter off by the strays, and no endless
\* loop without strays.
TableInv == Proved!IInv

\* A stray lies where it was found.
StraysAreFound == \A h \in Handles : mObjects[h] \in Strays => mObjects[h] = found[h]

\* The consoles that exist are those the constructor has allocated, until it hangs.
ConsolesAreBooted == tableStatus = "ok" => live \cap Consoles \subseteq 1 .. booted

\* The last failure of class DOS is still the extended error.
LastFailureIsKept ==
    /\ regs.cf /\ regs.by = "DOS" => regs.eax = mLastError /\ mLastError # ERROR_NO_ERROR
    /\ booted < NumConsoles => ~regs.cf

\* The inductive invariant.
IInv ==
    /\ TypeOK
    /\ TableInv
    /\ StraysAreFound
    /\ HandlesOwnTheirFiles
    /\ ConsolesAreBooted
    /\ CurrentPlaceExists
    /\ LastFailureIsKept

-----------------------------------------------------------------------------
(* The handle table.                                                        *)

LEMMA TableAssumption == Proved!HandleTableAssumption
  BY DosServicesAssumption, StraysAreNoObjects
     DEF Proved!HandleTableAssumption, Proved!Handles, Handles, CountMod

LEMMA EntryTypes ==
  ASSUME TypeOK
  PROVE  /\ mObjects \in [Handles -> Objects \cup Strays \cup {NULL}]
         /\ found \in [Handles -> Strays \cup {NULL}]
         /\ Table!Handles = Handles /\ Proved!Handles = Handles
<1>1. Table!Handles = Handles /\ Proved!Handles = Handles
  BY DEF Table!Handles, Proved!Handles, Handles
<1>t. Table!TypeOK
  BY DEF TypeOK
<1>a. mObjects \in [Table!Handles -> Objects \cup Strays \cup {NULL}]
  BY <1>t, SMT DEF Table!TypeOK
<1>2. mObjects \in [Handles -> Objects \cup Strays \cup {NULL}]
  BY ONLY <1>1, <1>a
<1>3. found \in [Handles -> Strays \cup {NULL}]
  BY StraysAreNoObjects DEF TypeOK
<1> QED
  BY <1>1, <1>2, <1>3

LEMMA TableTypes == (TableInv => Table!TypeOK) /\ (TableInv' => Table!TypeOK')
<1>1. Table!Handles = Proved!Handles
  BY DEF Table!Handles, Proved!Handles
<1>2. (Proved!TypeOK => Table!TypeOK) /\ (Proved!TypeOK' => Table!TypeOK')
  BY ONLY <1>1 DEF Proved!TypeOK, Table!TypeOK
<1> QED
  BY <1>2 DEF TableInv, Proved!IInv

\* Without strays the table never hangs.
LEMMA HangTakesStrays ==
  ASSUME TableInv', UNCHANGED found, tableStatus' # "ok" PROVE FoundUsed # {}
<1>1. FoundUsed' = FoundUsed
  BY DEF FoundUsed
<1>2. Cardinality(FoundUsed) # 0
  BY <1>1 DEF TableInv, Proved!IInv, Proved!AllocateTerminates
<1> QED
  BY <1>2, FS_EmptySet

\* Every call of the table keeps its invariant.
LEMMA TableStep ==
  ASSUME TableInv, UNCHANGED found,
         \/ \E o \in Objects : Table!Allocate(o) \/ Table!AllocateOutOfBounds(o)
         \/ Table!AllocateRefused \/ Table!AllocateSpins
         \/ \E h \in HandleArgs : Table!ReleaseValid(h)
  PROVE  TableInv'
<1>1. UNCHANGED Cardinality(FoundUsed)
  BY DEF FoundUsed
<1>a. /\ Table!Handles = Proved!Handles
      /\ \A i, k, h : Table!Before(i, k, h) <=> Proved!Before(i, k, h)
  BY ONLY Zenon DEF Table!Handles, Proved!Handles, Table!Before, Proved!Before
<1>b. \A i, h : Table!ProbeStopsAt(i, h) <=> Proved!ProbeStopsAt(i, h)
  BY ONLY <1>a DEF Table!ProbeStopsAt, Proved!ProbeStopsAt
<1>c. \A o, h : Table!Store(o, h) <=> Proved!Store(o, h)
  BY ONLY SMT DEF Table!Store, Proved!Store, Table!Increment, Proved!Increment
<1>2. ASSUME NEW o \in Objects, Table!Allocate(o) PROVE Proved!Allocate(o)
  BY ONLY <1>2, <1>a, <1>b, <1>c DEF Table!Allocate, Proved!Allocate
<1>3. ASSUME NEW o \in Objects, Table!AllocateOutOfBounds(o)
      PROVE  Proved!AllocateOutOfBounds(o)
  BY ONLY <1>3, <1>a, <1>b, <1>c
     DEF Table!AllocateOutOfBounds, Proved!AllocateOutOfBounds, Table!Used, Proved!Used
<1>4. ASSUME Table!AllocateRefused PROVE Proved!AllocateRefused
  BY <1>4 DEF Table!AllocateRefused, Proved!AllocateRefused, Table!ERROR_OUT_OF_HANDLES,
              Proved!ERROR_OUT_OF_HANDLES
<1>5. ASSUME Table!AllocateSpins PROVE Proved!AllocateSpins
  BY <1>5 DEF Table!AllocateSpins, Proved!AllocateSpins, Table!Used, Proved!Used,
              Table!Handles, Proved!Handles
<1>6. ASSUME NEW h \in HandleArgs, Table!ReleaseValid(h)
      PROVE  Proved!ReleaseValid(h) /\ h \in Proved!HandleArgs
  BY <1>6 DEF Table!ReleaseValid, Proved!ReleaseValid, Table!Valid, Proved!Valid,
              Table!Decrement, Proved!Decrement, HandleArgs, Proved!HandleArgs
<1>7. Proved!Next
  BY <1>1, <1>2, <1>3, <1>4, <1>5, <1>6 DEF Proved!Next
<1> QED
  BY <1>7, TableAssumption, Proved!NextIInv DEF TableInv, Proved!HandleTableAssumption

\* An object gets a free entry, unless the table hangs.
Stored(o, h) ==
    /\ mObjects[h] = NULL
    /\ mObjects' = [mObjects EXCEPT ![h] = o]
    /\ tableStatus' = "ok"
    /\ tableReply' = [call |-> "allocate", ok |-> TRUE, value |-> h]

Hangs == tableStatus' # "ok" /\ FoundUsed # {} /\ UNCHANGED <<mObjects, mNumEntries>>

LEMMA AllocateEffect ==
  ASSUME IInv, UNCHANGED found, NEW o \in Objects,
         Table!Allocate(o) \/ Table!AllocateOutOfBounds(o) \/ Table!AllocateSpins
  PROVE  /\ TableInv'
         /\ Hangs \/ \E h \in Handles : Stored(o, h)
<1>1. TableInv'
  BY TableStep DEF IInv
<1>2. tableStatus = "ok"
  BY DEF Table!Allocate, Table!AllocateOutOfBounds, Table!AllocateSpins
<1>3. ASSUME NEW start, NEW h \in Table!Handles, Table!ProbeStopsAt(start, h),
             Table!Store(o, h), UNCHANGED tableStatus,
             tableReply' = [call |-> "allocate", ok |-> TRUE, value |-> h]
      PROVE  \E k \in Handles : Stored(o, k)
  BY <1>2, <1>3 DEF Table!ProbeStopsAt, Table!Store, Stored, Table!Handles, Handles
<1>4. CASE tableStatus' # "ok" /\ UNCHANGED <<mObjects, mNumEntries>>
  BY <1>1, <1>4, HangTakesStrays DEF Hangs
<1>5. CASE Table!Allocate(o)
  BY <1>1, <1>3, <1>5 DEF Table!Allocate
<1>6. CASE Table!AllocateOutOfBounds(o)
  BY <1>1, <1>3, <1>4, <1>6 DEF Table!AllocateOutOfBounds
<1>7. CASE Table!AllocateSpins
  BY <1>1, <1>4, <1>7 DEF Table!AllocateSpins
<1> QED
  BY <1>5, <1>6, <1>7

\* allocate refuses only when calls have filled every entry: the counter is off by the
\* strays, so it reaches MaxEntries only if there were none.
LEMMA RefusedIsFull ==
  ASSUME IInv, mNumEntries = MaxEntries
  PROVE  \A h \in Handles : mObjects[h] \in Objects /\ mObjects[h] \in live
<1>1. /\ mNumEntries = Proved!Cardinality(Proved!Used) - Cardinality(FoundUsed)
      /\ Proved!Cardinality(Proved!Used) \in 0 .. MaxEntries
      /\ Proved!Cardinality(Proved!Used) = MaxEntries <=> Proved!Used = Proved!Handles
  <2>1. mNumEntries <= MaxEntries
    BY DosServicesAssumption
  <2>2. Proved!TypeOK /\ Proved!CountOffByStrays
    BY DEF IInv, TableInv, Proved!IInv
  <2>3. mNumEntries = Proved!Cardinality(Proved!Used) - Cardinality(FoundUsed)
    BY <2>1, <2>2, TableAssumption, Proved!CounterReads DEF Proved!HandleTableAssumption
  <2> QED
    BY <2>3, TableAssumption, Proved!UsedFinite DEF Proved!HandleTableAssumption
<1>2. Cardinality(FoundUsed) \in Nat
  <2>1. IsFiniteSet(Handles) /\ FoundUsed \subseteq Handles
    BY DosServicesAssumption, FS_Interval DEF Handles, FoundUsed
  <2> QED
    BY <2>1, FS_Subset, FS_CardinalityType
<1>3. Cardinality(FoundUsed) = 0 /\ Proved!Cardinality(Proved!Used) = MaxEntries
  BY <1>1, <1>2, DosServicesAssumption
<1>4. FoundUsed = {}
  <2>1. IsFiniteSet(Handles) /\ FoundUsed \subseteq Handles
    BY DosServicesAssumption, FS_Interval DEF Handles, FoundUsed
  <2> QED
    BY <1>3, <2>1, FS_Subset, FS_EmptySet
<1>5. \A h \in Handles : found[h] = NULL /\ mObjects[h] # NULL
  BY <1>1, <1>3, <1>4, EntryTypes DEF FoundUsed, Proved!Used, IInv
<1>6. \A h \in Handles : mObjects[h] \in Objects
  BY <1>5, EntryTypes DEF IInv, StraysAreFound
<1> QED
  BY <1>5, <1>6, StraysAreNoObjects DEF IInv, HandlesOwnTheirFiles

\* Releasing a handle frees its entry and answers with what it named.
LEMMA ReleaseEffect ==
  ASSUME IInv, UNCHANGED found, NEW h \in HandleArgs, Table!ReleaseValid(h)
  PROVE  /\ TableInv'
         /\ h \in Handles
         /\ mObjects[h] # NULL
         /\ mObjects' = [mObjects EXCEPT ![h] = NULL]
         /\ UNCHANGED tableStatus
         /\ tableReply'.value = mObjects[h]
<1>1. h < MaxEntries /\ mObjects[h] # NULL
  BY DEF Table!ReleaseValid, Table!Valid
<1>2. h \in Handles
  BY <1>1, DosServicesAssumption DEF HandleArgs, Handles
<1>3. TableInv'
  BY TableStep DEF IInv
<1> QED
  BY <1>1, <1>2, <1>3 DEF Table!ReleaseValid

-----------------------------------------------------------------------------
(* Which parts of the invariant a call can disturb.                         *)

\* What the invariant says of the table and of the files.
FilesInv ==
    /\ Table!TypeOK
    /\ found \in InitialBlocks
    /\ booted \in 0 .. NumConsoles
    /\ live \subseteq Objects
    /\ TableInv
    /\ StraysAreFound
    /\ HandlesOwnTheirFiles
    /\ ConsolesAreBooted

\* What it says of the drive and of the current directory.
PlaceInv ==
    /\ volume25 \in {NULL, "wild"}
    /\ mCurrentDrive \in {2, MAX_DRIVE}
    /\ mCurPathName \in PathArgs \cup {<<"">>}
    /\ CurrentPlaceExists

\* How a program ends.
Ways == {"exited", "stopped", "aborted", "crashed", "undefined"}

\* What it says of the answer.
AnswerInv ==
    /\ mLastError \in 0 .. 255
    /\ regs.cf \in BOOLEAN
    /\ process \in {"running"} \cup Ways
    /\ LastFailureIsKept

LEMMA IInvParts == IInv <=> FilesInv /\ PlaceInv /\ AnswerInv
  BY DEF IInv, TypeOK, FilesInv, PlaceInv, AnswerInv, Ways

LEMMA PartsMakeIInv == FilesInv' /\ PlaceInv' /\ AnswerInv' => IInv'
  BY DEF IInv, TypeOK, FilesInv, PlaceInv, AnswerInv, Ways

LEMMA FilesUntouched ==
  ASSUME FilesInv, UNCHANGED <<mObjects, mNumEntries, tableStatus, found, booted, live>>
  PROVE  FilesInv'
<1>1. FoundUsed' = FoundUsed /\ Proved!Used' = Proved!Used
  BY DEF FoundUsed, Proved!Used
<1>2. TableInv'
  BY <1>1 DEF FilesInv, TableInv, Proved!IInv, Proved!TypeOK, Proved!CountOffByStrays,
              Proved!AllocateTerminates
<1>3. Table!TypeOK'
  BY <1>2, TableTypes
<1> QED
  BY <1>2, <1>3 DEF FilesInv, StraysAreFound, HandlesOwnTheirFiles, ConsolesAreBooted

LEMMA PlaceUntouched ==
  ASSUME PlaceInv, UNCHANGED <<volume25, mCurrentDrive, mCurPathName>> PROVE PlaceInv'
<1>1. Volume(mCurrentDrive)' = Volume(mCurrentDrive)
  BY DEF Volume
<1> QED
  BY <1>1 DEF PlaceInv, CurrentPlaceExists

\* The three ways a call is answered.
LEMMA ReturnAnswers ==
  ASSUME AnswerInv, NEW value, Return(value) PROVE AnswerInv' /\ ~regs'.cf
  BY DEF AnswerInv, LastFailureIsKept, Return

LEMMA ThrowAnswers ==
  ASSUME AnswerInv, Ready, UNCHANGED booted, NEW code \in 1 .. 255, Throw(code)
  PROVE  /\ AnswerInv'
         /\ regs' = [by |-> "DOS", cf |-> TRUE, eax |-> code] /\ mLastError' = code
  BY DosServicesAssumption DEF AnswerInv, LastFailureIsKept, Throw, Ready, ERROR_NO_ERROR

LEMMA EndAnswers ==
  ASSUME AnswerInv, UNCHANGED booted,
         NEW how \in Ways, End(how)
  PROVE  AnswerInv' /\ UNCHANGED <<regs, mLastError>>
  BY DEF AnswerInv, LastFailureIsKept, End

\* Every error the host can report has a code other than 0.
LEMMA DosErrorIsError == ASSUME NEW e PROVE DosError(e) \in 1 .. 255
  BY DEF DosError, ERROR_ACCESS_DENIED, ERROR_INVALID_DATA, ERROR_GENERAL_FAILURE,
         ERROR_FILE_NOT_FOUND, ERROR_OUT_OF_MEMORY, ERROR_UNKNOWN

LEMMA InitIInv == Init => IInv
<1> SUFFICES ASSUME Init PROVE IInv
  OBVIOUS
<1>1. mObjects = found /\ found \in InitialBlocks
  BY DEF Init
<1>2. TableInv
  <2>1. Table!Used = Proved!Used
    BY DEF Table!Used, Proved!Used, Table!Handles, Proved!Handles
  <2>2. \A S : Table!Cardinality(S) = Proved!Cardinality(S)
    BY DEF Table!Cardinality, Proved!Cardinality
  <2>3. Proved!Init
    BY <2>1, <2>2 DEF Init, Table!Init, Proved!Init
  <2> QED
    BY <2>3, TableAssumption, Proved!InitIInv DEF TableInv, Proved!HandleTableAssumption
<1>3. StraysAreFound
  BY <1>1 DEF StraysAreFound
<1>4. HandlesOwnTheirFiles /\ ConsolesAreBooted
  BY <1>1 DEF Init, HandlesOwnTheirFiles, ConsolesAreBooted
<1>a. NumConsoles \in Nat
  BY DosServicesAssumption
<1>b. booted = 0
  BY DEF Init
<1>5. booted \in 0 .. NumConsoles
  BY <1>a, <1>b
<1>6. Table!TypeOK /\ live \subseteq Objects
  BY <1>2, TableTypes DEF Init
<1>7. FilesInv
  BY <1>1, <1>2, <1>3, <1>4, <1>5, <1>6 DEF FilesInv
<1>8. Volume(2) = "host"
  BY DEF Volume, MAX_DRIVE
<1>9. PlaceInv
  BY <1>8, BaseDirectoryExists DEF Init, PlaceInv, CurrentPlaceExists
<1>10. regs.cf = FALSE /\ mLastError = 0 /\ process = "running"
  BY DEF Init, ERROR_NO_ERROR
<1>11. mLastError \in 0 .. 255
  BY <1>10
<1>12. AnswerInv
  BY <1>10, <1>11 DEF AnswerInv, LastFailureIsKept
<1> QED
  BY <1>7, <1>9, <1>12, IInvParts

-----------------------------------------------------------------------------
(* Every call keeps the invariant.  What the action properties say of a     *)
(* step is proved with it.                                                   *)

\* What LeakOnlyWhenFull, FailureIsReported and FailedCallsAreAtomic say of a step.
LeakStep ==
    Leaked' # Leaked =>
        /\ Leaked \subseteq Leaked'
        /\ \/ /\ \A h \in Handles : mObjects[h] \in live
              /\ regs' = [by |-> "DOS", cf |-> TRUE, eax |-> ERROR_OUT_OF_HANDLES]
           \/ tableStatus' # "ok" /\ FoundUsed # {}

ReportStep ==
    IF regs'.cf /\ regs'.by = "DOS"
    THEN regs'.eax = mLastError' /\ mLastError' # ERROR_NO_ERROR
    ELSE UNCHANGED mLastError

AtomicStep ==
    regs'.cf /\ process' = "running" =>
        UNCHANGED <<mObjects, mNumEntries, mCurrentDrive, mCurPathName>>

StepOK == IInv' /\ LeakStep /\ ReportStep /\ AtomicStep

\* How a call answers: it returns, throws a code other than 0, or ends the program.
Answers ==
    \/ \E value : Return(value)
    \/ \E code \in 1 .. 255 : Throw(code)
    \/ \E how \in Ways : End(how)

LEMMA AnswersReport ==
  ASSUME AnswerInv, Ready, UNCHANGED booted, Answers
  PROVE  AnswerInv' /\ ReportStep
<1>1. ASSUME NEW value, Return(value) PROVE AnswerInv' /\ ReportStep
  BY <1>1, ReturnAnswers DEF Return, ReportStep
<1>2. ASSUME NEW code \in 1 .. 255, Throw(code) PROVE AnswerInv' /\ ReportStep
  BY <1>2, ThrowAnswers DEF ReportStep, ERROR_NO_ERROR
<1>3. ASSUME NEW how \in Ways, End(how)
      PROVE  AnswerInv' /\ ReportStep
  BY <1>3, EndAnswers DEF AnswerInv, LastFailureIsKept, ReportStep
<1> QED
  BY <1>1, <1>2, <1>3 DEF Answers

\* Calls that change neither the table nor the files.
LEMMA QuietCall ==
  ASSUME IInv, Ready, Answers,
         UNCHANGED <<mObjects, mNumEntries, tableStatus, found, booted, live>>,
         PlaceInv', ~UNCHANGED <<mCurrentDrive, mCurPathName>> => ~regs'.cf
  PROVE  StepOK
<1>1. FilesInv' /\ AnswerInv' /\ ReportStep
  BY FilesUntouched, AnswersReport, IInvParts
<1>2. LeakStep
  BY DEF LeakStep, Leaked
<1>3. AtomicStep
  BY DEF AtomicStep
<1> QED
  BY <1>1, <1>2, <1>3, PartsMakeIInv DEF StepOK

LEMMA DriveCalls ==
  ASSUME IInv, NEW d,
         SetCurrentDrive(d) \/ GetCurrentDirectory(d) \/ GetCurrentDrive
  PROVE  StepOK
<1>1. CASE SetCurrentDrive(d)
  <2>1. Answers /\ ~regs'.cf
    BY <1>1 DEF SetCurrentDrive, Answers, Return
  <2>2. mCurrentDrive' = mCurrentDrive \/ (mCurrentDrive' = d /\ Volume(d) # NULL)
    BY <1>1 DEF SetCurrentDrive
  <2>3. UNCHANGED <<volume25, mCurPathName>>
    BY <1>1 DEF SetCurrentDrive
  <2>4. CASE mCurrentDrive' = mCurrentDrive
    <3>1. PlaceInv'
      BY <2>3, <2>4, PlaceUntouched, IInvParts
    <3> QED
      BY <1>1, <2>1, <3>1, QuietCall DEF SetCurrentDrive, table
  <2>5. CASE mCurrentDrive' = d /\ Volume(d) # NULL
    <3>1. d = 2 \/ (d = MAX_DRIVE /\ volume25 # NULL)
      BY <2>5 DEF Volume
    <3>2. Volume(2)' = "host"
      BY DEF Volume, MAX_DRIVE
    <3>3. CurrentPlaceExists'
      BY <2>3, <2>5, <3>1, <3>2, IInvParts DEF PlaceInv, CurrentPlaceExists
    <3>4. PlaceInv'
      BY <2>3, <2>5, <3>1, <3>3, IInvParts DEF PlaceInv
    <3> QED
      BY <1>1, <2>1, <3>4, QuietCall DEF SetCurrentDrive, table
  <2> QED
    BY <2>2, <2>4, <2>5
<1>2. CASE GetCurrentDirectory(d) \/ GetCurrentDrive
  <2>1. Answers
    BY <1>2 DEF GetCurrentDirectory, GetCurrentDrive, NoVolume, WildVolume, Answers, Ways,
                ERROR_INVALID_DRIVE
  <2>2. Ready /\ UNCHANGED <<mObjects, mNumEntries, tableStatus, found, booted, live,
                             volume25, mCurrentDrive, mCurPathName>>
    BY <1>2 DEF GetCurrentDirectory, GetCurrentDrive, table
  <2> QED
    BY <2>1, <2>2, PlaceUntouched, IInvParts, QuietCall
<1> QED
  BY <1>1, <1>2

LEMMA DirectoryCalls ==
  ASSUME IInv, NEW d \in DriveArgs \cup {NULL}, NEW p \in PathArgs, SetCurrentDirectory(d, p)
  PROVE  StepOK
<1>1. Ready /\ UNCHANGED <<mObjects, mNumEntries, tableStatus, found, booted, live,
                           volume25, mCurrentDrive>>
  BY DEF SetCurrentDirectory, table
<1>2. Answers
  BY DEF SetCurrentDirectory, NoVolume, WildVolume, Answers, Ways, ERROR_INVALID_DRIVE,
         ERROR_PATH_NOT_FOUND
<1>3. \/ mCurPathName' = mCurPathName
      \/ mCurPathName' = p /\ Exists(p) /\ Return(NULL)
  BY DEF SetCurrentDirectory
<1>4. CASE mCurPathName' = mCurPathName
  BY <1>1, <1>2, <1>4, PlaceUntouched, IInvParts, QuietCall
<1>5. CASE mCurPathName' = p /\ Exists(p) /\ Return(NULL)
  <2>1. Volume(mCurrentDrive)' = Volume(mCurrentDrive)
    BY <1>1 DEF Volume
  <2>2. PlaceInv'
    BY <1>1, <1>5, <2>1, IInvParts DEF PlaceInv, CurrentPlaceExists
  <2> QED
    BY <1>1, <1>2, <1>5, <2>2, QuietCall DEF Return
<1> QED
  BY <1>3, <1>4, <1>5

\* Opening a file: the files and their handles.
LEMMA StoreKeepsFiles ==
  ASSUME IInv, TableInv', UNCHANGED found, NEW o \in Objects \ live, NEW h \in Handles,
         Stored(o, h), live' = live \cup {o},
         booted' \in 0 .. NumConsoles, o \in Consoles => o \in 1 .. booted',
         1 .. booted \subseteq 1 .. booted', tableStatus = "ok"
  PROVE  FilesInv' /\ Leaked' = Leaked
<1>1. /\ mObjects \in [Handles -> Objects \cup Strays \cup {NULL}]
      /\ found \in [Handles -> Strays \cup {NULL}]
  BY EntryTypes DEF IInv
<1>2. /\ live \subseteq Objects /\ StraysAreFound
      /\ HandlesOwnTheirFiles /\ ConsolesAreBooted
  BY DEF IInv, TypeOK
<1>3. /\ mObjects[h] = NULL
      /\ \A k \in Handles : mObjects'[k] = IF k = h THEN o ELSE mObjects[k]
  BY <1>1 DEF Stored
<1>4. \A k \in Handles : mObjects[k] # o /\ found[k] # o
  BY <1>1, <1>2, StraysAreNoObjects DEF HandlesOwnTheirFiles
<1>5. HandlesOwnTheirFiles'
  BY <1>2, <1>3, <1>4 DEF HandlesOwnTheirFiles
<1>6. ConsolesAreBooted'
  BY <1>2 DEF ConsolesAreBooted
<1>7. {mObjects'[k] : k \in Handles} \cap Objects =
         ({mObjects[k] : k \in Handles} \cup {o}) \cap Objects
  BY <1>3, StraysAreNoObjects
<1>8. Leaked' = Leaked
  BY <1>2, <1>7 DEF Leaked, Objects
<1>9. StraysAreFound'
  BY <1>2, <1>3, StraysAreNoObjects DEF StraysAreFound
<1>10. Table!TypeOK' /\ found' \in InitialBlocks
  BY TableTypes DEF IInv, TypeOK
<1> QED
  BY <1>2, <1>5, <1>6, <1>8, <1>9, <1>10 DEF FilesInv

\* An object that gets no entry and is not deleted, whether or not the call answers.
LEMMA LostKeepsFiles ==
  ASSUME IInv, TableInv', UNCHANGED <<mObjects, found, booted>>, NEW o \in Objects \ live,
         live' = live \cup {o}, tableStatus' = "ok" => o \notin Consoles /\ tableStatus = "ok"
  PROVE  FilesInv' /\ Leaked \subseteq Leaked'
<1>1. Table!TypeOK'
  BY TableTypes
<1>2. StraysAreFound' /\ HandlesOwnTheirFiles' /\ ConsolesAreBooted'
  BY DEF IInv, StraysAreFound, HandlesOwnTheirFiles, ConsolesAreBooted
<1> QED
  BY <1>1, <1>2 DEF FilesInv, IInv, TypeOK, Leaked

\* A call that never answers.
LEMMA HangStep ==
  ASSUME IInv, TableInv', Hangs, UNCHANGED <<found, booted>>, NEW o \in Objects \ live,
         live' = live \cup {o},
         UNCHANGED <<volume25, mCurrentDrive, mCurPathName, mLastError, regs, process>>
  PROVE  StepOK
<1>1. FilesInv' /\ LeakStep
  BY LostKeepsFiles DEF Hangs, LeakStep
<1>2. AnswerInv' /\ ReportStep /\ AtomicStep
  BY IInvParts DEF AnswerInv, LastFailureIsKept, ReportStep, AtomicStep, Hangs
<1> QED
  BY <1>1, <1>2, IInvParts, PlaceUntouched, PartsMakeIInv DEF StepOK

LEMMA ConsoleIsNew ==
  ASSUME IInv, Construct
  PROVE  /\ booted + 1 \in Objects \ live /\ booted + 1 \in Consoles
         /\ booted + 1 \in 0 .. NumConsoles /\ booted + 1 \in 1 .. booted + 1
         /\ 1 .. booted \subseteq 1 .. booted + 1
         /\ tableStatus = "ok" /\ booted < NumConsoles
<1>a. NumConsoles \in Nat
  BY DosServicesAssumption
<1>b. booted \in 0 .. NumConsoles /\ booted < NumConsoles
  BY DEF Construct, IInv, TypeOK
<1>1. booted \in 0 .. NumConsoles /\ booted < NumConsoles /\ NumConsoles \in Nat
  BY <1>a, <1>b
<1>2. /\ booted + 1 \in Consoles /\ booted + 1 \notin 1 .. booted
      /\ booted + 1 \in 0 .. NumConsoles /\ booted + 1 \in 1 .. booted + 1
      /\ 1 .. booted \subseteq 1 .. booted + 1
  BY <1>1 DEF Consoles
<1>3. tableStatus = "ok"
  BY DEF Construct, Table!Allocate, Table!AllocateSpins
<1>4. booted + 1 \in Objects \ live
  BY <1>2, <1>3 DEF IInv, ConsolesAreBooted, Objects
<1> QED
  BY <1>1, <1>2, <1>3, <1>4

LEMMA ConstructStep == ASSUME IInv, Construct PROVE StepOK
<1> DEFINE o == booted + 1
<1>1. /\ o \in Objects \ live /\ o \in 0 .. NumConsoles /\ o \in 1 .. o
      /\ 1 .. booted \subseteq 1 .. o /\ tableStatus = "ok" /\ booted < NumConsoles
  BY ConsoleIsNew
<1>2. /\ \/ Table!Allocate(o) /\ booted' = o
         \/ Table!AllocateSpins /\ UNCHANGED booted
      /\ live' = live \cup {o}
      /\ UNCHANGED <<found, volume25, mCurrentDrive, mCurPathName, mLastError, regs,
                     process>>
  BY DEF Construct
<1> HIDE DEF o
<1>3. TableInv' /\ (Hangs \/ \E h \in Handles : Stored(o, h))
  BY <1>1, <1>2, AllocateEffect
<1>4. CASE Table!Allocate(o) /\ booted' = o
  <2>1. PICK h \in Handles : Stored(o, h)
    BY <1>1, <1>3, <1>4 DEF Table!Allocate, Hangs
  <2>2. FilesInv' /\ Leaked' = Leaked
    BY <1>1, <1>2, <1>3, <1>4, <2>1, StoreKeepsFiles
  <2>3. ~regs.cf /\ AnswerInv
    BY <1>1, IInvParts DEF AnswerInv, LastFailureIsKept
  <2>4. AnswerInv' /\ ReportStep /\ AtomicStep
    BY <1>2, <2>3 DEF AnswerInv, LastFailureIsKept, ReportStep, AtomicStep
  <2>5. PlaceInv'
    BY <1>2, IInvParts, PlaceUntouched
  <2> QED
    BY <2>2, <2>4, <2>5, PartsMakeIInv DEF StepOK, LeakStep
<1>5. CASE Table!AllocateSpins /\ UNCHANGED booted
  <2>1. Hangs
    BY <1>3, <1>5 DEF Table!AllocateSpins, Stored
  <2> QED
    BY <1>1, <1>2, <1>3, <1>5, <2>1, HangStep
<1> QED
  BY <1>2, <1>4, <1>5

LEMMA OpenStep ==
  ASSUME IInv, NEW d \in DriveArgs \cup {NULL}, NEW p \in PathArgs, Open(d, p)
  PROVE  StepOK
<1>1. Ready /\ UNCHANGED <<found, booted, volume25, mCurrentDrive, mCurPathName>>
  BY DEF Open
<1>2. CASE UNCHANGED <<table, live>> /\ Answers
  BY <1>1, <1>2, QuietCall, PlaceUntouched, IInvParts DEF table
<1>3. ASSUME NEW f \in HostObjects \ live, live' = live \cup {f}, TableAllocates(f),
             TableAnswers
      PROVE  StepOK
  <2>1. f \in Objects \ live /\ f \notin Consoles /\ tableStatus = "ok"
    BY <1>1, <1>3, DosServicesAssumption DEF Objects, HostObjects, Consoles, Ready
  <2>2. CASE Table!AllocateRefused
    <3>1. /\ mNumEntries = MaxEntries /\ tableReply'.value = 4 /\ ~tableReply'.ok
          /\ UNCHANGED <<mObjects, mNumEntries, tableStatus>>
      BY <2>2 DEF Table!AllocateRefused, Table!ERROR_OUT_OF_HANDLES
    <3>2. Throw(4) /\ 4 \in 1 .. 255
      BY <1>3, <2>1, <3>1 DEF TableAnswers
    <3>3. AnswerInv' /\ ReportStep /\ regs' = [by |-> "DOS", cf |-> TRUE, eax |-> 4]
      BY <1>1, <3>2, IInvParts, AnswersReport, ThrowAnswers DEF Answers
    <3>4. TableInv'
      BY <1>1, <2>2, TableStep DEF IInv
    <3>5. FilesInv' /\ Leaked \subseteq Leaked'
      BY <1>1, <1>3, <2>1, <3>1, <3>4, LostKeepsFiles
    <3>6. LeakStep
      BY <3>1, <3>3, <3>5, RefusedIsFull DEF LeakStep, ERROR_OUT_OF_HANDLES
    <3> QED
      BY <1>1, <3>1, <3>3, <3>5, <3>6, PlaceUntouched, IInvParts, PartsMakeIInv
         DEF StepOK, AtomicStep
  <2>3. CASE Table!Allocate(f) \/ Table!AllocateOutOfBounds(f) \/ Table!AllocateSpins
    <3>1. TableInv' /\ (Hangs \/ \E h \in Handles : Stored(f, h))
      BY <1>1, <2>1, <2>3, AllocateEffect
    <3>2. CASE Hangs
      <4>1. UNCHANGED <<regs, mLastError, process>>
        BY <1>3, <3>2 DEF Hangs, TableAnswers
      <4> QED
        BY <1>1, <1>3, <2>1, <3>1, <3>2, <4>1, HangStep
    <3>3. CASE \E h \in Handles : Stored(f, h)
      <4>1. PICK h \in Handles : Stored(f, h)
        BY <3>3
      <4>2. booted \in 0 .. NumConsoles
        BY DEF IInv, TypeOK
      <4>3. FilesInv' /\ Leaked' = Leaked
        BY <1>1, <1>3, <2>1, <3>1, <4>1, <4>2, StoreKeepsFiles
      <4>4. Return(tableReply'.value)
        BY <1>3, <4>1 DEF TableAnswers, Stored
      <4>5. AnswerInv' /\ ReportStep /\ ~regs'.cf
        BY <1>1, <4>4, IInvParts, AnswersReport, ReturnAnswers DEF Answers
      <4> QED
        BY <1>1, <4>3, <4>5, PlaceUntouched, IInvParts, PartsMakeIInv
           DEF StepOK, LeakStep, AtomicStep
    <3> QED
      BY <3>1, <3>2, <3>3
  <2> QED
    BY <1>3, <2>2, <2>3 DEF TableAllocates
<1>4. ASSUME NEW e, Throw(DosError(e)) PROVE Answers
  BY <1>4, DosErrorIsError DEF Answers
<1>5. NoVolume(DriveOf(d)) \/ WildVolume(DriveOf(d)) => Answers
  BY DEF NoVolume, WildVolume, Answers, Ways, ERROR_INVALID_DRIVE
<1> QED
  BY <1>2, <1>3, <1>4, <1>5 DEF Open

LEMMA CloseStep == ASSUME IInv, NEW h \in HandleArgs, Close(h) PROVE StepOK
<1>1. Ready /\ UNCHANGED <<found, booted, volume25, mCurrentDrive, mCurPathName>>
  BY DEF Close
<1>2. CASE /\ Table!ReleaseValid(h) /\ live' = live \ {tableReply'.value}
           /\ Return(NULL) \/ End("undefined")
  <2>1. /\ TableInv'
        /\ h \in Handles
        /\ mObjects[h] # NULL
        /\ mObjects' = [mObjects EXCEPT ![h] = NULL]
        /\ UNCHANGED tableStatus
        /\ live' = live \ {mObjects[h]}
    BY <1>1, <1>2, ReleaseEffect
  <2>2. /\ mObjects \in [Handles -> Objects \cup Strays \cup {NULL}]
        /\ found \in [Handles -> Strays \cup {NULL}]
    BY EntryTypes DEF IInv
  <2>3. /\ live \subseteq Objects /\ StraysAreFound
        /\ HandlesOwnTheirFiles /\ ConsolesAreBooted
    BY DEF IInv, TypeOK
  <2>4. \A k \in Handles : mObjects'[k] = IF k = h THEN NULL ELSE mObjects[k]
    BY <2>1, <2>2
  <2>5. HandlesOwnTheirFiles'
    BY <1>1, <2>1, <2>3, <2>4 DEF HandlesOwnTheirFiles
  <2>6. ConsolesAreBooted' /\ StraysAreFound'
    BY <1>1, <2>1, <2>3, <2>4, StraysAreNoObjects DEF ConsolesAreBooted, StraysAreFound
  <2>7. {mObjects'[k] : k \in Handles} \cap Objects =
           ({mObjects[k] : k \in Handles} \ {mObjects[h]}) \cap Objects
    <3>1. ASSUME mObjects[h] \in Objects, NEW k \in Handles, mObjects[k] = mObjects[h]
          PROVE  k = h
      <4>1. mObjects[h] \notin {NULL, found[h]}
        BY <2>1, <2>2, <3>1, StraysAreNoObjects
      <4> QED
        BY <2>1, <2>3, <3>1, <4>1 DEF HandlesOwnTheirFiles
    <3> QED
      BY <2>1, <2>4, <3>1, StraysAreNoObjects
  <2>8. Leaked' = Leaked
    BY <2>1, <2>3, <2>7 DEF Leaked, Objects
  <2>9. AnswerInv' /\ ReportStep /\ AtomicStep
    <3>1. CASE Return(NULL)
      BY <1>1, <3>1, IInvParts, AnswersReport, ReturnAnswers DEF Answers, AtomicStep
    <3>2. CASE End("undefined")
      BY <1>1, <3>2, IInvParts, AnswersReport DEF Answers, Ways, AtomicStep, End
    <3> QED
      BY <1>2, <3>1, <3>2
  <2>10. Table!TypeOK'
    BY <2>1, TableTypes
  <2>11. FilesInv'
    BY <1>1, <2>1, <2>3, <2>5, <2>6, <2>10, IInvParts DEF FilesInv
  <2> QED
    BY <1>1, <2>8, <2>9, <2>11, PlaceUntouched, IInvParts, PartsMakeIInv
       DEF StepOK, LeakStep
<1>3. CASE Table!ReleaseInvalid(h) /\ Throw(tableReply'.value) /\ UNCHANGED live
  <2>1. tableReply'.value = 6 /\ UNCHANGED <<mObjects, mNumEntries, tableStatus>>
    BY <1>3 DEF Table!ReleaseInvalid, Table!ERROR_INVALID_HANDLE
  <2>2. Throw(6) /\ 6 \in 1 .. 255
    BY <1>3, <2>1
  <2>3. Answers
    BY <2>2 DEF Answers
  <2> QED
    BY <1>1, <1>3, <2>1, <2>3, PlaceUntouched, IInvParts, QuietCall
<1> QED
  BY <1>2, <1>3 DEF Close, UseStray

\* Looking a handle up changes nothing in the table.
LEMMA GetEffect ==
  ASSUME NEW h, Table!Get(h)
  PROVE  /\ UNCHANGED <<mObjects, mNumEntries, tableStatus>>
         /\ ~tableReply'.ok => tableReply'.value = 6
  BY DEF Table!Get, Table!ERROR_INVALID_HANDLE

\* What a call on a handle may answer.
LEMMA UseAnswers ==
  ASSUME NEW fn, NEW file, OnFile(fn, file) \/ Return(NULL) \/ UseStray(file)
  PROVE  \/ Return(NULL) \/ Throw(ERROR_FUNCTION_NOT_SUPPORTED)
         \/ End("aborted") \/ End("undefined")
  BY DEF OnFile, OnConsole, OnHostFile, UseStray

LEMMA TransferStep ==
  ASSUME IInv, NEW h \in HandleArgs, NEW fn \in {"3F", "40", "42"}, Transfer(fn, h)
  PROVE  StepOK
<1>1. Ready /\ UNCHANGED <<found, booted, live, volume25, mCurrentDrive, mCurPathName>>
      /\ Table!Get(h)
  BY DEF Transfer
<1>2. CASE Throw(tableReply'.value) /\ ~tableReply'.ok
  <2>1. Throw(6) /\ 6 \in 1 .. 255
    BY <1>1, <1>2, GetEffect
  <2>2. Answers
    BY <2>1 DEF Answers
  <2> QED
    BY <1>1, <2>2, GetEffect, PlaceUntouched, IInvParts, QuietCall
<1>3. CASE OnFile(fn, tableReply'.value)
  <2>1. Answers
    BY <1>3, UseAnswers DEF Answers, Ways, ERROR_FUNCTION_NOT_SUPPORTED
  <2> QED
    BY <1>1, <2>1, GetEffect, PlaceUntouched, IInvParts, QuietCall
<1> QED
  BY <1>2, <1>3 DEF Transfer

LEMMA IoctlStep ==
  ASSUME IInv, NEW h \in HandleArgs, NEW sub \in {0, 1}, Ioctl(sub, h) PROVE StepOK
<1>1. Ready /\ UNCHANGED <<found, booted, live, volume25, mCurrentDrive, mCurPathName>>
  BY DEF Ioctl
<1>2. CASE End("stopped") /\ UNCHANGED table
  BY <1>1, <1>2, PlaceUntouched, IInvParts, QuietCall DEF Answers, Ways, table
<1>3. CASE /\ Table!Get(h)
           /\ IF tableReply'.ok THEN Return(NULL) \/ UseStray(tableReply'.value)
                                ELSE Throw(tableReply'.value)
  <2>1. Return(NULL) \/ End("undefined") \/ (Throw(6) /\ 6 \in 1 .. 255)
    BY <1>3, GetEffect DEF UseStray
  <2>2. Answers
    BY <2>1 DEF Answers, Ways
  <2> QED
    BY <1>1, <1>3, <2>2, GetEffect, PlaceUntouched, IInvParts, QuietCall
<1> QED
  BY <1>2, <1>3 DEF Ioctl

LEMMA OtherCalls ==
  ASSUME IInv,
         Leave \/ ExtenderFails \/ \E sub \in {0, 1} : GetExtendedError(sub)
  PROVE  StepOK
<1>1. /\ Ready
      /\ UNCHANGED <<mObjects, mNumEntries, tableStatus, found, booted, live, volume25,
                     mCurrentDrive, mCurPathName>>
  BY DEF Leave, ExtenderFails, GetExtendedError, table
<1>2. CASE Leave \/ \E sub \in {0, 1} : GetExtendedError(sub)
  <2>1. Answers
    BY <1>2 DEF Leave, GetExtendedError, Answers, Ways
  <2> QED
    BY <1>1, <2>1, PlaceUntouched, IInvParts, QuietCall
<1>3. CASE ExtenderFails
  <2>1. /\ regs' = [by |-> "extender", cf |-> TRUE, eax |-> NULL]
        /\ UNCHANGED <<mLastError, process>> /\ booted' = NumConsoles
    BY <1>1, <1>3 DEF ExtenderFails, Ready
  <2>2. AnswerInv'
    BY <2>1, DosServicesAssumption, IInvParts DEF AnswerInv, LastFailureIsKept
  <2>3. ReportStep /\ AtomicStep /\ LeakStep
    BY <1>1, <2>1 DEF ReportStep, AtomicStep, LeakStep, Leaked
  <2> QED
    BY <1>1, <2>2, <2>3, FilesUntouched, PlaceUntouched, IInvParts, PartsMakeIInv DEF StepOK
<1> QED
  BY <1>2, <1>3

LEMMA NextStep == ASSUME IInv, [Next]_vars PROVE IInv' /\ [StepOK]_vars
<1>1. CASE UNCHANGED vars
  <2>1. IInv'
    BY <1>1, FilesUntouched, PlaceUntouched, IInvParts, PartsMakeIInv
       DEF vars, table, AnswerInv, LastFailureIsKept
  <2> QED
    BY <1>1, <2>1
<1>2. CASE Next
  <2>1. ASSUME Construct PROVE StepOK
    BY <2>1, ConstructStep
  <2>2. ASSUME NEW d \in DriveArgs, SetCurrentDrive(d) \/ GetCurrentDirectory(d)
        PROVE  StepOK
    BY <2>2, DriveCalls
  <2>3. ASSUME GetCurrentDrive PROVE StepOK
    BY <2>3, DriveCalls
  <2>4. ASSUME NEW d \in DriveArgs \cup {NULL}, NEW p \in PathArgs,
               SetCurrentDirectory(d, p) \/ Open(d, p)
        PROVE  StepOK
    BY <2>4, DirectoryCalls, OpenStep
  <2>5. ASSUME NEW h \in HandleArgs, Close(h) PROVE StepOK
    BY <2>5, CloseStep
  <2>6. ASSUME NEW h \in HandleArgs, NEW fn \in {"3F", "40", "42"}, Transfer(fn, h)
        PROVE  StepOK
    BY <2>6, TransferStep
  <2>7. ASSUME NEW h \in HandleArgs, NEW sub \in {0, 1}, Ioctl(sub, h) PROVE StepOK
    BY <2>7, IoctlStep
  <2>8. ASSUME Leave \/ ExtenderFails \/ \E sub \in {0, 1} : GetExtendedError(sub)
        PROVE  StepOK
    BY <2>8, OtherCalls
  <2>9. StepOK
    BY <1>2, <2>1, <2>2, <2>3, <2>4, <2>5, <2>6, <2>7, <2>8 DEF Next
  <2> QED
    BY <2>9 DEF StepOK
<1> QED
  BY <1>1, <1>2

LEMMA Invariance == Spec => []IInv
  BY InitIInv, NextStep, PTL DEF Spec

\* The table of open files, the current drive, the current directory and the extended
\* error keep their types.
THEOREM TypeCorrect == Spec => []TypeOK
  BY Invariance, PTL DEF IInv

\* Whatever the table's memory held at first, a handle that names anything a call has
\* stored names a File object that exists and that no other handle names: DOS::closeFile
\* never deletes a file another handle still uses.
THEOREM HandlesOwn == Spec => []HandlesOwnTheirFiles
  BY Invariance, PTL DEF IInv

\* Unless the uninitialised slot of drive 25 passes for a volume, the current drive has
\* one and the current directory exists.
THEOREM CurrentPlaceStays == Spec => []CurrentPlaceExists
  BY Invariance, PTL DEF IInv

\* Whatever is called and whatever the table's memory held, a host descriptor is lost
\* only by an open that is refused, and then every handle names a file of the program,
\* or by one that hangs, and then the memory held strays; and it is lost for good.
THEOREM LeaksOnlyWhenFull == Spec => LeakOnlyWhenFull
<1>1. IInv /\ [Next]_vars =>
         [Leaked' # Leaked =>
            /\ Leaked \subseteq Leaked'
            /\ \/ /\ \A h \in Handles : mObjects[h] \in live
                  /\ regs' = [by |-> "DOS", cf |-> TRUE, eax |-> ERROR_OUT_OF_HANDLES]
               \/ tableStatus' # "ok" /\ FoundUsed # {}]_vars
  BY NextStep DEF StepOK, LeakStep
<1> QED
  BY <1>1, Invariance, PTL DEF Spec, LeakOnlyWhenFull

\* A failed call of class DOS reports its code in EAX and leaves the same code for 59h;
\* nothing else touches the extended error.
THEOREM FailuresAreReported == Spec => FailureIsReported
<1>1. IInv /\ [Next]_vars =>
         [IF regs'.cf /\ regs'.by = "DOS"
          THEN regs'.eax = mLastError' /\ mLastError' # ERROR_NO_ERROR
          ELSE UNCHANGED mLastError]_vars
  BY NextStep DEF StepOK, ReportStep
<1> QED
  BY <1>1, Invariance, PTL DEF Spec, FailureIsReported

\* A call that returns to the program with carry set has changed neither the table of open files nor
\* the current drive nor the current directory.
THEOREM FailuresAreAtomic == Spec => FailedCallsAreAtomic
<1>1. IInv /\ [Next]_vars =>
         [regs'.cf /\ process' = "running" =>
             UNCHANGED <<mObjects, mNumEntries, mCurrentDrive, mCurPathName>>]_vars
  BY NextStep DEF StepOK, AtomicStep
<1> QED
  BY <1>1, Invariance, PTL DEF Spec, FailedCallsAreAtomic
-----------------------------------------------------------------------------
(* DosServices implements FileService.                                      *)

\* What a step looks like to the program.
Seen == [Service!Next]_<<OpenFiles, regs>>

LEMMA OpenFilesEffect ==
  /\ DOMAIN OpenFiles = Given
  /\ \A h \in Given : OpenFiles[h] = mObjects[h]
  /\ mObjects' = mObjects => OpenFiles' = OpenFiles
  BY DEF OpenFiles, Given

\* A call that leaves the table alone, and does not say that it is full.
LEMMA OtherIsSeen ==
  ASSUME mObjects' = mObjects,
         regs'.cf /\ regs'.by = "DOS" => regs'.eax # ERROR_OUT_OF_HANDLES
  PROVE  Seen
<1>1. Service!Other
  BY OpenFilesEffect DEF Service!Other
<1> QED
  BY <1>1 DEF Seen, Service!Next

\* What Answers says, less the code for a full table.
LEMMA AnswerIsSeen ==
  ASSUME mObjects' = mObjects,
         \/ \E value : Return(value)
         \/ \E code \in Int \ {4} : Throw(code)
         \/ UNCHANGED regs
  PROVE  Seen
<1>1. CASE UNCHANGED regs
  BY <1>1, OpenFilesEffect DEF Seen
<1>2. CASE (\E value : Return(value)) \/ \E code \in Int \ {4} : Throw(code)
  <2>1. regs'.cf /\ regs'.by = "DOS" => regs'.eax # ERROR_OUT_OF_HANDLES
    BY <1>2 DEF Return, Throw, ERROR_OUT_OF_HANDLES
  <2> QED
    BY <2>1, OtherIsSeen
<1> QED
  BY <1>1, <1>2

\* A file that exists in no other handle gets a free one.
LEMMA AllocateGrants ==
  ASSUME IInv, NEW o \in Objects \ live, NEW h \in Handles, Stored(o, h)
  PROVE  Service!Grant(h, o)
<1>1. /\ mObjects \in [Handles -> Objects \cup Strays \cup {NULL}]
      /\ found \in [Handles -> Strays \cup {NULL}] /\ HandlesOwnTheirFiles
  BY EntryTypes DEF IInv
<1>2. mObjects[h] = NULL /\ \A k \in Handles : mObjects'[k] = IF k = h THEN o ELSE mObjects[k]
  BY <1>1 DEF Stored
<1>3. h \in Handles \ Given /\ Given' = Given \cup {h}
  BY <1>2, StraysAreNoObjects DEF Given
<1>4. o \notin Service!InUse
  BY <1>1, OpenFilesEffect, StraysAreNoObjects DEF Service!InUse, HandlesOwnTheirFiles, Given
<1>5. OpenFiles' = [k \in Given \cup {h} |-> IF k = h THEN o ELSE OpenFiles[k]]
  <2>1. OpenFiles' = [k \in Given \cup {h} |-> mObjects'[k]]
    BY <1>3 DEF OpenFiles
  <2>2. \A k \in Given \cup {h} : mObjects'[k] = IF k = h THEN o ELSE OpenFiles[k]
    BY <1>2, OpenFilesEffect DEF Given
  <2> QED
    BY <2>1, <2>2
<1> QED
  BY <1>3, <1>4, <1>5, OpenFilesEffect DEF Service!Grant

LEMMA ConstructIsSeen == ASSUME IInv, Construct PROVE Seen
<1> DEFINE o == booted + 1
<1>1. o \in Objects \ live /\ o \in Consoles
  BY ConsoleIsNew
<1>2. /\ Table!Allocate(o) \/ Table!AllocateSpins
      /\ UNCHANGED <<found, regs>>
  BY DEF Construct
<1> HIDE DEF o
<1>3. CASE Hangs
  BY <1>2, <1>3, AnswerIsSeen DEF Hangs
<1>4. ASSUME NEW h \in Handles, Stored(o, h) PROVE Seen
  <2>1. Service!Provide
    BY <1>1, <1>2, <1>4, AllocateGrants DEF Service!Provide
  <2> QED
    BY <2>1 DEF Seen, Service!Next
<1> QED
  BY <1>1, <1>2, <1>3, <1>4, AllocateEffect

LEMMA OpenIsSeen ==
  ASSUME IInv, NEW d \in DriveArgs \cup {NULL}, NEW p \in PathArgs, Open(d, p)
  PROVE  Seen
<1>1. CASE UNCHANGED table /\ \/ NoVolume(DriveOf(d)) \/ WildVolume(DriveOf(d))
                              \/ \E e : Throw(DosError(e))
  <2>1. \A e : DosError(e) \in Int \ {4}
    BY DEF DosError, ERROR_ACCESS_DENIED, ERROR_INVALID_DATA, ERROR_GENERAL_FAILURE,
           ERROR_FILE_NOT_FOUND, ERROR_OUT_OF_MEMORY, ERROR_UNKNOWN
  <2>2. (\E code \in Int \ {4} : Throw(code)) \/ UNCHANGED regs
    BY <1>1, <2>1 DEF NoVolume, WildVolume, End, ERROR_INVALID_DRIVE
  <2> QED
    BY <1>1, <2>2, AnswerIsSeen DEF table
<1>2. ASSUME NEW f \in HostObjects \ live, TableAllocates(f), TableAnswers
      PROVE  Seen
  <2>1. f \in Objects \ live /\ UNCHANGED found /\ tableStatus = "ok"
    BY DEF Objects, Open, Ready
  <2>2. CASE Table!AllocateRefused
    <3>1. /\ mNumEntries = MaxEntries /\ mObjects' = mObjects
          /\ regs' = [by |-> "DOS", cf |-> TRUE, eax |-> ERROR_OUT_OF_HANDLES]
      BY <1>2, <2>1, <2>2 DEF Table!AllocateRefused, Table!ERROR_OUT_OF_HANDLES,
         ERROR_OUT_OF_HANDLES, TableAnswers, Throw
    <3>2. Given = Handles
      BY <3>1, RefusedIsFull DEF Given
    <3>3. Service!OpenRefused
      BY <3>1, <3>2, OpenFilesEffect DEF Service!OpenRefused, Service!Answer
    <3> QED
      BY <3>3 DEF Seen, Service!Next
  <2>3. CASE Hangs
    BY <1>2, <2>3, AnswerIsSeen DEF Hangs, TableAnswers
  <2>4. ASSUME NEW h \in Handles, Stored(f, h) PROVE Seen
    <3>1. Service!Grant(h, f)
      BY <2>1, <2>4, AllocateGrants
    <3>2. Return(h)
      BY <1>2, <2>4 DEF TableAnswers, Stored
    <3>3. Service!Open
      BY <3>1, <3>2 DEF Return, Service!Open, Service!Answer
    <3> QED
      BY <3>3 DEF Seen, Service!Next
  <2> QED
    BY <1>2, <2>1, <2>2, <2>3, <2>4, AllocateEffect DEF TableAllocates
<1> QED
  BY <1>1, <1>2 DEF Open

LEMMA CloseIsSeen == ASSUME IInv, NEW h \in HandleArgs, Close(h) PROVE Seen
<1>1. CASE Table!ReleaseValid(h) /\ (Return(NULL) \/ UseStray(tableReply'.value))
  <2>1. /\ h \in Handles /\ mObjects[h] # NULL /\ mObjects' = [mObjects EXCEPT ![h] = NULL]
        /\ tableReply'.value = mObjects[h]
    BY <1>1, ReleaseEffect DEF Close
  <2>2. \A k \in Handles : mObjects'[k] = IF k = h THEN NULL ELSE mObjects[k]
    BY <2>1, EntryTypes DEF IInv
  <2>3. Given' = Given \ {h}
    BY <2>1, <2>2, StraysAreNoObjects DEF Given
  <2>4. OpenFiles' = [k \in Given \ {h} |-> OpenFiles[k]]
    <3>1. OpenFiles' = [k \in Given \ {h} |-> mObjects'[k]]
      BY <2>3 DEF OpenFiles
    <3>2. \A k \in Given \ {h} : mObjects'[k] = OpenFiles[k]
      BY <2>2, OpenFilesEffect DEF Given
    <3> QED
      BY <3>1, <3>2
  <2>5. CASE h \in Given
    <3>1. Return(NULL)
      BY <1>1, <2>1, <2>5, StraysAreNoObjects DEF Given, UseStray
    <3>2. Service!Close
      BY <2>4, <2>5, <3>1, OpenFilesEffect DEF Return, Service!Close, Service!Answer
    <3> QED
      BY <3>2 DEF Seen, Service!Next
  <2>6. CASE h \notin Given
    <3>1. OpenFiles' = OpenFiles
      BY <2>4, <2>6 DEF OpenFiles
    <3>2. CASE Return(NULL)
      <4>1. Service!Other
        BY <3>1, <3>2 DEF Service!Other, Return
      <4> QED
        BY <4>1 DEF Seen, Service!Next
    <3> QED
      BY <1>1, <3>1, <3>2 DEF Seen, UseStray, End
  <2> QED
    BY <2>5, <2>6
<1>2. CASE Table!ReleaseInvalid(h) /\ Throw(tableReply'.value)
  <2>1. mObjects' = mObjects /\ tableReply'.value = 6
    BY <1>2 DEF Table!ReleaseInvalid, Table!ERROR_INVALID_HANDLE
  <2>2. \E code \in Int \ {4} : Throw(code)
    BY <1>2, <2>1
  <2> QED
    BY <2>1, <2>2, AnswerIsSeen
<1> QED
  BY <1>1, <1>2 DEF Close

\* The calls on a handle, which may be none.
LEMMA UseIsSeen ==
  ASSUME NEW h \in HandleArgs,
         \/ \E fn \in {"3F", "40", "42"} : Transfer(fn, h)
         \/ \E sub \in {0, 1} : Ioctl(sub, h)
  PROVE  Seen
<1>1. CASE Table!Get(h) /\ ~tableReply'.ok /\ Throw(tableReply'.value)
  <2>1. mObjects' = mObjects /\ Throw(6) /\ 6 \in Int \ {4}
    BY <1>1, GetEffect
  <2> QED
    BY <2>1, AnswerIsSeen
<1>2. ASSUME NEW fn, Table!Get(h),
             \/ OnFile(fn, tableReply'.value) \/ Return(NULL)
             \/ UseStray(tableReply'.value)
      PROVE  Seen
  <2>1. \/ \E value : Return(value)
        \/ \E code \in Int \ {4} : Throw(code)
        \/ UNCHANGED regs
    BY <1>2, UseAnswers DEF End, ERROR_FUNCTION_NOT_SUPPORTED
  <2> QED
    BY <1>2, <2>1, GetEffect, AnswerIsSeen
<1>3. CASE End("stopped") /\ UNCHANGED table
  BY <1>3, AnswerIsSeen DEF End, table
<1>4. CASE \E fn \in {"3F", "40", "42"} : Transfer(fn, h)
  BY <1>1, <1>2, <1>4 DEF Transfer
<1>5. CASE \E sub \in {0, 1} : Ioctl(sub, h)
  BY <1>1, <1>2, <1>3, <1>5 DEF Ioctl
<1> QED
  BY <1>4, <1>5

LEMMA QuietIsSeen ==
  ASSUME \/ \E d : SetCurrentDrive(d) \/ GetCurrentDirectory(d) \/ GetCurrentDrive
         \/ \E d, p : SetCurrentDirectory(d, p)
         \/ \E sub : GetExtendedError(sub)
         \/ Leave
  PROVE  Seen
<1>1. mObjects' = mObjects
  BY DEF SetCurrentDrive, GetCurrentDirectory, GetCurrentDrive, SetCurrentDirectory,
         GetExtendedError, Leave, table
<1>2. 15 \in Int \ {4} /\ 3 \in Int \ {4}
  OBVIOUS
<1>3. \/ \E value : Return(value)
      \/ \E code \in Int \ {4} : Throw(code)
      \/ UNCHANGED regs
  BY <1>2 DEF SetCurrentDrive, GetCurrentDirectory, GetCurrentDrive, SetCurrentDirectory,
         GetExtendedError, Leave, NoVolume, WildVolume, End, ERROR_INVALID_DRIVE,
         ERROR_PATH_NOT_FOUND
<1> QED
  BY <1>1, <1>3, AnswerIsSeen

LEMMA NextIsSeen == ASSUME IInv, [Next]_vars PROVE Seen
<1>1. CASE UNCHANGED vars
  BY <1>1, AnswerIsSeen DEF vars, table
<1>2. ASSUME Construct PROVE Seen
  BY <1>2, ConstructIsSeen
<1>3. ASSUME NEW d \in DriveArgs, SetCurrentDrive(d) \/ GetCurrentDirectory(d) PROVE Seen
  BY <1>3, QuietIsSeen
<1>4. ASSUME GetCurrentDrive PROVE Seen
  BY <1>4, QuietIsSeen
<1>5. ASSUME NEW d \in DriveArgs \cup {NULL}, NEW p \in PathArgs,
             SetCurrentDirectory(d, p) \/ Open(d, p)
      PROVE  Seen
  BY <1>5, QuietIsSeen, OpenIsSeen
<1>6. ASSUME NEW h \in HandleArgs, Close(h) PROVE Seen
  BY <1>6, CloseIsSeen
<1>7. ASSUME NEW h \in HandleArgs,
             \/ \E fn \in {"3F", "40", "42"} : Transfer(fn, h)
             \/ \E sub \in {0, 1} : Ioctl(sub, h)
      PROVE  Seen
  BY <1>7, UseIsSeen
<1>8. ASSUME Leave \/ \E sub \in {0, 1} : GetExtendedError(sub) PROVE Seen
  BY <1>8, QuietIsSeen
<1>9. ASSUME ExtenderFails PROVE Seen
  BY <1>9, OtherIsSeen DEF ExtenderFails, table
<1> QED
  BY <1>1, <1>2, <1>3, <1>4, <1>5, <1>6, <1>7, <1>8, <1>9 DEF Next

LEMMA InitIsSeen == Init => Service!Init
<1> SUFFICES ASSUME Init PROVE Service!Init
  OBVIOUS
<1>1. Given = {}
  BY StraysAreNoObjects DEF Init, Given
<1>2. OpenFiles = << >>
  BY <1>1 DEF OpenFiles
<1> QED
  BY <1>2 DEF Init, Service!Init

\* The file calls keep the promise of FileService: whatever the table's memory held and
\* whatever the program calls, a handle that a call has given out names one file until it
\* is closed, is given out only when free and with a file of its own, and the program is
\* told that there is none only when each names a file of its own.
THEOREM ServicesImplementFiles == Spec => ImplementsService
<1>1. IInv /\ [Next]_vars => [Service!Next]_<<OpenFiles, regs>>
  BY NextIsSeen DEF Seen
<1> QED
  BY <1>1, InitIsSeen, Invariance, PTL DEF Spec, ImplementsService, Service!Spec
==============================================================================
