--------------------------- MODULE HostFiles_proofs ---------------------------
(***************************************************************************)
(* Proofs about HostFiles, for every width of the machine word, every host *)
(* file and every count and offset the program passes.  The lemmas say     *)
(* what reducing a number modulo 2^32 keeps of it.                         *)
(***************************************************************************)
EXTENDS HostFiles, TLAPS

-----------------------------------------------------------------------------
(* Numbers of one word.                                                     *)

LEMMA WordFacts == Word \in Nat /\ Word > 1 /\ Word \div 2 \in Nat /\ Word = 2 * (Word \div 2)
BY HostFilesAssumption

\* Cutting a number to a word takes a multiple of 2^32 away.
LEMMA CutToWord ==
    ASSUME NEW x \in Int
    PROVE  /\ x % Word \in 0 .. Word - 1
           /\ \E k \in Int : x - (x % Word) = Word * k
<1>1. Word \in Nat /\ Word > 0
  BY WordFacts
<1>2. x \div Word \in Int /\ x % Word \in 0 .. Word - 1
  BY <1>1
<1>3. x = (Word * (x \div Word)) + (x % Word)
  BY <1>1
<1>4. x - (x % Word) = Word * (x \div Word)
  BY <1>1, <1>2, <1>3
<1> QED
  BY <1>2, <1>4

\* A multiple of 2^32 added to a number does not show in its low word.
LEMMA MultipleAdded ==
    ASSUME NEW x \in Int, NEW y \in Int, NEW k \in Int, x - y = Word * k
    PROVE  x % Word = y % Word /\ (x - y) % Word = 0
<1>1. Word \in Nat /\ Word > 0
  BY WordFacts
<1>2. PICK j \in Int : y - (y % Word) = Word * j
  BY CutToWord
<1>3. y % Word \in 0 .. Word - 1
  BY CutToWord
<1>4. x = (Word * (k + j)) + (y % Word)
  BY <1>1, <1>2, <1>3
<1>5. x % Word = y % Word
  BY <1>1, <1>3, <1>4
<1>6. (x - y) % Word = 0
  BY <1>1
<1> QED
  BY <1>5, <1>6

LEMMA CutIsLess ==
    ASSUME NEW x \in Nat
    PROVE  x % Word <= x /\ (x - (x % Word)) % Word = 0
<1>1. x % Word \in 0 .. Word - 1 /\ \E k \in Int : x - (x % Word) = Word * k
  BY CutToWord
<1>2. PICK k \in Int : x - (x % Word) = Word * k
  BY <1>1
<1>3. Word \in Nat /\ Word > 0
  BY WordFacts
<1>4. k >= 0
  <2>1. CASE k <= -1
    <3>1. Word * (-k) >= Word
      BY <1>3, <2>1
    <3>2. x - (x % Word) <= -Word
      BY <1>2, <1>3, <3>1
    <3> QED
      BY <1>1, <1>3, <3>2
  <2> QED
    BY <2>1
<1>5. Word * k >= 0
  BY <1>3, <1>4
<1>6. x % Word <= x
  BY <1>1, <1>2, <1>3, <1>5
<1>7. (x - (x % Word)) % Word = 0
  <2>1. ASSUME NEW r \in Int, x - r = Word * k
        PROVE  (x - r) % Word = 0
    BY <2>1, MultipleAdded
  <2>2. x % Word \in Int
    BY <1>1, <1>3
  <2> QED
    BY <1>2, <2>1, <2>2
<1> QED
  BY <1>6, <1>7

\* The only multiple of 2^32 nearer to 0 than 2^32 is 0.
LEMMA NearMultiple ==
    ASSUME NEW k \in Int, -Word < Word * k, Word * k < Word
    PROVE  k = 0
<1>1. Word \in Nat /\ Word > 0
  BY WordFacts
<1>2. CASE k >= 1
  <2>1. Word * k >= Word
    BY <1>1, <1>2
  <2> QED
    BY <1>1, <2>1
<1>3. CASE k <= -1
  <2>1. Word * (-k) >= Word
    BY <1>1, <1>3
  <2> QED
    BY <1>1, <2>1
<1> QED
  BY <1>2, <1>3

\* A number of 64 bits, converted to long: what it means as a signed number, but for a
\* multiple of 2^32 - and nothing else where long can hold it.
LEMMA LongKeeps ==
    ASSUME NEW x \in Int
    PROVE  /\ Long(x) \in Int /\ Signed(x) \in Int
           /\ \E k \in Int : Long(x) - Signed(x) = Word * k
           /\ FitsLong(Signed(x)) => Long(x) = Signed(x)
<1>1. Word \in Nat /\ Word > 1 /\ Word \div 2 \in Nat /\ Word = 2 * (Word \div 2)
  BY WordFacts
<1>2. x % Word \in 0 .. Word - 1
  BY CutToWord
<1>3. PICK j \in Int : x - (x % Word) = Word * j
  BY CutToWord
<1>4. \E i \in Int : Long(x) = x + (Word * i)
  <2>1. CASE x % Word >= Word \div 2
    <3>1. Long(x) = (x % Word) - Word
      BY <2>1 DEF Long
    <3>2. Long(x) = x + (Word * ((-j) - 1))
      BY <1>1, <1>2, <1>3, <3>1
    <3> QED
      BY <3>2
  <2>2. CASE ~(x % Word >= Word \div 2)
    <3>1. Long(x) = x % Word
      BY <2>2 DEF Long
    <3>2. Long(x) = x + (Word * (-j))
      BY <1>1, <1>2, <1>3, <3>1
    <3> QED
      BY <3>2
  <2> QED
    BY <2>1, <2>2
<1>5. \E i \in Int : Signed(x) = x + (Word * i)
  <2>1. CASE x >= (Word * Word) \div 2
    <3>1. Signed(x) = x + (Word * (-Word))
      BY <1>1, <2>1 DEF Signed
    <3> QED
      BY <1>1, <3>1
  <2>2. CASE ~(x >= (Word * Word) \div 2)
    <3>1. Signed(x) = x + (Word * 0)
      BY <1>1, <2>2 DEF Signed
    <3> QED
      BY <3>1
  <2> QED
    BY <2>1, <2>2
<1>6. PICK i \in Int : Long(x) = x + (Word * i)
  BY <1>4
<1>7. PICK l \in Int : Signed(x) = x + (Word * l)
  BY <1>5
<1>8. Long(x) \in Int /\ Signed(x) \in Int
  BY <1>1, <1>6, <1>7
<1>9. Long(x) - Signed(x) = Word * (i - l)
  BY <1>1, <1>6, <1>7
<1>10. -(Word \div 2) <= Long(x) /\ Long(x) < Word \div 2
  BY <1>1, <1>2 DEF Long
<1>11. FitsLong(Signed(x)) => Long(x) = Signed(x)
  <2> SUFFICES ASSUME FitsLong(Signed(x)) PROVE Long(x) = Signed(x)
    OBVIOUS
  <2>1. -(Word \div 2) <= Signed(x) /\ Signed(x) < Word \div 2
    BY DEF FitsLong
  <2>2. -Word < Long(x) - Signed(x) /\ Long(x) - Signed(x) < Word
    BY <1>1, <1>8, <1>10, <2>1
  <2>3. i - l = 0
    BY <1>9, <2>2, NearMultiple
  <2>4. Word * (i - l) = 0
    BY <1>1, <2>3
  <2> QED
    BY <1>8, <1>9, <2>4
<1> QED
  BY <1>8, <1>9, <1>11

-----------------------------------------------------------------------------
(* The invariant.                                                           *)

IInv == TypeOK /\ ProgramKnowsPosition

LEMMA InitIInv == Init => IInv
<1> SUFFICES ASSUME Init PROVE IInv
  OBVIOUS
<1>1. StartSizes \subseteq 0 .. MaxSize
  BY HostFilesAssumption
<1>2. TypeOK
  BY <1>1 DEF Init, TypeOK
<1>3. ProgramKnowsPosition
  BY DEF Init, ProgramKnowsPosition
<1> QED
  BY <1>2, <1>3 DEF IInv
-----------------------------------------------------------------------------
(* What the calls change.                                                   *)

\* A transfer of n bytes, where it is not refused, moves at most n and at most what
\* there is.
LEMMA MovedIsBounded ==
    ASSUME NEW n \in Counts, NEW available \in Int, NEW moved \in Moved(n, available)
    PROVE  /\ moved \in Nat /\ moved <= n /\ moved \in 0 .. Word - 1
           /\ moved > 0 => moved <= available
<1>1. n \in 0 .. Word - 1 /\ Word \in Nat
  BY HostFilesAssumption
<1> QED
  BY <1>1 DEF Moved

\* The bytes moved are added to what the program knows and to what the host knows.
LEMMA AdvanceKeepsAccount ==
    ASSUME IInv, NEW o \in HostObjects, NEW n, NEW moved \in 0 .. Word - 1,
           Advance(o, n, moved), UNCHANGED file
    PROVE  /\ ProgramKnowsPosition'
           /\ position' \in [HostObjects -> Nat] /\ account' \in [HostObjects -> Nat]
           /\ answer'.eax \in 0 .. Word - 1
<1>1. position \in [HostObjects -> Nat] /\ account \in [HostObjects -> Nat]
  BY DEF IInv, TypeOK
<1>2. position' = [position EXCEPT ![o] = @ + moved] /\ account' = [account EXCEPT ![o] = @ + moved]
  BY DEF Advance
<1>3. moved \in Nat
  BY WordFacts
<1>4. position' \in [HostObjects -> Nat] /\ account' \in [HostObjects -> Nat]
  BY <1>1, <1>2, <1>3
<1>5. answer'.eax = moved
  BY DEF Advance, Answer
<1>6. ProgramKnowsPosition'
  <2> SUFFICES ASSUME NEW p \in HostObjects, file[p] # NULL
               PROVE  account'[p] <= position'[p] /\ (position'[p] - account'[p]) % Word = 0
    BY DEF ProgramKnowsPosition
  <2>1. account[p] <= position[p] /\ (position[p] - account[p]) % Word = 0
    BY DEF IInv, ProgramKnowsPosition
  <2>2. CASE p = o
    <3>1. position'[p] = position[p] + moved /\ account'[p] = account[p] + moved
      BY <1>1, <1>2, <2>2
    <3>2. position[p] \in Nat /\ account[p] \in Nat
      BY <1>1
    <3>3. position'[p] - account'[p] = position[p] - account[p] /\ account'[p] <= position'[p]
      BY <1>3, <2>1, <3>1, <3>2
    <3> QED
      BY <2>1, <3>3
  <2>3. CASE p # o
    <3>1. position'[p] = position[p] /\ account'[p] = account[p]
      BY <1>1, <1>2, <2>3
    <3> QED
      BY <2>1, <3>1
  <2> QED
    BY <2>2, <2>3
<1> QED
  BY <1>4, <1>5, <1>6

\* A seek leaves the program's account at the low word of the position.
LEMMA SeekKeepsAccount ==
    ASSUME IInv, NEW o \in HostObjects, NEW target \in Nat,
           position' = [position EXCEPT ![o] = target],
           account' = [account EXCEPT ![o] = SizeT(target)],
           UNCHANGED file
    PROVE  /\ ProgramKnowsPosition'
           /\ position' \in [HostObjects -> Nat] /\ account' \in [HostObjects -> Nat]
<1>1. position \in [HostObjects -> Nat] /\ account \in [HostObjects -> Nat]
  BY DEF IInv, TypeOK
<1>2. SizeT(target) \in Nat /\ SizeT(target) <= target /\ (target - SizeT(target)) % Word = 0
  <2>1. target % Word \in 0 .. Word - 1
    BY CutToWord
  <2> QED
    BY <2>1, WordFacts, CutIsLess DEF SizeT
<1>3. position' \in [HostObjects -> Nat] /\ account' \in [HostObjects -> Nat]
  BY <1>1, <1>2
<1>4. ProgramKnowsPosition'
  <2> SUFFICES ASSUME NEW p \in HostObjects, file[p] # NULL
               PROVE  account'[p] <= position'[p] /\ (position'[p] - account'[p]) % Word = 0
    BY DEF ProgramKnowsPosition
  <2>1. CASE p = o
    BY <1>1, <1>2, <2>1
  <2>2. CASE p # o
    <3>1. position'[p] = position[p] /\ account'[p] = account[p]
      BY <1>1, <2>2
    <3> QED
      BY <3>1 DEF IInv, ProgramKnowsPosition
  <2> QED
    BY <2>1, <2>2
<1> QED
  BY <1>3, <1>4

\* What one call leaves.
StepOK == TypeOK' /\ ProgramKnowsPosition' /\ (call'.fn = "42" => LandsAsAsked)

LEMMA OpenStep ==
    ASSUME IInv, NEW o \in HostObjects, NEW f \in Files, Open(o, f)
    PROVE  StepOK
<1>1. TypeOK'
  BY DEF IInv, TypeOK, Open
<1>2. ProgramKnowsPosition'
  <2>0. position \in [HostObjects -> Nat] /\ account \in [HostObjects -> Nat]
        /\ file \in [HostObjects -> Files \cup {NULL}]
    BY DEF IInv, TypeOK
  <2> SUFFICES ASSUME NEW p \in HostObjects, file'[p] # NULL
               PROVE  account'[p] <= position'[p] /\ (position'[p] - account'[p]) % Word = 0
    BY DEF ProgramKnowsPosition
  <2>1. CASE p = o
    <3>1. account'[p] = 0 /\ position'[p] = 0
      BY <2>0, <2>1 DEF Open
    <3>2. 0 % Word = 0
      BY WordFacts
    <3> QED
      BY <3>1, <3>2
  <2>2. CASE p # o
    <3>1. position'[p] = position[p] /\ account'[p] = account[p] /\ file'[p] = file[p]
      BY <2>0, <2>2 DEF Open
    <3> QED
      BY <3>1 DEF IInv, ProgramKnowsPosition
  <2> QED
    BY <2>1, <2>2
<1>3. call'.fn # "42"
  BY DEF Open
<1> QED
  BY <1>1, <1>2, <1>3 DEF StepOK

LEMMA CloseStep ==
    ASSUME IInv, NEW o \in HostObjects, Close(o)
    PROVE  StepOK
<1>1. TypeOK'
  BY DEF IInv, TypeOK, Close
<1>2. \A p \in HostObjects : file'[p] # NULL => file[p] # NULL
  BY DEF IInv, TypeOK, Close
<1>3. ProgramKnowsPosition'
  BY <1>2 DEF IInv, ProgramKnowsPosition, Close
<1>4. call'.fn # "42"
  BY DEF Close
<1> QED
  BY <1>1, <1>3, <1>4 DEF StepOK

LEMMA AbortStep ==
    ASSUME IInv, Abort
    PROVE  TypeOK' /\ ProgramKnowsPosition'
<1>1. TypeOK'
  BY DEF IInv, TypeOK, Abort
<1>2. ProgramKnowsPosition'
  BY DEF IInv, ProgramKnowsPosition, Abort
<1> QED
  BY <1>1, <1>2

LEMMA ReadStep ==
    ASSUME IInv, NEW o \in HostObjects, NEW n \in Counts, Read(o, n)
    PROVE  StepOK
<1>1. call'.fn # "42"
  BY DEF Read
<1>2. CASE Abort
  BY <1>1, <1>2, AbortStep DEF StepOK
<1>3. ASSUME NEW moved \in Moved(n, size[file[o]] - position[o]),
             Advance(o, n, moved), UNCHANGED <<size, file, process>>
      PROVE  StepOK
  <2>1. file[o] \in Files /\ position[o] \in Nat
    BY DEF IInv, TypeOK, Read, Opened
  <2>2. size[file[o]] \in 0 .. MaxSize
    BY <2>1 DEF IInv, TypeOK
  <2>3. size[file[o]] - position[o] \in Int
    BY <2>1, <2>2
  <2>4. moved \in 0 .. Word - 1
    BY <2>3, MovedIsBounded
  <2>5. /\ ProgramKnowsPosition'
        /\ position' \in [HostObjects -> Nat] /\ account' \in [HostObjects -> Nat]
        /\ answer'.eax \in 0 .. Word - 1
    BY <1>3, <2>4, AdvanceKeepsAccount
  <2>6. TypeOK'
    BY <1>3, <2>5 DEF IInv, TypeOK
  <2> QED
    BY <1>1, <2>5, <2>6 DEF StepOK
<1> QED
  BY <1>2, <1>3 DEF Read

LEMMA WriteStep ==
    ASSUME IInv, NEW o \in HostObjects, NEW n \in Counts, Write(o, n)
    PROVE  StepOK
<1>1. call'.fn # "42"
  BY DEF Write
<1>2. CASE Abort
  BY <1>1, <1>2, AbortStep DEF StepOK
<1>3. ASSUME NEW moved \in Moved(n, MaxSize - position[o]),
             Advance(o, n, moved), UNCHANGED <<file, process>>,
             size' = IF moved > 0 /\ position[o] + moved > size[file[o]]
                     THEN [size EXCEPT ![file[o]] = position[o] + moved] ELSE size
      PROVE  StepOK
  <2>1. file[o] \in Files /\ position[o] \in Nat /\ size \in [Files -> 0 .. MaxSize]
    BY DEF IInv, TypeOK, Write, Opened
  <2>2. MaxSize \in Nat
    BY HostFilesAssumption
  <2>3. MaxSize - position[o] \in Int
    BY <2>1, <2>2
  <2>4. /\ moved \in Nat /\ moved \in 0 .. Word - 1
        /\ moved > 0 => moved <= MaxSize - position[o]
    BY <2>3, MovedIsBounded
  <2>5. /\ ProgramKnowsPosition'
        /\ position' \in [HostObjects -> Nat] /\ account' \in [HostObjects -> Nat]
        /\ answer'.eax \in 0 .. Word - 1
    BY <1>3, <2>4, AdvanceKeepsAccount
  <2>6. moved > 0 => position[o] + moved \in 0 .. MaxSize
    BY <2>1, <2>2, <2>4
  <2>7. size' \in [Files -> 0 .. MaxSize]
    BY <1>3, <2>1, <2>6
  <2>8. TypeOK'
    BY <1>3, <2>5, <2>7 DEF IInv, TypeOK
  <2> QED
    BY <1>1, <2>5, <2>8 DEF StepOK
<1> QED
  BY <1>2, <1>3 DEF Write

LEMMA SeekStep ==
    ASSUME IInv, NEW o \in HostObjects, NEW ecx \in HighWords, NEW edx \in LowWords,
           NEW mode \in Modes, Seek(o, ecx, edx, mode)
    PROVE  StepOK
<1> DEFINE asked  == Offset(ecx, edx)
           base   == Base(o, mode)
           target == base + Long(asked)
           wanted == base + Signed(asked)
<1>1. asked \in Int
  <2>1. Counts \cup HighWords \cup LowWords \subseteq 0 .. Word - 1
    BY HostFilesAssumption
  <2>2. ecx \in Int /\ edx \in Int /\ Word \in Int
    BY <2>1, WordFacts
  <2> QED
    BY <2>2 DEF Offset
<1>2. base \in Int
  <2>1. file[o] \in Files /\ position[o] \in Nat
    BY DEF IInv, TypeOK, Seek, Opened
  <2>2. size[file[o]] \in 0 .. MaxSize
    BY <2>1 DEF IInv, TypeOK
  <2> QED
    BY <2>1, <2>2 DEF Base, SEEK_MODE_CUR, SEEK_MODE_END
<1>3. /\ call'.fn = "42" /\ call'.object = o /\ call'.asked = asked /\ call'.base = base
      /\ process = "running"
  BY DEF Seek, Opened
<1>4. /\ Long(asked) \in Int /\ Signed(asked) \in Int
      /\ \E k \in Int : Long(asked) - Signed(asked) = Word * k
      /\ FitsLong(Signed(asked)) => Long(asked) = Signed(asked)
  BY <1>1, LongKeeps
<1> HIDE DEF asked, base
<1>5. target \in Int /\ wanted \in Int
  BY <1>2, <1>4
<1>6. FitsLong(Signed(asked)) => target = wanted
  BY <1>4
<1>7. target % Word = wanted % Word /\ (target - wanted) % Word = 0
  <2>1. PICK k \in Int : Long(asked) - Signed(asked) = Word * k
    BY <1>4
  <2>2. target - wanted = Word * k
    BY <1>2, <1>4, <2>1
  <2> HIDE DEF target, wanted
  <2> QED
    BY <1>5, <2>2, MultipleAdded
<1>8. ASSUME target < 0, Abort
      PROVE  StepOK
  <2>1. process' # "running"
    BY <1>8 DEF Abort
  <2>2. LandsAsAsked
    BY <1>3, <1>6, <1>8, <2>1 DEF LandsAsAsked
  <2> QED
    BY <1>8, <2>2, AbortStep DEF StepOK
<1>9. ASSUME target >= 0,
             position' = [position EXCEPT ![o] = target],
             Answer(SizeT(target), 0),
             account' = [account EXCEPT ![o] = (answer'.edx * Word) + answer'.eax],
             UNCHANGED <<size, file, process>>
      PROVE  StepOK
  <2> HIDE DEF target, wanted
  <2>1. target \in Nat
    BY <1>5, <1>9
  <2>2. answer'.eax = SizeT(target) /\ answer'.edx = 0
    BY <1>9 DEF Answer
  <2>3. SizeT(target) \in 0 .. Word - 1
    BY <1>5, CutToWord DEF SizeT
  <2>4. (answer'.edx * Word) + answer'.eax = SizeT(target)
    BY <2>2, <2>3, WordFacts
  <2>5. account' = [account EXCEPT ![o] = SizeT(target)]
    BY <1>9, <2>4
  <2>6. /\ ProgramKnowsPosition'
        /\ position' \in [HostObjects -> Nat] /\ account' \in [HostObjects -> Nat]
    BY <1>9, <2>1, <2>5, SeekKeepsAccount
  <2>7. TypeOK'
    BY <1>9, <2>2, <2>3, <2>6 DEF IInv, TypeOK
  <2>8. position'[o] = target
    BY <1>9 DEF IInv, TypeOK
  <2>9. answer'.eax = wanted % Word
    BY <1>7, <2>2 DEF SizeT
  <2>10. wanted = call'.base + Signed(call'.asked)
    BY <1>3 DEF wanted
  <2>11. LandsAsAsked
    BY <1>3, <1>6, <1>7, <1>9, <2>8, <2>9, <2>10 DEF LandsAsAsked
  <2> QED
    BY <2>6, <2>7, <2>11 DEF StepOK
<1> QED
  BY <1>8, <1>9 DEF Seek, asked, base

\* 44h, and the calls of the consoles, where no file and no position changes.
LEMMA AnswerStep ==
    ASSUME IInv, UNCHANGED <<size, file, position, process, account>>,
           call'.fn # "42", answer'.eax \in 0 .. Word - 1 \cup {NULL}
    PROVE  StepOK
<1>1. TypeOK'
  BY DEF IInv, TypeOK
<1>2. ProgramKnowsPosition'
  BY DEF IInv, ProgramKnowsPosition
<1> QED
  BY <1>1, <1>2 DEF StepOK

LEMMA NextOK == IInv /\ Next => StepOK
<1> SUFFICES ASSUME IInv, Next PROVE StepOK
  OBVIOUS
<1>1. ASSUME NEW o \in HostObjects, NEW f \in Files, Open(o, f) PROVE StepOK
  BY <1>1, OpenStep
<1>2. ASSUME NEW o \in HostObjects, Close(o) PROVE StepOK
  BY <1>2, CloseStep
<1>3. ASSUME NEW o \in HostObjects, NEW n \in Counts, Read(o, n) PROVE StepOK
  BY <1>3, ReadStep
<1>4. ASSUME NEW o \in HostObjects, NEW n \in Counts, Write(o, n) PROVE StepOK
  BY <1>4, WriteStep
<1>5. ASSUME NEW o \in HostObjects, NEW ecx \in HighWords, NEW edx \in LowWords,
             NEW mode \in Modes, Seek(o, ecx, edx, mode)
      PROVE  StepOK
  BY <1>5, SeekStep
<1>6. ASSUME NEW o \in HostObjects, Ioctl(o) PROVE StepOK
  BY <1>6, AnswerStep DEF Ioctl, Answer
<1>7. ASSUME NEW n \in Counts, ConsoleTransfer(n) PROVE StepOK
  <2>1. n \in 0 .. Word - 1
    BY HostFilesAssumption
  <2>2. PICK moved \in 0 .. n : Answer(moved, NULL)
    BY <1>7 DEF ConsoleTransfer
  <2>3. moved \in 0 .. Word - 1
    BY <2>1, WordFacts
  <2>4. answer'.eax = moved
    BY <2>2 DEF Answer
  <2>5. call'.fn = "3F" /\ UNCHANGED <<size, file, position, process, account>>
    BY <1>7 DEF ConsoleTransfer, ConsoleCall
  <2> QED
    BY <2>3, <2>4, <2>5, AnswerStep
<1>8. ASSUME ConsoleSeek PROVE StepOK
  <2>1. answer'.eax = 1
    BY <1>8 DEF ConsoleSeek, ERROR_FUNCTION_NOT_SUPPORTED
  <2>2. 1 \in 0 .. Word - 1
    BY WordFacts
  <2>3. call'.fn # "42" /\ UNCHANGED <<size, file, position, process, account>>
    BY <1>8 DEF ConsoleSeek, ConsoleCall
  <2> QED
    BY <2>1, <2>2, <2>3, AnswerStep
<1>9. ASSUME ConsoleIoctl PROVE StepOK
  BY <1>9, AnswerStep DEF ConsoleIoctl, ConsoleCall, Answer
<1> QED
  BY <1>1, <1>2, <1>3, <1>4, <1>5, <1>6, <1>7, <1>8, <1>9 DEF Next

LEMMA StutterOK == IInv /\ UNCHANGED vars => IInv'
BY DEF IInv, TypeOK, ProgramKnowsPosition, vars

LEMMA Invariance == Spec => []IInv
<1>1. IInv /\ [Next]_vars => IInv'
  BY NextOK, StutterOK DEF StepOK, IInv
<1> QED
  BY InitIInv, <1>1, PTL DEF Spec

-----------------------------------------------------------------------------
(* What follows.                                                            *)

\* No file grows beyond what the host allows, no position is negative, and no register
\* holds more than its 32 bits, whatever the program reads, writes and seeks.
THEOREM TypeCorrect == Spec => []TypeOK
<1>1. IInv => TypeOK
  BY DEF IInv
<1> QED
  BY Invariance, <1>1, PTL

\* A program that adds up what 3Fh and 40h answered and takes over what 42h answered is
\* where the host is, but for the multiples of 2^32 that 42h does not show.
THEOREM PositionIsKnown == Spec => []ProgramKnowsPosition
<1>1. IInv => ProgramKnowsPosition
  BY DEF IInv
<1> QED
  BY Invariance, <1>1, PTL

\* The four conversions between 64 and 32 bits that 42h goes through come out where the
\* program asked to be, exactly within 2 GB and up to a multiple of 4 GB beyond.
THEOREM SeeksLand == Spec => SeekLandsWhereAsked
<1>1. IInv /\ [Next]_vars => [call'.fn = "42" => LandsAsAsked]_vars
  BY NextOK DEF StepOK
<1> QED
  BY Invariance, <1>1, PTL DEF Spec, SeekLandsWhereAsked
=============================================================================
