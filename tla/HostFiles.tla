------------------------------- MODULE HostFiles -------------------------------
(***************************************************************************)
(* Reading, writing and positioning: functions 3Fh, 40h, 42h and 44h of    *)
(* INT 21h once the handle is resolved, down through HostFile and UnixFile *)
(* (or ConsoleFile) to the host's calls.  A position is a number of 64     *)
(* bits in the host and in UnixFile, of 32 in size_t and long, which lie   *)
(* between them and the program.  What the bytes are is left out.          *)
(***************************************************************************)
EXTENDS Integers

CONSTANTS
    Word,         \* 2^32
    HostObjects,  \* HostFile objects: two of them may be on the same file
    Files,        \* host files (external)
    StartSizes,   \* their sizes at the start
    MaxSize,      \* bound of the host: the size a file can grow to
    MaxPosition,  \* bound: the farthest position the program seeks
    Counts,       \* byte counts the program passes in ECX
    HighWords,    \* what it passes in ECX of 42h ...
    LowWords,     \* ... and in EDX
    Modes,        \* ... and in AL
    NULL

ASSUME HostFilesAssumption ==
    /\ Word \in Nat /\ Word > 0 /\ Word % 2 = 0
    /\ Counts \cup HighWords \cup LowWords \subseteq 0 .. Word - 1
    /\ Modes \subseteq 0 .. 255
    /\ MaxSize \in Nat /\ MaxPosition \in Nat
    /\ StartSizes \subseteq 0 .. MaxSize
    /\ NULL \notin Files

SEEK_MODE_CUR == 1
SEEK_MODE_END == 2

ERROR_FUNCTION_NOT_SUPPORTED == 1

\* enum DeviceFlagsCharacter.
HAS_CONTROL_CHANNEL == 16384
NOT_REMOVABLE == 2048
IS_CHARACTER_DEVICE == 128
EOF_ON_INPUT == 64
IS_STANDARD_OUTPUT == 2
IS_STANDARD_INPUT == 1

VARIABLES
    size,      \* of each host file
    file,      \* the host file an object is open on, or NULL
    position,  \* the host's position in it
    call,      \* the last call: its function and arguments, and where it found the file
    answer,    \* carry, EAX and EDX after it; NULL is a register left as it was
    process,   \* "running", or "aborted" by an OSException nobody catches
    account    \* history: where the program is, from the answers it got

vars == <<size, file, position, call, answer, process, account>>

-----------------------------------------------------------------------------
Init ==
    /\ size \in [Files -> StartSizes]
    /\ file = [o \in HostObjects |-> NULL]
    /\ position = [o \in HostObjects |-> 0]
    /\ account = [o \in HostObjects |-> 0]
    /\ call = [fn |-> "none"]
    /\ answer = [cf |-> FALSE, eax |-> NULL, edx |-> NULL]
    /\ process = "running"

Opened(o) == process = "running" /\ file[o] # NULL

\* Carry is cleared before the function runs.
Answer(eax, edx) == answer' = [cf |-> FALSE, eax |-> eax, edx |-> edx]

\* The exception leaves handleInterrupt, which catches only DOSException.
Abort ==
    /\ process' = "aborted"
    /\ UNCHANGED <<size, file, position, answer, account>>

\* HostFile::HostFile: the file is opened at its beginning, and not truncated.
Open(o, f) ==
    /\ process = "running"
    /\ file[o] = NULL
    /\ file' = [file EXCEPT ![o] = f]
    /\ position' = [position EXCEPT ![o] = 0]
    /\ account' = [account EXCEPT ![o] = 0]
    /\ call' = [fn |-> "3D"]
    /\ UNCHANGED <<size, answer, process>>

\* HostFile::~HostFile
Close(o) ==
    /\ Opened(o)
    /\ file' = [file EXCEPT ![o] = NULL]
    /\ call' = [fn |-> "3E"]
    /\ UNCHANGED <<size, position, answer, process, account>>

\* What a transfer of n bytes moves: a host call takes no more than 2^31 - 1 and may
\* move less than it was asked for, but not nothing (external).
Moved(n, available) ==
    IF n = 0 \/ available <= 0 THEN {0}
    ELSE 1 .. (IF n < available THEN n ELSE available)

TooLong(n) == n >= Word \div 2

\* Mutant: the count the program asked for is reported.
AdvanceAsAsked(o, n, moved) ==
    /\ position' = [position EXCEPT ![o] = @ + moved]
    /\ Answer(n, NULL)
    /\ account' = [account EXCEPT ![o] = @ + n]

\* The position moves with the bytes, and their number is the answer.
Advance(o, n, moved) ==
    /\ position' = [position EXCEPT ![o] = @ + moved]
    /\ Answer(moved, NULL)
    /\ account' = [account EXCEPT ![o] = @ + moved]

\* 3Fh
Read(o, n) ==
    /\ Opened(o)
    /\ call' = [fn |-> "3F"]
    /\ \/ /\ ~TooLong(n)
          /\ \E moved \in Moved(n, size[file[o]] - position[o]) : Advance(o, n, moved)
          /\ UNCHANGED <<size, file, process>>
       \/ Abort

\* 40h: a write behind the end of the file leaves a hole before it.
Write(o, n) ==
    LET f == file[o]
    IN  /\ Opened(o)
        /\ call' = [fn |-> "40"]
        /\ \/ /\ ~TooLong(n)
              /\ n = 0 \/ position[o] < MaxSize
              /\ \E moved \in Moved(n, MaxSize - position[o]) :
                    /\ Advance(o, n, moved)
                    /\ size' = IF moved > 0 /\ position[o] + moved > size[f]
                               THEN [size EXCEPT ![f] = position[o] + moved] ELSE size
              /\ UNCHANGED <<file, process>>
           \/ Abort

\* Mutant: the offset is taken as unsigned.
LongUnsigned(x) == x % Word

\* The conversion of a uint64_t to long: the low word, as a signed number.
Long(x) ==
    LET low == x % Word
    IN  IF low >= Word \div 2 THEN low - Word ELSE low

\* Mutant: the position comes back whole.
SizeTWide(x) == x

\* The position as size_t: its low word.
SizeT(x) == x % Word

\* lseek's whence: every unknown mode counts from the start.
Base(o, mode) ==
    CASE mode = SEEK_MODE_CUR -> position[o]
      [] mode = SEEK_MODE_END -> size[file[o]]
      [] OTHER -> 0

Offset(ecx, edx) == ecx * Word + edx

\* 42h: ECX:EDX is the offset; the upper word of the result is always 0.
Seek(o, ecx, edx, mode) ==
    LET asked  == Offset(ecx, edx)
        base   == Base(o, mode)
        target == base + Long(asked)
    IN  /\ Opened(o)
        /\ target <= MaxPosition
        /\ call' = [fn |-> "42", object |-> o, asked |-> asked, base |-> base]
        /\ \/ /\ target >= 0
              /\ position' = [position EXCEPT ![o] = target]
              /\ Answer(SizeT(target), 0)
              /\ account' = [account EXCEPT ![o] = answer'.edx * Word + answer'.eax]
              /\ UNCHANGED <<size, file, process>>
           \/ target < 0 /\ Abort

\* 44h, sub-function 0; the flags go to DX.
Ioctl(o) ==
    /\ Opened(o)
    /\ call' = [fn |-> "44"]
    /\ Answer(NULL, NOT_REMOVABLE)
    /\ UNCHANGED <<size, file, position, process, account>>

-----------------------------------------------------------------------------
(* The consoles: fread and fwrite report what they moved, and no error.     *)

ConsoleCall(fn) ==
    /\ process = "running"
    /\ call' = [fn |-> fn]
    /\ UNCHANGED <<size, file, position, process, account>>

\* 3Fh and 40h
ConsoleTransfer(n) ==
    /\ ConsoleCall("3F")
    /\ \E moved \in 0 .. n : Answer(moved, NULL)

ConsoleSeek ==
    /\ ConsoleCall("42 console")
    /\ answer' = [cf |-> TRUE, eax |-> ERROR_FUNCTION_NOT_SUPPORTED, edx |-> NULL]

ConsoleIoctl ==
    /\ ConsoleCall("44")
    /\ Answer(NULL, HAS_CONTROL_CHANNEL + IS_CHARACTER_DEVICE + EOF_ON_INPUT
                            + IS_STANDARD_OUTPUT + IS_STANDARD_INPUT)

-----------------------------------------------------------------------------
Next ==
    \/ \E o \in HostObjects :
          \/ \E f \in Files : Open(o, f)
          \/ Close(o)
          \/ \E n \in Counts : Read(o, n) \/ Write(o, n)
          \/ \E ecx \in HighWords, edx \in LowWords, mode \in Modes :
                Seek(o, ecx, edx, mode)
          \/ Ioctl(o)
    \/ \E n \in Counts : ConsoleTransfer(n)
    \/ ConsoleSeek
    \/ ConsoleIoctl

Spec == Init /\ [][Next]_vars

-----------------------------------------------------------------------------
(* Properties.                                                              *)

TypeOK ==
    /\ size \in [Files -> 0 .. MaxSize]
    /\ file \in [HostObjects -> Files \cup {NULL}]
    /\ position \in [HostObjects -> Nat]
    /\ account \in [HostObjects -> Nat]
    /\ answer.eax \in 0 .. Word - 1 \cup {NULL}
    /\ process \in {"running", "aborted"}

\* A program that adds up the counts it got and takes over the positions of its seeks
\* knows where it is, up to multiples of 2^32 by which the host may be farther - no
\* matter how the transfers were cut short, or what other objects did to the file.
ProgramKnowsPosition ==
    \A o \in HostObjects :
        file[o] # NULL =>
            /\ account[o] <= position[o]
            /\ (position[o] - account[o]) % Word = 0

\* ECX:EDX as the signed number of 64 bits it is.
Signed(x) == IF x >= (Word * Word) \div 2 THEN x - Word * Word ELSE x

FitsLong(x) == -(Word \div 2) <= x /\ x < Word \div 2

\* What a seek comes to, given where it counts from and what it was asked for.
LandsAsAsked ==
    LET wanted == call'.base + Signed(call'.asked)
        landed == position'[call'.object]
    IN  IF process' = "running"
        THEN /\ (landed - wanted) % Word = 0
             /\ answer'.eax = wanted % Word
             /\ FitsLong(Signed(call'.asked)) => landed = wanted
        ELSE FitsLong(Signed(call'.asked)) => wanted < 0

\* A seek within 2 GB to either side lands exactly where it was asked to, and the
\* program goes on unless that is before the file's beginning.  A farther one lands
\* some multiple of 4 GB away, which the answer does not show, or ends the program.
SeekLandsWhereAsked == [][call'.fn = "42" => LandsAsAsked]_vars
=============================================================================
