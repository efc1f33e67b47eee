------------------------------ MODULE CommandTail ------------------------------
(***************************************************************************)
(* What the constructor of class DOS lays out in memory for the program:   *)
(* the command tail in the PSP (initPsp) and the environment block         *)
(* (initEnvironment).  A byte is a tuple: <<i, j>> is character j of       *)
(* string i, and the others have a name.  The properties ask where each    *)
(* character comes to lie, not which it is.                                *)
(***************************************************************************)
EXTENDS Integers, Sequences, SequencesExt

CONSTANTS
    TailSize,     \* sizeof(PSP::commandLine): 128
    ArgLists,     \* the lengths of argv[2], argv[3], ...
    EnvBlocks,    \* the lengths of the strings in memory from *envp on, up to an empty one
    AppNames      \* the length of argv[1]

ASSUME CommandTailAssumption ==
    /\ TailSize \in Nat /\ TailSize >= 4
    /\ ArgLists \subseteq Seq(Nat)
    /\ EnvBlocks \subseteq Seq(Nat \ {0})
    /\ AppNames \subseteq Nat

VARIABLES
    args, env, appName,  \* inputs: env.null says that *envp is NULL
    step,                \* "args", "end", "environment", "ready" or "crashed"
    next,                \* the loop's index into args
    pos,
    commandLine,         \* the bytes of commandLine[1..], and where else it was written
    tailLength,          \* commandLine[0]
    mEnvironment,
    mEnvironmentSize

inputs == <<args, env, appName>>
tail == <<next, pos, commandLine, tailLength>>
environment == <<mEnvironment, mEnvironmentSize>>

NUL   == <<"00">>
ONE   == <<"01">>
SPACE == <<"20">>
CR    == <<"0D">>
LF    == <<"0A">>
Wild  == <<"wild">>

Chars(i, len) == [j \in 1 .. len |-> <<i, j>>]

\* A C string: its characters and a NUL.
CString(i, len) == Append(Chars(i, len), NUL)

\* The memory `to` after `bytes` were written from index `at` on, inside or not.
Written(to, at, bytes) ==
    [k \in DOMAIN to \cup at .. at + Len(bytes) - 1 |->
        IF k \in at .. at + Len(bytes) - 1 THEN bytes[k - at + 1] ELSE to[k]]

-----------------------------------------------------------------------------
TailInit ==
    /\ args \in ArgLists
    /\ env \in [null : {FALSE}, strings : EnvBlocks]
                  \cup {[null |-> TRUE, strings |-> << >>]}
    /\ appName \in AppNames
    /\ step = "args" /\ next = 1 /\ pos = 1
    /\ commandLine = [k \in 1 .. TailSize - 1 |-> NUL] /\ tailLength = 0
    /\ mEnvironment = << >> /\ mEnvironmentSize = 0

\* Mutant: the room for CR and LF is forgotten.
FitsExactly(len) == len <= TailSize - 1 - pos

Fits(len) == len <= TailSize - 3 - pos

\* One turn of the loop in initPsp: a space, and strcpy, which ends with a NUL.
CopyArgument ==
    /\ step = "args"
    /\ next <= Len(args) /\ Fits(args[next])
    /\ commandLine' = Written(commandLine, pos, <<SPACE>> \o CString(next, args[next]))
    /\ pos' = pos + 1 + args[next]
    /\ next' = next + 1
    /\ UNCHANGED <<inputs, step, tailLength, environment>>

\* After the last argument, or at the first one that does not fit; those behind it are
\* left out with it.
EndTail ==
    /\ step = "args"
    /\ next <= Len(args) => ~Fits(args[next])
    /\ commandLine' = Written(commandLine, pos, <<CR, LF>>)
    /\ tailLength' = pos
    /\ pos' = pos + 1
    /\ step' = "environment"
    /\ UNCHANGED <<inputs, next, environment>>

\* What lies in memory from *envp on.
HostEnvironment ==
    FlattenSeq([i \in DOMAIN env.strings |-> CString(i, env.strings[i])]) \o <<NUL>>

\* Mutant: the empty string at the end is not counted.
EnvSizeUnterminated ==
    LET p[n \in 0 .. Len(env.strings)] == IF n = 0 THEN 0 ELSE p[n - 1] + env.strings[n] + 1
    IN  p[Len(env.strings)]

\* The walk from string to string, each with its NUL, up to the empty one, which is
\* counted as well: p[n] is how far the pointer is after n strings.
UnixEnvSize ==
    LET p[n \in 0 .. Len(env.strings)] == IF n = 0 THEN 0 ELSE p[n - 1] + env.strings[n] + 1
    IN  p[Len(env.strings)] + 1

\* initEnvironment; without any string in the environment *envp is NULL.
InitEnvironment ==
    LET size == UnixEnvSize + 2 + appName + 1
        new  == [k \in 0 .. size - 1 |-> Wild]
        copied == Written(new, 0, SubSeq(HostEnvironment, 1, UnixEnvSize))
        word   == Written(copied, UnixEnvSize, <<ONE, NUL>>)
    IN  /\ step = "environment"
        /\ ~env.null
        /\ mEnvironment' = Written(word, UnixEnvSize + 2, CString(0, appName))
        /\ mEnvironmentSize' = size
        /\ step' = "ready"
        /\ UNCHANGED <<inputs, tail>>

NoEnvironment ==
    /\ step = "environment"
    /\ env.null
    /\ step' = "crashed"
    /\ UNCHANGED <<inputs, tail, environment>>

Construct == CopyArgument \/ EndTail \/ InitEnvironment \/ NoEnvironment

-----------------------------------------------------------------------------
(* Properties.                                                              *)

TailTypeOK ==
    /\ step \in {"args", "environment", "ready", "crashed"}
    /\ next \in 1 .. Len(args) + 1
    /\ pos \in 1 .. TailSize - 1
    /\ tailLength \in 0 .. TailSize - 2
    /\ mEnvironmentSize \in Nat

\* The first n arguments as the program is to see them.
Text(n) == FlattenSeq([i \in 1 .. n |-> <<SPACE>> \o Chars(i, args[i])])

\* The tail is the longest beginning of the argument list that leaves room for the
\* terminators, whole arguments only, then CR and LF; the count covers the CR.  No byte
\* outside the field is ever written.
TailHoldsArguments ==
    /\ DOMAIN commandLine = 1 .. TailSize - 1
    /\ step \in {"environment", "ready"} =>
          LET n == CHOOSE m \in 0 .. Len(args) :
                      /\ Len(Text(m)) <= TailSize - 3
                      /\ m < Len(args) => Len(Text(m + 1)) > TailSize - 3
          IN  /\ tailLength = Len(Text(n)) + 1
              /\ [k \in 1 .. tailLength + 1 |-> commandLine[k]] = Text(n) \o <<CR, LF>>

\* The block a program walks: the host's strings, an empty one, the word 1, and the
\* program's name, whose NUL is the last byte of the block.
EnvironmentIsComplete ==
    step = "ready" =>
        /\ DOMAIN mEnvironment = 0 .. mEnvironmentSize - 1
        /\ [k \in 1 .. mEnvironmentSize |-> mEnvironment[k - 1]]
              = HostEnvironment \o <<ONE, NUL>> \o CString(0, appName)
=============================================================================
