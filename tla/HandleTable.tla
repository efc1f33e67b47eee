----------------------------- MODULE HandleTable -----------------------------
(***************************************************************************)
(* HandleTable<T> of HandleTable.h: a block of maxEntries pointers in      *)
(* which NULL marks a free entry, and a counter of the entries in use.     *)
(* The constructor does not clear the block, so its first content is       *)
(* chosen from a constant set: the all-NULL block is what the code relies  *)
(* on, any other holds pointers of earlier use of the memory.              *)
(***************************************************************************)
EXTENDS Integers, FiniteSets

CONSTANTS
    MaxEntries,    \* the constructor's argument
    CountMod,      \* 2^16: mNumEntries and handles are uint16_t
    Objects,       \* the objects callers store
    Strays,        \* pointers left over in the block from earlier use of the memory
    NULL,
    InitialBlocks  \* what `new T*[maxEntries]` may find in the block

\* Codes of DOSException.
ERROR_OUT_OF_HANDLES == 4
ERROR_INVALID_HANDLE == 6

Handles == 0 .. MaxEntries - 1

\* Callers pass any uint16_t; one number beyond the table stands for all of those.
HandleArgs == 0 .. MaxEntries

ASSUME HandleTableAssumption ==
    /\ MaxEntries \in Nat /\ MaxEntries > 0
    /\ CountMod \in Nat /\ CountMod > 2 * MaxEntries
    /\ NULL \notin Objects \cup Strays
    /\ InitialBlocks \subseteq [Handles -> Strays \cup {NULL}]

VARIABLES
    mObjects,
    mNumEntries,
    strays,    \* history: how many entries were not NULL at the start
    reply,     \* the last call and what it returned or threw
    status     \* "ok"; "spinning" in allocate's loop; "corrupt" after undefined
               \* behaviour: another object's memory was written, or the process died

vars == <<mObjects, mNumEntries, strays, reply, status>>

-----------------------------------------------------------------------------
Used == {h \in Handles : mObjects[h] # NULL}

\* The cyclic order in which allocate's loop visits the entries from `start` on:
\* k comes before h.
Before(start, k, h) ==
    IF start <= h THEN start <= k /\ k < h ELSE start <= k \/ k < h

\* Mutant: the loop does not look at the entry.
ProbeStopsAtStart(start, h) == h = start

\* Where the loop stops when it begins at `start`.
ProbeStopsAt(start, h) ==
    /\ mObjects[h] = NULL
    /\ \A k \in Handles : Before(start, k, h) => mObjects[k] # NULL

Init ==
    /\ mObjects \in InitialBlocks
    /\ strays = Cardinality(Used)
    /\ mNumEntries = 0
    /\ reply = [call |-> "none"]
    /\ status = "ok"

\* uint16_t arithmetic.
Increment(n) == IF n = CountMod - 1 THEN 0 ELSE n + 1
Decrement(n) == IF n = 0 THEN CountMod - 1 ELSE n - 1

\* Mutant: the new entry is not counted.
StoreUncounted(o, h) ==
    /\ mObjects' = [mObjects EXCEPT ![h] = o]
    /\ UNCHANGED mNumEntries

Store(o, h) ==
    /\ mObjects' = [mObjects EXCEPT ![h] = o]
    /\ mNumEntries' = Increment(mNumEntries)

AllocateRefused ==
    /\ status = "ok"
    /\ mNumEntries = MaxEntries
    /\ reply' = [call |-> "allocate", ok |-> FALSE, value |-> ERROR_OUT_OF_HANDLES]
    /\ UNCHANGED <<mObjects, mNumEntries, status>>

\* The loop begins at entry mNumEntries and stops at the first free one.
Allocate(o) ==
    /\ status = "ok"
    /\ mNumEntries < MaxEntries
    /\ \E h \in Handles :
          /\ ProbeStopsAt(mNumEntries, h)
          /\ Store(o, h)
          /\ reply' = [call |-> "allocate", ok |-> TRUE, value |-> h]
    /\ UNCHANGED status

\* No entry is free although the counter says so: the loop never ends.
AllocateSpins ==
    /\ status = "ok"
    /\ mNumEntries < MaxEntries
    /\ Used = Handles
    /\ status' = "spinning"
    /\ UNCHANGED <<mObjects, mNumEntries, reply>>

\* The counter has wrapped below 0 and the loop begins beyond the block.  It finds
\* a zero word there and writes it, or dies reading, or runs up to 2^16 - 1, where
\* the handle wraps to entry 0.
AllocateOutOfBounds(o) ==
    /\ status = "ok"
    /\ mNumEntries > MaxEntries
    /\ \/ status' = "corrupt" /\ UNCHANGED <<mObjects, mNumEntries, reply>>
       \/ \E h \in Handles :
             /\ ProbeStopsAt(0, h)
             /\ Store(o, h)
             /\ reply' = [call |-> "allocate", ok |-> TRUE, value |-> h]
             /\ UNCHANGED status
       \/ Used = Handles /\ status' = "spinning"
             /\ UNCHANGED <<mObjects, mNumEntries, reply>>

Valid(h) == h < MaxEntries /\ mObjects[h] # NULL

Get(h) ==
    /\ status = "ok"
    /\ reply' = IF Valid(h)
                THEN [call |-> "get", ok |-> TRUE, value |-> mObjects[h]]
                ELSE [call |-> "get", ok |-> FALSE, value |-> ERROR_INVALID_HANDLE]
    /\ UNCHANGED <<mObjects, mNumEntries, status>>

\* Mutants: the counter stops at 0; the counter is signed and nothing is checked.
ReleaseSaturating(h) ==
    /\ status = "ok"
    /\ Valid(h)
    /\ mObjects' = [mObjects EXCEPT ![h] = NULL]
    /\ mNumEntries' = IF mNumEntries = 0 THEN 0 ELSE mNumEntries - 1
    /\ reply' = [call |-> "release", ok |-> TRUE, value |-> mObjects[h]]
    /\ UNCHANGED status

ReleaseUnchecked(h) ==
    /\ status = "ok"
    /\ h < MaxEntries
    /\ mObjects' = [mObjects EXCEPT ![h] = NULL]
    /\ mNumEntries' = mNumEntries - 1
    /\ reply' = [call |-> "release", ok |-> TRUE, value |-> mObjects[h]]
    /\ UNCHANGED status

ReleaseValid(h) ==
    /\ status = "ok"
    /\ Valid(h)
    /\ mObjects' = [mObjects EXCEPT ![h] = NULL]
    /\ mNumEntries' = Decrement(mNumEntries)
    /\ reply' = [call |-> "release", ok |-> TRUE, value |-> mObjects[h]]
    /\ UNCHANGED status

ReleaseInvalid(h) ==
    /\ status = "ok"
    /\ ~Valid(h)
    /\ reply' = [call |-> "release", ok |-> FALSE, value |-> ERROR_INVALID_HANDLE]
    /\ UNCHANGED <<mObjects, mNumEntries, status>>

Next ==
    /\ \/ \E o \in Objects : Allocate(o) \/ AllocateOutOfBounds(o)
       \/ AllocateRefused
       \/ AllocateSpins
       \/ \E h \in HandleArgs : Get(h) \/ ReleaseValid(h) \/ ReleaseInvalid(h)
    /\ UNCHANGED strays

Spec == Init /\ [][Next]_vars

-----------------------------------------------------------------------------
(* Properties.                                                              *)

TypeOK ==
    /\ mObjects \in [Handles -> Objects \cup Strays \cup {NULL}]
    /\ mNumEntries \in 0 .. CountMod - 1
    /\ strays \in 0 .. MaxEntries
    /\ status \in {"ok", "spinning", "corrupt"}

\* The counter that decides whether allocate searches is, after any sequence of
\* calls, the number of entries in use less the strays of the uncleared block: exact
\* when there were none, and wrapped to the top of uint16_t once more strays have
\* been released than objects are stored.
CountOffByStrays ==
    LET excess == Cardinality(Used) - strays
    IN  mNumEntries = IF excess >= 0 THEN excess ELSE excess + CountMod

\* In a block that was cleared, allocate's loop ends: it never runs for ever and
\* never reads outside the block.
AllocateTerminates == strays = 0 => status = "ok"

\* A handle names the object it was allocated for until it is released, a handle in
\* use is not given out, and allocate refuses only when all are in use - whatever the
\* block held: a stray counts as one more object in use.
Abstract == INSTANCE HandleAllocator
    WITH open <- [h \in Used |-> mObjects[h]]

ImplementsAllocator == Abstract!Spec
=============================================================================
