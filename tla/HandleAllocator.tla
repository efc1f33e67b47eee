--------------------------- MODULE HandleAllocator ---------------------------
(***************************************************************************)
(* What a table of file handles promises its callers: a handle names the   *)
(* object it was allocated for until it is released, a handle that is in   *)
(* use is never given out again, and an allocation is refused only when    *)
(* every handle is in use.                                                 *)
(***************************************************************************)
CONSTANTS
    Handles,   \* the handles that can be given out
    HandleArgs,\* the numbers a caller can pass as a handle
    Objects,
    ERROR_OUT_OF_HANDLES,
    ERROR_INVALID_HANDLE

VARIABLES
    open,      \* the handles in use and the object each names
    reply      \* the last call and what it returned or threw

\* Some handles may be in use from the beginning.
Init ==
    /\ open = [h \in DOMAIN open |-> open[h]]
    /\ DOMAIN open \subseteq Handles
    /\ reply = [call |-> "none"]

Allocate(o) ==
    \E h \in Handles \ DOMAIN open :
        /\ open' = [k \in DOMAIN open \cup {h} |-> IF k = h THEN o ELSE open[k]]
        /\ reply' = [call |-> "allocate", ok |-> TRUE, value |-> h]

AllocateRefused ==
    /\ DOMAIN open = Handles
    /\ reply' = [call |-> "allocate", ok |-> FALSE, value |-> ERROR_OUT_OF_HANDLES]
    /\ UNCHANGED open

Get(h) ==
    /\ reply' = IF h \in DOMAIN open
                THEN [call |-> "get", ok |-> TRUE, value |-> open[h]]
                ELSE [call |-> "get", ok |-> FALSE, value |-> ERROR_INVALID_HANDLE]
    /\ UNCHANGED open

Release(h) ==
    IF h \in DOMAIN open
    THEN /\ open' = [k \in DOMAIN open \ {h} |-> open[k]]
         /\ reply' = [call |-> "release", ok |-> TRUE, value |-> open[h]]
    ELSE /\ reply' = [call |-> "release", ok |-> FALSE, value |-> ERROR_INVALID_HANDLE]
         /\ UNCHANGED open

Next ==
    \/ \E o \in Objects : Allocate(o)
    \/ AllocateRefused
    \/ \E h \in HandleArgs : Get(h) \/ Release(h)

Spec == Init /\ [][Next]_<<open, reply>>
==============================================================================
