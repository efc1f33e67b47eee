----------------------------- MODULE FileService -----------------------------
(***************************************************************************)
(* What the file calls of INT 21h promise a program: a handle names one    *)
(* file from the call that answers with it to a call that closes it, no    *)
(* two handles ever share a file, and a program is told that the handles   *)
(* are used up only when they are.                                         *)
(***************************************************************************)
CONSTANTS
    Handles,        \* the handles there are
    StandardFiles,  \* the files the program finds open
    HostObjects,    \* the files it may open
    NULL,           \* an answer that is no handle and no code
    ERROR_OUT_OF_HANDLES

VARIABLES
    open,           \* the handles in use and the file each names
    answer          \* of the last call: who gave it, carry, EAX

InUse == {open[h] : h \in DOMAIN open}

Init ==
    /\ open = << >>
    /\ answer = [by |-> "none", cf |-> FALSE, eax |-> 0]

\* A handle nobody uses gets a file nobody uses.
Grant(h, f) ==
    /\ h \in Handles \ DOMAIN open
    /\ f \notin InUse
    /\ open' = [k \in DOMAIN open \cup {h} |-> IF k = h THEN f ELSE open[k]]

Answer(cf, eax) == answer' = [by |-> "DOS", cf |-> cf, eax |-> eax]

\* Before the program runs.
Provide == \E h \in Handles, f \in StandardFiles : Grant(h, f) /\ UNCHANGED answer

Open == \E h \in Handles, f \in HostObjects : Grant(h, f) /\ Answer(FALSE, h)

OpenRefused ==
    /\ DOMAIN open = Handles
    /\ Answer(TRUE, ERROR_OUT_OF_HANDLES)
    /\ UNCHANGED open

Close ==
    \E h \in DOMAIN open :
        /\ open' = [k \in DOMAIN open \ {h} |-> open[k]]
        /\ Answer(FALSE, NULL)

\* Every other call, and every failure but that one, leaves all handles as they are.
Other ==
    /\ UNCHANGED open
    /\ answer'.cf /\ answer'.by = "DOS" => answer'.eax # ERROR_OUT_OF_HANDLES

Next == Provide \/ Open \/ OpenRefused \/ Close \/ Other

Spec == Init /\ [][Next]_<<open, answer>>
==============================================================================
