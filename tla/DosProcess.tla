------------------------------ MODULE DosProcess ------------------------------
(***************************************************************************)
(* What class DOS keeps for its one program besides drives and files: the  *)
(* PSP and the environment block, which the constructor lays out, the disk *)
(* transfer address, the version and the clock.  Services are called only  *)
(* after the constructor has returned.                                     *)
(***************************************************************************)
EXTENDS CommandTail, HostTime

CONSTANTS
    PSP_DTA,      \* the address of offset 80h of the PSP
    DtaArgs       \* addresses the program sets

ASSUME DosProcessAssumption == PSP_DTA \notin DtaArgs

VARIABLE mDta

tailVars == <<inputs, step, tail, environment>>
vars == <<tailVars, clockVars, mDta>>

-----------------------------------------------------------------------------
Init ==
    /\ TailInit
    /\ ClockInit
    /\ mDta = PSP_DTA

\* DOS::DOS, byte after byte; the clock only counts from the first service on.
DOS == Construct /\ UNCHANGED <<clockVars, mDta>>

Ready == step = "ready"

\* 1Ah
SetDTA(dta) ==
    /\ Ready
    /\ mDta' = dta
    /\ answer' = [fn |-> "1A"]
    /\ UNCHANGED <<tailVars, clock, mOffsetSeconds, mOffsetMilliSeconds, sets>>

\* 30h: BH depends on AL, the rest is fixed: version 5.0 and a serial number.
GetVersion(al) ==
    /\ Ready
    /\ answer' = [fn |-> "30", bh |-> IF al = 1 THEN 0 ELSE 255, ax |-> 5, bl |-> 18,
                  cx |-> 13399]
    /\ UNCHANGED <<tailVars, clock, mOffsetSeconds, mOffsetMilliSeconds, sets, mDta>>

\* 2Ch and 2Dh, and the host's clock.
Clock == Ready /\ ClockNext /\ UNCHANGED <<tailVars, mDta>>

Next ==
    \/ DOS
    \/ \E dta \in DtaArgs : SetDTA(dta)
    \/ \E al \in {0, 1} : GetVersion(al)
    \/ Clock

Spec == Init /\ [][Next]_vars

-----------------------------------------------------------------------------
(* Properties.  TailHoldsArguments and EnvironmentIsComplete are those of   *)
(* CommandTail, SetTimeIsKept and RunsForward those of HostTime.            *)

TypeOK ==
    /\ TailTypeOK
    /\ ClockTypeOK
    /\ mDta \in DtaArgs \cup {PSP_DTA}
=============================================================================
