------------------------------- MODULE HostTime -------------------------------
(***************************************************************************)
(* The DOS clock: UnixTime of UnixDateTime.cpp under functions 2Ch and 2Dh *)
(* of INT 21h.  The host's clock is not set; UnixTime keeps an offset to   *)
(* it, in seconds and in thousandths.                                      *)
(*                                                                         *)
(* Times are local time in seconds since the epoch: localtime and mktime   *)
(* undo each other.  Hours, minutes and seconds are one number, the second *)
(* of the day.  All four units are parameters, so that a small day does.   *)
(***************************************************************************)
EXTENDS Integers, Sequences

CONSTANTS
    Day,        \* seconds of a day: 86400
    Hundred,    \* what tv_usec / 10000 counts, and the program's hundredths: 100
    Ten,        \* thousandths of a second in a hundredth: 10
    Word,       \* 2^32: mMilliSeconds is unsigned
    StartTimes, \* times of the host at which the program starts
    EndTime,    \* bound: the host's clock, in hundredths, when the run ends
    BaseDates,  \* days mktime may find in the date fields of a struct tm nobody set
    DstShifts,  \* seconds mktime may shift by, after a tm_isdst nobody set
    TimeArgs,   \* the seconds of the day the program sets; Day stands for invalid ones
    CentiArgs,  \* the hundredths it sets, Hundred for invalid ones
    MaxSets     \* bound: successful calls of 2Dh

Thousand == Ten * Hundred

ASSUME HostTimeAssumption ==
    /\ Day \in Nat \ {0} /\ Hundred \in Nat \ {0} /\ Ten \in Nat \ {0}
    /\ Word \in Nat /\ Word > 2 * Thousand
    /\ StartTimes \subseteq Nat /\ EndTime \in Nat
    /\ BaseDates \subseteq Nat /\ DstShifts \subseteq Int
    /\ TimeArgs \subseteq 0 .. Day /\ CentiArgs \subseteq 0 .. Hundred
    /\ MaxSets \in Nat

VARIABLES
    clock,               \* gettimeofday, in hundredths of a second
    mOffsetSeconds,
    mOffsetMilliSeconds,
    answer,              \* what the last call left in the registers: AL of 2Dh, or CX
                         \* and DX of 2Ch with the date mCurrentTime has beside them
    sets                 \* history: the successful calls of 2Dh, the last first: what the
                         \* program asked for, and what mktime made of it

clockVars == <<clock, mOffsetSeconds, mOffsetMilliSeconds, answer, sets>>

-----------------------------------------------------------------------------
\* Mutant: the carry is not taken out of the thousandths.
UpdatedUnreduced ==
    LET ms == ((clock % Hundred) + mOffsetMilliSeconds) % Word
    IN  [mCurrentTime |-> (clock \div Hundred) + mOffsetSeconds + (ms \div Thousand),
         mMilliSeconds |-> ms]

\* UnixTime::update: hundredths of the host's clock are added to an offset in
\* thousandths, in unsigned arithmetic.
Updated ==
    LET ms == ((clock % Hundred) + mOffsetMilliSeconds) % Word
    IN  [mCurrentTime |-> (clock \div Hundred) + mOffsetSeconds + (ms \div Thousand),
         mMilliSeconds |-> ms % Thousand]

\* mktime of a struct tm with only the time of day filled in: some day's time, moved
\* if the field for daylight saving happened to be wrong, or no time that can be
\* represented (external).
MkTime(seconds) ==
    {day * Day + seconds + shift : day \in BaseDates, shift \in DstShifts} \cup {-1}

ClockInit ==
    /\ \E start \in StartTimes : clock = start * Hundred
    /\ mOffsetSeconds = 0
    /\ mOffsetMilliSeconds = 0
    /\ answer = [fn |-> "none"]
    /\ sets = << >>

\* 2Ch
GetTime ==
    /\ answer' = [fn |-> "2C", at |-> clock, time |-> Updated,
                  offset |-> mOffsetMilliSeconds,
                  seconds |-> Updated.mCurrentTime % Day,
                  centi |-> Updated.mMilliSeconds \div Ten]
    /\ UNCHANGED <<clock, mOffsetSeconds, mOffsetMilliSeconds, sets>>

SetIsValid(seconds, centi) == seconds < Day /\ centi < Hundred

\* Mutant: the fraction of a second is set, not its difference.
SetBaseAbsolute(base, ms) ==
    /\ mOffsetSeconds' = base - Updated.mCurrentTime
    /\ mOffsetMilliSeconds' = ms

\* UnixTime::setBase: the new offset is the difference to the shifted time, and takes
\* the place of the old offset, which that time already contains.
SetBase(base, ms) ==
    /\ mOffsetSeconds' = base - Updated.mCurrentTime
    /\ mOffsetMilliSeconds' = ms - Updated.mMilliSeconds

\* 2Dh, with a time of the day ...
SetTime(seconds, centi) ==
    /\ SetIsValid(seconds, centi)
    /\ Len(sets) < MaxSets
    /\ \E base \in MkTime(seconds) :
          /\ SetBase(base, centi * Ten)
          /\ sets' = <<[seconds |-> seconds, centi |-> centi, at |-> clock, base |-> base]>> \o sets
    /\ answer' = [fn |-> "2D", al |-> 0]
    /\ UNCHANGED clock

\* ... and without: nothing is set.
RefuseTime(seconds, centi) ==
    /\ ~SetIsValid(seconds, centi)
    /\ answer' = [fn |-> "2D", al |-> 255]
    /\ UNCHANGED <<clock, mOffsetSeconds, mOffsetMilliSeconds, sets>>

\* The host's clock goes on.
Tick ==
    /\ clock < EndTime
    /\ clock' = clock + 1
    /\ UNCHANGED <<mOffsetSeconds, mOffsetMilliSeconds, answer, sets>>

ClockNext ==
    \/ GetTime
    \/ \E seconds \in TimeArgs, centi \in CentiArgs :
          SetTime(seconds, centi) \/ RefuseTime(seconds, centi)
    \/ Tick

ClockSpec == ClockInit /\ [][ClockNext]_clockVars

-----------------------------------------------------------------------------
(* Properties.                                                              *)

\* Every answer of 2Ch is a time of the day: no fraction reaches a whole second,
\* whatever the offsets and however their sum has wrapped.
ClockTypeOK ==
    /\ clock \in Nat
    /\ mOffsetSeconds \in Int
    /\ mOffsetMilliSeconds \in 1 - Thousand .. Thousand - 1
    /\ answer.fn = "2C" => answer.seconds \in 0 .. Day - 1 /\ answer.centi \in 0 .. Hundred - 1

\* Readings in thousandths, as update adds them up: a hundredth of the host's clock
\* counts as one thousandth.
Reading(time) == time.mCurrentTime * Thousand + time.mMilliSeconds

HostReading(at) == (at \div Hundred) * Thousand + (at % Hundred)

\* After the first 2Dh the clock shows the time of day the program has asked for plus
\* what has passed since, modulo a day: exactly, whenever whole seconds have passed, and
\* less than a second off in between, where a hundredth counts as a thousandth. Three
\* conditions: mktime has to keep the time of day it is given; the clock must not have
\* been set before, since a second 2Dh loses what the first one changed; and in between
\* the thousandths, which are unsigned, must not fall below 0.
SetTimeIsKept ==
    answer.fn = "2C" /\ Len(sets) = 1 /\ Head(sets).base % Day = Head(sets).seconds =>
        LET set    == Head(sets)
            passed == answer.at - set.at
            shown  == answer.seconds * Hundred + answer.centi
            off    == (shown - (set.seconds * Hundred + set.centi) - passed) % (Day * Hundred)
        IN  /\ passed % Hundred = 0 => off = 0
            /\ set.centi * Ten + (answer.at % Hundred) >= set.at % Hundred =>
                  off < Hundred \/ off > Day * Hundred - Hundred

\* The sum update took modulo Word for this answer was negative: 2^32 thousandths, 49
\* days and 17 hours, came on top.
Wrapped(a) == (a.at % Hundred) + a.offset < 0

\* Read twice without a 2Dh in between, the clock never runs backwards, unless the
\* first reading was 49 days ahead because of a wrapped fraction.
RunsForward ==
    [][answer.fn = "2C" /\ answer'.fn = "2C" /\ Reading(answer'.time) < Reading(answer.time)
          => Wrapped(answer) /\ ~Wrapped(answer')]_clockVars
=============================================================================
