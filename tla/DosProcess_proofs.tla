-------------------------- MODULE DosProcess_proofs --------------------------
(***************************************************************************)
(* Proofs about DosProcess and the two modules it is made of: the clock,   *)
(* for every length of a day, a second and a word and every time the       *)
(* program sets; the command tail and the environment block, for every     *)
(* list of arguments, every environment and every name of a program.       *)
(***************************************************************************)
EXTENDS DosProcess, SequenceTheorems, WellFoundedInduction, TLAPS

-----------------------------------------------------------------------------
(* The units of the clock.                                                  *)

LEMMA Units ==
    /\ Day \in Nat /\ Day > 0 /\ Hundred \in Nat /\ Hundred > 0 /\ Ten \in Nat /\ Ten > 0
    /\ Thousand \in Nat /\ Thousand = Ten * Hundred /\ Hundred <= Thousand /\ Thousand > 0
    /\ Word \in Nat /\ Word > 2 * Thousand
<1>1. Day \in Nat /\ Day > 0 /\ Hundred \in Nat /\ Hundred > 0 /\ Ten \in Nat /\ Ten > 0
  BY HostTimeAssumption
<1>2. Thousand \in Nat /\ Thousand = Ten * Hundred
  BY <1>1 DEF Thousand
<1>3. Hundred <= Ten * Hundred
  BY <1>1
<1> QED
  BY <1>1, <1>2, <1>3, HostTimeAssumption

\* A quotient and its remainder make up the number.
LEMMA Divided ==
    ASSUME NEW x \in Int, NEW unit \in Nat, unit > 0
    PROVE  /\ x \div unit \in Int /\ x % unit \in Int /\ x % unit >= 0 /\ x % unit < unit
           /\ x = ((x \div unit) * unit) + (x % unit)
<1>1. x \div unit \in Int /\ x % unit \in 0 .. unit - 1
  OBVIOUS
<1>2. x = (unit * (x \div unit)) + (x % unit)
  OBVIOUS
<1> QED
  BY <1>1, <1>2

\* A number below the unit has no whole unit in it.
LEMMA SmallQuotient ==
    ASSUME NEW unit \in Nat, unit > 0, NEW x \in 0 .. unit - 1
    PROVE  x % unit = x /\ x \div unit = 0
<1> DEFINE q == x \div unit
<1>1. x % unit = x
  OBVIOUS
<1>2. q \in Int /\ x = (q * unit) + (x % unit)
  BY Divided
<1> HIDE DEF q
<1>3. q * unit = 0
  BY <1>1, <1>2
<1>4. CASE q >= 1
  <2>1. q * unit >= unit
    BY <1>2, <1>4
  <2> QED
    BY <1>3, <2>1
<1>5. CASE q <= -1
  <2>1. q * unit <= -unit
    BY <1>2, <1>5
  <2> QED
    BY <1>3, <2>1
<1> QED
  BY <1>1, <1>2, <1>4, <1>5 DEF q

LEMMA Distributed ==
    ASSUME NEW a \in Int, NEW b \in Int, NEW unit \in Nat
    PROVE  /\ (a + b) * unit = (a * unit) + (b * unit)
           /\ (a - b) * unit = (a * unit) - (b * unit)
           /\ a * unit \in Int /\ b * unit \in Int
OBVIOUS

\* A sum that stays within one word of either side of 0 wraps below 0 only, and once.
LEMMA WrapsBelowZero ==
    ASSUME NEW x \in Int, -Word < x, x < Word
    PROVE  x % Word = x + (IF x < 0 THEN Word ELSE 0)
<1>1. Word \in Nat /\ Word > 0
  BY Units
<1>2. CASE x >= 0
  BY <1>1, <1>2
<1>3. CASE x < 0
  <2>1. x = (Word * (-1)) + (x + Word) /\ x + Word \in 0 .. Word - 1
    BY <1>1, <1>3
  <2>2. ASSUME NEW k \in Int, NEW r \in 0 .. Word - 1
        PROVE  ((Word * k) + r) % Word = r
    BY <1>1
  <2>3. ((Word * (-1)) + (x + Word)) % Word = x + Word
    BY <2>1, <2>2
  <2> QED
    BY <1>3, <2>1, <2>3
<1> QED
  BY <1>2, <1>3
-----------------------------------------------------------------------------
(* The clock.                                                               *)

ClockTypes ==
    /\ clock \in Nat
    /\ mOffsetSeconds \in Int
    /\ mOffsetMilliSeconds \in 1 - Thousand .. Thousand - 1

\* What update reads is the host's clock plus the two offsets, and one word more while
\* the fraction is negative.
LEMMA UpdateReads ==
    ASSUME ClockTypes
    PROVE  /\ Updated.mCurrentTime \in Int
           /\ Updated.mMilliSeconds \in 0 .. Thousand - 1
           /\ HostReading(clock) \in Int
           /\ Reading(Updated) =
                 HostReading(clock) + (mOffsetSeconds * Thousand) + mOffsetMilliSeconds
                 + (IF (clock % Hundred) + mOffsetMilliSeconds < 0 THEN Word ELSE 0)
<1> DEFINE sum == (clock % Hundred) + mOffsetMilliSeconds
           ms  == sum % Word
           host == clock \div Hundred
<1>1. clock \in Int /\ mOffsetSeconds \in Int /\ mOffsetMilliSeconds \in Int
      /\ -Thousand < mOffsetMilliSeconds /\ mOffsetMilliSeconds < Thousand
  BY Units DEF ClockTypes
<1>2. host \in Int /\ clock % Hundred \in Int /\ clock % Hundred >= 0 /\ clock % Hundred < Hundred
  BY <1>1, Units, Divided
<1>3. sum \in Int /\ -Word < sum /\ sum < Word
  BY <1>1, <1>2, Units
<1>4. ms = sum + (IF sum < 0 THEN Word ELSE 0)
  BY <1>3, WrapsBelowZero
<1>5. ms \in Int
  BY <1>3, <1>4, Units
<1>6. Updated = [mCurrentTime |-> host + mOffsetSeconds + (ms \div Thousand),
                 mMilliSeconds |-> ms % Thousand]
  BY DEF Updated
<1>7. HostReading(clock) = (host * Thousand) + (clock % Hundred)
  BY DEF HostReading
<1> HIDE DEF host, ms
<1>8. /\ ms \div Thousand \in Int /\ ms % Thousand \in Int
      /\ ms % Thousand >= 0 /\ ms % Thousand < Thousand
      /\ ms = ((ms \div Thousand) * Thousand) + (ms % Thousand)
  BY <1>5, Units, Divided
<1>9. host + mOffsetSeconds \in Int /\ host * Thousand \in Int /\ mOffsetSeconds * Thousand \in Int
  BY <1>1, <1>2, Units
<1>10. (host + mOffsetSeconds + (ms \div Thousand)) * Thousand =
          (host * Thousand) + (mOffsetSeconds * Thousand) + ((ms \div Thousand) * Thousand)
  <2>1. (host + mOffsetSeconds) * Thousand = (host * Thousand) + (mOffsetSeconds * Thousand)
    BY <1>1, <1>2, Units, Distributed
  <2>2. ((host + mOffsetSeconds) + (ms \div Thousand)) * Thousand
           = ((host + mOffsetSeconds) * Thousand) + ((ms \div Thousand) * Thousand)
    BY <1>8, <1>9, Units, Distributed
  <2> QED
    BY <2>1, <2>2
<1>11. Reading(Updated) = (host * Thousand) + (mOffsetSeconds * Thousand) + ms
  <2>1. Reading(Updated) = ((host + mOffsetSeconds + (ms \div Thousand)) * Thousand) + (ms % Thousand)
    BY <1>6 DEF Reading
  <2>2. (ms \div Thousand) * Thousand \in Int
    BY <1>8, Units
  <2> QED
    BY <1>8, <1>9, <1>10, <2>1, <2>2
<1>12. Reading(Updated) = HostReading(clock) + (mOffsetSeconds * Thousand) + mOffsetMilliSeconds
                             + (IF sum < 0 THEN Word ELSE 0)
  BY <1>1, <1>2, <1>3, <1>4, <1>7, <1>9, <1>11, Units
<1>13. Updated.mCurrentTime \in Int /\ Updated.mMilliSeconds \in 0 .. Thousand - 1
  <2>1. host + mOffsetSeconds + (ms \div Thousand) \in Int /\ ms % Thousand \in 0 .. Thousand - 1
    BY <1>8, <1>9, Units
  <2> QED
    BY <1>6, <2>1
<1>14. HostReading(clock) \in Int
  BY <1>2, <1>7, <1>9
<1> QED
  BY <1>12, <1>13, <1>14

\* The host's clock read later is not less.
LEMMA HostGoesOn ==
    ASSUME NEW a \in Nat, NEW b \in Nat, a <= b
    PROVE  HostReading(a) \in Int /\ HostReading(b) \in Int /\ HostReading(a) <= HostReading(b)
<1> DEFINE qa == a \div Hundred
           qb == b \div Hundred
           ra == a % Hundred
           rb == b % Hundred
<1>1. /\ qa \in Int /\ ra \in Int /\ ra >= 0 /\ ra < Hundred /\ a = (qa * Hundred) + ra
      /\ qb \in Int /\ rb \in Int /\ rb >= 0 /\ rb < Hundred /\ b = (qb * Hundred) + rb
  BY Units, Divided
<1>2. HostReading(a) = (qa * Thousand) + ra /\ HostReading(b) = (qb * Thousand) + rb
  BY DEF HostReading
<1> HIDE DEF qa, qb, ra, rb
<1>3. (qb - qa) * Hundred = (qb * Hundred) - (qa * Hundred)
      /\ (qb - qa) * Thousand = (qb * Thousand) - (qa * Thousand)
      /\ qa * Thousand \in Int /\ qb * Thousand \in Int
      /\ qa * Hundred \in Int /\ qb * Hundred \in Int
  BY <1>1, Units, Distributed
<1>4. qb - qa >= 0
  <2>1. CASE qb - qa <= -1
    <3>1. (qb - qa) * Hundred <= -Hundred
      BY <1>1, <2>1, Units
    <3> QED
      BY <1>1, <1>3, <3>1, Units
  <2> QED
    BY <1>1, <2>1
<1>5. CASE qb - qa >= 1
  <2>1. (qb - qa) * Thousand >= Thousand
    BY <1>1, <1>5, Units
  <2> QED
    BY <1>1, <1>2, <1>3, <2>1, Units
<1>6. CASE qb - qa = 0
  <2>1. qb = qa
    BY <1>1, <1>6
  <2> QED
    BY <1>1, <1>2, <1>3, <2>1, Units
<1> QED
  BY <1>1, <1>4, <1>5, <1>6

SetCalls == [seconds : Nat, centi : Nat, at : Nat, base : Int]

\* The offsets are 0 until the first 2Dh, and then what that changed the clock by.
FirstOffsets ==
    /\ sets = << >> => mOffsetSeconds = 0 /\ mOffsetMilliSeconds = 0
    /\ Len(sets) = 1 =>
          /\ mOffsetSeconds = Head(sets).base - (Head(sets).at \div Hundred)
          /\ mOffsetMilliSeconds = (Head(sets).centi * Ten) - (Head(sets).at % Hundred)
          /\ Head(sets).centi < Hundred

\* An answer of 2Ch that is still the last one was computed from the present offsets.
AnswerIsCurrent ==
    answer.fn = "2C" =>
        /\ answer.at \in Nat /\ answer.at <= clock
        /\ answer.offset = mOffsetMilliSeconds
        /\ answer.seconds = answer.time.mCurrentTime % Day /\ answer.time.mCurrentTime \in Int
        /\ answer.centi = answer.time.mMilliSeconds \div Ten
        /\ answer.time.mMilliSeconds \in 0 .. Thousand - 1
        /\ Reading(answer.time) =
              HostReading(answer.at) + (mOffsetSeconds * Thousand) + mOffsetMilliSeconds
              + (IF Wrapped(answer) THEN Word ELSE 0)

\* The inductive invariant of the clock.
ClockInv ==
    /\ ClockTypeOK
    /\ sets \in Seq(SetCalls)
    /\ FirstOffsets
    /\ AnswerIsCurrent

\* What RunsForward says of one step.
Forward ==
    answer.fn = "2C" /\ answer'.fn = "2C" /\ Reading(answer'.time) < Reading(answer.time)
        => Wrapped(answer) /\ ~Wrapped(answer')

LEMMA GetTimeStep ==
    ASSUME ClockInv, GetTime
    PROVE  ClockInv' /\ Forward
<1>1. ClockTypes
  BY DEF ClockInv, ClockTypeOK, ClockTypes
<1>2. /\ Updated.mCurrentTime \in Int
      /\ Updated.mMilliSeconds \in 0 .. Thousand - 1
      /\ HostReading(clock) \in Int
      /\ Reading(Updated) =
            HostReading(clock) + (mOffsetSeconds * Thousand) + mOffsetMilliSeconds
            + (IF (clock % Hundred) + mOffsetMilliSeconds < 0 THEN Word ELSE 0)
  BY <1>1, UpdateReads
<1>3. /\ answer'.fn = "2C" /\ answer'.at = clock /\ answer'.offset = mOffsetMilliSeconds
      /\ answer'.time = Updated
      /\ answer'.seconds = Updated.mCurrentTime % Day
      /\ answer'.centi = Updated.mMilliSeconds \div Ten
      /\ UNCHANGED <<clock, mOffsetSeconds, mOffsetMilliSeconds, sets>>
  BY DEF GetTime
<1> DEFINE s == Updated.mCurrentTime
           m == Updated.mMilliSeconds
<1>4. s % Day \in 0 .. Day - 1
  <2>1. s \in Int
    BY <1>2
  <2> HIDE DEF s
  <2>2. s % Day \in Int /\ s % Day >= 0 /\ s % Day < Day
    BY <2>1, Units, Divided
  <2> QED
    BY <2>2, Units
<1>5. m \div Ten \in 0 .. Hundred - 1
  <2>1. m \in Int /\ m >= 0 /\ m < Ten * Hundred
    BY <1>2, Units
  <2> HIDE DEF m
  <2>2. m \div Ten \in Int /\ m % Ten >= 0 /\ m % Ten < Ten /\ m % Ten \in Int
        /\ m = ((m \div Ten) * Ten) + (m % Ten)
    BY <2>1, Units, Divided
  <2> DEFINE q == m \div Ten
  <2>3. q \in Int
    BY <2>2
  <2> HIDE DEF q
  <2>4. q * Ten <= m /\ m < (q * Ten) + Ten
    BY <2>2, Units, <2>3 DEF q
  <2>5. CASE q <= -1
    <3>1. q * Ten <= -Ten
      BY <2>3, <2>5, Units
    <3> QED
      BY <2>1, <2>3, <2>4, <3>1, Units
  <2>6. CASE q >= Hundred
    <3>1. q * Ten >= Hundred * Ten
      BY <2>3, <2>6, Units
    <3> QED
      BY <2>1, <2>3, <2>4, <3>1, Units
  <2>7. CASE 0 <= q /\ q < Hundred
    BY <2>3, <2>7, Units DEF q
  <2> QED
    BY <2>3, <2>5, <2>6, <2>7, Units
<1>6. ClockTypeOK'
  BY <1>3, <1>4, <1>5 DEF ClockInv, ClockTypeOK
<1>7. (sets \in Seq(SetCalls))' /\ FirstOffsets'
  BY <1>3 DEF ClockInv, FirstOffsets
<1>8. AnswerIsCurrent'
  <2>1. clock \in Nat
    BY <1>1 DEF ClockTypes
  <2>2. Wrapped(answer') <=> (clock % Hundred) + mOffsetMilliSeconds < 0
    BY <1>3 DEF Wrapped
  <2>3. Reading(answer'.time) =
           HostReading(answer'.at) + (mOffsetSeconds' * Thousand) + mOffsetMilliSeconds'
           + (IF Wrapped(answer') THEN Word ELSE 0)
    BY <1>2, <1>3, <2>2
  <2>4. answer'.at \in Nat /\ answer'.at <= clock' /\ answer'.offset = mOffsetMilliSeconds'
    BY <1>3, <2>1
  <2>5. /\ answer'.seconds = answer'.time.mCurrentTime % Day /\ answer'.time.mCurrentTime \in Int
        /\ answer'.centi = answer'.time.mMilliSeconds \div Ten
        /\ answer'.time.mMilliSeconds \in 0 .. Thousand - 1
    BY <1>2, <1>3
  <2> QED
    BY <2>3, <2>4, <2>5 DEF AnswerIsCurrent
<1>9. Forward
  <2> SUFFICES ASSUME answer.fn = "2C", Reading(answer'.time) < Reading(answer.time)
               PROVE  Wrapped(answer) /\ ~Wrapped(answer')
    BY DEF Forward
  <2> DEFINE was == HostReading(answer.at)
             is  == HostReading(clock)
             off == (mOffsetSeconds * Thousand) + mOffsetMilliSeconds
  <2>1. answer.at \in Nat /\ answer.at <= clock /\ clock \in Nat
    BY <1>1 DEF ClockInv, AnswerIsCurrent, ClockTypes
  <2>2. was \in Int /\ is \in Int /\ was <= is
    BY <2>1, HostGoesOn
  <2>3. off \in Int
    BY <1>1, Units DEF ClockTypes
  <2>4. mOffsetSeconds * Thousand \in Int /\ mOffsetMilliSeconds \in Int
    BY <1>1, Units DEF ClockTypes
  <2>5. Reading(answer.time) = was + off + (IF Wrapped(answer) THEN Word ELSE 0)
    <3>1. Reading(answer.time) = was + (mOffsetSeconds * Thousand) + mOffsetMilliSeconds
                                    + (IF Wrapped(answer) THEN Word ELSE 0)
      BY DEF ClockInv, AnswerIsCurrent
    <3> QED
      BY <2>2, <2>4, <3>1, Units
  <2>6. Reading(answer'.time) = is + off + (IF Wrapped(answer') THEN Word ELSE 0)
    <3>1. Reading(answer'.time) = is + (mOffsetSeconds * Thousand) + mOffsetMilliSeconds
                                    + (IF Wrapped(answer') THEN Word ELSE 0)
      BY <1>3, <1>8 DEF AnswerIsCurrent
    <3> QED
      BY <2>2, <2>4, <3>1, Units
  <2> HIDE DEF was, is, off
  <2> QED
    BY <2>2, <2>3, <2>5, <2>6, Units
<1> QED
  BY <1>6, <1>7, <1>8, <1>9 DEF ClockInv

\* A clock nobody has set is the host's.
LEMMA UnsetClock ==
    ASSUME ClockTypes, mOffsetSeconds = 0, mOffsetMilliSeconds = 0
    PROVE  Updated.mCurrentTime = clock \div Hundred /\ Updated.mMilliSeconds = clock % Hundred
<1> DEFINE f == clock % Hundred
           q == clock \div Hundred
<1>1. q \in Int /\ f \in Int /\ f >= 0 /\ f < Hundred
  BY Units, Divided DEF ClockTypes
<1>2. Updated = [mCurrentTime |-> q + 0 + (((f + 0) % Word) \div Thousand),
                 mMilliSeconds |-> ((f + 0) % Word) % Thousand]
  BY DEF Updated
<1> HIDE DEF f, q
<1>3. (f + 0) % Word = f
  BY <1>1, Units
<1>4. f \in 0 .. Thousand - 1
  BY <1>1, Units
<1>5. f % Thousand = f /\ f \div Thousand = 0
  BY <1>4, Units, SmallQuotient
<1>6. q + 0 + 0 = q
  BY <1>1
<1>7. Updated.mCurrentTime = q /\ Updated.mMilliSeconds = f
  BY <1>2, <1>3, <1>5, <1>6
<1> QED
  BY <1>7 DEF q, f

\* A valid 2Dh: the difference is made, and no reading of 2Ch is the last answer.
LEMMA SetTimeStep ==
    ASSUME ClockInv, NEW seconds \in TimeArgs, NEW centi \in CentiArgs, SetTime(seconds, centi)
    PROVE  ClockInv' /\ Forward
<1>1. ClockTypes
  BY DEF ClockInv, ClockTypeOK, ClockTypes
<1>2. Updated.mCurrentTime \in Int /\ Updated.mMilliSeconds \in 0 .. Thousand - 1
  BY <1>1, UpdateReads
<1> DEFINE ms   == centi * Ten
           call(base) == [seconds |-> seconds, centi |-> centi, at |-> clock, base |-> base]
<1>3. PICK base \in MkTime(seconds) :
         /\ SetBase(base, ms)
         /\ sets' = <<call(base)>> \o sets
  BY DEF SetTime
<1>4. base \in Int
  <2>1. CASE base = -1
    BY <2>1
  <2>2. ASSUME NEW day \in BaseDates, NEW shift \in DstShifts,
               base = day * Day + seconds + shift
        PROVE  base \in Int
    <3>1. day \in Nat /\ shift \in Int /\ seconds \in Nat /\ Day \in Nat
      BY HostTimeAssumption
    <3> QED
      BY <2>2, <3>1
  <2> QED
    BY <2>1, <2>2 DEF MkTime
<1>5. ms \in Int /\ 0 <= ms /\ ms < Thousand
  <2>1. centi \in Nat /\ centi < Hundred
    BY HostTimeAssumption DEF SetTime, SetIsValid
  <2>2. centi * Ten <= (Hundred - 1) * Ten
    BY <2>1, Units
  <2>3. (Hundred - 1) * Ten = Thousand - Ten
    BY Units
  <2>4. centi * Ten \in Int /\ centi * Ten >= 0
    BY <2>1, Units
  <2> QED
    BY <2>2, <2>3, <2>4, Units
<1>6. /\ mOffsetSeconds' = base - Updated.mCurrentTime
      /\ mOffsetMilliSeconds' = ms - Updated.mMilliSeconds
  BY <1>3 DEF SetBase
<1>7. answer'.fn = "2D" /\ clock' = clock
  BY DEF SetTime
<1> HIDE DEF ms
<1>8. call(base) \in SetCalls /\ centi \in Nat /\ centi < Hundred
  <2>1. centi \in Nat /\ centi < Hundred /\ seconds \in Nat
    BY HostTimeAssumption DEF SetTime, SetIsValid
  <2> QED
    BY <1>1, <1>4, <2>1 DEF SetCalls, ClockTypes
<1>9. sets' \in Seq(SetCalls) /\ Head(sets') = call(base) /\ Len(sets') = Len(sets) + 1
  <2>1. sets \in Seq(SetCalls)
    BY DEF ClockInv
  <2> HIDE DEF call
  <2> QED
    BY <1>3, <1>8, <2>1
<1>10. FirstOffsets'
  <2>1. sets' # << >> /\ (Len(sets') = 1 => sets = << >>)
    BY <1>9 DEF ClockInv
  <2>2. ASSUME sets = << >>
        PROVE  Updated.mCurrentTime = clock \div Hundred /\ Updated.mMilliSeconds = clock % Hundred
    BY <1>1, <2>2, UnsetClock DEF ClockInv, FirstOffsets
  <2>3. call(base).base = base /\ call(base).at = clock /\ call(base).centi = centi
    OBVIOUS
  <2> HIDE DEF call
  <2>4. ASSUME Len(sets') = 1
        PROVE  /\ mOffsetSeconds' = Head(sets').base - (Head(sets').at \div Hundred)
               /\ mOffsetMilliSeconds' = (Head(sets').centi * Ten) - (Head(sets').at % Hundred)
               /\ Head(sets').centi < Hundred
    BY <1>6, <1>8, <1>9, <2>1, <2>2, <2>3, <2>4 DEF ms
  <2> QED
    BY <2>1, <2>4 DEF FirstOffsets
<1>11. AnswerIsCurrent' /\ Forward
  BY <1>7 DEF AnswerIsCurrent, Forward
<1>12. ClockTypeOK'
  <2>1. mOffsetSeconds' \in Int
    BY <1>2, <1>4, <1>6
  <2>2. mOffsetMilliSeconds' \in 1 - Thousand .. Thousand - 1
    <3> DEFINE m == Updated.mMilliSeconds
    <3>1. m \in Int /\ 0 <= m /\ m < Thousand /\ mOffsetMilliSeconds' = ms - m
      BY <1>2, <1>6, Units
    <3> HIDE DEF m
    <3> QED
      BY <1>5, <3>1, Units
  <2> QED
    BY <1>1, <1>7, <2>1, <2>2 DEF ClockTypeOK, ClockTypes
<1> QED
  BY <1>9, <1>10, <1>11, <1>12 DEF ClockInv

\* A call after which another answer than a time is the last one, and no offset has
\* changed.
LEMMA OtherAnswerStep ==
    ASSUME ClockInv, UNCHANGED <<clock, mOffsetSeconds, mOffsetMilliSeconds, sets>>,
           answer'.fn # "2C"
    PROVE  ClockInv' /\ Forward
<1>1. ClockTypeOK' /\ FirstOffsets' /\ AnswerIsCurrent' /\ Forward
  BY DEF ClockInv, ClockTypeOK, FirstOffsets, AnswerIsCurrent, Forward
<1> QED
  BY <1>1 DEF ClockInv

LEMMA TickStep ==
    ASSUME ClockInv, Tick
    PROVE  ClockInv' /\ Forward
<1>1. clock \in Nat /\ clock' = clock + 1
      /\ UNCHANGED <<mOffsetSeconds, mOffsetMilliSeconds, answer, sets>>
  BY DEF ClockInv, ClockTypeOK, Tick
<1>2. ClockTypeOK' /\ FirstOffsets'
  BY <1>1 DEF ClockInv, ClockTypeOK, FirstOffsets
<1>3. AnswerIsCurrent'
  <2>1. answer.fn = "2C" => answer.at <= clock /\ answer.at \in Nat
    BY DEF ClockInv, AnswerIsCurrent
  <2>2. answer.fn = "2C" => answer.at <= clock'
    BY <1>1, <2>1
  <2> QED
    BY <1>1, <2>2 DEF ClockInv, AnswerIsCurrent
<1>4. Forward
  <2> SUFFICES ASSUME answer.fn = "2C", Reading(answer'.time) < Reading(answer.time)
               PROVE  FALSE
    BY DEF Forward
  <2> DEFINE r == Reading(answer.time)
  <2>1. r < r
    BY <1>1
  <2>2. r \in Int
    <3>1. answer.at \in Nat /\ HostReading(answer.at) \in Int
      BY HostGoesOn DEF ClockInv, AnswerIsCurrent
    <3>2. mOffsetSeconds * Thousand \in Int /\ mOffsetMilliSeconds \in Int
      BY Units DEF ClockInv, ClockTypeOK
    <3>3. r = HostReading(answer.at) + (mOffsetSeconds * Thousand) + mOffsetMilliSeconds
              + (IF Wrapped(answer) THEN Word ELSE 0)
      BY DEF ClockInv, AnswerIsCurrent
    <3> HIDE DEF r
    <3> QED
      BY <3>1, <3>2, <3>3, Units
  <2> HIDE DEF r
  <2> QED
    BY <2>1, <2>2
<1> QED
  BY <1>1, <1>2, <1>3, <1>4 DEF ClockInv

\* Modulo a day a small difference is near 0 or near the end of the day.
LEMMA NearMidnight ==
    ASSUME NEW M \in Nat, M > 0, NEW h \in Nat, h <= M,
           NEW e \in Int, -h < e, e < h, NEW k \in Int
    PROVE  /\ e = 0 => (e + (k * M)) % M = 0
           /\ (e + (k * M)) % M < h \/ (e + (k * M)) % M > M - h
<1> DEFINE x == e + (k * M)
           q == x \div M
           r == x % M
<1>0. x \in Int
  OBVIOUS
<1>1. q \in Int /\ r \in Int /\ r >= 0 /\ r < M /\ x = (q * M) + r
  <2> HIDE DEF x
  <2> QED
    BY <1>0, Divided
<1> HIDE DEF q, r
<1>2. k * M \in Int /\ q * M \in Int
  BY <1>1
<1>3. (q - k) * M = e - r
  <2>1. (q - k) * M = (q * M) - (k * M)
    BY <1>1, Distributed
  <2> QED
    BY <1>1, <1>2, <2>1
<1>4. CASE q - k >= 1
  <2>1. (q - k) * M >= M
    BY <1>1, <1>4
  <2> QED
    BY <1>1, <1>3, <2>1
<1>5. CASE q - k <= -2
  <2>1. (q - k) * M <= -2 * M
    BY <1>1, <1>5
  <2> QED
    BY <1>1, <1>3, <2>1
<1>6. CASE q - k = 0
  <2>1. (q - k) * M = 0
    BY <1>6
  <2>2. r = e
    BY <1>1, <1>3, <2>1
  <2> QED
    BY <2>2 DEF r
<1>7. CASE q - k = -1
  <2>1. (q - k) * M = -M
    BY <1>7
  <2>2. r = e + M
    BY <1>1, <1>3, <2>1
  <2> QED
    BY <1>1, <2>2 DEF r
<1> QED
  BY <1>1, <1>4, <1>5, <1>6, <1>7

\* A tenth of a difference, rounded down, is no further from it than it is from 0.
LEMMA TenthOff ==
    ASSUME NEW ten \in Nat, ten > 0, NEW h \in Nat, NEW d \in Int, -h < d, d < h,
           NEW z \in Int, NEW t \in Int, 0 <= t, t < ten, z * ten = d - t
    PROVE  (d = 0 => z - d = 0) /\ -h < z - d /\ z - d < h
<1>1. d >= 0 => z >= 0
  <2> SUFFICES ASSUME d >= 0, z <= -1 PROVE FALSE
    OBVIOUS
  <2>1. z * ten <= -ten
    OBVIOUS
  <2> QED
    BY <2>1
<1>2. z >= 0 => z <= d
  <2> SUFFICES ASSUME z >= 0 PROVE z <= d
    OBVIOUS
  <2>1. z * ten >= z
    OBVIOUS
  <2> QED
    BY <2>1
<1>3. d < 0 => z <= -1
  <2> SUFFICES ASSUME d < 0, z >= 0 PROVE FALSE
    OBVIOUS
  <2>1. z * ten >= 0
    OBVIOUS
  <2> QED
    BY <2>1
<1>4. d < 0 => z >= d
  <2> SUFFICES ASSUME d < 0, z <= d - 1 PROVE FALSE
    OBVIOUS
  <2>1. z * ten <= (d - 1) * ten
    OBVIOUS
  <2>2. (d - 1) * ten = (d * ten) - ten
    OBVIOUS
  <2>3. d * ten <= d
    OBVIOUS
  <2>4. d * ten \in Int /\ z * ten \in Int
    OBVIOUS
  <2> QED
    BY <2>1, <2>2, <2>3, <2>4
<1> QED
  BY <1>1, <1>2, <1>3, <1>4

\* The same fraction of the host's second: whole seconds have passed.
LEMMA WholeSeconds ==
    ASSUME NEW f \in Int, 0 <= f, f < Hundred, NEW g \in Int, 0 <= g, g < Hundred,
           NEW k \in Int, ((k * Hundred) + (f - g)) % Hundred = 0
    PROVE  f = g
<1> DEFINE x == (k * Hundred) + (f - g)
           q == x \div Hundred
<1>1. k * Hundred \in Int /\ x \in Int
  BY Units
<1>2. q \in Int /\ x = (q * Hundred) + 0
  BY <1>1, Units, Divided
<1>3. (q - k) * Hundred = (q * Hundred) - (k * Hundred) /\ q * Hundred \in Int
  BY <1>2, Units, Distributed
<1> HIDE DEF q
<1>4. (q - k) * Hundred = f - g
  BY <1>1, <1>2, <1>3
<1>5. CASE q - k >= 1
  <2>1. (q - k) * Hundred >= Hundred
    BY <1>2, <1>5, Units
  <2> QED
    BY <1>4, <2>1, Units
<1>6. CASE q - k <= -1
  <2>1. (q - k) * Hundred <= -Hundred
    BY <1>2, <1>6, Units
  <2> QED
    BY <1>4, <2>1, Units
<1>7. CASE q - k = 0
  <2>1. (q - k) * Hundred = 0
    BY <1>7, Units
  <2> QED
    BY <1>4, <2>1
<1> QED
  BY <1>2, <1>5, <1>6, <1>7

LEMMA KeptAfterSet == ClockInv => SetTimeIsKept
<1> DEFINE set    == Head(sets)
           passed == answer.at - set.at
           shown  == (answer.seconds * Hundred) + answer.centi
           x      == shown - ((set.seconds * Hundred) + set.centi) - passed
           M      == Day * Hundred
           a      == answer.time.mCurrentTime
           m      == answer.time.mMilliSeconds
           f      == answer.at % Hundred
           q      == answer.at \div Hundred
           g      == set.at % Hundred
           r      == set.at \div Hundred
           base   == set.base
           c      == set.centi
           e      == m \div Ten
           t      == m % Ten
           i      == a \div Day
           j      == base \div Day
           d      == f - g
           K      == a - q - base + r
           z      == (K * Hundred) - c + e
<1> SUFFICES ASSUME ClockInv, answer.fn = "2C", Len(sets) = 1, base % Day = set.seconds
             PROVE  /\ passed % Hundred = 0 => x % M = 0
                    /\ (c * Ten) + f >= g => x % M < Hundred \/ x % M > M - Hundred
  BY DEF SetTimeIsKept
<1>1. set \in SetCalls
  <2>1. sets \in Seq(SetCalls)
    BY DEF ClockInv
  <2>2. sets # << >>
    OBVIOUS
  <2> QED
    BY <2>1, <2>2
<1>2. set.seconds \in Nat /\ c \in Nat /\ set.at \in Nat /\ base \in Int
  BY <1>1 DEF SetCalls
<1>3. /\ answer.at \in Nat /\ a \in Int /\ m \in Int /\ m >= 0 /\ m < Thousand
      /\ answer.seconds = a % Day /\ answer.centi = e
      /\ answer.offset = mOffsetMilliSeconds
      /\ Reading(answer.time) =
            HostReading(answer.at) + (mOffsetSeconds * Thousand) + mOffsetMilliSeconds
            + (IF Wrapped(answer) THEN Word ELSE 0)
  <2>1. m \in 0 .. Thousand - 1
    BY DEF ClockInv, AnswerIsCurrent
  <2>2. m \in Int /\ m >= 0 /\ m < Thousand
    BY <2>1, Units
  <2> QED
    BY <2>2 DEF ClockInv, AnswerIsCurrent
<1>4. mOffsetSeconds = base - r /\ mOffsetMilliSeconds = (c * Ten) - g
  BY DEF ClockInv, FirstOffsets
<1>5. /\ q \in Int /\ f \in Int /\ f >= 0 /\ f < Hundred /\ answer.at = (q * Hundred) + f
      /\ r \in Int /\ g \in Int /\ g >= 0 /\ g < Hundred /\ set.at = (r * Hundred) + g
  <2>1. answer.at \in Int /\ set.at \in Int
    BY <1>2, <1>3
  <2>2. q \in Int /\ f \in Int /\ f >= 0 /\ f < Hundred /\ answer.at = (q * Hundred) + f
    BY <2>1, Units, Divided
  <2>3. r \in Int /\ g \in Int /\ g >= 0 /\ g < Hundred /\ set.at = (r * Hundred) + g
    BY <2>1, Units, Divided
  <2> QED
    BY <2>2, <2>3
<1>6. /\ e \in Int /\ t \in Int /\ t >= 0 /\ t < Ten /\ m = (e * Ten) + t
      /\ i \in Int /\ a = (i * Day) + (a % Day) /\ a % Day \in Int
      /\ j \in Int /\ base = (j * Day) + (base % Day) /\ base % Day \in Int
  BY <1>2, <1>3, Units, Divided
<1>7. Wrapped(answer) <=> f + ((c * Ten) - g) < 0
  BY <1>3, <1>4 DEF Wrapped
<1>8. Reading(answer.time) = (a * Thousand) + m /\ HostReading(answer.at) = (q * Thousand) + f
  BY DEF Reading, HostReading
<1> DEFINE secs == a % Day
           asked == base % Day
<1>9. /\ passed = answer.at - set.at
      /\ x = ((secs * Hundred) + e) - ((asked * Hundred) + c) - passed
  BY <1>3
<1> HIDE DEF f, q, g, r, a, m, base, c, e, t, i, j, secs, asked, passed, x
<1>10. c * Ten \in Int
  BY <1>2, Units
<1>11. d \in Int /\ -Hundred < d /\ d < Hundred
  BY <1>5, Units
<1>12. ASSUME f + ((c * Ten) - g) >= 0
       PROVE  z * Ten = d - t
  <2>1. (a * Thousand) + m = ((q * Thousand) + f) + ((base - r) * Thousand) + ((c * Ten) - g)
    <3>1. ~Wrapped(answer)
      BY <1>5, <1>7, <1>10, <1>12
    <3>2. Reading(answer.time) = HostReading(answer.at) + (mOffsetSeconds * Thousand)
                                    + mOffsetMilliSeconds + 0
      BY <1>3, <3>1
    <3>3. (q * Thousand) + f \in Int /\ (base - r) * Thousand \in Int /\ (c * Ten) - g \in Int
      BY <1>2, <1>5, <1>10, Units
    <3> QED
      BY <1>4, <1>8, <3>2, <3>3
  <2>2. /\ (base - r) * Thousand = (base * Thousand) - (r * Thousand)
        /\ base * Thousand \in Int /\ r * Thousand \in Int
    BY <1>2, <1>5, Units, Distributed
  <2>3. /\ (a - q) * Thousand = (a * Thousand) - (q * Thousand)
        /\ a * Thousand \in Int /\ q * Thousand \in Int
    BY <1>3, <1>5, Units, Distributed
  <2>4. K * Thousand = (a * Thousand) - (q * Thousand) - (base * Thousand) + (r * Thousand)
    <3>1. ((a - q) - (base - r)) * Thousand = ((a - q) * Thousand) - ((base - r) * Thousand)
      BY <1>2, <1>3, <1>5, Units, Distributed
    <3>2. K = (a - q) - (base - r)
      BY <1>2, <1>3, <1>5
    <3> HIDE DEF K
    <3> QED
      BY <2>2, <2>3, <3>1, <3>2
  <2>5. K \in Int
    BY <1>2, <1>3, <1>5
  <2> HIDE DEF K
  <2>6. K * Thousand = d + (c * Ten) - m
    <3> DEFINE aT == a * Thousand
               qT == q * Thousand
               bT == base * Thousand
               rT == r * Thousand
               cT == c * Ten
    <3>1. aT \in Int /\ qT \in Int /\ bT \in Int /\ rT \in Int /\ cT \in Int
      BY <1>10, <2>2, <2>3
    <3>2. aT + m = (qT + f) + (bT - rT) + (cT - g)
      BY <2>1, <2>2
    <3>3. K * Thousand = aT - qT - bT + rT
      BY <2>4
    <3> HIDE DEF aT, qT, bT, rT, cT
    <3>4. K * Thousand = (f - g) + cT - m
      BY <1>3, <1>5, <3>1, <3>2, <3>3
    <3> QED
      BY <3>4 DEF cT
  <2>7. K * Thousand = (K * Hundred) * Ten /\ K * Hundred \in Int
    BY <2>5, Units
  <2>8. z * Ten = ((K * Hundred) * Ten) - (c * Ten) + (e * Ten)
    <3>1. ((K * Hundred) - c) * Ten = ((K * Hundred) * Ten) - (c * Ten)
      BY <1>2, <2>7, Units, Distributed
    <3>2. ((K * Hundred) - c) + e = z /\ (K * Hundred) - c \in Int
      BY <1>2, <1>6, <2>7
    <3>3. (((K * Hundred) - c) + e) * Ten = (((K * Hundred) - c) * Ten) + (e * Ten)
      BY <1>6, <3>2, Units, Distributed
    <3> QED
      BY <3>1, <3>2, <3>3
  <2>9. e * Ten \in Int
    BY <1>6, Units
  <2> QED
    BY <1>3, <1>5, <1>6, <1>10, <2>6, <2>7, <2>8, <2>9
<1>13. x = (z - d) + ((j - i) * M) /\ x \in Int /\ z \in Int
  <2>1. /\ secs = a - (i * Day) /\ asked = base - (j * Day)
        /\ i * Day \in Int /\ j * Day \in Int /\ secs \in Int /\ asked \in Int
    <3>1. a = (i * Day) + secs /\ base = (j * Day) + asked /\ secs \in Int /\ asked \in Int
      BY <1>6 DEF secs, asked
    <3>2. i * Day \in Int /\ j * Day \in Int
      BY <1>6, Units
    <3> QED
      BY <1>2, <1>3, <3>1, <3>2
  <2>2. /\ (secs - asked) * Hundred = (secs * Hundred) - (asked * Hundred)
        /\ secs * Hundred \in Int /\ asked * Hundred \in Int
    BY <2>1, Units, Distributed
  <2>3. /\ (q - r) * Hundred = (q * Hundred) - (r * Hundred)
        /\ q * Hundred \in Int /\ r * Hundred \in Int
    BY <1>5, Units, Distributed
  <2>4. x = ((secs - asked) * Hundred) - ((q - r) * Hundred) + e - c - d
    BY <1>2, <1>5, <1>6, <1>9, <2>2, <2>3
  <2>5. ((secs - asked) - (q - r)) * Hundred = ((secs - asked) * Hundred) - ((q - r) * Hundred)
    BY <1>5, <2>1, Units, Distributed
  <2>6. (secs - asked) - (q - r) = K + ((j - i) * Day)
    <3>1. (j - i) * Day = (j * Day) - (i * Day)
      BY <1>6, Units, Distributed
    <3> QED
      BY <1>2, <1>3, <1>5, <2>1, <3>1
  <2>7. K \in Int
    BY <1>2, <1>3, <1>5
  <2> HIDE DEF K
  <2>8. /\ (j - i) * Day \in Int
        /\ (K + ((j - i) * Day)) * Hundred = (K * Hundred) + (((j - i) * Day) * Hundred)
        /\ K * Hundred \in Int
    <3>1. (j - i) * Day \in Int
      BY <1>6, Units
    <3> QED
      BY <2>7, <3>1, Units, Distributed
  <2>9. ((j - i) * Day) * Hundred = (j - i) * M /\ (j - i) * M \in Int
    <3>1. j - i \in Int
      BY <1>6
    <3> HIDE DEF i, j
    <3> QED
      BY <3>1, Units
  <2>10. (secs - asked) * Hundred \in Int /\ (q - r) * Hundred \in Int
    BY <2>2, <2>3
  <2> QED
    BY <1>2, <1>6, <1>11, <2>4, <2>5, <2>6, <2>8, <2>9, <2>10
<1>14. M \in Nat /\ M > 0 /\ Hundred <= M /\ j - i \in Int
  BY <1>6, Units
<1> HIDE DEF z, M
<1>15. ASSUME f + ((c * Ten) - g) >= 0
       PROVE  /\ d = 0 => x % M = 0
              /\ x % M < Hundred \/ x % M > M - Hundred
  <2>1. z * Ten = d - t
    BY <1>12, <1>15
  <2> HIDE DEF d
  <2>2. (d = 0 => z - d = 0) /\ -Hundred < z - d /\ z - d < Hundred
    BY <1>6, <1>11, <1>13, <2>1, Units, TenthOff
  <2>3. z - d \in Int
    BY <1>11, <1>13
  <2> DEFINE k == j - i
             n == z - d
  <2>4. k \in Int /\ n \in Int /\ x = n + (k * M) /\ -Hundred < n /\ n < Hundred
    BY <1>13, <1>14, <2>2, <2>3
  <2>5. n = 0 <=> z - d = 0
    OBVIOUS
  <2> HIDE DEF k, n
  <2>6. (n = 0 => x % M = 0) /\ (x % M < Hundred \/ x % M > M - Hundred)
    <3>1. /\ n = 0 => (n + (k * M)) % M = 0
          /\ (n + (k * M)) % M < Hundred \/ (n + (k * M)) % M > M - Hundred
      BY <1>14, <2>4, Units, NearMidnight
    <3> QED
      BY <2>4, <3>1
  <2> QED
    BY <2>2, <2>5, <2>6
<1>16. ASSUME passed % Hundred = 0
       PROVE  x % M = 0
  <2>1. passed = ((q - r) * Hundred) + (f - g)
    <3>1. /\ (q - r) * Hundred = (q * Hundred) - (r * Hundred)
          /\ q * Hundred \in Int /\ r * Hundred \in Int
      BY <1>5, Units, Distributed
    <3> QED
      BY <1>5, <1>9, <3>1
  <2>2. f = g
    <3>1. ((q - r) * Hundred + (f - g)) % Hundred = 0 /\ q - r \in Int
      BY <1>5, <1>16, <2>1
    <3> QED
      BY <1>5, <3>1, WholeSeconds
  <2>3. d = 0
    BY <1>5, <2>2
  <2>4. f + ((c * Ten) - g) >= 0
    <3>1. c * Ten >= 0
      BY <1>2, Units
    <3> QED
      BY <1>5, <1>10, <2>2, <3>1
  <2> QED
    BY <1>15, <2>3, <2>4
<1>17. ASSUME (c * Ten) + f >= g
       PROVE  x % M < Hundred \/ x % M > M - Hundred
  <2>1. f + ((c * Ten) - g) >= 0
    BY <1>5, <1>10, <1>17
  <2> QED
    BY <1>15, <2>1
<1> QED
  BY <1>16, <1>17
-----------------------------------------------------------------------------
(* Induction.  The library's theorems of induction have a predicate as a    *)
(* parameter; here it is a set of counterexamples, which has a least one.   *)

LEMMA LeastOf ==
    ASSUME NEW T \in SUBSET Nat, T # {}
    PROVE  \E n \in T : \A m \in T : n <= m
<1> DEFINE Less == {ss \in Nat \X Nat : ss[1] < ss[2]}
<1>1. IsWellFoundedOn(Less, Nat)
  BY NatLessThanWellFounded DEF OpToRel
<1> HIDE DEF Less
<1>2. PICK n \in T : \A m \in T : ~(<<m, n>> \in Less)
  BY <1>1, WFMin
<1>3. ASSUME NEW m \in T
      PROVE  n <= m
  <2>1. ~(<<m, n>> \in Less)
    BY <1>2
  <2>2. ~(m < n)
    BY <2>1 DEF Less
  <2> QED
    BY <2>2
<1> QED
  BY <1>3

\* A set that holds 0, and n + 1 with n, holds every number up to the bound.
LEMMA UpTo ==
    ASSUME NEW bound \in Nat, NEW P,
           0 \in P, \A n \in 0 .. bound - 1 : n \in P => n + 1 \in P
    PROVE  \A n \in 0 .. bound : n \in P
<1> DEFINE T == {n \in 0 .. bound : n \notin P}
<1>1. ASSUME T # {}
      PROVE  FALSE
  <2>1. T \in SUBSET Nat
    OBVIOUS
  <2> HIDE DEF T
  <2>2. PICK n \in T : \A m \in T : n <= m
    BY <1>1, <2>1, LeastOf
  <2>3. n \in 0 .. bound /\ n \notin P
    BY <2>2 DEF T
  <2>4. n # 0 /\ n - 1 \in 0 .. bound - 1
    BY <2>3
  <2>5. n - 1 \notin T
    BY <2>2, <2>3
  <2>6. n - 1 \in P
    BY <2>4, <2>5 DEF T
  <2>7. (n - 1) + 1 \in P
    BY <2>4, <2>6
  <2> QED
    BY <2>3, <2>7
<1> QED
  BY <1>1

-----------------------------------------------------------------------------
(* Joining strings.                                                         *)

\* What FlattenSeq computes: entry i is the first i sequences joined.
IsFlat(f, seqs, n) ==
    f = [i \in 1 .. n |-> IF i = 1 THEN seqs[i] ELSE f[i - 1] \o seqs[i]]

LEMMA FlatExists ==
    ASSUME NEW seqs, Len(seqs) \in Nat
    PROVE  \E f : IsFlat(f, seqs, Len(seqs))
<1> DEFINE Step(f, i) == IF i = 1 THEN seqs[i] ELSE f[i - 1] \o seqs[i]
           P == {n \in Nat : \E f : IsFlat(f, seqs, n)}
<1>1. 0 \in P
  <2>1. IsFlat([i \in 1 .. 0 |-> 0], seqs, 0)
    BY DEF IsFlat
  <2> QED
    BY <2>1
<1>2. ASSUME NEW n \in 0 .. Len(seqs) - 1, n \in P
      PROVE  n + 1 \in P
  <2>0. PICK f : IsFlat(f, seqs, n)
    BY <1>2
  <2>1. f = [i \in 1 .. n |-> Step(f, i)]
    BY <2>0 DEF IsFlat
  <2> DEFINE g == [i \in 1 .. n + 1 |-> IF i = n + 1 THEN Step(f, i) ELSE f[i]]
  <2>2. n \in Nat
    OBVIOUS
  <2>3. ASSUME NEW i \in 1 .. n + 1
        PROVE  g[i] = Step(g, i)
    <3>1. CASE i = 1
      <4>1. CASE n = 0
        BY <3>1, <4>1
      <4>2. CASE n # 0
        <5>1. 1 \in 1 .. n /\ 1 # n + 1
          BY <2>2, <4>2
        <5>2. g[1] = f[1]
          BY <5>1
        <5>3. f[1] = seqs[1]
          BY <2>1, <5>1
        <5> QED
          BY <3>1, <5>2, <5>3
      <4> QED
        BY <4>1, <4>2
    <3>2. CASE i # 1
      <4>1. i - 1 \in 1 .. n /\ i - 1 # n + 1 /\ i - 1 \in 1 .. n + 1
        BY <2>2, <3>2
      <4>2. g[i - 1] = f[i - 1]
        BY <4>1
      <4>3. g[i] = f[i - 1] \o seqs[i]
        <5>1. CASE i = n + 1
          BY <3>2, <5>1
        <5>2. CASE i # n + 1
          <6>1. i \in 1 .. n
            BY <2>2, <5>2
          <6>2. f[i] = f[i - 1] \o seqs[i]
            BY <2>1, <3>2, <6>1
          <6> QED
            BY <5>2, <6>2
        <5> QED
          BY <5>1, <5>2
      <4> QED
        BY <3>2, <4>2, <4>3
    <3> QED
      BY <3>1, <3>2
  <2>4. g = [i \in 1 .. n + 1 |-> Step(g, i)]
    BY <2>3
  <2> HIDE DEF g
  <2>5. IsFlat(g, seqs, n + 1)
    BY <2>4 DEF IsFlat
  <2> QED
    BY <2>2, <2>5
<1> HIDE DEF P
<1>3. \A n \in 0 .. Len(seqs) - 1 : n \in P => n + 1 \in P
  BY <1>2
<1>4. \A n \in 0 .. Len(seqs) : n \in P
  BY <1>1, <1>3, UpTo
<1>5. Len(seqs) \in P
  BY <1>4
<1> QED
  BY <1>5 DEF P

LEMMA FlattenIsFlat ==
    ASSUME NEW seqs, Len(seqs) \in Nat, Len(seqs) # 0
    PROVE  \E f : IsFlat(f, seqs, Len(seqs)) /\ FlattenSeq(seqs) = f[Len(seqs)]
<1> DEFINE f == CHOOSE f : IsFlat(f, seqs, Len(seqs))
<1>1. IsFlat(f, seqs, Len(seqs))
  BY FlatExists
<1>2. FlattenSeq(seqs) = f[Len(seqs)]
  BY DEF FlattenSeq, IsFlat
<1> QED
  BY <1>1, <1>2

LEMMA FlatsAgree ==
    ASSUME NEW e, NEW k \in Nat, NEW m \in Nat, NEW l \in Nat, 0 < k, k <= m, k <= l,
           NEW f, IsFlat(f, [i \in 1 .. m |-> e[i]], m),
           NEW g, IsFlat(g, [i \in 1 .. l |-> e[i]], l)
    PROVE  f[k] = g[k]
<1> DEFINE P == {n \in Nat : n > 0 /\ n <= k => f[n] = g[n]}
<1>1. 0 \in P
  OBVIOUS
<1>2. ASSUME NEW n \in 0 .. k - 1, n \in P
      PROVE  n + 1 \in P
  <2>1. n + 1 \in 1 .. m /\ n + 1 \in 1 .. l /\ n + 1 \in Nat
    OBVIOUS
  <2>2. /\ f[n + 1] = IF n + 1 = 1 THEN e[n + 1] ELSE f[(n + 1) - 1] \o e[n + 1]
        /\ g[n + 1] = IF n + 1 = 1 THEN e[n + 1] ELSE g[(n + 1) - 1] \o e[n + 1]
    BY <2>1 DEF IsFlat
  <2>3. (n + 1) - 1 = n /\ n \in Nat /\ n <= k
    OBVIOUS
  <2>4. CASE n = 0
    BY <2>2, <2>4
  <2>5. CASE n # 0
    <3>1. f[n] = g[n]
      BY <1>2, <2>3, <2>5
    <3>2. f[n + 1] = g[n + 1]
      BY <2>2, <2>3, <3>1
    <3> QED
      BY <2>1, <3>2
  <2> QED
    BY <2>4, <2>5
<1> HIDE DEF P
<1>3. \A n \in 0 .. k - 1 : n \in P => n + 1 \in P
  BY <1>2
<1>4. \A n \in 0 .. k : n \in P
  BY <1>1, <1>3, UpTo
<1>5. k \in P
  BY <1>4
<1> QED
  BY <1>5 DEF P

\* The first n of the sequences of e, joined.
Joined(e, n) == FlattenSeq([i \in 1 .. n |-> e[i]])

LEMMA JoinedStep ==
    ASSUME NEW S, NEW bound \in Nat, NEW e, \A i \in 1 .. bound : e[i] \in Seq(S)
    PROVE  /\ Joined(e, 0) = << >>
           /\ \A n \in 0 .. bound : Joined(e, n) \in Seq(S)
           /\ \A n \in 0 .. bound - 1 : Joined(e, n + 1) = Joined(e, n) \o e[n + 1]
<1> DEFINE firsts(n) == [i \in 1 .. n |-> e[i]]
           P == {n \in Nat : Joined(e, n) \in Seq(S)}
<1>0. \A n \in Nat : Len(firsts(n)) = n
  OBVIOUS
<1>1. Joined(e, 0) = << >>
  <2>1. firsts(0) = << >> /\ Len(firsts(0)) = 0
    OBVIOUS
  <2> QED
    BY <2>1 DEF Joined, FlattenSeq
<1>2. ASSUME NEW n \in 0 .. bound - 1, Joined(e, n) \in Seq(S)
      PROVE  Joined(e, n + 1) = Joined(e, n) \o e[n + 1]
  <2>1. n \in Nat /\ n + 1 \in Nat /\ n + 1 # 0 /\ n + 1 \in 1 .. bound
    OBVIOUS
  <2>2. Len(firsts(n + 1)) = n + 1 /\ Len(firsts(n)) = n
    BY <1>0, <2>1
  <2>3. PICK g : IsFlat(g, firsts(n + 1), n + 1) /\ Joined(e, n + 1) = g[n + 1]
    <3> DEFINE s == firsts(n + 1)
    <3>1. Len(s) \in Nat /\ Len(s) # 0 /\ Len(s) = n + 1
      BY <2>1, <2>2
    <3> HIDE DEF s
    <3>2. \E f : IsFlat(f, s, Len(s)) /\ FlattenSeq(s) = f[Len(s)]
      BY <3>1, FlattenIsFlat
    <3> QED
      BY <3>1, <3>2 DEF s, Joined
  <2>4. g[n + 1] = IF n + 1 = 1 THEN e[n + 1] ELSE g[n] \o e[n + 1]
    <3>1. n + 1 \in 1 .. n + 1 /\ (n + 1) - 1 = n
      BY <2>1
    <3> QED
      BY <2>3, <3>1 DEF IsFlat
  <2>5. CASE n = 0
    <3>1. e[n + 1] \in Seq(S)
      BY <2>1
    <3>2. << >> \o e[n + 1] = e[n + 1]
      BY <3>1, ConcatEmptySeq
    <3>3. Joined(e, n + 1) = e[n + 1]
      BY <2>3, <2>4, <2>5
    <3>4. Joined(e, n) = << >>
      BY <1>1, <2>5
    <3> QED
      BY <3>2, <3>3, <3>4
  <2>6. CASE n # 0
    <3>1. PICK f : IsFlat(f, firsts(n), n) /\ Joined(e, n) = f[n]
      <4> DEFINE s == firsts(n)
      <4>1. Len(s) \in Nat /\ Len(s) # 0 /\ Len(s) = n
        BY <2>1, <2>2, <2>6
      <4> HIDE DEF s
      <4>2. \E f : IsFlat(f, s, Len(s)) /\ FlattenSeq(s) = f[Len(s)]
        BY <4>1, FlattenIsFlat
      <4> QED
        BY <4>1, <4>2 DEF s, Joined
    <3>2. 0 < n /\ n <= n /\ n <= n + 1 /\ n + 1 # 1
      BY <2>1, <2>6
    <3>3. f[n] = g[n]
      BY <2>1, <2>3, <3>1, <3>2, FlatsAgree
    <3>4. g[n + 1] = g[n] \o e[n + 1]
      BY <2>4, <3>2
    <3> QED
      BY <2>3, <3>1, <3>3, <3>4
  <2> QED
    BY <2>5, <2>6
<1>3. 0 \in P
  <2>1. << >> \in Seq(S)
    OBVIOUS
  <2> QED
    BY <1>1, <2>1
<1>4. ASSUME NEW n \in 0 .. bound - 1, n \in P
      PROVE  n + 1 \in P
  <2>1. n + 1 \in Nat /\ n + 1 \in 1 .. bound
    OBVIOUS
  <2>2. Joined(e, n) \in Seq(S) /\ e[n + 1] \in Seq(S)
    BY <1>4, <2>1
  <2>3. Joined(e, n + 1) = Joined(e, n) \o e[n + 1]
    BY <1>2, <2>2
  <2>4. Joined(e, n) \o e[n + 1] \in Seq(S)
    BY <2>2, ConcatProperties
  <2> QED
    BY <2>1, <2>3, <2>4
<1> HIDE DEF P
<1>5. \A n \in 0 .. bound - 1 : n \in P => n + 1 \in P
  BY <1>4
<1>6. \A n \in 0 .. bound : n \in P
  BY <1>3, <1>5, UpTo
<1>7. \A n \in 0 .. bound : Joined(e, n) \in Seq(S)
  BY <1>6 DEF P
<1>8. \A n \in 0 .. bound - 1 : Joined(e, n + 1) = Joined(e, n) \o e[n + 1]
  <2> TAKE n \in 0 .. bound - 1
  <2>1. n \in 0 .. bound
    OBVIOUS
  <2> QED
    BY <1>2, <1>7, <2>1
<1> QED
  BY <1>1, <1>7, <1>8
-----------------------------------------------------------------------------
(* The command tail.                                                        *)

Byte == {NUL, ONE, SPACE, CR, LF} \cup (Nat \X Nat)

LEMMA StringsOfBytes ==
    ASSUME NEW i \in Nat, NEW len \in Nat
    PROVE  /\ Chars(i, len) \in Seq(Byte) /\ Len(Chars(i, len)) = len
           /\ CString(i, len) \in Seq(Byte) /\ Len(CString(i, len)) = len + 1
<1>1. \A j \in 1 .. len : <<i, j>> \in Byte
  BY DEF Byte
<1>2. Chars(i, len) \in Seq(Byte) /\ Len(Chars(i, len)) = len
  BY <1>1 DEF Chars
<1>3. NUL \in Byte
  BY DEF Byte
<1> QED
  BY <1>2, <1>3 DEF CString

LEMMA SingleBytes ==
    /\ <<SPACE>> \in Seq(Byte) /\ Len(<<SPACE>>) = 1
    /\ <<NUL>> \in Seq(Byte) /\ Len(<<NUL>>) = 1
    /\ <<CR, LF>> \in Seq(Byte) /\ Len(<<CR, LF>>) = 2
    /\ <<ONE, NUL>> \in Seq(Byte) /\ Len(<<ONE, NUL>>) = 2
<1>1. NUL \in Byte /\ ONE \in Byte /\ SPACE \in Byte /\ CR \in Byte /\ LF \in Byte
  BY DEF Byte
<1> QED
  BY <1>1

\* Writing inside a piece of memory changes those bytes of it and no other.
LEMMA WrittenInside ==
    ASSUME NEW to, NEW at \in Int, NEW bytes \in Seq(Byte),
           at .. at + Len(bytes) - 1 \subseteq DOMAIN to
    PROVE  /\ DOMAIN Written(to, at, bytes) = DOMAIN to
           /\ \A k \in DOMAIN to : Written(to, at, bytes)[k] =
                 IF k \in at .. at + Len(bytes) - 1 THEN bytes[k - at + 1] ELSE to[k]
<1>1. DOMAIN to \cup at .. at + Len(bytes) - 1 = DOMAIN to
  OBVIOUS
<1> QED
  BY <1>1 DEF Written

LEMMA TextStep ==
    ASSUME args \in Seq(Nat)
    PROVE  /\ Text(0) = << >>
           /\ \A n \in 0 .. Len(args) : Text(n) \in Seq(Byte)
           /\ \A n \in 0 .. Len(args) - 1 :
                 /\ Text(n + 1) = Text(n) \o (<<SPACE>> \o Chars(n + 1, args[n + 1]))
                 /\ Len(Text(n + 1)) = Len(Text(n)) + 1 + args[n + 1]
<1> DEFINE e == [i \in 1 .. Len(args) |-> <<SPACE>> \o Chars(i, args[i])]
<1>1. Len(args) \in Nat
  OBVIOUS
<1>2. ASSUME NEW i \in 1 .. Len(args)
      PROVE  /\ e[i] = <<SPACE>> \o Chars(i, args[i])
             /\ e[i] \in Seq(Byte) /\ Len(e[i]) = 1 + args[i]
  <2>1. i \in Nat /\ args[i] \in Nat
    OBVIOUS
  <2>2. Chars(i, args[i]) \in Seq(Byte) /\ Len(Chars(i, args[i])) = args[i]
    BY <2>1, StringsOfBytes
  <2>3. e[i] = <<SPACE>> \o Chars(i, args[i])
    OBVIOUS
  <2> HIDE DEF e
  <2> QED
    BY <2>2, <2>3, SingleBytes, ConcatProperties
<1>3. \A n \in 0 .. Len(args) : Text(n) = Joined(e, n)
  <2> TAKE n \in 0 .. Len(args)
  <2>1. \A i \in 1 .. n : i \in 1 .. Len(args)
    BY <1>1
  <2>2. [i \in 1 .. n |-> <<SPACE>> \o Chars(i, args[i])] = [i \in 1 .. n |-> e[i]]
    BY <2>1
  <2> QED
    BY <2>2 DEF Text, Joined
<1> HIDE DEF e
<1>4. /\ Joined(e, 0) = << >>
      /\ \A n \in 0 .. Len(args) : Joined(e, n) \in Seq(Byte)
      /\ \A n \in 0 .. Len(args) - 1 : Joined(e, n + 1) = Joined(e, n) \o e[n + 1]
  BY <1>1, <1>2, JoinedStep
<1>5. ASSUME NEW n \in 0 .. Len(args) - 1
      PROVE  /\ Text(n + 1) = Text(n) \o e[n + 1]
             /\ Len(Text(n + 1)) = Len(Text(n)) + 1 + args[n + 1]
  <2>1. n \in 0 .. Len(args) /\ n + 1 \in 0 .. Len(args) /\ n + 1 \in 1 .. Len(args)
    BY <1>1
  <2>2. Text(n + 1) = Text(n) \o e[n + 1]
    BY <1>3, <1>4, <2>1
  <2>3. Text(n) \in Seq(Byte) /\ e[n + 1] \in Seq(Byte) /\ Len(e[n + 1]) = 1 + args[n + 1]
        /\ args[n + 1] \in Nat
    BY <1>2, <1>3, <1>4, <2>1
  <2>4. Len(Text(n + 1)) = Len(Text(n)) + Len(e[n + 1]) /\ Len(Text(n)) \in Nat
    BY SMTT(40), <2>2, <2>3, ConcatProperties
  <2>5. ASSUME NEW a \in Nat, NEW b \in Nat, NEW c, NEW d, d = 1 + b, c = a + d
        PROVE  c = a + 1 + b
    BY <2>5
  <2>6. Len(Text(n + 1)) = Len(Text(n)) + 1 + args[n + 1]
    BY <2>3, <2>4, <2>5
  <2> QED
    BY <2>2, <2>6
<1>6. \A n \in 0 .. Len(args) - 1 : e[n + 1] = <<SPACE>> \o Chars(n + 1, args[n + 1])
  BY <1>1, <1>2
<1>7. Text(0) = << >> /\ \A n \in 0 .. Len(args) : Text(n) \in Seq(Byte)
  BY <1>1, <1>3, <1>4
<1> QED
  BY <1>5, <1>6, <1>7

\* More arguments are not a shorter text.
LEMMA TextGrows ==
    ASSUME args \in Seq(Nat), NEW n \in 0 .. Len(args), NEW m \in 0 .. n
    PROVE  Len(Text(m)) <= Len(Text(n))
<1> DEFINE P == {k \in Nat : m <= k => Len(Text(m)) <= Len(Text(k))}
<1>1. Len(args) \in Nat /\ n \in Nat /\ m \in Nat
  OBVIOUS
<1>2. \A k \in 0 .. Len(args) : Len(Text(k)) \in Nat
  BY TextStep
<1>3. 0 \in P
  <2>1. m <= 0 => m = 0
    BY <1>1
  <2>2. Len(Text(0)) \in Nat
    BY <1>1, <1>2
  <2> QED
    BY <2>1, <2>2
<1>4. ASSUME NEW k \in 0 .. n - 1, k \in P
      PROVE  k + 1 \in P
  <2>1. k \in 0 .. Len(args) /\ k + 1 \in 0 .. Len(args) /\ k + 1 \in Nat
        /\ k \in 0 .. Len(args) - 1 /\ k + 1 \in 1 .. Len(args) /\ m \in 0 .. Len(args)
    BY <1>1
  <2>2. Len(Text(k + 1)) = Len(Text(k)) + 1 + args[k + 1] /\ args[k + 1] \in Nat
    BY SMTT(40), <2>1, TextStep
  <2>3. Len(Text(k)) \in Nat /\ Len(Text(m)) \in Nat /\ Len(Text(k + 1)) \in Nat
    BY <1>2, <2>1
  <2>4. m <= k => Len(Text(m)) <= Len(Text(k))
    BY <1>4
  <2>5. CASE m <= k
    BY <2>1, <2>2, <2>3, <2>4, <2>5
  <2>6. CASE ~(m <= k)
    <3>1. m <= k + 1 => m = k + 1
      BY <1>1, <2>6
    <3> QED
      BY <2>1, <2>3, <3>1
  <2> QED
    BY <2>5, <2>6
<1> HIDE DEF P
<1>5. \A k \in 0 .. n - 1 : k \in P => k + 1 \in P
  BY <1>4
<1>6. \A k \in 0 .. n : k \in P
  BY <1>1, <1>3, <1>5, UpTo
<1>7. n \in P
  BY <1>1, <1>6
<1> QED
  BY <1>1, <1>7 DEF P

Inputs ==
    /\ args \in Seq(Nat) /\ appName \in Nat
    /\ env.strings \in Seq(Nat)

\* While the loop runs, the field holds the arguments copied so far, and two bytes more
\* fit behind them.
TailIsText ==
    step = "args" =>
        /\ pos = Len(Text(next - 1)) + 1 /\ pos <= TailSize - 2
        /\ \A k \in 1 .. pos - 1 : commandLine[k] = Text(next - 1)[k]

\* After it, the next argument, if there is one, did not fit.
TailIsClosed ==
    step # "args" =>
        /\ tailLength = Len(Text(next - 1)) + 1
        /\ Len(Text(next - 1)) <= TailSize - 3
        /\ next <= Len(args) => Len(Text(next)) > TailSize - 3
        /\ \A k \in 1 .. tailLength - 1 : commandLine[k] = Text(next - 1)[k]
        /\ commandLine[tailLength] = CR /\ commandLine[tailLength + 1] = LF

\* The inductive invariant of the tail.
TailInv ==
    /\ Inputs
    /\ step \in {"args", "environment", "ready", "crashed"}
    /\ next \in 1 .. Len(args) + 1
    /\ pos \in 1 .. TailSize - 1
    /\ tailLength \in 0 .. TailSize - 2
    /\ DOMAIN commandLine = 1 .. TailSize - 1
    /\ TailIsText
    /\ TailIsClosed

LEMMA CopyStep ==
    ASSUME TailInv, CopyArgument
    PROVE  TailInv'
<1> DEFINE len  == args[next]
           text == Text(next - 1)
           byts == <<SPACE>> \o CString(next, len)
<1>1. /\ step = "args" /\ next <= Len(args) /\ len <= TailSize - 3 - pos
      /\ commandLine' = Written(commandLine, pos, byts)
      /\ pos' = pos + 1 + len /\ next' = next + 1
      /\ UNCHANGED <<args, env, appName, step, tailLength>>
  BY DEF CopyArgument, Fits, inputs
<1>2. TailSize \in Nat /\ TailSize >= 4
  BY CommandTailAssumption
<1>3. args \in Seq(Nat) /\ Len(args) \in Nat /\ next \in 1 .. Len(args) /\ pos \in 1 .. TailSize - 1
  BY <1>1 DEF TailInv, Inputs
<1>4. len \in Nat /\ next \in Nat /\ next - 1 \in 0 .. Len(args) - 1 /\ next - 1 \in 0 .. Len(args)
      /\ (next - 1) + 1 = next
  BY <1>3
<1>5. /\ pos = Len(text) + 1 /\ pos <= TailSize - 2
      /\ \A k \in 1 .. pos - 1 : commandLine[k] = text[k]
  BY <1>1 DEF TailInv, TailIsText
<1>6. /\ text \in Seq(Byte)
      /\ Text(next) = text \o (<<SPACE>> \o Chars(next, len))
      /\ Len(Text(next)) = Len(text) + 1 + len
  BY <1>3, <1>4, TextStep
<1>7. /\ Chars(next, len) \in Seq(Byte) /\ Len(Chars(next, len)) = len
      /\ CString(next, len) \in Seq(Byte) /\ Len(CString(next, len)) = len + 1
  BY <1>4, StringsOfBytes
<1>8. byts \in Seq(Byte) /\ Len(byts) = len + 2
  <2>1. byts \in Seq(Byte) /\ Len(byts) = Len(<<SPACE>>) + Len(CString(next, len))
    BY <1>7, SingleBytes, ConcatProperties
  <2> QED
    BY <1>4, <1>7, <2>1, SingleBytes
<1> DEFINE arg == <<SPACE>> \o Chars(next, len)
<1>9. arg \in Seq(Byte) /\ Len(arg) = len + 1
  <2>1. arg \in Seq(Byte) /\ Len(arg) = Len(<<SPACE>>) + Len(Chars(next, len))
    BY <1>7, SingleBytes, ConcatProperties
  <2> QED
    BY <1>4, <1>7, <2>1, SingleBytes
<1>10. \A k \in 1 .. len + 1 : byts[k] = arg[k]
  <2> TAKE k \in 1 .. len + 1
  <2>1. k \in 1 .. 1 + (len + 1) /\ k \in 1 .. 1 + len
    BY <1>4
  <2>2. byts[k] = IF k <= 1 THEN <<SPACE>>[k] ELSE CString(next, len)[k - 1]
    BY <1>7, <2>1, SingleBytes, ConcatProperties
  <2>3. arg[k] = IF k <= 1 THEN <<SPACE>>[k] ELSE Chars(next, len)[k - 1]
    BY <1>7, <2>1, SingleBytes, ConcatProperties
  <2>4. k > 1 => CString(next, len)[k - 1] = Chars(next, len)[k - 1]
    BY <1>4, <1>7, <2>1 DEF CString
  <2>5. k \in Int
    OBVIOUS
  <2> HIDE DEF byts, arg
  <2>6. CASE k <= 1
    BY <2>2, <2>3, <2>6
  <2>7. CASE ~(k <= 1)
    <3>1. k > 1
      BY <2>5, <2>7
    <3> QED
      BY <2>2, <2>3, <2>4, <2>7, <3>1
  <2> QED
    BY <2>6, <2>7
<1> HIDE DEF len, text, byts, arg
<1>11. /\ DOMAIN commandLine' = 1 .. TailSize - 1
       /\ \A k \in 1 .. TailSize - 1 : commandLine'[k] =
             IF pos <= k /\ k < pos + Len(byts) THEN byts[k - pos + 1] ELSE commandLine[k]
  <2>1. DOMAIN commandLine = 1 .. TailSize - 1
    BY DEF TailInv
  <2>2. 1 <= pos /\ pos + Len(byts) - 1 <= TailSize - 1 /\ pos \in Int /\ TailSize - 1 \in Int
    BY <1>1, <1>2, <1>3, <1>4, <1>8
  <2>3. pos .. pos + Len(byts) - 1 \subseteq 1 .. TailSize - 1
    BY <1>2, <1>8, <2>2, <1>4
  <2>4. pos .. pos + Len(byts) - 1 \subseteq DOMAIN commandLine
    BY <2>1, <2>3
  <2>5. /\ DOMAIN commandLine' = DOMAIN commandLine
        /\ \A k \in DOMAIN commandLine : commandLine'[k] =
              IF k \in pos .. pos + Len(byts) - 1 THEN byts[k - pos + 1] ELSE commandLine[k]
    BY SMTT(40), <1>1, <1>8, <2>2, <2>4, WrittenInside
  <2>6. \A k \in 1 .. TailSize - 1 :
           k \in pos .. pos + Len(byts) - 1 <=> pos <= k /\ k < pos + Len(byts)
    BY <1>4, <1>8, <2>2
  <2> QED
    BY <2>1, <2>5, <2>6
<1>12. pos' \in 1 .. TailSize - 1 /\ pos' <= TailSize - 2
  BY <1>1, <1>2, <1>3, <1>4
<1>13. next' \in 1 .. Len(args') + 1 /\ next' - 1 = next
  BY <1>1, <1>3, <1>4
<1>14. \A n : Text(n)' = Text(n)
  BY <1>1 DEF Text
<1>15. TailIsText'
  <2>1. pos' = Len(Text(next)) + 1
    BY SMTT(40), <1>1, <1>3, <1>4, <1>5, <1>6
  <2>2. ASSUME NEW k \in 1 .. pos' - 1
        PROVE  commandLine'[k] = Text(next)[k]
    <3>0. Len(text) \in Nat
      BY <1>6
    <3>1. k \in Int /\ k >= 1 /\ k < pos + 1 + len /\ k \in 1 .. TailSize - 1
          /\ k \in 1 .. Len(text) + Len(arg)
      BY <1>1, <1>2, <1>4, <1>5, <1>9, <1>12, <3>0
    <3>2. Text(next)[k] = IF k <= Len(text) THEN text[k] ELSE arg[k - Len(text)]
      BY <1>6, <1>9, <3>1, ConcatProperties DEF arg
    <3>3. commandLine'[k] =
             IF pos <= k /\ k < pos + Len(byts) THEN byts[k - pos + 1] ELSE commandLine[k]
      BY <1>11, <3>1
    <3>4. CASE k < pos
      <4>1. k \in 1 .. pos - 1 /\ k <= Len(text) /\ ~(pos <= k)
        BY <1>3, <1>5, <3>0, <3>1, <3>4
      <4> QED
        BY <1>5, <3>2, <3>3, <4>1
    <3>5. CASE ~(k < pos)
      <4>1. /\ pos <= k /\ k < pos + Len(byts) /\ ~(k <= Len(text))
            /\ k - pos + 1 = k - Len(text) /\ k - Len(text) \in 1 .. len + 1
        BY <1>3, <1>4, <1>5, <1>8, <3>0, <3>1, <3>5
      <4>2. byts[k - Len(text)] = arg[k - Len(text)]
        BY <1>10, <4>1
      <4> QED
        BY <3>2, <3>3, <4>1, <4>2
    <3> QED
      BY <3>4, <3>5
  <2> QED
    BY <1>12, <1>13, <1>14, <2>1, <2>2 DEF TailIsText
<1>16. TailIsClosed'
  BY <1>1 DEF TailIsClosed
<1>17. Inputs'
  BY <1>1 DEF TailInv, Inputs
<1> QED
  BY <1>1, <1>11, <1>12, <1>13, <1>15, <1>16, <1>17 DEF TailInv

LEMMA EndStep ==
    ASSUME TailInv, EndTail
    PROVE  TailInv'
<1> DEFINE text == Text(next - 1)
           byts == <<CR, LF>>
<1>1. /\ step = "args" /\ step' = "environment" /\ tailLength' = pos /\ pos' = pos + 1
      /\ commandLine' = Written(commandLine, pos, byts)
      /\ UNCHANGED <<args, env, appName, next>>
  BY DEF EndTail, inputs
<1>2. TailSize \in Nat /\ TailSize >= 4
  BY CommandTailAssumption
<1>3. /\ args \in Seq(Nat) /\ Len(args) \in Nat /\ next \in 1 .. Len(args) + 1
      /\ pos \in 1 .. TailSize - 1 /\ next - 1 \in 0 .. Len(args)
  BY DEF TailInv, Inputs
<1>4. /\ pos = Len(text) + 1 /\ pos <= TailSize - 2
      /\ \A k \in 1 .. pos - 1 : commandLine[k] = text[k]
  BY <1>1 DEF TailInv, TailIsText
<1>5. text \in Seq(Byte) /\ Len(text) \in Nat
  BY <1>3, TextStep
<1>6. byts \in Seq(Byte) /\ Len(byts) = 2 /\ byts[1] = CR /\ byts[2] = LF
  BY SingleBytes
<1>7. /\ DOMAIN commandLine' = 1 .. TailSize - 1
      /\ \A k \in 1 .. TailSize - 1 : commandLine'[k] =
            IF k \in pos .. pos + 1 THEN byts[k - pos + 1] ELSE commandLine[k]
  <2>1. DOMAIN commandLine = 1 .. TailSize - 1
    BY DEF TailInv
  <2>2. pos .. pos + 1 \subseteq 1 .. TailSize - 1 /\ pos + Len(byts) - 1 = pos + 1 /\ pos \in Int
    BY <1>2, <1>3, <1>4, <1>6
  <2> HIDE DEF byts
  <2>3. pos .. pos + Len(byts) - 1 \subseteq DOMAIN commandLine
    BY <2>1, <2>2
  <2>4. byts \in Seq(Byte) /\ pos \in Int /\ commandLine' = Written(commandLine, pos, byts)
    BY <1>1, <1>6, <2>2
  <2>5. /\ DOMAIN commandLine' = DOMAIN commandLine
        /\ \A k \in DOMAIN commandLine : commandLine'[k] =
              IF k \in pos .. pos + Len(byts) - 1 THEN byts[k - pos + 1] ELSE commandLine[k]
    BY <2>3, <2>4, WrittenInside
  <2> QED
    BY <2>1, <2>2, <2>5
<1> HIDE DEF text, byts
<1>8. \A n : Text(n)' = Text(n)
  BY <1>1 DEF Text
<1>9. next <= Len(args) => Len(Text(next)) > TailSize - 3
  <2> SUFFICES ASSUME next <= Len(args)
               PROVE  Len(Text(next)) > TailSize - 3
    OBVIOUS
  <2>1. next - 1 \in 0 .. Len(args) - 1 /\ (next - 1) + 1 = next /\ args[next] \in Nat
    BY <1>3
  <2>2. Len(Text(next)) = Len(text) + 1 + args[next]
    BY <1>3, <2>1, TextStep DEF text
  <2>3. ~(args[next] <= TailSize - 3 - pos)
    BY DEF EndTail, Fits
  <2> QED
    BY <1>2, <1>4, <1>5, <2>1, <2>2, <2>3
<1>10. \A k \in 1 .. pos - 1 : commandLine'[k] = text[k]
  <2> TAKE k \in 1 .. pos - 1
  <2>1. k \in 1 .. TailSize - 1 /\ k \notin pos .. pos + 1
    BY <1>2, <1>3
  <2> QED
    BY <1>4, <1>7, <2>1
<1>11. commandLine'[pos] = CR /\ commandLine'[pos + 1] = LF
  <2>1. /\ pos \in 1 .. TailSize - 1 /\ pos \in pos .. pos + 1 /\ pos - pos + 1 = 1
        /\ pos + 1 \in 1 .. TailSize - 1 /\ pos + 1 \in pos .. pos + 1 /\ (pos + 1) - pos + 1 = 2
    BY <1>2, <1>3, <1>4
  <2> QED
    BY <1>6, <1>7, <2>1
<1>12. TailIsClosed'
  <2>1. Len(text) <= TailSize - 3
    BY <1>2, <1>4, <1>5
  <2> QED
    BY <1>1, <1>4, <1>8, <1>9, <1>10, <1>11, <2>1 DEF TailIsClosed, text
<1>13. TailIsText'
  BY <1>1 DEF TailIsText
<1>14. Inputs'
  BY <1>1 DEF TailInv, Inputs
<1>15. tailLength' \in 0 .. TailSize - 2 /\ pos' \in 1 .. TailSize - 1
  BY <1>1, <1>2, <1>3, <1>4
<1> QED
  BY <1>1, <1>3, <1>7, <1>12, <1>13, <1>14, <1>15 DEF TailInv

\* Nothing of the tail changes after it is closed.
LEMMA ClosedStep ==
    ASSUME TailInv, UNCHANGED <<inputs, tail>>,
           step # "args", step' \in {"environment", "ready", "crashed"}
    PROVE  TailInv'
<1>1. UNCHANGED <<args, env, appName, next, pos, commandLine, tailLength>>
  BY DEF inputs, tail
<1>2. \A n : Text(n)' = Text(n)
  BY <1>1 DEF Text
<1>3. TailIsText' /\ TailIsClosed'
  BY <1>1, <1>2 DEF TailInv, TailIsText, TailIsClosed
<1> QED
  BY <1>1, <1>3 DEF TailInv, Inputs

\* The number of arguments the tail has room for is where the loop ended.
LEMMA TailHolds == TailInv => TailHoldsArguments
<1> SUFFICES ASSUME TailInv PROVE TailHoldsArguments
  OBVIOUS
<1> DEFINE Room(m) == /\ Len(Text(m)) <= TailSize - 3
                      /\ m < Len(args) => Len(Text(m + 1)) > TailSize - 3
           n == CHOOSE m \in 0 .. Len(args) : Room(m)
           last == next - 1
<1> SUFFICES ASSUME step \in {"environment", "ready"}
             PROVE  /\ tailLength = Len(Text(n)) + 1
                    /\ [k \in 1 .. tailLength + 1 |-> commandLine[k]] = Text(n) \o <<CR, LF>>
  BY DEF TailInv, TailHoldsArguments
<1>1. /\ TailSize \in Nat /\ args \in Seq(Nat) /\ Len(args) \in Nat /\ next \in 1 .. Len(args) + 1
      /\ last \in 0 .. Len(args) /\ last + 1 = next
  BY CommandTailAssumption DEF TailInv, Inputs
<1>2. /\ tailLength = Len(Text(last)) + 1
      /\ Len(Text(last)) <= TailSize - 3
      /\ next <= Len(args) => Len(Text(next)) > TailSize - 3
      /\ \A k \in 1 .. tailLength - 1 : commandLine[k] = Text(last)[k]
      /\ commandLine[tailLength] = CR /\ commandLine[tailLength + 1] = LF
  BY DEF TailInv, TailIsClosed
<1>3. Room(last)
  BY <1>1, <1>2
<1>4. \A m \in 0 .. Len(args) : Len(Text(m)) \in Nat
  BY <1>1, TextStep
<1>5. ASSUME NEW m \in 0 .. Len(args), NEW l \in 0 .. Len(args), Room(m), Room(l), m < l
      PROVE  FALSE
  <2>1. m + 1 \in 0 .. l /\ m < Len(args) /\ m + 1 \in 0 .. Len(args)
    BY <1>1, <1>5
  <2>2. Len(Text(m + 1)) <= Len(Text(l))
    BY <1>1, <2>1, TextGrows
  <2>3. Len(Text(m + 1)) > TailSize - 3 /\ Len(Text(l)) <= TailSize - 3
    BY <1>5, <2>1
  <2>4. Len(Text(m + 1)) \in Nat /\ Len(Text(l)) \in Nat
    BY <1>4, <2>1
  <2> QED
    BY <1>1, <2>2, <2>3, <2>4
<1> HIDE DEF Room
<1>6. n \in 0 .. Len(args) /\ Room(n)
  BY <1>1, <1>3
<1> HIDE DEF last
<1>7. n = last
  <2>1. ~(n < last) /\ ~(last < n)
    BY <1>1, <1>3, <1>5, <1>6
  <2> HIDE DEF n
  <2> QED
    BY <1>1, <1>6, <2>1
<1> HIDE DEF n
<1> DEFINE text == Text(last)
<1>8. text \in Seq(Byte) /\ Len(text) \in Nat
  BY <1>1, <1>4, TextStep
<1> HIDE DEF text
<1>9. [k \in 1 .. tailLength + 1 |-> commandLine[k]] = text \o <<CR, LF>>
  <2>1. /\ text \o <<CR, LF>> \in Seq(Byte) /\ Len(text \o <<CR, LF>>) = Len(text) + 2
        /\ \A k \in 1 .. Len(text) + 2 : (text \o <<CR, LF>>)[k] =
              IF k <= Len(text) THEN text[k] ELSE <<CR, LF>>[k - Len(text)]
    BY <1>8, SingleBytes, ConcatProperties
  <2>2. DOMAIN (text \o <<CR, LF>>) = 1 .. Len(text) + 2
    BY <2>1
  <2>3. tailLength = Len(text) + 1 /\ tailLength + 1 = Len(text) + 2
    BY <1>2, <1>8 DEF text
  <2>4. ASSUME NEW k \in 1 .. Len(text) + 2
        PROVE  commandLine[k] = (text \o <<CR, LF>>)[k]
    <3>1. CASE k <= Len(text)
      <4>1. k \in 1 .. tailLength - 1
        BY <1>8, <2>3, <3>1
      <4>2. commandLine[k] = text[k]
        BY <1>2, <4>1 DEF text
      <4> QED
        BY <2>1, <3>1, <4>2
    <3>2. CASE k = Len(text) + 1
      <4>1. k - Len(text) = 1 /\ ~(k <= Len(text)) /\ k = tailLength
        BY <1>8, <2>3, <3>2
      <4> QED
        BY <1>2, <2>1, <4>1
    <3>3. CASE k = Len(text) + 2
      <4>1. k - Len(text) = 2 /\ ~(k <= Len(text)) /\ k = tailLength + 1
        BY <1>8, <2>3, <3>3
      <4>2. (text \o <<CR, LF>>)[k] = <<CR, LF>>[2]
        BY <2>1, <4>1
      <4>3. <<CR, LF>>[2] = LF /\ commandLine[k] = LF
        BY <1>2, <4>1
      <4> QED
        BY <4>2, <4>3
    <3> QED
      BY <1>8, <3>1, <3>2, <3>3
  <2>5. text \o <<CR, LF>> = [k \in 1 .. Len(text) + 2 |-> (text \o <<CR, LF>>)[k]]
    BY <2>1, <2>2
  <2> QED
    BY <2>3, <2>4, <2>5
<1> QED
  BY <1>2, <1>7, <1>9 DEF text
-----------------------------------------------------------------------------
(* The environment block.                                                   *)

\* The strings of the environment, each with its NUL.
EnvStrings == [i \in DOMAIN env.strings |-> CString(i, env.strings[i])]

\* How far the walk has come after n strings.
IsWalk(p) == p = [n \in 0 .. Len(env.strings) |->
                     IF n = 0 THEN 0 ELSE p[n - 1] + env.strings[n] + 1]

\* The walk counts what there is to copy, so that memcpy takes all of it and the block
\* is as long as what is put into it.
LEMMA WalkCountsAll ==
    ASSUME Inputs
    PROVE  /\ HostEnvironment \in Seq(Byte)
           /\ UnixEnvSize = Len(HostEnvironment) /\ UnixEnvSize \in Nat
<1> DEFINE strings == env.strings
           count == Len(strings)
           joined(n) == Joined(EnvStrings, n)
<1>1. strings \in Seq(Nat) /\ count \in Nat /\ DOMAIN strings = 1 .. count
  BY DEF Inputs
<1>2. ASSUME NEW i \in 1 .. count
      PROVE  EnvStrings[i] \in Seq(Byte) /\ Len(EnvStrings[i]) = strings[i] + 1 /\ strings[i] \in Nat
  <2>1. i \in Nat /\ strings[i] \in Nat
    BY <1>1
  <2>2. EnvStrings[i] = CString(i, strings[i])
    BY <1>1 DEF EnvStrings
  <2> QED
    BY ZenonT(60), <2>1, <2>2, StringsOfBytes
<1>3. /\ joined(0) = << >>
      /\ \A n \in 0 .. count : joined(n) \in Seq(Byte)
      /\ \A n \in 0 .. count - 1 : joined(n + 1) = joined(n) \o EnvStrings[n + 1]
  <2> HIDE DEF count
  <2>1. count \in Nat /\ \A i \in 1 .. count : EnvStrings[i] \in Seq(Byte)
    BY <1>1, <1>2
  <2> QED
    BY <2>1, JoinedStep
<1>4. ASSUME NEW n \in 1 .. count
      PROVE  Len(joined(n)) = Len(joined(n - 1)) + strings[n] + 1
  <2>1. n - 1 \in 0 .. count - 1 /\ (n - 1) + 1 = n /\ n - 1 \in 0 .. count
    BY <1>1
  <2>2. joined(n) = joined(n - 1) \o EnvStrings[n]
    BY <1>3, <2>1
  <2>3. joined(n - 1) \in Seq(Byte)
    BY <1>3, <2>1
  <2>4. Len(joined(n)) = Len(joined(n - 1)) + Len(EnvStrings[n]) /\ Len(joined(n - 1)) \in Nat
    BY <1>2, <2>2, <2>3, ConcatProperties
  <2>5. Len(EnvStrings[n]) = strings[n] + 1 /\ strings[n] \in Nat
    BY <1>2
  <2> HIDE DEF joined, strings
  <2> QED
    BY <2>4, <2>5
<1> DEFINE walk == CHOOSE p : IsWalk(p)
<1>5. IsWalk(walk)
  <2> DEFINE p == [n \in 0 .. count |-> Len(joined(n))]
  <2>1. p[0] = 0
    BY <1>1, <1>3
  <2>2. \A n \in 1 .. count : p[n] = p[n - 1] + strings[n] + 1
    BY <1>1, <1>4
  <2>3. ASSUME NEW n \in 0 .. count
        PROVE  p[n] = IF n = 0 THEN 0 ELSE p[n - 1] + strings[n] + 1
    <3>1. n = 0 \/ n \in 1 .. count
      BY <1>1
    <3> HIDE DEF p
    <3>2. n \in 1 .. count => n # 0
      BY <1>1
    <3> QED
      BY <2>1, <2>2, <3>1, <3>2
  <2>4. p = [n \in 0 .. count |-> IF n = 0 THEN 0 ELSE p[n - 1] + strings[n] + 1]
    BY <2>3
  <2> HIDE DEF p
  <2>5. IsWalk(p)
    BY <2>4 DEF IsWalk
  <2> QED
    BY <2>5
<1>6. UnixEnvSize = walk[count] + 1
  BY DEF UnixEnvSize, IsWalk
<1> HIDE DEF walk
<1>7. walk[count] = Len(joined(count))
  <2> DEFINE P == {n \in Nat : n <= count => walk[n] = Len(joined(n))}
  <2>1. \A n \in 0 .. count : walk[n] = IF n = 0 THEN 0 ELSE walk[n - 1] + strings[n] + 1
    BY <1>5 DEF IsWalk
  <2>2. 0 \in P
    BY <1>1, <1>3, <2>1
  <2>3. ASSUME NEW n \in 0 .. count - 1, n \in P
        PROVE  n + 1 \in P
    <3>1. n + 1 \in 0 .. count /\ n + 1 \in 1 .. count /\ (n + 1) - 1 = n /\ n + 1 # 0
          /\ n + 1 \in Nat /\ n <= count
      BY <1>1
    <3>2. walk[n] = Len(joined(n))
      BY <2>3, <3>1
    <3>3. walk[n + 1] = walk[n] + strings[n + 1] + 1
      BY <2>1, <3>1
    <3>4. Len(joined(n + 1)) = Len(joined(n)) + strings[n + 1] + 1
      BY <1>4, <3>1
    <3> QED
      BY <3>1, <3>2, <3>3, <3>4
  <2> HIDE DEF P
  <2>4. \A n \in 0 .. count - 1 : n \in P => n + 1 \in P
    BY <2>3
  <2>5. \A n \in 0 .. count : n \in P
    BY <1>1, <2>2, <2>4, UpTo
  <2>6. count \in P
    BY <1>1, <2>5
  <2> QED
    BY <1>1, <2>6 DEF P
<1>8. HostEnvironment = joined(count) \o <<NUL>>
  <2>1. EnvStrings = [i \in 1 .. count |-> EnvStrings[i]]
    BY <1>1 DEF EnvStrings
  <2> QED
    BY <2>1 DEF HostEnvironment, EnvStrings, Joined
<1>9. joined(count) \in Seq(Byte)
  BY <1>1, <1>3
<1>10. HostEnvironment \in Seq(Byte) /\ Len(HostEnvironment) = Len(joined(count)) + 1
       /\ Len(joined(count)) \in Nat
  BY <1>8, <1>9, SingleBytes, ConcatProperties
<1> QED
  BY <1>6, <1>7, <1>10

\* The inductive invariant of the environment block.
EnvironmentInv == mEnvironmentSize \in Nat /\ EnvironmentIsComplete

LEMMA InitEnvironmentStep ==
    ASSUME Inputs, InitEnvironment
    PROVE  EnvironmentInv'
<1> DEFINE host == HostEnvironment
           name == CString(0, appName)
           u    == UnixEnvSize
           size == u + 2 + appName + 1
           new  == [k \in 0 .. size - 1 |-> Wild]
           copied == Written(new, 0, SubSeq(host, 1, u))
           marked == Written(copied, u, <<ONE, NUL>>)
           block  == Written(marked, u + 2, name)
<1>1. /\ mEnvironment' = block /\ mEnvironmentSize' = size
      /\ UNCHANGED <<args, env, appName>>
  BY DEF InitEnvironment, inputs
<1>2. host \in Seq(Byte) /\ u = Len(host) /\ u \in Nat
  BY WalkCountsAll
<1>3. appName \in Nat
  BY DEF Inputs
<1>4. name \in Seq(Byte) /\ Len(name) = appName + 1
  BY <1>3, StringsOfBytes
<1>5. SubSeq(host, 1, u) = host
  BY <1>2, SubSeqFull
<1>6. host' = host /\ name' = name
  BY <1>1 DEF HostEnvironment, CString, Chars
<1> HIDE DEF host, name, u
<1>7. size \in Nat /\ DOMAIN new = 0 .. size - 1
  BY <1>2, <1>3
<1> DEFINE mark == <<ONE, NUL>>
<1>8. mark \in Seq(Byte) /\ Len(mark) = 2
  BY SingleBytes
<1> HIDE DEF mark
<1>9. /\ DOMAIN copied = 0 .. size - 1
      /\ \A k \in 0 .. size - 1 : k \in 0 .. u - 1 => copied[k] = host[k + 1]
  <2>1. 0 .. 0 + Len(host) - 1 \subseteq 0 .. size - 1
    BY <1>2, <1>3
  <2>2. \A k \in 0 .. u - 1 : k \in 0 .. 0 + Len(host) - 1 /\ k - 0 + 1 = k + 1
    BY <1>2
  <2> HIDE DEF new, size
  <2>3. /\ DOMAIN Written(new, 0, host) = DOMAIN new
        /\ \A k \in DOMAIN new : Written(new, 0, host)[k] =
              IF k \in 0 .. 0 + Len(host) - 1 THEN host[k - 0 + 1] ELSE new[k]
    <3>1. 0 .. 0 + Len(host) - 1 \subseteq DOMAIN new /\ 0 \in Int
      BY <1>7, <2>1
    <3> QED
      BY <1>2, <3>1, WrittenInside
  <2> QED
    BY <1>5, <1>7, <2>2, <2>3
<1> HIDE DEF copied
<1>10. /\ DOMAIN marked = 0 .. size - 1
       /\ \A k \in 0 .. size - 1 :
             marked[k] = IF k \in u .. u + 1 THEN mark[k - u + 1] ELSE copied[k]
  <2>1. u .. u + 1 \subseteq 0 .. size - 1 /\ u + Len(mark) - 1 = u + 1 /\ u \in Int
    BY <1>2, <1>3, <1>8
  <2> HIDE DEF size
  <2>2. u .. u + Len(mark) - 1 \subseteq DOMAIN copied
    BY <1>9, <2>1
  <2>3. u \in Int
    BY <2>1
  <2>4. /\ DOMAIN Written(copied, u, mark) = DOMAIN copied
        /\ \A k \in DOMAIN copied : Written(copied, u, mark)[k] =
              IF k \in u .. u + Len(mark) - 1 THEN mark[k - u + 1] ELSE copied[k]
    BY <1>8, <2>2, <2>3, WrittenInside
  <2> QED
    BY <1>9, <2>1, <2>4 DEF mark
<1> HIDE DEF marked
<1>11. /\ DOMAIN block = 0 .. size - 1
       /\ \A k \in 0 .. size - 1 :
             block[k] = IF k \in u + 2 .. size - 1 THEN name[k - (u + 2) + 1] ELSE marked[k]
  <2>1. u + 2 .. size - 1 \subseteq 0 .. size - 1 /\ (u + 2) + Len(name) - 1 = size - 1
    BY <1>2, <1>3, <1>4
  <2>2. u + 2 \in Int
    BY <1>2
  <2> DEFINE at == u + 2
  <2> HIDE DEF size, at
  <2>3. at .. at + Len(name) - 1 \subseteq DOMAIN marked
    BY <1>10, <2>1 DEF at
  <2>4. at \in Int
    BY <2>2 DEF at
  <2>5. /\ DOMAIN Written(marked, at, name) = DOMAIN marked
        /\ \A k \in DOMAIN marked : Written(marked, at, name)[k] =
              IF k \in at .. at + Len(name) - 1 THEN name[k - at + 1] ELSE marked[k]
    BY <1>4, <2>3, <2>4, WrittenInside
  <2> QED
    BY <1>10, <2>1, <2>5 DEF at
<1> HIDE DEF block
\* What a program is to find, and that it finds it.
<1> DEFINE head == host \o mark
           whole == head \o name
<1>12. /\ head \in Seq(Byte) /\ Len(head) = u + 2
       /\ \A k \in 1 .. u + 2 : head[k] = IF k <= u THEN host[k] ELSE mark[k - u]
  <2>1. /\ head \in Seq(Byte) /\ Len(head) = Len(host) + Len(mark)
        /\ \A k \in 1 .. Len(host) + Len(mark) :
              head[k] = IF k <= Len(host) THEN host[k] ELSE mark[k - Len(host)]
    BY <1>2, <1>8, ConcatProperties
  <2> HIDE DEF head
  <2> QED
    BY <1>2, <1>8, <2>1
<1> HIDE DEF head
<1>13. /\ whole \in Seq(Byte) /\ Len(whole) = (u + 2) + (appName + 1)
       /\ \A k \in 1 .. (u + 2) + (appName + 1) :
             whole[k] = IF k <= u + 2 THEN head[k] ELSE name[k - (u + 2)]
  <2>1. /\ whole \in Seq(Byte) /\ Len(whole) = Len(head) + Len(name)
        /\ \A k \in 1 .. Len(head) + Len(name) :
              whole[k] = IF k <= Len(head) THEN head[k] ELSE name[k - Len(head)]
    BY <1>4, <1>12, ConcatProperties
  <2> HIDE DEF whole
  <2>2. Len(head) = u + 2 /\ Len(name) = appName + 1
    BY <1>4, <1>12
  <2> QED
    BY <2>1, <2>2
<1>14. (u + 2) + (appName + 1) = size
  BY <1>2, <1>3
<1> HIDE DEF whole
<1>15. ASSUME NEW k \in 1 .. size
       PROVE  block[k - 1] = whole[k]
  <2>1. k - 1 \in 0 .. size - 1 /\ k \in 1 .. (u + 2) + (appName + 1) /\ k \in Int /\ u \in Int
    BY <1>2, <1>3, <1>7, <1>14
  <2>2. CASE k <= u
    <3>1. /\ k - 1 \notin u + 2 .. size - 1 /\ k - 1 \notin u .. u + 1 /\ k - 1 \in 0 .. u - 1
          /\ k \in 1 .. u + 2 /\ k <= u + 2 /\ (k - 1) + 1 = k
      BY <2>1, <2>2
    <3>2. block[k - 1] = host[k]
      BY <1>9, <1>10, <1>11, <2>1, <3>1
    <3>3. whole[k] = host[k]
      BY <1>12, <1>13, <2>1, <2>2, <3>1
    <3> QED
      BY <3>2, <3>3
  <2>3. CASE u < k /\ k <= u + 2
    <3>1. /\ k - 1 \notin u + 2 .. size - 1 /\ k - 1 \in u .. u + 1 /\ ~(k <= u)
          /\ k \in 1 .. u + 2 /\ (k - 1) - u + 1 = k - u
      BY <1>2, <2>1, <2>3
    <3>2. block[k - 1] = mark[k - u]
      BY <1>10, <1>11, <2>1, <3>1
    <3>3. whole[k] = mark[k - u]
      BY <1>12, <1>13, <2>1, <2>3, <3>1
    <3> QED
      BY <3>2, <3>3
  <2>4. CASE u + 2 < k
    <3>1. k - 1 \in u + 2 .. size - 1 /\ ~(k <= u + 2) /\ (k - 1) - (u + 2) + 1 = k - (u + 2)
      BY <1>2, <1>7, <2>1, <2>4
    <3>2. block[k - 1] = name[k - (u + 2)]
      BY <1>11, <2>1, <3>1
    <3>3. whole[k] = name[k - (u + 2)]
      BY <1>13, <2>1, <3>1
    <3> QED
      BY <3>2, <3>3
  <2> QED
    BY <2>1, <2>2, <2>3, <2>4
<1>16. [k \in 1 .. size |-> block[k - 1]] = whole
  <2>1. whole = [k \in 1 .. size |-> whole[k]]
    BY <1>13, <1>14
  <2> HIDE DEF size
  <2> QED
    BY <1>15, <2>1
<1>17. /\ DOMAIN mEnvironment' = 0 .. mEnvironmentSize' - 1
       /\ [k \in 1 .. mEnvironmentSize' |-> mEnvironment'[k - 1]]
             = HostEnvironment' \o <<ONE, NUL>> \o CString(0, appName)'
  <2> HIDE DEF size
  <2> QED
    BY <1>1, <1>6, <1>11, <1>16 DEF whole, head, mark, host, name, block
<1>18. mEnvironmentSize' \in Nat
  BY <1>1, <1>7
<1> QED
  BY <1>17, <1>18 DEF EnvironmentInv, EnvironmentIsComplete
-----------------------------------------------------------------------------
(* The whole process.                                                       *)

\* The inductive invariant.
IInv ==
    /\ TailInv
    /\ EnvironmentInv
    /\ ClockInv
    /\ mDta \in DtaArgs \cup {PSP_DTA}

LEMMA InitIInv == Init => IInv
<1> SUFFICES ASSUME Init PROVE IInv
  OBVIOUS
<1>1. TailInit /\ ClockInit /\ mDta = PSP_DTA
  BY DEF Init
<1>2. Inputs
  <2>1. args \in Seq(Nat) /\ appName \in Nat
    BY <1>1, CommandTailAssumption DEF TailInit
  <2>2. CASE env \in [null : {FALSE}, strings : EnvBlocks]
    <3>1. env.strings \in Seq(Nat \ {0})
      BY <2>2, CommandTailAssumption
    <3>2. env.strings \in Seq(Nat)
      BY <3>1, SeqMonotonic
    <3> QED
      BY <2>1, <3>2 DEF Inputs
  <2>3. CASE env = [null |-> TRUE, strings |-> << >>]
    <3>1. env.strings = << >>
      BY <2>3
    <3> QED
      BY <2>1, <3>1 DEF Inputs
  <2> QED
    BY <1>1, <2>2, <2>3 DEF TailInit
<1>3. TailInv
  <2>1. /\ step = "args" /\ next = 1 /\ pos = 1 /\ tailLength = 0
        /\ commandLine = [k \in 1 .. TailSize - 1 |-> NUL]
    BY <1>1 DEF TailInit
  <2>2. TailSize \in Nat /\ TailSize >= 4
    BY CommandTailAssumption
  <2>3. Len(args) \in Nat /\ Text(0) = << >>
    BY <1>2, TextStep DEF Inputs
  <2>4. TailIsText
    <3>1. next - 1 = 0 /\ Len(Text(next - 1)) = 0
      BY <2>1, <2>3
    <3> QED
      BY <2>1, <2>2, <3>1 DEF TailIsText
  <2>5. TailIsClosed
    BY <2>1 DEF TailIsClosed
  <2>6. next \in 1 .. Len(args) + 1 /\ pos \in 1 .. TailSize - 1 /\ tailLength \in 0 .. TailSize - 2
    BY <2>1, <2>2, <2>3
  <2> QED
    BY <1>2, <2>1, <2>4, <2>5, <2>6 DEF TailInv
<1>4. EnvironmentInv
  BY <1>1 DEF TailInit, EnvironmentInv, EnvironmentIsComplete
<1>5. ClockInv
  <2>1. /\ mOffsetSeconds = 0 /\ mOffsetMilliSeconds = 0 /\ sets = << >> /\ answer.fn # "2C"
    BY <1>1 DEF ClockInit
  <2>2. clock \in Nat
    <3>1. PICK start \in StartTimes : clock = start * Hundred
      BY <1>1 DEF ClockInit
    <3>2. start \in Nat
      BY HostTimeAssumption
    <3> QED
      BY <3>1, <3>2, Units
  <2>3. 0 \in 1 - Thousand .. Thousand - 1
    BY Units
  <2>4. sets \in Seq(SetCalls)
    BY <2>1
  <2> QED
    BY <2>1, <2>2, <2>3, <2>4
       DEF ClockInv, ClockTypeOK, FirstOffsets, AnswerIsCurrent
<1> QED
  BY <1>1, <1>3, <1>4, <1>5 DEF IInv

LEMMA ClockKept ==
    ASSUME ClockInv, UNCHANGED clockVars
    PROVE  ClockInv'
<1>1. UNCHANGED <<clock, mOffsetSeconds, mOffsetMilliSeconds, answer, sets>>
  BY DEF clockVars
<1> QED
  BY <1>1 DEF ClockInv, ClockTypeOK, FirstOffsets, AnswerIsCurrent

LEMMA TailKept ==
    ASSUME TailInv, EnvironmentInv, UNCHANGED tailVars
    PROVE  TailInv' /\ EnvironmentInv'
<1>1. /\ UNCHANGED <<args, env, appName, step, next, pos, commandLine, tailLength>>
      /\ UNCHANGED <<mEnvironment, mEnvironmentSize>>
  BY DEF tailVars, inputs, tail, environment
<1>2. \A n : Text(n)' = Text(n)
  BY <1>1 DEF Text
<1>3. TailIsText' /\ TailIsClosed'
  BY <1>1, <1>2 DEF TailInv, TailIsText, TailIsClosed
<1>4. TailInv'
  BY <1>1, <1>3 DEF TailInv, Inputs
<1>5. HostEnvironment' = HostEnvironment /\ CString(0, appName)' = CString(0, appName)
  BY <1>1 DEF HostEnvironment, CString, Chars
<1>6. EnvironmentInv'
  BY <1>1, <1>5 DEF EnvironmentInv, EnvironmentIsComplete
<1> QED
  BY <1>4, <1>6

LEMMA ConstructStep ==
    ASSUME TailInv, EnvironmentInv, Construct
    PROVE  TailInv' /\ EnvironmentInv'
<1>1. CASE CopyArgument
  <2>1. step' # "ready" /\ mEnvironmentSize' = mEnvironmentSize
    BY <1>1 DEF CopyArgument, environment
  <2> QED
    BY <1>1, <2>1, CopyStep DEF EnvironmentInv, EnvironmentIsComplete
<1>2. CASE EndTail
  <2>1. step' # "ready" /\ mEnvironmentSize' = mEnvironmentSize
    BY <1>2 DEF EndTail, environment
  <2> QED
    BY <1>2, <2>1, EndStep DEF EnvironmentInv, EnvironmentIsComplete
<1>3. CASE InitEnvironment
  <2>1. /\ step = "environment" /\ step' = "ready" /\ UNCHANGED <<inputs, tail>>
    BY <1>3 DEF InitEnvironment
  <2>2. TailInv'
    BY <2>1, ClosedStep
  <2>3. EnvironmentInv'
    BY <1>3, InitEnvironmentStep DEF TailInv
  <2> QED
    BY <2>2, <2>3
<1>4. CASE NoEnvironment
  <2>1. /\ step = "environment" /\ step' = "crashed" /\ UNCHANGED <<inputs, tail>>
        /\ mEnvironmentSize' = mEnvironmentSize
    BY <1>4 DEF NoEnvironment, environment
  <2>2. TailInv'
    BY <2>1, ClosedStep
  <2> QED
    BY <2>1, <2>2 DEF EnvironmentInv, EnvironmentIsComplete
<1> QED
  BY <1>1, <1>2, <1>3, <1>4 DEF Construct

LEMMA NextOK ==
    ASSUME IInv, [Next]_vars
    PROVE  IInv' /\ [Forward]_clockVars
<1>0. TailInv /\ EnvironmentInv /\ ClockInv /\ mDta \in DtaArgs \cup {PSP_DTA}
  BY DEF IInv
<1>1. CASE DOS
  <2>1. Construct /\ UNCHANGED clockVars /\ mDta' = mDta
    BY <1>1 DEF DOS
  <2> QED
    BY <1>0, <2>1, ConstructStep, ClockKept DEF IInv
<1>2. ASSUME NEW dta \in DtaArgs, SetDTA(dta)
      PROVE  IInv' /\ [Forward]_clockVars
  <2>1. /\ UNCHANGED tailVars /\ mDta' = dta /\ answer'.fn # "2C"
        /\ UNCHANGED <<clock, mOffsetSeconds, mOffsetMilliSeconds, sets>>
    BY <1>2 DEF SetDTA
  <2>2. TailInv' /\ EnvironmentInv'
    BY <1>0, <2>1, TailKept
  <2>3. ClockInv' /\ Forward
    BY <1>0, <2>1, OtherAnswerStep
  <2> QED
    BY <2>1, <2>2, <2>3 DEF IInv
<1>3. ASSUME NEW al \in {0, 1}, GetVersion(al)
      PROVE  IInv' /\ [Forward]_clockVars
  <2>1. /\ UNCHANGED tailVars /\ mDta' = mDta /\ answer'.fn # "2C"
        /\ UNCHANGED <<clock, mOffsetSeconds, mOffsetMilliSeconds, sets>>
    BY <1>3 DEF GetVersion
  <2>2. TailInv' /\ EnvironmentInv'
    BY <1>0, <2>1, TailKept
  <2>3. ClockInv' /\ Forward
    BY <1>0, <2>1, OtherAnswerStep
  <2> QED
    BY <1>0, <2>1, <2>2, <2>3 DEF IInv
<1>4. CASE Clock
  <2>1. ClockNext /\ UNCHANGED tailVars /\ mDta' = mDta
    BY <1>4 DEF Clock
  <2>2. TailInv' /\ EnvironmentInv'
    BY <1>0, <2>1, TailKept
  <2>3. ClockInv' /\ Forward
    <3>1. CASE GetTime
      BY <1>0, <3>1, GetTimeStep
    <3>2. ASSUME NEW seconds \in TimeArgs, NEW centi \in CentiArgs, SetTime(seconds, centi)
          PROVE  ClockInv' /\ Forward
      BY <1>0, <3>2, SetTimeStep
    <3>3. ASSUME NEW seconds \in TimeArgs, NEW centi \in CentiArgs, RefuseTime(seconds, centi)
          PROVE  ClockInv' /\ Forward
      <4>1. answer'.fn # "2C" /\ UNCHANGED <<clock, mOffsetSeconds, mOffsetMilliSeconds, sets>>
        BY <3>3 DEF RefuseTime
      <4> QED
        BY <1>0, <4>1, OtherAnswerStep
    <3>4. CASE Tick
      BY <1>0, <3>4, TickStep
    <3> QED
      BY <2>1, <3>1, <3>2, <3>3, <3>4 DEF ClockNext
  <2> QED
    BY <1>0, <2>1, <2>2, <2>3 DEF IInv
<1>5. CASE UNCHANGED vars
  <2>1. UNCHANGED tailVars /\ UNCHANGED clockVars /\ mDta' = mDta
    BY <1>5 DEF vars
  <2> QED
    BY <1>0, <2>1, TailKept, ClockKept DEF IInv
<1> QED
  BY <1>1, <1>2, <1>3, <1>4, <1>5 DEF Next

LEMMA Invariance == Spec => []IInv
BY InitIInv, NextOK, PTL DEF Spec

-----------------------------------------------------------------------------
(* What follows.                                                            *)

\* Every answer of 2Ch is a time of the day, however the offsets have wrapped, and the
\* indices of the loop that fills the command tail stay inside it.
THEOREM TypeCorrect == Spec => []TypeOK
<1>1. IInv => TypeOK
  BY DEF IInv, TailInv, EnvironmentInv, ClockInv, TypeOK, TailTypeOK
<1> QED
  BY Invariance, <1>1, PTL

\* initPsp copies as many whole arguments as leave room for CR and LF, counts them
\* right, and writes no byte outside the field, for every list of arguments.
THEOREM TailIsRight == Spec => []TailHoldsArguments
<1>1. IInv => TailHoldsArguments
  BY TailHolds DEF IInv
<1> QED
  BY Invariance, <1>1, PTL

\* initEnvironment counts what memcpy takes, so that the host's strings, the empty one,
\* the word 1 and the program's name fill the block to its last byte.
THEOREM EnvironmentIsRight == Spec => []EnvironmentIsComplete
<1>1. IInv => EnvironmentIsComplete
  BY DEF IInv, EnvironmentInv
<1> QED
  BY Invariance, <1>1, PTL

\* After the first 2Dh the program is shown the time of day it has asked for plus what has
\* passed, modulo a day: exactly at whole seconds, less than a second off in between.
THEOREM SetTimeIsRight == Spec => []SetTimeIsKept
<1>1. IInv => SetTimeIsKept
  BY KeptAfterSet DEF IInv
<1> QED
  BY Invariance, <1>1, PTL

\* Between two calls of 2Dh the clock runs backwards only when a wrap ends.
THEOREM NeverBackwards == Spec => RunsForward
<1>1. IInv /\ [Next]_vars => [Forward]_clockVars
  BY NextOK
<1>2. [Forward]_clockVars <=>
         [answer.fn = "2C" /\ answer'.fn = "2C" /\ Reading(answer'.time) < Reading(answer.time)
             => Wrapped(answer) /\ ~Wrapped(answer')]_clockVars
  BY DEF Forward
<1> QED
  BY Invariance, <1>1, <1>2, PTL DEF Spec, RunsForward
=============================================================================
