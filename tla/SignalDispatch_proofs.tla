------------------------- MODULE SignalDispatch_proofs -------------------------
(***************************************************************************)
(* Proofs about SignalDispatch, for every number of signals and traps,     *)
(* every set of exit codes and every layout of the address space.          *)
(***************************************************************************)
EXTENDS SignalDispatch, FiniteSetTheorems, SequenceTheorems, TLAPS

\* Where a frame is before the guard, or after the guard has refused it.
EntryPcs == {"info", "infoHeld", "load", "guard", "refused"}

\* Where only a service that is resumed gets.
ServicePcs == {"serviceHeld", "served", "decLoad", "decStore", "delete", "deleteHeld"}

\* The application thread handles the trap its first frame stands for.
AppServes == Active("app") /\ Serving(frames["app"][1])

\* Only the first frame of the application thread stands for a call of the program.
CallsAreFirst ==
    \A t \in Threads : \A i \in 1 .. Len(frames[t]) :
        frames[t][i].kind # "unsupported" =>
            /\ t = "app" /\ i = 1
            /\ frames[t][i].sig = "SEGV" /\ frames[t][i].region = "program"

\* Only a service that is resumed passes the call of the registered handler.
OnlyServicesResume ==
    \A t \in Threads : \A i \in 1 .. Len(frames[t]) :
        frames[t][i].pc \in ServicePcs => frames[t][i].kind = "service"

\* A frame for a jump to address 0 never passes the guard.
NullIsRefused ==
    \A t \in Threads : \A i \in 1 .. Len(frames[t]) :
        frames[t][i].sig = "SEGV" /\ frames[t][i].region = "null" =>
            frames[t][i].pc \in EntryPcs

\* A memory exception is the first on its thread, and on the main thread it comes
\* before the application thread is born; or it is a fault of a service, on top of
\* that service, and the guard sees a counter that is not 0.
FaultsNest ==
    \A t \in Threads : \A i \in 1 .. Len(frames[t]) :
        frames[t][i].sig = "SEGV" /\ frames[t][i].region # "null" =>
            \/ i = 1 /\ (t = "main" => appAt = "unborn")
            \/ /\ t = "app" /\ i = 2
               /\ Serving(frames["app"][1])
               /\ frames[t][i].pc \in EntryPcs
               /\ frames[t][i].pc = "guard" => frames[t][i].reg >= 1

\* What is decremented is not 0.
DecrementsPositive ==
    \A t \in Threads : \A i \in 1 .. Len(frames[t]) :
        frames[t][i].pc = "decStore" => frames[t][i].reg >= 1

UnbornIsIdle == appAt = "unborn" => frames["app"] = <<>>

Counted ==
    (\E t \in Threads : \E i \in 1 .. Len(frames[t]) : Serving(frames[t][i])) =>
        mReenterCount >= 1

FramesInv ==
    /\ CallsAreFirst
    /\ OnlyServicesResume
    /\ NullIsRefused
    /\ FaultsNest
    /\ DecrementsPositive
    /\ UnbornIsIdle
    /\ Counted

\* The main thread sets up before the application thread is born.
SetupIsAlone == mainAt \in {"start", "setup"} => appAt = "unborn"

\* The inductive invariant.
IInv == TypeOK /\ FramesInv /\ SetupIsAlone

-----------------------------------------------------------------------------
(* What the operations on the stacks of frames do, frame by frame.          *)

LEMMA SecondAfterFirst ==
  ASSUME NEW n \in Nat, 2 \in 1 .. n PROVE 1 \in 1 .. n /\ n # 1
  OBVIOUS

LEMMA TopIsFrame ==
  ASSUME TypeOK, NEW t \in Threads, Active(t)
  PROVE  /\ Len(frames[t]) \in Nat \ {0}
         /\ Top(t) \in FrameType
<1>1. frames[t] \in Seq(FrameType) /\ frames[t] # <<>>
  BY DEF TypeOK, Active
<1>2. Len(frames[t]) \in Nat \ {0}
  BY <1>1, EmptySeq
<1> QED
  BY <1>1, <1>2, ElementOfSeq DEF Top

LEMMA UpdateEffect ==
  ASSUME TypeOK, NEW t \in Threads, Active(t), NEW f \in FrameType, Update(t, f)
  PROVE  /\ frames' \in [Threads -> Seq(FrameType)]
         /\ \A u \in Threads : Len(frames'[u]) = Len(frames[u])
         /\ \A u \in Threads : \A i \in 1 .. Len(frames[u]) :
               frames'[u][i] = IF u = t /\ i = Len(frames[t]) THEN f ELSE frames[u][i]
<1> DEFINE s == [frames[t] EXCEPT ![Len(frames[t])] = f]
<1>0. Len(frames[t]) \in Nat \ {0}
  BY TopIsFrame
<1>a. Len(frames[t]) \in 1 .. Len(frames[t])
  BY <1>0
<1>1. frames[t] \in Seq(FrameType)
  BY DEF TypeOK
<1>2. frames' = [frames EXCEPT ![t] = s]
  BY DEF Update
<1>3. /\ s \in Seq(FrameType)
      /\ Len(s) = Len(frames[t])
      /\ \A j \in 1 .. Len(frames[t]) : s[j] = IF j = Len(frames[t]) THEN f ELSE frames[t][j]
  BY <1>a, <1>1, ExceptSeq
<1>4. frames \in [Threads -> Seq(FrameType)]
  BY DEF TypeOK
<1>5. \A u \in Threads : frames'[u] = IF u = t THEN s ELSE frames[u]
  BY <1>2, <1>4
<1>6. frames' \in [Threads -> Seq(FrameType)]
  BY <1>2, <1>3, <1>4
<1> HIDE DEF s
<1> QED
  BY <1>3, <1>5, <1>6

LEMMA PushEffect ==
  ASSUME TypeOK, NEW t \in Threads, NEW f \in FrameType, Push(t, f)
  PROVE  /\ frames' \in [Threads -> Seq(FrameType)]
         /\ \A u \in Threads :
               Len(frames'[u]) = IF u = t THEN Len(frames[u]) + 1 ELSE Len(frames[u])
         /\ \A u \in Threads : \A i \in 1 .. Len(frames[u]) : frames'[u][i] = frames[u][i]
         /\ frames'[t][Len(frames[t]) + 1] = f
<1> DEFINE s == Append(frames[t], f)
<1>1. frames \in [Threads -> Seq(FrameType)] /\ frames[t] \in Seq(FrameType)
  BY DEF TypeOK
<1>2. frames' = [frames EXCEPT ![t] = s]
  BY DEF Push
<1>3. /\ s \in Seq(FrameType)
      /\ Len(s) = Len(frames[t]) + 1
      /\ \A j \in 1 .. Len(frames[t]) : s[j] = frames[t][j]
      /\ s[Len(frames[t]) + 1] = f
  BY <1>1, AppendProperties
<1>4. \A u \in Threads : frames'[u] = IF u = t THEN s ELSE frames[u]
  BY <1>1, <1>2
<1>5. frames' \in [Threads -> Seq(FrameType)]
  BY <1>1, <1>2, <1>3
<1> HIDE DEF s
<1> QED
  BY <1>3, <1>4, <1>5

LEMMA PopEffect ==
  ASSUME TypeOK, NEW t \in Threads, Active(t), Pop(t)
  PROVE  /\ frames' \in [Threads -> Seq(FrameType)]
         /\ \A u \in Threads :
               Len(frames'[u]) = IF u = t THEN Len(frames[u]) - 1 ELSE Len(frames[u])
         /\ \A u \in Threads : \A i \in 1 .. Len(frames'[u]) : frames'[u][i] = frames[u][i]
<1> DEFINE n == Len(frames[t]) - 1
           s == SubSeq(frames[t], 1, n)
<1>1. frames \in [Threads -> Seq(FrameType)] /\ frames[t] \in Seq(FrameType)
  BY DEF TypeOK
<1>2. frames' = [frames EXCEPT ![t] = s]
  BY DEF Pop
<1>3. n \in Nat /\ Len(frames[t]) = n + 1
  BY TopIsFrame
<1>4. \A i \in 1 .. n : frames[t][i] \in FrameType
  BY <1>1, <1>3, ElementOfSeq
<1>5. /\ s \in Seq(FrameType)
      /\ Len(s) = IF 1 <= n THEN n - 1 + 1 ELSE 0
      /\ \A i \in 1 .. n - 1 + 1 : s[i] = frames[t][1 + i - 1]
  BY <1>3, <1>4, SubSeqProperties
<1>6. /\ Len(s) = n
      /\ \A i \in 1 .. n : s[i] = frames[t][i]
  BY <1>3, <1>5
<1>7. \A u \in Threads : frames'[u] = IF u = t THEN s ELSE frames[u]
  BY <1>1, <1>2
<1>8. frames' \in [Threads -> Seq(FrameType)]
  BY <1>1, <1>2, <1>5
<1> HIDE DEF s
<1> QED
  BY <1>6, <1>7, <1>8

-----------------------------------------------------------------------------
(* The inductive invariant holds initially and is kept by every step.       *)

\* At most one memory exception is past the guard, and it is the first frame of
\* its thread.
LEMMA OneServing ==
  ASSUME IInv,
         NEW t \in Threads, NEW i \in 1 .. Len(frames[t]), Serving(frames[t][i]),
         NEW u \in Threads, NEW j \in 1 .. Len(frames[u]), Serving(frames[u][j])
  PROVE  t = u /\ i = 1 /\ j = 1
<1>1. i = 1 /\ (t = "main" => appAt = "unborn")
  BY SMTT(40) DEF IInv, FramesInv, NullIsRefused, FaultsNest, Serving, EntryPcs
<1>2. j = 1 /\ (u = "main" => appAt = "unborn")
  BY DEF IInv, FramesInv, NullIsRefused, FaultsNest, Serving, EntryPcs
<1>3. t = "app" \/ u = "app" => frames["app"] # <<>>
  BY EmptySeq
<1> QED
  BY <1>1, <1>2, <1>3 DEF IInv, FramesInv, UnbornIsIdle, Threads

\* A frame that advances without becoming another signal's.
LEMMA UpdateKeepsFrames ==
  ASSUME IInv, NEW t \in Threads, Active(t), NEW f \in FrameType, Update(t, f),
         UNCHANGED appAt,
         f.sig = Top(t).sig, f.region = Top(t).region, f.kind = Top(t).kind,
         f.pc \in ServicePcs => f.kind = "service",
         f.pc \notin EntryPcs => \/ Top(t).pc \notin EntryPcs
                                 \/ Top(t).pc = "guard" /\ ~Refused(Top(t)),
         f.pc = "guard" => f.reg = mReenterCount,
         f.pc = "decStore" => f.reg >= 1,
         Counted'
  PROVE  FramesInv'
<1> DEFINE n == Len(frames[t])
<1>1. n \in Nat \ {0} /\ Top(t) \in FrameType
  BY TopIsFrame DEF IInv
<1>2. /\ frames' \in [Threads -> Seq(FrameType)]
      /\ \A u \in Threads : Len(frames'[u]) = Len(frames[u])
      /\ \A u \in Threads : \A i \in 1 .. Len(frames[u]) :
            frames'[u][i] = IF u = t /\ i = n THEN f ELSE frames[u][i]
  BY UpdateEffect DEF IInv
<1>3. n \in 1 .. n /\ Top(t) = frames[t][n]
  BY <1>1 DEF Top
<1>4. \A u \in Threads : \A i \in 1 .. Len(frames[u]) :
         /\ frames'[u][i].sig = frames[u][i].sig
         /\ frames'[u][i].region = frames[u][i].region
         /\ frames'[u][i].kind = frames[u][i].kind
  BY <1>2, <1>3
<1>5. CallsAreFirst'
  BY <1>2, <1>4 DEF IInv, FramesInv, CallsAreFirst
<1>6. OnlyServicesResume'
  BY <1>2, <1>4 DEF IInv, FramesInv, OnlyServicesResume
<1>7. NullIsRefused'
  BY <1>2, <1>3, <1>4 DEF IInv, FramesInv, NullIsRefused, Refused, InStubRange
<1>8. FaultsNest'
  <2> SUFFICES ASSUME NEW u \in Threads, NEW i \in 1 .. Len(frames[u]),
                      frames[u][i].sig = "SEGV", frames[u][i].region # "null",
                      ~(i = 1 /\ (u = "main" => appAt = "unborn"))
               PROVE  /\ u = "app" /\ i = 2
                      /\ Serving(frames'["app"][1])
                      /\ frames'[u][i].pc \in EntryPcs
                      /\ frames'[u][i].pc = "guard" => frames'[u][i].reg >= 1
    BY <1>2, <1>4 DEF FaultsNest
  <2>1. /\ u = "app" /\ i = 2
        /\ Serving(frames["app"][1])
        /\ frames[u][i].pc \in EntryPcs
        /\ frames[u][i].pc = "guard" => frames[u][i].reg >= 1
    BY DEF IInv, FramesInv, FaultsNest
  <2>a. Len(frames["app"]) \in Nat /\ 2 \in 1 .. Len(frames["app"])
    BY <2>1, LenProperties DEF IInv, TypeOK
  <2>b. 1 \in 1 .. Len(frames["app"]) /\ Len(frames["app"]) # 1
    BY <2>a, SecondAfterFirst
  <2>2. 1 \in 1 .. Len(frames["app"]) /\ frames'["app"][1] = frames["app"][1]
    BY <1>2, <2>1, <2>b
  <2>3. mReenterCount >= 1
    BY <2>1, <2>2 DEF IInv, FramesInv, Counted, Threads
  <2>4. CASE u = t /\ i = n
    <3>1. frames'[u][i] = f /\ frames[u][i] = Top(t)
      BY <1>2, <1>3, <2>4
    <3>2. Top(t).pc = "guard" => Refused(Top(t))
      BY <1>1, <2>1, <3>1 DEF Refused, FrameType
    <3>3. f.pc \in EntryPcs
      BY <2>1, <3>1, <3>2
    <3> QED
      BY <2>1, <2>2, <2>3, <3>1, <3>3
  <2>5. CASE ~(u = t /\ i = n)
    BY <1>2, <2>1, <2>2, <2>5
  <2> QED
    BY <2>4, <2>5
<1>9. DecrementsPositive'
  BY <1>2, <1>3 DEF IInv, FramesInv, DecrementsPositive
<1>10. UnbornIsIdle'
  <2>1. "app" \in Threads /\ (t = "app" => appAt # "unborn")
    BY DEF IInv, FramesInv, UnbornIsIdle, Active, Threads
  <2>2. t # "app" => frames'["app"] = frames["app"]
    BY <2>1 DEF Update, IInv, TypeOK
  <2> QED
    BY <2>1, <2>2 DEF IInv, FramesInv, UnbornIsIdle
<1> QED
  BY <1>5, <1>6, <1>7, <1>8, <1>9, <1>10 DEF FramesInv

\* A new frame on top of a thread's frames.
LEMMA PushKeepsFrames ==
  ASSUME IInv, NEW t \in Threads, UNCHANGED <<appAt, mReenterCount>>,
         NEW sig \in {"SEGV", "INT"}, NEW r \in Regions, NEW k \in TrapKinds,
         Push(t, Frame(sig, r, k)),
         t = "app" => appAt # "unborn",
         k # "unsupported" =>
            t = "app" /\ Len(frames[t]) = 0 /\ sig = "SEGV" /\ r = "program",
         sig = "SEGV" /\ r # "null" =>
            \/ Len(frames[t]) = 0 /\ (t = "main" => appAt = "unborn")
            \/ t = "app" /\ Len(frames[t]) = 1 /\ Serving(frames["app"][1])
  PROVE  FramesInv' /\ frames' \in [Threads -> Seq(FrameType)]
<1> DEFINE f == Frame(sig, r, k)
           n == Len(frames[t])
<1>1. f \in FrameType
  BY DEF Frame, FrameType, HandlerPcs
<1>2. f.sig = sig /\ f.region = r /\ f.kind = k /\ f.pc = "info" /\ f.reg = 0
  BY DEF Frame
<1>3. n \in Nat
  BY LenProperties DEF IInv, TypeOK
<1> HIDE DEF f
<1>4. /\ frames' \in [Threads -> Seq(FrameType)]
      /\ \A u \in Threads :
            Len(frames'[u]) = IF u = t THEN Len(frames[u]) + 1 ELSE Len(frames[u])
      /\ \A u \in Threads : \A i \in 1 .. Len(frames[u]) : frames'[u][i] = frames[u][i]
      /\ frames'[t][n + 1] = f
  BY <1>1, PushEffect DEF IInv, f
<1>5. \A u \in Threads : \A i \in 1 .. Len(frames'[u]) :
         \/ i \in 1 .. Len(frames[u]) /\ frames'[u][i] = frames[u][i]
         \/ u = t /\ i = n + 1 /\ frames'[u][i] = f
  BY <1>3, <1>4
<1>6. CallsAreFirst'
  BY <1>2, <1>3, <1>5 DEF IInv, FramesInv, CallsAreFirst
<1>a. OnlyServicesResume'
  BY <1>2, <1>5 DEF IInv, FramesInv, OnlyServicesResume, ServicePcs
<1>b. NullIsRefused'
  BY <1>2, <1>5 DEF IInv, FramesInv, NullIsRefused, EntryPcs
<1>c. DecrementsPositive'
  BY <1>2, <1>5 DEF IInv, FramesInv, DecrementsPositive
<1>7. OnlyServicesResume' /\ NullIsRefused' /\ DecrementsPositive'
  BY <1>a, <1>b, <1>c
<1>8. FaultsNest'
  <2> SUFFICES ASSUME NEW u \in Threads, NEW i \in 1 .. Len(frames'[u]),
                      frames'[u][i].sig = "SEGV", frames'[u][i].region # "null",
                      ~(i = 1 /\ (u = "main" => appAt = "unborn"))
               PROVE  /\ u = "app" /\ i = 2
                      /\ Serving(frames'["app"][1])
                      /\ frames'[u][i].pc \in EntryPcs
                      /\ frames'[u][i].pc = "guard" => frames'[u][i].reg >= 1
    BY DEF FaultsNest
  <2>1. CASE i \in 1 .. Len(frames[u]) /\ frames'[u][i] = frames[u][i]
    <3>1. /\ u = "app" /\ i = 2
          /\ Serving(frames["app"][1])
          /\ frames[u][i].pc \in EntryPcs
          /\ frames[u][i].pc = "guard" => frames[u][i].reg >= 1
      BY <2>1 DEF IInv, FramesInv, FaultsNest
    <3>a. Len(frames["app"]) \in Nat /\ 2 \in 1 .. Len(frames["app"])
      BY <2>1, <3>1, LenProperties DEF IInv, TypeOK
    <3>2. 1 \in 1 .. Len(frames["app"])
      BY <3>a, SecondAfterFirst
    <3> QED
      BY <1>4, <2>1, <3>1, <3>2
  <2>2. CASE u = t /\ i = n + 1 /\ frames'[u][i] = f
    <3>1. t = "app" /\ n = 1 /\ Serving(frames["app"][1])
      BY <1>2, <1>3, <2>2
    <3>2. frames'["app"][1] = frames["app"][1]
      BY <1>4, <3>1
    <3> QED
      BY <1>2, <2>2, <3>1, <3>2 DEF EntryPcs
  <2> QED
    BY <1>5, <2>1, <2>2
<1>9. UnbornIsIdle'
  BY DEF Push, IInv, TypeOK, FramesInv, UnbornIsIdle, Threads
<1>10. Counted'
  BY <1>2, <1>5 DEF IInv, FramesInv, Counted, Serving
<1> QED
  BY <1>4, <1>6, <1>7, <1>8, <1>9, <1>10 DEF FramesInv

\* How a process ends through exit().
LEMMA ExitType ==
  ASSUME NEW t, NEW code \in Nat,
         NEW verdict \in {"none", "usage", "exception", "program", "interrupt",
                          "unsupported", "bad access", "overrun"},
         Exit(t, code, verdict)
  PROVE  process' \in [how : {"running", "exit", "signal", "abort"}, status : Nat,
                       verdict : {"none", "usage", "exception", "program", "interrupt",
                                  "unsupported", "bad access", "overrun"}]
<1>1. PICK how \in EndsBy(t) :
         process' = [how |-> how, verdict |-> verdict,
                     status |-> IF how = "exit" THEN code ELSE 0]
  BY DEF Exit
<1>2. how \in {"running", "exit", "signal", "abort"}
  BY DEF EndsBy
<1> QED
  BY <1>1, <1>2

LEMMA ExitVerdict ==
  ASSUME NEW t, NEW code, NEW verdict, Exit(t, code, verdict)
  PROVE  process'.verdict = verdict
  BY DEF Exit

LEMMA InitIInv == Init => IInv
<1> SUFFICES ASSUME Init PROVE IInv
  OBVIOUS
<1>1. \A t \in Threads : frames[t] = <<>> /\ Len(frames[t]) = 0
  BY EmptySeq DEF Init
<1>2. frames \in [Threads -> Seq(FrameType)]
  BY EmptySeq DEF Init
<1>3. TypeOK
  BY <1>2, SignalDispatchAssumption DEF Init, TypeOK
<1>4. FramesInv
  BY <1>1 DEF FramesInv, CallsAreFirst, OnlyServicesResume, NullIsRefused, FaultsNest,
              DecrementsPositive, UnbornIsIdle, Counted, Threads
<1> QED
  BY <1>3, <1>4 DEF Init, IInv, SetupIsAlone

\* A step that leaves the frames, the counter and the life of the application
\* thread alone.
LEMMA FramesUntouched ==
  ASSUME IInv, UNCHANGED <<frames, mReenterCount>>,
         appAt' = appAt \/ (appAt # "unborn" /\ appAt' # "unborn")
  PROVE  FramesInv'
<1>1. CallsAreFirst' /\ OnlyServicesResume' /\ NullIsRefused' /\ DecrementsPositive'
      /\ Counted' /\ UnbornIsIdle'
  BY DEF IInv, FramesInv, CallsAreFirst, OnlyServicesResume, NullIsRefused,
         DecrementsPositive, Counted, UnbornIsIdle
<1>2. FaultsNest'
  BY DEF IInv, FramesInv, FaultsNest
<1> QED
  BY <1>1, <1>2 DEF FramesInv

LEMMA MainStepIInv == ASSUME IInv, MainStep PROVE IInv'
<1>1. CASE MainStart
  <2>1. FramesInv'
    BY <1>1, FramesUntouched DEF MainStart
  <2>2. process' = process \/ Exit("main", 1, "usage")
    BY <1>1 DEF MainStart
  <2>3. TypeOK'
    BY <1>1, <2>2, ExitType DEF MainStart, IInv, TypeOK
  <2>4. SetupIsAlone'
    BY <1>1 DEF MainStart, MainIs, IInv, SetupIsAlone
  <2> QED
    BY <2>1, <2>3, <2>4 DEF IInv
<1>2. CASE MainTakesHeap \/ MainReleasesHeap \/ Join
  <2>1. FramesInv'
    BY <1>2, FramesUntouched DEF MainTakesHeap, MainReleasesHeap, Join
  <2> QED
    BY <1>2, <2>1 DEF MainTakesHeap, MainReleasesHeap, Join, IInv, TypeOK, SetupIsAlone, Threads
<1>3. CASE SetupFails \/ MainReturns
  <2>1. FramesInv'
    BY <1>3, FramesUntouched DEF SetupFails, MainReturns
  <2>a. result \in ExitCodes \cup {0}
    BY DEF IInv, TypeOK, SetupIsAlone
  <2>2. result \in Nat
    BY <2>a, SignalDispatchAssumption
  <2>3. Exit("main", 2, "exception") \/ Exit("main", result, "program")
    BY <1>3 DEF SetupFails, MainReturns
  <2>4. TypeOK'
    BY <1>3, <2>2, <2>3, ExitType DEF SetupFails, MainReturns, IInv, TypeOK, SetupIsAlone
  <2> QED
    BY <1>3, <2>1, <2>4 DEF SetupFails, MainReturns, IInv, SetupIsAlone
<1>4. CASE SetupFaults
  <2>1. PICK r \in {"emulator", "library"} : Push("main", Frame("SEGV", r, "unsupported"))
    BY <1>4 DEF SetupFaults
  <2>2. Len(frames["main"]) = 0 /\ appAt = "unborn"
    BY <1>4, EmptySeq DEF SetupFaults, MainIs, Active, IInv, SetupIsAlone
  <2>3. faults' = faults + 1 /\ faults \in Nat
    BY <1>4 DEF SetupFaults, IInv, TypeOK, SetupIsAlone
  <2>4. faults' \in Nat
    BY <2>3
  <2>a. "main" \in Threads /\ r \in Regions /\ r # "null" /\ "unsupported" \in TrapKinds
    BY DEF Threads, Regions, TrapKinds
  <2>5. FramesInv' /\ frames' \in [Threads -> Seq(FrameType)]
    BY <1>4, <2>1, <2>2, <2>a, PushKeepsFrames DEF SetupFaults
  <2> QED
    BY ZenonT(60), <1>4, <2>4, <2>5 DEF SetupFaults, IInv, TypeOK, SetupIsAlone
<1>5. CASE StartThread
  <2>1. frames["main"] = <<>> /\ Len(frames["main"]) = 0 /\ Len(frames["app"]) \in Nat
    BY <1>5, EmptySeq, LenProperties DEF StartThread, MainIs, Active, IInv, TypeOK, SetupIsAlone, Threads
  <2>2. FramesInv'
    BY <1>5, <2>1 DEF StartThread, IInv, FramesInv, CallsAreFirst, OnlyServicesResume,
       NullIsRefused, FaultsNest, DecrementsPositive, Counted, UnbornIsIdle, Threads
  <2> QED
    BY <1>5, <2>2 DEF StartThread, IInv, TypeOK, SetupIsAlone
<1> QED
  BY <1>1, <1>2, <1>3, <1>4, <1>5 DEF MainStep

LEMMA AppStepIInv == ASSUME IInv, AppStep PROVE IInv'
<1>1. CASE SetMemoryHandler \/ SetConsoleHandler \/ StubJumps
  <2>1. FramesInv'
    BY <1>1, FramesUntouched DEF SetMemoryHandler, SetConsoleHandler, StubJumps, AppIs
  <2>2. TypeOK'
    BY <1>1 DEF SetMemoryHandler, SetConsoleHandler, StubJumps, IInv, TypeOK
  <2>3. SetupIsAlone'
    BY <1>1 DEF SetMemoryHandler, SetConsoleHandler, StubJumps, AppIs, IInv, SetupIsAlone
  <2> QED
    BY <2>1, <2>2, <2>3 DEF IInv
<1>2. CASE ProgramTraps
  <2>1. PICK k \in TrapKinds : Push("app", Frame("SEGV", "program", k))
    BY <1>2 DEF ProgramTraps
  <2>2. Len(frames["app"]) = 0 /\ appAt = "program" /\ "program" \in Regions /\ "app" \in Threads
    BY <1>2, EmptySeq DEF ProgramTraps, AppIs, Active, Regions, Threads
  <2>3. FramesInv' /\ frames' \in [Threads -> Seq(FrameType)]
    BY <1>2, <2>1, <2>2, PushKeepsFrames DEF ProgramTraps
  <2>4. traps' = traps + 1 /\ traps \in 0 .. MaxTraps /\ traps < MaxTraps
    BY <1>2 DEF ProgramTraps, IInv, TypeOK, SetupIsAlone
  <2>5. traps' \in 0 .. MaxTraps
    BY <2>4, SignalDispatchAssumption
  <2> QED
    BY ZenonT(60), <1>2, <2>3, <2>5 DEF ProgramTraps, IInv, TypeOK, SetupIsAlone
<1> QED
  BY <1>1, <1>2 DEF AppStep

LEMMA InterruptIInv ==
  ASSUME IInv, NEW t \in Threads, ConsoleInterrupt(t) PROVE IInv'
<1>1. PICK r \in CodeRegions(t) : Push(t, Frame("INT", r, "unsupported"))
  BY DEF ConsoleInterrupt
<1>2. r \in Regions
  BY DEF CodeRegions, Regions
<1>3. t = "app" => appAt # "unborn"
  BY DEF ConsoleInterrupt, Interruptible
<1>4. FramesInv' /\ frames' \in [Threads -> Seq(FrameType)]
  BY <1>1, <1>2, <1>3, PushKeepsFrames DEF ConsoleInterrupt, TrapKinds
<1>5. sigints' = sigints + 1 /\ sigints \in 0 .. MaxInts /\ sigints < MaxInts
  BY DEF ConsoleInterrupt, IInv, TypeOK, SetupIsAlone
<1>6. sigints' \in 0 .. MaxInts
  BY <1>5, SignalDispatchAssumption
<1> QED
  BY ZenonT(60), <1>4, <1>6 DEF ConsoleInterrupt, IInv, TypeOK, SetupIsAlone

\* An advance that does not make a frame one of a service leaves the count valid.
LEMMA CountedUnderUpdate ==
  ASSUME IInv, NEW t \in Threads, Active(t), NEW f \in FrameType, Update(t, f),
         mReenterCount' = mReenterCount, Serving(f) => Serving(Top(t))
  PROVE  Counted'
<1>1. Len(frames[t]) \in Nat \ {0}
  BY TopIsFrame DEF IInv
<1>2. Len(frames[t]) \in 1 .. Len(frames[t])
  BY <1>1
<1>3. /\ \A u \in Threads : Len(frames'[u]) = Len(frames[u])
      /\ \A u \in Threads : \A i \in 1 .. Len(frames[u]) :
            frames'[u][i] = IF u = t /\ i = Len(frames[t]) THEN f ELSE frames[u][i]
  BY UpdateEffect DEF IInv
<1> QED
  BY <1>2, <1>3 DEF Counted, IInv, FramesInv, Top

\* A frame that moves on to another place, before the guard or after it.
LEMMA GotoIInv ==
  ASSUME IInv, NEW t \in Threads, Active(t), NEW pc \in HandlerPcs, NEW b \in BOOLEAN,
         Update(t, [Top(t) EXCEPT !.pc = pc, !.stub = b]),
         UNCHANGED <<mainAt, appAt, mReenterCount, handlerSet, result, process, sigints,
                     traps, faults>>,
         heapOwner' \in Threads \cup {"none"},
         pc \notin {"guard", "decStore"},
         pc \in ServicePcs => Top(t).kind = "service",
         pc \notin EntryPcs => Top(t).pc \in {"dispatch", "handler"} \cup ServicePcs,
         Serving([Top(t) EXCEPT !.pc = pc, !.stub = b]) => Serving(Top(t))
  PROVE  IInv'
<1> DEFINE f == [Top(t) EXCEPT !.pc = pc, !.stub = b]
<1>1. Top(t) \in FrameType
  BY TopIsFrame DEF IInv
<1>2. f \in FrameType /\ f.sig = Top(t).sig /\ f.region = Top(t).region
      /\ f.kind = Top(t).kind /\ f.pc = pc
  BY <1>1 DEF FrameType
<1> HIDE DEF f
<1>3. Update(t, f)
  BY DEF f
<1>4. Serving(f) => Serving(Top(t))
  BY DEF f
<1>5. Counted'
  BY <1>2, <1>3, <1>4, CountedUnderUpdate
<1>6. pc \notin EntryPcs => Top(t).pc \notin EntryPcs
  BY DEF EntryPcs, ServicePcs
<1>7. FramesInv'
  BY <1>2, <1>3, <1>5, <1>6, UpdateKeepsFrames
<1>8. frames' \in [Threads -> Seq(FrameType)]
  BY <1>2, <1>3, UpdateEffect DEF IInv
<1>9. TypeOK'
  BY ZenonT(60), <1>8 DEF IInv, TypeOK
<1> QED
  BY <1>7, <1>9 DEF IInv, SetupIsAlone

LEMMA HandlerStepIInv ==
  ASSUME IInv, NEW t \in Threads, HandlerStep(t) PROVE IInv'
<1> DEFINE n == Len(frames[t])
<1>1. Active(t)
  BY DEF HandlerStep, HandlerAdvances, AllocContext, ContextAllocated, LoadCount, Guard, Refuse,
         Dispatch,
         HandleInterrupt, HandleUnsupported, HandleExit, HandleHostError,
         HandleBadPointer, HandleService, ServiceReleasesHeap, StackOverrun, EmitStub,
         LoadForDecrement, Decrement, FreeContext, Return, InHandler, At
<1>2. n \in Nat \ {0} /\ Top(t) \in FrameType
  BY <1>1, TopIsFrame DEF IInv
<1>3. n \in 1 .. n /\ Top(t) = frames[t][n]
  BY <1>2 DEF Top
<1>4. frames \in [Threads -> Seq(FrameType)]
  BY DEF IInv, TypeOK
<1>5. Top(t).pc \in ServicePcs => Top(t).kind = "service"
  BY <1>3 DEF IInv, FramesInv, OnlyServicesResume
<1>6. Top(t).kind # "unsupported" =>
         /\ t = "app" /\ n = 1 /\ appAt # "unborn" /\ mainAt \notin {"start", "setup"}
         /\ Top(t).sig = "SEGV" /\ Top(t).region = "program"
  <2>1. Top(t).kind # "unsupported" =>
           t = "app" /\ n = 1 /\ Top(t).sig = "SEGV" /\ Top(t).region = "program"
    <3>1. \A i \in 1 .. Len(frames[t]) :
             frames[t][i].kind # "unsupported" =>
                t = "app" /\ i = 1 /\ frames[t][i].sig = "SEGV" /\ frames[t][i].region = "program"
      BY DEF IInv, FramesInv, CallsAreFirst
    <3> QED
      BY <1>3, <3>1
  <2>2. t = "app" => appAt # "unborn"
    BY <1>1 DEF Active, IInv, FramesInv, UnbornIsIdle
  <2>3. appAt # "unborn" => mainAt \notin {"start", "setup"}
    BY DEF IInv, SetupIsAlone
  <2> QED
    BY <2>1, <2>2, <2>3
<1>7. heapOwner \in Threads \cup {"none"}
  BY DEF IInv, TypeOK
<1>c. mReenterCount \in Nat /\ faults \in Nat
  BY DEF IInv, TypeOK
<1>8. \A pc \in HandlerPcs :
         [Top(t) EXCEPT !.pc = pc] = [Top(t) EXCEPT !.pc = pc, !.stub = Top(t).stub]
  BY <1>2 DEF FrameType
<1>9. Top(t).stub \in BOOLEAN
  BY <1>2 DEF FrameType
<1>10. ASSUME NEW pc \in HandlerPcs, NEW b \in BOOLEAN
       PROVE  Serving([Top(t) EXCEPT !.pc = pc, !.stub = b]) <=>
                 /\ Top(t).sig = "SEGV"
                 /\ pc \in {"dispatch", "handler", "serviceHeld", "served", "decLoad",
                            "decStore"}
  BY <1>2 DEF Serving, FrameType
<1>g. ASSUME NEW pc \in HandlerPcs, Goto(t, pc)
      PROVE  Update(t, [Top(t) EXCEPT !.pc = pc, !.stub = Top(t).stub])
  BY <1>8, <1>g DEF Goto
<1>e. ASSUME Push(t, Frame("SEGV", "null", "unsupported")), faults' = faults + 1,
             UNCHANGED <<mainAt, appAt, mReenterCount, handlerSet, heapOwner, result,
                         process, sigints, traps>>
      PROVE  IInv'
  <2>1. "null" \in Regions /\ "unsupported" \in TrapKinds /\ (t = "app" => appAt # "unborn")
    BY <1>1 DEF Regions, TrapKinds, Active, IInv, FramesInv, UnbornIsIdle
  <2>2. FramesInv' /\ frames' \in [Threads -> Seq(FrameType)]
    BY <1>e, <2>1, PushKeepsFrames
  <2>3. faults' \in Nat
    BY <1>c, <1>e
  <2> QED
    BY ZenonT(60), <1>e, <2>2, <2>3 DEF IInv, TypeOK, SetupIsAlone
<1>f. ASSUME NEW r \in {"emulator", "library"}, Push(t, Frame("SEGV", r, "unsupported")),
             t = "app", n = 1, Serving(frames["app"][1]), faults' = faults + 1,
             UNCHANGED <<mainAt, appAt, mReenterCount, handlerSet, heapOwner, result,
                         process, sigints, traps>>
      PROVE  IInv'
  <2>1. r \in Regions /\ "unsupported" \in TrapKinds /\ (t = "app" => appAt # "unborn")
    BY <1>1 DEF Regions, TrapKinds, Active, IInv, FramesInv, UnbornIsIdle
  <2>2. FramesInv' /\ frames' \in [Threads -> Seq(FrameType)]
    BY <1>f, <2>1, PushKeepsFrames
  <2>3. faults' \in Nat
    BY <1>c, <1>f
  <2> QED
    BY ZenonT(60), <1>f, <2>2, <2>3 DEF IInv, TypeOK, SetupIsAlone
<1>11. CASE AllocContext(t) \/ ContextAllocated(t)
  <2>1. PICK pc \in {"infoHeld", "load"} : Goto(t, pc)
    BY <1>11 DEF AllocContext, ContextAllocated
  <2>2. pc \in HandlerPcs /\ pc \notin {"guard", "decStore"} /\ pc \notin ServicePcs
        /\ pc \in EntryPcs
    BY DEF HandlerPcs, ServicePcs, EntryPcs
  <2>3. Update(t, [Top(t) EXCEPT !.pc = pc, !.stub = Top(t).stub])
    BY <1>g, <2>1, <2>2
  <2>4. ~Serving([Top(t) EXCEPT !.pc = pc, !.stub = Top(t).stub])
    BY <1>9, <1>10, <2>2
  <2>5. heapOwner' \in Threads \cup {"none"}
    BY <1>11 DEF AllocContext, ContextAllocated
  <2> QED
    BY <1>1, <1>9, <1>11, <2>2, <2>3, <2>4, <2>5, GotoIInv DEF AllocContext, ContextAllocated
<1>12. CASE HandleService(t) \/ ServiceReleasesHeap(t) \/ FreeContext(t)
  <2>1. PICK pc \in {"served", "serviceHeld", "deleteHeld"} :
           Goto(t, pc) /\ (pc = "deleteHeld" <=> Top(t).pc = "delete")
    <3>1. CASE HandleService(t)
      BY <3>1 DEF HandleService, InHandler, At
    <3>2. CASE ServiceReleasesHeap(t)
      BY <3>2 DEF ServiceReleasesHeap, At
    <3>3. CASE FreeContext(t)
      BY <3>3 DEF FreeContext, At
    <3> QED
      BY <1>12, <3>1, <3>2, <3>3
  <2>2. pc \in HandlerPcs /\ pc \notin {"guard", "decStore"}
    BY DEF HandlerPcs
  <2>3. /\ Top(t).pc \in {"handler", "serviceHeld", "delete"}
        /\ Top(t).kind = "service"
    BY <1>5, <1>12, <2>1
       DEF HandleService, ServiceReleasesHeap, FreeContext, InHandler, At, ServicePcs
  <2>4. Update(t, [Top(t) EXCEPT !.pc = pc, !.stub = Top(t).stub])
    BY <1>g, <2>1, <2>2
  <2>5. Serving([Top(t) EXCEPT !.pc = pc, !.stub = Top(t).stub]) => Serving(Top(t))
    BY <1>9, <1>10, <2>1, <2>2, <2>3 DEF Serving
  <2>6. heapOwner' \in Threads \cup {"none"}
    BY <1>7, <1>12 DEF HandleService, ServiceReleasesHeap, FreeContext
  <2>7. Top(t).pc \in {"dispatch", "handler"} \cup ServicePcs
    BY <2>3 DEF ServicePcs
  <2>8. UNCHANGED <<mainAt, appAt, mReenterCount, handlerSet, result, process, sigints,
                    traps, faults>>
    BY <1>12 DEF HandleService, ServiceReleasesHeap, FreeContext
  <2> QED
    BY <1>1, <1>9, <2>2, <2>3, <2>4, <2>5, <2>6, <2>7, <2>8, GotoIInv
<1>13. CASE EmitStub(t)
  <2>1. PICK b \in BOOLEAN : Update(t, [Top(t) EXCEPT !.pc = "decLoad", !.stub = b])
    BY <1>13 DEF EmitStub
  <2>2. Top(t).pc = "served" /\ Top(t).kind = "service"
    BY <1>5, <1>13 DEF EmitStub, At, ServicePcs
  <2>3. "decLoad" \in HandlerPcs
    BY DEF HandlerPcs
  <2>4. Serving([Top(t) EXCEPT !.pc = "decLoad", !.stub = b]) => Serving(Top(t))
    BY <1>10, <2>2, <2>3 DEF Serving
  <2>5. Top(t).pc \in {"dispatch", "handler"} \cup ServicePcs
    BY <2>2 DEF ServicePcs
  <2> QED
    BY <1>1, <1>7, <1>13, <2>1, <2>2, <2>3, <2>4, <2>5, GotoIInv DEF EmitStub
<1>14. CASE LoadCount(t) \/ LoadForDecrement(t)
  <2>1. PICK pc \in {"guard", "decStore"} :
           /\ Update(t, [Top(t) EXCEPT !.pc = pc, !.reg = mReenterCount])
           /\ pc = "guard" <=> Top(t).pc = "load"
    BY <1>14 DEF LoadCount, LoadForDecrement, At
  <2> DEFINE f == [Top(t) EXCEPT !.pc = pc, !.reg = mReenterCount]
  <2>2. f \in FrameType /\ f.sig = Top(t).sig /\ f.region = Top(t).region
        /\ f.kind = Top(t).kind /\ f.pc = pc /\ f.reg = mReenterCount
    BY <1>2, <1>c DEF FrameType, HandlerPcs
  <2> HIDE DEF f
  <2>3. /\ pc = "decStore" => Top(t).pc = "decLoad" /\ Top(t).kind = "service"
                              /\ Top(t).sig = "SEGV"
        /\ UNCHANGED <<mainAt, appAt, mReenterCount, handlerSet, heapOwner, result, process,
                       sigints, traps, faults>>
    BY <1>5, <1>6, <1>14, <2>1 DEF LoadCount, LoadForDecrement, At, ServicePcs
  <2>4. pc = "decStore" => Serving(Top(t)) /\ mReenterCount >= 1
    <3>1. Serving(Top(t)) => mReenterCount >= 1
      BY <1>3 DEF IInv, FramesInv, Counted
    <3> QED
      BY <2>3, <3>1 DEF Serving
  <2>5. Counted'
    <3>1. Serving(f) => Serving(Top(t))
      BY <2>2, <2>4 DEF Serving
    <3> QED
      BY <1>1, <2>1, <2>2, <2>3, <3>1, CountedUnderUpdate DEF f
  <2>6. FramesInv'
    <3>1. f.pc \notin EntryPcs => Top(t).pc \notin EntryPcs
      BY <2>1, <2>2, <2>3 DEF EntryPcs
    <3>2. f.pc \in ServicePcs => f.kind = "service"
      BY <2>1, <2>2, <2>3 DEF ServicePcs
    <3>3. Update(t, f)
      BY <2>1 DEF f
    <3> QED
      BY <1>1, <2>2, <2>3, <2>4, <2>5, <3>1, <3>2, <3>3, UpdateKeepsFrames
  <2>7. frames' \in [Threads -> Seq(FrameType)]
    BY <1>1, <2>1, <2>2, UpdateEffect DEF IInv, f
  <2>8. TypeOK' /\ SetupIsAlone'
    BY ZenonT(60), <2>3, <2>7 DEF IInv, TypeOK, SetupIsAlone
  <2> QED
    BY <2>6, <2>8 DEF IInv
<1>15. CASE Guard(t)
  <2> DEFINE pc == IF Refused(Top(t)) THEN "refused" ELSE "dispatch"
             f == [Top(t) EXCEPT !.pc = pc]
  <2>1. f \in FrameType /\ f.sig = Top(t).sig /\ f.region = Top(t).region
        /\ f.kind = Top(t).kind /\ f.pc = pc
    BY <1>2 DEF FrameType, HandlerPcs
  <2> HIDE DEF f
  <2>2. Update(t, f) /\ mReenterCount' = Top(t).reg + 1 /\ Top(t).pc = "guard"
    BY <1>15 DEF Guard, Goto, f, At
  <2>3. Top(t).reg \in Nat
    BY <1>2 DEF FrameType
  <2>4. mReenterCount' \in Nat /\ mReenterCount' >= 1
    BY <2>2, <2>3
  <2>5. Counted'
    BY <2>4 DEF Counted
  <2>6. /\ f.pc \notin EntryPcs => ~Refused(Top(t))
        /\ f.pc \notin ServicePcs /\ f.pc \notin {"guard", "decStore"}
    BY <2>1 DEF EntryPcs, ServicePcs
  <2>7. FramesInv'
    BY <1>1, <1>15, <2>1, <2>2, <2>5, <2>6, UpdateKeepsFrames DEF Guard
  <2>8. frames' \in [Threads -> Seq(FrameType)]
    BY <1>1, <2>1, <2>2, UpdateEffect DEF IInv
  <2> QED
    BY ZenonT(60), <1>15, <2>4, <2>7, <2>8 DEF Guard, IInv, TypeOK, SetupIsAlone
<1>16. CASE Decrement(t)
  <2> DEFINE f == [Top(t) EXCEPT !.pc = "delete"]
  <2>1. f \in FrameType /\ f.sig = Top(t).sig /\ f.region = Top(t).region
        /\ f.kind = Top(t).kind /\ f.pc = "delete"
    BY <1>2 DEF FrameType, HandlerPcs
  <2> HIDE DEF f
  <2>2. Update(t, f) /\ mReenterCount' = Top(t).reg - 1 /\ Top(t).pc = "decStore"
    BY <1>16 DEF Decrement, Goto, f, At
  <2>3. Top(t).reg \in Nat /\ Top(t).reg >= 1
    <3>1. Top(t).reg >= 1
      BY <1>3, <2>2 DEF IInv, FramesInv, DecrementsPositive
    <3> QED
      BY <1>2, <3>1 DEF FrameType
  <2>4. mReenterCount' \in Nat
    BY <2>2, <2>3
  <2>5. Serving(Top(t)) /\ Top(t).kind = "service"
    BY <1>5, <1>6, <2>2 DEF Serving, ServicePcs
  <2>6. Counted'
    <3>1. \A u \in Threads : \A i \in 1 .. Len(frames[u]) :
             Serving(frames[u][i]) => u = t /\ i = n
      BY <1>3, <2>5, OneServing
    <3>2. /\ \A u \in Threads : Len(frames'[u]) = Len(frames[u])
          /\ \A u \in Threads : \A i \in 1 .. Len(frames[u]) :
                frames'[u][i] = IF u = t /\ i = n THEN f ELSE frames[u][i]
      BY <1>1, <2>1, <2>2, UpdateEffect DEF IInv
    <3>3. ~Serving(f)
      BY <2>1 DEF Serving
    <3> QED
      BY <3>1, <3>2, <3>3 DEF Counted
  <2>7. FramesInv'
    BY <1>1, <1>16, <2>1, <2>2, <2>5, <2>6, UpdateKeepsFrames DEF Decrement, EntryPcs
  <2>8. frames' \in [Threads -> Seq(FrameType)]
    BY <1>1, <2>1, <2>2, UpdateEffect DEF IInv
  <2> QED
    BY ZenonT(60), <1>16, <2>4, <2>7, <2>8 DEF Decrement, IInv, TypeOK, SetupIsAlone
<1>17. CASE Dispatch(t)
  <2>1. CASE Top(t).sig \in handlerSet
    <3>1. Goto(t, "handler") /\ Top(t).pc = "dispatch"
      BY <1>17, <2>1 DEF Dispatch, At
    <3>2. "handler" \in HandlerPcs /\ "handler" \notin ServicePcs
      BY DEF HandlerPcs, ServicePcs
    <3>3. Update(t, [Top(t) EXCEPT !.pc = "handler", !.stub = Top(t).stub])
      BY <1>g, <3>1, <3>2
    <3>4. Serving([Top(t) EXCEPT !.pc = "handler", !.stub = Top(t).stub]) => Serving(Top(t))
      BY <1>9, <1>10, <3>1, <3>2 DEF Serving
    <3>5. UNCHANGED <<mainAt, appAt, mReenterCount, handlerSet, result, process, sigints,
                      traps, faults>> /\ heapOwner' = heapOwner
      BY <1>17, <2>1 DEF Dispatch
    <3> QED
      BY <1>1, <1>7, <1>9, <3>1, <3>2, <3>3, <3>4, <3>5, GotoIInv
  <2>2. CASE Top(t).sig \notin handlerSet
    <3>1. Push(t, Frame("SEGV", "null", "unsupported")) /\ faults' = faults + 1
          /\ UNCHANGED <<mainAt, appAt, mReenterCount, handlerSet, heapOwner, result,
                         process, sigints, traps>>
      BY <1>17, <2>2 DEF Dispatch
    <3> QED
      BY <1>e, <3>1
  <2> QED
    BY <2>1, <2>2
<1>18. CASE HandleBadPointer(t)
  <2>1. PICK r \in {"emulator", "library"} : Push(t, Frame("SEGV", r, "unsupported"))
    BY <1>18 DEF HandleBadPointer
  <2>2. Top(t).pc = "handler" /\ Top(t).kind = "badPointer"
    BY <1>18 DEF HandleBadPointer, InHandler, At
  <2>3. t = "app" /\ n = 1 /\ Top(t).sig = "SEGV"
    BY <1>6, <2>2
  <2>4. Serving(frames["app"][1])
    BY <1>3, <2>2, <2>3 DEF Serving
  <2> QED
    BY <1>18, <1>f, <2>1, <2>3, <2>4 DEF HandleBadPointer
<1>19. CASE \/ Refuse(t) \/ HandleInterrupt(t) \/ HandleUnsupported(t)
            \/ HandleHostError(t) \/ StackOverrun(t)
  <2>1. UNCHANGED <<mainAt, appAt, frames, mReenterCount, handlerSet, heapOwner, result,
                    sigints, traps, faults>>
    BY <1>19 DEF Refuse, HandleInterrupt, HandleUnsupported, HandleHostError, StackOverrun
  <2>2. process' \in [how : {"running", "exit", "signal", "abort"}, status : Nat,
                      verdict : {"none", "usage", "exception", "program", "interrupt",
                                 "unsupported", "bad access", "overrun"}]
    <3>1. CASE HandleHostError(t)
      BY <3>1 DEF HandleHostError
    <3>2. CASE \/ Exit(t, 3, "bad access") \/ Exit(t, 3, "interrupt")
               \/ Exit(t, 2, "unsupported") \/ Exit(t, 3, "overrun")
      BY <3>2, ExitType
    <3> QED
      BY <1>19, <3>1, <3>2 DEF Refuse, HandleInterrupt, HandleUnsupported, StackOverrun
  <2>3. FramesInv'
    BY <2>1, FramesUntouched
  <2> QED
    BY <2>1, <2>2, <2>3 DEF IInv, TypeOK, SetupIsAlone
<1>20. CASE HandleExit(t)
  <2>1. t = "app" /\ mainAt \notin {"start", "setup"}
    BY <1>6, <1>20 DEF HandleExit, InHandler
  <2>2. frames' = [frames EXCEPT !["app"] = <<>>] /\ appAt' = "exited" /\ result' \in ExitCodes
        /\ UNCHANGED <<mainAt, mReenterCount, handlerSet, heapOwner, process, sigints, traps,
                       faults>>
    BY <1>20, <2>1 DEF HandleExit
  <2>3. /\ frames'["app"] = <<>> /\ Len(frames'["app"]) = 0
        /\ frames'["main"] = frames["main"]
        /\ frames' \in [Threads -> Seq(FrameType)]
    BY <1>4, <2>2, EmptySeq DEF Threads
  <2>4. CallsAreFirst' /\ OnlyServicesResume' /\ NullIsRefused' /\ DecrementsPositive'
    BY <2>3 DEF IInv, FramesInv, CallsAreFirst, OnlyServicesResume, NullIsRefused,
                DecrementsPositive, Threads
  <2>5. FaultsNest'
    <3>1. appAt # "unborn"
      BY <1>6, <1>20 DEF HandleExit, InHandler
    <3> QED
      BY <2>3, <3>1 DEF IInv, FramesInv, FaultsNest, Threads
  <2>6. UnbornIsIdle' /\ Counted'
    BY <2>2, <2>3 DEF IInv, FramesInv, UnbornIsIdle, Counted, Threads
  <2> QED
    BY <2>1, <2>2, <2>3, <2>4, <2>5, <2>6 DEF IInv, TypeOK, FramesInv, SetupIsAlone
<1>21. CASE Return(t)
  <2>1. t = "app" /\ mainAt \notin {"start", "setup"} /\ n = 1 /\ appAt # "unborn"
    BY <1>5, <1>6, <1>21 DEF Return, At, ServicePcs
  <2>2. Pop(t) /\ appAt' = (IF Top(t).stub THEN "stub" ELSE appAt) /\ heapOwner' = "none"
        /\ UNCHANGED <<mainAt, mReenterCount, handlerSet, result, process, sigints, traps,
                       faults>>
    BY <1>21 DEF Return
  <2>3. /\ Len(frames'["app"]) = 0
        /\ Len(frames'["main"]) = Len(frames["main"])
        /\ \A i \in 1 .. Len(frames["main"]) : frames'["main"][i] = frames["main"][i]
        /\ frames' \in [Threads -> Seq(FrameType)]
    <3>1. /\ frames' \in [Threads -> Seq(FrameType)]
          /\ \A u \in Threads :
                Len(frames'[u]) = IF u = t THEN Len(frames[u]) - 1 ELSE Len(frames[u])
          /\ \A u \in Threads : \A i \in 1 .. Len(frames'[u]) : frames'[u][i] = frames[u][i]
      BY <1>1, <2>2, PopEffect DEF IInv
    <3>a. Len(frames'[t]) = n - 1
      BY <3>1
    <3>b. n - 1 = 0
      BY <2>1
    <3>2. Len(frames'["app"]) = 0
      BY <2>1, <3>a, <3>b
    <3>3. "main" \in Threads /\ "main" # t
      BY <2>1 DEF Threads
    <3> QED
      BY <3>1, <3>2, <3>3
  <2>4. appAt' # "unborn"
    BY <2>1, <2>2
  <2>5. CallsAreFirst' /\ OnlyServicesResume' /\ NullIsRefused' /\ DecrementsPositive'
    <3>1. CallsAreFirst'
      BY <2>3 DEF IInv, FramesInv, CallsAreFirst, Threads
    <3>2. OnlyServicesResume'
      BY <2>3 DEF IInv, FramesInv, OnlyServicesResume, Threads
    <3>3. NullIsRefused'
      BY <2>3 DEF IInv, FramesInv, NullIsRefused, Threads
    <3>4. DecrementsPositive'
      BY <2>3 DEF IInv, FramesInv, DecrementsPositive, Threads
    <3> QED
      BY <3>1, <3>2, <3>3, <3>4
  <2>6. FaultsNest'
    BY <2>1, <2>3 DEF IInv, FramesInv, FaultsNest, Threads
  <2>7. UnbornIsIdle' /\ Counted'
    BY <2>2, <2>3, <2>4 DEF IInv, FramesInv, UnbornIsIdle, Counted, Threads
  <2> QED
    BY <2>1, <2>2, <2>3, <2>4, <2>5, <2>6, <2>7 DEF IInv, TypeOK, FramesInv, SetupIsAlone
<1> QED
  BY <1>11, <1>12, <1>13, <1>14, <1>15, <1>16, <1>17, <1>18, <1>19, <1>20, <1>21
     DEF HandlerStep, HandlerAdvances

\* Every step keeps the inductive invariant.
LEMMA NextIInv == IInv /\ [Next]_vars => IInv'
<1> SUFFICES ASSUME IInv, [Next]_vars PROVE IInv'
  OBVIOUS
<1>1. CASE UNCHANGED vars
  <2>1. FramesInv'
    BY <1>1, FramesUntouched DEF vars
  <2> QED
    BY ZenonT(60), <1>1, <2>1 DEF vars, IInv, TypeOK, SetupIsAlone
<1> QED
  BY <1>1, MainStepIInv, AppStepIInv, HandlerStepIInv, InterruptIInv DEF Next

\* Every variable of the two threads and their handler has its type; mReenterCount
\* of the exception manager never goes below 0, where the unsigned word would wrap.
THEOREM TypeCorrect == Spec => []TypeOK
<1>1. IInv => TypeOK
  BY DEF IInv
<1> QED
  BY <1>1, InitIInv, NextIInv, PTL DEF Spec

\* A service that runs is counted, whatever signals come between the load and the
\* store of ++mReenterCount and mReenterCount--.
THEOREM RunningServiceIsCounted == Spec => []ServiceIsCounted
<1>1. IInv => ServiceIsCounted
  BY DEF IInv, FramesInv, Counted, ServiceIsCounted, ServingFrames
<1> QED
  BY <1>1, InitIInv, NextIInv, PTL DEF Spec

\* The guard of signalHandler lets one memory exception at a time through, on the two
\* threads together.
THEOREM OneServiceAtATime == Spec => []ServicesNeverOverlap
<1>1. IInv => ServicesNeverOverlap
  <2> SUFFICES ASSUME IInv PROVE ServicesNeverOverlap
    OBVIOUS
  <2>1. \A p, q \in ServingFrames : p = q
    BY OneServing DEF ServingFrames
  <2>2. CASE ServingFrames = {}
    BY <2>2, FS_EmptySet DEF ServicesNeverOverlap
  <2>3. CASE ServingFrames # {}
    <3>1. PICK p : ServingFrames = {p}
      BY <2>1, <2>3
    <3> QED
      BY <3>1, FS_Singleton DEF ServicesNeverOverlap
  <2> QED
    BY <2>2, <2>3
<1> QED
  BY <1>1, InitIInv, NextIInv, PTL DEF Spec

-----------------------------------------------------------------------------
(* The guard does not refuse what it should not.                            *)

\* Nobody pressed ^C, no code of the emulator made a bad access, and the program is
\* above the stub page.
Quiet == sigints = 0 /\ faults = 0 /\ "program" \notin LowRegions

\* The memory handler is registered before the program runs.
HandlerIsSet ==
    appAt \in {"setCon", "program", "stub", "exited"} => "SEGV" \in handlerSet

\* The trap the program waits for, if it waits for one.
QuietFrame(f) ==
    /\ f.sig = "SEGV" /\ f.region = "program"
    /\ f.pc # "refused"
    /\ f.pc = "guard" => f.reg = 0
    /\ f.pc = "decStore" => f.reg = 1

\* As long as it is quiet, the only frame there is handles a trap of the program, and
\* the counter says exactly whether it is past the guard.
QuietTrap ==
    /\ frames["main"] = <<>>
    /\ frames["app"] # <<>> =>
          appAt = "program" /\ Len(frames["app"]) = 1 /\ QuietFrame(frames["app"][1])
    /\ appAt # "exited" => mReenterCount = IF AppServes THEN 1 ELSE 0
    /\ process.verdict # "bad access"

QuietInv == Quiet => HandlerIsSet /\ QuietTrap

LEMMA InitQuiet == Init => QuietInv
  BY DEF Init, QuietInv, HandlerIsSet, QuietTrap, AppServes, Active, Threads

\* It has been quiet if it is quiet.
LEMMA QuietBefore == ASSUME IInv, IInv', Next, Quiet' PROVE Quiet
<1>1. faults \in Nat /\ sigints \in 0 .. MaxInts
  BY DEF IInv, TypeOK
<1>2. faults' = faults \/ faults' = faults + 1
  BY DEF Next, MainStep, MainStart, MainTakesHeap, MainReleasesHeap, SetupFails, SetupFaults,
         StartThread, Join, MainReturns, AppStep, SetMemoryHandler, SetConsoleHandler,
         ProgramTraps, StubJumps, HandlerStep, HandlerAdvances, AllocContext, ContextAllocated,
         LoadCount,
         Guard, Refuse, Dispatch, HandleInterrupt, HandleUnsupported, HandleExit,
         HandleHostError, HandleBadPointer, HandleService, ServiceReleasesHeap, StackOverrun,
         EmitStub,
         LoadForDecrement, Decrement, FreeContext, Return, ConsoleInterrupt
<1>3. sigints' = sigints \/ sigints' = sigints + 1
  BY DEF Next, MainStep, MainStart, MainTakesHeap, MainReleasesHeap, SetupFails, SetupFaults,
         StartThread, Join, MainReturns, AppStep, SetMemoryHandler, SetConsoleHandler,
         ProgramTraps, StubJumps, HandlerStep, HandlerAdvances, AllocContext, ContextAllocated,
         LoadCount,
         Guard, Refuse, Dispatch, HandleInterrupt, HandleUnsupported, HandleExit,
         HandleHostError, HandleBadPointer, HandleService, ServiceReleasesHeap, StackOverrun,
         EmitStub,
         LoadForDecrement, Decrement, FreeContext, Return, ConsoleInterrupt
<1>4. faults' = 0 /\ sigints' = 0 /\ "program" \notin LowRegions
  BY DEF Quiet
<1> QED
  BY <1>1, <1>2, <1>3, <1>4, SignalDispatchAssumption DEF Quiet

\* A service of the program that advances in the handler, when it is quiet.
LEMMA QuietUpdate ==
  ASSUME IInv, QuietTrap, Active("app"), NEW f \in FrameType, Update("app", f),
         QuietFrame(f), UNCHANGED <<appAt, process>>,
         mReenterCount' = IF Serving(f) THEN 1 ELSE 0
  PROVE  QuietTrap'
<1>1. Len(frames["app"]) = 1 /\ appAt = "program"
  BY DEF QuietTrap, Active
<1>2. /\ frames' \in [Threads -> Seq(FrameType)]
      /\ Len(frames'["app"]) = 1
      /\ frames'["app"][1] = f
  BY <1>1, UpdateEffect DEF IInv, Threads
<1>3. frames'["app"] # <<>>
  BY <1>2, EmptySeq
<1>4. frames'["main"] = <<>>
  BY DEF Update, QuietTrap, IInv, TypeOK, Threads
<1> QED
  BY <1>1, <1>2, <1>3, <1>4 DEF QuietTrap, AppServes, Active

LEMMA HandlerStepQuiet ==
  ASSUME IInv, HandlerIsSet, QuietTrap, Quiet, Quiet', IInv',
         NEW t \in Threads, HandlerStep(t)
  PROVE  HandlerIsSet' /\ QuietTrap'
<1>1. Active(t)
  BY DEF HandlerStep, HandlerAdvances, AllocContext, ContextAllocated, LoadCount, Guard, Refuse,
         Dispatch,
         HandleInterrupt, HandleUnsupported, HandleExit, HandleHostError,
         HandleBadPointer, HandleService, ServiceReleasesHeap, StackOverrun, EmitStub,
         LoadForDecrement, Decrement, FreeContext, Return, InHandler, At
<1>2. t = "app" /\ frames["app"] # <<>>
  BY <1>1 DEF Active, QuietTrap, Threads
<1>3. appAt = "program" /\ Len(frames["app"]) = 1 /\ QuietFrame(frames["app"][1])
  BY <1>2 DEF QuietTrap
<1>4. Top("app") = frames["app"][1] /\ Top("app") \in FrameType
  BY <1>1, <1>2, <1>3, TopIsFrame DEF IInv, Top, Threads
<1> DEFINE f == Top("app")
<1>5. mReenterCount = IF Serving(f) THEN 1 ELSE 0
  BY <1>2, <1>3, <1>4 DEF QuietTrap, AppServes, Active
<1>6. f.sig = "SEGV" /\ f.region = "program" /\ f.pc # "refused" /\ QuietFrame(f)
  BY <1>3, <1>4 DEF QuietFrame
<1>7. "SEGV" \in handlerSet
  BY <1>3 DEF HandlerIsSet
<1>8. Active("app") /\ "app" \in Threads
  BY <1>1, <1>2 DEF Threads
<1>9. ASSUME NEW pc \in HandlerPcs, pc \notin {"refused", "guard", "decStore"}, Goto(t, pc),
             UNCHANGED <<appAt, process>>,
             mReenterCount' = IF Serving([f EXCEPT !.pc = pc]) THEN 1 ELSE 0
      PROVE  QuietTrap'
  <2>1. [f EXCEPT !.pc = pc] \in FrameType /\ QuietFrame([f EXCEPT !.pc = pc])
    BY <1>4, <1>6, <1>9 DEF FrameType, QuietFrame
  <2>2. Update("app", [f EXCEPT !.pc = pc])
    BY <1>2, <1>9 DEF Goto
  <2> QED
    BY <1>8, <1>9, <2>1, <2>2, QuietUpdate
<1>10. ASSUME NEW pc \in HandlerPcs
       PROVE  Serving([f EXCEPT !.pc = pc]) <=>
                 pc \in {"dispatch", "handler", "serviceHeld", "served", "decLoad", "decStore"}
  BY <1>4, <1>6 DEF Serving, FrameType
<1>11. CASE AllocContext(t) \/ ContextAllocated(t)
  <2>1. PICK pc \in {"infoHeld", "load"} : Goto(t, pc)
    BY <1>11 DEF AllocContext, ContextAllocated
  <2>2. UNCHANGED <<appAt, handlerSet, process, mReenterCount>>
    BY <1>11 DEF AllocContext, ContextAllocated
  <2>3. f.pc \in {"info", "infoHeld"}
    BY <1>2, <1>11 DEF AllocContext, ContextAllocated, At
  <2>4. pc \in HandlerPcs /\ mReenterCount = 0
    BY <1>5, <2>3 DEF HandlerPcs, Serving
  <2> QED
    BY <1>9, <1>10, <2>1, <2>2, <2>4 DEF HandlerIsSet
<1>12. CASE HandleService(t) \/ ServiceReleasesHeap(t) \/ FreeContext(t)
  <2>1. PICK pc \in {"served", "serviceHeld", "deleteHeld"} :
           Goto(t, pc) /\ (pc = "deleteHeld" <=> f.pc = "delete")
    <3>1. CASE HandleService(t)
      BY <1>2, <3>1 DEF HandleService, InHandler, At
    <3>2. CASE ServiceReleasesHeap(t)
      BY <1>2, <3>2 DEF ServiceReleasesHeap, At
    <3>3. CASE FreeContext(t)
      BY <1>2, <3>3 DEF FreeContext, At
    <3> QED
      BY <1>12, <3>1, <3>2, <3>3
  <2>2. UNCHANGED <<appAt, handlerSet, process, mReenterCount>>
    BY <1>12 DEF HandleService, ServiceReleasesHeap, FreeContext
  <2>3. f.pc \in {"handler", "serviceHeld", "delete"} /\ pc \in HandlerPcs
    BY <1>2, <1>12 DEF HandleService, ServiceReleasesHeap, FreeContext, InHandler, At, HandlerPcs
  <2>4. mReenterCount = IF f.pc = "delete" THEN 0 ELSE 1
    BY <1>5, <1>6, <2>3 DEF Serving
  <2>5. mReenterCount' = IF Serving([f EXCEPT !.pc = pc]) THEN 1 ELSE 0
    BY <1>10, <2>1, <2>2, <2>3, <2>4
  <2>6. QuietTrap'
    BY <1>9, <2>1, <2>2, <2>3, <2>5
  <2> QED
    BY <2>2, <2>6 DEF HandlerIsSet
<1>13. CASE EmitStub(t)
  <2>1. PICK b \in BOOLEAN : Update("app", [f EXCEPT !.pc = "decLoad", !.stub = b])
    BY <1>2, <1>13 DEF EmitStub
  <2>2. [f EXCEPT !.pc = "decLoad", !.stub = b] \in FrameType
    BY <1>4 DEF FrameType, HandlerPcs
  <2>3. /\ QuietFrame([f EXCEPT !.pc = "decLoad", !.stub = b])
        /\ Serving([f EXCEPT !.pc = "decLoad", !.stub = b])
    BY <1>4, <1>6 DEF FrameType, QuietFrame, Serving
  <2>4. f.pc = "served" /\ UNCHANGED <<appAt, handlerSet, process, mReenterCount>>
    BY <1>2, <1>13 DEF EmitStub, At
  <2>5. mReenterCount' = 1
    BY <1>5, <1>6, <2>4 DEF Serving
  <2>6. QuietTrap'
    BY <1>8, <2>1, <2>2, <2>3, <2>4, <2>5, QuietUpdate
  <2> QED
    BY <2>4, <2>6 DEF HandlerIsSet
<1>14. CASE LoadCount(t) \/ LoadForDecrement(t)
  <2>1. PICK pc \in {"guard", "decStore"} :
           /\ Update("app", [f EXCEPT !.pc = pc, !.reg = mReenterCount])
           /\ f.pc = IF pc = "guard" THEN "load" ELSE "decLoad"
    BY <1>2, <1>14 DEF LoadCount, LoadForDecrement, At
  <2>2. mReenterCount = IF pc = "guard" THEN 0 ELSE 1
    BY <1>5, <1>6, <2>1 DEF Serving
  <2> DEFINE g == [f EXCEPT !.pc = pc, !.reg = mReenterCount]
  <2>3. g \in FrameType
    BY <1>4, <2>2 DEF FrameType, HandlerPcs
  <2>4. g.sig = f.sig /\ g.region = f.region /\ g.pc = pc /\ g.reg = mReenterCount
    BY <1>4 DEF FrameType
  <2> HIDE DEF g
  <2>5. QuietFrame(g) /\ (Serving(g) <=> pc = "decStore")
    BY <1>6, <2>2, <2>4 DEF QuietFrame, Serving
  <2>6. UNCHANGED <<appAt, handlerSet, process, mReenterCount>>
    BY <1>14 DEF LoadCount, LoadForDecrement
  <2>7. QuietTrap'
    BY <1>8, <2>1, <2>2, <2>3, <2>5, <2>6, QuietUpdate DEF g
  <2> QED
    BY <2>6, <2>7 DEF HandlerIsSet
<1>15. CASE Guard(t)
  <2>1. f.pc = "guard" /\ f.reg = 0 /\ mReenterCount' = f.reg + 1
    BY <1>2, <1>6, <1>15 DEF Guard, At, QuietFrame
  <2>2. ~Refused(f)
    BY <1>6, <2>1 DEF Refused, InStubRange, Quiet
  <2>3. Goto(t, "dispatch") /\ UNCHANGED <<appAt, handlerSet, process>>
    BY <1>2, <1>15, <2>2 DEF Guard
  <2>4. "dispatch" \in HandlerPcs /\ mReenterCount' = 1
    BY <2>1 DEF HandlerPcs
  <2>5. QuietTrap'
    BY <1>9, <1>10, <2>3, <2>4
  <2> QED
    BY <2>3, <2>5 DEF HandlerIsSet
<1>16. CASE Decrement(t)
  <2>1. f.pc = "decStore" /\ f.reg = 1 /\ mReenterCount' = f.reg - 1
    BY <1>2, <1>6, <1>16 DEF Decrement, At, QuietFrame
  <2>2. Goto(t, "delete") /\ UNCHANGED <<appAt, handlerSet, process>>
    BY <1>16 DEF Decrement
  <2>3. "delete" \in HandlerPcs /\ mReenterCount' = 0
    BY <2>1 DEF HandlerPcs
  <2>4. QuietTrap'
    BY <1>9, <1>10, <2>2, <2>3
  <2> QED
    BY <2>2, <2>4 DEF HandlerIsSet
<1>17. CASE Dispatch(t)
  <2>1. Goto(t, "handler") /\ UNCHANGED <<appAt, handlerSet, process, mReenterCount>>
    BY <1>2, <1>6, <1>7, <1>17 DEF Dispatch
  <2>2. f.pc = "dispatch" /\ "handler" \in HandlerPcs
    BY <1>2, <1>17 DEF Dispatch, At, HandlerPcs
  <2>3. mReenterCount' = 1
    BY <1>5, <1>6, <2>1, <2>2 DEF Serving
  <2>4. QuietTrap'
    BY <1>9, <1>10, <2>1, <2>2, <2>3
  <2> QED
    BY <2>1, <2>4 DEF HandlerIsSet
<1>18. CASE HandleBadPointer(t)
  <2>1. faults' = faults + 1 /\ faults = 0 /\ faults' = 0
    BY <1>18 DEF HandleBadPointer, Quiet
  <2> QED
    BY <2>1
<1>19. CASE Refuse(t) \/ HandleInterrupt(t)
  BY <1>2, <1>6, <1>19 DEF Refuse, HandleInterrupt, At
<1>20. CASE HandleUnsupported(t) \/ HandleHostError(t) \/ StackOverrun(t)
  <2>1. process'.verdict # "bad access"
    <3>1. CASE HandleUnsupported(t)
      BY <3>1, ExitVerdict DEF HandleUnsupported
    <3>2. CASE HandleHostError(t)
      BY <3>2 DEF HandleHostError
    <3>3. CASE StackOverrun(t)
      BY <3>3, ExitVerdict DEF StackOverrun
    <3> QED
      BY <1>20, <3>1, <3>2, <3>3
  <2>2. UNCHANGED <<appAt, frames, mReenterCount, handlerSet>>
    BY <1>20 DEF HandleUnsupported, HandleHostError, StackOverrun
  <2> QED
    BY <2>1, <2>2 DEF HandlerIsSet, QuietTrap, AppServes, Active
<1>21. CASE HandleExit(t)
  <2>1. frames' = [frames EXCEPT !["app"] = <<>>] /\ appAt' = "exited"
        /\ UNCHANGED <<handlerSet, process>>
    BY <1>2, <1>21 DEF HandleExit
  <2>2. frames'["app"] = <<>> /\ frames'["main"] = <<>>
    BY <2>1 DEF QuietTrap, IInv, TypeOK, Threads
  <2> QED
    BY <1>7, <2>1, <2>2 DEF HandlerIsSet, QuietTrap
<1>22. CASE Return(t)
  <2>1. Pop("app") /\ appAt' \in {"stub", "program"} /\ UNCHANGED <<handlerSet, process, mReenterCount>>
    BY <1>2, <1>3, <1>22 DEF Return
  <2>2. f.pc = "deleteHeld"
    BY <1>2, <1>22 DEF Return, At
  <2>3. mReenterCount' = 0
    BY <1>5, <2>1, <2>2 DEF Serving
  <2>4. frames'["app"] = <<>>
    <3>1. /\ frames' \in [Threads -> Seq(FrameType)]
          /\ Len(frames'["app"]) = Len(frames["app"]) - 1
      BY <1>8, <2>1, PopEffect DEF IInv
    <3>2. Len(frames'["app"]) = 0 /\ frames'["app"] \in Seq(FrameType)
      BY <1>3, <1>8, <3>1
    <3> QED
      BY <3>2, EmptySeq
  <2>5. frames'["main"] = <<>>
    BY <2>1 DEF Pop, QuietTrap, IInv, TypeOK, Threads
  <2> QED
    BY <1>7, <2>1, <2>3, <2>4, <2>5 DEF HandlerIsSet, QuietTrap, AppServes, Active
<1> QED
  BY <1>11, <1>12, <1>13, <1>14, <1>15, <1>16, <1>17, <1>18, <1>19, <1>20, <1>21, <1>22
     DEF HandlerStep, HandlerAdvances

\* A step outside the handler.
LEMMA OutsideStepQuiet ==
  ASSUME IInv, HandlerIsSet, QuietTrap, Quiet, Quiet', IInv', MainStep \/ AppStep
  PROVE  HandlerIsSet' /\ QuietTrap'
<1>1. CASE SetupFaults
  <2>1. faults' = faults + 1 /\ faults = 0 /\ faults' = 0
    BY <1>1 DEF SetupFaults, Quiet
  <2> QED
    BY <2>1
<1>2. CASE MainStart \/ MainTakesHeap \/ MainReleasesHeap \/ SetupFails \/ Join \/ MainReturns
  <2>1. UNCHANGED <<appAt, frames, mReenterCount, handlerSet>>
    BY <1>2 DEF MainStart, MainTakesHeap, MainReleasesHeap, SetupFails, Join, MainReturns
  <2>2. process'.verdict # "bad access"
    <3>1. CASE UNCHANGED process
      BY <3>1 DEF QuietTrap
    <3>2. CASE \/ Exit("main", 1, "usage")
               \/ Exit("main", 2, "exception")
               \/ Exit("main", result, "program")
      BY <3>2, ExitVerdict
    <3> QED
      BY <1>2, <3>1, <3>2
         DEF MainStart, MainTakesHeap, MainReleasesHeap, SetupFails, Join, MainReturns
  <2> QED
    BY <2>1, <2>2 DEF HandlerIsSet, QuietTrap, AppServes, Active
<1>3. CASE StartThread \/ SetMemoryHandler \/ SetConsoleHandler \/ StubJumps
  <2>1. UNCHANGED <<frames, mReenterCount, process>> /\ appAt # "exited"
        /\ frames["app"] = <<>>
    BY <1>3 DEF StartThread, SetMemoryHandler, SetConsoleHandler, StubJumps, AppIs, Active,
                MainIs, IInv, SetupIsAlone, FramesInv, UnbornIsIdle
  <2>2. HandlerIsSet'
    BY <1>3 DEF StartThread, SetMemoryHandler, SetConsoleHandler, StubJumps, AppIs,
                HandlerIsSet
  <2> QED
    BY <2>1, <2>2 DEF QuietTrap, AppServes, Active
<1>4. CASE ProgramTraps
  <2>1. PICK k \in TrapKinds : Push("app", Frame("SEGV", "program", k))
    BY <1>4 DEF ProgramTraps
  <2> DEFINE f == Frame("SEGV", "program", k)
  <2>2. f \in FrameType /\ QuietFrame(f) /\ ~Serving(f)
    BY DEF Frame, FrameType, QuietFrame, Serving, HandlerPcs, Regions
  <2> HIDE DEF f
  <2>3. frames["app"] = <<>> /\ Len(frames["app"]) = 0 /\ appAt = "program"
        /\ UNCHANGED <<appAt, mReenterCount, handlerSet, process>>
    BY <1>4, EmptySeq DEF ProgramTraps, AppIs, Active
  <2>4. /\ frames' \in [Threads -> Seq(FrameType)]
        /\ Len(frames'["app"]) = Len(frames["app"]) + 1
        /\ frames'["app"][Len(frames["app"]) + 1] = f
    BY <2>1, <2>2, PushEffect DEF IInv, Threads, f
  <2>5. Len(frames'["app"]) = 1 /\ frames'["app"][1] = f
    BY <2>3, <2>4
  <2>6. frames'["main"] = <<>>
    BY <2>1 DEF Push, QuietTrap, IInv, TypeOK, Threads
  <2>7. mReenterCount = 0
    BY <2>3 DEF QuietTrap, AppServes, Active
  <2>8. HandlerIsSet'
    BY <2>3 DEF HandlerIsSet
  <2>9. ~AppServes'
    BY <2>2, <2>5 DEF AppServes
  <2>10. QuietFrame(frames["app"][1])'
    BY <2>2, <2>5 DEF QuietFrame
  <2>11. process'.verdict # "bad access" /\ mReenterCount' = 0 /\ appAt' = "program"
    BY <2>3, <2>7 DEF QuietTrap
  <2> QED
    BY <2>5, <2>6, <2>8, <2>9, <2>10, <2>11 DEF QuietTrap
<1> QED
  BY <1>1, <1>2, <1>3, <1>4 DEF MainStep, AppStep

LEMMA NextQuiet == IInv /\ IInv' /\ QuietInv /\ [Next]_vars => QuietInv'
<1> SUFFICES ASSUME IInv, IInv', QuietInv, [Next]_vars, Quiet'
             PROVE  HandlerIsSet' /\ QuietTrap'
  BY DEF QuietInv
<1>1. CASE UNCHANGED vars
  BY <1>1 DEF vars, QuietInv, Quiet, HandlerIsSet, QuietTrap, AppServes, Active
<1>2. CASE Next
  <2>1. Quiet /\ HandlerIsSet /\ QuietTrap
    BY <1>2, QuietBefore DEF QuietInv
  <2>2. ASSUME NEW t \in Threads, ConsoleInterrupt(t) PROVE FALSE
    <3>1. sigints' = sigints + 1 /\ sigints = 0 /\ sigints' = 0
      BY <2>1, <2>2 DEF ConsoleInterrupt, Quiet
    <3> QED
      BY <3>1
  <2> QED
    BY <1>2, <2>1, <2>2, HandlerStepQuiet, OutsideStepQuiet DEF Next
<1> QED
  BY <1>1, <1>2

LEMMA SignalsAreCounted == IInv => sigints \in Nat /\ faults \in Nat
<1> SUFFICES ASSUME IInv PROVE sigints \in Nat /\ faults \in Nat
  OBVIOUS
<1>1. sigints \in 0 .. MaxInts /\ faults \in Nat
  BY DEF IInv, TypeOK
<1>2. MaxInts \in Nat
  BY SignalDispatchAssumption
<1> QED
  BY <1>1, <1>2

\* Without a ^C and without a bad access by the emulator's own code the guard of
\* signalHandler never refuses a trap of a program that is above the stub page, however
\* many services it has called.
THEOREM NothingRefusedForNothing == Spec => []NoSpuriousRefusal
<1>1. IInv /\ QuietInv => NoSpuriousRefusal
  <2> SUFFICES ASSUME IInv, QuietInv PROVE NoSpuriousRefusal
    OBVIOUS
  <2>1. sigints \in Nat /\ faults \in Nat
    BY SignalsAreCounted
  <2>2. (sigints = 0 \/ sigints > 0) /\ (faults = 0 \/ faults > 0)
    BY <2>1
  <2>3. CASE Quiet
    BY <2>3 DEF QuietInv, QuietTrap, NoSpuriousRefusal
  <2>4. CASE ~Quiet
    BY <2>2, <2>4 DEF Quiet, NoSpuriousRefusal
  <2> QED
    BY <2>3, <2>4
<1> QED
  BY <1>1, InitIInv, NextIInv, InitQuiet, NextQuiet, PTL DEF Spec

=============================================================================
