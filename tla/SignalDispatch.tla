---------------------------- MODULE SignalDispatch ----------------------------
(***************************************************************************)
(* The two threads of the emulator and the signal handler they share.      *)
(*                                                                         *)
(* "main" runs Launcher.cpp's main: it builds the environment, loads the   *)
(* image, starts the application thread and joins it.  "app" registers the *)
(* two exception handlers and then runs the DOS program.  An INT           *)
(* instruction of the program arrives as SIGSEGV or SIGBUS on the          *)
(* application thread; ^C arrives as SIGINT on either thread, at any       *)
(* point.  All three signals run DarwinExceptionManager::signalHandler.    *)
(*                                                                         *)
(* A handler invocation is a frame on its thread's stack of frames; it     *)
(* advances through the program counter `pc` in steps between which the    *)
(* other thread, or a signal on the same thread, may come.  The heap lock  *)
(* is modelled because the handler itself allocates and frees.  Addresses  *)
(* are abstracted to the region they belong to.                            *)
(***************************************************************************)
EXTENDS Naturals, Sequences, FiniteSets

CONSTANTS
    MaxInts,    \* bound: SIGINTs delivered in a run
    MaxTraps,   \* bound: instructions of the DOS program that trap
    ExitCodes,  \* the values of AL the program passes to INT 21h/4Ch
    LowRegions  \* the regions whose addresses are below the end of the stub page

Threads == {"main", "app"}

\* Where an interrupted EIP can point.
Regions == {"emulator", "library", "program", "stub", "null"}

\* What the instruction the program trapped on asks for.  "service": a call that
\* is resumed; "unsupported": no handler or one that returns false; "exit": INT
\* 21h/4Ch; "hostError": a call that lets an OSException escape; "badPointer": a
\* call with a pointer that faults when the handler uses it.
TrapKinds == {"service", "unsupported", "exit", "hostError", "badPointer"}

ASSUME SignalDispatchAssumption ==
    /\ MaxInts \in Nat
    /\ MaxTraps \in Nat
    /\ ExitCodes \subseteq Nat
    /\ LowRegions \subseteq Regions

VARIABLES
    mainAt,       \* where main() is: "start", "setup", "join", "teardown"
    appAt,        \* where the application thread is
    frames,       \* thread -> its active signalHandler invocations, oldest first
    mReenterCount,
    handlerSet,   \* the exception handlers already registered
    heapOwner,    \* the thread that holds the allocator's lock, or "none"
    result,       \* what the application thread passed to pthread_exit
    process,      \* how the process ended, if it did
    sigints,      \* SIGINTs delivered so far
    traps,        \* traps of the program so far
    faults        \* real bad accesses by emulator code so far

vars == <<mainAt, appAt, frames, mReenterCount, handlerSet, heapOwner, result,
          process, sigints, traps, faults>>

-----------------------------------------------------------------------------
Running == process.how = "running"

Active(t) == frames[t] # <<>>

Top(t) == frames[t][Len(frames[t])]

At(t, pc) == Running /\ Active(t) /\ Top(t).pc = pc

\* The isInRange test of the guard: it compares with the end of the page only.
InStubRange(region) == region \in LowRegions \cup {"stub", "null"}

\* The regions thread t can be executing in when a signal stops it.
CodeRegions(t) ==
    IF Active(t) THEN {"emulator", "library"}
    ELSE IF t = "main" THEN IF mainAt = "join" THEN {"library"}
                                               ELSE {"emulator", "library"}
    ELSE CASE appAt = "program" -> {"program"}
           [] appAt = "stub" -> {"stub"}
           [] OTHER -> {"emulator", "library"}

Frame(sig, region, kind) ==
    [sig |-> sig, region |-> region, kind |-> kind, pc |-> "info", reg |-> 0,
     stub |-> FALSE]

Push(t, f) == frames' = [frames EXCEPT ![t] = Append(@, f)]

Update(t, f) == frames' = [frames EXCEPT ![t][Len(frames[t])] = f]

Goto(t, pc) == Update(t, [Top(t) EXCEPT !.pc = pc])

Pop(t) == frames' = [frames EXCEPT ![t] = SubSeq(@, 1, Len(@) - 1)]

\* exit(status) runs the static destructors, ~DarwinExceptionManager among them,
\* which unmaps the alternate signal stack.  sigaltstack was called on the main
\* thread only: a handler running there loses the stack it is running on, and the
\* kernel kills the process, unless another thread's exit is quicker.
EndsBy(t) ==
    IF ~Active("main") THEN {"exit"}
    ELSE IF t = "main" THEN {"signal"} ELSE {"exit", "signal"}

Exit(t, code, verdict) ==
    \E how \in EndsBy(t) :
        process' = [how |-> how, verdict |-> verdict,
                    status |-> IF how = "exit" THEN code ELSE 0]

Init ==
    /\ mainAt = "start"
    /\ appAt = "unborn"
    /\ frames = [t \in Threads |-> <<>>]
    /\ mReenterCount = 0
    /\ handlerSet = {}
    /\ heapOwner = "none"
    /\ result = 0
    /\ process = [how |-> "running", status |-> 0, verdict |-> "none"]
    /\ sigints = 0
    /\ traps = 0
    /\ faults = 0

-----------------------------------------------------------------------------
(* The main thread outside the signal handler.                             *)

MainIs(at) == Running /\ ~Active("main") /\ mainAt = at

\* argc < 2: usage message and status 1; otherwise the environment is built.
MainStart ==
    /\ MainIs("start")
    /\ \/ mainAt' = "setup" /\ UNCHANGED process
       \/ Exit("main", 1, "usage") /\ UNCHANGED mainAt
    /\ UNCHANGED <<appAt, frames, mReenterCount, handlerSet, heapOwner, result,
                   sigints, traps, faults>>

\* Building and tearing down objects allocates and frees.
MainTakesHeap ==
    /\ MainIs("setup") \/ MainIs("teardown")
    /\ heapOwner = "none"
    /\ heapOwner' = "main"
    /\ UNCHANGED <<mainAt, appAt, frames, mReenterCount, handlerSet, result,
                   process, sigints, traps, faults>>

MainReleasesHeap ==
    /\ Running /\ ~Active("main")
    /\ heapOwner = "main"
    /\ heapOwner' = "none"
    /\ UNCHANGED <<mainAt, appAt, frames, mReenterCount, handlerSet, result,
                   process, sigints, traps, faults>>

\* An Exception from the environment or from ImageFactory::create.
SetupFails ==
    /\ MainIs("setup")
    /\ heapOwner # "main"
    /\ Exit("main", 2, "exception")
    /\ UNCHANGED <<mainAt, appAt, frames, mReenterCount, handlerSet, heapOwner,
                   result, sigints, traps, faults>>

\* Loading a malformed image dereferences a bad pointer on the main thread.
SetupFaults ==
    /\ MainIs("setup")
    /\ heapOwner # "main"
    /\ \E r \in {"emulator", "library"} : Push("main", Frame("SEGV", r, "unsupported"))
    /\ faults' = faults + 1
    /\ UNCHANGED <<mainAt, appAt, mReenterCount, handlerSet, heapOwner, result,
                   process, sigints, traps>>

\* ExecutionEnvironment::run: createThread, run, then join.
StartThread ==
    /\ MainIs("setup")
    /\ heapOwner # "main"
    /\ mainAt' = "join"
    /\ appAt' = "setMem"
    /\ UNCHANGED <<frames, mReenterCount, handlerSet, heapOwner, result, process,
                   sigints, traps, faults>>

Join ==
    /\ MainIs("join")
    /\ appAt = "exited"
    /\ mainAt' = "teardown"
    /\ UNCHANGED <<appAt, frames, mReenterCount, handlerSet, heapOwner, result,
                   process, sigints, traps, faults>>

\* The environment and the image are gone; main returns what join returned.
MainReturns ==
    /\ MainIs("teardown")
    /\ heapOwner # "main"
    /\ Exit("main", result, "program")
    /\ UNCHANGED <<mainAt, appAt, frames, mReenterCount, handlerSet, heapOwner,
                   result, sigints, traps, faults>>

-----------------------------------------------------------------------------
(* The application thread outside the signal handler.                      *)

AppIs(at) == Running /\ ~Active("app") /\ appAt = at

SetMemoryHandler ==
    /\ AppIs("setMem")
    /\ handlerSet' = handlerSet \cup {"SEGV"}
    /\ appAt' = "setCon"
    /\ UNCHANGED <<mainAt, frames, mReenterCount, heapOwner, result, process,
                   sigints, traps, faults>>

SetConsoleHandler ==
    /\ AppIs("setCon")
    /\ handlerSet' = handlerSet \cup {"INT"}
    /\ appAt' = "program"
    /\ UNCHANGED <<mainAt, frames, mReenterCount, heapOwner, result, process,
                   sigints, traps, faults>>

\* The DOS program executes an instruction it may not: SIGSEGV or SIGBUS.
ProgramTraps ==
    /\ AppIs("program")
    /\ traps < MaxTraps
    /\ traps' = traps + 1
    /\ \E k \in TrapKinds : Push("app", Frame("SEGV", "program", k))
    /\ UNCHANGED <<mainAt, appAt, mReenterCount, handlerSet, heapOwner, result,
                   process, sigints, faults>>

\* The stub's last instruction jumps back into the program.
StubJumps ==
    /\ AppIs("stub")
    /\ appAt' = "program"
    /\ UNCHANGED <<mainAt, frames, mReenterCount, handlerSet, heapOwner, result,
                   process, sigints, traps, faults>>

-----------------------------------------------------------------------------
(* ^C.  The handler for SIGINT is installed without SA_NODEFER: the signal  *)
(* stays blocked on a thread while a frame for it is on that thread.        *)

Interruptible(t) ==
    /\ t = "app" => appAt \notin {"unborn", "exited"}
    /\ \A i \in 1 .. Len(frames[t]) : frames[t][i].sig # "INT"

ConsoleInterrupt(t) ==
    /\ Running
    /\ sigints < MaxInts
    /\ Interruptible(t)
    /\ sigints' = sigints + 1
    /\ \E r \in CodeRegions(t) : Push(t, Frame("INT", r, "unsupported"))
    /\ UNCHANGED <<mainAt, appAt, mReenterCount, handlerSet, heapOwner, result,
                   process, traps, faults>>

-----------------------------------------------------------------------------
(* signalHandler, step by step, on thread t.                               *)

\* DarwinExceptionInfo's constructor: new DarwinContext.
AllocContext(t) ==
    /\ At(t, "info")
    /\ heapOwner = "none"
    /\ heapOwner' = t
    /\ Goto(t, "infoHeld")
    /\ UNCHANGED <<mainAt, appAt, mReenterCount, handlerSet, result, process,
                   sigints, traps, faults>>

ContextAllocated(t) ==
    /\ At(t, "infoHeld")
    /\ heapOwner' = "none"
    /\ Goto(t, "load")
    /\ UNCHANGED <<mainAt, appAt, mReenterCount, handlerSet, result, process,
                   sigints, traps, faults>>

\* ++mReenterCount is a load and a store; the comparison uses the value stored.
LoadCount(t) ==
    /\ At(t, "load")
    /\ Update(t, [Top(t) EXCEPT !.pc = "guard", !.reg = mReenterCount])
    /\ UNCHANGED <<mainAt, appAt, mReenterCount, handlerSet, heapOwner, result,
                   process, sigints, traps, faults>>

\* Mutant: the guard no longer counts.
RefusedByAddressOnly(f) == InStubRange(f.region)

Refused(f) == f.reg + 1 > 1 \/ InStubRange(f.region)

\* Mutant: the guard is a lock; an invocation that finds it taken tries again.
GuardWaits(t) ==
    /\ At(t, "guard")
    /\ IF Top(t).reg > 0
       THEN Goto(t, "load") /\ UNCHANGED mReenterCount
       ELSE /\ mReenterCount' = 1
            /\ Goto(t, IF InStubRange(Top(t).region) THEN "refused" ELSE "dispatch")
    /\ UNCHANGED <<mainAt, appAt, handlerSet, heapOwner, result, process, sigints,
                   traps, faults>>

Guard(t) ==
    /\ At(t, "guard")
    /\ mReenterCount' = Top(t).reg + 1
    /\ Goto(t, IF Refused(Top(t)) THEN "refused" ELSE "dispatch")
    /\ UNCHANGED <<mainAt, appAt, handlerSet, heapOwner, result, process, sigints,
                   traps, faults>>

\* "bad memory access in emulator code"
Refuse(t) ==
    /\ At(t, "refused")
    /\ Exit(t, 3, "bad access")
    /\ UNCHANGED <<mainAt, appAt, frames, mReenterCount, handlerSet, heapOwner,
                   result, sigints, traps, faults>>

\* The registered handler is called; one that is not yet registered is a call to
\* address 0, which faults with EIP = 0.
Dispatch(t) ==
    /\ At(t, "dispatch")
    /\ IF Top(t).sig \in handlerSet
       THEN Goto(t, "handler") /\ UNCHANGED faults
       ELSE Push(t, Frame("SEGV", "null", "unsupported")) /\ faults' = faults + 1
    /\ UNCHANGED <<mainAt, appAt, mReenterCount, handlerSet, heapOwner, result,
                   process, sigints, traps>>

InHandler(t, sig, kind) == At(t, "handler") /\ Top(t).sig = sig /\ Top(t).kind = kind

\* Mutant: ^C is handled and the interrupted code resumed.
InterruptResumes(t) ==
    /\ At(t, "handler")
    /\ Top(t).sig = "INT"
    /\ Goto(t, "decLoad")
    /\ UNCHANGED <<mainAt, appAt, mReenterCount, handlerSet, heapOwner, result,
                   process, sigints, traps, faults>>

\* consoleInterruptHandler
HandleInterrupt(t) ==
    /\ At(t, "handler")
    /\ Top(t).sig = "INT"
    /\ Exit(t, 3, "interrupt")
    /\ UNCHANGED <<mainAt, appAt, frames, mReenterCount, handlerSet, heapOwner,
                   result, sigints, traps, faults>>

\* memoryExceptionHandler with !canResume
HandleUnsupported(t) ==
    /\ InHandler(t, "SEGV", "unsupported")
    /\ Exit(t, 2, "unsupported")
    /\ UNCHANGED <<mainAt, appAt, frames, mReenterCount, handlerSet, heapOwner,
                   result, sigints, traps, faults>>

\* INT 21h/4Ch: pthread_exit abandons every frame of the application thread.
HandleExit(t) ==
    /\ InHandler(t, "SEGV", "exit")
    /\ result' \in ExitCodes
    /\ frames' = [frames EXCEPT ![t] = <<>>]
    /\ appAt' = "exited"
    /\ UNCHANGED <<mainAt, mReenterCount, handlerSet, heapOwner, process, sigints,
                   traps, faults>>

\* An OSException passes DOS::handleInterrupt's only catch clause: std::terminate.
HandleHostError(t) ==
    /\ InHandler(t, "SEGV", "hostError")
    /\ process' = [how |-> "abort", status |-> 0, verdict |-> "none"]
    /\ UNCHANGED <<mainAt, appAt, frames, mReenterCount, handlerSet, heapOwner,
                   result, sigints, traps, faults>>

\* The service uses a bad pointer of the program: SIGSEGV inside the handler
\* (SA_NODEFER lets it through).
HandleBadPointer(t) ==
    /\ InHandler(t, "SEGV", "badPointer")
    /\ \E r \in {"emulator", "library"} : Push(t, Frame("SEGV", r, "unsupported"))
    /\ faults' = faults + 1
    /\ UNCHANGED <<mainAt, appAt, mReenterCount, handlerSet, heapOwner, result,
                   process, sigints, traps>>

\* A service that is resumed, with or without using the heap.  Whether it comes to its
\* end is not this module's to say: it may wait in fread for input that never comes,
\* or probe for ever for a free handle.
HandleService(t) ==
    /\ InHandler(t, "SEGV", "service")
    /\ \/ Goto(t, "served") /\ UNCHANGED heapOwner
       \/ heapOwner = "none" /\ heapOwner' = t /\ Goto(t, "serviceHeld")
    /\ UNCHANGED <<mainAt, appAt, mReenterCount, handlerSet, result, process,
                   sigints, traps, faults>>

ServiceReleasesHeap(t) ==
    /\ At(t, "serviceHeld")
    /\ heapOwner' = "none"
    /\ Goto(t, "served")
    /\ UNCHANGED <<mainAt, appAt, mReenterCount, handlerSet, result, process,
                   sigints, traps, faults>>

\* The handler has run over the lower end of the signal stack: "signal stack overrun".
StackOverrun(t) ==
    /\ At(t, "served")
    /\ Exit(t, 3, "overrun")
    /\ UNCHANGED <<mainAt, appAt, frames, mReenterCount, handlerSet, heapOwner,
                   result, sigints, traps, faults>>

\* Build the code that reloads the segment registers, if any has to be, and make
\* it the place the handler returns to.
EmitStub(t) ==
    /\ At(t, "served")
    /\ \E needed \in BOOLEAN :
          Update(t, [Top(t) EXCEPT !.pc = "decLoad", !.stub = needed])
    /\ UNCHANGED <<mainAt, appAt, mReenterCount, handlerSet, heapOwner, result,
                   process, sigints, traps, faults>>

\* mReenterCount--
LoadForDecrement(t) ==
    /\ At(t, "decLoad")
    /\ Update(t, [Top(t) EXCEPT !.pc = "decStore", !.reg = mReenterCount])
    /\ UNCHANGED <<mainAt, appAt, mReenterCount, handlerSet, heapOwner, result,
                   process, sigints, traps, faults>>

\* Mutants: the decrement is forgotten, or done once more in the handler.
DecrementForgotten(t) ==
    /\ At(t, "decStore")
    /\ Goto(t, "delete")
    /\ UNCHANGED <<mainAt, appAt, mReenterCount, handlerSet, heapOwner, result,
                   process, sigints, traps, faults>>

DecrementTwice(t) ==
    /\ At(t, "decStore")
    /\ mReenterCount' = Top(t).reg - 2
    /\ Goto(t, "delete")
    /\ UNCHANGED <<mainAt, appAt, handlerSet, heapOwner, result, process, sigints,
                   traps, faults>>

Decrement(t) ==
    /\ At(t, "decStore")
    /\ mReenterCount' = Top(t).reg - 1
    /\ Goto(t, "delete")
    /\ UNCHANGED <<mainAt, appAt, handlerSet, heapOwner, result, process, sigints,
                   traps, faults>>

\* DarwinExceptionInfo's destructor frees the context ...
FreeContext(t) ==
    /\ At(t, "delete")
    /\ heapOwner = "none"
    /\ heapOwner' = t
    /\ Goto(t, "deleteHeld")
    /\ UNCHANGED <<mainAt, appAt, mReenterCount, handlerSet, result, process,
                   sigints, traps, faults>>

\* ... and the handler returns to the program, or to the stub.
Return(t) ==
    /\ At(t, "deleteHeld")
    /\ heapOwner' = "none"
    /\ Pop(t)
    /\ appAt' = IF Top(t).stub THEN "stub" ELSE appAt
    /\ UNCHANGED <<mainAt, mReenterCount, handlerSet, result, process, sigints,
                   traps, faults>>

-----------------------------------------------------------------------------
MainStep ==
    \/ MainStart \/ MainTakesHeap \/ MainReleasesHeap \/ SetupFails \/ SetupFaults
    \/ StartThread \/ Join \/ MainReturns

AppStep == SetMemoryHandler \/ SetConsoleHandler \/ ProgramTraps \/ StubJumps

\* The steps of signalHandler that follow each other without waiting for anything
\* but the allocator's lock.
HandlerAdvances(t) ==
    \/ AllocContext(t) \/ ContextAllocated(t) \/ LoadCount(t) \/ Guard(t)
    \/ Refuse(t) \/ Dispatch(t) \/ HandleInterrupt(t) \/ HandleUnsupported(t)
    \/ HandleExit(t) \/ HandleHostError(t) \/ HandleBadPointer(t)
    \/ ServiceReleasesHeap(t) \/ StackOverrun(t) \/ EmitStub(t)
    \/ LoadForDecrement(t) \/ Decrement(t) \/ FreeContext(t) \/ Return(t)

HandlerStep(t) == HandlerAdvances(t) \/ HandleService(t)

Next ==
    \/ MainStep
    \/ AppStep
    \/ \E t \in Threads : HandlerStep(t) \/ ConsoleInterrupt(t)

Spec == Init /\ [][Next]_vars

\* The kernel schedules both threads: a handler in progress advances, an allocation
\* in progress completes, the stub runs to its jump, and a joined thread is noticed.
\* A service in progress need not end: HandleService has no fairness.
\* Setup and teardown allocate finitely often, so they end even though they are not
\* enabled while the lock is held: strong fairness.  Nothing obliges the program to
\* trap or a user to press ^C.
Fairness ==
    /\ \A t \in Threads : WF_vars(HandlerAdvances(t))
    /\ WF_vars(MainReleasesHeap)
    /\ WF_vars(MainStart)
    /\ SF_vars(StartThread \/ SetupFails \/ SetupFaults)
    /\ WF_vars(Join)
    /\ SF_vars(MainReturns)
    /\ WF_vars(SetMemoryHandler)
    /\ WF_vars(SetConsoleHandler)
    /\ WF_vars(StubJumps)

FairSpec == Spec /\ Fairness

-----------------------------------------------------------------------------
(* Properties.                                                              *)

HandlerPcs == {"info", "infoHeld", "load", "guard", "refused", "dispatch", "handler",
               "serviceHeld", "served", "decLoad", "decStore", "delete", "deleteHeld"}

FrameType == [sig : {"SEGV", "INT"}, region : Regions, kind : TrapKinds,
              pc : HandlerPcs, reg : Nat, stub : BOOLEAN]

\* Every variable has its type; mReenterCount, an unsigned word, does not wrap.
TypeOK ==
    /\ mainAt \in {"start", "setup", "join", "teardown"}
    /\ appAt \in {"unborn", "setMem", "setCon", "program", "stub", "exited"}
    /\ frames \in [Threads -> Seq(FrameType)]
    /\ mReenterCount \in Nat
    /\ handlerSet \subseteq {"SEGV", "INT"}
    /\ heapOwner \in Threads \cup {"none"}
    /\ result \in ExitCodes \cup {0}
    /\ process \in [how : {"running", "exit", "signal", "abort"}, status : Nat,
                    verdict : {"none", "usage", "exception", "program", "interrupt",
                               "unsupported", "bad access", "overrun"}]
    /\ sigints \in 0 .. MaxInts
    /\ traps \in 0 .. MaxTraps
    /\ faults \in Nat

\* A frame that passed the guard for a memory exception and still counts.
Serving(f) ==
    f.sig = "SEGV" /\ f.pc \in {"dispatch", "handler", "serviceHeld", "served",
                                "decLoad", "decStore"}

ServingFrames ==
    UNION {{<<t, i>> : i \in {j \in 1 .. Len(frames[t]) : Serving(frames[t][j])}} :
              t \in Threads}

\* At most one memory exception at a time is past the guard of signalHandler, on
\* either thread: the DOS services, which have no lock of their own, never run
\* inside or beside each other, not even after a fault inside a service.
ServicesNeverOverlap == Cardinality(ServingFrames) <= 1

\* As long as a service runs, the counter that must refuse any other signal is
\* not 0, although ++ and -- are separate loads and stores and a SIGINT on the
\* other thread can come between them.
ServiceIsCounted == ServingFrames # {} => mReenterCount >= 1

\* Without a ^C, without a fault in emulator code and with the program above the
\* stub page, the guard never refuses a trap: the counter is back at 0 after every
\* service.
NoSpuriousRefusal ==
    process.verdict = "bad access" =>
        sigints > 0 \/ faults > 0 \/ "program" \in LowRegions

\* What the message of the guard says: "bad memory access in emulator code".  Such
\* an access happened.
RefusalIsBadAccess == process.verdict = "bad access" => faults > 0

\* A handler waits for the allocator's lock that the code it interrupted holds.
SelfDeadlock == \E t \in Threads : At(t, "info") /\ heapOwner = t

\* The service the handler has called has not come back.
InService == At("app", "handler") /\ Top("app").kind = "service"

\* Every trap of the program is answered: the program goes on, or its thread or the
\* process ends.  Two exceptions: a signal that interrupted the allocator, and a
\* service that blocks for ever (a read of the console, the probe of a handle table
\* with stray entries).  Nothing else of signalHandler waits, before the service or
\* after it.
TrapsAreAnswered ==
    Active("app") ~> (~Active("app") \/ ~Running \/ SelfDeadlock \/ []InService)

\* ^C ends the process, wherever it arrives, during a service that blocks too; the one
\* exception is a handler that waits for the allocator.
InterruptEndsProcess == sigints > 0 ~> ~Running \/ SelfDeadlock
=============================================================================
