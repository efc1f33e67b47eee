--------------------------- MODULE SegmentRestore ---------------------------
(* The registers of the program over one service and back: the kernel saves    *)
(* them for the signal handler, the service changes them through the views of  *)
(* Context, the handler writes code that loads the segment registers the       *)
(* kernel is going to reset, and that code runs, instruction by instruction,   *)
(* before the program goes on. How handlers interleave is SignalDispatch's     *)
(* part; here is what they leave behind.                                       *)
(*                                                                             *)
(* A general register is four bytes, Byte being 256 in the code.               *)
EXTENDS Integers

CONSTANTS
    Byte,           \* values of a byte
    General,        \* the general registers the services write to
    Patterns,       \* what the program may have in them
    Values,         \* what a service may write, cut to the width of the view
    mOSCodeSel, mOSDataSel, mOSThreadSel,   \* the selectors of the host
    ProgramSels,    \* the selectors the program loads
    IntAddrs,       \* where the program's INT instructions lie
    FlagAddrs,      \* where its CLI and STI lie
    StubBase, StubSize,   \* mRestoreSegRegsCode
    AddrMod,        \* the modulus of addresses
    MaxWrites       \* bound: writes of one service

DataRegs == {"SS", "DS", "ES", "FS", "GS"}
SegRegs  == DataRegs \cup {"CS"}
StubEnd  == StubBase + StubSize

\* Where a fault is one that the handler makes good.
CodeAddrs == IntAddrs \cup FlagAddrs

\* The values of a register's low half, of a selector too, and of a register.
Half == Byte * Byte
Full == Half * Half

\* All four segment registers, AX and a far jump: what the stub has to hold at most.
LongestStub == 4 * (4 + 2) + 4 + 7

ASSUME Widths == Byte \in Nat \ {0, 1} /\ Patterns \subseteq 0..(Full - 1) /\ Values \subseteq Nat
ASSUME HasEAX == "EAX" \in General
ASSUME Addresses == /\ StubBase \in Nat /\ StubSize \in Nat /\ LongestStub <= StubSize
                    /\ AddrMod \in Nat /\ StubEnd <= AddrMod /\ CodeAddrs \subseteq 0..(AddrMod - 3)
ASSUME Instructions == IntAddrs \cap FlagAddrs = {}
ASSUME Selectors == {mOSCodeSel, mOSDataSel, mOSThreadSel} \cup ProgramSels \subseteq 0..(Half - 1)
ASSUME WriteBound == MaxWrites \in Nat

VARIABLES
    phase,    \* who runs: the program, the handler, the stub; or the end
    cpu,      \* the registers of the processor: [general, seg, eip]
    ctx,      \* the registers the kernel saved, as Context sees them
    stub,     \* the code in mRestoreSegRegsCode: instructions and where they are
    writes,   \* writes of the service so far
    want      \* what the program must find: general registers byte by byte, seg, eip

vars == <<phase, cpu, ctx, stub, writes, want>>

-----------------------------------------------------------------------------
(* The views of DarwinContext: E is the register, X its low half, H and L the  *)
(* bytes of that half.                                                         *)

Views == {"E", "X", "H", "L"}

GetX(v) == v % Half

\* Mutant: the old value of the high byte is not masked out.
SetUnmasked(view, v, x) ==
    CASE view = "E" -> x
      [] view = "X" -> (v - GetX(v)) + x
      [] view = "H" -> (v - (v % Byte)) + (x * Byte) + (v % Byte)
      [] view = "L" -> (v - (v % Byte)) + x

Set(view, v, x) ==
    CASE view = "E" -> x
      [] view = "X" -> (v - GetX(v)) + x
      [] view = "H" -> (v - GetX(v)) + (x * Byte) + (v % Byte)
      [] view = "L" -> (v - (v % Byte)) + x

\* Its bytes, and how many values they have.
Width(view) == CASE view = "E" -> 4 [] view = "X" -> 2 [] view \in {"H", "L"} -> 1
Count(view) == CASE view = "E" -> Full [] view = "X" -> Half [] view \in {"H", "L"} -> Byte

\* The reference: a register is four bytes, the low one first, and a view is a place
\* among them.
ByteAt(v, i) == CASE i = 0 -> v % Byte
                  [] i = 1 -> (v \div Byte) % Byte
                  [] i = 2 -> (v \div Half) % Byte
                  [] i = 3 -> ((v \div Half) \div Byte) % Byte
BytesOf(v) == [i \in 0..3 |-> ByteAt(v, i)]
Place(view) == IF view = "H" THEN 1 ELSE 0
Overlay(bytes, view, x) ==
    [i \in 0..3 |-> IF i - Place(view) \in 0..(Width(view) - 1)
                    THEN ByteAt(x, i - Place(view))
                    ELSE bytes[i]]

-----------------------------------------------------------------------------
(* The program. *)

HostSegs == [r \in SegRegs |-> IF r = "CS" THEN mOSCodeSel
                               ELSE IF r = "GS" THEN mOSThreadSel ELSE mOSDataSel]

Wanted(regs) == [general |-> [g \in General |-> BytesOf(regs.general[g])],
                 seg |-> regs.seg, eip |-> regs.eip]

\* Any values the program can have loaded, with the host's or its own selectors.
ProgramRegs == {[general |-> g, seg |-> s, eip |-> e] :
                  g \in [General -> Patterns],
                  s \in {f \in [SegRegs -> ProgramSels \cup {mOSCodeSel, mOSDataSel, mOSThreadSel}] :
                           \A r \in SegRegs : f[r] \in ProgramSels \cup {HostSegs[r]}},
                  e \in CodeAddrs}

\* Context is on the stack of the handler and gone with it.
NoContext == [general |-> [g \in General |-> 0], seg |-> HostSegs, eip |-> 0]

\* Nothing is written yet: no code, and buf at its base.
NoCode == [buf |-> StubBase, written |-> {}]

Init == /\ phase = "program" /\ cpu \in ProgramRegs
        /\ ctx = NoContext /\ stub = {} /\ writes = 0 /\ want = Wanted(cpu)

\* Mutant: the test covers only the first instruction.
AtStubBase(eip) == eip <= StubBase

\* The test at the head of the handler: below its end is the stub's, as isInRange has it.
InStubRange(eip) == eip < StubEnd

\* An INT, a CLI or an STI: the kernel saves the registers, and the handler runs with the
\* host's.
Trap == /\ phase = "program" /\ cpu.eip \in CodeAddrs
        /\ ctx' = cpu
        /\ cpu' = [cpu EXCEPT !.seg = [HostSegs EXCEPT !["FS"] = cpu.seg["FS"]]]
        /\ phase' = (IF InStubRange(cpu.eip) THEN "refused" ELSE "service")
        /\ writes' = 0
        /\ UNCHANGED <<stub, want>>

\* The service of an INT writes a result.
Service == /\ phase = "service" /\ ctx.eip \in IntAddrs /\ writes < MaxWrites
           /\ \E g \in General, view \in Views, value \in Values :
                 LET x == value % Count(view)
                 IN /\ ctx' = [ctx EXCEPT !.general[g] = Set(view, @, x)]
                    /\ want' = [want EXCEPT !.general[g] = Overlay(@, view, x)]
           /\ writes' = writes + 1
           /\ UNCHANGED <<phase, cpu, stub>>

\* Mutant: every instruction is as long as an INT.
SizeOfINT(eip) == 2

\* What the handler takes for the size of the instruction at eip.
InstrSize(eip) == CASE eip \in IntAddrs -> 2 [] eip \in FlagAddrs -> 1

\* External: how long it is for the processor.
Length(addr) == IF addr \in IntAddrs THEN 2 ELSE 1

\* adjustEIP: past the instruction.
ServiceDone == /\ phase = "service"
               /\ ctx' = [ctx EXCEPT !.eip = (@ + InstrSize(@)) % AddrMod]
               /\ want' = [want EXCEPT !.eip = (@ + Length(@)) % AddrMod]
               /\ phase' = "emit"
               /\ UNCHANGED <<cpu, stub, writes>>

-----------------------------------------------------------------------------
(* The stub. Each instruction has its size in bytes. *)

LoadAX(value)      == [op |-> "loadAX", size |-> 4, reg |-> "EAX", value |-> value, sel |-> 0]
LoadSegReg(reg)    == [op |-> "loadSegReg", size |-> 2, reg |-> reg, value |-> 0, sel |-> 0]
FarJump(sel, addr) == [op |-> "farJump", size |-> 7, reg |-> "CS", value |-> addr, sel |-> sel]
\* relative to the instruction after it
NearJump(buf, addr) == [op |-> "nearJump", size |-> 5, reg |-> "CS",
                        value |-> (addr - (buf + 5)) % AddrMod, sel |-> 0]

\* The code written so far grows by an instruction, and buf moves on behind it.
Emit(code, i) == [buf |-> code.buf + i.size,
                  written |-> code.written \cup {[at |-> code.buf, instr |-> i]}]

\* A segment register is loaded if the program has changed it.
Restore(code, reg) == IF ctx.seg[reg] # HostSegs[reg]
                      THEN Emit(Emit(code, LoadAX(ctx.seg[reg])), LoadSegReg(reg))
                      ELSE code

\* FS is left alone.
Loads == Restore(Restore(Restore(Restore(NoCode, "SS"), "DS"), "ES"), "GS")

\* Mutant: AX keeps the last selector.
LeaveAX == Loads

ReloadAX == LET code == Loads
            IN IF code.buf > StubBase THEN Emit(code, LoadAX(GetX(ctx.general["EAX"]))) ELSE code

Code == LET code == ReloadAX
        IN IF ctx.seg["CS"] # mOSCodeSel THEN Emit(code, FarJump(ctx.seg["CS"], ctx.eip))
           ELSE IF code.buf > StubBase THEN Emit(code, NearJump(code.buf, ctx.eip))
           ELSE code

\* Mutant: the program is sent to the stub even if there is none.
EmitAlways == /\ phase = "emit"
              /\ stub' = Code.written
              /\ ctx' = [ctx EXCEPT !.eip = StubBase]
              /\ phase' = "return"
              /\ UNCHANGED <<cpu, writes, want>>

EmitStub == /\ phase = "emit"
            /\ LET code == Code
               IN /\ stub' = code.written
                  /\ ctx' = (IF code.buf > StubBase THEN [ctx EXCEPT !.eip = StubBase] ELSE ctx)
            /\ phase' = "return"
            /\ UNCHANGED <<cpu, writes, want>>

\* External: the kernel loads the saved registers, but the host's selectors, FS excepted.
Return == /\ phase = "return"
          /\ cpu' = [ctx EXCEPT !.seg = [HostSegs EXCEPT !["FS"] = ctx.seg["FS"]]]
          /\ phase' = (IF ctx.eip = StubBase THEN "stub" ELSE "program")
          /\ ctx' = NoContext /\ writes' = 0
          /\ UNCHANGED <<stub, want>>

\* External: the processor.
Executed(i) ==
    CASE i.op = "loadAX" ->
           [cpu EXCEPT !.general["EAX"] = Set("X", @, i.value), !.eip = @ + i.size]
      [] i.op = "loadSegReg" ->
           [cpu EXCEPT !.seg[i.reg] = GetX(cpu.general["EAX"]), !.eip = @ + i.size]
      [] i.op = "farJump" -> [cpu EXCEPT !.seg["CS"] = i.sel, !.eip = i.value]
      [] i.op = "nearJump" -> [cpu EXCEPT !.eip = (@ + i.size + i.value) % AddrMod]

Jumps == {"farJump", "nearJump"}

\* Its code is of no use once it has jumped.
StubStep == /\ phase = "stub"
            /\ \E c \in stub :
                  /\ c.at = cpu.eip
                  /\ cpu' = Executed(c.instr)
                  /\ \/ c.instr.op \in Jumps /\ phase' = "program" /\ stub' = {}
                     \/ c.instr.op \notin Jumps /\ UNCHANGED <<phase, stub>>
            /\ UNCHANGED <<ctx, writes, want>>

\* ^C, or a fault, while the stub runs: the handler sees that it does and ends the
\* process. If it did not, it would serve the registers it finds.
StubInterrupted == /\ phase = "stub"
                   /\ phase' = (IF InStubRange(cpu.eip) THEN "refused" ELSE "service")
                   /\ ctx' = cpu /\ writes' = 0
                   /\ UNCHANGED <<cpu, stub, want>>

\* Between two INTs the program loads what it likes.
Compute == /\ phase = "program"
           /\ \/ \E r \in SegRegs, sel \in ProgramSels : cpu' = [cpu EXCEPT !.seg[r] = sel]
              \/ \E r \in SegRegs : cpu' = [cpu EXCEPT !.seg[r] = HostSegs[r]]
              \/ \E g \in General, v \in Patterns : cpu' = [cpu EXCEPT !.general[g] = v]
              \/ \E e \in CodeAddrs : cpu' = [cpu EXCEPT !.eip = e]
           /\ want' = Wanted(cpu')
           /\ UNCHANGED <<phase, ctx, stub, writes>>

Next == \/ Trap \/ Service \/ ServiceDone \/ EmitStub \/ Return
        \/ StubStep \/ StubInterrupted \/ Compute

\* The handler and the stub are straight-line code of one thread.
Fairness == WF_vars(ServiceDone) /\ WF_vars(EmitStub) /\ WF_vars(Return) /\ WF_vars(StubStep)

Spec == Init /\ [][Next]_vars /\ Fairness

-----------------------------------------------------------------------------
(* Properties. *)

Registers == [general : [General -> 0..(Full - 1)],
              seg : [SegRegs -> 0..(Half - 1)], eip : 0..(AddrMod - 1)]

TypeOK == /\ phase \in {"program", "service", "emit", "return", "stub", "refused"}
          /\ cpu \in Registers /\ ctx \in Registers
          /\ writes \in 0..MaxWrites
          /\ \A c \in stub : c.at \in StubBase..(StubEnd - c.instr.size)

\* When the program goes on after an INT, every register is what it was at the INT or
\* what the service has written, byte by byte: whichever segment registers it had
\* changed, though the stub uses AX to load them, and it is at the instruction after the
\* INT. The same after a CLI or an STI, which change nothing.
ResumesIntact == phase = "program" => Wanted(cpu) = want

\* A service never gets the half-restored registers of a running stub: what it is
\* given, and what the stub is made from, are the program's, however often and at
\* whatever instruction the stub was interrupted.
ServiceSeesProgram == phase \in {"service", "emit"} => Wanted(ctx) = want

\* A served INT comes back to the program, unless the process is ended in the stub.
ComesBack == (phase = "service") ~> (phase \in {"program", "refused"})
=============================================================================
