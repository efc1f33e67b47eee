------------------------ MODULE SegmentRestore_proofs ------------------------
(***************************************************************************)
(* Proofs about SegmentRestore, for every width of a byte, every set of    *)
(* registers and selectors, every place of the program and of the stub,    *)
(* and any number of writes of a service.                                  *)
(***************************************************************************)
EXTENDS SegmentRestore, TLAPS

-----------------------------------------------------------------------------
(* A register is two halves, and its low half two bytes.                    *)

LEMMA Numbers ==
    /\ Byte \in Nat /\ Byte > 1
    /\ Half \in Nat /\ Half > 1 /\ Half = Byte * Byte
    /\ Full \in Nat /\ Full > 1 /\ Full = Half * Half
<1>1. Byte \in Nat /\ Byte > 1
  BY Widths
<1>2. Half \in Nat /\ Half > 1
  <2>1. Byte * Byte \in Nat /\ Byte * Byte > 1
    BY <1>1
  <2> QED
    BY <2>1 DEF Half
<1>3. Full \in Nat /\ Full > 1
  <2>1. Half * Half \in Nat /\ Half * Half > 1
    BY <1>2
  <2> QED
    BY <2>1 DEF Full
<1> QED
  BY <1>1, <1>2, <1>3 DEF Half, Full

\* There is one quotient and one remainder.
LEMMA Divided ==
    ASSUME NEW unit \in Nat, unit > 0, NEW q \in Int, NEW m \in Nat, m < unit
    PROVE  ((q * unit) + m) \div unit = q /\ ((q * unit) + m) % unit = m
<1> DEFINE x == (q * unit) + m
           d == x \div unit
           r == x % unit
<1>1. x \in Int /\ q * unit \in Int
  OBVIOUS
<1>2. d \in Int /\ r \in Int /\ r >= 0 /\ r < unit /\ x = (d * unit) + r
  <2> HIDE DEF x
  <2>1. x \div unit \in Int /\ x % unit \in 0 .. unit - 1 /\ x = (unit * (x \div unit)) + (x % unit)
    BY <1>1
  <2> QED
    BY <2>1
<1>3. x = (q * unit) + m
  OBVIOUS
<1> HIDE DEF x, d, r
<1>4. d * unit \in Int /\ (d - q) * unit = (d * unit) - (q * unit)
  BY <1>2
<1>5. (d - q) * unit = m - r
  BY <1>1, <1>2, <1>3, <1>4
<1>6. ~(d - q >= 1)
  <2> SUFFICES ASSUME d - q >= 1 PROVE FALSE
    OBVIOUS
  <2>1. (d - q) * unit >= unit
    BY <1>2
  <2> QED
    BY <1>2, <1>4, <1>5, <2>1
<1>7. ~(d - q <= -1)
  <2> SUFFICES ASSUME d - q <= -1 PROVE FALSE
    OBVIOUS
  <2>1. (d - q) * unit <= -unit
    BY <1>2
  <2> QED
    BY <1>2, <1>4, <1>5, <2>1
<1>8. d = q
  BY <1>2, <1>6, <1>7
<1>9. r = m
  BY <1>1, <1>2, <1>3, <1>8
<1> QED
  BY <1>8, <1>9 DEF d, r, x

\* Two digits make a number below the square.
LEMMA Digits ==
    ASSUME NEW unit \in Nat, unit > 1, NEW h \in 0 .. unit - 1, NEW l \in 0 .. unit - 1
    PROVE  /\ (h * unit) + l \in 0 .. (unit * unit) - 1
           /\ ((h * unit) + l) \div unit = h /\ ((h * unit) + l) % unit = l
<1>1. h \in Nat /\ l \in Nat /\ h <= unit - 1 /\ l < unit /\ h * unit \in Nat /\ unit * unit \in Nat
  OBVIOUS
<1>2. ((unit - 1) - h) * unit >= 0
  BY <1>1
<1>3. ((unit - 1) - h) * unit = ((unit * unit) - unit) - (h * unit)
  BY <1>1
<1>4. (h * unit) + l \in 0 .. (unit * unit) - 1
  BY <1>1, <1>2, <1>3
<1> QED
  BY <1>1, <1>4, Divided

\* And a number below the square is two digits.
LEMMA TwoDigits ==
    ASSUME NEW unit \in Nat, unit > 1, NEW x \in 0 .. (unit * unit) - 1
    PROVE  /\ x \div unit \in 0 .. unit - 1 /\ x % unit \in 0 .. unit - 1
           /\ x = ((x \div unit) * unit) + (x % unit)
<1> DEFINE d == x \div unit
           r == x % unit
<1>1. x \in Nat /\ unit * unit \in Nat /\ x < unit * unit
  OBVIOUS
<1>2. d \in Int /\ r \in 0 .. unit - 1 /\ x = (d * unit) + r
  <2>1. x \div unit \in Int /\ x % unit \in 0 .. unit - 1 /\ x = (unit * (x \div unit)) + (x % unit)
    BY <1>1
  <2> QED
    BY <2>1
<1> HIDE DEF d, r
<1>3. r >= 0 /\ r < unit /\ r \in Int /\ d * unit \in Int
  BY <1>2
<1>4. ~(d <= -1)
  <2> SUFFICES ASSUME d <= -1 PROVE FALSE
    OBVIOUS
  <2>1. d * unit <= -unit
    BY <1>2
  <2> QED
    BY <1>1, <1>2, <1>3, <2>1
<1>5. ~(d >= unit)
  <2> SUFFICES ASSUME d >= unit PROVE FALSE
    OBVIOUS
  <2>1. (d - unit) * unit >= 0
    BY <1>2
  <2>2. (d - unit) * unit = (d * unit) - (unit * unit)
    BY <1>2
  <2> QED
    BY <1>1, <1>2, <1>3, <2>1, <2>2
<1>6. d \in 0 .. unit - 1
  BY <1>2, <1>4, <1>5
<1> QED
  BY <1>2, <1>6 DEF d, r

Halves == 0 .. Half - 1
Wholes == 0 .. Full - 1

High(v) == v \div Half

\* A value is its halves.
LEMMA HalvesOf ==
    ASSUME NEW v \in Wholes
    PROVE  High(v) \in Halves /\ GetX(v) \in Halves /\ v = (High(v) * Half) + GetX(v)
BY Numbers, TwoDigits DEF High, GetX, Halves, Wholes

LEMMA OfHalves ==
    ASSUME NEW h \in Halves, NEW l \in Halves
    PROVE  /\ (h * Half) + l \in Wholes
           /\ High((h * Half) + l) = h /\ GetX((h * Half) + l) = l
BY Numbers, Digits DEF High, GetX, Halves, Wholes

\* The bytes of a value are those of its halves.
LEMMA BytesOfHalves ==
    ASSUME NEW h \in Halves, NEW l \in Halves
    PROVE  /\ ByteAt((h * Half) + l, 0) = l % Byte
           /\ ByteAt((h * Half) + l, 1) = l \div Byte
           /\ ByteAt((h * Half) + l, 2) = h % Byte
           /\ ByteAt((h * Half) + l, 3) = (h \div Byte) % Byte
<1> DEFINE v == (h * Half) + l
           b1 == l \div Byte
           b0 == l % Byte
<1>1. b1 \in 0 .. Byte - 1 /\ b0 \in 0 .. Byte - 1 /\ l = (b1 * Byte) + b0
  BY Numbers, TwoDigits DEF Halves
<1>2. v \div Half = h
  BY OfHalves DEF High
<1>3. v = (((h * Byte) + b1) * Byte) + b0 /\ h \in Int
  <2>1. h \in Int /\ Half = Byte * Byte
    BY Numbers DEF Halves
  <2>2. v = (h * (Byte * Byte)) + ((b1 * Byte) + b0)
    BY <1>1, <2>1
  <2> HIDE DEF v, b1, b0
  <2> QED
    BY <1>1, <2>1, <2>2, Numbers
<1> HIDE DEF v, b1, b0
<1>4. (h * Byte) + b1 \in Int /\ b0 \in Nat /\ b1 \in Nat /\ b0 < Byte /\ b1 < Byte
  BY <1>1, <1>3, Numbers
<1>5. v \div Byte = (h * Byte) + b1 /\ v % Byte = b0
  BY <1>3, <1>4, Numbers, Divided
<1>6. ((h * Byte) + b1) % Byte = b1
  BY <1>3, <1>4, Numbers, Divided
<1>7. ByteAt(v, 0) = b0 /\ ByteAt(v, 1) = b1 /\ ByteAt(v, 2) = h % Byte /\ ByteAt(v, 3) = (h \div Byte) % Byte
  BY <1>2, <1>5, <1>6 DEF ByteAt
<1> QED
  BY <1>7 DEF v, b1, b0

\* What is written through a view is what the reference puts in its place, and it stays
\* a value of a register.
LEMMA SetIsOverlay ==
    ASSUME NEW v \in Wholes, NEW view \in Views, NEW x \in 0 .. Count(view) - 1
    PROVE  Set(view, v, x) \in Wholes /\ BytesOf(Set(view, v, x)) = Overlay(BytesOf(v), view, x)
<1> DEFINE h == High(v)
           l == GetX(v)
<1>1. h \in Halves /\ l \in Halves /\ v = (h * Half) + l
  BY HalvesOf
<1>2. /\ ByteAt(v, 0) = l % Byte /\ ByteAt(v, 1) = l \div Byte
      /\ ByteAt(v, 2) = h % Byte /\ ByteAt(v, 3) = (h \div Byte) % Byte
  BY <1>1, BytesOfHalves
<1>3. l \div Byte \in 0 .. Byte - 1 /\ l % Byte \in 0 .. Byte - 1 /\ l = ((l \div Byte) * Byte) + (l % Byte)
  BY <1>1, Numbers, TwoDigits DEF Halves
<1>4. h \in Int /\ l \in Int /\ h * Half \in Int
  BY <1>1, Numbers DEF Halves
<1>5. BytesOf(v) = [i \in 0 .. 3 |-> ByteAt(v, i)]
  BY DEF BytesOf
<1>6. ASSUME NEW y \in Halves, Set(view, v, x) = (h * Half) + y,
             \A i \in 0 .. 3 : Overlay(BytesOf(v), view, x)[i] =
                CASE i = 0 -> y % Byte [] i = 1 -> y \div Byte
                  [] i = 2 -> h % Byte [] i = 3 -> (h \div Byte) % Byte
      PROVE  Set(view, v, x) \in Wholes /\ BytesOf(Set(view, v, x)) = Overlay(BytesOf(v), view, x)
  <2> DEFINE w == (h * Half) + y
             over == Overlay(BytesOf(v), view, x)
  <2>1. w \in Wholes
    BY <1>1, OfHalves
  <2>2. /\ ByteAt(w, 0) = y % Byte /\ ByteAt(w, 1) = y \div Byte
        /\ ByteAt(w, 2) = h % Byte /\ ByteAt(w, 3) = (h \div Byte) % Byte
    BY <1>1, BytesOfHalves
  <2>3. over = [i \in 0 .. 3 |-> over[i]]
    BY DEF Overlay
  <2> HIDE DEF w, over, h, l
  <2>4. \A i \in 0 .. 3 : i = 0 \/ i = 1 \/ i = 2 \/ i = 3
    OBVIOUS
  <2>5. \A i \in 0 .. 3 : ByteAt(w, i) = over[i]
    BY <1>6, <2>2, <2>4 DEF over
  <2>6. BytesOf(w) = over
    BY <2>3, <2>5 DEF BytesOf
  <2> QED
    BY <1>6, <2>1, <2>6 DEF w, over
<1> HIDE DEF h, l
<1>7. CASE view = "E"
  <2>1. Set(view, v, x) = x /\ x \in Wholes /\ Width(view) = 4 /\ Place(view) = 0
    BY <1>7 DEF Set, Count, Width, Place, Wholes
  <2>2. Overlay(BytesOf(v), view, x) = [i \in 0 .. 3 |-> ByteAt(x, i)]
    <3>1. \A i \in 0 .. 3 : i - 0 \in 0 .. 4 - 1 /\ i - 0 = i
      OBVIOUS
    <3> QED
      BY <2>1, <3>1 DEF Overlay
  <2> QED
    BY <2>1, <2>2 DEF BytesOf
<1>8. CASE view = "X"
  <2>1. Width(view) = 2 /\ Place(view) = 0 /\ x \in Halves
    BY <1>8 DEF Width, Place, Count, Halves
  <2>2. Set(view, v, x) = (h * Half) + x
    <3>1. Set(view, v, x) = (v - l) + x
      BY <1>8 DEF Set, l
    <3>2. x \in Int
      BY <2>1, Numbers DEF Halves
    <3> QED
      BY <1>1, <1>4, <3>1, <3>2
  <2>3. ByteAt(x, 0) = x % Byte /\ ByteAt(x, 1) = x \div Byte
    <3>1. x \div Byte \in 0 .. Byte - 1
      BY <2>1, Numbers, TwoDigits DEF Halves
    <3>2. (x \div Byte) % Byte = x \div Byte
      BY <3>1, Numbers
    <3> QED
      BY <3>2 DEF ByteAt
  <2>4. Overlay(BytesOf(v), view, x) =
          [i \in 0 .. 3 |-> IF i - 0 \in 0 .. 2 - 1 THEN ByteAt(x, i - 0) ELSE BytesOf(v)[i]]
    BY <2>1 DEF Overlay
  <2>5. /\ Overlay(BytesOf(v), view, x)[0] = ByteAt(x, 0) /\ Overlay(BytesOf(v), view, x)[1] = ByteAt(x, 1)
        /\ Overlay(BytesOf(v), view, x)[2] = ByteAt(v, 2) /\ Overlay(BytesOf(v), view, x)[3] = ByteAt(v, 3)
    BY <1>5, <2>4
  <2> QED
    BY <1>2, <1>6, <2>1, <2>2, <2>3, <2>5
<1>9. CASE view = "H"
  <2> DEFINE y == (x * Byte) + (l % Byte)
  <2>1. Width(view) = 1 /\ Place(view) = 1 /\ x \in 0 .. Byte - 1
    BY <1>9 DEF Width, Place, Count
  <2>2. y \in Halves /\ y \div Byte = x /\ y % Byte = l % Byte
    BY <1>3, <2>1, Numbers, Digits DEF Halves
  <2>3. Set(view, v, x) = (h * Half) + y
    <3>1. Set(view, v, x) = ((v - l) + (x * Byte)) + (v % Byte)
      BY <1>9 DEF Set, l
    <3>2. v % Byte = l % Byte
      BY <1>2 DEF ByteAt
    <3>3. x * Byte \in Int /\ l % Byte \in Int
      BY <1>3, <2>1, Numbers
    <3> QED
      BY <1>1, <1>4, <3>1, <3>2, <3>3
  <2>4. ByteAt(x, 0) = x
    BY <2>1, Numbers DEF ByteAt
  <2>5. Overlay(BytesOf(v), view, x) =
          [i \in 0 .. 3 |-> IF i - 1 \in 0 .. 1 - 1 THEN ByteAt(x, i - 1) ELSE BytesOf(v)[i]]
    BY <2>1 DEF Overlay
  <2>6. /\ Overlay(BytesOf(v), view, x)[0] = ByteAt(v, 0) /\ Overlay(BytesOf(v), view, x)[1] = ByteAt(x, 0)
        /\ Overlay(BytesOf(v), view, x)[2] = ByteAt(v, 2) /\ Overlay(BytesOf(v), view, x)[3] = ByteAt(v, 3)
    BY <1>5, <2>5
  <2> HIDE DEF y
  <2> QED
    BY <1>2, <1>6, <2>2, <2>3, <2>4, <2>6
<1>10. CASE view = "L"
  <2> DEFINE y == ((l \div Byte) * Byte) + x
  <2>1. Width(view) = 1 /\ Place(view) = 0 /\ x \in 0 .. Byte - 1
    BY <1>10 DEF Width, Place, Count
  <2>2. y \in Halves /\ y \div Byte = l \div Byte /\ y % Byte = x
    <3> DEFINE b == l \div Byte
    <3>1. b \in 0 .. Byte - 1
      BY <1>3
    <3>2. y = (b * Byte) + x
      OBVIOUS
    <3> HIDE DEF b, y
    <3>3. y \in Halves /\ y \div Byte = b /\ y % Byte = x
      BY <2>1, <3>1, <3>2, Numbers, Digits DEF Halves
    <3> QED
      BY <3>3 DEF b
  <2>3. Set(view, v, x) = (h * Half) + y
    <3>1. Set(view, v, x) = (v - (v % Byte)) + x
      BY <1>10 DEF Set
    <3>2. v % Byte = l % Byte
      BY <1>2 DEF ByteAt
    <3>3. x \in Int /\ l % Byte \in Int /\ (l \div Byte) * Byte \in Int
      BY <1>3, <2>1, Numbers
    <3> QED
      BY <1>1, <1>3, <1>4, <3>1, <3>2, <3>3
  <2>4. ByteAt(x, 0) = x
    BY <2>1, Numbers DEF ByteAt
  <2>5. Overlay(BytesOf(v), view, x) =
          [i \in 0 .. 3 |-> IF i - 0 \in 0 .. 1 - 1 THEN ByteAt(x, i - 0) ELSE BytesOf(v)[i]]
    BY <2>1 DEF Overlay
  <2>6. /\ Overlay(BytesOf(v), view, x)[0] = ByteAt(x, 0) /\ Overlay(BytesOf(v), view, x)[1] = ByteAt(v, 1)
        /\ Overlay(BytesOf(v), view, x)[2] = ByteAt(v, 2) /\ Overlay(BytesOf(v), view, x)[3] = ByteAt(v, 3)
    BY <1>5, <2>5
  <2> HIDE DEF y
  <2> QED
    BY <1>2, <1>6, <2>2, <2>3, <2>4, <2>6
<1> QED
  BY <1>7, <1>8, <1>9, <1>10 DEF Views

\* Loading AX leaves the other half alone.
LEMMA LoadingAX ==
    ASSUME NEW v \in Wholes, NEW x \in Halves
    PROVE  Set("X", v, x) \in Wholes /\ High(Set("X", v, x)) = High(v) /\ GetX(Set("X", v, x)) = x
<1>1. High(v) \in Halves /\ GetX(v) \in Halves /\ v = (High(v) * Half) + GetX(v)
  BY HalvesOf
<1>2. High(v) * Half \in Int /\ GetX(v) \in Int /\ x \in Int
  BY <1>1, Numbers DEF Halves
<1>3. Set("X", v, x) = (v - GetX(v)) + x
  BY DEF Set
<1>4. Set("X", v, x) = (High(v) * Half) + x
  BY <1>1, <1>2, <1>3
<1> QED
  BY <1>1, <1>4, OfHalves

-----------------------------------------------------------------------------
(* The code generator: instructions lie one behind the other from the base  *)
(* on, whatever is emitted.                                                 *)

InPlace(code, c) == /\ c.at \in Nat /\ c.instr.size \in Nat /\ c.instr.size > 0
                    /\ StubBase <= c.at /\ c.at + c.instr.size <= code.buf

Apart(code) == \A c, d \in code.written : /\ c.at < d.at => c.at + c.instr.size <= d.at
                                          /\ c.at = d.at => c.instr = d.instr

IsAt(code, a) == \E c \in code.written : c.at = a

Laid(code) ==
    /\ code.buf \in Nat /\ StubBase <= code.buf
    /\ \A c \in code.written : InPlace(code, c)
    /\ Apart(code)
    /\ code.buf = StubBase \/ IsAt(code, StubBase)
    /\ \A c \in code.written : c.at + c.instr.size = code.buf \/ IsAt(code, c.at + c.instr.size)

LEMMA NothingIsLaid == Laid(NoCode)
  BY Addresses DEF Laid, NoCode, Apart

LEMMA EmitLaid ==
    ASSUME NEW code, NEW i, Laid(code), i.size \in Nat, i.size > 0
    PROVE  /\ Laid(Emit(code, i)) /\ Emit(code, i).buf = code.buf + i.size
           /\ Emit(code, i).written = code.written \cup {[at |-> code.buf, instr |-> i]}
<1> DEFINE new  == [at |-> code.buf, instr |-> i]
           emit == Emit(code, i)
<1>1. emit.buf = code.buf + i.size /\ emit.written = code.written \cup {new}
  BY DEF Emit
<1>2. new.at = code.buf /\ new.instr = i
  OBVIOUS
<1>3. code.buf \in Nat /\ StubBase <= code.buf /\ StubBase \in Nat
  BY Addresses DEF Laid
<1>4. \A c \in code.written : /\ c.at \in Nat /\ c.instr.size \in Nat /\ c.instr.size > 0
                              /\ StubBase <= c.at /\ c.at + c.instr.size <= code.buf
  BY DEF Laid, InPlace
<1> HIDE DEF new, emit
<1>5. \A c \in emit.written : InPlace(emit, c)
  <2> SUFFICES ASSUME NEW c \in emit.written PROVE InPlace(emit, c)
    OBVIOUS
  <2>1. CASE c = new
    BY <1>1, <1>2, <1>3, <2>1 DEF InPlace
  <2>2. CASE c \in code.written
    <3>1. c.at + c.instr.size <= code.buf + i.size
      BY <1>3, <1>4, <2>2
    <3> QED
      BY <1>1, <1>4, <2>2, <3>1 DEF InPlace
  <2> QED
    BY <1>1, <2>1, <2>2
<1>6. Apart(emit)
  <2>1. \A c \in code.written : c.at < new.at /\ c.at + c.instr.size <= new.at /\ ~(new.at < c.at) /\ c.at # new.at
    BY <1>2, <1>3, <1>4
  <2>2. ~(new.at < new.at)
    BY <1>2, <1>3
  <2> QED
    BY <1>1, <2>1, <2>2 DEF Laid, Apart
<1>7. emit.buf = StubBase \/ IsAt(emit, StubBase)
  BY <1>1, <1>2 DEF Laid, IsAt
<1>8. \A c \in emit.written : c.at + c.instr.size = emit.buf \/ IsAt(emit, c.at + c.instr.size)
  <2>1. new.at + new.instr.size = emit.buf
    BY <1>1, <1>2
  <2>2. \A c \in code.written : c.at + c.instr.size = new.at \/ IsAt(code, c.at + c.instr.size)
    BY <1>2 DEF Laid
  <2>3. \A a : IsAt(code, a) => IsAt(emit, a)
    BY <1>1 DEF IsAt
  <2>4. IsAt(emit, new.at)
    BY <1>1 DEF IsAt
  <2> QED
    BY <1>1, <2>1, <2>2, <2>3, <2>4
<1> QED
  BY <1>1, <1>3, <1>5, <1>6, <1>7, <1>8 DEF Laid, emit, new

\* The sizes of what is emitted.
LEMMA SizesOfCode ==
    /\ \A v : LoadAX(v).size = 4 /\ LoadAX(v).op = "loadAX" /\ LoadAX(v).value = v
    /\ \A reg : LoadSegReg(reg).size = 2 /\ LoadSegReg(reg).op = "loadSegReg" /\ LoadSegReg(reg).reg = reg
    /\ \A sel, addr : /\ FarJump(sel, addr).size = 7 /\ FarJump(sel, addr).op = "farJump"
                      /\ FarJump(sel, addr).sel = sel /\ FarJump(sel, addr).value = addr
    /\ \A buf, addr : /\ NearJump(buf, addr).size = 5 /\ NearJump(buf, addr).op = "nearJump"
                      /\ NearJump(buf, addr).value = (addr - (buf + 5)) % AddrMod
BY DEF LoadAX, LoadSegReg, FarJump, NearJump

Loaded == {"SS", "DS", "ES", "GS"}

\* Segment registers are loaded through AX, which has been loaded just before.
IsLoad(code, c, t) ==
    \/ \E v \in Halves : c.instr = LoadAX(v)
    \/ \E reg \in Loaded : /\ c.instr = LoadSegReg(reg)
                           /\ \E d \in code.written : d.at = c.at - 4 /\ d.instr = LoadAX(t.seg[reg])

Restores(code, reg, t) ==
    t.seg[reg] = HostSegs[reg] \/ \E c \in code.written : c.instr = LoadSegReg(reg)

\* What the loads of some registers amount to; what is behind the last of them is
\* known, too: AX has to be reloaded for the one after.
LoadsOf(code, regs, t) ==
    /\ Laid(code)
    /\ \A c \in code.written : IsLoad(code, c, t)
    /\ \A reg \in regs : Restores(code, reg, t)

LEMMA RestoreLoads ==
    ASSUME ctx \in Registers, NEW reg \in Loaded, NEW regs, NEW code, LoadsOf(code, regs, ctx)
    PROVE  /\ LoadsOf(Restore(code, reg), regs \cup {reg}, ctx)
           /\ Restore(code, reg).buf <= code.buf + 6
<1>1. code.buf \in Nat
  BY DEF LoadsOf, Laid
<1>2. CASE ctx.seg[reg] = HostSegs[reg]
  BY <1>1, <1>2 DEF Restore, LoadsOf, Restores
<1>3. CASE ctx.seg[reg] # HostSegs[reg]
  <2> DEFINE first == Emit(code, LoadAX(ctx.seg[reg]))
             ax    == [at |-> code.buf, instr |-> LoadAX(ctx.seg[reg])]
             both  == Emit(first, LoadSegReg(reg))
             load  == [at |-> first.buf, instr |-> LoadSegReg(reg)]
  <2>1. Restore(code, reg) = both
    BY <1>3 DEF Restore
  <2>2. Laid(first) /\ first.buf = code.buf + 4 /\ first.written = code.written \cup {ax}
    BY EmitLaid, SizesOfCode DEF LoadsOf
  <2>3. ctx.seg[reg] \in Halves
    BY DEF Registers, Halves, Loaded, SegRegs, DataRegs
  <2>4. ax.at = code.buf /\ ax.instr = LoadAX(ctx.seg[reg]) /\ load.at = first.buf /\ load.instr = LoadSegReg(reg)
    OBVIOUS
  <2> HIDE DEF first
  <2>5. Laid(both) /\ both.buf = first.buf + 2 /\ both.written = first.written \cup {load}
    BY <2>2, EmitLaid, SizesOfCode
  <2> HIDE DEF ax, load, both
  <2>6. both.written = code.written \cup {ax, load}
    BY <2>2, <2>5
  <2>7. \A c \in code.written : IsLoad(code, c, ctx) => IsLoad(both, c, ctx)
    BY <2>6 DEF IsLoad
  <2>8. IsLoad(both, ax, ctx)
    BY <2>3, <2>4 DEF IsLoad
  <2>9. load.at - 4 = ax.at
    BY <1>1, <2>2, <2>4
  <2>10. IsLoad(both, load, ctx)
    BY <2>4, <2>6, <2>9 DEF IsLoad
  <2>11. Restores(both, reg, ctx)
    BY <2>4, <2>6 DEF Restores
  <2>12. \A s \in regs : Restores(code, s, ctx) => Restores(both, s, ctx)
    BY <2>6 DEF Restores
  <2>13. LoadsOf(both, regs \cup {reg}, ctx)
    BY <2>5, <2>6, <2>7, <2>8, <2>10, <2>11, <2>12 DEF LoadsOf
  <2>14. both.buf <= code.buf + 6
    BY <1>1, <2>2, <2>5
  <2> QED
    BY <2>1, <2>13, <2>14
<1> QED
  BY <1>2, <1>3

\* All four.
LEMMA LoadsAreRight ==
    ASSUME ctx \in Registers
    PROVE  LoadsOf(Loads, Loaded, ctx) /\ Loads.buf <= StubBase + 24
<1> DEFINE c1 == Restore(NoCode, "SS")
           c2 == Restore(c1, "DS")
           c3 == Restore(c2, "ES")
           c4 == Restore(c3, "GS")
<1>1. LoadsOf(NoCode, {}, ctx) /\ NoCode.buf = StubBase
  BY NothingIsLaid DEF LoadsOf, NoCode
<1>2. "SS" \in Loaded /\ "DS" \in Loaded /\ "ES" \in Loaded /\ "GS" \in Loaded
  BY DEF Loaded
<1>3. Loads = c4
  BY DEF Loads
<1>4. LoadsOf(c1, {} \cup {"SS"}, ctx) /\ c1.buf <= NoCode.buf + 6
  BY <1>1, <1>2, RestoreLoads
<1> HIDE DEF c1
<1>5. LoadsOf(c2, ({} \cup {"SS"}) \cup {"DS"}, ctx) /\ c2.buf <= c1.buf + 6
  BY <1>2, <1>4, RestoreLoads
<1> HIDE DEF c2
<1>6. LoadsOf(c3, (({} \cup {"SS"}) \cup {"DS"}) \cup {"ES"}, ctx) /\ c3.buf <= c2.buf + 6
  BY <1>2, <1>5, RestoreLoads
<1> HIDE DEF c3
<1>7. LoadsOf(c4, ((({} \cup {"SS"}) \cup {"DS"}) \cup {"ES"}) \cup {"GS"}, ctx) /\ c4.buf <= c3.buf + 6
  BY <1>2, <1>6, RestoreLoads
<1> HIDE DEF c4
<1>8. Loaded = ((({} \cup {"SS"}) \cup {"DS"}) \cup {"ES"}) \cup {"GS"}
  BY DEF Loaded
<1>9. c1.buf \in Nat /\ c2.buf \in Nat /\ c3.buf \in Nat /\ c4.buf \in Nat /\ StubBase \in Nat
  BY <1>4, <1>5, <1>6, <1>7, Addresses DEF LoadsOf, Laid
<1>10. c4.buf <= StubBase + 24
  BY <1>1, <1>4, <1>5, <1>6, <1>7, <1>9
<1> QED
  BY <1>3, <1>7, <1>8, <1>10

\* The jump goes where the program is to go on, and AX is what it was unless it is the
\* only instruction.
JumpsTo(c, t) == \/ c.instr = FarJump(t.seg["CS"], t.eip)
                 \/ c.instr = NearJump(c.at, t.eip) /\ t.seg["CS"] = mOSCodeSel

AXReloaded(code, a, t) ==
    \E d \in code.written : d.at = a - 4 /\ d.instr = LoadAX(GetX(t.general["EAX"]))

\* The stub restores the registers t: loads, and a jump at the end.
Ends(code, c, t) == /\ JumpsTo(c, t) /\ c.at + c.instr.size = code.buf
                    /\ c.at = StubBase \/ AXReloaded(code, c.at, t)

StubUpTo(code, t) ==
    /\ Laid(code) /\ StubBase < code.buf /\ code.buf <= StubEnd
    /\ \A c \in code.written : \/ IsLoad(code, c, t) /\ c.at + c.instr.size < code.buf
                               \/ Ends(code, c, t)
    /\ \A reg \in Loaded : Restores(code, reg, t)

StubRestores(t) == \E end \in Nat : StubUpTo([buf |-> end, written |-> stub], t)

LEMMA JumpAtEnd ==
    ASSUME NEW code, NEW i, LoadsOf(code, Loaded, ctx), code.buf <= StubBase + 28,
           code.buf = StubBase \/ AXReloaded(code, code.buf, ctx),
           i.size \in 5 .. 7, JumpsTo([at |-> code.buf, instr |-> i], ctx)
    PROVE  StubUpTo(Emit(code, i), ctx) /\ Emit(code, i).buf > StubBase
<1> DEFINE jump == [at |-> code.buf, instr |-> i]
           whole == Emit(code, i)
<1>1. i.size \in Nat /\ i.size > 0 /\ i.size <= 7
  OBVIOUS
<1>2. Laid(whole) /\ whole.buf = code.buf + i.size /\ whole.written = code.written \cup {jump}
  BY <1>1, EmitLaid DEF LoadsOf
<1>3. jump.at = code.buf /\ jump.instr = i /\ JumpsTo(jump, ctx)
  OBVIOUS
<1>4. code.buf \in Nat /\ StubBase \in Nat /\ StubBase <= code.buf
  BY Addresses DEF LoadsOf, Laid
<1> HIDE DEF jump, whole
<1>5. whole.buf > StubBase /\ whole.buf <= StubEnd
  <2>1. whole.buf > StubBase /\ whole.buf <= StubBase + 35
    BY <1>1, <1>2, <1>4
  <2>2. StubSize \in Nat /\ StubSize >= 35 /\ StubEnd = StubBase + StubSize
    BY Addresses DEF LongestStub, StubEnd
  <2>3. whole.buf \in Nat
    BY <1>2 DEF Laid
  <2> QED
    BY <1>4, <2>1, <2>2, <2>3
<1>6. \A c \in code.written : IsLoad(whole, c, ctx) /\ c.at + c.instr.size < whole.buf
  <2>1. \A c \in code.written : IsLoad(whole, c, ctx)
    BY <1>2 DEF LoadsOf, IsLoad
  <2>2. \A c \in code.written : c.at + c.instr.size <= code.buf /\ c.at \in Nat /\ c.instr.size \in Nat
    BY DEF LoadsOf, Laid, InPlace
  <2>3. \A c \in code.written : c.at + c.instr.size < whole.buf
    BY <1>1, <1>2, <1>4, <2>2
  <2> QED
    BY <2>1, <2>3
<1>7. \A reg \in Loaded : Restores(whole, reg, ctx)
  BY <1>2 DEF LoadsOf, Restores
<1>8. Ends(whole, jump, ctx)
  <2>1. jump.at + jump.instr.size = whole.buf
    BY <1>2, <1>3
  <2>2. AXReloaded(code, code.buf, ctx) => AXReloaded(whole, jump.at, ctx)
    BY <1>2, <1>3 DEF AXReloaded
  <2> QED
    BY <1>3, <2>1, <2>2 DEF Ends
<1> QED
  BY <1>2, <1>5, <1>6, <1>7, <1>8 DEF StubUpTo, whole

\* There is no code only if nothing has to be restored.
NothingToRestore == ctx.seg["CS"] = mOSCodeSel /\ \A reg \in Loaded : ctx.seg[reg] = HostSegs[reg]

LEMMA CodeIsRight ==
    ASSUME ctx \in Registers
    PROVE  \/ Code.buf = StubBase /\ Code.written = {} /\ NothingToRestore
           \/ Code.buf > StubBase /\ StubUpTo(Code, ctx)
<1> DEFINE loads == Loads
           ax    == LoadAX(GetX(ctx.general["EAX"]))
           reax  == ReloadAX
           far   == FarJump(ctx.seg["CS"], ctx.eip)
<1>1. LoadsOf(loads, Loaded, ctx) /\ loads.buf <= StubBase + 24 /\ Laid(loads)
  BY LoadsAreRight DEF LoadsOf
<1>2. loads.buf \in Nat /\ StubBase \in Nat /\ StubBase <= loads.buf
  BY <1>1, Addresses DEF Laid
<1>3. GetX(ctx.general["EAX"]) \in Halves
  <2>1. ctx.general["EAX"] \in Wholes
    BY HasEAX DEF Registers, Wholes
  <2> QED
    BY <2>1, HalvesOf
<1>4. reax = IF loads.buf > StubBase THEN Emit(loads, ax) ELSE loads
  BY DEF ReloadAX
<1> HIDE DEF loads, ax
<1>5. CASE loads.buf > StubBase
  <2> DEFINE new == [at |-> loads.buf, instr |-> ax]
  <2>1. ax.size = 4
    BY SizesOfCode DEF ax
  <2>2. Laid(reax) /\ reax.buf = loads.buf + 4 /\ reax.written = loads.written \cup {new}
    BY <1>1, <1>4, <1>5, <2>1, EmitLaid
  <2>3. new.at = loads.buf /\ new.instr = ax
    OBVIOUS
  <2> HIDE DEF new, reax
  <2>4. \A c \in reax.written : IsLoad(reax, c, ctx)
    BY <1>1, <1>3, <2>2, <2>3 DEF LoadsOf, IsLoad, ax
  <2>5. \A reg \in Loaded : Restores(reax, reg, ctx)
    BY <1>1, <2>2 DEF LoadsOf, Restores
  <2>6. LoadsOf(reax, Loaded, ctx)
    BY <2>2, <2>4, <2>5 DEF LoadsOf
  <2>7. new.at = reax.buf - 4 /\ reax.buf <= StubBase + 28 /\ reax.buf > StubBase
    BY <1>1, <1>2, <1>5, <2>2, <2>3
  <2>8. AXReloaded(reax, reax.buf, ctx)
    BY <2>2, <2>3, <2>7 DEF AXReloaded, ax
  <2>9. CASE ctx.seg["CS"] # mOSCodeSel
    <3>1. far.size \in 5 .. 7 /\ JumpsTo([at |-> reax.buf, instr |-> far], ctx)
      BY SizesOfCode DEF JumpsTo
    <3>2. StubUpTo(Emit(reax, far), ctx) /\ Emit(reax, far).buf > StubBase
      BY <2>6, <2>7, <2>8, <3>1, JumpAtEnd
    <3>3. Code = Emit(reax, far)
      BY <2>9 DEF Code, reax
    <3> QED
      BY <3>2, <3>3
  <2>10. CASE ctx.seg["CS"] = mOSCodeSel
    <3> DEFINE near == NearJump(reax.buf, ctx.eip)
    <3>1. near.size \in 5 .. 7 /\ JumpsTo([at |-> reax.buf, instr |-> near], ctx)
      BY <2>10, SizesOfCode DEF JumpsTo
    <3>2. StubUpTo(Emit(reax, near), ctx) /\ Emit(reax, near).buf > StubBase
      BY <2>6, <2>7, <2>8, <3>1, JumpAtEnd
    <3>3. Code = Emit(reax, near)
      BY <2>7, <2>10 DEF Code, reax
    <3> QED
      BY <3>2, <3>3
  <2> QED
    BY <2>9, <2>10
<1>6. CASE loads.buf = StubBase
  <2>1. reax = loads /\ ReloadAX = loads
    BY <1>2, <1>4, <1>6
  <2>2. loads.written = {}
    <3> SUFFICES ASSUME NEW c \in loads.written PROVE FALSE
      OBVIOUS
    <3>1. c.at \in Nat /\ c.instr.size \in Nat /\ c.instr.size > 0 /\ StubBase <= c.at
          /\ c.at + c.instr.size <= StubBase
      BY <1>1, <1>6 DEF Laid, InPlace
    <3> QED
      BY <1>2, <3>1
  <2>3. CASE ctx.seg["CS"] # mOSCodeSel
    <3>1. far.size \in 5 .. 7 /\ JumpsTo([at |-> loads.buf, instr |-> far], ctx)
      BY SizesOfCode DEF JumpsTo
    <3>2. loads.buf <= StubBase + 28
      BY <1>2, <1>6
    <3>3. StubUpTo(Emit(loads, far), ctx) /\ Emit(loads, far).buf > StubBase
      BY <1>1, <1>6, <3>1, <3>2, JumpAtEnd
    <3>4. Code = Emit(loads, far)
      BY <2>1, <2>3 DEF Code
    <3> QED
      BY <3>3, <3>4
  <2>4. CASE ctx.seg["CS"] = mOSCodeSel
    <3>1. Code = loads
      BY <1>2, <1>6, <2>1, <2>4 DEF Code
    <3>2. NothingToRestore
      BY <1>1, <2>2, <2>4 DEF NothingToRestore, LoadsOf, Restores
    <3> QED
      BY <1>6, <2>2, <3>1, <3>2
  <2> QED
    BY <2>3, <2>4
<1>7. loads.buf > StubBase \/ loads.buf = StubBase
  BY <1>2
<1> QED
  BY <1>5, <1>6, <1>7

-----------------------------------------------------------------------------
(* The stub runs: behind each instruction, what it has restored stays so.   *)

\* A relative jump lands at its target, however the address wraps.
LEMMA RelativeJump ==
    ASSUME NEW a \in Int, NEW x \in Nat, x < AddrMod
    PROVE  (a + ((x - a) % AddrMod)) % AddrMod = x
<1> DEFINE d == x - a
           q == d \div AddrMod
           r == d % AddrMod
<1>1. AddrMod \in Nat /\ AddrMod > 0 /\ d \in Int
  BY Addresses
<1>2. q \in Int /\ r \in Int /\ d = (AddrMod * q) + r
  <2> HIDE DEF d
  <2> QED
    BY <1>1
<1>3. a + d = x
  OBVIOUS
<1> HIDE DEF d, q, r
<1>4. a + r = ((-q) * AddrMod) + x
  <2>1. AddrMod * q \in Int /\ (-q) * AddrMod = -(AddrMod * q)
    BY <1>1, <1>2
  <2> QED
    BY <1>1, <1>2, <1>3, <2>1
<1>5. (a + r) % AddrMod = x
  <2> DEFINE k == -q
  <2>1. k \in Int /\ a + r = (k * AddrMod) + x
    BY <1>2, <1>4
  <2> HIDE DEF k
  <2> QED
    BY <1>1, <2>1, Divided
<1> QED
  BY <1>5 DEF r, d

\* How far the stub has come: the segment registers loaded by the instructions before this
\* one are right, the others are as the kernel left them; AX holds what was loaded last.
Restoring(t) ==
    /\ \E c \in stub : c.at = cpu.eip
    /\ cpu.seg["FS"] = t.seg["FS"] /\ cpu.seg["CS"] = mOSCodeSel
    /\ \A reg \in Loaded : \/ cpu.seg[reg] = t.seg[reg]
                           \/ \A c \in stub : c.instr = LoadSegReg(reg) => c.at >= cpu.eip
    /\ \A reg \in Loaded : t.seg[reg] = HostSegs[reg] => cpu.seg[reg] = t.seg[reg]
    /\ \A g \in General \ {"EAX"} : cpu.general[g] = t.general[g]
    /\ High(cpu.general["EAX"]) = High(t.general["EAX"])
    /\ cpu.eip = StubBase => cpu.general["EAX"] = t.general["EAX"]
    /\ \A d \in stub, v \in Halves :
          d.at + 4 = cpu.eip /\ d.instr = LoadAX(v) => GetX(cpu.general["EAX"]) = v

\* The registers, one by one.
LEMMA RegistersAre ==
    ASSUME NEW regs
    PROVE  regs \in Registers <=>
             /\ regs = [general |-> regs.general, seg |-> regs.seg, eip |-> regs.eip]
             /\ regs.general \in [General -> Wholes] /\ regs.seg \in [SegRegs -> Halves]
             /\ regs.eip \in Nat /\ regs.eip < AddrMod
<1>1. AddrMod \in Nat
  BY Addresses
<1>2. \A e : e \in 0 .. AddrMod - 1 <=> e \in Nat /\ e < AddrMod
  BY <1>1
<1> QED
  BY <1>2 DEF Registers, Wholes, Halves

\* What each instruction does to the processor.
LEMMA ExecutedIs ==
    ASSUME cpu \in Registers
    PROVE  /\ \A v : Executed(LoadAX(v)) =
                 [general |-> [cpu.general EXCEPT !["EAX"] = Set("X", @, v)],
                  seg |-> cpu.seg, eip |-> cpu.eip + 4]
           /\ \A reg : Executed(LoadSegReg(reg)) =
                 [general |-> cpu.general,
                  seg |-> [cpu.seg EXCEPT ![reg] = GetX(cpu.general["EAX"])], eip |-> cpu.eip + 2]
           /\ \A sel, addr : Executed(FarJump(sel, addr)) =
                 [general |-> cpu.general, seg |-> [cpu.seg EXCEPT !["CS"] = sel], eip |-> addr]
           /\ \A buf, addr : Executed(NearJump(buf, addr)) =
                 [general |-> cpu.general, seg |-> cpu.seg,
                  eip |-> ((cpu.eip + 5) + ((addr - (buf + 5)) % AddrMod)) % AddrMod]
<1>1. cpu = [general |-> cpu.general, seg |-> cpu.seg, eip |-> cpu.eip]
  BY RegistersAre
<1>2. ASSUME NEW v
      PROVE  Executed(LoadAX(v)) = [general |-> [cpu.general EXCEPT !["EAX"] = Set("X", @, v)],
                                    seg |-> cpu.seg, eip |-> cpu.eip + 4]
  <2>1. Executed(LoadAX(v)) = [cpu EXCEPT !.general["EAX"] = Set("X", @, v), !.eip = @ + 4]
    BY DEF Executed, LoadAX
  <2> QED
    BY <1>1, <2>1
<1>3. ASSUME NEW reg
      PROVE  Executed(LoadSegReg(reg)) = [general |-> cpu.general,
               seg |-> [cpu.seg EXCEPT ![reg] = GetX(cpu.general["EAX"])], eip |-> cpu.eip + 2]
  <2>1. Executed(LoadSegReg(reg)) = [cpu EXCEPT !.seg[reg] = GetX(cpu.general["EAX"]), !.eip = @ + 2]
    BY DEF Executed, LoadSegReg
  <2> QED
    BY <1>1, <2>1
<1>4. ASSUME NEW sel, NEW addr
      PROVE  Executed(FarJump(sel, addr)) =
               [general |-> cpu.general, seg |-> [cpu.seg EXCEPT !["CS"] = sel], eip |-> addr]
  <2>1. Executed(FarJump(sel, addr)) = [cpu EXCEPT !.seg["CS"] = sel, !.eip = addr]
    BY DEF Executed, FarJump
  <2> QED
    BY <1>1, <2>1
<1>5. ASSUME NEW buf, NEW addr
      PROVE  Executed(NearJump(buf, addr)) =
               [general |-> cpu.general, seg |-> cpu.seg,
                eip |-> ((cpu.eip + 5) + ((addr - (buf + 5)) % AddrMod)) % AddrMod]
  <2>1. Executed(NearJump(buf, addr)) =
          [cpu EXCEPT !.eip = ((@ + 5) + ((addr - (buf + 5)) % AddrMod)) % AddrMod]
    BY DEF Executed, NearJump
  <2> QED
    BY <1>1, <2>1
<1> QED
  BY <1>2, <1>3, <1>4, <1>5

\* Where the stub is, and what comes next.
LEMMA NextInstruction ==
    ASSUME NEW code, Laid(code), NEW c \in code.written
    PROVE  /\ c.at \in Nat /\ c.instr.size \in Nat /\ StubBase <= c.at /\ StubBase \in Nat
           /\ c.at + c.instr.size <= code.buf /\ c.instr.size > 0 /\ code.buf \in Nat
           /\ \A d \in code.written : /\ d.at \in Nat /\ d.instr.size \in Nat /\ d.instr.size > 0
                                      /\ d.at + d.instr.size <= code.buf
                                      /\ d.at = c.at => d.instr = c.instr
                                      /\ d.at > c.at => d.at >= c.at + c.instr.size
                                      /\ d.at < c.at => d.at + d.instr.size <= c.at
<1>1. \A d \in code.written : /\ d.at \in Nat /\ d.instr.size \in Nat /\ d.instr.size > 0
                              /\ StubBase <= d.at /\ d.at + d.instr.size <= code.buf
  BY DEF Laid, InPlace
<1>2. \A d \in code.written : /\ d.at = c.at => d.instr = c.instr
                              /\ c.at < d.at => c.at + c.instr.size <= d.at
                              /\ d.at < c.at => d.at + d.instr.size <= c.at
  BY DEF Laid, Apart
<1>3. StubBase \in Nat /\ code.buf \in Nat
  BY Addresses DEF Laid
<1> QED
  BY <1>1, <1>2, <1>3

\* An instruction that is no jump is followed by another.
LEMMA NextIsThere ==
    ASSUME NEW code, NEW t, StubUpTo(code, t), NEW c \in code.written, IsLoad(code, c, t)
    PROVE  \E d \in code.written : d.at = c.at + c.instr.size
<1>1. Laid(code) /\ c.instr.size > 0 /\ c.at \in Nat /\ c.instr.size \in Nat /\ code.buf \in Nat
  BY NextInstruction DEF StubUpTo
<1>2. ~Ends(code, c, t)
  <2>1. c.instr.op = "loadAX" \/ c.instr.op = "loadSegReg"
    BY SizesOfCode DEF IsLoad
  <2>2. JumpsTo(c, t) => c.instr.op = "farJump" \/ c.instr.op = "nearJump"
    BY SizesOfCode DEF JumpsTo
  <2> QED
    BY <2>1, <2>2 DEF Ends
<1>3. c.at + c.instr.size < code.buf
  BY <1>2 DEF StubUpTo
<1> QED
  BY <1>1, <1>3 DEF Laid, IsAt

\* A load leads to the next instruction, inside the stub.
LEMMA GoesOn ==
    ASSUME NEW t, NEW end \in Nat, StubUpTo([buf |-> end, written |-> stub], t),
           NEW c \in stub, IsLoad([buf |-> end, written |-> stub], c, t)
    PROVE  /\ \E d \in stub : d.at = c.at + c.instr.size
           /\ c.at + c.instr.size \in Nat /\ c.at + c.instr.size < AddrMod
           /\ c.at \in Nat /\ c.instr.size \in Nat /\ c.instr.size > 0 /\ StubBase <= c.at /\ StubBase \in Nat
           /\ \A d \in stub : /\ d.at \in Nat /\ d.instr.size \in Nat /\ d.instr.size > 0
                              /\ d.at = c.at => d.instr = c.instr
                              /\ d.at > c.at => d.at >= c.at + c.instr.size
                              /\ d.at < c.at => d.at + d.instr.size <= c.at
<1> DEFINE code == [buf |-> end, written |-> stub]
<1>1. code.buf = end /\ code.written = stub
  OBVIOUS
<1>2. Laid(code) /\ end <= StubEnd
  BY <1>1 DEF StubUpTo
<1>3. IsLoad(code, c, t) /\ StubUpTo(code, t)
  OBVIOUS
<1> HIDE DEF code
<1>4. PICK d \in stub : d.at = c.at + c.instr.size
  BY <1>1, <1>3, NextIsThere
<1>5. /\ c.at \in Nat /\ c.instr.size \in Nat /\ c.instr.size > 0 /\ StubBase <= c.at /\ StubBase \in Nat
      /\ \A e \in stub : /\ e.at \in Nat /\ e.instr.size \in Nat /\ e.instr.size > 0
                         /\ e.at + e.instr.size <= end
                         /\ e.at = c.at => e.instr = c.instr
                         /\ e.at > c.at => e.at >= c.at + c.instr.size
                         /\ e.at < c.at => e.at + e.instr.size <= c.at
  BY <1>1, <1>2, NextInstruction
<1>6. d.at \in Nat /\ d.instr.size \in Nat /\ d.instr.size > 0 /\ d.at + d.instr.size <= end
  BY <1>5
<1>7. StubEnd <= AddrMod /\ AddrMod \in Nat /\ StubEnd \in Nat
  BY Addresses DEF StubEnd
<1>8. d.at < AddrMod
  BY <1>2, <1>6, <1>7
<1> QED
  BY <1>4, <1>5, <1>6, <1>8

LEMMA LoadAXStep ==
    ASSUME cpu \in Registers, NEW t \in Registers, NEW end \in Nat,
           StubUpTo([buf |-> end, written |-> stub], t), Restoring(t),
           NEW c \in stub, c.at = cpu.eip, NEW v \in Halves, c.instr = LoadAX(v),
           cpu' = Executed(c.instr), stub' = stub
    PROVE  cpu' \in Registers /\ Restoring(t)'
<1>1. c.instr.size = 4
  BY SizesOfCode
<1>2. IsLoad([buf |-> end, written |-> stub], c, t)
  BY DEF IsLoad
<1>3. /\ \E d \in stub : d.at = cpu.eip + 4
      /\ cpu.eip + 4 \in Nat /\ cpu.eip + 4 < AddrMod
      /\ cpu.eip \in Nat /\ StubBase <= cpu.eip /\ StubBase \in Nat
      /\ \A d \in stub : /\ d.at \in Nat /\ d.instr.size \in Nat /\ d.instr.size > 0
                         /\ d.at = cpu.eip => d.instr = c.instr
                         /\ d.at > cpu.eip => d.at >= cpu.eip + 4
                         /\ d.at < cpu.eip => d.at + d.instr.size <= cpu.eip
  BY <1>1, <1>2, GoesOn
<1>4. /\ cpu.general \in [General -> Wholes] /\ cpu.seg \in [SegRegs -> Halves]
  BY RegistersAre
<1>5. cpu' = [general |-> [cpu.general EXCEPT !["EAX"] = Set("X", @, v)],
              seg |-> cpu.seg, eip |-> cpu.eip + 4]
  BY ExecutedIs
<1>6. /\ cpu'.seg = cpu.seg /\ cpu'.eip = cpu.eip + 4
      /\ cpu'.general = [cpu.general EXCEPT !["EAX"] = Set("X", @, v)]
  BY <1>5
<1>7. LET x == Set("X", cpu.general["EAX"], v)
      IN x \in Wholes /\ High(x) = High(cpu.general["EAX"]) /\ GetX(x) = v
  BY <1>4, HasEAX, LoadingAX
<1>8. /\ cpu'.general["EAX"] = Set("X", cpu.general["EAX"], v)
      /\ \A g \in General \ {"EAX"} : cpu'.general[g] = cpu.general[g]
      /\ cpu'.general \in [General -> Wholes]
  BY <1>4, <1>6, <1>7, HasEAX
<1>9. cpu' \in Registers
  BY <1>3, <1>4, <1>5, <1>6, <1>8, RegistersAre
<1>10. ASSUME NEW reg \in Loaded
       PROVE  \/ cpu'.seg[reg] = t.seg[reg]
              \/ \A d \in stub : d.instr = LoadSegReg(reg) => d.at >= cpu'.eip
  <2>1. LoadSegReg(reg) # LoadAX(v)
    BY SizesOfCode
  <2>2. CASE \A d \in stub : d.instr = LoadSegReg(reg) => d.at >= cpu.eip
    <3> SUFFICES ASSUME NEW d \in stub, d.instr = LoadSegReg(reg)
                 PROVE  d.at >= cpu.eip + 4
      BY <1>6
    <3>1. d.at >= cpu.eip /\ d.at # cpu.eip /\ d.at \in Nat
      BY <1>3, <2>1, <2>2
    <3> QED
      BY <1>3, <3>1
  <2> QED
    BY <1>6, <2>2 DEF Restoring
<1>11. ASSUME NEW d \in stub, NEW w \in Halves, d.at + 4 = cpu'.eip, d.instr = LoadAX(w)
       PROVE  GetX(cpu'.general["EAX"]) = w
  <2>1. d.at = cpu.eip
    BY <1>3, <1>6, <1>11
  <2>2. LoadAX(w) = LoadAX(v)
    BY <1>3, <1>11, <2>1
  <2>3. w = v
    BY <2>2, SizesOfCode
  <2> QED
    BY <1>7, <1>8, <2>3
<1>12. cpu'.eip # StubBase
  BY <1>3, <1>6
<1>13. High(cpu'.general["EAX"]) = High(t.general["EAX"])
  BY <1>7, <1>8 DEF Restoring
<1>14. \E d \in stub : d.at = cpu'.eip
  BY <1>3, <1>6
<1>15. Restoring(t)'
  BY <1>6, <1>8, <1>10, <1>11, <1>12, <1>13, <1>14 DEF Restoring
<1> QED
  BY <1>9, <1>15

LEMMA LoadSegStep ==
    ASSUME cpu \in Registers, NEW t \in Registers, NEW end \in Nat,
           StubUpTo([buf |-> end, written |-> stub], t), Restoring(t),
           NEW c \in stub, c.at = cpu.eip, NEW reg \in Loaded, c.instr = LoadSegReg(reg),
           NEW ax \in stub, ax.at = c.at - 4, ax.instr = LoadAX(t.seg[reg]),
           cpu' = Executed(c.instr), stub' = stub
    PROVE  cpu' \in Registers /\ Restoring(t)'
<1>1. c.instr.size = 2
  BY SizesOfCode
<1>2. IsLoad([buf |-> end, written |-> stub], c, t)
  <2>1. \E d \in stub : d.at = c.at - 4 /\ d.instr = LoadAX(t.seg[reg])
    OBVIOUS
  <2> QED
    BY <2>1 DEF IsLoad
<1>3. /\ \E d \in stub : d.at = cpu.eip + 2
      /\ cpu.eip + 2 \in Nat /\ cpu.eip + 2 < AddrMod
      /\ cpu.eip \in Nat /\ StubBase <= cpu.eip /\ StubBase \in Nat
      /\ \A d \in stub : /\ d.at \in Nat /\ d.instr.size \in Nat /\ d.instr.size > 0
                         /\ d.at = cpu.eip => d.instr = c.instr
                         /\ d.at > cpu.eip => d.at >= cpu.eip + 2
                         /\ d.at < cpu.eip => d.at + d.instr.size <= cpu.eip
  BY <1>1, <1>2, GoesOn
<1>4. /\ cpu.general \in [General -> Wholes] /\ cpu.seg \in [SegRegs -> Halves]
      /\ t.seg \in [SegRegs -> Halves]
  BY RegistersAre
<1>5. cpu' = [general |-> cpu.general,
              seg |-> [cpu.seg EXCEPT ![reg] = GetX(cpu.general["EAX"])], eip |-> cpu.eip + 2]
  BY ExecutedIs
<1>6. /\ cpu'.general = cpu.general /\ cpu'.eip = cpu.eip + 2
      /\ cpu'.seg = [cpu.seg EXCEPT ![reg] = GetX(cpu.general["EAX"])]
  BY <1>5
<1>7. reg \in SegRegs /\ reg # "FS" /\ reg # "CS" /\ Loaded \subseteq SegRegs /\ "FS" \in SegRegs /\ "CS" \in SegRegs
  BY DEF Loaded, SegRegs, DataRegs
<1>8. GetX(cpu.general["EAX"]) = t.seg[reg]
  <2>1. t.seg[reg] \in Halves
    BY <1>4, <1>7
  <2>2. ax.at + 4 = cpu.eip
    BY <1>3
  <2> QED
    BY <2>1, <2>2 DEF Restoring
<1>9. /\ cpu'.seg[reg] = t.seg[reg] /\ cpu'.seg \in [SegRegs -> Halves]
      /\ \A s \in SegRegs \ {reg} : cpu'.seg[s] = cpu.seg[s]
  BY <1>4, <1>6, <1>7, <1>8
<1>10. cpu' \in Registers
  BY <1>3, <1>4, <1>5, <1>6, <1>9, RegistersAre
<1>11. ASSUME NEW s \in Loaded
       PROVE  \/ cpu'.seg[s] = t.seg[s]
              \/ \A d \in stub : d.instr = LoadSegReg(s) => d.at >= cpu'.eip
  <2>1. CASE s = reg
    BY <1>9, <2>1
  <2>2. CASE s # reg /\ cpu.seg[s] = t.seg[s]
    BY <1>7, <1>9, <2>2
  <2>3. CASE s # reg /\ \A d \in stub : d.instr = LoadSegReg(s) => d.at >= cpu.eip
    <3>1. LoadSegReg(s) # LoadSegReg(reg)
      BY <2>3, SizesOfCode
    <3> SUFFICES ASSUME NEW d \in stub, d.instr = LoadSegReg(s)
                 PROVE  d.at >= cpu.eip + 2
      BY <1>6
    <3>2. d.at >= cpu.eip /\ d.at # cpu.eip /\ d.at \in Nat
      BY <1>3, <2>3, <3>1
    <3> QED
      BY <1>3, <3>2
  <2> QED
    BY <2>1, <2>2, <2>3 DEF Restoring
<1>12. ASSUME NEW s \in Loaded, t.seg[s] = HostSegs[s]
       PROVE  cpu'.seg[s] = t.seg[s]
  BY <1>7, <1>9, <1>12 DEF Restoring
<1>13. ~\E d \in stub : \E w : d.at + 4 = cpu'.eip /\ d.instr = LoadAX(w)
  <2> SUFFICES ASSUME NEW d \in stub, NEW w, d.at + 4 = cpu'.eip, d.instr = LoadAX(w)
               PROVE  FALSE
    OBVIOUS
  <2>1. d.instr.size = 4 /\ d.at \in Nat
    BY <1>3, SizesOfCode
  <2>2. d.at < cpu.eip
    BY <1>3, <1>6, <2>1
  <2>3. d.at + 4 <= cpu.eip
    BY <1>3, <2>1, <2>2
  <2> QED
    BY <1>3, <1>6, <2>1, <2>3
<1>14. cpu'.eip # StubBase /\ \E d \in stub : d.at = cpu'.eip
  BY <1>3, <1>6
<1>15. cpu'.seg["FS"] = t.seg["FS"] /\ cpu'.seg["CS"] = mOSCodeSel
  BY <1>7, <1>9 DEF Restoring
<1>16. Restoring(t)'
  BY <1>6, <1>11, <1>12, <1>13, <1>14, <1>15 DEF Restoring
<1> QED
  BY <1>10, <1>16

LEMMA JumpStep ==
    ASSUME cpu \in Registers, NEW t \in Registers, NEW end \in Nat,
           StubUpTo([buf |-> end, written |-> stub], t), Restoring(t),
           NEW c \in stub, c.at = cpu.eip, Ends([buf |-> end, written |-> stub], c, t),
           cpu' = Executed(c.instr)
    PROVE  cpu' = t
<1> DEFINE code == [buf |-> end, written |-> stub]
<1>1. code.buf = end /\ code.written = stub /\ Laid(code)
  BY DEF StubUpTo
<1>2. /\ JumpsTo(c, t) /\ c.at + c.instr.size = end
      /\ c.at = StubBase \/ AXReloaded(code, c.at, t)
      /\ \A reg \in Loaded : Restores(code, reg, t)
  BY DEF Ends, StubUpTo
<1> HIDE DEF code
<1>3. /\ cpu.eip \in Nat /\ c.instr.size \in Nat
      /\ \A d \in stub : /\ d.at \in Nat /\ d.instr.size \in Nat /\ d.instr.size > 0
                         /\ d.at + d.instr.size <= end
                         /\ d.at = cpu.eip => d.instr = c.instr
                         /\ d.at > cpu.eip => d.at >= cpu.eip + c.instr.size
  BY <1>1, NextInstruction
<1>4. ASSUME NEW reg \in Loaded, cpu.seg[reg] # t.seg[reg]
      PROVE  FALSE
  <2>1. PICK d \in stub : d.instr = LoadSegReg(reg) /\ d.at >= cpu.eip
    <3>1. t.seg[reg] # HostSegs[reg]
      BY <1>4 DEF Restoring
    <3>2. \E d \in stub : d.instr = LoadSegReg(reg)
      BY <1>1, <1>2, <3>1 DEF Restores
    <3>3. \A d \in stub : d.instr = LoadSegReg(reg) => d.at >= cpu.eip
      BY <1>4 DEF Restoring
    <3> QED
      BY <3>2, <3>3
  <2>2. d.instr # c.instr
    BY <1>2, <2>1, SizesOfCode DEF JumpsTo
  <2>3. d.at > cpu.eip
    BY <1>3, <2>1, <2>2
  <2>4. d.at >= end
    BY <1>2, <1>3, <2>3
  <2> QED
    BY <1>3, <2>4
<1>5. /\ cpu.general \in [General -> Wholes] /\ cpu.seg \in [SegRegs -> Halves]
      /\ t.general \in [General -> Wholes] /\ t.seg \in [SegRegs -> Halves]
      /\ t = [general |-> t.general, seg |-> t.seg, eip |-> t.eip] /\ t.eip \in Nat /\ t.eip < AddrMod
  BY RegistersAre
<1>6. cpu.general["EAX"] = t.general["EAX"]
  <2>1. CASE c.at = StubBase
    BY <2>1 DEF Restoring
  <2>2. CASE AXReloaded(code, c.at, t)
    <3>1. PICK d \in stub : d.at = cpu.eip - 4 /\ d.instr = LoadAX(GetX(t.general["EAX"]))
      BY <1>1, <2>2 DEF AXReloaded
    <3>2. d.at + 4 = cpu.eip
      BY <1>3, <3>1
    <3>3. t.general["EAX"] \in Wholes /\ cpu.general["EAX"] \in Wholes
      BY <1>5, HasEAX
    <3>4. GetX(t.general["EAX"]) \in Halves
      BY <3>3, HalvesOf
    <3>5. GetX(cpu.general["EAX"]) = GetX(t.general["EAX"])
      BY <3>1, <3>2, <3>4 DEF Restoring
    <3>6. High(cpu.general["EAX"]) = High(t.general["EAX"])
      BY DEF Restoring
    <3> QED
      BY <3>3, <3>5, <3>6, HalvesOf
  <2> QED
    BY <1>2, <2>1, <2>2
<1>7. cpu.general = t.general
  <2>1. \A g \in General : cpu.general[g] = t.general[g]
    BY <1>6 DEF Restoring
  <2> QED
    BY <1>5, <2>1
<1>8. \A s \in SegRegs \ {"CS"} : cpu.seg[s] = t.seg[s]
  BY <1>4 DEF Restoring, SegRegs, DataRegs, Loaded
<1>9. CASE c.instr = FarJump(t.seg["CS"], t.eip)
  <2>1. cpu' = [general |-> cpu.general, seg |-> [cpu.seg EXCEPT !["CS"] = t.seg["CS"]], eip |-> t.eip]
    BY <1>9, ExecutedIs
  <2>2. [cpu.seg EXCEPT !["CS"] = t.seg["CS"]] = t.seg
    BY <1>5, <1>8
  <2> QED
    BY <1>5, <1>7, <2>1, <2>2
<1>10. CASE c.instr = NearJump(c.at, t.eip) /\ t.seg["CS"] = mOSCodeSel
  <2>1. cpu' = [general |-> cpu.general, seg |-> cpu.seg,
                eip |-> ((cpu.eip + 5) + ((t.eip - (cpu.eip + 5)) % AddrMod)) % AddrMod]
    BY <1>10, ExecutedIs
  <2>2. cpu.seg = t.seg
    <3>1. cpu.seg["CS"] = t.seg["CS"]
      BY <1>10 DEF Restoring
    <3>2. \A s \in SegRegs : cpu.seg[s] = t.seg[s]
      BY <1>8, <3>1
    <3> QED
      BY <1>5, <3>2
  <2>3. cpu.eip + 5 \in Int
    BY <1>3
  <2>4. ((cpu.eip + 5) + ((t.eip - (cpu.eip + 5)) % AddrMod)) % AddrMod = t.eip
    BY <1>5, <2>3, RelativeJump
  <2> QED
    BY <1>5, <1>7, <2>1, <2>2, <2>4
<1> QED
  BY <1>2, <1>9, <1>10 DEF JumpsTo

-----------------------------------------------------------------------------
(* The invariant: who has the program's registers.                          *)

\* When the handler returns they are in the saved registers, or are what the stub restores.
Returning(t) ==
    \/ /\ ctx = t /\ t.eip # StubBase /\ t.seg["CS"] = mOSCodeSel
       /\ \A reg \in Loaded : t.seg[reg] = HostSegs[reg]
    \/ ctx = [t EXCEPT !.eip = StubBase] /\ StubRestores(t)

PhaseInv ==
    /\ phase = "program" => Wanted(cpu) = want
    /\ phase \in {"service", "emit"} => Wanted(ctx) = want /\ ctx.eip >= StubEnd
    /\ phase = "service" => ctx.eip \in CodeAddrs
    /\ phase = "return" => \E t \in Registers : Wanted(t) = want /\ Returning(t)
    /\ phase = "stub" => \E t \in Registers : Wanted(t) = want /\ StubRestores(t) /\ Restoring(t)

IInv == TypeOK /\ PhaseInv

LEMMA HostSelectors ==
    /\ HostSegs \in [SegRegs -> Halves] /\ HostSegs["CS"] = mOSCodeSel
    /\ NoContext \in Registers
<1>1. HostSegs \in [SegRegs -> Halves]
  BY Selectors DEF HostSegs, Halves
<1>2. AddrMod \in Nat /\ AddrMod > 0
  BY Addresses DEF LongestStub, StubEnd
<1>3. [g \in General |-> 0] \in [General -> Wholes]
  BY Numbers DEF Wholes
<1>4. NoContext.general = [g \in General |-> 0] /\ NoContext.seg = HostSegs /\ NoContext.eip = 0
  BY DEF NoContext
<1>5. NoContext \in Registers
  BY <1>1, <1>2, <1>3, <1>4, RegistersAre DEF NoContext
<1>6. HostSegs["CS"] = mOSCodeSel
  BY DEF HostSegs, SegRegs
<1> QED
  BY <1>1, <1>5, <1>6

LEMMA InitIInv == Init => IInv
<1> SUFFICES ASSUME Init PROVE IInv
  OBVIOUS
<1>1. PICK g \in [General -> Patterns], s \in [SegRegs -> Halves], e \in CodeAddrs :
         cpu = [general |-> g, seg |-> s, eip |-> e]
  BY Selectors DEF Init, ProgramRegs, Halves
<1>2. g \in [General -> Wholes]
  BY Widths DEF Wholes
<1>3. e \in Nat /\ e < AddrMod
  BY Addresses
<1>4. cpu.general = g /\ cpu.seg = s /\ cpu.eip = e
  BY <1>1
<1>5. cpu \in Registers
  BY <1>1, <1>2, <1>3, <1>4, RegistersAre
<1>6. ctx \in Registers
  BY HostSelectors DEF Init
<1>7. phase = "program" /\ stub = {} /\ writes = 0 /\ Wanted(cpu) = want
  BY DEF Init
<1> QED
  BY <1>5, <1>6, <1>7, WriteBound DEF IInv, TypeOK, PhaseInv

\* The kernel's part of a switch: the selectors of the host, FS excepted.
LEMMA KernelSegs ==
    ASSUME NEW regs, regs \in Registers
    PROVE  /\ [regs EXCEPT !.seg = [HostSegs EXCEPT !["FS"] = regs.seg["FS"]]] =
                 [general |-> regs.general, seg |-> [HostSegs EXCEPT !["FS"] = regs.seg["FS"]],
                  eip |-> regs.eip]
           /\ [regs EXCEPT !.seg = [HostSegs EXCEPT !["FS"] = regs.seg["FS"]]] \in Registers
<1> DEFINE seg == [HostSegs EXCEPT !["FS"] = regs.seg["FS"]]
           set == [general |-> regs.general, seg |-> seg, eip |-> regs.eip]
<1>1. /\ regs = [general |-> regs.general, seg |-> regs.seg, eip |-> regs.eip]
      /\ regs.general \in [General -> Wholes] /\ regs.seg \in [SegRegs -> Halves]
      /\ regs.eip \in Nat /\ regs.eip < AddrMod
  BY RegistersAre
<1>2. seg \in [SegRegs -> Halves]
  <2>1. "FS" \in SegRegs
    BY DEF SegRegs, DataRegs
  <2> QED
    BY <1>1, <2>1, HostSelectors
<1> HIDE DEF seg
<1>3. [regs EXCEPT !.seg = seg] = set
  BY <1>1
<1>4. set.general = regs.general /\ set.seg = seg /\ set.eip = regs.eip
  OBVIOUS
<1> HIDE DEF set
<1>5. set = [general |-> set.general, seg |-> set.seg, eip |-> set.eip]
  BY <1>4 DEF set
<1>6. set \in Registers
  BY <1>1, <1>2, <1>4, <1>5, RegistersAre
<1> QED
  BY <1>3, <1>6 DEF seg, set

LEMMA TrapStep == ASSUME IInv, Trap PROVE IInv'
<1>1. /\ phase = "program" /\ cpu \in Registers /\ Wanted(cpu) = want /\ writes' = 0
      /\ ctx' = cpu /\ stub' = stub /\ want' = want /\ cpu.eip \in CodeAddrs
      /\ cpu' = [cpu EXCEPT !.seg = [HostSegs EXCEPT !["FS"] = cpu.seg["FS"]]]
      /\ phase' = IF InStubRange(cpu.eip) THEN "refused" ELSE "service"
  BY DEF IInv, TypeOK, PhaseInv, Trap
<1>2. cpu' \in Registers
  BY <1>1, KernelSegs
<1>3. phase' = "service" => cpu.eip >= StubEnd
  <2>1. cpu.eip \in Nat /\ StubEnd \in Nat
    BY <1>1, RegistersAre, Addresses DEF StubEnd
  <2> QED
    BY <1>1, <2>1 DEF InStubRange
<1>4. Wanted(ctx)' = want'
  BY <1>1 DEF Wanted
<1>5. TypeOK'
  BY <1>1, <1>2, WriteBound DEF IInv, TypeOK
<1>6. PhaseInv'
  BY <1>1, <1>3, <1>4 DEF PhaseInv
<1> QED
  BY <1>5, <1>6 DEF IInv

LEMMA ServiceStep == ASSUME IInv, Service PROVE IInv'
<1>1. PICK g \in General, view \in Views, value \in Values :
         LET x == value % Count(view)
         IN /\ ctx' = [ctx EXCEPT !.general[g] = Set(view, @, x)]
            /\ want' = [want EXCEPT !.general[g] = Overlay(@, view, x)]
  BY DEF Service
<1> DEFINE x == value % Count(view)
           v == ctx.general[g]
           general == [ctx.general EXCEPT ![g] = Set(view, v, x)]
<1>2. /\ phase = "service" /\ phase' = phase /\ writes' = writes + 1 /\ writes < MaxWrites
      /\ cpu' = cpu /\ stub' = stub /\ ctx \in Registers /\ Wanted(ctx) = want
      /\ ctx.eip >= StubEnd /\ ctx.eip \in CodeAddrs
  BY DEF Service, IInv, TypeOK, PhaseInv
<1>3. x \in 0 .. Count(view) - 1
  <2>1. Count(view) \in Nat /\ Count(view) > 0
    BY Numbers DEF Views, Count
  <2>2. value \in Nat
    BY Widths
  <2> QED
    BY <2>1, <2>2
<1>4. /\ ctx = [general |-> ctx.general, seg |-> ctx.seg, eip |-> ctx.eip]
      /\ ctx.general \in [General -> Wholes] /\ ctx.seg \in [SegRegs -> Halves]
      /\ ctx.eip \in Nat /\ ctx.eip < AddrMod
  BY <1>2, RegistersAre
<1>5. Set(view, v, x) \in Wholes /\ BytesOf(Set(view, v, x)) = Overlay(BytesOf(v), view, x)
  <2>1. v \in Wholes
    BY <1>4
  <2> HIDE DEF v, x
  <2> QED
    BY <1>3, <2>1, SetIsOverlay
<1>6. ctx' = [general |-> general, seg |-> ctx.seg, eip |-> ctx.eip]
  <2>1. ctx' = [ctx EXCEPT !.general[g] = Set(view, @, x)]
    BY <1>1
  <2> HIDE DEF x
  <2> QED
    BY <1>4, <2>1
<1>7. want.general = [k \in General |-> BytesOf(ctx.general[k])]
      /\ want = [general |-> want.general, seg |-> ctx.seg, eip |-> ctx.eip]
  BY <1>2 DEF Wanted
<1>8. want' = [general |-> [want.general EXCEPT ![g] = Overlay(BytesOf(v), view, x)],
               seg |-> ctx.seg, eip |-> ctx.eip]
  <2>1. want' = [want EXCEPT !.general[g] = Overlay(@, view, x)]
    BY <1>1
  <2>2. want.general[g] = BytesOf(v)
    BY <1>7
  <2> HIDE DEF x, v
  <2> QED
    BY <1>7, <2>1, <2>2
<1>9. general \in [General -> Wholes] /\ general[g] = Set(view, v, x)
      /\ \A k \in General \ {g} : general[k] = ctx.general[k]
  BY <1>4, <1>5
<1>10. ctx'.general = general /\ ctx'.seg = ctx.seg /\ ctx'.eip = ctx.eip
  BY <1>6
<1> HIDE DEF x, v, general
<1>11. [k \in General |-> BytesOf(general[k])] =
          [want.general EXCEPT ![g] = Overlay(BytesOf(v), view, x)]
  BY <1>5, <1>7, <1>9
<1>12. Wanted(ctx)' = want'
  BY <1>8, <1>10, <1>11 DEF Wanted
<1>13. ctx' \in Registers
  BY <1>4, <1>6, <1>9, <1>10, RegistersAre
<1>14. writes' \in 0 .. MaxWrites
  BY <1>2, WriteBound DEF IInv, TypeOK
<1>15. TypeOK'
  BY <1>2, <1>13, <1>14 DEF IInv, TypeOK
<1>16. PhaseInv'
  BY <1>2, <1>10, <1>12 DEF PhaseInv
<1> QED
  BY <1>15, <1>16 DEF IInv

LEMMA ServiceDoneStep == ASSUME IInv, ServiceDone PROVE IInv'
<1>1. /\ phase = "service" /\ phase' = "emit" /\ cpu' = cpu /\ stub' = stub /\ writes' = writes
      /\ ctx \in Registers /\ Wanted(ctx) = want /\ ctx.eip >= StubEnd /\ ctx.eip \in CodeAddrs
      /\ ctx' = [ctx EXCEPT !.eip = (@ + InstrSize(@)) % AddrMod]
      /\ want' = [want EXCEPT !.eip = (@ + Length(@)) % AddrMod]
  BY DEF ServiceDone, IInv, TypeOK, PhaseInv
<1> DEFINE size == InstrSize(ctx.eip)
<1>0. size = Length(ctx.eip) /\ size \in {1, 2}
  BY <1>1, Instructions DEF InstrSize, Length, CodeAddrs
<1> HIDE DEF size
<1>2. /\ ctx = [general |-> ctx.general, seg |-> ctx.seg, eip |-> ctx.eip]
      /\ ctx.general \in [General -> Wholes] /\ ctx.seg \in [SegRegs -> Halves]
  BY <1>1, RegistersAre
<1>3. (ctx.eip + size) % AddrMod \in Nat /\ (ctx.eip + size) % AddrMod < AddrMod
      /\ (ctx.eip + size) % AddrMod >= StubEnd
  <2>1. ctx.eip \in 0 .. AddrMod - 3 /\ AddrMod \in Nat /\ StubEnd \in Nat
    BY <1>1, Addresses DEF StubEnd
  <2>2. (ctx.eip + size) % AddrMod = ctx.eip + size
    BY <1>0, <2>1
  <2> QED
    BY <1>0, <1>1, <2>1, <2>2
<1>4. ctx' = [general |-> ctx.general, seg |-> ctx.seg, eip |-> (ctx.eip + size) % AddrMod]
  <2>1. ctx' = [ctx EXCEPT !.eip = (ctx.eip + size) % AddrMod]
    BY <1>1 DEF size
  <2> QED
    BY <1>2, <2>1
<1>5. ctx'.general = ctx.general /\ ctx'.seg = ctx.seg /\ ctx'.eip = (ctx.eip + size) % AddrMod
  BY <1>4
<1>6. ctx' \in Registers
  BY <1>2, <1>3, <1>4, <1>5, RegistersAre
<1>7. want = [general |-> want.general, seg |-> ctx.seg, eip |-> ctx.eip]
      /\ want.general = [k \in General |-> BytesOf(ctx.general[k])]
  BY <1>1 DEF Wanted
<1>8. want' = [general |-> want.general, seg |-> ctx.seg, eip |-> (ctx.eip + size) % AddrMod]
  <2>1. want.eip = ctx.eip
    BY <1>7
  <2>2. want' = [want EXCEPT !.eip = (ctx.eip + size) % AddrMod]
    BY <1>0, <1>1, <2>1
  <2> QED
    BY <1>7, <2>2
<1>9. Wanted(ctx)' = want'
  BY <1>5, <1>7, <1>8 DEF Wanted
<1>10. TypeOK'
  BY <1>1, <1>6 DEF IInv, TypeOK
<1>11. PhaseInv'
  BY <1>1, <1>3, <1>5, <1>9 DEF PhaseInv
<1> QED
  BY <1>10, <1>11 DEF IInv

LEMMA EmitStubStep == ASSUME IInv, EmitStub PROVE IInv'
<1>1. /\ phase = "emit" /\ phase' = "return" /\ cpu' = cpu /\ writes' = writes /\ want' = want
      /\ ctx \in Registers /\ Wanted(ctx) = want /\ ctx.eip >= StubEnd
      /\ stub' = Code.written
      /\ ctx' = IF Code.buf > StubBase THEN [ctx EXCEPT !.eip = StubBase] ELSE ctx
  BY DEF EmitStub, IInv, TypeOK, PhaseInv
<1>2. /\ ctx = [general |-> ctx.general, seg |-> ctx.seg, eip |-> ctx.eip]
      /\ ctx.general \in [General -> Wholes] /\ ctx.seg \in [SegRegs -> Halves] /\ ctx.eip \in Nat
  BY <1>1, RegistersAre
<1>3. StubBase \in Nat /\ StubEnd \in Nat /\ StubBase < StubEnd /\ StubBase < AddrMod
  BY Addresses DEF StubEnd, LongestStub
<1>4. CASE Code.buf = StubBase /\ Code.written = {} /\ NothingToRestore
  <2>1. ctx' = ctx /\ stub' = {}
    BY <1>1, <1>3, <1>4
  <2>2. ctx.eip # StubBase
    BY <1>1, <1>2, <1>3
  <2>3. ctx' = ctx /\ ctx.seg["CS"] = mOSCodeSel /\ \A reg \in Loaded : ctx.seg[reg] = HostSegs[reg]
    BY <1>4, <2>1 DEF NothingToRestore
  <2>4. \E t \in Registers : Wanted(t) = want' /\ Returning(t)'
    <3>1. PICK t \in Registers : t = ctx
      BY <1>1
    <3>2. Wanted(t) = want'
      BY <1>1, <3>1
    <3>3. Returning(t)'
      BY <2>2, <2>3, <3>1 DEF Returning
    <3> QED
      BY <3>2, <3>3
  <2>5. TypeOK'
    BY <1>1, <2>1 DEF IInv, TypeOK
  <2>6. PhaseInv'
    BY <1>1, <2>4 DEF PhaseInv, Wanted
  <2> QED
    BY <2>5, <2>6 DEF IInv
<1>5. CASE Code.buf > StubBase /\ StubUpTo(Code, ctx)
  <2> DEFINE code == Code
  <2>1. StubUpTo(code, ctx) /\ stub' = code.written
    BY <1>1, <1>5
  <2>2. ctx' = [ctx EXCEPT !.eip = StubBase]
    BY <1>1, <1>5
  <2>3. ctx' \in Registers
    <3>1. ctx' = [general |-> ctx.general, seg |-> ctx.seg, eip |-> StubBase]
      BY <1>2, <2>2
    <3>2. ctx'.general = ctx.general /\ ctx'.seg = ctx.seg /\ ctx'.eip = StubBase
      BY <3>1
    <3> QED
      BY <1>2, <1>3, <3>1, <3>2, RegistersAre
  <2> HIDE DEF code
  <2>4. code.buf \in Nat /\ code.buf <= StubEnd /\ Laid(code)
    BY <2>1 DEF StubUpTo, Laid
  <2>5. \A c \in code.written : c.at \in StubBase .. (StubEnd - c.instr.size)
    <3> SUFFICES ASSUME NEW c \in code.written PROVE c.at \in StubBase .. (StubEnd - c.instr.size)
      OBVIOUS
    <3>1. c.at \in Nat /\ c.instr.size \in Nat /\ StubBase <= c.at /\ c.at + c.instr.size <= code.buf
      BY <2>4, NextInstruction
    <3> QED
      BY <1>3, <2>4, <3>1
  <2>6. StubUpTo([buf |-> code.buf, written |-> stub'], ctx)
    BY <2>1 DEF StubUpTo, Laid, InPlace, Apart, IsAt, IsLoad, Ends, AXReloaded, Restores
  <2>7. \E end \in Nat : StubUpTo([buf |-> end, written |-> stub'], ctx)
    BY <2>4, <2>6
  <2>8. \E t \in Registers : Wanted(t) = want' /\ Returning(t)'
    <3>1. PICK t \in Registers : t = ctx
      BY <1>1
    <3>2. Wanted(t) = want'
      BY <1>1, <3>1
    <3>3. \E end \in Nat : StubUpTo([buf |-> end, written |-> stub'], t)
      BY <2>7, <3>1
    <3>4. Returning(t)'
      BY <2>2, <3>1, <3>3 DEF Returning, StubRestores
    <3> QED
      BY <3>2, <3>4
  <2>9. TypeOK'
    BY <1>1, <2>1, <2>3, <2>5 DEF IInv, TypeOK
  <2>10. PhaseInv'
    BY <1>1, <2>8 DEF PhaseInv, Wanted
  <2> QED
    BY <2>9, <2>10 DEF IInv
<1> QED
  BY <1>1, <1>4, <1>5, CodeIsRight

LEMMA ReturnStep == ASSUME IInv, Return PROVE IInv'
<1>1. /\ phase = "return" /\ ctx' = NoContext /\ writes' = 0 /\ stub' = stub /\ want' = want
      /\ ctx \in Registers
      /\ cpu' = [ctx EXCEPT !.seg = [HostSegs EXCEPT !["FS"] = ctx.seg["FS"]]]
      /\ phase' = IF ctx.eip = StubBase THEN "stub" ELSE "program"
  BY DEF Return, IInv, TypeOK
<1>2. cpu' \in Registers
  BY <1>1, KernelSegs
<1>3. cpu'.general = ctx.general /\ cpu'.eip = ctx.eip
      /\ cpu'.seg = [HostSegs EXCEPT !["FS"] = ctx.seg["FS"]]
  <2>1. cpu' = [general |-> ctx.general, seg |-> [HostSegs EXCEPT !["FS"] = ctx.seg["FS"]],
                eip |-> ctx.eip]
    BY <1>1, KernelSegs
  <2> QED
    BY <2>1
<1>4. TypeOK'
  BY <1>1, <1>2, HostSelectors, WriteBound DEF IInv, TypeOK
<1>5. PICK t \in Registers : Wanted(t) = want /\ Returning(t)
  BY <1>1 DEF IInv, PhaseInv
<1>6. /\ t = [general |-> t.general, seg |-> t.seg, eip |-> t.eip]
      /\ t.general \in [General -> Wholes] /\ t.seg \in [SegRegs -> Halves]
  BY RegistersAre
<1>7. /\ \A s \in Loaded : cpu'.seg[s] = HostSegs[s]
      /\ cpu'.seg["CS"] = mOSCodeSel /\ cpu'.seg["FS"] = ctx.seg["FS"]
      /\ cpu'.seg \in [SegRegs -> Halves]
  <2>1. "FS" \in SegRegs /\ "CS" \in SegRegs /\ Loaded \subseteq SegRegs /\ "FS" \notin Loaded
    BY DEF Loaded, SegRegs, DataRegs
  <2>2. cpu'.seg \in [SegRegs -> Halves]
    BY <1>2, RegistersAre
  <2> QED
    BY <1>3, <2>1, <2>2, HostSelectors
<1>8. CASE /\ ctx = t /\ t.eip # StubBase /\ t.seg["CS"] = mOSCodeSel
           /\ \A reg \in Loaded : t.seg[reg] = HostSegs[reg]
  <2>1. phase' = "program"
    BY <1>1, <1>8
  <2>2. cpu'.seg = t.seg
    <3>1. \A s \in SegRegs : cpu'.seg[s] = t.seg[s]
      BY <1>7, <1>8 DEF SegRegs, DataRegs, Loaded
    <3> QED
      BY <1>6, <1>7, <3>1
  <2>3. Wanted(cpu)' = want'
    BY <1>1, <1>3, <1>5, <1>8, <2>2 DEF Wanted
  <2>4. PhaseInv'
    BY <2>1, <2>3 DEF PhaseInv
  <2> QED
    BY <1>4, <2>4 DEF IInv
<1>9. CASE ctx = [t EXCEPT !.eip = StubBase] /\ StubRestores(t)
  <2>1. ctx.eip = StubBase /\ ctx.general = t.general /\ ctx.seg = t.seg
    BY <1>6, <1>9
  <2>2. PICK end \in Nat : StubUpTo([buf |-> end, written |-> stub], t)
    BY <1>9 DEF StubRestores
  <2> DEFINE code == [buf |-> end, written |-> stub]
  <2>3. code.buf = end /\ code.written = stub /\ Laid(code) /\ StubBase < end
    BY <2>2 DEF StubUpTo
  <2> HIDE DEF code
  <2>4. StubBase \in Nat
    BY Addresses
  <2>5. \E c \in stub : c.at = StubBase
    BY <2>3, <2>4 DEF Laid, IsAt
  <2>6. \A d \in stub : d.at \in Nat /\ StubBase <= d.at
    BY <2>3, NextInstruction
  <2>7. Restoring(t)'
    <3>1. \E c \in stub' : c.at = cpu'.eip
      BY <1>1, <1>3, <2>1, <2>5
    <3>2. \A c \in stub' : c.at >= cpu'.eip
      BY <1>1, <1>3, <2>1, <2>6
    <3>3. ~\E d \in stub' : d.at + 4 = cpu'.eip
      BY <1>1, <1>3, <2>1, <2>4, <2>6
    <3>4. cpu'.general = t.general /\ cpu'.seg["FS"] = t.seg["FS"] /\ cpu'.seg["CS"] = mOSCodeSel
      BY <1>3, <1>7, <2>1
    <3> QED
      BY <1>7, <3>1, <3>2, <3>3, <3>4 DEF Restoring
  <2>8. StubRestores(t)'
    BY <1>1, <1>9 DEF StubRestores
  <2>9. phase' = "stub"
    BY <1>1, <2>1
  <2>10. PhaseInv'
    BY <1>1, <1>5, <2>7, <2>8, <2>9 DEF PhaseInv
  <2> QED
    BY <1>4, <2>10 DEF IInv
<1> QED
  BY <1>5, <1>8, <1>9 DEF Returning

LEMMA StubStepStep == ASSUME IInv, StubStep PROVE IInv'
<1>1. /\ phase = "stub" /\ ctx' = ctx /\ writes' = writes /\ want' = want /\ cpu \in Registers
  BY DEF StubStep, IInv, TypeOK
<1>2. PICK c \in stub :
         /\ c.at = cpu.eip /\ cpu' = Executed(c.instr)
         /\ \/ c.instr.op \in Jumps /\ phase' = "program" /\ stub' = {}
            \/ c.instr.op \notin Jumps /\ phase' = phase /\ stub' = stub
  BY DEF StubStep
<1>3. PICK t \in Registers : Wanted(t) = want /\ StubRestores(t) /\ Restoring(t)
  BY <1>1 DEF IInv, PhaseInv
<1>4. PICK end \in Nat : StubUpTo([buf |-> end, written |-> stub], t)
  BY <1>3 DEF StubRestores
<1>5. IsLoad([buf |-> end, written |-> stub], c, t) \/ Ends([buf |-> end, written |-> stub], c, t)
  BY <1>4 DEF StubUpTo
<1>6. ASSUME cpu' \in Registers, Restoring(t)', c.instr.op \notin Jumps
      PROVE  IInv'
  <2>1. phase' = "stub" /\ stub' = stub
    BY <1>1, <1>2, <1>6
  <2>2. TypeOK'
    BY <1>1, <1>6, <2>1 DEF IInv, TypeOK
  <2>3. StubRestores(t)'
    BY <1>3, <2>1 DEF StubRestores
  <2>4. PhaseInv'
    BY <1>1, <1>3, <1>6, <2>1, <2>3 DEF PhaseInv
  <2> QED
    BY <2>2, <2>4 DEF IInv
<1>7. CASE \E v \in Halves : c.instr = LoadAX(v)
  <2>1. PICK v \in Halves : c.instr = LoadAX(v)
    BY <1>7
  <2>2. c.instr.op \notin Jumps
    BY <2>1, SizesOfCode DEF Jumps
  <2>3. stub' = stub
    BY <1>2, <2>2
  <2>4. cpu' \in Registers /\ Restoring(t)'
    BY <1>1, <1>2, <1>3, <1>4, <2>1, <2>3, LoadAXStep
  <2> QED
    BY <1>6, <2>2, <2>4
<1>8. CASE \E reg \in Loaded : /\ c.instr = LoadSegReg(reg)
                               /\ \E d \in stub : d.at = c.at - 4 /\ d.instr = LoadAX(t.seg[reg])
  <2>1. PICK reg \in Loaded : /\ c.instr = LoadSegReg(reg)
                              /\ \E d \in stub : d.at = c.at - 4 /\ d.instr = LoadAX(t.seg[reg])
    BY <1>8
  <2>2. PICK ax \in stub : ax.at = c.at - 4 /\ ax.instr = LoadAX(t.seg[reg])
    BY <2>1
  <2>3. c.instr.op \notin Jumps
    BY <2>1, SizesOfCode DEF Jumps
  <2>4. stub' = stub
    BY <1>2, <2>3
  <2>5. cpu' \in Registers /\ Restoring(t)'
    BY <1>1, <1>2, <1>3, <1>4, <2>1, <2>2, <2>4, LoadSegStep
  <2> QED
    BY <1>6, <2>3, <2>5
<1>9. CASE Ends([buf |-> end, written |-> stub], c, t)
  <2>1. cpu' = t
    BY <1>1, <1>2, <1>3, <1>4, <1>9, JumpStep
  <2>2. c.instr.op \in Jumps
    BY <1>9, SizesOfCode DEF Ends, JumpsTo, Jumps
  <2>3. phase' = "program" /\ stub' = {}
    BY <1>2, <2>2
  <2>4. TypeOK'
    BY <1>1, <2>1, <2>3 DEF IInv, TypeOK
  <2>5. PhaseInv'
    BY <1>1, <1>3, <2>1, <2>3 DEF PhaseInv, Wanted
  <2> QED
    BY <2>4, <2>5 DEF IInv
<1> QED
  BY <1>5, <1>7, <1>8, <1>9 DEF IsLoad

LEMMA StubInterruptedStep == ASSUME IInv, StubInterrupted PROVE IInv'
<1>1. /\ phase = "stub" /\ ctx' = cpu /\ writes' = 0 /\ cpu' = cpu /\ stub' = stub /\ want' = want
      /\ cpu \in Registers /\ phase' = IF InStubRange(cpu.eip) THEN "refused" ELSE "service"
  BY DEF StubInterrupted, IInv, TypeOK
<1>2. PICK t \in Registers : StubRestores(t) /\ Restoring(t)
  BY <1>1 DEF IInv, PhaseInv
<1>3. PICK end \in Nat : StubUpTo([buf |-> end, written |-> stub], t)
  BY <1>2 DEF StubRestores
<1>4. PICK c \in stub : c.at = cpu.eip
  BY <1>2 DEF Restoring
<1>5. InStubRange(cpu.eip)
  <2> DEFINE code == [buf |-> end, written |-> stub]
  <2>1. code.buf = end /\ code.written = stub /\ Laid(code) /\ end <= StubEnd
    BY <1>3 DEF StubUpTo
  <2> HIDE DEF code
  <2>2. c.at \in Nat /\ c.instr.size \in Nat /\ c.instr.size > 0 /\ c.at + c.instr.size <= end
    BY <2>1, NextInstruction
  <2>3. StubEnd \in Nat
    BY Addresses DEF StubEnd
  <2>4. cpu.eip < StubEnd
    BY <1>4, <2>1, <2>2, <2>3
  <2> QED
    BY <2>4 DEF InStubRange
<1>6. phase' = "refused"
  BY <1>1, <1>5
<1>7. TypeOK'
  BY <1>1, <1>6, WriteBound DEF IInv, TypeOK
<1> QED
  BY <1>6, <1>7 DEF IInv, PhaseInv

LEMMA ComputeStep == ASSUME IInv, Compute PROVE IInv'
<1>1. /\ phase = "program" /\ phase' = phase /\ ctx' = ctx /\ stub' = stub /\ writes' = writes
      /\ cpu \in Registers /\ want' = Wanted(cpu')
  BY DEF Compute, IInv, TypeOK
<1>2. /\ cpu = [general |-> cpu.general, seg |-> cpu.seg, eip |-> cpu.eip]
      /\ cpu.general \in [General -> Wholes] /\ cpu.seg \in [SegRegs -> Halves]
      /\ cpu.eip \in Nat /\ cpu.eip < AddrMod
  BY <1>1, RegistersAre
<1>3. ASSUME NEW reg \in SegRegs, NEW sel \in Halves, cpu' = [cpu EXCEPT !.seg[reg] = sel]
      PROVE  cpu' \in Registers
  <2>1. cpu' = [general |-> cpu.general, seg |-> [cpu.seg EXCEPT ![reg] = sel], eip |-> cpu.eip]
    BY <1>2, <1>3
  <2>2. [cpu.seg EXCEPT ![reg] = sel] \in [SegRegs -> Halves]
    BY <1>2
  <2>3. cpu'.general = cpu.general /\ cpu'.seg = [cpu.seg EXCEPT ![reg] = sel] /\ cpu'.eip = cpu.eip
    BY <2>1
  <2> QED
    BY <1>2, <2>1, <2>2, <2>3, RegistersAre
<1>4. ASSUME NEW g \in General, NEW v \in Wholes, cpu' = [cpu EXCEPT !.general[g] = v]
      PROVE  cpu' \in Registers
  <2>1. cpu' = [general |-> [cpu.general EXCEPT ![g] = v], seg |-> cpu.seg, eip |-> cpu.eip]
    BY <1>2, <1>4
  <2>2. [cpu.general EXCEPT ![g] = v] \in [General -> Wholes]
    BY <1>2
  <2>3. cpu'.general = [cpu.general EXCEPT ![g] = v] /\ cpu'.seg = cpu.seg /\ cpu'.eip = cpu.eip
    BY <2>1
  <2> QED
    BY <1>2, <2>1, <2>2, <2>3, RegistersAre
<1>5. ASSUME NEW e \in CodeAddrs, cpu' = [cpu EXCEPT !.eip = e]
      PROVE  cpu' \in Registers
  <2>1. cpu' = [general |-> cpu.general, seg |-> cpu.seg, eip |-> e]
    BY <1>2, <1>5
  <2>2. e \in Nat /\ e < AddrMod
    BY Addresses
  <2>3. cpu'.general = cpu.general /\ cpu'.seg = cpu.seg /\ cpu'.eip = e
    BY <2>1
  <2> QED
    BY <1>2, <2>1, <2>2, <2>3, RegistersAre
<1>6. ProgramSels \subseteq Halves /\ Patterns \subseteq Wholes /\ \A reg \in SegRegs : HostSegs[reg] \in Halves
  BY Selectors, Widths, HostSelectors DEF Halves, Wholes
<1>7. cpu' \in Registers
  BY <1>3, <1>4, <1>5, <1>6 DEF Compute
<1>8. TypeOK'
  BY <1>1, <1>7 DEF IInv, TypeOK
<1>9. PhaseInv'
  BY <1>1 DEF PhaseInv, Wanted
<1> QED
  BY <1>8, <1>9 DEF IInv

LEMMA NextIInv == IInv /\ [Next]_vars => IInv'
<1>1. ASSUME IInv, UNCHANGED vars PROVE IInv'
  BY <1>1 DEF vars, IInv, TypeOK, PhaseInv, Wanted, Returning, StubRestores, Restoring
<1> QED
  BY <1>1, TrapStep, ServiceStep, ServiceDoneStep, EmitStubStep, ReturnStep, StubStepStep,
     StubInterruptedStep, ComputeStep DEF Next

LEMMA Invariance == Spec => []IInv
  BY InitIInv, NextIInv, PTL DEF Spec

-----------------------------------------------------------------------------
(* What follows.                                                            *)

\* Registers and selectors stay within their widths, whatever is written through whichever
\* view and however the stub jumps, and the code stays inside mRestoreSegRegsCode.
THEOREM TypeCorrect == Spec => []TypeOK
  BY Invariance, PTL DEF IInv

\* After a service the program goes on with the registers it had, but for what the service
\* has written: for every choice of segment registers it had changed, and wherever it and
\* the stub lie.
THEOREM RegistersAreRestored == Spec => []ResumesIntact
<1>1. IInv => ResumesIntact
  BY DEF IInv, PhaseInv, ResumesIntact
<1> QED
  BY <1>1, Invariance, PTL

\* No service is ever given the registers of a stub half way through.
THEOREM ServicesSeeProgram == Spec => []ServiceSeesProgram
<1>1. IInv => ServiceSeesProgram
  BY DEF IInv, PhaseInv, ServiceSeesProgram
<1> QED
  BY <1>1, Invariance, PTL
=============================================================================
