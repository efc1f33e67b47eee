-------------------------- MODULE HandleTable_proofs --------------------------
(***************************************************************************)
(* Proofs about HandleTable, for every size of the table, every width of   *)
(* the counter that can hold it twice over, every set of objects and every *)
(* content of the block the constructor got from operator new.             *)
(***************************************************************************)
EXTENDS HandleTable, FiniteSetTheorems, TLAPS

\* The inductive invariant: the type of the state, a counter that is off by the
\* strays, and no endless or out-of-bounds loop in a block without strays.
IInv == TypeOK /\ CountOffByStrays /\ AllocateTerminates

\* The entries of the table are finitely many.
LEMMA HandlesFinite ==
    /\ IsFiniteSet(Handles)
    /\ Cardinality(Handles) = MaxEntries
  BY HandleTableAssumption, FS_Interval DEF Handles

\* The entries in use are finitely many, at most all of them, and exactly all of
\* them when there are MaxEntries: this is what makes the counter a test for "full".
LEMMA UsedFinite ==
    /\ IsFiniteSet(Used)
    /\ Cardinality(Used) \in 0 .. MaxEntries
    /\ Cardinality(Used) = MaxEntries <=> Used = Handles
<1>1. Used \subseteq Handles
  BY DEF Used
<1>2. /\ IsFiniteSet(Used)
      /\ Cardinality(Used) <= MaxEntries
      /\ Cardinality(Used) = MaxEntries => Used = Handles
  BY <1>1, HandlesFinite, FS_Subset
<1>3. Cardinality(Used) \in Nat
  BY <1>2, FS_CardinalityType
<1> QED
  BY <1>2, <1>3, HandlesFinite, HandleTableAssumption

\* What the counter says, without the case distinction of its wrap: a counter that
\* has not wrapped is at most MaxEntries and counts, one that has is beyond twice that.
LEMMA CounterReads ==
  ASSUME TypeOK, CountOffByStrays
  PROVE  /\ mNumEntries <= MaxEntries => mNumEntries = Cardinality(Used) - strays
         /\ mNumEntries > MaxEntries => strays # 0
  BY UsedFinite, HandleTableAssumption DEF TypeOK, CountOffByStrays

\* Storing an object in a free entry adds that entry to those in use.
LEMMA StoreAddsOne ==
  ASSUME TypeOK, CountOffByStrays, strays' = strays,
         NEW o \in Objects, NEW h \in Handles, mObjects[h] = NULL, Store(o, h)
  PROVE  /\ mObjects' \in [Handles -> Objects \cup Strays \cup {NULL}]
         /\ mNumEntries' \in 0 .. CountMod - 1
         /\ CountOffByStrays'
<1>1. mObjects' \in [Handles -> Objects \cup Strays \cup {NULL}]
  BY DEF TypeOK, Store
<1>2. Used' = Used \cup {h} /\ h \notin Used
  BY HandleTableAssumption DEF Used, Store, TypeOK
<1>3. Cardinality(Used') = Cardinality(Used) + 1
  BY <1>2, UsedFinite, FS_AddElement
<1>4. mNumEntries' = IF mNumEntries = CountMod - 1 THEN 0 ELSE mNumEntries + 1
  BY DEF Store, Increment
<1>5. Cardinality(Used) \in 0 .. MaxEntries
  BY UsedFinite
<1> QED
  BY <1>1, <1>3, <1>4, <1>5, HandleTableAssumption DEF CountOffByStrays, TypeOK

\* Releasing an entry in use removes it from those in use.
LEMMA ReleaseRemovesOne ==
  ASSUME TypeOK, CountOffByStrays, strays' = strays,
         NEW h \in HandleArgs, ReleaseValid(h)
  PROVE  /\ mObjects' \in [Handles -> Objects \cup Strays \cup {NULL}]
         /\ mNumEntries' \in 0 .. CountMod - 1
         /\ CountOffByStrays'
<1>1. h \in Handles /\ h \in Used
  BY HandleTableAssumption DEF ReleaseValid, Valid, Used, Handles, HandleArgs
<1>2. mObjects' \in [Handles -> Objects \cup Strays \cup {NULL}]
  BY <1>1 DEF TypeOK, ReleaseValid
<1>3. Used' = Used \ {h}
  BY <1>1 DEF Used, ReleaseValid, TypeOK
<1>4. Cardinality(Used') = Cardinality(Used) - 1
  BY <1>1, <1>3, UsedFinite, FS_RemoveElement
<1>5. Cardinality(Used) > 0
  BY <1>1, UsedFinite, FS_EmptySet, FS_CardinalityType
<1>6. mNumEntries' = IF mNumEntries = 0 THEN CountMod - 1 ELSE mNumEntries - 1
  BY DEF ReleaseValid, Decrement
<1>7. Cardinality(Used) \in 0 .. MaxEntries
  BY UsedFinite
<1> QED
  BY <1>2, <1>4, <1>5, <1>6, <1>7, HandleTableAssumption DEF CountOffByStrays, TypeOK

\* A block without strays has a free entry whenever the counter says so.
LEMMA NeverSpinsCleared ==
  ASSUME IInv, AllocateSpins PROVE strays # 0
<1>1. Cardinality(Used) = MaxEntries /\ mNumEntries < MaxEntries
  BY UsedFinite DEF AllocateSpins
<1> QED
  BY <1>1, CounterReads, HandleTableAssumption DEF IInv, TypeOK

LEMMA InitIInv == Init => IInv
<1> SUFFICES ASSUME Init PROVE IInv
  OBVIOUS
<1>1. mObjects \in [Handles -> Strays \cup {NULL}]
  BY HandleTableAssumption DEF Init
<1>2. TypeOK
  BY <1>1, UsedFinite, HandleTableAssumption DEF Init, TypeOK
<1>3. CountOffByStrays
  BY UsedFinite, HandleTableAssumption DEF CountOffByStrays, Init
<1> QED
  BY <1>2, <1>3 DEF IInv, AllocateTerminates, Init

LEMMA NextIInv == IInv /\ [Next]_vars => IInv'
<1> SUFFICES ASSUME IInv, [Next]_vars PROVE IInv'
  OBVIOUS
<1>0. strays' = strays
  BY DEF Next, vars
<1>a. mObjects' = mObjects => Used' = Used
  BY DEF Used
<1>1. ASSUME NEW o \in Objects, Allocate(o) PROVE IInv'
  <2>1. PICK h \in Handles : ProbeStopsAt(mNumEntries, h) /\ Store(o, h)
    BY <1>1 DEF Allocate
  <2>2. mObjects[h] = NULL
    BY <2>1 DEF ProbeStopsAt
  <2> QED
    BY <1>0, <1>1, <2>1, <2>2, StoreAddsOne
       DEF IInv, TypeOK, AllocateTerminates, Allocate
<1>2. ASSUME NEW o \in Objects, AllocateOutOfBounds(o) PROVE IInv'
  <2>1. strays # 0
    BY <1>2, CounterReads DEF AllocateOutOfBounds, IInv
  <2>2. CASE \E h \in Handles : ProbeStopsAt(0, h) /\ Store(o, h) /\ UNCHANGED status
    <3>1. PICK h \in Handles : ProbeStopsAt(0, h) /\ Store(o, h) /\ UNCHANGED status
      BY <2>2
    <3>2. mObjects[h] = NULL
      BY <3>1 DEF ProbeStopsAt
    <3> QED
      BY <1>0, <2>1, <3>1, <3>2, StoreAddsOne DEF IInv, TypeOK, AllocateTerminates
  <2>3. CASE status' \in {"corrupt", "spinning"} /\ UNCHANGED <<mObjects, mNumEntries>>
    BY <1>0, <1>a, <2>1, <2>3 DEF IInv, TypeOK, CountOffByStrays, AllocateTerminates
  <2> QED
    BY <1>2, <2>2, <2>3 DEF AllocateOutOfBounds
<1>3. CASE AllocateRefused
  BY <1>0, <1>a, <1>3
     DEF AllocateRefused, IInv, TypeOK, CountOffByStrays, AllocateTerminates
<1>4. CASE AllocateSpins
  BY <1>0, <1>a, <1>4, NeverSpinsCleared
     DEF AllocateSpins, IInv, TypeOK, CountOffByStrays, AllocateTerminates
<1>5. ASSUME NEW h \in HandleArgs, Get(h) PROVE IInv'
  BY <1>0, <1>a, <1>5 DEF Get, IInv, TypeOK, CountOffByStrays, AllocateTerminates
<1>6. ASSUME NEW h \in HandleArgs, ReleaseValid(h) PROVE IInv'
  BY <1>0, <1>6, ReleaseRemovesOne DEF IInv, TypeOK, AllocateTerminates, ReleaseValid
<1>7. ASSUME NEW h \in HandleArgs, ReleaseInvalid(h) PROVE IInv'
  BY <1>0, <1>a, <1>7
     DEF ReleaseInvalid, IInv, TypeOK, CountOffByStrays, AllocateTerminates
<1>8. CASE UNCHANGED vars
  BY <1>a, <1>8 DEF vars, IInv, TypeOK, CountOffByStrays, AllocateTerminates
<1> QED
  BY <1>1, <1>2, <1>3, <1>4, <1>5, <1>6, <1>7, <1>8 DEF Next

\* IInv holds in every reachable state.
LEMMA Invariance == Spec => []IInv
  BY InitIInv, NextIInv, PTL DEF Spec

\* The variables keep their types: a handle stays within the block, the counter
\* within uint16_t.
THEOREM TypeCorrect == Spec => []TypeOK
  BY Invariance, PTL DEF IInv

\* mNumEntries is the number of entries in use after any sequence of calls, less the
\* strays the block began with.
THEOREM CountIsOffByStrays == Spec => []CountOffByStrays
  BY Invariance, PTL DEF IInv

\* In a block that was cleared, the loop of HandleTable::allocate always ends inside it.
THEOREM AllocateAlwaysTerminates == Spec => []AllocateTerminates
  BY Invariance, PTL DEF IInv

-----------------------------------------------------------------------------
(* The table implements HandleAllocator, under the mapping that reads the   *)
(* entries in use as a partial function from handles to objects.            *)

openMap == [h \in Used |-> mObjects[h]]

LEMMA InitRefines == Init => Abstract!Init
<1> SUFFICES ASSUME Init PROVE Abstract!Init
  OBVIOUS
<1>1. DOMAIN openMap = Used /\ Used \subseteq Handles
  BY DEF openMap, Used
<1>2. openMap = [h \in DOMAIN openMap |-> openMap[h]]
  BY DEF openMap
<1> QED
  BY <1>1, <1>2 DEF Init, Abstract!Init, openMap

LEMMA AllocateRefines ==
  ASSUME IInv, NEW o \in Objects, NEW start, NEW h \in Handles,
         ProbeStopsAt(start, h), Store(o, h),
         reply' = [call |-> "allocate", ok |-> TRUE, value |-> h]
  PROVE  Abstract!Allocate(o)
<1>1. mObjects[h] = NULL
  BY DEF ProbeStopsAt
<1>2. h \in Handles \ Used /\ Used' = Used \cup {h}
  BY <1>1, HandleTableAssumption DEF Store, Used, IInv, TypeOK
<1>3. DOMAIN openMap = Used
  BY DEF openMap
<1>4. openMap' = [k \in Used \cup {h} |-> IF k = h THEN o ELSE openMap[k]]
  BY <1>1, <1>2 DEF openMap, Store, Used, IInv, TypeOK
<1> QED
  BY <1>1, <1>2, <1>3, <1>4 DEF Abstract!Allocate, openMap

LEMMA ReleaseRefines ==
  ASSUME IInv, NEW h \in HandleArgs, ReleaseValid(h)
  PROVE  Abstract!Release(h)
<1>1. h \in Used /\ Used' = Used \ {h}
  BY HandleTableAssumption
     DEF ReleaseValid, Valid, Used, Handles, HandleArgs, IInv, TypeOK
<1>2. openMap' = [k \in Used \ {h} |-> openMap[k]]
  BY <1>1 DEF openMap, ReleaseValid, Used, IInv, TypeOK
<1>3. DOMAIN openMap = Used /\ openMap[h] = mObjects[h]
  BY <1>1 DEF openMap
<1> QED
  BY <1>1, <1>2, <1>3 DEF Abstract!Release, ReleaseValid, openMap

\* What Valid tests is whether the handle is in use.
LEMMA ValidIsUsed ==
  ASSUME NEW h \in HandleArgs
  PROVE  Valid(h) <=> h \in Used
  BY HandleTableAssumption DEF Valid, Used, Handles, HandleArgs

LEMMA NextRefines == IInv /\ [Next]_vars => [Abstract!Next]_<<openMap, reply>>
<1> SUFFICES ASSUME IInv, [Next]_vars PROVE [Abstract!Next]_<<openMap, reply>>
  OBVIOUS
<1>0. (mObjects' = mObjects => openMap' = openMap) /\ DOMAIN openMap = Used
  BY DEF openMap, Used
<1>1. ASSUME NEW o \in Objects, Allocate(o) PROVE Abstract!Next
  <2>1. Abstract!Allocate(o)
    BY <1>1, AllocateRefines DEF Allocate
  <2> QED
    BY <2>1 DEF Abstract!Next
<1>2. ASSUME NEW o \in Objects, AllocateOutOfBounds(o),
             ~UNCHANGED <<openMap, reply>>
      PROVE  Abstract!Next
  <2>1. Abstract!Allocate(o)
    BY <1>0, <1>2, AllocateRefines DEF AllocateOutOfBounds
  <2> QED
    BY <2>1 DEF Abstract!Next
<1>3. ASSUME AllocateRefused PROVE Abstract!AllocateRefused
  <2>1. Cardinality(Used) - strays = MaxEntries
    BY <1>3, CounterReads, HandleTableAssumption DEF AllocateRefused, IInv
  <2>2. Used = Handles
    BY <2>1, UsedFinite, HandleTableAssumption DEF IInv, TypeOK
  <2> QED
    BY <1>0, <1>3, <2>2 DEF AllocateRefused, Abstract!AllocateRefused, openMap
<1>4. ASSUME AllocateSpins PROVE UNCHANGED <<openMap, reply>>
  BY <1>0, <1>4 DEF AllocateSpins
<1>5. ASSUME NEW h \in HandleArgs, Get(h) PROVE Abstract!Get(h)
  BY <1>0, <1>5, ValidIsUsed DEF Get, Abstract!Get, openMap
<1>6. ASSUME NEW h \in HandleArgs, ReleaseValid(h) PROVE Abstract!Next
  BY <1>6, ReleaseRefines DEF Abstract!Next
<1>7. ASSUME NEW h \in HandleArgs, ReleaseInvalid(h) PROVE Abstract!Release(h)
  BY <1>0, <1>7, ValidIsUsed DEF ReleaseInvalid, Abstract!Release, openMap
<1>8. ASSUME UNCHANGED vars PROVE UNCHANGED <<openMap, reply>>
  BY <1>0, <1>8 DEF vars
<1> QED
  BY <1>1, <1>2, <1>3, <1>4, <1>5, <1>6, <1>7, <1>8 DEF Next, Abstract!Next

\* HandleTable keeps the promise of HandleAllocator, whatever the block held: no handle
\* in use is given out again, a handle names its object until it is released, and
\* allocation fails only when every handle is in use.
THEOREM TableImplementsAllocator == Spec => ImplementsAllocator
<1>1. IInv /\ [Next]_vars => [Abstract!Next]_<<[h \in Used |-> mObjects[h]], reply>>
  BY NextRefines DEF openMap
<1> QED
  BY <1>1, Invariance, InitRefines, PTL DEF Spec, ImplementsAllocator, Abstract!Spec
==============================================================================
