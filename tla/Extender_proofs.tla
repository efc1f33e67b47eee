---------------------------- MODULE Extender_proofs ----------------------------
(***************************************************************************)
(* Proofs about Extender, for every size of a page, a word and a block,    *)
(* every number of blocks and every LDT the host starts the process with.  *)
(***************************************************************************)
EXTENDS Extender, FiniteSetTheorems, WellFoundedInduction, TLAPS

-----------------------------------------------------------------------------
(* Induction over finite sets.  The library's theorem has a predicate as a  *)
(* parameter; here it is a set of counterexamples, which has a smallest one.*)

LEMMA LeastOf ==
    ASSUME NEW T \in SUBSET Nat, T # {}
    PROVE  \E n \in T : \A m \in T : n <= m
<1> DEFINE Less == {ss \in Nat \X Nat : ss[1] < ss[2]}
<1>1. IsWellFoundedOn(Less, Nat)
  BY NatLessThanWellFounded DEF OpToRel
<1> HIDE DEF Less
<1>2. PICK n \in T : \A m \in T : ~(<<m, n>> \in Less)
  BY <1>1, WFMin
<1>3. ASSUME NEW m \in T
      PROVE  n <= m
  <2>1. ~(<<m, n>> \in Less)
    BY <1>2
  <2>2. ~(m < n)
    BY <2>1 DEF Less
  <2> QED
    BY <2>2
<1> QED
  BY <1>3

\* A set of finite sets that holds, with a set, one of a smaller size is empty.
LEMMA NoSmallest ==
    ASSUME NEW T, \A s \in T : IsFiniteSet(s),
           \A s \in T : \E t \in T : Cardinality(t) < Cardinality(s)
    PROVE  T = {}
<1> DEFINE C == {Cardinality(s) : s \in T}
<1>1. \A s \in T : Cardinality(s) \in Nat
  BY FS_CardinalityType
<1>2. ASSUME T # {}
      PROVE  FALSE
  <2>1. C \in SUBSET Nat /\ C # {}
    BY <1>1, <1>2
  <2>2. PICK n \in C : \A m \in C : n <= m
    <3> HIDE DEF C
    <3> QED
      BY <2>1, LeastOf
  <2>3. PICK s \in T : n = Cardinality(s)
    OBVIOUS
  <2>4. PICK t \in T : Cardinality(t) < Cardinality(s)
    OBVIOUS
  <2>5. n <= Cardinality(t)
    BY <2>2
  <2> QED
    BY <1>1, <2>3, <2>4, <2>5
<1> QED
  BY <1>2

LEMMA OneLess ==
    ASSUME NEW S, IsFiniteSet(S), NEW x \in S
    PROVE  /\ IsFiniteSet(S \ {x}) /\ Cardinality(S \ {x}) < Cardinality(S)
           /\ Cardinality(S) \in Nat /\ Cardinality(S \ {x}) = Cardinality(S) - 1
<1>1. Cardinality(S) \in Nat
  BY FS_CardinalityType
<1>2. IsFiniteSet(S \ {x}) /\ Cardinality(S \ {x}) = Cardinality(S) - 1
  BY FS_RemoveElement
<1> QED
  BY <1>1, <1>2

-----------------------------------------------------------------------------
(* Sums.                                                                    *)

Pick(s) == CHOOSE x \in s : TRUE

\* What MapThenSumSet computes: g[s] is the sum of f over s, for each s in D.
IsSum(g, f, D) == g = [s \in D |-> IF s = {} THEN 0 ELSE f[Pick(s)] + g[s \ {Pick(s)}]]

Total(f, S) == MapThenSumSet(LAMBDA a : f[a], S)

LEMMA PickFrom == ASSUME NEW s, s # {} PROVE Pick(s) \in s
BY DEF Pick

\* The subsets with at most n elements.
Small(S, n) == {s \in SUBSET S : Cardinality(s) <= n}

LEMMA SumExists ==
    ASSUME NEW S, IsFiniteSet(S), NEW f
    PROVE  \E g : IsSum(g, f, SUBSET S)
<1> DEFINE Term(g, s) == IF s = {} THEN 0 ELSE f[Pick(s)] + g[s \ {Pick(s)}]
           T == {n \in Nat : ~ \E g : IsSum(g, f, Small(S, n))}
<1>0. \A s \in SUBSET S : IsFiniteSet(s) /\ Cardinality(s) \in Nat
  BY FS_Subset, FS_CardinalityType
<1>1. 0 \notin T
  <2> DEFINE g == [s \in Small(S, 0) |-> 0]
  <2>1. \A s \in Small(S, 0) : s = {}
    <3> TAKE s \in Small(S, 0)
    <3>1. s \in SUBSET S /\ Cardinality(s) <= 0
      BY DEF Small
    <3>2. Cardinality(s) = 0
      BY <1>0, <3>1
    <3> QED
      BY <1>0, <3>1, <3>2, FS_EmptySet
  <2>2. \A s \in Small(S, 0) : g[s] = Term(g, s)
    BY <2>1
  <2>3. g = [s \in Small(S, 0) |-> Term(g, s)]
    BY <2>2
  <2> HIDE DEF g
  <2>4. IsSum(g, f, Small(S, 0))
    BY <2>3 DEF IsSum
  <2> QED
    BY <2>4
<1>2. ASSUME NEW n \in Nat, n \notin T
      PROVE  n + 1 \notin T
  <2>1. PICK g : IsSum(g, f, Small(S, n))
    BY <1>2
  <2>2. \A s \in Small(S, n) : g[s] = Term(g, s)
    BY <2>1 DEF IsSum
  <2> DEFINE h == [s \in Small(S, n + 1) |-> Term(g, s)]
  <2>3. \A s \in Small(S, n) : s \in Small(S, n + 1) /\ h[s] = g[s]
    <3> TAKE s \in Small(S, n)
    <3>1. s \in Small(S, n + 1)
      BY <1>0 DEF Small
    <3> QED
      BY <2>2, <3>1
  <2>4. ASSUME NEW s \in Small(S, n + 1)
        PROVE  h[s] = Term(h, s)
    <3>1. CASE s = {}
      BY <3>1
    <3>2. CASE s # {}
      <4>1. s \in SUBSET S /\ Cardinality(s) <= n + 1 /\ IsFiniteSet(s) /\ Pick(s) \in s
        BY <1>0, <3>2, PickFrom DEF Small
      <4>2. s \ {Pick(s)} \in SUBSET S
        BY <4>1
      <4>3. Cardinality(s \ {Pick(s)}) = Cardinality(s) - 1 /\ Cardinality(s) \in Nat
        BY <4>1, OneLess
      <4>4. s \ {Pick(s)} \in Small(S, n)
        BY <4>1, <4>2, <4>3 DEF Small
      <4>5. h[s \ {Pick(s)}] = g[s \ {Pick(s)}]
        BY <2>3, <4>4
      <4> QED
        BY <3>2, <4>5
    <3> QED
      BY <3>1, <3>2
  <2>5. h = [s \in Small(S, n + 1) |-> Term(h, s)]
    BY <2>4
  <2> HIDE DEF h
  <2>6. IsSum(h, f, Small(S, n + 1))
    BY <2>5 DEF IsSum
  <2> QED
    BY <2>6
<1>3. T = {}
  <2> SUFFICES ASSUME T # {} PROVE FALSE
    OBVIOUS
  <2>1. PICK n \in T : \A m \in T : n <= m
    <3>1. T \in SUBSET Nat
      OBVIOUS
    <3> HIDE DEF T
    <3> QED
      BY <3>1, LeastOf
  <2>2. n \in Nat /\ n # 0
    BY <1>1, <2>1
  <2>3. n - 1 \in Nat /\ n - 1 \notin T /\ (n - 1) + 1 = n
    <3>1. n - 1 \in Nat /\ ~(n <= n - 1) /\ (n - 1) + 1 = n
      BY <2>2
    <3> HIDE DEF T
    <3> QED
      BY <2>1, <3>1
  <2> HIDE DEF T
  <2>4. (n - 1) + 1 \notin T
    BY <1>2, <2>3
  <2> QED
    BY <2>1, <2>3, <2>4
<1>4. Cardinality(S) \in Nat
  BY FS_CardinalityType
<1>5. Small(S, Cardinality(S)) = SUBSET S
  BY FS_Subset DEF Small
<1>6. \E g : IsSum(g, f, Small(S, Cardinality(S)))
  BY <1>3, <1>4
<1> QED
  BY <1>5, <1>6

LEMMA TotalIsSum ==
    ASSUME NEW S, IsFiniteSet(S), NEW f
    PROVE  \E g : IsSum(g, f, SUBSET S) /\ Total(f, S) = g[S]
<1> DEFINE g == CHOOSE g : IsSum(g, f, SUBSET S)
<1>1. IsSum(g, f, SUBSET S)
  BY SumExists
<1>2. Total(f, S) = g[S]
  BY DEF Total, MapThenSumSet, MapThenFoldSet, IsSum, Pick
<1> QED
  BY <1>1, <1>2

SameOn(f, h, S) == \A x \in S : f[x] = h[x]

\* The sum over R depends on what f is on R, and on nothing else.
LEMMA SumsAgree ==
    \A S, R, f, h, g, k :
       /\ IsFiniteSet(S) /\ R \subseteq S
       /\ IsSum(g, f, SUBSET S) /\ IsSum(k, h, SUBSET R) /\ SameOn(f, h, R)
       => g[R] = k[R]
<1> SUFFICES ASSUME NEW S, NEW R, NEW f, NEW h, NEW g, NEW k,
                    IsFiniteSet(S), R \subseteq S,
                    IsSum(g, f, SUBSET S), IsSum(k, h, SUBSET R), SameOn(f, h, R)
             PROVE  g[R] = k[R]
  OBVIOUS
<1> DEFINE T == {s \in SUBSET R : g[s] # k[s]}
<1>1. \A s \in T : IsFiniteSet(s)
  BY FS_Subset
<1>2. ASSUME NEW s \in T
      PROVE  \E t \in T : Cardinality(t) < Cardinality(s)
  <2>1. /\ g[s] = IF s = {} THEN 0 ELSE f[Pick(s)] + g[s \ {Pick(s)}]
        /\ k[s] = IF s = {} THEN 0 ELSE h[Pick(s)] + k[s \ {Pick(s)}]
    BY DEF IsSum
  <2>2. s # {}
    BY <2>1
  <2>3. Pick(s) \in s
    BY <2>2, PickFrom
  <2>4. g[s \ {Pick(s)}] # k[s \ {Pick(s)}]
    BY <2>1, <2>2, <2>3 DEF SameOn
  <2>5. s \ {Pick(s)} \in T
    BY <2>4
  <2>6. Cardinality(s \ {Pick(s)}) < Cardinality(s)
    BY <1>1, <2>3, OneLess
  <2> QED
    BY <2>5, <2>6
<1>3. \A s \in T : \E t \in T : Cardinality(t) < Cardinality(s)
  BY <1>2
<1>4. T = {}
  <2> HIDE DEF T
  <2> QED
    BY <1>1, <1>3, NoSmallest
<1> QED
  BY <1>4

LEMMA TotalOfSame ==
    ASSUME NEW S, IsFiniteSet(S), NEW f, NEW h, \A x \in S : f[x] = h[x]
    PROVE  Total(f, S) = Total(h, S)
<1>1. PICK g : IsSum(g, f, SUBSET S) /\ Total(f, S) = g[S]
  BY TotalIsSum
<1>2. PICK k : IsSum(k, h, SUBSET S) /\ Total(h, S) = k[S]
  BY TotalIsSum
<1>3. SameOn(f, h, S) /\ S \subseteq S
  BY DEF SameOn
<1>4. g[S] = k[S]
  BY <1>1, <1>2, <1>3, SumsAgree
<1> QED
  BY <1>1, <1>2, <1>4

LEMMA TotalStep ==
    ASSUME NEW S, IsFiniteSet(S), NEW f
    PROVE  Total(f, S) = IF S = {} THEN 0 ELSE f[Pick(S)] + Total(f, S \ {Pick(S)})
<1>1. PICK g : IsSum(g, f, SUBSET S) /\ Total(f, S) = g[S]
  BY TotalIsSum
<1>2. g[S] = IF S = {} THEN 0 ELSE f[Pick(S)] + g[S \ {Pick(S)}]
  BY <1>1 DEF IsSum
<1>3. CASE S = {}
  BY <1>1, <1>2, <1>3
<1>4. CASE S # {}
  <2> DEFINE R == S \ {Pick(S)}
  <2>1. IsFiniteSet(R)
    BY <1>4, PickFrom, OneLess
  <2>2. PICK k : IsSum(k, f, SUBSET R) /\ Total(f, R) = k[R]
    BY <2>1, TotalIsSum
  <2>3. R \subseteq S /\ SameOn(f, f, R)
    BY DEF SameOn
  <2>4. g[R] = k[R]
    <3> HIDE DEF R
    <3> QED
      BY <1>1, <2>1, <2>2, <2>3, SumsAgree
  <2> QED
    BY <1>1, <1>2, <1>4, <2>2, <2>4
<1> QED
  BY <1>3, <1>4

LEMMA TotalIsNat ==
    ASSUME NEW S, IsFiniteSet(S), NEW f, \A x \in S : f[x] \in Nat
    PROVE  Total(f, S) \in Nat
<1> DEFINE T == {s \in SUBSET S : Total(f, s) \notin Nat}
<1>1. \A s \in T : IsFiniteSet(s)
  BY FS_Subset
<1>2. ASSUME NEW s \in T
      PROVE  \E t \in T : Cardinality(t) < Cardinality(s)
  <2>1. Total(f, s) = IF s = {} THEN 0 ELSE f[Pick(s)] + Total(f, s \ {Pick(s)})
    BY <1>1, TotalStep
  <2>2. s # {}
    BY <2>1
  <2>3. Pick(s) \in s
    BY <2>2, PickFrom
  <2>4. s \ {Pick(s)} \in T
    BY <2>1, <2>2, <2>3
  <2>5. Cardinality(s \ {Pick(s)}) < Cardinality(s)
    BY <1>1, <2>3, OneLess
  <2> QED
    BY <2>4, <2>5
<1>3. \A s \in T : \E t \in T : Cardinality(t) < Cardinality(s)
  BY <1>2
<1>4. T = {}
  <2> HIDE DEF T
  <2> QED
    BY <1>1, <1>3, NoSmallest
<1> QED
  BY <1>4

\* Any element may be the first to be added.
LEMMA TotalWithout ==
    ASSUME NEW S, IsFiniteSet(S), NEW f, \A x \in S : f[x] \in Nat, NEW a \in S
    PROVE  Total(f, S) = f[a] + Total(f, S \ {a})
<1> DEFINE T == {s \in SUBSET S : \E x \in s : Total(f, s) # f[x] + Total(f, s \ {x})}
<1>0. \A s \in SUBSET S : IsFiniteSet(s) /\ Total(f, s) \in Nat
  BY FS_Subset, TotalIsNat
<1>1. \A s \in T : IsFiniteSet(s)
  BY FS_Subset
<1>2. ASSUME NEW s \in T
      PROVE  \E t \in T : Cardinality(t) < Cardinality(s)
  <2> DEFINE p == Pick(s)
  <2>1. PICK x \in s : Total(f, s) # f[x] + Total(f, s \ {x})
    OBVIOUS
  <2>2. p \in s /\ Total(f, s) = f[p] + Total(f, s \ {p})
    BY <1>1, PickFrom, TotalStep
  <2> HIDE DEF p
  <2>3. p # x
    BY <2>1, <2>2
  <2>4. Cardinality(s \ {p}) < Cardinality(s) /\ Cardinality(s \ {x}) < Cardinality(s)
    BY <1>1, <2>1, <2>2, OneLess
  <2>5. CASE s \ {p} \in T
    BY <2>4, <2>5
  <2>6. CASE s \ {x} \in T
    BY <2>4, <2>6
  <2>7. CASE s \ {p} \notin T /\ s \ {x} \notin T
    <3>1. x \in s \ {p} /\ p \in s \ {x} /\ (s \ {p}) \ {x} = (s \ {x}) \ {p}
          /\ s \ {p} \in SUBSET S /\ s \ {x} \in SUBSET S /\ (s \ {x}) \ {p} \in SUBSET S
      BY <2>1, <2>2, <2>3
    <3> DEFINE both == Total(f, (s \ {x}) \ {p})
    <3>2. Total(f, s \ {p}) = f[x] + both /\ Total(f, s \ {x}) = f[p] + both
      BY <2>7, <3>1
    <3>3. f[x] \in Nat /\ f[p] \in Nat /\ both \in Nat
      BY <1>0, <2>1, <2>2, <3>1
    <3> HIDE DEF both
    <3>4. Total(f, s) = f[x] + Total(f, s \ {x})
      <4>1. Total(f, s) = f[p] + (f[x] + both)
        BY <2>2, <3>2
      <4>2. f[p] + (f[x] + both) = f[x] + (f[p] + both)
        BY <3>3
      <4> QED
        BY <3>2, <4>1, <4>2
    <3> QED
      BY <2>1, <3>4
  <2> QED
    BY <2>5, <2>6, <2>7
<1>3. \A s \in T : \E t \in T : Cardinality(t) < Cardinality(s)
  BY <1>2
<1>4. T = {}
  <2> HIDE DEF T
  <2> QED
    BY <1>1, <1>3, NoSmallest
<1> QED
  BY <1>4
-----------------------------------------------------------------------------
(* Pages, and blocks that lie apart.                                        *)

Extent(size) == PagesOf(size) * PageSize

\* A quotient and its remainder make up the number.
LEMMA Divided ==
    ASSUME NEW x \in Int, NEW unit \in Nat, unit > 0
    PROVE  /\ x \div unit \in Int /\ x % unit \in Int /\ x % unit >= 0 /\ x % unit < unit
           /\ x = ((x \div unit) * unit) + (x % unit)
<1>1. x \div unit \in Int /\ x % unit \in 0 .. unit - 1
  OBVIOUS
<1>2. x = (unit * (x \div unit)) + (x % unit)
  OBVIOUS
<1> QED
  BY <1>1, <1>2

LEMMA PagesHold ==
    ASSUME NEW size \in Nat
    PROVE  Extent(size) \in Nat /\ Extent(size) >= size
<1>0. PageSize \in Nat /\ PageSize > 0
  BY Numbers
<1> DEFINE x == size + PageSize - 1
           q == x \div PageSize
           r == x % PageSize
<1>1. x \in Nat
  BY <1>0
<1>2. q \in Int /\ r \in Int /\ r >= 0 /\ r < PageSize /\ x = (q * PageSize) + r
  <2> HIDE DEF x
  <2> QED
    BY <1>0, <1>1, Divided
<1>3. Extent(size) = q * PageSize
  BY DEF Extent, PagesOf
<1>4. q * PageSize \in Int
  <2> HIDE DEF q
  <2> QED
    BY <1>0, <1>2
<1> HIDE DEF q, r
<1>5. q * PageSize >= size
  BY <1>0, <1>2, <1>4
<1> QED
  BY <1>3, <1>4, <1>5

\* Blocks of f at the addresses of S: none is empty, none begins at 0, none ends behind
\* `end`, and no two overlap.
Fit(f, S, end) ==
    \A a \in S :
       /\ a \in Nat /\ a >= 1 /\ f[a] \in Nat /\ f[a] >= 1
       /\ a + Extent(f[a]) <= end
       /\ \A b \in S \ {a} : ~Overlap(a, f[a], b, f[b])

LEMMA GreatestOf ==
    ASSUME NEW S, S # {}, NEW end \in Nat, \A a \in S : a \in Nat /\ a <= end
    PROVE  \E a \in S : \A b \in S : b <= a
<1> DEFINE D == {end - a : a \in S}
<1>1. D \in SUBSET Nat /\ D # {}
  OBVIOUS
<1>2. PICK d \in D : \A e \in D : d <= e
  <2> HIDE DEF D
  <2> QED
    BY <1>1, LeastOf
<1>3. PICK a \in S : d = end - a
  OBVIOUS
<1>4. ASSUME NEW b \in S
      PROVE  b <= a
  <2>1. end - a <= end - b
    BY <1>2, <1>3
  <2> QED
    BY <2>1
<1> QED
  BY <1>4

\* However many they are, they have to share the space before the end.
LEMMA FittingBlocks ==
    ASSUME NEW S, IsFiniteSet(S), NEW f, NEW end \in Nat, end >= 1, Fit(f, S, end)
    PROVE  Total(f, S) < end
<1> DEFINE T == {s \in SUBSET S : \E e \in Nat : e >= 1 /\ Fit(f, s, e) /\ ~(Total(f, s) < e)}
<1>0. \A a \in S : f[a] \in Nat
  BY DEF Fit
<1>1. \A s \in T : IsFiniteSet(s)
  BY FS_Subset
<1>2. ASSUME NEW s \in T
      PROVE  \E t \in T : Cardinality(t) < Cardinality(s)
  <2>1. PICK e \in Nat : e >= 1 /\ Fit(f, s, e) /\ ~(Total(f, s) < e)
    OBVIOUS
  <2>2. IsFiniteSet(s) /\ (\A a \in s : f[a] \in Nat) /\ s \subseteq S
    BY <1>0, <1>1
  <2> HIDE DEF T
  <2>3. Total(f, s) \in Nat
    BY <2>2, TotalIsNat
  <2>4. s # {}
    <3>1. CASE s = {}
      <4>1. Total(f, s) = 0
        BY <2>2, <3>1, TotalStep
      <4> QED
        BY <2>1, <4>1
    <3> QED
      BY <3>1
  <2>5. \A a \in s : /\ a \in Nat /\ a >= 1 /\ f[a] \in Nat /\ f[a] >= 1
                     /\ Extent(f[a]) \in Nat /\ Extent(f[a]) >= f[a] /\ a + Extent(f[a]) <= e
    BY <2>1, PagesHold DEF Fit
  <2>6. \A a \in s : a \in Nat /\ a <= e
    BY <2>5
  <2>7. PICK a \in s : \A b \in s : b <= a
    BY <2>4, <2>6, GreatestOf
  <2> DEFINE t == s \ {a}
  <2>8. Fit(f, t, a)
    <3> SUFFICES ASSUME NEW b \in t
                 PROVE  b + Extent(f[b]) <= a
      BY <2>1 DEF Fit
    <3>1. b \in s /\ a \in s /\ b # a /\ b <= a
      BY <2>7
    <3>2. ~Overlap(b, f[b], a, f[a])
      BY <2>1, <3>1 DEF Fit
    <3>3. ~(b < a + Extent(f[a]) /\ a < b + Extent(f[b]))
      BY <3>2 DEF Overlap, Extent
    <3> QED
      BY <2>5, <3>1, <3>3
  <2>9. Total(f, s) = f[a] + Total(f, t) /\ Total(f, t) \in Nat
    <3>1. IsFiniteSet(t) /\ \A b \in t : f[b] \in Nat
      BY <2>2, OneLess
    <3>2. Total(f, t) \in Nat
      <4> HIDE DEF t
      <4> QED
        BY <3>1, TotalIsNat
    <3> QED
      BY <2>2, <3>2, TotalWithout
  <2>10. ~(Total(f, t) < a)
    <3> HIDE DEF t
    <3> QED
      BY <2>1, <2>3, <2>5, <2>9
  <2>11. t \in T
    <3>1. t \subseteq S /\ a \in Nat /\ a >= 1
      BY <2>2, <2>5
    <3> HIDE DEF t
    <3> QED
      BY <2>8, <2>10, <3>1 DEF T
  <2>12. Cardinality(t) < Cardinality(s)
    BY <2>2, OneLess
  <2> QED
    BY <2>11, <2>12
<1>3. \A s \in T : \E t \in T : Cardinality(t) < Cardinality(s)
  BY <1>2
<1>4. T = {}
  <2> HIDE DEF T
  <2> QED
    BY <1>1, <1>3, NoSmallest
<1> QED
  BY <1>4
-----------------------------------------------------------------------------
(* The blocks of the DPMI host.                                             *)

MemoryInv ==
    /\ IsFiniteSet(DOMAIN mMemoryBlocks)
    /\ Fit(mMemoryBlocks, DOMAIN mMemoryBlocks, Word)
    /\ \A a \in DOMAIN mMemoryBlocks : a \in 1 .. Word - 1 /\ mMemoryBlocks[a] \in Sizes
    /\ AllocatedIsSum
    /\ mAllocatedMemory \in 0 .. Word - 1

LEMMA PutEffect ==
    ASSUME NEW f, NEW k, NEW v
    PROVE  /\ DOMAIN Put(f, k, v) = DOMAIN f \cup {k}
           /\ Put(f, k, v)[k] = v
           /\ \A x \in DOMAIN f \ {k} : Put(f, k, v)[x] = f[x]
BY DEF Put

SumIsRight == SumOfBlocks = Total(mMemoryBlocks, DOMAIN mMemoryBlocks)

LEMMA SumHolds == SumIsRight
BY DEF SumIsRight, SumOfBlocks, Total

LEMMA SumIsTotal ==
    /\ SumOfBlocks = Total(mMemoryBlocks, DOMAIN mMemoryBlocks)
    /\ SumOfBlocks' = Total(mMemoryBlocks', DOMAIN mMemoryBlocks')
<1>1. SumIsRight
  BY SumHolds
<1>2. SumIsRight'
  BY SumHolds, PTL
<1> QED
  BY <1>1, <1>2 DEF SumIsRight

LEMMA AllocateStep ==
    ASSUME MemoryInv, NEW size \in Sizes, size # 0, AllocateMemory(size)
    PROVE  MemoryInv' /\ BlocksAreKept
<1> DEFINE f == mMemoryBlocks
           D == DOMAIN mMemoryBlocks
           g == mMemoryBlocks'
<1>1. PICK addr \in FreeAddresses(size) :
         /\ mMemoryBlocks' = Put(mMemoryBlocks, addr, size)
         /\ mAllocatedMemory' = (mAllocatedMemory + size) % Word
  BY DEF AllocateMemory
<1>2. Word \in Nat /\ Word > 3 /\ PageSize \in Nat /\ PageSize > 0
  BY Numbers
<1>3. size \in Nat /\ size >= 1
  <2>1. Sizes \subseteq 0 .. Word - 1
    BY Numbers
  <2> QED
    BY <1>2, <2>1
<1>4. Extent(size) \in Nat /\ Extent(size) >= size
  BY <1>3, PagesHold
<1>5. /\ addr \in Nat /\ addr >= 1 /\ addr + Extent(size) <= Word
      /\ \A b \in D : ~Overlap(addr, size, b, f[b])
  <2>1. PICK k \in 1 .. (Word \div PageSize - 1) : addr = k * PageSize
    BY DEF FreeAddresses
  <2>2. k \in Nat /\ k >= 1
    <3>1. Word \div PageSize \in Int
      BY <1>2
    <3> QED
      BY <2>1, <3>1
  <2>3. k * PageSize \in Nat /\ k * PageSize >= 1
    BY <1>2, <2>2
  <2> QED
    BY <2>1, <2>3 DEF FreeAddresses, Extent
<1>6. \A b \in D : /\ b \in Nat /\ b >= 1 /\ f[b] \in Nat /\ f[b] >= 1 /\ b + Extent(f[b]) <= Word
                   /\ Extent(f[b]) \in Nat /\ Extent(f[b]) >= f[b]
  BY PagesHold DEF MemoryInv, Fit
<1>7. addr \notin D
  <2> SUFFICES ASSUME addr \in D PROVE FALSE
    OBVIOUS
  <2>1. ~(addr < addr + Extent(f[addr]) /\ addr < addr + Extent(size))
    BY <1>5 DEF Overlap, Extent
  <2> QED
    BY <1>3, <1>4, <1>5, <1>6, <2>1
<1>8. /\ DOMAIN g = D \cup {addr} /\ g[addr] = size
      /\ \A b \in D : g[b] = f[b]
  <2> DEFINE h == Put(f, addr, size)
  <2>1. DOMAIN h = D \cup {addr} /\ h[addr] = size /\ \A b \in D : h[b] = f[b]
    BY <1>7 DEF Put
  <2>2. g = h
    BY <1>1
  <2> HIDE DEF g, h
  <2> QED
    BY <2>1, <2>2
<1>9. IsFiniteSet(DOMAIN g)
  BY <1>8, FS_AddElement DEF MemoryInv
<1>10. \A b \in D : ~Overlap(b, f[b], addr, size)
  BY <1>5 DEF Overlap
<1>11. \A a \in D : \A b \in D \ {a} : ~Overlap(a, f[a], b, f[b])
  BY DEF MemoryInv, Fit
<1>12. Fit(g, DOMAIN g, Word)
  <2> SUFFICES ASSUME NEW a \in DOMAIN g
               PROVE  /\ a \in Nat /\ a >= 1 /\ g[a] \in Nat /\ g[a] >= 1
                      /\ a + Extent(g[a]) <= Word
                      /\ \A b \in DOMAIN g \ {a} : ~Overlap(a, g[a], b, g[b])
    BY DEF Fit
  <2>1. CASE a = addr
    BY <1>3, <1>5, <1>8, <2>1
  <2>2. CASE a \in D
    <3>1. g[a] = f[a]
      BY <1>8, <2>2
    <3>2. \A b \in DOMAIN g \ {a} : ~Overlap(a, f[a], b, g[b])
      BY <1>8, <1>10, <1>11, <2>2
    <3> QED
      BY <1>6, <2>2, <3>1, <3>2
  <2> QED
    BY <1>8, <2>1, <2>2
<1>13. BlocksAreKept
  BY <1>8, <1>10, <1>11 DEF BlocksAreKept
<1>14. \A a \in DOMAIN g : a \in 1 .. Word - 1 /\ g[a] \in Sizes
  <2>1. addr \in 1 .. Word - 1
    BY <1>2, <1>3, <1>4, <1>5
  <2> QED
    BY <1>8, <2>1 DEF MemoryInv
<1>15. Total(g, DOMAIN g) < Word
  BY <1>2, <1>9, <1>12, FittingBlocks
<1>16. Total(g, DOMAIN g) = size + Total(f, D) /\ Total(f, D) \in Nat
  <2>1. \A a \in DOMAIN g : g[a] \in Nat
    BY <1>12 DEF Fit
  <2>2. addr \in DOMAIN g /\ (DOMAIN g) \ {addr} = D
    BY <1>7, <1>8
  <2>3. Total(g, DOMAIN g) = g[addr] + Total(g, (DOMAIN g) \ {addr})
    BY <1>9, <2>1, <2>2, TotalWithout
  <2>4. IsFiniteSet(D)
    BY DEF MemoryInv
  <2>5. SameOn(g, f, D)
    BY <1>8 DEF SameOn
  <2>6. Total(g, D) = Total(f, D)
    BY <2>4, <2>5, TotalOfSame DEF SameOn
  <2>7. Total(f, D) \in Nat
    BY <1>6, <2>4, TotalIsNat
  <2> QED
    BY <1>8, <2>2, <2>3, <2>6, <2>7
<1>17. mAllocatedMemory = Total(f, D)
  BY SumIsTotal DEF MemoryInv, AllocatedIsSum
<1>18. mAllocatedMemory' = Total(g, DOMAIN g) /\ mAllocatedMemory' \in 0 .. Word - 1
  <2> DEFINE old == Total(f, D)
             new == Total(g, DOMAIN g)
  <2>1. new = size + old /\ old \in Nat /\ new < Word /\ mAllocatedMemory' = (old + size) % Word
    BY <1>1, <1>15, <1>16, <1>17
  <2> HIDE DEF old, new
  <2>2. old + size \in 0 .. Word - 1 /\ new = old + size
    BY <1>2, <1>3, <2>1
  <2>3. (old + size) % Word = old + size
    BY <1>2, <2>2
  <2>4. mAllocatedMemory' = new /\ mAllocatedMemory' \in 0 .. Word - 1
    BY <2>1, <2>2, <2>3
  <2> QED
    BY <2>4 DEF new
<1>19. AllocatedIsSum'
  BY <1>18, SumIsTotal DEF AllocatedIsSum
<1> HIDE DEF g
<1> QED
  BY <1>9, <1>12, <1>13, <1>14, <1>18, <1>19 DEF MemoryInv, g

LEMMA MemoryKept ==
    ASSUME MemoryInv, UNCHANGED memory
    PROVE  MemoryInv' /\ BlocksAreKept
<1>1. mMemoryBlocks' = mMemoryBlocks /\ mAllocatedMemory' = mAllocatedMemory
  BY DEF memory
<1>2. SumOfBlocks' = SumOfBlocks
  BY <1>1, SumIsTotal
<1>3. MemoryInv'
  BY <1>1, <1>2 DEF MemoryInv, AllocatedIsSum
<1>4. BlocksAreKept
  BY <1>1 DEF MemoryInv, Fit, BlocksAreKept
<1> QED
  BY <1>3, <1>4

\* No block is left, and nothing is counted.
LEMMA NoBlocks ==
    /\ mMemoryBlocks = << >> /\ mAllocatedMemory = 0 => MemoryInv
    /\ mMemoryBlocks' = << >> /\ mAllocatedMemory' = 0 => MemoryInv'
<1>1. Word \in Nat /\ Word > 3 /\ DOMAIN << >> = {}
  BY Numbers
<1>2. IsFiniteSet({}) /\ Total(<< >>, {}) = 0
  BY FS_EmptySet, TotalStep
<1>3. ASSUME mMemoryBlocks = << >>, mAllocatedMemory = 0
      PROVE  MemoryInv
  <2>1. DOMAIN mMemoryBlocks = {} /\ SumOfBlocks = 0
    BY <1>1, <1>2, <1>3, SumIsTotal
  <2> QED
    BY <1>1, <1>2, <1>3, <2>1 DEF MemoryInv, Fit, AllocatedIsSum
<1>4. ASSUME mMemoryBlocks' = << >>, mAllocatedMemory' = 0
      PROVE  MemoryInv'
  <2>1. DOMAIN mMemoryBlocks' = {} /\ SumOfBlocks' = 0
    BY <1>1, <1>2, <1>4, SumIsTotal
  <2> QED
    BY <1>1, <1>2, <1>4, <2>1 DEF MemoryInv, Fit, AllocatedIsSum
<1> QED
  BY <1>3, <1>4
-----------------------------------------------------------------------------
(* The tables.                                                              *)

OSEntries == {Entry(s) : s \in OSSels}
Phases == {"table", "psp", "environment", "program", "stopped", "exited", "gone", "refused"}
OSDescriptor == Descriptor("OS", 0, Word - 1)
Descriptors == [type : {"OS", "LDT"}, base : 0 .. Word - 1, limit : 0 .. Word - 1]

\* Every descriptor is of an entry in use; one that the table has set up says of it what
\* the LDT says, and it is not one of the host's.
Ours(s) == mDesc[s].type = "LDT" => Agrees(s) /\ Entry(s) \notin OSEntries

DescriptorsAgree ==
    \A s \in DOMAIN mDesc : /\ s \in Nat /\ s >= 7 /\ mDesc[s] \in Descriptors
                           /\ Entry(s) \in DOMAIN ldt /\ Ours(s)

EntriesInUse == OSEntries \subseteq DOMAIN ldt /\ DOMAIN ldt \subseteq SpareEntries \cup OSEntries

HostIsThere ==
    /\ phase = "table" => DOMAIN mDesc = {}
    /\ phase \in {"psp", "environment", "program"} =>
          \A s \in OSSels : s \in DOMAIN mDesc /\ mDesc[s] = OSDescriptor

\* What the constructors have set up so far.
SegmentsAreThere ==
    /\ phase \in {"table", "psp"} => mPspSel = 0
    /\ phase \in {"table", "psp", "environment"} => environmentSegment = 0
    /\ phase \in {"environment", "program"} =>
          mPspSel \in DOMAIN mDesc /\ mDesc[mPspSel] = Descriptor("LDT", PspBase, PspLimit)
    /\ phase = "program" =>
          /\ environmentSegment \in DOMAIN mDesc
          /\ \E size \in EnvironmentSizes : mDesc[environmentSegment] = Descriptor("LDT", EnvBase, size)
    /\ phase \notin {"gone", "refused"} => {mPspSel, environmentSegment} \subseteq DOMAIN mDesc \cup {0}

TablesInv == phase \in Phases /\ DescriptorsAgree /\ EntriesInUse /\ HostIsThere /\ SegmentsAreThere

LEMMA Places ==
    /\ Entry(OSCodeSel) = 2 /\ Entry(OSDataSel) = 3 /\ Entry(OSThreadSel) = 4
    /\ \A s \in OSSels : s \in Nat /\ s >= 7 /\ Entry(s) \in OSEntries
    /\ OSEntries = {2, 3, 4}
    /\ \A i \in Nat : Selector(i) \in Nat /\ Selector(i) >= 7 /\ Entry(Selector(i)) = i
<1>1. Entry(OSCodeSel) = 2 /\ Entry(OSDataSel) = 3 /\ Entry(OSThreadSel) = 4
  BY DEF Entry, OSCodeSel, OSDataSel, OSThreadSel
<1>2. OSEntries = {2, 3, 4}
  BY <1>1 DEF OSEntries, OSSels
<1>3. \A s \in OSSels : s \in Nat /\ s >= 7 /\ Entry(s) \in OSEntries
  BY DEF OSEntries, OSSels, OSCodeSel, OSDataSel, OSThreadSel
<1>4. ASSUME NEW i \in Nat
      PROVE  Selector(i) \in Nat /\ Selector(i) >= 7 /\ Entry(Selector(i)) = i
  BY DEF Selector, Entry
<1> QED
  BY <1>1, <1>2, <1>3, <1>4

\* Entry and selector go one with the other: a free entry's selector has no descriptor.
LEMMA FreeIsAccepted ==
    ASSUME TablesInv, NEW i \in FreeEntries
    PROVE  /\ i \in Nat /\ i \notin DOMAIN ldt /\ Accepts(Selector(i))
           /\ \A s \in DOMAIN mDesc : Entry(s) # i /\ Selector(i) # s
<1>1. i \in Nat /\ i \notin DOMAIN ldt
  BY Numbers DEF FreeEntries
<1>2. Selector(i) >= 7 /\ Selector(i) \in Nat /\ Entry(Selector(i)) = i
  BY <1>1, Places
<1>3. \A s \in DOMAIN mDesc : Entry(s) \in DOMAIN ldt
  BY DEF TablesInv, DescriptorsAgree
<1>4. Selector(i) # 0
  BY <1>2
<1> QED
  BY <1>1, <1>2, <1>3, <1>4 DEF Accepts

\* What setDescLimit writes reaches as far as the limit it is given.
Reaches(entry, base, limit) ==
    /\ entry.base = base
    /\ limit <= LastOffset(entry) /\ LastOffset(entry) < limit + LimitUnit
    /\ limit < LimitTop => LastOffset(entry) = limit

LEMMA LimitIsKept ==
    ASSUME NEW base, NEW limit \in 0 .. Word - 1
    PROVE  Reaches(SetDescLimit(base, limit), base, limit)
<1> DEFINE entry == SetDescLimit(base, limit)
           q == limit \div LimitUnit
           r == limit % LimitUnit
<1> SUFFICES Reaches(entry, base, limit)
  OBVIOUS
<1>0. /\ Word \in Nat /\ Word > 3 /\ LimitTop \in Nat /\ LimitTop > 0
      /\ LimitUnit \in Nat /\ LimitUnit > 0 /\ Word = LimitTop * LimitUnit
  BY Numbers
<1>1. limit \in Nat /\ limit < LimitTop * LimitUnit
  BY <1>0
<1>2. q \in Int /\ r \in Int /\ r >= 0 /\ r < LimitUnit /\ limit = (q * LimitUnit) + r
  BY <1>0, <1>1, Divided
<1>3. entry.base = base
  BY DEF SetDescLimit
<1>4. CASE limit < LimitTop
  <2>1. ~(limit >= LimitTop) /\ limit % LimitTop = limit
    BY <1>0, <1>1, <1>4
  <2>2. entry.limit = limit /\ ~entry.granular
    BY <2>1 DEF SetDescLimit
  <2>3. LastOffset(entry) = limit
    BY <2>2 DEF LastOffset
  <2> HIDE DEF entry
  <2> QED
    BY <1>0, <1>1, <1>3, <2>3 DEF Reaches
<1>5. CASE limit >= LimitTop
  <2> HIDE DEF q, r
  <2>1. q * LimitUnit \in Int /\ q * LimitUnit < LimitTop * LimitUnit /\ q >= 0 /\ q < LimitTop
    <3>1. q >= 0
      <4> SUFFICES ASSUME q <= -1 PROVE FALSE
        BY <1>2
      <4>1. (-1 - q) * LimitUnit >= 0
        BY <1>0, <1>2
      <4>2. q * LimitUnit <= -LimitUnit
        BY <1>0, <1>2, <4>1
      <4> QED
        BY <1>0, <1>1, <1>2, <4>2
    <3>2. q * LimitUnit \in Int /\ q * LimitUnit < LimitTop * LimitUnit
      BY <1>0, <1>1, <1>2
    <3>3. q < LimitTop
      <4> SUFFICES ASSUME q >= LimitTop PROVE FALSE
        BY <1>0, <1>2
      <4>1. (q - LimitTop) * LimitUnit >= 0
        BY <1>0, <1>2
      <4>2. q * LimitUnit >= LimitTop * LimitUnit
        BY <1>0, <1>2, <4>1
      <4> QED
        BY <1>0, <3>2, <4>2
    <3> QED
      BY <3>1, <3>2, <3>3
  <2>2. q % LimitTop = q
    BY <1>0, <1>2, <2>1
  <2>3. entry.limit = q /\ entry.granular
    BY <1>5, <2>2 DEF SetDescLimit, q
  <2>4. LastOffset(entry) = (q * LimitUnit) + LimitUnit - 1
    BY <2>3 DEF LastOffset
  <2> HIDE DEF entry
  <2>5. limit <= LastOffset(entry) /\ LastOffset(entry) < limit + LimitUnit
    BY <1>0, <1>1, <1>2, <2>1, <2>4
  <2>6. ~(limit < LimitTop)
    BY <1>0, <1>1, <1>5
  <2> QED
    BY <1>3, <2>5, <2>6 DEF Reaches
<1>6. limit < LimitTop \/ limit >= LimitTop
  BY <1>0, <1>1
<1> QED
  BY <1>4, <1>5, <1>6

LEMMA NewDescriptor ==
    ASSUME TablesInv, NEW i \in FreeEntries, NEW base \in 0 .. Word - 1, NEW limit \in 0 .. Word - 1,
           ldt' = Put(ldt, i, SetDescLimit(base, limit)),
           mDesc' = Put(mDesc, Selector(i), Descriptor("LDT", base, limit))
    PROVE  /\ DescriptorsAgree' /\ EntriesInUse'
           /\ DOMAIN mDesc' = DOMAIN mDesc \cup {Selector(i)}
           /\ mDesc'[Selector(i)] = Descriptor("LDT", base, limit)
           /\ \A s \in DOMAIN mDesc : mDesc'[s] = mDesc[s]
<1> DEFINE sel == Selector(i)
<1>1. i \in Nat /\ i \notin DOMAIN ldt /\ \A s \in DOMAIN mDesc : Entry(s) # i /\ sel # s
  BY FreeIsAccepted
<1>2. sel \in Nat /\ sel >= 7 /\ Entry(sel) = i
  BY <1>1, Places
<1> HIDE DEF sel
<1>3. /\ DOMAIN ldt' = DOMAIN ldt \cup {i} /\ ldt'[i] = SetDescLimit(base, limit)
      /\ \A e \in DOMAIN ldt : ldt'[e] = ldt[e]
  BY <1>1 DEF Put
<1>4. /\ DOMAIN mDesc' = DOMAIN mDesc \cup {sel} /\ mDesc'[sel] = Descriptor("LDT", base, limit)
      /\ \A s \in DOMAIN mDesc : mDesc'[s] = mDesc[s]
  BY <1>1 DEF Put, sel
<1>5. i \notin OSEntries
  BY <1>1 DEF TablesInv, EntriesInUse
<1>8. ASSUME NEW s \in DOMAIN mDesc'
      PROVE  /\ s \in Nat /\ s >= 7 /\ mDesc'[s] \in Descriptors
             /\ Entry(s) \in DOMAIN ldt' /\ Ours(s)'
  <2>1. CASE s \in DOMAIN mDesc
    <3>1. /\ s \in Nat /\ s >= 7 /\ mDesc[s] \in Descriptors
          /\ Entry(s) \in DOMAIN ldt /\ Ours(s)
      BY <2>1 DEF TablesInv, DescriptorsAgree
    <3>2. mDesc'[s] = mDesc[s] /\ ldt'[Entry(s)] = ldt[Entry(s)] /\ Entry(s) \in DOMAIN ldt'
      BY <1>3, <1>4, <2>1, <3>1
    <3>3. Ours(s)'
      BY <3>1, <3>2 DEF Ours, Agrees
    <3> QED
      BY <3>1, <3>2, <3>3
  <2>2. CASE s = sel
    <3>1. mDesc'[s] \in Descriptors /\ mDesc'[s].base = base /\ mDesc'[s].limit = limit
      BY <1>4, <2>2 DEF Descriptor, Descriptors
    <3>2. Agrees(s)'
      <4>1. Entry(s) = i /\ i \in DOMAIN ldt' /\ ldt'[i] = SetDescLimit(base, limit)
        BY <1>2, <1>3, <2>2
      <4> QED
        BY <3>1, <4>1, LimitIsKept DEF Agrees, Reaches
    <3> QED
      BY <1>2, <1>3, <1>5, <2>2, <3>1, <3>2 DEF Ours
  <2> QED
    BY <1>4, <2>1, <2>2
<1>6. EntriesInUse'
  <2>1. i \in SpareEntries
    BY DEF FreeEntries
  <2> QED
    BY <1>3, <2>1 DEF TablesInv, EntriesInUse
<1>7. DescriptorsAgree'
  BY <1>8 DEF DescriptorsAgree
<1> QED
  BY <1>4, <1>6, <1>7 DEF sel

LEMMA TablesKept ==
    ASSUME TablesInv, UNCHANGED <<phase, tables>>
    PROVE  TablesInv'
BY DEF TablesInv, tables, DescriptorsAgree, Ours, Agrees, EntriesInUse, HostIsThere, SegmentsAreThere
LEMMA Segments ==
    /\ PspBase \in 0 .. Word - 1 /\ PspLimit \in 0 .. Word - 1
    /\ EnvBase \in 0 .. Word - 1 /\ EnvironmentSizes \subseteq 0 .. Word - 1
    /\ 0 \in 0 .. Word - 1 /\ Word - 1 \in 0 .. Word - 1
BY Numbers DEF PspBase, PspLimit, EnvBase

\* The last step of main, and the ones that give the program up.
Ended == \/ phase' = "stopped" /\ UNCHANGED tables
         \/ phase' = "exited" /\ UNCHANGED tables

LEMMA EndKeepsTables ==
    ASSUME TablesInv, phase \in {"psp", "environment", "program"}, Ended
    PROVE  TablesInv'
<1>1. phase' \in {"stopped", "exited"} /\ UNCHANGED tables
  BY DEF Ended
<1> QED
  BY <1>1 DEF TablesInv, tables, DescriptorsAgree, Ours, Agrees, EntriesInUse, HostIsThere,
              SegmentsAreThere, Phases

LEMMA CreateTableStep ==
    ASSUME TablesInv, CreateTable
    PROVE  TablesInv'
<1>1. /\ phase = "table" /\ phase' = "psp"
      /\ ldt' = ldt /\ mPspSel' = mPspSel /\ environmentSegment' = environmentSegment
  BY DEF CreateTable
<1>2. PICK fs \in OSSels \cup {0} :
         mDesc' = [s \in (OSSels \cup {fs}) \ {0} |-> Descriptor("OS", 0, Word - 1)]
  BY DEF CreateTable
<1>3. (OSSels \cup {fs}) \ {0} = OSSels
  BY Places
<1>4. DOMAIN mDesc' = OSSels /\ \A s \in OSSels : mDesc'[s] = OSDescriptor
  BY <1>2, <1>3 DEF OSDescriptor
<1>5. \A s \in OSSels : s \in Nat /\ s >= 7 /\ Entry(s) \in OSEntries
  BY Places
<1>6. ASSUME NEW s \in OSSels
      PROVE  /\ s \in Nat /\ s >= 7 /\ mDesc'[s] \in Descriptors
             /\ Entry(s) \in DOMAIN ldt' /\ Ours(s)'
  <2>1. Entry(s) \in DOMAIN ldt'
    BY <1>1, <1>5 DEF TablesInv, EntriesInUse
  <2>2. OSDescriptor \in Descriptors /\ OSDescriptor.type # "LDT"
    BY Segments DEF OSDescriptor, Descriptor, Descriptors
  <2> QED
    BY <1>4, <1>5, <2>1, <2>2 DEF Ours
<1>7. DescriptorsAgree'
  BY <1>4, <1>6 DEF DescriptorsAgree
<1>8. EntriesInUse'
  BY <1>1 DEF TablesInv, EntriesInUse
<1>9. HostIsThere'
  BY <1>1, <1>4 DEF HostIsThere, OSDescriptor
<1>10. SegmentsAreThere'
  BY <1>1 DEF TablesInv, SegmentsAreThere
<1> QED
  BY <1>1, <1>7, <1>8, <1>9, <1>10 DEF TablesInv, Phases

LEMMA AllocPspSelStep ==
    ASSUME TablesInv, AllocPspSel
    PROVE  TablesInv'
<1>1. /\ phase = "psp" /\ phase' = "environment"
      /\ AllocLDTDesc(PspBase, PspLimit, mPspSel) /\ environmentSegment' = environmentSegment
  BY DEF AllocPspSel
<1>2. PICK i \in FreeEntries :
         /\ ldt' = Put(ldt, i, SetDescLimit(PspBase, PspLimit))
         /\ IF Accepts(Selector(i))
            THEN /\ mDesc' = Put(mDesc, Selector(i), Descriptor("LDT", PspBase, PspLimit))
                 /\ mPspSel' = Selector(i)
            ELSE UNCHANGED mDesc /\ mPspSel' = 0
  BY <1>1 DEF AllocLDTDesc
<1>3. /\ mDesc' = Put(mDesc, Selector(i), Descriptor("LDT", PspBase, PspLimit))
      /\ mPspSel' = Selector(i)
  BY <1>2, FreeIsAccepted
<1>4. /\ DescriptorsAgree' /\ EntriesInUse'
      /\ DOMAIN mDesc' = DOMAIN mDesc \cup {mPspSel'}
      /\ mDesc'[mPspSel'] = Descriptor("LDT", PspBase, PspLimit)
      /\ \A s \in DOMAIN mDesc : mDesc'[s] = mDesc[s]
  BY <1>2, <1>3, NewDescriptor, Segments
<1>5. HostIsThere'
  BY <1>1, <1>4 DEF TablesInv, HostIsThere
<1>6. SegmentsAreThere'
  <2>1. environmentSegment' = 0
    BY <1>1 DEF TablesInv, SegmentsAreThere
  <2> QED
    BY <1>1, <1>4, <2>1 DEF SegmentsAreThere
<1> QED
  BY <1>1, <1>4, <1>5, <1>6 DEF TablesInv, Phases

LEMMA AllocEnvironmentSelStep ==
    ASSUME TablesInv, AllocEnvironmentSel
    PROVE  TablesInv'
<1>1. /\ phase = "environment" /\ phase' = "program"
      /\ mPspSel' = mPspSel
  BY DEF AllocEnvironmentSel
<1>0. PICK size \in EnvironmentSizes : AllocLDTDesc(EnvBase, size, environmentSegment)
  BY DEF AllocEnvironmentSel
<1>2. PICK i \in FreeEntries :
         /\ ldt' = Put(ldt, i, SetDescLimit(EnvBase, size))
         /\ IF Accepts(Selector(i))
            THEN /\ mDesc' = Put(mDesc, Selector(i), Descriptor("LDT", EnvBase, size))
                 /\ environmentSegment' = Selector(i)
            ELSE UNCHANGED mDesc /\ environmentSegment' = 0
  BY <1>0 DEF AllocLDTDesc
<1>3. /\ mDesc' = Put(mDesc, Selector(i), Descriptor("LDT", EnvBase, size))
      /\ environmentSegment' = Selector(i)
  BY <1>2, FreeIsAccepted
<1>4. /\ DescriptorsAgree' /\ EntriesInUse'
      /\ DOMAIN mDesc' = DOMAIN mDesc \cup {environmentSegment'}
      /\ mDesc'[environmentSegment'] = Descriptor("LDT", EnvBase, size)
      /\ \A s \in DOMAIN mDesc : mDesc'[s] = mDesc[s]
  BY <1>2, <1>3, NewDescriptor, Segments
<1>5. HostIsThere'
  BY <1>1, <1>4 DEF TablesInv, HostIsThere
<1>6. SegmentsAreThere'
  <2>1. mPspSel' \in DOMAIN mDesc /\ mDesc[mPspSel'] = Descriptor("LDT", PspBase, PspLimit)
    BY <1>1 DEF TablesInv, SegmentsAreThere
  <2> QED
    BY <1>1, <1>4, <2>1 DEF SegmentsAreThere
<1> QED
  BY <1>1, <1>4, <1>5, <1>6 DEF TablesInv, Phases

\* The entries freed by mistake are never the host's: no selector is as small as an index.
LEMMA TeardownStep ==
    ASSUME TablesInv, Teardown
    PROVE  TablesInv'
<1> DEFINE sels == {sel \in DOMAIN mDesc : mDesc[sel].type = "LDT"}
<1>1. phase' \in {"gone", "refused"} /\ mDesc' = << >>
  BY DEF Teardown
<1>2. PICK freed \in SUBSET sels : Freed(freed)
  <2>1. CASE Freed(sels)
    BY <2>1
  <2>2. CASE \E refused \in sels : Freed({sel \in sels : sel < refused})
    BY <2>2
  <2> QED
    BY <2>1, <2>2 DEF Teardown
<1>3. DOMAIN mDesc' = {} /\ DOMAIN ldt' = DOMAIN ldt \ freed
  BY <1>1, <1>2 DEF Freed
<1>4. freed \cap OSEntries = {}
  BY Places DEF TablesInv, DescriptorsAgree
<1>5. EntriesInUse'
  BY <1>3, <1>4 DEF TablesInv, EntriesInUse
<1>6. DescriptorsAgree'
  BY <1>3 DEF DescriptorsAgree
<1> QED
  BY <1>1, <1>5, <1>6 DEF TablesInv, Phases, HostIsThere, SegmentsAreThere
-----------------------------------------------------------------------------
(* The answer, and everything together.                                     *)

\* A report of the memory is of the memory as it is: nothing changes that without an
\* answer of its own.
ReportInv ==
    /\ answer.cf \in BOOLEAN
    /\ phase \in {"table", "psp", "environment"} => answer.call # "info"
    /\ phase = "program" /\ answer.call = "info" =>
          answer.value = LargestFree /\ answer.arg = FreePages

IInv == TablesInv /\ MemoryInv /\ ReportInv

LEMMA InitIsRight == Init => IInv
<1> SUFFICES ASSUME Init PROVE IInv
  OBVIOUS
<1>1. DOMAIN mDesc = {} /\ phase = "table" /\ mPspSel = 0 /\ environmentSegment = 0
  BY DEF Init
<1>2. PICK taken \in SUBSET SpareEntries :
         ldt = [i \in OSEntries \cup taken |-> Foreign]
  BY DEF Init, OSEntries
<1>3. EntriesInUse
  BY <1>2 DEF EntriesInUse
<1>4. HostIsThere
  BY <1>1 DEF HostIsThere
<1>5. TablesInv
  BY <1>1, <1>3, <1>4 DEF TablesInv, Phases, DescriptorsAgree, SegmentsAreThere
<1>6. MemoryInv
  BY NoBlocks DEF Init
<1>7. ReportInv
  BY DEF Init, ReportInv, Answer
<1> QED
  BY <1>5, <1>6, <1>7 DEF IInv

\* A service that changes neither tables nor memory, and reports nothing.
LEMMA ServiceKeeps ==
    ASSUME IInv, NEW call, call # "info", NEW arg, NEW cf \in BOOLEAN, NEW v,
           Replies(call, arg, cf, v), UNCHANGED tables
    PROVE  TablesInv' /\ ReportInv'
<1>1. phase' = phase /\ phase = "program" /\ answer' = Answer(call, arg, cf, v)
  BY DEF Replies, Program
<1>2. answer'.call = call /\ answer'.cf = cf
  BY <1>1 DEF Answer
<1>3. TablesInv'
  BY <1>1, TablesKept DEF IInv
<1> QED
  BY <1>1, <1>2, <1>3 DEF ReportInv

LEMMA StepIsRight ==
    ASSUME IInv, [Next]_vars
    PROVE  IInv' /\ (phase # "exited" => BlocksAreKept)
<1>0. TablesInv /\ MemoryInv /\ ReportInv
  BY DEF IInv
<1>1. CASE CreateTable
  <2>1. TablesInv'
    BY <1>0, <1>1, CreateTableStep
  <2>2. MemoryInv' /\ BlocksAreKept
    BY <1>0, <1>1, MemoryKept DEF CreateTable
  <2>3. ReportInv'
    BY <1>0, <1>1 DEF CreateTable, ReportInv
  <2> QED
    BY <2>1, <2>2, <2>3 DEF IInv
<1>2. CASE AllocPspSel
  <2>1. TablesInv'
    BY <1>0, <1>2, AllocPspSelStep
  <2>2. MemoryInv' /\ BlocksAreKept
    BY <1>0, <1>2, MemoryKept DEF AllocPspSel
  <2>3. ReportInv'
    BY <1>0, <1>2 DEF AllocPspSel, ReportInv
  <2> QED
    BY <2>1, <2>2, <2>3 DEF IInv
<1>3. CASE AllocEnvironmentSel
  <2>1. TablesInv'
    BY <1>0, <1>3, AllocEnvironmentSelStep
  <2>2. MemoryInv' /\ BlocksAreKept
    BY <1>0, <1>3, MemoryKept DEF AllocEnvironmentSel
  <2>3. ReportInv'
    BY <1>0, <1>3 DEF AllocEnvironmentSel, ReportInv
  <2> QED
    BY <2>1, <2>2, <2>3 DEF IInv
<1>4. CASE NoEntry \/ Stop \/ Exit
  <2>1. /\ phase \in {"psp", "environment", "program"} /\ Ended
        /\ UNCHANGED memory /\ answer' = answer
    BY <1>4 DEF NoEntry, Stop, Exit, Program, Ended
  <2>2. TablesInv'
    BY <1>0, <2>1, EndKeepsTables
  <2>3. MemoryInv' /\ BlocksAreKept
    BY <1>0, <2>1, MemoryKept
  <2>4. ReportInv'
    BY <1>0, <2>1 DEF Ended, ReportInv
  <2> QED
    BY <2>2, <2>3, <2>4 DEF IInv
<1>5. CASE GetSegmentBase
  <2>1. UNCHANGED tables /\ UNCHANGED memory
    BY <1>5 DEF GetSegmentBase
  <2>2. PICK sel \in NamedSels :
           \/ Replies("base", sel, FALSE, mDesc[sel].base)
           \/ Replies("base", sel, TRUE, ERR_INVALID_SELECTOR)
    BY <1>5 DEF GetSegmentBase
  <2>3. TablesInv' /\ ReportInv'
    <3>1. CASE Replies("base", sel, FALSE, mDesc[sel].base)
      BY <2>1, <3>1, ServiceKeeps
    <3>2. CASE Replies("base", sel, TRUE, ERR_INVALID_SELECTOR)
      BY <2>1, <3>2, ServiceKeeps
    <3> QED
      BY <2>2, <3>1, <3>2
  <2>4. MemoryInv' /\ BlocksAreKept
    BY <1>0, <2>1, MemoryKept
  <2> QED
    BY <2>3, <2>4 DEF IInv
<1>6. CASE GetMemoryInfo
  <2>1. UNCHANGED tables /\ UNCHANGED memory
    BY <1>6 DEF GetMemoryInfo
  <2>2. \/ Replies("info", FreePages, FALSE, LargestFree)
        \/ Replies("noInfo", 0, FALSE, 0)
    BY <1>6 DEF GetMemoryInfo
  <2>3. TablesInv' /\ ReportInv'
    <3>1. CASE Replies("info", FreePages, FALSE, LargestFree)
      <4>1. /\ phase' = phase /\ answer'.call = "info" /\ answer'.cf = FALSE
            /\ answer'.value = LargestFree /\ answer'.arg = FreePages /\ phase = "program"
        BY <3>1 DEF Replies, Program, Answer
      <4>2. LargestFree' = LargestFree /\ FreePages' = FreePages
        BY <2>1 DEF memory, LargestFree, FreePages, Minus
      <4>3. ReportInv'
        BY <4>1, <4>2 DEF ReportInv
      <4> QED
        BY <1>0, <2>1, <4>1, <4>3, TablesKept
    <3>2. CASE Replies("noInfo", 0, FALSE, 0)
      BY <2>1, <3>2, ServiceKeeps
    <3> QED
      BY <2>2, <3>1, <3>2
  <2>4. MemoryInv' /\ BlocksAreKept
    BY <1>0, <2>1, MemoryKept
  <2> QED
    BY <2>3, <2>4 DEF IInv
<1>7. CASE Allocate
  <2>1. PICK size \in Sizes : size # 0 /\ AllocateMemory(size) /\ UNCHANGED tables
    BY <1>7 DEF Allocate
  <2>2. MemoryInv' /\ BlocksAreKept
    BY <1>0, <2>1, AllocateStep
  <2>3. PICK addr : Replies("allocate", size, FALSE, addr)
    BY <2>1 DEF AllocateMemory
  <2>4. TablesInv' /\ ReportInv'
    BY <2>1, <2>3, ServiceKeeps
  <2> QED
    BY <2>2, <2>4 DEF IInv
<1>8. CASE RefuseAllocation
  <2>1. UNCHANGED tables /\ UNCHANGED memory
    BY <1>8 DEF RefuseAllocation
  <2>2. PICK size \in Sizes :
           Replies("allocate", size, TRUE, IF size = 0 THEN ERR_INVALID_VALUE ELSE ERR_NO_PHYS_MEM)
    BY <1>8 DEF RefuseAllocation
  <2>3. TablesInv' /\ ReportInv'
    BY <2>1, <2>2, ServiceKeeps
  <2>4. MemoryInv' /\ BlocksAreKept
    BY <1>0, <2>1, MemoryKept
  <2> QED
    BY <2>3, <2>4 DEF IInv
<1>9. CASE ResizeSegment
  <2>1. UNCHANGED tables /\ UNCHANGED memory
    BY <1>9 DEF ResizeSegment
  <2>2. PICK sel \in NamedSels, n \in Paragraphs : Replies("resize", n, ~Grants(sel, n), 0)
    BY <1>9 DEF ResizeSegment
  <2>3. TablesInv' /\ ReportInv'
    <3>1. (~Grants(sel, n)) \in BOOLEAN
      OBVIOUS
    <3> QED
      BY <2>1, <2>2, <3>1, ServiceKeeps
  <2>4. MemoryInv' /\ BlocksAreKept
    BY <1>0, <2>1, MemoryKept
  <2> QED
    BY <2>3, <2>4 DEF IInv
<1>10. CASE SegInfo
  <2>1. UNCHANGED tables /\ UNCHANGED memory /\ Replies("segInfo", 0, TRUE, 0)
    BY <1>10 DEF SegInfo
  <2>2. TablesInv' /\ ReportInv'
    BY <2>1, ServiceKeeps
  <2>3. MemoryInv' /\ BlocksAreKept
    BY <1>0, <2>1, MemoryKept
  <2> QED
    BY <2>2, <2>3 DEF IInv
<1>11. CASE HandleDOS4GW
  <2>1. UNCHANGED tables /\ UNCHANGED memory
    BY <1>11 DEF HandleDOS4GW
  <2>2. PICK known \in BOOLEAN : Replies("DOS4GW", 0, ~known, 0)
    BY <1>11 DEF HandleDOS4GW
  <2>3. TablesInv' /\ ReportInv'
    <3>1. (~known) \in BOOLEAN
      OBVIOUS
    <3> QED
      BY <2>1, <2>2, <3>1, ServiceKeeps
  <2>4. MemoryInv' /\ BlocksAreKept
    BY <1>0, <2>1, MemoryKept
  <2> QED
    BY <2>3, <2>4 DEF IInv
<1>12. CASE Teardown
  <2>1. TablesInv'
    BY <1>0, <1>12, TeardownStep
  <2>2. MemoryInv'
    BY <1>12, NoBlocks DEF Teardown
  <2>3. ReportInv' /\ phase = "exited"
    BY <1>0, <1>12 DEF Teardown, ReportInv
  <2> QED
    BY <2>1, <2>2, <2>3 DEF IInv
<1>13. CASE UNCHANGED vars
  <2>1. /\ UNCHANGED memory /\ UNCHANGED tables /\ phase' = phase /\ answer' = answer
        /\ mAllocatedMemory' = mAllocatedMemory
    BY <1>13 DEF vars, memory, tables
  <2>2. TablesInv' /\ MemoryInv' /\ BlocksAreKept
    BY <1>0, <2>1, TablesKept, MemoryKept
  <2>3. ReportInv'
    BY <1>0, <2>1 DEF ReportInv, LargestFree, FreePages, Minus
  <2> QED
    BY <2>2, <2>3 DEF IInv
<1> QED
  BY <1>1, <1>2, <1>3, <1>4, <1>5, <1>6, <1>7, <1>8, <1>9, <1>10, <1>11, <1>12, <1>13 DEF Next

LEMMA Inductive == Spec => []IInv
<1>1. IInv /\ [Next]_vars => IInv'
  BY StepIsRight
<1> QED
  BY <1>1, InitIsRight, PTL DEF Spec
-----------------------------------------------------------------------------
(* What follows.                                                            *)

\* Every value is of its type: no address, size or count leaves a word, and the selectors
\* of the PSP and the environment are the table's for as long as there is a table.
THEOREM TypeCorrect == Spec => []TypeOK
<1>1. IInv => TypeOK
  <2> SUFFICES ASSUME IInv PROVE TypeOK
    OBVIOUS
  <2>1. \A s \in DOMAIN mDesc : s # 0 /\ mDesc[s] \in Descriptors
    BY DEF IInv, TablesInv, DescriptorsAgree
  <2>2. 0 \notin DOMAIN mDesc
    BY <2>1
  <2> QED
    BY <2>1, <2>2 DEF IInv, TablesInv, MemoryInv, ReportInv, EntriesInUse, SegmentsAreThere, Phases,
                      OSEntries, Descriptors, TypeOK
<1> QED
  BY <1>1, Inductive, PTL

\* The program starts with the PSP and the environment under two selectors of their own,
\* and the processor finds them where the table says and as large as it says, whichever
\* entries the host gives out, whatever the size of the environment, and whichever
\* entries the destructors free by mistake.
THEOREM SelectorsAreRight == Spec => []SelectorsResolve
<1>1. IInv => SelectorsResolve
  <2> SUFFICES ASSUME IInv PROVE SelectorsResolve
    OBVIOUS
  <2>1. \A s \in DOMAIN mDesc : s # 0 /\ Ours(s)
    BY DEF IInv, TablesInv, DescriptorsAgree
  <2>4. \A t \in OSSels : Entry(t) \in OSEntries
    BY Places
  <2>5. \A s \in DOMAIN mDesc : mDesc[s].type = "LDT" => Agrees(s) /\ \A t \in OSSels : Entry(s) # Entry(t)
    BY <2>1, <2>4 DEF Ours
  <2>2. \A s \in OSSels : Entry(s) \in DOMAIN ldt
    BY Places DEF IInv, TablesInv, EntriesInUse
  <2>3. ASSUME phase = "program"
        PROVE  /\ mPspSel # environmentSegment
               /\ mPspSel # 0 /\ mDesc[mPspSel] = Descriptor("LDT", PspBase, PspLimit)
               /\ environmentSegment # 0
               /\ \E size \in EnvironmentSizes :
                     mDesc[environmentSegment] = Descriptor("LDT", EnvBase, size)
               /\ \A s \in OSSels : mDesc[s] = Descriptor("OS", 0, Word - 1)
    <3>1. /\ mPspSel \in DOMAIN mDesc /\ mDesc[mPspSel] = Descriptor("LDT", PspBase, PspLimit)
          /\ environmentSegment \in DOMAIN mDesc
      BY <2>3 DEF IInv, TablesInv, SegmentsAreThere
    <3>2. PICK size \in EnvironmentSizes :
             mDesc[environmentSegment] = Descriptor("LDT", EnvBase, size)
      BY <2>3 DEF IInv, TablesInv, SegmentsAreThere
    <3>3. Descriptor("LDT", PspBase, PspLimit).base # Descriptor("LDT", EnvBase, size).base
      BY DEF Descriptor, PspBase, EnvBase
    <3>4. \A s \in OSSels : mDesc[s] = Descriptor("OS", 0, Word - 1)
      BY <2>3 DEF IInv, TablesInv, HostIsThere, OSDescriptor
    <3> QED
      BY <2>1, <3>1, <3>2, <3>3, <3>4
  <2> QED
    BY <2>2, <2>3, <2>5 DEF SelectorsResolve
<1> QED
  BY <1>1, Inductive, PTL

\* The count of allocated memory is exact, and never wraps, over any number of allocations
\* of any sizes: the blocks cannot be more than the address space.
THEOREM CountIsExact == Spec => []AllocatedIsSum
<1>1. IInv => AllocatedIsSum
  BY DEF IInv, MemoryInv
<1> QED
  BY <1>1, Inductive, PTL

\* A smaller number has no more whole units in it, and the rest is less than a unit.
LEMMA UnitsLeft ==
    ASSUME NEW m \in Nat, NEW a \in Nat, a <= m
    PROVE  /\ m \div PageSize >= a \div PageSize
           /\ (((m \div PageSize) - (a \div PageSize)) * PageSize) - (m - a) \in -PageSize .. PageSize
<1> DEFINE qm == m \div PageSize
           qa == a \div PageSize
           rm == m % PageSize
           ra == a % PageSize
<1>0. PageSize \in Nat /\ PageSize > 0
  BY Numbers
<1>1. qm \in Int /\ rm \in Int /\ rm >= 0 /\ rm < PageSize /\ m = (qm * PageSize) + rm
  BY <1>0, Divided
<1>2. qa \in Int /\ ra \in Int /\ ra >= 0 /\ ra < PageSize /\ a = (qa * PageSize) + ra
  BY <1>0, Divided
<1> HIDE DEF qm, qa, rm, ra
<1>3. qm >= qa
  <2> SUFFICES ASSUME qa >= qm + 1 PROVE FALSE
    BY <1>1, <1>2
  <2>1. (qa - (qm + 1)) * PageSize >= 0
    BY <1>0, <1>1, <1>2
  <2>2. qa * PageSize >= (qm * PageSize) + PageSize
    BY <1>0, <1>1, <1>2, <2>1
  <2>3. qa * PageSize \in Int /\ qm * PageSize \in Int
    BY <1>0, <1>1, <1>2
  <2> QED
    BY <1>0, <1>1, <1>2, <2>2, <2>3
<1>4. ((qm - qa) * PageSize) = (qm * PageSize) - (qa * PageSize)
  BY <1>0, <1>1, <1>2
<1>5. ((qm - qa) * PageSize) - (m - a) = ra - rm
  <2>1. qa * PageSize \in Int /\ qm * PageSize \in Int
    BY <1>0, <1>1, <1>2
  <2> QED
    BY <1>1, <1>2, <1>4, <2>1
<1>6. ra - rm \in -PageSize .. PageSize
  BY <1>0, <1>1, <1>2
<1> QED
  BY <1>3, <1>5, <1>6 DEF qm, qa

\* What function 0500h tells the program is right at the next look, too: in bytes exactly,
\* and in pages up to a page.
THEOREM ReportIsRight == Spec => []ReportAgrees
<1>1. IInv => ReportAgrees
  <2> SUFFICES ASSUME IInv, phase = "program", answer.call = "info", SumOfBlocks <= MaxMemory
               PROVE  /\ answer.value + SumOfBlocks = MaxMemory
                      /\ answer.arg * PageSize - answer.value \in -PageSize .. PageSize
    BY DEF ReportAgrees
  <2> DEFINE a == mAllocatedMemory
  <2>1. answer.value = LargestFree /\ answer.arg = FreePages /\ a = SumOfBlocks
    BY DEF IInv, ReportInv, MemoryInv, AllocatedIsSum
  <2>2. Word \in Nat /\ MaxMemory \in 0 .. Word - 1 /\ a \in 0 .. Word - 1
    BY Numbers DEF IInv, MemoryInv
  <2>3. MaxMemory \in Nat /\ a \in Nat /\ a <= MaxMemory
    BY <2>1, <2>2
  <2>4. LargestFree = MaxMemory - a
    BY <2>3 DEF LargestFree, Minus
  <2>5. /\ MaxMemory \div PageSize >= a \div PageSize
        /\ (((MaxMemory \div PageSize) - (a \div PageSize)) * PageSize) - (MaxMemory - a)
              \in -PageSize .. PageSize
    <3> HIDE DEF a
    <3> QED
      BY <2>3, UnitsLeft
  <2>6. FreePages = (MaxMemory \div PageSize) - (a \div PageSize)
    BY <2>5 DEF FreePages, Minus
  <2>7. answer.value + SumOfBlocks = MaxMemory
    BY <2>1, <2>3, <2>4
  <2>8. answer.arg * PageSize - answer.value \in -PageSize .. PageSize
    BY <2>1, <2>4, <2>5, <2>6
  <2> QED
    BY <2>7, <2>8
<1> QED
  BY <1>1, Inductive, PTL

\* No service moves, resizes or overlaps a block the program was given before.
THEOREM BlocksAreSafe == Spec => BlocksStand
<1>1. IInv /\ [Next]_vars => [phase # "exited" => BlocksAreKept]_vars
  BY StepIsRight
<1> QED
  BY <1>1, Inductive, PTL DEF Spec, BlocksStand
=============================================================================
