----------------------------- MODULE LeImage_proofs -----------------------------
(***************************************************************************)
(* Proofs about LeImage, for every set of files, however many objects,     *)
(* pages and fixups they have, and every size of a page, the heap and a    *)
(* word.                                                                   *)
(***************************************************************************)
EXTENDS LeImage, WellFoundedInduction, TLAPS

-----------------------------------------------------------------------------
(* Files.                                                                   *)

\* The memory of object i, as AllocSize has it for the object load is at.
AllocOf(i) == (RoundToPageSize(img.objects[i].size) + (IF i = img.espObj THEN HeapSize ELSE 0)) % Word

CheckErrors  == {HeaderChecks[i][2] : i \in DOMAIN HeaderChecks}
LoaderErrors == {"IMG_UNKNOWN_FORMAT", "IMG_CORRUPTED"} \cup CheckErrors
HostErrors   == {"IMG_FILE_NOT_FOUND", "IMG_OUT_OF_MEMORY", "IMG_INTERNAL_ERROR"}

LEMMA ErrorsOfChecks ==
    /\ CheckErrors = {"IMG_INCOMPATIBLE", "IMG_NOT_SUPPORTED", "IMG_NOT_EXECUTABLE", "IMG_NOT_RELOCATABLE"}
    /\ \A i \in DOMAIN HeaderChecks : HeaderChecks[i][2] \in CheckErrors
<1>1. DOMAIN HeaderChecks = 1 .. 8
  BY DEF HeaderChecks
<1>2. /\ HeaderChecks[1][2] = "IMG_INCOMPATIBLE" /\ HeaderChecks[2][2] = "IMG_NOT_SUPPORTED"
      /\ HeaderChecks[3][2] = "IMG_INCOMPATIBLE" /\ HeaderChecks[4][2] = "IMG_NOT_SUPPORTED"
      /\ HeaderChecks[5][2] = "IMG_NOT_EXECUTABLE" /\ HeaderChecks[6][2] = "IMG_NOT_SUPPORTED"
      /\ HeaderChecks[7][2] = "IMG_NOT_RELOCATABLE" /\ HeaderChecks[8][2] = "IMG_NOT_SUPPORTED"
  BY DEF HeaderChecks
<1>3. \A i \in 1 .. 8 : i = 1 \/ i = 2 \/ i = 3 \/ i = 4 \/ i = 5 \/ i = 6 \/ i = 7 \/ i = 8
  OBVIOUS
<1> QED
  BY <1>1, <1>2, <1>3 DEF CheckErrors

LEMMA FileIsImage ==
    ASSUME img \in Images
    PROVE  /\ NumObjects \in Nat /\ DOMAIN img.objects = 1 .. NumObjects
           /\ img.eipObj \in Nat /\ img.espObj \in Nat /\ img.length \in Nat
           /\ img.esp \in Nat /\ img.data \in Nat /\ img.data >= 1
           /\ \A i \in 1 .. NumObjects : IsObject(img.objects[i])
BY ImagesAreLE DEF IsImage, IsList, NumObjects

LEMMA ObjectIsRead ==
    ASSUME NEW b, IsObject(b)
    PROVE  /\ b.flags \in {"plain", "discard", "unsupported"}
           /\ b.size \in Nat /\ b.size >= 1 /\ b.size < Word
           /\ Len(b.pages) \in Nat /\ DOMAIN b.pages = 1 .. Len(b.pages)
           /\ \A k \in DOMAIN b.pages : /\ b.pages[k].number \in Nat /\ b.pages[k].number >= 1
                                        /\ b.pages[k].high \in Nat /\ b.pages[k].low \in Nat
           /\ DOMAIN b.fixups = 1 .. Len(b.pages)
           /\ \A k \in DOMAIN b.fixups :
                 /\ Len(b.fixups[k]) \in Nat /\ DOMAIN b.fixups[k] = 1 .. Len(b.fixups[k])
                 /\ \A x \in DOMAIN b.fixups[k] : IsFixup(b.fixups[k][x])
<1>1. Word \in Nat /\ b.size \in 1 .. Word - 1
  BY Sizes DEF IsObject
<1>2. b.size \in Nat /\ b.size >= 1 /\ b.size < Word
  BY <1>1
<1> DEFINE pages == b.pages
<1>3. pages \in Seq(PageEntry)
  BY DEF IsObject
<1>4. /\ Len(b.pages) \in Nat /\ DOMAIN b.pages = 1 .. Len(b.pages)
      /\ \A k \in 1 .. Len(b.pages) : b.pages[k] \in PageEntry
  <2> HIDE DEF pages
  <2>1. Len(pages) \in Nat /\ DOMAIN pages = 1 .. Len(pages) /\ \A k \in 1 .. Len(pages) : pages[k] \in PageEntry
    BY <1>3
  <2> QED
    BY <2>1 DEF pages
<1>5. \A k \in DOMAIN b.pages : /\ b.pages[k].number \in Nat /\ b.pages[k].number >= 1
                                /\ b.pages[k].high \in Nat /\ b.pages[k].low \in Nat
  BY <1>4 DEF PageEntry
<1> QED
  BY <1>2, <1>4, <1>5 DEF IsObject, IsList

\* A quotient and its remainder make up the number.
LEMMA Divided ==
    ASSUME NEW x \in Int, NEW unit \in Nat, unit > 0
    PROVE  /\ x \div unit \in Int /\ x % unit \in Int /\ x % unit >= 0 /\ x % unit < unit
           /\ x = ((x \div unit) * unit) + (x % unit)
<1>1. x \div unit \in Int /\ x % unit \in 0 .. unit - 1
  OBVIOUS
<1>2. x = (unit * (x \div unit)) + (x % unit)
  OBVIOUS
<1> QED
  BY <1>1, <1>2

\* Whatever is rounded becomes larger, by a page at most.
LEMMA Rounded ==
    ASSUME NEW size \in Nat
    PROVE  RoundToPageSize(size) \in Nat /\ RoundToPageSize(size) > size
           /\ RoundToPageSize(size) <= size + PageSize
<1> DEFINE q == size \div PageSize
           m == size % PageSize
<1>0. PageSize \in Nat /\ PageSize > 0
  BY Sizes
<1>1. q \in Int /\ m \in Int /\ m >= 0 /\ m < PageSize /\ size = (q * PageSize) + m
  BY <1>0, Divided
<1>2. RoundToPageSize(size) = (q + 1) * PageSize
  BY DEF RoundToPageSize
<1> HIDE DEF q, m
<1>3. (q + 1) * PageSize = (q * PageSize) + PageSize /\ q * PageSize \in Int
  BY <1>0, <1>1
<1> QED
  BY <1>0, <1>1, <1>2, <1>3

LEMMA AllocIsWord ==
    ASSUME img \in Images, NEW i \in 1 .. NumObjects
    PROVE  /\ AllocOf(i) \in Nat /\ AllocOf(i) < Word
           /\ FitsWord => /\ AllocOf(i) > img.objects[i].size
                          /\ i = img.espObj => AllocOf(i) > img.objects[i].size + HeapSize
<1> DEFINE size == img.objects[i].size
           round == RoundToPageSize(size)
           heap == IF i = img.espObj THEN HeapSize ELSE 0
<1>1. Word \in Nat /\ Word > 0 /\ HeapSize \in Nat /\ PageSize \in Nat
  BY Sizes
<1>2. size \in Nat
  BY FileIsImage, ObjectIsRead
<1>3. round \in Nat /\ round > size /\ round <= size + PageSize
  BY <1>2, Rounded
<1>4. heap \in Nat /\ heap <= HeapSize /\ (i = img.espObj => heap = HeapSize)
  BY <1>1
<1>5. AllocOf(i) = (round + heap) % Word
  BY DEF AllocOf
<1>6. FitsWord => size + PageSize + HeapSize < Word
  BY FileIsImage DEF FitsWord
<1> HIDE DEF size, round, heap
<1>7. (round + heap) % Word \in Nat /\ (round + heap) % Word < Word
  BY <1>1, <1>3, <1>4
<1>8. FitsWord => (round + heap) % Word = round + heap
  BY <1>1, <1>2, <1>3, <1>4, <1>6
<1>9. FitsWord => AllocOf(i) > size /\ (i = img.espObj => AllocOf(i) > size + HeapSize)
  BY <1>1, <1>2, <1>3, <1>4, <1>5, <1>8
<1> QED
  BY <1>5, <1>7, <1>9 DEF size
-----------------------------------------------------------------------------
(* The invariant: how far load is, and what it holds.                       *)

Cells    == [kind : {"zero", "gone", "file", "low", "high", "codeSel"}, obj : Int, off : Int]
Memories == {NULL} \cup UNION {[0 .. n - 1 -> Cells] : n \in 1 .. Word}

Fixing  == {"fixObject", "fixPage", "record"}
Working == {"open", "header", "tables", "object", "page"} \cup Fixing

Typed ==
    /\ pc \in Working \cup Ends \cup {"thrown"}
    /\ img \in Images
    /\ error \in {"none"} \cup LoaderErrors \cup HostErrors
    /\ mFile \in {"closed", "open"}
    /\ mem \in {"none", "mapped", "released", "leaked"}
    /\ mObjectMappings \in Seq(Memories)
    /\ o \in 1 .. NumObjects + 1 /\ p \in Nat /\ r \in Nat
    /\ region \in [startOffset : 0 .. Word - 1, startIdx : Nat, endOffset : 0 .. Word - 1]
    /\ stack.pointer \in Nat /\ stack.heapEnd \in Nat

\* Object by object and page by page: the list of mappings is as long as load has come.
Progress ==
    /\ Len(mObjectMappings) <= NumObjects
    /\ pc \in {"open", "header", "tables"} => Len(mObjectMappings) = 0 /\ o = 1
    /\ pc = "object" => Len(mObjectMappings) = o - 1
    /\ pc = "page"   => /\ o <= NumObjects /\ Len(mObjectMappings) = o
                        /\ p <= Len(Object.pages) /\ Object.flags = "plain"
    /\ pc \in Fixing \cup {"loaded"} => Len(mObjectMappings) = NumObjects
    /\ pc \in {"fixPage", "record"} => o <= NumObjects /\ p <= Len(Object.pages)
    /\ pc = "record" => p < Len(Object.pages) /\ r >= 1

\* Who has memory, and how much.
MappingIsRight(i) ==
    /\ img.objects[i].flags # "unsupported"
    /\ Mapped(i) <=> img.objects[i].flags = "plain"
    /\ Mapped(i) => DOMAIN mObjectMappings[i] = 0 .. AllocOf(i) - 1

MappingsInv == pc # "deleted" => \A i \in DOMAIN mObjectMappings : MappingIsRight(i)

\* What becomes of the map of the file, and of the image in the end.
EndsInv ==
    /\ pc \in Working => error = "none"
    /\ pc = "open" => mem = "none"
    /\ pc \in (Working \ {"open"}) \cup {"crashed", "corrupted", "aborted"} => mem = "mapped"
    /\ pc \in {"thrown", "deleted"} => mem \in {"none", "released", "leaked"}
    /\ mem = "leaked" => error \in LoaderErrors
    /\ pc = "loaded" => /\ mem = "released" /\ Mapped(img.espObj)
                        /\ stack = [pointer |-> img.esp, heapEnd |-> img.esp + HeapSize]
    /\ pc = "deleted" => mFile = "closed" /\ \A i \in DOMAIN mObjectMappings : ~Mapped(i)
    /\ pc \in {"crashed", "corrupted"} /\ FitsWord => BadReference

Skeleton == Typed /\ Progress /\ MappingsInv /\ EndsInv

LEMMA MappingsAreSeq ==
    ASSUME Typed
    PROVE  /\ Len(mObjectMappings) \in Nat
           /\ DOMAIN mObjectMappings = 1 .. Len(mObjectMappings)
           /\ \A i \in DOMAIN mObjectMappings : mObjectMappings[i] \in Memories
<1>1. mObjectMappings \in Seq(Memories)
  BY DEF Typed
<1> QED
  BY <1>1

LEMMA InitSkeleton == Init => Skeleton
<1> SUFFICES ASSUME Init PROVE Skeleton
  OBVIOUS
<1>1. /\ img \in Images /\ pc = "open" /\ error = "none" /\ mFile = "closed" /\ mem = "none"
      /\ mObjectMappings = << >> /\ o = 1 /\ p = 0 /\ r = 1
      /\ region = NoRegion /\ stack = NoStack
  BY DEF Init
<1>2. << >> \in Seq(Memories) /\ Len(<< >>) = 0 /\ DOMAIN << >> = {}
  OBVIOUS
<1>3. NumObjects \in Nat /\ 1 \in 1 .. NumObjects + 1
  BY <1>1, FileIsImage
<1>4. region \in [startOffset : 0 .. Word - 1, startIdx : Nat, endOffset : 0 .. Word - 1]
  <2>1. 0 \in 0 .. Word - 1
    BY Sizes
  <2> QED
    BY <1>1, <2>1 DEF NoRegion
<1>5. Typed
  BY <1>1, <1>2, <1>3, <1>4 DEF Typed, Working, NoStack
<1>6. Progress
  BY <1>1, <1>2, <1>3 DEF Progress, Fixing
<1>7. MappingsInv
  BY <1>1, <1>2 DEF MappingsInv
<1>8. EndsInv
  BY <1>1 DEF EndsInv, Working
<1> QED
  BY <1>5, <1>6, <1>7, <1>8 DEF Skeleton
-----------------------------------------------------------------------------
(* load ends early.                                                         *)

LEMMA LoaderErrorStep ==
    ASSUME Skeleton, pc \in Working \ {"open"}, NEW e \in LoaderErrors, LoaderError(e)
    PROVE  Skeleton'
<1>1. /\ pc' = "thrown" /\ error' = e /\ mem' = (IF mem = "mapped" THEN "leaked" ELSE mem)
      /\ UNCHANGED <<img, mFile, mObjectMappings, o, p, r, region, stack>>
  BY DEF LoaderError
<1>2. mem' = "leaked"
  BY <1>1 DEF Skeleton, EndsInv
<1>3. Typed'
  BY <1>1, <1>2 DEF Skeleton, Typed, NumObjects
<1>4. Progress'
  BY <1>1 DEF Skeleton, Progress, NumObjects, Fixing
<1>5. MappingsInv'
  BY <1>1 DEF Skeleton, MappingsInv, MappingIsRight, Mapped, Listed, AllocOf, Working, Fixing
<1>6. EndsInv'
  BY <1>1, <1>2 DEF EndsInv, Working, Fixing
<1> QED
  BY <1>3, <1>4, <1>5, <1>6 DEF Skeleton

LEMMA HostErrorStep ==
    ASSUME Skeleton, pc \in Working, NEW e \in HostErrors, HostError(e),
           mFile' \in {"closed", "open"}
    PROVE  Skeleton'
<1>1. /\ pc' = "thrown" /\ error' = e /\ mem' = (IF mem = "mapped" THEN "released" ELSE mem)
      /\ UNCHANGED <<img, mObjectMappings, o, p, r, region, stack>>
  BY DEF HostError
<1>2. mem' \in {"none", "released"}
  BY <1>1 DEF Skeleton, EndsInv
<1>3. Typed'
  BY <1>1, <1>2 DEF Skeleton, Typed, NumObjects
<1>4. Progress'
  BY <1>1 DEF Skeleton, Progress, NumObjects, Fixing
<1>5. MappingsInv'
  BY <1>1 DEF Skeleton, MappingsInv, MappingIsRight, Mapped, Listed, AllocOf, Working, Fixing
<1>6. EndsInv'
  BY <1>1, <1>2 DEF EndsInv, Working, Fixing
<1> QED
  BY <1>3, <1>4, <1>5, <1>6 DEF Skeleton

LEMMA SameReferences ==
    ASSUME UNCHANGED <<img, mObjectMappings>>
    PROVE  (FitsWord' <=> FitsWord) /\ (BadReference' <=> BadReference)
BY DEF FitsWord, BadReference, IsPlain, Mapped, Listed

\* When all objects have their place, only one that is plain has memory.
LEMMA UnmappedIsNotPlain ==
    ASSUME Skeleton, pc \in Fixing, NEW i, ~Mapped(i)
    PROVE  ~IsPlain(i)
<1> SUFFICES ASSUME IsPlain(i) PROVE FALSE
  OBVIOUS
<1>1. DOMAIN img.objects = 1 .. NumObjects /\ DOMAIN mObjectMappings = 1 .. NumObjects
  BY FileIsImage, MappingsAreSeq DEF Skeleton, Typed, Progress
<1>2. i \in DOMAIN mObjectMappings /\ img.objects[i].flags = "plain"
  BY <1>1 DEF IsPlain
<1>3. MappingIsRight(i)
  BY <1>2 DEF Skeleton, MappingsInv, Fixing
<1> QED
  BY <1>2, <1>3 DEF MappingIsRight

LEMMA DiesStep ==
    ASSUME Skeleton, pc \in Working \ {"open"}, NEW how \in {"crashed", "corrupted", "aborted"},
           Dies(how), how # "aborted" /\ FitsWord => BadReference
    PROVE  Skeleton'
<1>1. pc' = how /\ UNCHANGED <<img, error, mFile, mem, mObjectMappings, o, p, r, region, stack>>
  BY DEF Dies
<1>2. mem = "mapped"
  BY DEF Skeleton, EndsInv
<1>3. Typed'
  BY <1>1 DEF Skeleton, Typed, NumObjects, Ends
<1>4. Progress'
  BY <1>1 DEF Skeleton, Progress, NumObjects, Fixing
<1>5. MappingsInv'
  BY <1>1 DEF Skeleton, MappingsInv, MappingIsRight, Mapped, Listed, AllocOf, Working, Fixing
<1>6. how # "aborted" /\ FitsWord' => BadReference'
  BY <1>1, SameReferences
<1>7. EndsInv'
  BY <1>1, <1>2, <1>6 DEF Skeleton, EndsInv, Working, Fixing
<1> QED
  BY <1>3, <1>4, <1>5, <1>7 DEF Skeleton
-----------------------------------------------------------------------------
(* load goes on.                                                            *)

\* The list of mappings as it was, but for what the memory holds.
KeepsShape ==
    /\ mObjectMappings' \in Seq(Memories)
    /\ Len(mObjectMappings') = Len(mObjectMappings)
    /\ \A i \in DOMAIN mObjectMappings :
          /\ mObjectMappings'[i] # NULL <=> Mapped(i)
          /\ DOMAIN mObjectMappings'[i] = DOMAIN mObjectMappings[i]

Counters ==
    /\ o \in 1 .. NumObjects + 1 /\ p \in Nat /\ r \in Nat
    /\ region \in [startOffset : 0 .. Word - 1, startIdx : Nat, endOffset : 0 .. Word - 1]

LEMMA MoveStep ==
    ASSUME Skeleton, KeepsShape, UNCHANGED <<img, error, mFile, mem, stack>>,
           pc \in Working \ {"open"}, pc' \in Working \ {"open"}, Counters', Progress'
    PROVE  Skeleton'
<1>1. /\ img' = img /\ error' = error /\ mFile' = mFile /\ mem' = mem /\ stack' = stack
      /\ mObjectMappings' \in Seq(Memories)
  BY DEF KeepsShape
<1>2. Typed'
  BY <1>1 DEF Skeleton, Typed, Counters
<1>3. DOMAIN mObjectMappings' = DOMAIN mObjectMappings
  <2>1. /\ DOMAIN mObjectMappings' = 1 .. Len(mObjectMappings')
        /\ DOMAIN mObjectMappings = 1 .. Len(mObjectMappings)
    BY <1>1, MappingsAreSeq DEF Skeleton
  <2> QED
    BY <2>1 DEF KeepsShape
<1>4. MappingsInv'
  <2> SUFFICES ASSUME NEW i \in DOMAIN mObjectMappings
               PROVE  MappingIsRight(i)'
    BY <1>3 DEF MappingsInv
  <2>1. MappingIsRight(i)
    BY DEF Skeleton, MappingsInv, Working, Fixing
  <2>2. (Mapped(i)' <=> Mapped(i)) /\ DOMAIN mObjectMappings'[i] = DOMAIN mObjectMappings[i]
    BY <1>3 DEF KeepsShape, Mapped, Listed
  <2> QED
    BY <1>1, <2>1, <2>2 DEF MappingIsRight, AllocOf
<1>5. EndsInv'
  BY <1>1 DEF Skeleton, EndsInv, Working, Fixing
<1> QED
  BY <1>2, <1>4, <1>5 DEF Skeleton

LEMMA SameShape == ASSUME Typed, UNCHANGED mObjectMappings PROVE KeepsShape
BY DEF Typed, KeepsShape, Mapped, Listed

LEMMA MemoryIsMapped ==
    ASSUME NEW n \in Nat, n >= 1, n <= Word, NEW f \in [0 .. n - 1 -> Cells]
    PROVE  f \in Memories /\ f # NULL /\ DOMAIN f = 0 .. n - 1
<1>1. n \in 1 .. Word
  BY Sizes
<1>2. 0 \in DOMAIN f /\ DOMAIN NULL = {}
  BY DEF NULL
<1> QED
  BY <1>1, <1>2 DEF Memories

\* Cells are written, none is added or lost.
LEMMA NewShape ==
    ASSUME Skeleton, pc # "deleted", NEW i \in DOMAIN mObjectMappings, Mapped(i),
           NEW f \in [DOMAIN mObjectMappings[i] -> Cells],
           mObjectMappings' = [mObjectMappings EXCEPT ![i] = f]
    PROVE  /\ KeepsShape /\ mObjectMappings'[i] = f
           /\ \A k \in DOMAIN mObjectMappings \ {i} : mObjectMappings'[k] = mObjectMappings[k]
<1>1. mObjectMappings[i] \in Memories /\ mObjectMappings[i] # NULL
  BY MappingsAreSeq DEF Skeleton, Mapped, Listed
<1>2. PICK n \in 1 .. Word : mObjectMappings[i] \in [0 .. n - 1 -> Cells]
  BY <1>1 DEF Memories
<1>3. f \in Memories /\ f # NULL /\ DOMAIN f = DOMAIN mObjectMappings[i]
  <2>1. n \in Nat /\ n >= 1 /\ n <= Word /\ DOMAIN mObjectMappings[i] = 0 .. n - 1
    BY <1>2, Sizes
  <2> QED
    BY <2>1, MemoryIsMapped
<1>4. mObjectMappings \in Seq(Memories)
  BY DEF Skeleton, Typed
<1>5. mObjectMappings' \in Seq(Memories) /\ Len(mObjectMappings') = Len(mObjectMappings)
  BY <1>3, <1>4
<1>6. /\ mObjectMappings'[i] = f
      /\ \A k \in DOMAIN mObjectMappings \ {i} : mObjectMappings'[k] = mObjectMappings[k]
  BY <1>4
<1> QED
  BY <1>3, <1>5, <1>6 DEF KeepsShape, Mapped, Listed

\* The next object has its place in the list.
LEMMA AppendStep ==
    ASSUME Skeleton, pc = "object", o <= NumObjects, NEW m \in Memories,
           mObjectMappings' = Append(mObjectMappings, m),
           UNCHANGED <<img, error, mFile, mem, stack>>,
           pc' \in Working \ {"open"}, Counters', Progress',
           Object.flags # "unsupported", m # NULL <=> Object.flags = "plain",
           m # NULL => DOMAIN m = 0 .. AllocOf(o) - 1
    PROVE  Skeleton'
<1>1. /\ img' = img /\ error' = error /\ mFile' = mFile /\ mem' = mem /\ stack' = stack
  OBVIOUS
<1>2. mObjectMappings \in Seq(Memories) /\ Len(mObjectMappings) = o - 1 /\ o \in Nat
  BY FileIsImage DEF Skeleton, Typed, Progress
<1>3. mObjectMappings' \in Seq(Memories)
  BY <1>2
<1>4. /\ DOMAIN mObjectMappings = 1 .. o - 1 /\ DOMAIN mObjectMappings' = 1 .. o
      /\ mObjectMappings'[o] = m
      /\ \A i \in 1 .. o - 1 : mObjectMappings'[i] = mObjectMappings[i]
  BY <1>2
<1>5. Typed'
  BY <1>1, <1>3 DEF Skeleton, Typed, Counters
<1>6. MappingsInv'
  <2> SUFFICES ASSUME NEW i \in 1 .. o
               PROVE  MappingIsRight(i)'
    BY <1>4 DEF MappingsInv
  <2>1. CASE i = o
    BY <1>1, <1>4, <2>1 DEF MappingIsRight, Mapped, Listed, AllocOf, Object
  <2>2. CASE i # o
    <3>1. i \in 1 .. o - 1
      BY <1>2, <2>2
    <3>2. MappingIsRight(i)
      BY <1>4, <3>1 DEF Skeleton, MappingsInv
    <3> QED
      BY <1>1, <1>4, <3>1, <3>2 DEF MappingIsRight, Mapped, Listed, AllocOf
  <2> QED
    BY <2>1, <2>2
<1>7. EndsInv'
  BY <1>1 DEF Skeleton, EndsInv, Working, Fixing
<1> QED
  BY <1>5, <1>6, <1>7 DEF Skeleton
-----------------------------------------------------------------------------
(* Action by action.                                                        *)

RegionType == [startOffset : 0 .. Word - 1, startIdx : Nat, endOffset : 0 .. Word - 1]

\* What a step finds that is at an object.
LEMMA AtAnObject ==
    ASSUME Skeleton, o <= NumObjects
    PROVE  /\ o \in 1 .. NumObjects /\ NumObjects \in Nat /\ o \in Nat
           /\ IsObject(Object)
           /\ Len(Object.pages) \in Nat /\ DOMAIN Object.pages = 1 .. Len(Object.pages)
<1>1. o \in 1 .. NumObjects + 1 /\ NumObjects \in Nat
  BY FileIsImage DEF Skeleton, Typed
<1>2. o \in 1 .. NumObjects /\ o \in Nat
  BY <1>1
<1>3. IsObject(Object)
  BY <1>2, FileIsImage DEF Skeleton, Typed, Object
<1> QED
  BY <1>1, <1>2, <1>3, ObjectIsRead

LEMMA NoRegionYet == NoRegion \in RegionType
<1>1. 0 \in 0 .. Word - 1
  BY Sizes
<1> QED
  BY <1>1 DEF NoRegion, RegionType

LEMMA OffsetIsWord ==
    ASSUME Skeleton, o <= NumObjects, p < Len(Object.pages)
    PROVE  PageFileOffset \in 0 .. Word - 1 /\ Started \in RegionType
<1> DEFINE n == Object.pages[p + 1].high + Object.pages[p + 1].low
<1>1. p \in Nat /\ p + 1 \in DOMAIN Object.pages
  <2>1. p \in Nat
    BY DEF Skeleton, Typed
  <2> QED
    BY <2>1, AtAnObject
<1> DEFINE page == Object.pages[p + 1]
<1>2. page.high \in Nat /\ page.low \in Nat /\ img.data \in Nat
  BY <1>1, AtAnObject, ObjectIsRead, FileIsImage DEF Skeleton, Typed
<1>3. n \in Nat /\ PageFileOffset = ((n - 1) * PageSize + img.data) % Word
  <2>1. n = page.high + page.low
    OBVIOUS
  <2>2. PageFileOffset = ((page.high + page.low - 1) * PageSize + img.data) % Word
    BY DEF PageFileOffset
  <2> HIDE DEF n, page
  <2> QED
    BY <1>2, <2>1, <2>2
<1>4. PageFileOffset \in 0 .. Word - 1
  <2> HIDE DEF n, page
  <2>1. Word \in Nat /\ Word > 0 /\ PageSize \in Int
    BY Sizes
  <2>2. (n - 1) * PageSize + img.data \in Int
    BY <1>2, <1>3, <2>1
  <2> QED
    BY <1>3, <2>1, <2>2
<1>5. region \in RegionType
  BY DEF Skeleton, Typed, RegionType
<1>6. Started \in RegionType
  BY <1>1, <1>4, <1>5 DEF Started, RegionType
<1> QED
  BY <1>4, <1>6

LEMMA OpenSteps ==
    ASSUME Skeleton, OpenFails \/ Open \/ CheckHeader \/ LocateTables
    PROVE  Skeleton'
<1>1. CASE OpenFails
  <2>1. PICK opened \in {"closed", "open"}, e \in {"IMG_FILE_NOT_FOUND", "IMG_OUT_OF_MEMORY"} :
           mFile' = opened /\ HostError(e)
    BY <1>1 DEF OpenFails
  <2>2. e \in HostErrors /\ pc \in Working /\ mFile' \in {"closed", "open"}
    BY <1>1, <2>1 DEF HostErrors, OpenFails, Working
  <2> QED
    BY <2>1, <2>2, HostErrorStep
<1>2. CASE Open
  <2>1. /\ pc = "open" /\ pc' = "header" /\ mFile' = "open" /\ mem' = "mapped"
        /\ UNCHANGED <<img, error, mObjectMappings, o, p, r, region, stack>>
    BY <1>2 DEF Open
  <2>2. Typed'
    BY <2>1 DEF Skeleton, Typed, NumObjects, Working
  <2>3. Progress'
    BY <2>1 DEF Skeleton, Progress, NumObjects, Fixing
  <2>4. MappingsInv'
    BY <2>1 DEF Skeleton, MappingsInv, MappingIsRight, Mapped, Listed, AllocOf
  <2>5. EndsInv'
    BY <2>1 DEF Skeleton, EndsInv, Working, Fixing
  <2> QED
    BY <2>2, <2>3, <2>4, <2>5 DEF Skeleton
<1>3. CASE CheckHeader
  <2>1. pc = "header" /\ pc \in Working \ {"open"}
    BY <1>3 DEF CheckHeader, Working
  <2>2. CASE LoaderError("IMG_UNKNOWN_FORMAT")
    <3>1. "IMG_UNKNOWN_FORMAT" \in LoaderErrors
      BY DEF LoaderErrors
    <3> QED
      BY <2>1, <2>2, <3>1, LoaderErrorStep
  <2>3. CASE Faults # {} /\ LoaderError(HeaderChecks[FirstFault][2])
    <3>1. \E i \in Faults : \A k \in Faults : i <= k
      <4>1. Faults \in SUBSET (1 .. 8)
        BY DEF Faults, HeaderChecks
      <4>2. /\ 1 \in Faults => \A k \in Faults : 1 <= k
            /\ \A j \in 1 .. 7 : (\A k \in Faults : k > j) /\ j + 1 \in Faults => \A k \in Faults : j + 1 <= k
            /\ \A j \in 1 .. 7 : (\A k \in Faults : k > j) /\ j + 1 \notin Faults => \A k \in Faults : k > j + 1
            /\ 1 \notin Faults => \A k \in Faults : k > 1
        BY <4>1
      <4>3. ~ \A k \in Faults : k > 8
        <5>1. PICK k \in Faults : TRUE
          BY <2>3
        <5>2. ~(k > 8)
          BY <4>1
        <5> QED
          BY <5>2
      <4> QED
        BY <4>2, <4>3
    <3>2. FirstFault \in Faults
      BY <3>1 DEF FirstFault
    <3>3. HeaderChecks[FirstFault][2] \in LoaderErrors
      BY <3>2, ErrorsOfChecks DEF Faults, LoaderErrors
    <3> QED
      BY <2>1, <2>3, <3>3, LoaderErrorStep
  <2>4. CASE /\ pc' = "tables"
             /\ UNCHANGED <<img, error, mFile, mem, mObjectMappings, o, p, r, region, stack>>
    <3>1. Progress'
      BY <2>1, <2>4 DEF Skeleton, Progress, NumObjects, Fixing
    <3>2. KeepsShape /\ Counters' /\ pc' \in Working \ {"open"}
      BY <2>4, SameShape DEF Skeleton, Typed, Counters, NumObjects, Working
    <3> QED
      BY <2>1, <2>4, <3>1, <3>2, MoveStep
  <2> QED
    BY <1>3, <2>2, <2>3, <2>4 DEF CheckHeader
<1>4. CASE LocateTables
  <2>1. pc = "tables" /\ pc \in Working \ {"open"}
    BY <1>4 DEF LocateTables, Working
  <2>2. CASE LoaderError("IMG_CORRUPTED")
    <3>1. "IMG_CORRUPTED" \in LoaderErrors
      BY DEF LoaderErrors
    <3> QED
      BY <2>1, <2>2, <3>1, LoaderErrorStep
  <2>3. CASE /\ pc' = "object"
             /\ UNCHANGED <<img, error, mFile, mem, mObjectMappings, o, p, r, region, stack>>
    <3>1. Progress'
      BY <2>1, <2>3 DEF Skeleton, Progress, NumObjects, Fixing
    <3>2. KeepsShape /\ Counters' /\ pc' \in Working \ {"open"}
      BY <2>3, SameShape DEF Skeleton, Typed, Counters, NumObjects, Working
    <3> QED
      BY <2>1, <2>3, <3>1, <3>2, MoveStep
  <2> QED
    BY <1>4, <2>2, <2>3 DEF LocateTables
<1> QED
  BY <1>1, <1>2, <1>3, <1>4

LEMMA ObjectSteps ==
    ASSUME Skeleton, SkipDiscarded \/ RejectObject \/ NoMemory \/ CreateObject \/ StartRelocation
    PROVE  Skeleton'
<1>0. pc = "object" /\ pc \in Working \ {"open"} /\ pc \in Working
  BY DEF SkipDiscarded, RejectObject, NoMemory, CreateObject, StartRelocation, AtObject, ObjectMayStart, Working
<1>1. CASE SkipDiscarded
  <2>1. /\ o <= NumObjects /\ Object.flags = "discard"
        /\ mObjectMappings' = Append(mObjectMappings, NULL) /\ o' = o + 1
        /\ UNCHANGED <<pc, img, error, mFile, mem, p, r, region, stack>>
    BY <1>1 DEF SkipDiscarded, AtObject
  <2>2. NULL \in Memories
    BY DEF Memories
  <2>3. o \in Nat /\ NumObjects \in Nat /\ o \in 1 .. NumObjects
    BY <2>1, AtAnObject
  <2>4. Counters'
    <3>1. o + 1 \in 1 .. NumObjects + 1
      BY <2>3
    <3> QED
      BY <2>1, <3>1 DEF Skeleton, Typed, Counters, NumObjects
  <2>5. Len(mObjectMappings') = o
    BY <1>0, <2>1, <2>2, <2>3 DEF Skeleton, Typed, Progress
  <2>6. Progress'
    <3>1. Len(mObjectMappings') <= NumObjects /\ Len(mObjectMappings') = (o + 1) - 1
      BY <2>1, <2>3, <2>5
    <3> QED
      BY <1>0, <2>1, <3>1 DEF Progress, NumObjects, Fixing
  <2> QED
    BY <1>0, <2>1, <2>2, <2>4, <2>6, AppendStep
<1>2. CASE RejectObject
  <2>1. PICK e \in {"IMG_NOT_SUPPORTED", "IMG_CORRUPTED"} : LoaderError(e)
    BY <1>2 DEF RejectObject
  <2>2. e \in LoaderErrors
    BY ErrorsOfChecks DEF LoaderErrors
  <2> QED
    BY <1>0, <2>1, <2>2, LoaderErrorStep
<1>3. CASE NoMemory
  <2>1. HostError("IMG_OUT_OF_MEMORY") /\ mFile' = mFile
    BY <1>3 DEF NoMemory
  <2>2. "IMG_OUT_OF_MEMORY" \in HostErrors /\ mFile' \in {"closed", "open"}
    BY <2>1 DEF HostErrors, Skeleton, Typed
  <2> QED
    BY <1>0, <2>1, <2>2, HostErrorStep
<1>4. CASE CreateObject
  <2> DEFINE m == [c \in 0 .. (AllocSize - 1) |-> Zero]
  <2>1. /\ o <= NumObjects /\ Object.flags = "plain" /\ AllocSize > 0
        /\ mObjectMappings' = Append(mObjectMappings, m)
        /\ p' = 0 /\ region' = NoRegion /\ pc' = "page"
        /\ UNCHANGED <<img, error, mFile, mem, o, r, stack>>
    BY <1>4 DEF CreateObject, ObjectMayStart, AtObject
  <2>2. o \in Nat /\ NumObjects \in Nat /\ o \in 1 .. NumObjects /\ Len(Object.pages) \in Nat
    BY <2>1, AtAnObject
  <2>3. AllocSize = AllocOf(o)
    BY DEF AllocSize, AllocOf, Object, IsStack
  <2>4. AllocSize \in Nat /\ AllocSize >= 1 /\ AllocSize <= Word
    BY <2>1, <2>2, <2>3, AllocIsWord, Sizes DEF Skeleton, Typed
  <2>5. m \in [0 .. AllocSize - 1 -> Cells]
    BY DEF Zero, Cell, Cells
  <2>6. m \in Memories /\ m # NULL /\ DOMAIN m = 0 .. AllocOf(o) - 1
    <3> HIDE DEF m
    <3> QED
      BY <2>3, <2>4, <2>5, MemoryIsMapped
  <2> HIDE DEF m
  <2>7. Counters'
    BY <2>1, NoRegionYet DEF Skeleton, Typed, Counters, NumObjects, RegionType
  <2>8. Len(mObjectMappings') = o
    BY <1>0, <2>1, <2>2, <2>6 DEF Skeleton, Typed, Progress
  <2>9. Progress'
    BY <2>1, <2>2, <2>8 DEF Progress, NumObjects, Object, Fixing
  <2>10. pc' \in Working \ {"open"}
    BY <2>1 DEF Working
  <2> QED
    BY <1>0, <2>1, <2>6, <2>7, <2>9, <2>10, AppendStep
<1>5. CASE StartRelocation
  <2>1. /\ o > NumObjects /\ pc' = "fixObject" /\ o' = 1
        /\ UNCHANGED <<img, error, mFile, mem, mObjectMappings, p, r, region, stack>>
    BY <1>5 DEF StartRelocation
  <2>2. NumObjects \in Nat /\ o \in 1 .. NumObjects + 1 /\ Len(mObjectMappings) = o - 1
    BY <1>0, FileIsImage DEF Skeleton, Typed, Progress
  <2>3. Len(mObjectMappings) = NumObjects /\ 1 \in 1 .. NumObjects + 1
    BY <2>1, <2>2
  <2>4. Progress'
    BY <2>1, <2>2, <2>3 DEF Progress, NumObjects, Fixing
  <2>5. KeepsShape /\ Counters' /\ pc' \in Working \ {"open"}
    BY <2>1, <2>3, SameShape DEF Skeleton, Typed, Counters, NumObjects, Working, Fixing
  <2> QED
    BY <1>0, <2>1, <2>4, <2>5, MoveStep
<1> QED
  BY <1>1, <1>2, <1>3, <1>4, <1>5
\* The memory of a mapping is made of cells.
LEMMA MemoryOfObject ==
    ASSUME Skeleton, pc # "deleted", NEW i \in DOMAIN mObjectMappings, Mapped(i)
    PROVE  /\ mObjectMappings[i] \in [DOMAIN mObjectMappings[i] -> Cells]
           /\ DOMAIN mObjectMappings[i] = 0 .. AllocOf(i) - 1
<1>1. mObjectMappings[i] \in Memories /\ mObjectMappings[i] # NULL
  BY MappingsAreSeq DEF Skeleton, Mapped, Listed
<1>2. PICK n \in 1 .. Word : mObjectMappings[i] \in [0 .. n - 1 -> Cells]
  BY <1>1 DEF Memories
<1>3. DOMAIN mObjectMappings[i] = 0 .. AllocOf(i) - 1
  BY DEF Skeleton, MappingsInv, MappingIsRight
<1> QED
  BY <1>2, <1>3

LEMMA FilledIsMemory ==
    ASSUME Skeleton, pc = "page", o <= NumObjects, p < Len(Object.pages),
           o \in DOMAIN mObjectMappings, Mapped(o)
    PROVE  Filled \in [DOMAIN mObjectMappings[o] -> Cells]
<1>1. mObjectMappings[o] \in [DOMAIN mObjectMappings[o] -> Cells]
      /\ DOMAIN mObjectMappings[o] = 0 .. AllocOf(o) - 1
  BY MemoryOfObject
<1>2. AllocOf(o) \in Int
  BY AtAnObject, AllocIsWord DEF Skeleton, Typed
<1>3. Started.startOffset \in Int /\ Started.startIdx \in Int
  BY OffsetIsWord DEF RegionType
<1>4. ObjectOffset \in Int
  <2>1. Word \in Nat /\ Word > 0 /\ PageSize \in Nat
    BY Sizes
  <2>2. Started.startIdx * PageSize \in Int
    BY <1>3, <2>1
  <2> QED
    BY <2>1, <2>2 DEF ObjectOffset
<1>5. \A c \in DOMAIN mObjectMappings[o] : Started.startOffset + c - ObjectOffset \in Int
  BY <1>1, <1>2, <1>3, <1>4
<1>6. \A c \in DOMAIN mObjectMappings[o] :
         FileCell(Started.startOffset + c - ObjectOffset) \in Cells
  BY <1>5 DEF FileCell, Zero, Gone, Cell, Cells
<1> QED
  BY <1>1, <1>6 DEF Filled

LEMMA PageSteps ==
    ASSUME Skeleton,
           RejectPage \/ GrowRegion \/ MapRegion \/ MapFails \/ MapAsserts \/ ObjectDone
    PROVE  Skeleton'
<1>0. pc = "page" /\ pc \in Working \ {"open"} /\ pc \in Working
  BY DEF RejectPage, GrowRegion, MapRegion, MapFails, MapAsserts, ObjectDone, AtPage, Working
<1>1. /\ o <= NumObjects /\ o \in Nat /\ NumObjects \in Nat /\ o \in 1 .. NumObjects
      /\ Len(mObjectMappings) = o /\ Object.flags = "plain"
      /\ p \in Nat /\ Len(Object.pages) \in Nat /\ p <= Len(Object.pages)
  BY <1>0, AtAnObject DEF Skeleton, Typed, Progress
<1>2. o \in DOMAIN mObjectMappings /\ Mapped(o)
  <2>1. o \in DOMAIN mObjectMappings
    BY <1>1, MappingsAreSeq DEF Skeleton
  <2> QED
    BY <1>0, <1>1, <2>1 DEF Skeleton, MappingsInv, MappingIsRight, Object
<1>3. CASE RejectPage
  <2>1. LoaderError("IMG_NOT_SUPPORTED")
    BY <1>3 DEF RejectPage
  <2>2. "IMG_NOT_SUPPORTED" \in LoaderErrors
    BY ErrorsOfChecks DEF LoaderErrors
  <2> QED
    BY <1>0, <2>1, <2>2, LoaderErrorStep
<1>4. CASE GrowRegion
  <2>1. /\ p < Len(Object.pages) /\ p' = p + 1
        /\ region' = [Started EXCEPT !.endOffset = PageFileOffset]
        /\ UNCHANGED <<pc, img, error, mFile, mem, mObjectMappings, o, r, stack>>
    BY <1>4 DEF GrowRegion, AtPage
  <2>2. PageFileOffset \in 0 .. Word - 1 /\ Started \in RegionType
    BY <1>1, <2>1, OffsetIsWord
  <2>3. region' \in RegionType
    BY <2>1, <2>2 DEF RegionType
  <2>4. Counters'
    BY SMTT(40), <1>1, <2>1, <2>3 DEF Skeleton, Typed, Counters, NumObjects, RegionType
  <2>5. Progress'
    BY <1>0, <1>1, <2>1 DEF Skeleton, Progress, NumObjects, Object, Fixing
  <2>6. KeepsShape /\ pc' \in Working \ {"open"}
    BY <1>0, <2>1, SameShape DEF Skeleton
  <2> QED
    BY <1>0, <2>1, <2>4, <2>5, <2>6, MoveStep
<1>5. CASE MapRegion
  <2>1. /\ p < Len(Object.pages) /\ p' = p + 1
        /\ mObjectMappings' = [mObjectMappings EXCEPT ![o] = Filled]
        /\ region' = [Started EXCEPT !.startOffset = 0, !.endOffset = 0]
        /\ UNCHANGED <<pc, img, error, mFile, mem, o, r, stack>>
    BY <1>5 DEF MapRegion, AtPage
  <2>2. PageFileOffset \in 0 .. Word - 1 /\ Started \in RegionType
    BY <1>1, <2>1, OffsetIsWord
  <2>3. region' \in RegionType
    <3>1. 0 \in 0 .. Word - 1
      BY Sizes
    <3> QED
      BY <2>1, <2>2, <3>1 DEF RegionType
  <2>4. Counters'
    BY <1>1, <2>1, <2>3 DEF Skeleton, Typed, Counters, NumObjects, RegionType
  <2>5. Filled \in [DOMAIN mObjectMappings[o] -> Cells]
    BY <1>0, <1>1, <1>2, <2>1, FilledIsMemory
  <2>6. KeepsShape
    BY <1>0, <1>2, <2>1, <2>5, NewShape
  <2>7. Len(mObjectMappings') = Len(mObjectMappings)
    BY <2>6 DEF KeepsShape
  <2>8. Progress'
    BY <1>0, <1>1, <2>1, <2>7 DEF Skeleton, Progress, NumObjects, Object, Fixing
  <2> QED
    BY <1>0, <2>1, <2>4, <2>6, <2>8, MoveStep
<1>6. CASE MapFails
  <2>1. HostError("IMG_INTERNAL_ERROR") /\ mFile' = mFile
    BY <1>6 DEF MapFails
  <2>2. "IMG_INTERNAL_ERROR" \in HostErrors /\ mFile' \in {"closed", "open"}
    BY <2>1 DEF HostErrors, Skeleton, Typed
  <2> QED
    BY <1>0, <2>1, <2>2, HostErrorStep
<1>7. CASE MapAsserts
  <2>1. Dies("aborted")
    BY <1>7 DEF MapAsserts
  <2> QED
    BY <1>0, <2>1, DiesStep
<1>8. CASE ObjectDone
  <2>1. /\ p = Len(Object.pages) /\ pc' = "object" /\ o' = o + 1
        /\ UNCHANGED <<img, error, mFile, mem, mObjectMappings, p, r, region, stack>>
    BY <1>8 DEF ObjectDone
  <2>2. o + 1 \in 1 .. NumObjects + 1 /\ Len(mObjectMappings) = (o + 1) - 1
    BY <1>1
  <2>3. Counters'
    BY <2>1, <2>2 DEF Skeleton, Typed, Counters, NumObjects
  <2>4. Progress'
    BY <1>1, <2>1, <2>2 DEF Progress, NumObjects, Fixing
  <2>5. KeepsShape /\ pc' \in Working \ {"open"}
    BY <2>1, SameShape DEF Skeleton, Working
  <2> QED
    BY <1>0, <2>1, <2>3, <2>4, <2>5, MoveStep
<1> QED
  BY <1>3, <1>4, <1>5, <1>6, <1>7, <1>8
\* What a fixup writes are halves of addresses and selectors.
LEMMA WrittenCells ==
    ASSUME NEW x, IsFixup(x)
    PROVE  \A j \in DOMAIN Written(x) : j \in Nat /\ Written(x)[j] \in Cells
<1> DEFINE low  == Cell("low", x.target, x.off)
           high == Cell("high", x.target, x.off)
           sel  == Cell("codeSel", 0, 0)
<1>1. x.target \in Int /\ x.off \in Int /\ x.source \in SourceTypes
  BY DEF IsFixup
<1>2. low \in Cells /\ high \in Cells /\ sel \in Cells
  BY <1>1 DEF Cell, Cells
<1>3. \/ Written(x) = <<low>> \/ Written(x) = <<low, high>>
      \/ Written(x) = <<sel, low, high>> \/ Written(x) = << >>
  BY <1>1 DEF Written, SourceTypes
<1> HIDE DEF low, high, sel
<1>4. CASE Written(x) = <<low>>
  BY <1>2, <1>4
<1>5. CASE Written(x) = <<low, high>>
  BY <1>2, <1>5
<1>6. CASE Written(x) = <<sel, low, high>>
  BY <1>2, <1>6
<1>7. CASE Written(x) = << >>
  BY <1>7
<1> QED
  BY <1>3, <1>4, <1>5, <1>6, <1>7

LEMMA TouchedCells ==
    ASSUME NEW x, IsFixup(x), NEW i \in Nat
    PROVE  \A c \in Touched(i, x) : Written(x)[c - SourceCell(i, x) + 1] \in Cells
<1> SUFFICES ASSUME NEW j \in DOMAIN Written(x)
             PROVE  Written(x)[(SourceCell(i, x) + j - 1) - SourceCell(i, x) + 1] \in Cells
  BY DEF Touched
<1> DEFINE start == SourceCell(i, x)
<1>1. start \in Int
  BY Sizes DEF SourceCell, IsFixup
<1>2. j \in Nat /\ Written(x)[j] \in Cells
  BY WrittenCells
<1> HIDE DEF start
<1>3. (start + j - 1) - start + 1 = j
  BY <1>1, <1>2
<1> QED
  BY <1>2, <1>3 DEF start

LEMMA FixSteps ==
    ASSUME Skeleton,
           \/ FixObject \/ FixPage \/ ObjectFixed \/ RejectRecord \/ RecordHasNoObject
           \/ RecordIsOutside \/ ApplyRecord \/ PageFixed
    PROVE  Skeleton'
<1>0. pc \in Fixing /\ pc \in Working \ {"open"} /\ pc \in Working /\ o <= NumObjects
  BY DEF FixObject, FixPage, ObjectFixed, RejectRecord, RecordHasNoObject, RecordIsOutside, RecordIsKnown,
         ApplyRecord, PageFixed, AtRecord, Working, Fixing, Skeleton, Progress
<1>1. /\ o \in Nat /\ NumObjects \in Nat /\ o \in 1 .. NumObjects
      /\ Len(mObjectMappings) = NumObjects /\ DOMAIN mObjectMappings = 1 .. NumObjects
      /\ p \in Nat /\ r \in Nat /\ Len(Object.pages) \in Nat /\ o \in DOMAIN mObjectMappings
  BY <1>0, AtAnObject, MappingsAreSeq DEF Skeleton, Typed, Progress
<1>2. ASSUME LoaderError("IMG_CORRUPTED") \/ LoaderError("IMG_NOT_SUPPORTED")
      PROVE  Skeleton'
  <2>1. PICK e \in {"IMG_CORRUPTED", "IMG_NOT_SUPPORTED"} : LoaderError(e)
    BY <1>2
  <2>2. e \in LoaderErrors
    BY ErrorsOfChecks DEF LoaderErrors
  <2> QED
    BY <1>0, <2>1, <2>2, LoaderErrorStep
<1>3. ASSUME pc = "record", r <= Len(Object.fixups[p + 1])
      PROVE  /\ IsFixup(Record)
             /\ o \in DOMAIN img.objects /\ p + 1 \in DOMAIN img.objects[o].fixups
             /\ r \in DOMAIN img.objects[o].fixups[p + 1]
             /\ Record = img.objects[o].fixups[p + 1][r]
  <2>1. p < Len(Object.pages) /\ r >= 1
    BY <1>3 DEF Skeleton, Progress
  <2>2. p + 1 \in 1 .. Len(Object.pages)
    BY <1>1, <2>1
  <2>3. r \in DOMAIN Object.fixups[p + 1] /\ p + 1 \in DOMAIN Object.fixups
    <3>1. /\ Len(Object.fixups[p + 1]) \in Nat /\ DOMAIN Object.fixups[p + 1] = 1 .. Len(Object.fixups[p + 1])
          /\ p + 1 \in DOMAIN Object.fixups
      BY <1>0, <2>2, AtAnObject, ObjectIsRead
    <3> QED
      BY <1>1, <1>3, <2>1, <3>1
  <2>4. IsFixup(Record)
    BY <1>0, <2>3, AtAnObject, ObjectIsRead DEF Record
  <2> QED
    BY <1>1, <2>3, <2>4, FileIsImage DEF Skeleton, Typed, Record, Object
<1>4. CASE FixObject
  <2>1. CASE /\ pc' = "fixPage" /\ p' = 0
             /\ UNCHANGED <<img, error, mFile, mem, mObjectMappings, o, r, region, stack>>
    <3>1. Progress'
      BY <1>1, <2>1 DEF Skeleton, Progress, NumObjects, Object, Fixing
    <3>2. KeepsShape /\ Counters' /\ pc' \in Working \ {"open"}
      BY <2>1, SameShape DEF Skeleton, Typed, Counters, NumObjects, Working, Fixing
    <3> QED
      BY <1>0, <2>1, <3>1, <3>2, MoveStep
  <2> QED
    BY <1>2, <1>4, <2>1 DEF FixObject
<1>5. CASE FixPage
  <2>1. CASE /\ pc' = "record" /\ r' = 1
             /\ UNCHANGED <<img, error, mFile, mem, mObjectMappings, o, p, region, stack>>
    <3>1. Progress'
      BY <1>0, <1>1, <1>5, <2>1 DEF Progress, NumObjects, Object, Fixing, FixPage
    <3>2. KeepsShape /\ Counters' /\ pc' \in Working \ {"open"}
      BY <2>1, SameShape DEF Skeleton, Typed, Counters, NumObjects, Working, Fixing
    <3> QED
      BY <1>0, <2>1, <3>1, <3>2, MoveStep
  <2> QED
    BY <1>2, <1>5, <2>1 DEF FixPage
<1>6. CASE ObjectFixed
  <2>1. /\ pc' = "fixObject" /\ o' = o + 1
        /\ UNCHANGED <<img, error, mFile, mem, mObjectMappings, p, r, region, stack>>
    BY <1>6 DEF ObjectFixed
  <2>2. o + 1 \in 1 .. NumObjects + 1
    BY <1>1
  <2>3. Progress'
    BY <1>1, <2>1 DEF Skeleton, Progress, NumObjects, Fixing
  <2>4. KeepsShape /\ Counters' /\ pc' \in Working \ {"open"}
    BY <2>1, <2>2, SameShape DEF Skeleton, Typed, Counters, NumObjects, Working, Fixing
  <2> QED
    BY <1>0, <2>1, <2>3, <2>4, MoveStep
<1>7. CASE RejectRecord
  BY <1>2, <1>7 DEF RejectRecord
<1>8. CASE RecordHasNoObject
  <2>1. /\ pc = "record" /\ r <= Len(Object.fixups[p + 1])
        /\ ~Mapped(o) \/ ~Mapped(Record.target)
        /\ \E how \in {"crashed", "corrupted"} : Dies(how)
    BY <1>8 DEF RecordHasNoObject, AtRecord, Mapped
  <2>2. BadReference
    BY <1>0, <1>3, <2>1, UnmappedIsNotPlain DEF BadReference
  <2> QED
    BY <1>0, <2>1, <2>2, DiesStep
<1>11. CASE RecordIsOutside
  <2>1. /\ pc = "record" /\ r <= Len(Object.fixups[p + 1]) /\ Mapped(o)
        /\ \E c \in Touched(p, Record) :
              \/ c \notin DOMAIN mObjectMappings[o] /\ \E how \in {"crashed", "corrupted"} : Dies(how)
              \/ c \in DOMAIN mObjectMappings[o] /\ mObjectMappings[o][c] = Gone /\ Dies("crashed")
    BY <1>11 DEF RecordIsOutside, RecordIsKnown, AtRecord
  <2>2. PICK c \in Touched(p, Record) :
           \/ c \notin DOMAIN mObjectMappings[o] /\ \E how \in {"crashed", "corrupted"} : Dies(how)
           \/ c \in DOMAIN mObjectMappings[o] /\ mObjectMappings[o][c] = Gone /\ Dies("crashed")
    BY <2>1
  <2>3. PICK how \in {"crashed", "corrupted"} : Dies(how)
    BY <2>2
  <2>4. ASSUME FitsWord PROVE BadReference
    <3>1. CASE c \notin DOMAIN mObjectMappings[o]
      <4>1. c \notin 0 .. AllocOf(o) - 1
        BY <1>0, <1>1, <2>1, <3>1, MemoryOfObject DEF Fixing
      <4>2. /\ AllocOf(o) \in Nat /\ AllocOf(o) > img.objects[o].size
            /\ img.objects[o].size \in Nat
        BY <1>1, <2>4, AllocIsWord, FileIsImage, ObjectIsRead DEF Skeleton, Typed
      <4>3. c \notin 0 .. img.objects[o].size - 1
        BY <4>1, <4>2
      <4>4. (p + 1) - 1 = p
        BY <1>1
      <4>5. ~(Touched((p + 1) - 1, Object.fixups[p + 1][r]) \subseteq 0 .. (img.objects[o].size - 1))
        BY <2>2, <4>3, <4>4 DEF Record
      <4>6. /\ o \in DOMAIN img.objects /\ p + 1 \in DOMAIN img.objects[o].fixups
            /\ r \in DOMAIN img.objects[o].fixups[p + 1]
        BY <1>3, <2>1, <1>1, FileIsImage DEF Skeleton, Typed, Object
      <4> QED
        BY <4>5, <4>6 DEF BadReference, Object
    <3>2. CASE c \in DOMAIN mObjectMappings[o] /\ mObjectMappings[o][c] = Gone
      BY <1>1, <2>1, <3>2 DEF BadReference
    <3> QED
      BY <2>2, <3>1, <3>2
  <2> QED
    BY <1>0, <2>3, <2>4, DiesStep
<1>9. CASE ApplyRecord
  <2> DEFINE f == Applied(mObjectMappings[o], p, Record)
  <2>1. /\ pc = "record" /\ r <= Len(Object.fixups[p + 1]) /\ Mapped(o)
        /\ mObjectMappings' = [mObjectMappings EXCEPT ![o] = Applied(@, p, Record)] /\ r' = r + 1
        /\ UNCHANGED <<pc, img, error, mFile, mem, o, p, region, stack>>
    BY <1>9 DEF ApplyRecord, RecordIsKnown, AtRecord
  <2>2. mObjectMappings' = [mObjectMappings EXCEPT ![o] = f]
    BY <2>1
  <2>3. f \in [DOMAIN mObjectMappings[o] -> Cells]
    <3>1. mObjectMappings[o] \in [DOMAIN mObjectMappings[o] -> Cells]
      BY <1>0, <1>1, <2>1, MemoryOfObject DEF Fixing
    <3>2. \A c \in Touched(p, Record) : Written(Record)[c - SourceCell(p, Record) + 1] \in Cells
      BY <1>1, <1>3, <2>1, TouchedCells
    <3> QED
      BY <3>1, <3>2 DEF Applied
  <2> HIDE DEF f
  <2>4. KeepsShape
    BY <1>0, <1>1, <2>1, <2>2, <2>3, NewShape DEF Fixing
  <2>5. Counters'
    BY <1>1, <2>1 DEF Skeleton, Typed, Counters, NumObjects
  <2>6. Len(mObjectMappings') = Len(mObjectMappings)
    BY <2>4 DEF KeepsShape
  <2>7. Progress'
    BY <1>1, <2>1, <2>6 DEF Skeleton, Progress, NumObjects, Object, Fixing
  <2> QED
    BY <1>0, <2>1, <2>4, <2>5, <2>7, MoveStep
<1>10. CASE PageFixed
  <2>1. /\ pc = "record" /\ pc' = "fixPage" /\ p' = p + 1
        /\ UNCHANGED <<img, error, mFile, mem, mObjectMappings, o, r, region, stack>>
    BY <1>10 DEF PageFixed
  <2>2. p + 1 <= Len(Object.pages)
    BY <1>1, <2>1 DEF Skeleton, Progress
  <2>3. Progress'
    BY <1>0, <1>1, <2>1, <2>2 DEF Progress, NumObjects, Object, Fixing
  <2>4. KeepsShape /\ Counters' /\ pc' \in Working \ {"open"}
    BY <2>1, SameShape DEF Skeleton, Typed, Counters, NumObjects, Working, Fixing
  <2> QED
    BY <1>0, <2>1, <2>3, <2>4, MoveStep
<1> QED
  BY <1>4, <1>5, <1>6, <1>7, <1>8, <1>9, <1>10, <1>11

LEMMA EndSteps ==
    ASSUME Skeleton, StartAt \/ DeleteImage
    PROVE  Skeleton'
<1>1. CASE StartAt
  <2>1. pc = "fixObject" /\ pc \in Working \ {"open"} /\ mem = "mapped" /\ error = "none"
    BY <1>1 DEF StartAt, Working, Fixing, Skeleton, EndsInv
  <2>2. Len(mObjectMappings) = NumObjects /\ DOMAIN mObjectMappings = 1 .. NumObjects
    BY <2>1, MappingsAreSeq DEF Skeleton, Progress, Fixing
  <2>3. img.esp \in Nat /\ NumObjects \in Nat
    BY FileIsImage DEF Skeleton, Typed
  <2>4. CASE ~Mapped(img.eipObj) \/ ~Mapped(img.espObj)
    <3>1. BadReference
      BY <2>1, <2>4, UnmappedIsNotPlain DEF BadReference, Fixing
    <3>2. \E how \in {"crashed", "corrupted"} : Dies(how)
      BY <1>1, <2>4 DEF StartAt
    <3> QED
      BY <2>1, <3>1, <3>2, DiesStep
  <2>5. CASE /\ Mapped(img.espObj)
             /\ stack' = [pointer |-> img.esp, heapEnd |-> img.esp + HeapSize]
             /\ pc' = "loaded" /\ mem' = "released"
             /\ UNCHANGED <<img, error, mFile, mObjectMappings, o, p, r, region>>
    <3>1. stack'.pointer \in Nat /\ stack'.heapEnd \in Nat
      BY <2>3, <2>5, Sizes
    <3>2. Typed'
      BY <2>5, <3>1 DEF Skeleton, Typed, NumObjects, Ends
    <3>3. Progress'
      BY <2>2, <2>3, <2>5 DEF Progress, NumObjects, Fixing
    <3>4. MappingsInv'
      BY <2>1, <2>5 DEF Skeleton, MappingsInv, MappingIsRight, Mapped, Listed, AllocOf
    <3>5. EndsInv'
      BY <2>1, <2>5 DEF EndsInv, Working, Fixing, Mapped, Listed
    <3> QED
      BY <3>2, <3>3, <3>4, <3>5 DEF Skeleton
  <2> QED
    BY <1>1, <2>4, <2>5 DEF StartAt, Mapped
<1>2. CASE DeleteImage
  <2>1. /\ pc = "thrown" /\ pc' = "deleted" /\ mFile' = "closed"
        /\ mObjectMappings' = [i \in DOMAIN mObjectMappings |-> NULL]
        /\ UNCHANGED <<img, error, mem, o, p, r, region, stack>>
    BY <1>2 DEF DeleteImage
  <2>2. /\ Len(mObjectMappings) \in Nat /\ DOMAIN mObjectMappings = 1 .. Len(mObjectMappings)
        /\ Len(mObjectMappings) <= NumObjects
    BY MappingsAreSeq DEF Skeleton, Progress
  <2>3. mObjectMappings' \in Seq(Memories) /\ Len(mObjectMappings') = Len(mObjectMappings)
    <3>1. NULL \in Memories
      BY DEF Memories
    <3>2. mObjectMappings' = [i \in 1 .. Len(mObjectMappings) |-> NULL]
      BY <2>1, <2>2
    <3> QED
      BY <2>2, <3>1, <3>2
  <2>4. Typed'
    BY <2>1, <2>3 DEF Skeleton, Typed, NumObjects, Ends
  <2>5. Progress'
    BY <2>1, <2>2, <2>3 DEF Progress, NumObjects, Fixing
  <2>6. MappingsInv'
    BY <2>1 DEF MappingsInv
  <2>7. EndsInv'
    BY <2>1 DEF Skeleton, EndsInv, Working, Fixing, Mapped, Listed
  <2> QED
    BY <2>4, <2>5, <2>6, <2>7 DEF Skeleton
<1> QED
  BY <1>1, <1>2

LEMMA SkeletonStep ==
    ASSUME Skeleton, [Next]_vars
    PROVE  Skeleton'
<1>1. CASE UNCHANGED vars
  <2>1. (Typed /\ Progress /\ MappingsInv)'
    BY <1>1 DEF vars, Skeleton, Typed, Progress, MappingsInv, MappingIsRight, Mapped, Listed,
                AllocOf, Object, NumObjects
  <2>2. (FitsWord' <=> FitsWord) /\ (BadReference' <=> BadReference)
    BY <1>1, SameReferences DEF vars
  <2>3. EndsInv'
    BY <1>1, <2>2 DEF vars, Skeleton, EndsInv, Mapped, Listed
  <2> QED
    BY <2>1, <2>3 DEF Skeleton
<1> QED
  BY <1>1, OpenSteps, ObjectSteps, PageSteps, FixSteps, EndSteps DEF Next

LEMMA SkeletonHolds == Spec => []Skeleton
<1>1. Skeleton /\ [Next]_vars => Skeleton'
  BY SkeletonStep
<1> QED
  BY <1>1, InitSkeleton, PTL DEF Spec
-----------------------------------------------------------------------------
(* What follows from how far load is.                                       *)

\* The loader's variables keep their types, and neither list outgrows the file's tables.
THEOREM TypeCorrect == Spec => []TypeOK
<1>1. Skeleton => TypeOK
  <2> SUFFICES ASSUME Skeleton PROVE TypeOK
    OBVIOUS
  <2>1. error \in {"none", "IMG_FILE_NOT_FOUND", "IMG_UNKNOWN_FORMAT", "IMG_CORRUPTED",
                   "IMG_OUT_OF_MEMORY", "IMG_INTERNAL_ERROR"}
                  \cup {HeaderChecks[i][2] : i \in DOMAIN HeaderChecks}
    BY DEF Skeleton, Typed, LoaderErrors, HostErrors, CheckErrors
  <2> QED
    BY <2>1 DEF Skeleton, Typed, Progress, TypeOK, Working, Fixing, Ends
<1> QED
  BY <1>1, SkeletonHolds, PTL

\* Whatever fails, and at whichever step: nothing stays mapped or open but the map of the
\* file, and that only after an error of the loader.
THEOREM ImageIsFreed == Spec => []FailureFreesImage
<1>1. Skeleton => FailureFreesImage
  <2> SUFFICES ASSUME Skeleton PROVE FailureFreesImage
    OBVIOUS
  <2>1. mem = "leaked" => error \notin {"none", "IMG_OUT_OF_MEMORY", "IMG_INTERNAL_ERROR"}
    BY ErrorsOfChecks DEF Skeleton, EndsInv, LoaderErrors
  <2> QED
    BY <2>1 DEF Skeleton, EndsInv, FailureFreesImage
<1> QED
  BY <1>1, SkeletonHolds, PTL

\* The list of mappings is never out of step with the objects, whatever their number and
\* order: load touches what is not the object's only where a reference of the file, any
\* number in a record or the header, leads there.
THEOREM CrashIsBadReference == Spec => []CrashNeedsBadReference
<1>1. Skeleton => CrashNeedsBadReference
  BY DEF Skeleton, EndsInv, MappingsInv, MappingIsRight, CrashNeedsBadReference
<1> QED
  BY <1>1, SkeletonHolds, PTL

\* The heap behind the stack is memory, whatever the sizes of stack, page and heap.
THEOREM HeapIsMemory == Spec => []HeapIsMapped
<1>1. Skeleton => HeapIsMapped
  <2> SUFFICES ASSUME Skeleton, pc = "loaded", FitsWord, img.esp <= img.objects[img.espObj].size
               PROVE  (stack.heapEnd - 1) \in DOMAIN mObjectMappings[img.espObj]
    BY DEF HeapIsMapped
  <2> DEFINE e == img.espObj
             size == img.objects[e].size
             alloc == AllocOf(e)
             esp == img.esp
  <2>1. e \in DOMAIN mObjectMappings /\ Mapped(e)
    BY DEF Skeleton, EndsInv, Mapped, Listed
  <2>2. e \in 1 .. NumObjects /\ esp \in Nat /\ NumObjects \in Nat
    BY <2>1, FileIsImage, MappingsAreSeq DEF Skeleton, Typed, Progress
  <2>3. DOMAIN mObjectMappings[e] = 0 .. alloc - 1
    BY <2>1 DEF Skeleton, MappingsInv, MappingIsRight
  <2>4. alloc \in Nat /\ alloc > size + HeapSize
    BY <2>2, AllocIsWord DEF Skeleton, Typed
  <2>5. size \in Nat /\ HeapSize \in Nat /\ HeapSize > 0
    BY <2>2, FileIsImage, ObjectIsRead, Sizes DEF Skeleton, Typed
  <2>6. stack.heapEnd = esp + HeapSize
    BY DEF Skeleton, EndsInv
  <2>7. esp <= size
    OBVIOUS
  <2> HIDE DEF e, size, alloc, esp
  <2>8. (esp + HeapSize) - 1 \in 0 .. alloc - 1
    BY <2>2, <2>4, <2>5, <2>7
  <2> QED
    BY <2>3, <2>6, <2>8 DEF e
<1> QED
  BY <1>1, SkeletonHolds, PTL
-----------------------------------------------------------------------------
(* Arithmetic of pages.                                                     *)

LEMMA LeastOf ==
    ASSUME NEW T \in SUBSET Nat, T # {}
    PROVE  \E n \in T : \A m \in T : n <= m
<1> DEFINE Less == {ss \in Nat \X Nat : ss[1] < ss[2]}
<1>1. IsWellFoundedOn(Less, Nat)
  BY NatLessThanWellFounded DEF OpToRel
<1> HIDE DEF Less
<1>2. PICK n \in T : \A m \in T : ~(<<m, n>> \in Less)
  BY <1>1, WFMin
<1>3. ASSUME NEW m \in T
      PROVE  n <= m
  <2>1. ~(<<m, n>> \in Less)
    BY <1>2
  <2>2. ~(m < n)
    BY <2>1 DEF Less
  <2> QED
    BY <2>2
<1> QED
  BY <1>3

\* The whole pages before a cell say which page it is in.
LEMMA CellsOfPage ==
    ASSUME NEW c \in Nat, NEW n \in Nat
    PROVE  /\ c \div PageSize \in Nat
           /\ c < n * PageSize <=> c \div PageSize < n
           /\ c = ((c \div PageSize) * PageSize) + (c % PageSize)
<1> DEFINE q == c \div PageSize
           m == c % PageSize
<1>0. PageSize \in Nat /\ PageSize > 0
  BY Sizes
<1>1. q \in Int /\ m \in Int /\ m >= 0 /\ m < PageSize /\ c = (q * PageSize) + m
  BY <1>0, Divided
<1> HIDE DEF q, m
<1>2. q \in Nat
  <2> SUFFICES ASSUME q <= -1 PROVE FALSE
    BY <1>1
  <2>1. q * PageSize <= -PageSize
    BY <1>0, <1>1
  <2>2. q * PageSize \in Int
    BY <1>0, <1>1
  <2> QED
    BY <1>0, <1>1, <2>1, <2>2
<1>3. ASSUME q < n
      PROVE  c < n * PageSize
  <2>1. (n - (q + 1)) * PageSize >= 0
    BY <1>0, <1>2, <1>3
  <2>2. (n - (q + 1)) * PageSize = ((n * PageSize) - (q * PageSize)) - PageSize
    BY <1>0, <1>2
  <2>3. n * PageSize \in Int /\ q * PageSize \in Int
    BY <1>0, <1>2
  <2> QED
    BY <1>0, <1>1, <2>1, <2>2, <2>3
<1>4. ASSUME q >= n
      PROVE  c >= n * PageSize
  <2>1. (q - n) * PageSize >= 0
    BY <1>0, <1>2, <1>4
  <2>2. (q - n) * PageSize = (q * PageSize) - (n * PageSize)
    BY <1>0, <1>2
  <2>3. n * PageSize \in Int /\ q * PageSize \in Int
    BY <1>0, <1>2
  <2> QED
    BY <1>0, <1>1, <2>1, <2>2, <2>3
<1>5. n * PageSize \in Int
  BY <1>0
<1>6. c < n * PageSize <=> q < n
  BY <1>2, <1>3, <1>4, <1>5
<1> QED
  BY <1>1, <1>2, <1>6 DEF q, m

\* Filled up to the end of the last page: no less, and no more if it is full.
LEMMA WholePages ==
    ASSUME NEW length \in Nat
    PROVE  /\ ((length + PageSize - 1) \div PageSize) * PageSize \in Int
           /\ ((length + PageSize - 1) \div PageSize) * PageSize >= length
           /\ \A n \in Nat : length = n * PageSize =>
                ((length + PageSize - 1) \div PageSize) * PageSize = length
<1> DEFINE x == length + PageSize - 1
           q == x \div PageSize
           m == x % PageSize
<1>0. PageSize \in Nat /\ PageSize > 0 /\ x \in Nat
  BY Sizes
<1>1. q \in Int /\ m \in Int /\ m >= 0 /\ m < PageSize /\ x = (q * PageSize) + m
  <2> HIDE DEF x
  <2> QED
    BY <1>0, Divided
<1> HIDE DEF q, m
<1>2. q * PageSize \in Int
  BY <1>0, <1>1
<1>3. q * PageSize >= length
  BY <1>0, <1>1, <1>2
<1>4. ASSUME NEW n \in Nat, length = n * PageSize
      PROVE  q * PageSize = length
  <2>1. n * PageSize \in Int /\ (q - n) * PageSize = (q * PageSize) - (n * PageSize)
    BY <1>0, <1>1
  <2>2. (q - n) * PageSize >= 0 /\ (q - n) * PageSize < PageSize
    BY <1>0, <1>1, <1>2, <1>3, <1>4, <2>1
  <2>3. q - n = 0
    <3>1. ASSUME q - n >= 1 PROVE FALSE
      <4>1. (q - n) * PageSize >= PageSize
        BY <1>0, <1>1, <3>1
      <4> QED
        BY <1>0, <2>2, <4>1, <2>1, <1>2
    <3>2. ASSUME q - n <= -1 PROVE FALSE
      <4>1. (q - n) * PageSize <= -PageSize
        BY <1>0, <1>1, <3>2
      <4> QED
        BY <1>0, <2>2, <4>1, <2>1, <1>2
    <3> QED
      BY <1>1, <3>1, <3>2
  <2>4. q = n
    BY <1>1, <2>3
  <2> QED
    BY <1>4, <2>4
<1> QED
  BY <1>2, <1>3, <1>4 DEF q
\* The page a cell is in, counted from a place that is the start of a page.
LEMMA PageOfSum ==
    ASSUME NEW start \in Nat, start % PageSize = 0, NEW c \in Nat,
           NEW limit \in Nat, start + ((c \div PageSize) * PageSize) < limit
    PROVE  ((start + c) \div PageSize) * PageSize < limit
<1> DEFINE a == start \div PageSize
           q == c \div PageSize
           t == (start + c) \div PageSize
<1>0. PageSize \in Nat /\ PageSize > 0
  BY Sizes
<1>1. a \in Nat /\ q \in Nat /\ t \in Nat
  <2>1. start + c \in Nat
    OBVIOUS
  <2> QED
    BY <2>1, CellsOfPage
<1>2. start = a * PageSize
  BY <1>0, <1>1, Divided
<1>3. c < (q + 1) * PageSize
  <2>1. q + 1 \in Nat /\ q < q + 1
    BY <1>1
  <2> QED
    BY <2>1, CellsOfPage
<1>4. start + c < (a + q + 1) * PageSize => t < a + q + 1
  <2>1. start + c \in Nat /\ a + q + 1 \in Nat
    BY <1>1
  <2> QED
    BY <2>1, CellsOfPage
<1>5. start + (q * PageSize) < limit
  OBVIOUS
<1> HIDE DEF a, q, t
<1>6. /\ (a + q + 1) * PageSize = (a * PageSize) + ((q + 1) * PageSize)
      /\ (a + q) * PageSize = (a * PageSize) + (q * PageSize)
      /\ a * PageSize \in Nat /\ q * PageSize \in Nat /\ (q + 1) * PageSize \in Nat
  BY <1>0, <1>1
<1>7. t <= a + q
  BY <1>1, <1>2, <1>3, <1>4, <1>6
<1>8. t * PageSize <= (a + q) * PageSize /\ t * PageSize \in Nat
  <2>1. PICK d \in Nat : a + q = t + d
    BY <1>1, <1>7
  <2>2. (t + d) * PageSize = (t * PageSize) + (d * PageSize)
    BY <1>0, <1>1
  <2>3. d * PageSize \in Nat /\ t * PageSize \in Nat
    BY <1>0, <1>1
  <2> QED
    BY <2>1, <2>2, <2>3
<1>9. t * PageSize < limit
  BY <1>2, <1>5, <1>6, <1>8
<1> QED
  BY <1>9 DEF t
-----------------------------------------------------------------------------
(* Contiguous pages.                                                        *)

PagesOfObject(i) == img.objects[i].pages

\* Where page k of object i lies in the file.
FileOffset(i, k) == (PagesOfObject(i)[k].number - 1) * PageSize + img.data

LEMMA Consecutive ==
    ASSUME img \in Images, Contiguous, NEW i \in 1 .. NumObjects, NEW k \in DOMAIN PagesOfObject(i)
    PROVE  PagesOfObject(i)[k].number = PagesOfObject(i)[1].number + (k - 1)
<1> DEFINE pages == PagesOfObject(i)
           T == {n \in DOMAIN pages : pages[n].number # pages[1].number + (n - 1)}
<1>1. /\ Len(pages) \in Nat /\ DOMAIN pages = 1 .. Len(pages)
      /\ \A n \in DOMAIN pages : pages[n].number \in Nat
  BY FileIsImage, ObjectIsRead DEF PagesOfObject
<1>2. \A n \in 2 .. Len(pages) : pages[n].number = pages[n - 1].number + 1
  BY FileIsImage DEF Contiguous, PagesOfObject
<1> HIDE DEF pages
<1>3. ASSUME T # {} PROVE FALSE
  <2>1. T \in SUBSET Nat
    BY <1>1
  <2>2. PICK n \in T : \A m \in T : n <= m
    <3> HIDE DEF T
    <3> QED
      BY <1>3, <2>1, LeastOf
  <2>3. n \in 1 .. Len(pages) /\ pages[n].number # pages[1].number + (n - 1)
    BY <1>1
  <2>4. n # 1 /\ 1 \in DOMAIN pages
    BY <1>1, <2>3
  <2>5. n \in 2 .. Len(pages) /\ n - 1 \in DOMAIN pages /\ ~(n <= n - 1)
    BY <1>1, <2>3, <2>4
  <2>6. n - 1 \notin T
    BY <2>2, <2>5
  <2>7. pages[n - 1].number = pages[1].number + ((n - 1) - 1)
    BY <2>5, <2>6
  <2>8. pages[n].number = pages[n - 1].number + 1
    BY <1>2, <2>5
  <2>9. pages[1].number \in Nat
    BY <1>1, <2>4
  <2> QED
    BY <2>3, <2>7, <2>8, <2>9
<1>4. k \notin T
  BY <1>3
<1> QED
  BY <1>4 DEF pages

LEMMA Offsets ==
    ASSUME img \in Images, Contiguous, NEW i \in 1 .. NumObjects, NEW k \in DOMAIN PagesOfObject(i)
    PROVE  /\ FileOffset(i, k) \in Nat /\ FileOffset(i, k) >= 1 /\ FileOffset(i, k) + PageSize < Word
           /\ 1 \in DOMAIN PagesOfObject(i) /\ FileOffset(i, 1) \in Nat /\ FileOffset(i, 1) >= 1
           /\ FileOffset(i, k) = FileOffset(i, 1) + ((k - 1) * PageSize)
<1> DEFINE pages == PagesOfObject(i)
           n == pages[k].number
           f == pages[1].number
           data == img.data
<1>0. PageSize \in Nat /\ PageSize > 0 /\ Word \in Nat /\ data \in Nat /\ data >= 1
  BY Sizes, FileIsImage
<1>1. /\ Len(pages) \in Nat /\ DOMAIN pages = 1 .. Len(pages)
      /\ \A j \in DOMAIN pages : pages[j].number \in Nat /\ pages[j].number >= 1
  BY FileIsImage, ObjectIsRead DEF PagesOfObject
<1>2. 1 \in DOMAIN pages /\ k \in Nat /\ k >= 1
  BY <1>1
<1>3. n \in Nat /\ n >= 1 /\ f \in Nat /\ f >= 1
  BY <1>1, <1>2
<1>4. n = f + (k - 1)
  BY Consecutive
<1>5. n * PageSize + data < Word
  BY FileIsImage DEF Contiguous, FitsWord, SumIsNumber, PagesOfObject
<1>6. FileOffset(i, k) = (n - 1) * PageSize + data /\ FileOffset(i, 1) = (f - 1) * PageSize + data
  BY DEF FileOffset
<1> HIDE DEF n, f, data, pages
<1>7. /\ (n - 1) * PageSize \in Nat /\ (f - 1) * PageSize \in Nat
      /\ (n - 1) * PageSize = (n * PageSize) - PageSize /\ n * PageSize \in Nat
  BY <1>0, <1>3
<1>8. (n - 1) * PageSize = ((f - 1) * PageSize) + ((k - 1) * PageSize) /\ (k - 1) * PageSize \in Nat
  <2>1. n - 1 = (f - 1) + (k - 1)
    BY <1>2, <1>3, <1>4
  <2>2. ((f - 1) + (k - 1)) * PageSize = ((f - 1) * PageSize) + ((k - 1) * PageSize)
    BY <1>0, <1>2, <1>3
  <2>3. (k - 1) * PageSize \in Nat
    BY <1>0, <1>2
  <2> QED
    BY <2>1, <2>2, <2>3
<1> QED
  BY <1>0, <1>2, <1>5, <1>6, <1>7, <1>8 DEF pages
-----------------------------------------------------------------------------
(* The region grows from the first page to the last.                        *)

AllZero(i) == \A c \in DOMAIN mObjectMappings[i] : mObjectMappings[i][c] = Zero

RegionInv ==
    Contiguous /\ pc = "page" /\ p < Len(Object.pages) =>
       /\ AllZero(o)
       /\ p = 0 => region = NoRegion
       /\ p > 0 => region = [startOffset |-> FileOffset(o, 1), startIdx |-> 0,
                             endOffset |-> FileOffset(o, p)]

\* What the loop finds at page p of contiguous pages: it is at the end of the region only
\* with the last page, and the region begins with the first one.
LEMMA AtContiguousPage ==
    ASSUME Skeleton, RegionInv, Contiguous, AtPage
    PROVE  /\ PageFileOffset = FileOffset(o, p + 1)
           /\ FileOffset(o, 1) \in Nat /\ FileOffset(o, 1) >= 1
           /\ PageFileOffset + PageSize < Word /\ PageFileOffset \in Nat
           /\ PageFileOffset = FileOffset(o, 1) + (p * PageSize)
           /\ Started = [startOffset |-> FileOffset(o, 1), startIdx |-> 0, endOffset |-> region.endOffset]
           /\ EndsRegion => p = Len(Object.pages) - 1
<1>0. /\ pc = "page" /\ p < Len(Object.pages) /\ p \in Nat /\ o \in 1 .. NumObjects
      /\ img \in Images /\ DOMAIN Object.pages = 1 .. Len(Object.pages) /\ Len(Object.pages) \in Nat
      /\ PagesOfObject(o) = Object.pages
  BY AtAnObject DEF AtPage, Skeleton, Typed, Progress, PagesOfObject, Object
<1> DEFINE first == FileOffset(o, 1)
           here == FileOffset(o, p + 1)
<1>1. PageSize \in Nat /\ PageSize > 0 /\ Word \in Nat
  BY Sizes
<1>2. p + 1 \in DOMAIN PagesOfObject(o)
  BY <1>0
<1>3. /\ here \in Nat /\ here >= 1 /\ here + PageSize < Word /\ first \in Nat /\ first >= 1
      /\ here = first + (((p + 1) - 1) * PageSize)
  BY <1>0, <1>2, Offsets
<1>4. PageFileOffset = here % Word
  <2>1. p + 1 \in DOMAIN img.objects[o].pages /\ o \in DOMAIN img.objects
    BY <1>0, <1>2, FileIsImage DEF PagesOfObject
  <2> DEFINE page == Object.pages[p + 1]
  <2>2. page.high + page.low = page.number
    BY <2>1 DEF Contiguous, SumIsNumber, Object
  <2>3. PageFileOffset = ((page.high + page.low - 1) * PageSize + img.data) % Word
    BY DEF PageFileOffset
  <2>4. here = (page.number - 1) * PageSize + img.data
    BY <1>0 DEF here, FileOffset
  <2>5. page.high \in Nat /\ page.low \in Nat /\ page.number \in Nat
    BY <1>0, <2>1, FileIsImage, ObjectIsRead DEF Object
  <2> HIDE DEF page, here
  <2> QED
    BY <2>2, <2>3, <2>4, <2>5
<1> HIDE DEF first, here
<1>5. PageFileOffset = here
  <2>1. here < Word
    BY <1>1, <1>3
  <2> QED
    BY <1>1, <1>3, <1>4, <2>1
<1>6. (p + 1) - 1 = p
  BY <1>0
<1>7. Started = [startOffset |-> first, startIdx |-> 0, endOffset |-> region.endOffset]
  <2>1. CASE p = 0
    <3>1. region = NoRegion /\ here = first
      BY <1>0, <2>1 DEF RegionInv, first, here
    <3> QED
      BY <1>5, <2>1, <3>1 DEF Started, NoRegion
  <2>2. CASE p # 0
    <3>1. region = [startOffset |-> first, startIdx |-> 0, endOffset |-> FileOffset(o, p)]
      BY <1>0, <2>2 DEF RegionInv, first
    <3>2. first # 0
      BY <1>3
    <3> QED
      BY <3>1, <3>2 DEF Started
  <2> QED
    BY <2>1, <2>2
<1>8. ASSUME region.endOffset # 0, PageFileOffset # (region.endOffset + PageSize) % Word
      PROVE  FALSE
  <2>1. p # 0
    BY <1>0, <1>8 DEF RegionInv, NoRegion
  <2>2. region.endOffset = FileOffset(o, p)
    BY <1>0, <2>1 DEF RegionInv
  <2>3. p \in DOMAIN PagesOfObject(o)
    BY <1>0, <2>1
  <2> DEFINE before == FileOffset(o, p)
  <2>4. before \in Nat /\ before + PageSize < Word /\ before = first + ((p - 1) * PageSize)
    BY <1>0, <2>3, Offsets DEF first
  <2> HIDE DEF before
  <2>5. (p - 1) * PageSize = (p * PageSize) - PageSize /\ p * PageSize \in Nat
    BY <1>0, <1>1
  <2>6. here = before + PageSize
    BY <1>1, <1>3, <1>6, <2>4, <2>5
  <2>7. (before + PageSize) % Word = before + PageSize
    BY <1>1, <2>4
  <2> QED
    BY <1>5, <1>8, <2>2, <2>6, <2>7 DEF before
<1> QED
  BY <1>3, <1>5, <1>6, <1>7, <1>8 DEF EndsRegion, first, here

\* The one region of an object lies inside its memory.
LEMMA RegionIsInside ==
    ASSUME Skeleton, RegionInv, Contiguous, AtPage, EndsRegion
    PROVE  /\ MapIsInside /\ ObjectOffset = 0
           /\ MapLength = Smaller(Len(Object.pages) * PageSize, Object.size)
<1>0. /\ pc = "page" /\ o \in 1 .. NumObjects /\ p = Len(Object.pages) - 1 /\ p \in Nat
      /\ Len(Object.pages) \in Nat /\ img \in Images
  BY AtAnObject, AtContiguousPage DEF AtPage, Skeleton, Typed, Progress
<1> DEFINE first == FileOffset(o, 1)
           size == Object.size
           n == Len(Object.pages)
<1>1. PageSize \in Nat /\ PageSize > 0 /\ Word \in Nat /\ Word > 0
  BY Sizes
<1>2. /\ PageFileOffset \in Nat /\ PageFileOffset + PageSize < Word
      /\ PageFileOffset = first + (p * PageSize) /\ first \in Nat
      /\ Started.startOffset = first /\ Started.startIdx = 0
  BY AtContiguousPage
<1>3. size \in Nat /\ size >= 1
  BY <1>0, FileIsImage, ObjectIsRead DEF Object
<1>4. AllocSize \in Nat /\ AllocSize > size /\ AllocSize < Word
  <2>1. AllocSize = AllocOf(o)
    BY DEF AllocSize, AllocOf, Object, IsStack
  <2> QED
    BY <1>0, <2>1, AllocIsWord DEF Contiguous, Object
<1> HIDE DEF first, size, n
<1>5. ObjectOffset = 0
  BY <1>1, <1>2 DEF ObjectOffset
<1>6. (p * PageSize) + PageSize = n * PageSize /\ n * PageSize \in Nat /\ p * PageSize \in Nat
      /\ n * PageSize >= 1
  <2>1. n = p + 1 /\ n \in Nat
    BY <1>0 DEF n
  <2>2. (p + 1) * PageSize = (p * PageSize) + PageSize /\ p * PageSize \in Nat
    BY <1>0, <1>1
  <2> QED
    BY <1>1, <2>1, <2>2
<1>7. Minus((PageFileOffset + PageSize) % Word, Started.startOffset) = n * PageSize
  <2>1. (PageFileOffset + PageSize) % Word = PageFileOffset + PageSize
    BY <1>1, <1>2
  <2>2. PageFileOffset + PageSize >= first /\ (PageFileOffset + PageSize) - first = n * PageSize
    BY <1>1, <1>2, <1>6
  <2> QED
    BY <1>2, <2>1, <2>2 DEF Minus
<1>8. MapLength = Smaller(n * PageSize, size)
  BY <1>7 DEF MapLength, size
<1>9. MapLength \in Nat /\ MapLength >= 1 /\ MapLength <= size
  BY <1>3, <1>6, <1>8 DEF Smaller
<1>10. (ObjectOffset + Minus(MapLength, 1)) % Word = MapLength - 1
  <2>1. Minus(MapLength, 1) = MapLength - 1
    BY <1>9 DEF Minus
  <2>2. (0 + (MapLength - 1)) % Word = MapLength - 1
    BY <1>1, <1>3, <1>4, <1>9
  <2> QED
    BY <1>5, <2>1, <2>2
<1>11. MapIsInside
  BY <1>3, <1>4, <1>5, <1>9, <1>10 DEF MapIsInside, InRange
<1> QED
  BY <1>5, <1>8, <1>11 DEF n, size

\* What map reads is what the file says of the object.
LEMMA FilledIsRight ==
    ASSUME Skeleton, RegionInv, Contiguous, HoldsPages, AtPage, EndsRegion,
           NEW c \in Nat, c < Object.size
    PROVE  Filled[c] = FromFile(o, c)
<1>0. /\ pc = "page" /\ o \in 1 .. NumObjects /\ p < Len(Object.pages) /\ p \in Nat
      /\ Len(Object.pages) \in Nat /\ DOMAIN Object.pages = 1 .. Len(Object.pages)
      /\ img \in Images /\ PagesOfObject(o) = Object.pages /\ o \in DOMAIN mObjectMappings
      /\ Mapped(o)
  <2>1. pc = "page" /\ o <= NumObjects /\ Len(mObjectMappings) = o /\ Object.flags = "plain"
    BY DEF AtPage, Skeleton, Progress
  <2>2. o \in 1 .. NumObjects /\ o \in Nat
    BY <2>1, AtAnObject
  <2>3. o \in DOMAIN mObjectMappings
    BY <2>1, <2>2, MappingsAreSeq DEF Skeleton
  <2>4. Mapped(o)
    BY <2>1, <2>3 DEF Skeleton, MappingsInv, MappingIsRight, Object
  <2> QED
    BY <2>1, <2>2, <2>3, <2>4, AtAnObject DEF AtPage, Skeleton, Typed, PagesOfObject, Object
<1> DEFINE first == FileOffset(o, 1)
           size == Object.size
           n == Len(Object.pages)
           q == c \div PageSize
<1>1. PageSize \in Nat /\ PageSize > 0
  BY Sizes
<1>2. ObjectOffset = 0 /\ MapLength = Smaller(n * PageSize, size)
  BY RegionIsInside
<1>3. Started.startOffset = first /\ first \in Nat
  BY AtContiguousPage
<1>4. size \in Nat /\ n \in Nat /\ c < size
  BY <1>0, FileIsImage, ObjectIsRead DEF Object
<1>5. c \in DOMAIN mObjectMappings[o]
  <2>1. DOMAIN mObjectMappings[o] = 0 .. AllocOf(o) - 1
    BY <1>0, MemoryOfObject
  <2>2. AllocOf(o) \in Nat /\ AllocOf(o) > size
    BY <1>0, AllocIsWord DEF Contiguous, Object
  <2> HIDE DEF size
  <2> QED
    BY <1>4, <2>1, <2>2
<1>6. q \in Nat /\ (c < n * PageSize <=> q < n) /\ c = (q * PageSize) + (c % PageSize)
  BY <1>4, CellsOfPage
<1> DEFINE length == Smaller(n * PageSize, size)
<1>7. n * PageSize \in Nat
  BY <1>1, <1>4
<1> DEFINE end == img.length
<1>8. /\ FilledLength \in Int /\ length \in Int
      /\ IsAligned => FilledLength >= length /\ (length = n * PageSize => FilledLength = length)
      /\ ~IsAligned => (c < FilledLength <=> c < length /\ first + c < end)
  <2>1. length \in Nat /\ end \in Nat
    BY <1>0, <1>4, <1>7, FileIsImage DEF Smaller
  <2> DEFINE up == ((length + PageSize - 1) \div PageSize) * PageSize
  <2>2. up \in Int /\ up >= length /\ \A k \in Nat : length = k * PageSize => up = length
    <3> HIDE DEF length
    <3> QED
      BY <2>1, WholePages
  <2>3. FilledLength = IF IsAligned THEN up
                       ELSE IF first < end THEN Smaller(length, end - first) ELSE 0
    BY <1>2, <1>3 DEF FilledLength
  <2> HIDE DEF up, length, end, first
  <2>4. CASE IsAligned
    BY <1>4, <2>1, <2>2, <2>3, <2>4
  <2>5. CASE ~IsAligned
    BY <1>3, <2>1, <2>3, <2>5 DEF Smaller
  <2> QED
    BY <2>4, <2>5
<1>9. Filled[c] = IF c < FilledLength THEN FileCell(first + c) ELSE Zero
  <2>1. \A d \in Nat : (first + d) - 0 = first + d
    BY <1>3
  <2>2. 0 + FilledLength - 1 = FilledLength - 1
    BY <1>8
  <2>3. Filled[c] = IF c \in ObjectOffset .. (ObjectOffset + FilledLength - 1)
                    THEN FileCell(Started.startOffset + c - ObjectOffset)
                    ELSE mObjectMappings[o][c]
    BY <1>5 DEF Filled
  <2>4. mObjectMappings[o][c] = Zero
    BY <1>0, <1>5 DEF RegionInv, AllZero
  <2> HIDE DEF first
  <2>5. c \in 0 .. FilledLength - 1 <=> c < FilledLength
    BY <1>8
  <2> QED
    BY <1>2, <1>3, <2>1, <2>2, <2>3, <2>4, <2>5
<1>10. CASE q < n
  <2>1. c < length
    <3> HIDE DEF q, size, n
    <3> QED
      BY <1>4, <1>6, <1>7, <1>10 DEF Smaller
  <2>2. q + 1 \in DOMAIN PagesOfObject(o) /\ (q + 1) - 1 = q
    BY <1>0, <1>4, <1>6, <1>10
  <2> DEFINE here == FileOffset(o, q + 1)
  <2>3. here = first + (q * PageSize) /\ here \in Nat
    BY <1>0, <2>2, Offsets
  <2>4. here < end
    BY <1>0, <2>2, FileIsImage DEF HoldsPages, FileOffset, PagesOfObject
  <2>5. here + (c % PageSize) = first + c /\ first + c \in Nat
    <3>1. q * PageSize \in Int /\ c % PageSize \in Int
      BY <1>1, <1>6
    <3> HIDE DEF q, first, here
    <3> QED
      BY <1>3, <1>4, <1>6, <2>3, <3>1
  <2>6. FromFile(o, c) = IF first + c < end THEN Cell("file", 0, first + c) ELSE Zero
    <3>1. FromFile(o, c) = IF here + (c % PageSize) < end
                           THEN Cell("file", 0, here + (c % PageSize)) ELSE Zero
      BY <2>2 DEF FromFile, FileOffset, PagesOfObject
    <3> HIDE DEF here, first, end
    <3> QED
      BY <2>5, <3>1
  <2> HIDE DEF here, first, end, length
  <2>7. CASE IsAligned
    <3>1. ((first + c) \div PageSize) * PageSize < end
      <4>1. first % PageSize = 0 /\ end \in Nat
        BY <1>0, <1>3, <2>7, FileIsImage DEF IsAligned, end
      <4>2. first + (q * PageSize) < end
        BY <2>3, <2>4
      <4> QED
        BY <1>3, <4>1, <4>2, PageOfSum
    <3>2. FileCell(first + c) = FromFile(o, c)
      BY <2>6, <3>1 DEF FileCell, end
    <3>3. c < FilledLength
      BY <1>4, <1>8, <2>1, <2>7
    <3> QED
      BY <1>9, <3>2, <3>3
  <2>8. CASE ~IsAligned
    <3>1. c < FilledLength <=> first + c < end
      BY <1>8, <2>1, <2>8
    <3>2. first + c < end => FileCell(first + c) = FromFile(o, c)
      BY <2>6 DEF FileCell, end
    <3> QED
      BY <1>9, <2>6, <3>1, <3>2
  <2> QED
    BY <2>7, <2>8
<1>11. CASE ~(q < n)
  <2>1. c >= n * PageSize
    BY <1>6, <1>7, <1>11
  <2>2. length = n * PageSize
    <3> HIDE DEF q, size, n
    <3> QED
      BY <1>4, <1>7, <2>1 DEF Smaller
  <2>3. ~(c < FilledLength)
    <3> HIDE DEF length, n, end, first
    <3> QED
      BY <1>7, <1>8, <2>1, <2>2
  <2>4. q + 1 \notin DOMAIN PagesOfObject(o)
    BY <1>0, <1>4, <1>6, <1>11
  <2>5. FromFile(o, c) = Zero
    BY <2>4 DEF FromFile, PagesOfObject
  <2> QED
    BY <1>9, <2>3, <2>5
<1> QED
  BY <1>10, <1>11
-----------------------------------------------------------------------------
(* What the memory holds, fixup by fixup.                                   *)

FixupsOf(i) == img.objects[i].fixups

\* Fixup x of page k of object i writes to cell c, and what it writes there.
Hits(i, k, x, c)  == c \in Touched(k - 1, FixupsOf(i)[k][x])
Value(i, k, x, c) == Written(FixupsOf(i)[k][x])[c - SourceCell(k - 1, FixupsOf(i)[k][x]) + 1]

\* How far relocate is: that fixup has been applied.
Done(i, k, x) ==
    \/ pc = "loaded"
    \/ pc \in Fixing /\ i < o
    \/ pc \in {"fixPage", "record"} /\ i = o /\ k < p + 1
    \/ pc = "record" /\ i = o /\ k = p + 1 /\ x < r

IsFixed(i, c) ==
    \E k \in DOMAIN FixupsOf(i) : \E x \in DOMAIN FixupsOf(i)[k] :
       Done(i, k, x) /\ Hits(i, k, x, c) /\ mObjectMappings[i][c] = Value(i, k, x, c)

IsFromFile(i, c) ==
    /\ mObjectMappings[i][c] = FromFile(i, c)
    /\ \A k \in DOMAIN FixupsOf(i) : \A x \in DOMAIN FixupsOf(i)[k] :
          Done(i, k, x) => ~Hits(i, k, x, c)

CellIsRight(i, c) == IsFromFile(i, c) \/ IsFixed(i, c)

\* The object load is at has its region mapped.
Settled(i) == pc = "page" /\ i = o => p = Len(Object.pages)

Loading == {"object", "page", "loaded"} \cup Fixing

ContentsInv ==
    Contiguous /\ HoldsPages /\ pc \in Loading =>
       \A i \in DOMAIN mObjectMappings : Mapped(i) /\ Settled(i) =>
          \A c \in Nat : c < img.objects[i].size => CellIsRight(i, c)

Inv == Skeleton /\ RegionInv /\ ContentsInv /\ (Contiguous => pc # "aborted")

\* Nothing is written, and as many fixups are done as before.
LEMMA ContentsKept ==
    ASSUME Skeleton, ContentsInv, img' = img, mObjectMappings' = mObjectMappings,
           pc \in Loading,
           \A i \in DOMAIN mObjectMappings : Settled(i)' => Settled(i),
           \A i \in DOMAIN mObjectMappings : \A k \in DOMAIN FixupsOf(i) : \A x \in DOMAIN FixupsOf(i)[k] :
              Done(i, k, x)' <=> Done(i, k, x)
    PROVE  ContentsInv'
<1> SUFFICES ASSUME Contiguous', HoldsPages', NEW i \in DOMAIN mObjectMappings',
                    Mapped(i)', Settled(i)', NEW c \in Nat, c < img'.objects[i].size
             PROVE  CellIsRight(i, c)'
  BY DEF ContentsInv
<1>1. /\ Contiguous /\ HoldsPages /\ i \in DOMAIN mObjectMappings /\ Mapped(i) /\ Settled(i)
      /\ c < img.objects[i].size
  BY DEF Contiguous, FitsWord, SumIsNumber, HoldsPages, Mapped, Listed
<1>2. CellIsRight(i, c)
  BY <1>1 DEF ContentsInv
<1>3. /\ FromFile(i, c)' = FromFile(i, c) /\ FixupsOf(i)' = FixupsOf(i)
      /\ mObjectMappings'[i][c] = mObjectMappings[i][c]
  BY DEF FromFile, FixupsOf
<1>4. \A k, x : (Hits(i, k, x, c)' <=> Hits(i, k, x, c)) /\ Value(i, k, x, c)' = Value(i, k, x, c)
  BY <1>3 DEF Hits, Value
<1>5. CASE IsFromFile(i, c)
  <2>1. IsFromFile(i, c)'
    BY <1>1, <1>3, <1>4, <1>5 DEF IsFromFile
  <2> QED
    BY <2>1 DEF CellIsRight
<1>6. CASE IsFixed(i, c)
  <2>1. IsFixed(i, c)'
    BY <1>1, <1>3, <1>4, <1>6 DEF IsFixed
  <2> QED
    BY <2>1 DEF CellIsRight
<1> QED
  BY <1>2, <1>5, <1>6 DEF CellIsRight

\* The shape of the fixups of an object.
LEMMA FixupsAreLists ==
    ASSUME Skeleton, NEW i \in DOMAIN mObjectMappings
    PROVE  /\ i \in 1 .. NumObjects /\ i \in Nat /\ IsObject(img.objects[i])
           /\ Len(img.objects[i].pages) \in Nat
           /\ DOMAIN FixupsOf(i) = 1 .. Len(img.objects[i].pages)
           /\ \A k \in DOMAIN FixupsOf(i) :
                 /\ k \in Nat /\ k >= 1 /\ Len(FixupsOf(i)[k]) \in Nat
                 /\ DOMAIN FixupsOf(i)[k] = 1 .. Len(FixupsOf(i)[k])
                 /\ \A x \in DOMAIN FixupsOf(i)[k] :
                       x \in Nat /\ x >= 1 /\ x <= Len(FixupsOf(i)[k])
<1>1. i \in 1 .. NumObjects /\ NumObjects \in Nat
  BY MappingsAreSeq, FileIsImage DEF Skeleton, Typed, Progress
<1>2. IsObject(img.objects[i])
  BY <1>1, FileIsImage DEF Skeleton, Typed
<1>3. /\ Len(img.objects[i].pages) \in Nat
      /\ DOMAIN FixupsOf(i) = 1 .. Len(img.objects[i].pages)
      /\ \A k \in DOMAIN FixupsOf(i) :
            Len(FixupsOf(i)[k]) \in Nat /\ DOMAIN FixupsOf(i)[k] = 1 .. Len(FixupsOf(i)[k])
  BY <1>2, ObjectIsRead DEF FixupsOf
<1>4. ASSUME NEW k \in DOMAIN FixupsOf(i)
      PROVE  /\ k \in Nat /\ k >= 1
             /\ \A x \in DOMAIN FixupsOf(i)[k] : x \in Nat /\ x >= 1 /\ x <= Len(FixupsOf(i)[k])
  BY <1>3
<1> QED
  BY <1>1, <1>2, <1>3, <1>4
LEMMA AppendContents ==
    ASSUME Inv, pc = "object", o <= NumObjects, NEW m \in Memories, img' = img,
           mObjectMappings' = Append(mObjectMappings, m), pc' \in {"object", "page"},
           pc' = "page" => o' = o,
           Contiguous /\ m # NULL /\ (pc' = "page" => p' = Len(Object.pages)) =>
              \A c \in Nat : c < Object.size => m[c] = FromFile(o, c)
    PROVE  ContentsInv'
<1> SUFFICES ASSUME Contiguous', HoldsPages', NEW i \in DOMAIN mObjectMappings',
                    Mapped(i)', Settled(i)', NEW c \in Nat, c < img'.objects[i].size
             PROVE  CellIsRight(i, c)'
  BY DEF ContentsInv
<1>1. mObjectMappings \in Seq(Memories) /\ Len(mObjectMappings) = o - 1 /\ o \in Nat
  BY FileIsImage DEF Inv, Skeleton, Typed, Progress
<1>2. /\ DOMAIN mObjectMappings = 1 .. o - 1 /\ DOMAIN mObjectMappings' = 1 .. o
      /\ \A j \in 1 .. o - 1 : mObjectMappings'[j] = mObjectMappings[j]
      /\ mObjectMappings'[o] = m
  BY <1>1
<1>3. \A j, k, x : ~Done(j, k, x)' /\ ~Done(j, k, x)
  BY DEF Done, Fixing
<1>4. FromFile(i, c)' = FromFile(i, c) /\ Contiguous /\ HoldsPages
  BY DEF FromFile, Contiguous, FitsWord, SumIsNumber, HoldsPages
<1>5. CASE i = o
  <2>1. mObjectMappings'[i][c] = FromFile(i, c)
    <3>1. m # NULL /\ c < Object.size
      BY <1>2, <1>5 DEF Mapped, Listed, Object
    <3>2. pc' = "page" => p' = Len(Object.pages)
      BY <1>5 DEF Settled, Object
    <3>3. m[c] = FromFile(o, c)
      BY <1>4, <3>1, <3>2
    <3> QED
      BY <1>2, <1>5, <3>3
  <2> QED
    BY <1>3, <1>4, <2>1 DEF CellIsRight, IsFromFile
<1>6. CASE i # o
  <2>1. i \in 1 .. o - 1
    BY <1>1, <1>2, <1>6
  <2>2. Mapped(i) /\ Settled(i) /\ mObjectMappings'[i][c] = mObjectMappings[i][c]
    BY <1>2, <2>1 DEF Mapped, Listed, Settled
  <2>3. CellIsRight(i, c)
    BY <1>2, <1>4, <2>1, <2>2 DEF Inv, ContentsInv, Loading
  <2>4. IsFromFile(i, c)
    BY <1>3, <2>3 DEF CellIsRight, IsFixed
  <2>5. IsFromFile(i, c)'
    BY <1>3, <1>4, <2>2, <2>4 DEF IsFromFile
  <2> QED
    BY <2>5 DEF CellIsRight
<1> QED
  BY <1>5, <1>6

\* One record is applied: the cells it writes are its own, the others as they were.
LEMMA ApplyContents ==
    ASSUME Inv, ApplyRecord
    PROVE  ContentsInv'
<1>0. /\ pc = "record" /\ r <= Len(Object.fixups[p + 1]) /\ Mapped(o)
      /\ mObjectMappings' = [mObjectMappings EXCEPT ![o] = Applied(mObjectMappings[o], p, Record)]
      /\ r' = r + 1 /\ pc' = pc /\ img' = img /\ o' = o /\ p' = p
  BY DEF ApplyRecord, RecordIsKnown, AtRecord
<1>1. /\ o \in DOMAIN mObjectMappings /\ p \in Nat /\ r \in Nat /\ r >= 1
      /\ p < Len(Object.pages) /\ mObjectMappings \in Seq(Memories)
  <2>1. o <= NumObjects /\ Len(mObjectMappings) = NumObjects /\ p < Len(Object.pages) /\ r >= 1
    BY <1>0 DEF Inv, Skeleton, Progress, Fixing
  <2> QED
    BY <2>1, AtAnObject, MappingsAreSeq DEF Inv, Skeleton, Typed
<1>2. /\ DOMAIN mObjectMappings' = DOMAIN mObjectMappings
      /\ mObjectMappings'[o] = Applied(mObjectMappings[o], p, Record)
      /\ \A i \in DOMAIN mObjectMappings \ {o} : mObjectMappings'[i] = mObjectMappings[i]
  BY <1>0, <1>1
<1> SUFFICES ASSUME Contiguous', HoldsPages', NEW i \in DOMAIN mObjectMappings',
                    Mapped(i)', Settled(i)', NEW c \in Nat, c < img'.objects[i].size
             PROVE  CellIsRight(i, c)'
  BY DEF ContentsInv
<1>3. /\ i \in DOMAIN mObjectMappings /\ Mapped(i) /\ Contiguous /\ HoldsPages
      /\ FromFile(i, c)' = FromFile(i, c) /\ FixupsOf(i)' = FixupsOf(i)
  BY <1>0, <1>2 DEF Mapped, Listed, Contiguous, FitsWord, SumIsNumber, HoldsPages, FromFile, FixupsOf
<1>4. \A k, x : (Hits(i, k, x, c)' <=> Hits(i, k, x, c)) /\ Value(i, k, x, c)' = Value(i, k, x, c)
  BY <1>3 DEF Hits, Value
<1>5. CellIsRight(i, c)
  BY <1>0, <1>3 DEF Inv, ContentsInv, Loading, Fixing, Settled
<1>6. \A k \in DOMAIN FixupsOf(i) : \A x \in DOMAIN FixupsOf(i)[k] :
         Done(i, k, x)' <=> Done(i, k, x) \/ (i = o /\ k = p + 1 /\ x = r)
  <2> SUFFICES ASSUME NEW k \in DOMAIN FixupsOf(i), NEW x \in DOMAIN FixupsOf(i)[k]
               PROVE  Done(i, k, x)' <=> Done(i, k, x) \/ (i = o /\ k = p + 1 /\ x = r)
    OBVIOUS
  <2>1. x \in Nat
    BY <1>3, FixupsAreLists DEF Inv
  <2>2. x < r' <=> x < r \/ x = r
    BY <1>0, <1>1, <2>1
  <2> QED
    BY <1>0, <2>2 DEF Done, Fixing
<1>7. ASSUME mObjectMappings'[i][c] = mObjectMappings[i][c],
             i = o => ~Hits(o, p + 1, r, c)
      PROVE  CellIsRight(i, c)'
  <2>1. CASE IsFromFile(i, c)
    <3>1. IsFromFile(i, c)'
      BY <1>3, <1>4, <1>6, <1>7, <2>1 DEF IsFromFile
    <3> QED
      BY <3>1 DEF CellIsRight
  <2>2. CASE IsFixed(i, c)
    <3>1. IsFixed(i, c)'
      BY <1>3, <1>4, <1>6, <1>7, <2>2 DEF IsFixed
    <3> QED
      BY <3>1 DEF CellIsRight
  <2> QED
    BY <1>5, <2>1, <2>2 DEF CellIsRight
<1>8. CASE i # o
  BY <1>2, <1>3, <1>7, <1>8
<1>9. CASE i = o
  <2>1. p + 1 \in DOMAIN FixupsOf(o) /\ r \in DOMAIN FixupsOf(o)[p + 1]
    <3>1. /\ Len(Object.pages) \in Nat /\ DOMAIN FixupsOf(o) = 1 .. Len(Object.pages)
          /\ \A k \in DOMAIN FixupsOf(o) : DOMAIN FixupsOf(o)[k] = 1 .. Len(FixupsOf(o)[k])
      BY <1>1, FixupsAreLists DEF Inv, Object
    <3>2. p + 1 \in DOMAIN FixupsOf(o)
      BY <1>1, <3>1
    <3>3. r <= Len(FixupsOf(o)[p + 1]) /\ Len(FixupsOf(o)[p + 1]) \in Nat
      BY <1>0, <1>1, <3>2, FixupsAreLists DEF FixupsOf, Object, Inv
    <3> QED
      BY <1>1, <3>1, <3>2, <3>3
  <2>2. (p + 1) - 1 = p /\ Record = FixupsOf(o)[p + 1][r]
    BY <1>1 DEF Record, FixupsOf, Object
  <2>3. c \in DOMAIN mObjectMappings[o]
    <3>1. /\ DOMAIN mObjectMappings[o] = 0 .. AllocOf(o) - 1
          /\ AllocOf(o) \in Nat /\ AllocOf(o) > img.objects[o].size
          /\ img.objects[o].size \in Nat
      BY <1>0, <1>1, <1>3, MemoryOfObject, AllocIsWord, FixupsAreLists, ObjectIsRead
         DEF Inv, Contiguous, Skeleton, Typed
    <3>2. c < img.objects[o].size
      BY <1>0, <1>9
    <3> QED
      BY <3>1, <3>2
  <2>4. mObjectMappings'[o][c] = IF Hits(o, p + 1, r, c) THEN Value(o, p + 1, r, c) ELSE mObjectMappings[o][c]
    BY <1>2, <2>2, <2>3 DEF Applied, Hits, Value
  <2>5. CASE Hits(o, p + 1, r, c)
    <3>1. IsFixed(i, c)'
      BY <1>3, <1>4, <1>6, <1>9, <2>1, <2>4, <2>5 DEF IsFixed
    <3> QED
      BY <3>1 DEF CellIsRight
  <2>6. CASE ~Hits(o, p + 1, r, c)
    BY <1>7, <1>9, <2>4, <2>6
  <2> QED
    BY <2>5, <2>6
<1> QED
  BY <1>8, <1>9
LEMMA InitInv == Init => Inv
<1> SUFFICES ASSUME Init PROVE Inv
  OBVIOUS
<1>1. Skeleton /\ pc = "open"
  BY InitSkeleton DEF Init
<1> QED
  BY <1>1 DEF Inv, RegionInv, ContentsInv, Loading, Fixing

\* Where load stops, or has nothing in memory yet, there is nothing to show.
LEMMA OutsideLoading ==
    ASSUME pc' \notin Loading, pc' # "aborted"
    PROVE  RegionInv' /\ ContentsInv' /\ (Contiguous => pc # "aborted")'
BY DEF RegionInv, ContentsInv, Loading

LEMMA InvStep ==
    ASSUME Inv, [Next]_vars
    PROVE  Inv'
<1>0. Skeleton /\ Skeleton' /\ RegionInv /\ ContentsInv
  BY SkeletonStep DEF Inv
<1> SUFFICES RegionInv' /\ ContentsInv' /\ (Contiguous => pc # "aborted")'
  BY <1>0 DEF Inv
<1>1. ASSUME pc' \in {"thrown", "deleted", "crashed", "corrupted", "header", "tables"}
      PROVE  RegionInv' /\ ContentsInv' /\ (Contiguous => pc # "aborted")'
  BY <1>1, OutsideLoading DEF Loading, Fixing
<1>2. \A e : LoaderError(e) => pc' \in {"thrown", "deleted", "crashed", "corrupted", "header", "tables"}
  BY DEF LoaderError
<1>3. CASE OpenFails \/ Open \/ CheckHeader \/ RejectObject \/ NoMemory \/ RejectPage
           \/ MapFails \/ RejectRecord \/ RecordHasNoObject \/ RecordIsOutside \/ DeleteImage
  <2>1. pc' \in {"thrown", "deleted", "crashed", "corrupted", "header", "tables"}
    BY <1>3 DEF OpenFails, Open, CheckHeader, RejectObject, NoMemory, RejectPage, MapFails, RejectRecord,
                RecordHasNoObject, RecordIsOutside, DeleteImage, LoaderError, HostError, Dies
  <2> QED
    BY <1>1, <2>1
<1>4. CASE LocateTables
  <2>1. CASE LoaderError("IMG_CORRUPTED")
    BY <1>1, <1>2, <2>1
  <2>2. CASE pc' = "object" /\ mObjectMappings' = mObjectMappings
    <3>1. Len(mObjectMappings) = 0 /\ DOMAIN mObjectMappings = 1 .. Len(mObjectMappings)
      BY <1>0, <1>4, MappingsAreSeq DEF LocateTables, Skeleton, Progress
    <3>2. DOMAIN mObjectMappings' = {}
      BY <2>2, <3>1
    <3> QED
      BY <2>2, <3>2 DEF RegionInv, ContentsInv
  <2> QED
    BY <1>4, <2>1, <2>2 DEF LocateTables
<1>5. CASE SkipDiscarded
  <2>1. /\ pc = "object" /\ pc' = pc /\ o <= NumObjects /\ img' = img
        /\ mObjectMappings' = Append(mObjectMappings, NULL)
    BY <1>5 DEF SkipDiscarded, AtObject
  <2>2. NULL \in Memories
    BY DEF Memories
  <2>3. ContentsInv'
    BY <2>1, <2>2, AppendContents
  <2> QED
    BY <2>1, <2>3 DEF RegionInv
<1>6. CASE CreateObject
  <2> DEFINE m == [c \in 0 .. (AllocSize - 1) |-> Zero]
  <2>1. /\ pc = "object" /\ pc' = "page" /\ o <= NumObjects /\ img' = img /\ AllocSize > 0
        /\ mObjectMappings' = Append(mObjectMappings, m)
        /\ o' = o /\ p' = 0 /\ region' = NoRegion
    BY <1>6 DEF CreateObject, ObjectMayStart, AtObject
  <2>2. /\ o \in 1 .. NumObjects /\ o \in Nat /\ Len(Object.pages) \in Nat
        /\ DOMAIN Object.pages = 1 .. Len(Object.pages)
    BY <1>0, <2>1, AtAnObject
  <2>3. AllocSize = AllocOf(o)
    BY DEF AllocSize, AllocOf, Object, IsStack
  <2>4. AllocSize \in Nat /\ AllocSize >= 1 /\ AllocSize <= Word
    <3> HIDE DEF m
    <3>1. img \in Images
      BY <1>0 DEF Skeleton, Typed
    <3>2. AllocOf(o) \in Nat /\ AllocOf(o) < Word
      BY <2>2, <3>1, AllocIsWord
    <3>3. Word \in Nat
      BY Sizes
    <3>4. AllocSize > 0
      BY <2>1
    <3> QED
      BY <2>3, <3>2, <3>3, <3>4
  <2>5. m \in Memories
    <3>1. m \in [0 .. AllocSize - 1 -> Cells]
      BY DEF Zero, Cell, Cells
    <3> HIDE DEF m
    <3> QED
      BY <2>4, <3>1, MemoryIsMapped
  <2>6. ASSUME Contiguous, p' = Len(Object.pages), NEW c \in Nat, c < Object.size
        PROVE  m[c] = FromFile(o, c)
    <3>1. AllocOf(o) > Object.size /\ Object.size \in Nat
      BY <1>0, <2>2, <2>6, AllocIsWord, FileIsImage, ObjectIsRead DEF Skeleton, Typed, Contiguous, Object
    <3>2. c \in 0 .. AllocSize - 1
      BY <2>3, <2>4, <2>6, <3>1
    <3>3. m[c] = Zero
      BY <3>2
    <3>4. DOMAIN Object.pages = {}
      BY <2>1, <2>2, <2>6
    <3>5. FromFile(o, c) = Zero
      BY <3>4 DEF FromFile, Object
    <3> QED
      BY <3>3, <3>5
  <2>7. ContentsInv'
    <3> HIDE DEF m
    <3> QED
      BY <2>1, <2>5, <2>6, AppendContents
  <2>8. mObjectMappings'[o] = m
    <3> HIDE DEF m
    <3>1. mObjectMappings \in Seq(Memories) /\ Len(mObjectMappings) = o - 1
      BY <1>0, <2>1 DEF Skeleton, Typed, Progress
    <3> QED
      BY <2>1, <2>2, <2>5, <3>1
  <2>9. RegionInv'
    <3>1. mObjectMappings'[o'] = m
      BY <2>1, <2>8
    <3>2. \A c \in DOMAIN m : m[c] = Zero
      OBVIOUS
    <3> HIDE DEF m
    <3>3. AllZero(o)'
      BY <3>1, <3>2 DEF AllZero, Zero, Cell
    <3>4. p' = 0 /\ region' = NoRegion' /\ ~(p' > 0)
      BY <2>1 DEF NoRegion
    <3> QED
      BY <3>3, <3>4 DEF RegionInv
  <2> QED
    BY <2>1, <2>7, <2>9
<1>7. CASE GrowRegion
  <2>1. /\ AtPage /\ ~EndsRegion /\ p' = p + 1 /\ pc' = pc /\ pc = "page"
        /\ region' = [Started EXCEPT !.endOffset = PageFileOffset]
        /\ img' = img /\ mObjectMappings' = mObjectMappings /\ o' = o
    BY <1>7 DEF GrowRegion, AtPage
  <2>2. p \in Nat /\ p < Len(Object.pages) /\ Len(Object.pages) \in Nat
    BY <1>0, <2>1, AtAnObject DEF AtPage, Skeleton, Typed, Progress
  <2>3. p + 1 # Len(Object.pages)
    BY <2>1, <2>2 DEF EndsRegion
  <2>4. ContentsInv'
    <3>1. \A i \in DOMAIN mObjectMappings : Settled(i)' => Settled(i)
      BY <2>1, <2>3 DEF Settled, Object
    <3>2. \A i, k, x : Done(i, k, x)' <=> Done(i, k, x)
      BY <2>1 DEF Done, Fixing
    <3> QED
      BY <1>0, <2>1, <3>1, <3>2, ContentsKept DEF Loading
  <2>5. RegionInv'
    <3> SUFFICES ASSUME Contiguous', p' < Len(Object'.pages)
                 PROVE  /\ AllZero(o)'
                        /\ p' = 0 => region' = NoRegion'
                        /\ p' > 0 => region' = [startOffset |-> FileOffset(o, 1)', startIdx |-> 0,
                                                endOffset |-> FileOffset(o, p)']
      BY DEF RegionInv
    <3>1. Contiguous
      BY <2>1 DEF Contiguous, FitsWord, SumIsNumber
    <3>2. AllZero(o)'
      BY <2>1, <2>2, <3>1, <1>0 DEF RegionInv, AllZero, Zero, Cell
    <3>3. /\ Started = [startOffset |-> FileOffset(o, 1), startIdx |-> 0, endOffset |-> region.endOffset]
          /\ PageFileOffset = FileOffset(o, p + 1)
      BY <1>0, <2>1, <3>1, AtContiguousPage
    <3>4. region' = [startOffset |-> FileOffset(o, 1), startIdx |-> 0, endOffset |-> FileOffset(o, p + 1)]
      BY <2>1, <3>3
    <3>5. p' > 0 /\ FileOffset(o, 1)' = FileOffset(o, 1) /\ FileOffset(o, p)' = FileOffset(o, p + 1)
      BY <2>1, <2>2 DEF FileOffset, PagesOfObject
    <3> QED
      BY <2>2, <3>2, <3>4, <3>5
  <2> QED
    BY <2>1, <2>4, <2>5
<1>8. CASE MapRegion
  <2>1. /\ AtPage /\ EndsRegion /\ p' = p + 1 /\ pc' = pc /\ pc = "page"
        /\ mObjectMappings' = [mObjectMappings EXCEPT ![o] = Filled]
        /\ img' = img /\ o' = o
    BY <1>8 DEF MapRegion, AtPage
  <2>2. p \in Nat /\ p < Len(Object.pages) /\ Len(Object.pages) \in Nat /\ Object' = Object
    BY <1>0, <2>1, AtAnObject DEF AtPage, Skeleton, Typed, Progress, Object
  <2>3. o \in DOMAIN mObjectMappings /\ mObjectMappings \in Seq(Memories)
    <3>1. Len(mObjectMappings) = o /\ o <= NumObjects
      BY <1>0, <2>1 DEF Skeleton, Progress
    <3> QED
      BY <1>0, <3>1, AtAnObject, MappingsAreSeq DEF Skeleton, Typed
  <2>4. /\ DOMAIN mObjectMappings' = DOMAIN mObjectMappings /\ mObjectMappings'[o] = Filled
        /\ \A i \in DOMAIN mObjectMappings \ {o} : mObjectMappings'[i] = mObjectMappings[i]
    BY <2>1, <2>3
  <2>5. (Contiguous' => Contiguous) /\ (HoldsPages' => HoldsPages)
    BY <2>1 DEF Contiguous, FitsWord, SumIsNumber, HoldsPages
  <2>6. Contiguous => p = Len(Object.pages) - 1
    BY <1>0, <2>1, AtContiguousPage
  <2>7. RegionInv'
    BY <2>1, <2>2, <2>5, <2>6 DEF RegionInv
  <2>8. ContentsInv'
    <3> SUFFICES ASSUME Contiguous', HoldsPages', NEW i \in DOMAIN mObjectMappings',
                        Mapped(i)', Settled(i)', NEW c \in Nat, c < img'.objects[i].size
                 PROVE  CellIsRight(i, c)'
      BY DEF ContentsInv
    <3>1. FromFile(i, c)' = FromFile(i, c)
      BY <2>1 DEF FromFile
    <3>2. \A j, k, x : ~Done(j, k, x)' /\ ~Done(j, k, x)
      BY <2>1 DEF Done, Fixing
    <3>3. CASE i = o
      <4>1. c < Object.size
        BY <2>1, <3>3 DEF Object
      <4>2. Filled[c] = FromFile(o, c)
        BY <1>0, <2>1, <2>5, <4>1, FilledIsRight
      <4>3. IsFromFile(i, c)'
        BY <2>4, <3>1, <3>2, <3>3, <4>2 DEF IsFromFile
      <4> QED
        BY <4>3 DEF CellIsRight
    <3>4. CASE i # o
      <4>1. Mapped(i) /\ Settled(i) /\ i \in DOMAIN mObjectMappings
            /\ mObjectMappings'[i] = mObjectMappings[i]
        BY <2>4, <3>4 DEF Mapped, Listed, Settled
      <4>2. CellIsRight(i, c)
        BY <1>0, <2>1, <2>5, <4>1 DEF ContentsInv, Loading
      <4>3. IsFromFile(i, c)
        BY <3>2, <4>2 DEF CellIsRight, IsFixed
      <4>4. IsFromFile(i, c)'
        BY <3>1, <3>2, <4>1, <4>3 DEF IsFromFile
      <4> QED
        BY <4>4 DEF CellIsRight
    <3> QED
      BY <3>3, <3>4
  <2> QED
    BY <2>1, <2>7, <2>8
<1>9. CASE MapAsserts
  <2>1. AtPage /\ EndsRegion /\ ~MapIsInside /\ pc' = "aborted" /\ img' = img
    BY <1>9 DEF MapAsserts, Dies
  <2>2. ~Contiguous
    BY <1>0, <2>1, RegionIsInside
  <2>3. ~Contiguous'
    BY <2>1, <2>2 DEF Contiguous, FitsWord, SumIsNumber
  <2> QED
    BY <2>1, <2>3 DEF RegionInv, ContentsInv
<1>10. CASE ObjectDone \/ StartRelocation \/ FixObject \/ FixPage \/ ObjectFixed \/ PageFixed \/ StartAt
  <2>1. CASE pc' \in {"thrown", "crashed", "corrupted"}
    BY <1>1, <2>1
  <2>2. CASE pc' \notin {"thrown", "crashed", "corrupted"}
    <3>1. /\ img' = img /\ mObjectMappings' = mObjectMappings /\ pc \in Loading
          /\ pc' # "page" /\ pc' # "aborted"
      BY <1>10, <2>2 DEF ObjectDone, StartRelocation, FixObject, FixPage, ObjectFixed, PageFixed, StartAt,
                         LoaderError, Dies, Loading, Fixing
    <3>2. \A i \in DOMAIN mObjectMappings : Settled(i)' => Settled(i)
      BY <1>10 DEF ObjectDone, StartRelocation, FixObject, FixPage, ObjectFixed, PageFixed, StartAt, Settled
    <3>3. ASSUME NEW i \in DOMAIN mObjectMappings, NEW k \in DOMAIN FixupsOf(i),
                 NEW x \in DOMAIN FixupsOf(i)[k]
          PROVE  Done(i, k, x)' <=> Done(i, k, x)
      <4>1. /\ i \in Nat /\ i >= 1 /\ i <= NumObjects /\ NumObjects \in Nat /\ o \in Nat
            /\ k \in Nat /\ k >= 1 /\ x \in Nat /\ x >= 1
            /\ k <= Len(img.objects[i].pages) /\ x <= Len(FixupsOf(i)[k])
            /\ Len(img.objects[i].pages) \in Nat /\ Len(FixupsOf(i)[k]) \in Nat
            /\ p \in Nat /\ r \in Nat
        <5>1. o \in 1 .. NumObjects + 1 /\ p \in Nat /\ r \in Nat /\ img \in Images
          BY <1>0 DEF Skeleton, Typed
        <5>2. NumObjects \in Nat
          BY <5>1, FileIsImage
        <5>3. o \in Nat
          BY <5>1, <5>2
        <5>4. /\ i \in 1 .. NumObjects /\ i \in Nat /\ Len(img.objects[i].pages) \in Nat
              /\ DOMAIN FixupsOf(i) = 1 .. Len(img.objects[i].pages)
              /\ k \in Nat /\ k >= 1 /\ Len(FixupsOf(i)[k]) \in Nat
              /\ DOMAIN FixupsOf(i)[k] = 1 .. Len(FixupsOf(i)[k])
          BY <1>0, FixupsAreLists
        <5>5. i >= 1 /\ i <= NumObjects
          BY <5>2, <5>4
        <5>6. k \in 1 .. Len(img.objects[i].pages) /\ x \in 1 .. Len(FixupsOf(i)[k])
          BY <5>4
        <5>7. k <= Len(img.objects[i].pages) /\ x \in Nat /\ x >= 1 /\ x <= Len(FixupsOf(i)[k])
          BY <5>4, <5>6
        <5> QED
          BY <5>1, <5>2, <5>3, <5>4, <5>5, <5>7
      <4>2. CASE ObjectDone
        BY <4>2 DEF ObjectDone, Done, Fixing
      <4>3. CASE StartRelocation
        <5>1. ~(i < 1)
          BY <4>1
        <5> QED
          BY <4>3, <5>1 DEF StartRelocation, Done, Fixing
      <4>4. CASE FixObject
        <5>1. ~(k < 0 + 1)
          BY <4>1
        <5> QED
          BY <2>2, <4>4, <5>1 DEF FixObject, LoaderError, Done, Fixing
      <4>5. CASE FixPage
        <5>1. ~(x < 1)
          BY <4>1
        <5> QED
          BY <2>2, <4>5, <5>1 DEF FixPage, LoaderError, Done, Fixing
      <4>6. CASE ObjectFixed
        <5>1. /\ pc = "fixPage" /\ p = Len(Object.pages) /\ pc' = "fixObject" /\ o' = o + 1
          BY <4>6 DEF ObjectFixed
        <5>2. i < o + 1 <=> i < o \/ i = o
          BY <4>1
        <5>3. i = o => k < p + 1
          BY <4>1, <5>1 DEF Object
        <5> QED
          BY <5>1, <5>2, <5>3 DEF Done, Fixing
      <4>7. CASE PageFixed
        <5>1. /\ pc = "record" /\ r > Len(Object.fixups[p + 1]) /\ pc' = "fixPage"
              /\ p' = p + 1 /\ o' = o
          BY <4>7 DEF PageFixed
        <5>2. k < (p + 1) + 1 <=> k < p + 1 \/ k = p + 1
          BY <4>1
        <5>3. i = o /\ k = p + 1 => x < r
          BY <4>1, <5>1 DEF FixupsOf, Object
        <5> QED
          BY <5>1, <5>2, <5>3 DEF Done, Fixing
      <4>8. CASE StartAt
        <5>1. pc = "fixObject" /\ o > NumObjects /\ pc' = "loaded"
          BY <2>2, <4>8 DEF StartAt, Dies
        <5>2. i < o
          BY <4>1, <5>1
        <5> QED
          BY <5>1, <5>2 DEF Done, Fixing
      <4> QED
        BY <1>10, <4>2, <4>3, <4>4, <4>5, <4>6, <4>7, <4>8
    <3>4. ContentsInv'
      BY <1>0, <3>1, <3>2, <3>3, ContentsKept
    <3> QED
      BY <3>1, <3>4 DEF RegionInv
  <2> QED
    BY <2>1, <2>2
<1>11. CASE ApplyRecord
  <2>1. pc = "record" /\ pc' = pc
    BY <1>11 DEF ApplyRecord, RecordIsKnown, AtRecord
  <2> QED
    BY <1>11, <2>1, ApplyContents DEF RegionInv
<1>12. CASE UNCHANGED vars
  <2>1. /\ pc' = pc /\ img' = img /\ mObjectMappings' = mObjectMappings /\ o' = o /\ p' = p
        /\ r' = r /\ region' = region
    BY <1>12 DEF vars
  <2>2. RegionInv' /\ (Contiguous => pc # "aborted")'
    BY <1>0, <2>1 DEF Inv, RegionInv, AllZero, Zero, Cell, NoRegion, FileOffset, PagesOfObject, Object,
                      Contiguous, FitsWord, SumIsNumber
  <2>3. ContentsInv'
    <3>1. CASE pc \in Loading
      <4>1. \A i, k, x : Done(i, k, x)' <=> Done(i, k, x)
        BY <2>1 DEF Done
      <4>2. \A i \in DOMAIN mObjectMappings : Settled(i)' => Settled(i)
        BY <2>1 DEF Settled, Object
      <4> QED
        BY <1>0, <2>1, <3>1, <4>1, <4>2, ContentsKept
    <3>2. CASE pc \notin Loading
      BY <2>1, <3>2 DEF ContentsInv
    <3> QED
      BY <3>1, <3>2
  <2> QED
    BY <2>2, <2>3
<1> QED
  BY <1>3, <1>4, <1>5, <1>6, <1>7, <1>8, <1>9, <1>10, <1>11, <1>12 DEF Next

LEMMA InvHolds == Spec => []Inv
<1>1. Inv /\ [Next]_vars => Inv'
  BY InvStep
<1> QED
  BY <1>1, InitInv, PTL DEF Spec

\* The assertion of map holds, and the process goes on, for every file that a linker
\* writes, whatever the sizes of its objects and wherever its pages lie.
THEOREM RegionsAreInside == Spec => []ContiguousRegionsAreInside
<1>1. Inv => ContiguousRegionsAreInside
  BY DEF Inv, ContiguousRegionsAreInside
<1> QED
  BY <1>1, InvHolds, PTL

\* A loaded image is what the file says, cell for cell.
THEOREM ImageIsRight == Spec => []LoadedAsWritten
<1>1. Inv => LoadedAsWritten
  <2> SUFFICES ASSUME Inv, pc = "loaded", Contiguous, HoldsPages, NEW i \in DOMAIN img.objects,
                      Mapped(i), NEW c \in 0 .. (img.objects[i].size - 1)
               PROVE  LET wanted == FromFixups(i, c)
                      IN IF wanted = {} THEN mObjectMappings[i][c] = FromFile(i, c)
                                        ELSE mObjectMappings[i][c] \in wanted
    BY DEF LoadedAsWritten, ObjectIsRight
  <2>1. i \in DOMAIN mObjectMappings /\ img.objects[i].size \in Nat
    <3>1. DOMAIN img.objects = 1 .. NumObjects /\ DOMAIN mObjectMappings = 1 .. NumObjects
      BY FileIsImage, MappingsAreSeq DEF Inv, Skeleton, Typed, Progress
    <3> QED
      BY <3>1, FileIsImage, ObjectIsRead DEF Inv, Skeleton, Typed
  <2>2. c \in Nat /\ c < img.objects[i].size
    BY <2>1
  <2>3. CellIsRight(i, c)
    BY <2>1, <2>2 DEF Inv, ContentsInv, Loading, Settled
  <2>4. \A k \in DOMAIN FixupsOf(i) : \A x \in DOMAIN FixupsOf(i)[k] :
           Hits(i, k, x, c) => Value(i, k, x, c) \in FromFixups(i, c)
    BY DEF FromFixups, Hits, Value, FixupsOf
  <2>5. CASE IsFixed(i, c)
    <3>1. mObjectMappings[i][c] \in FromFixups(i, c)
      BY <2>4, <2>5 DEF IsFixed
    <3> QED
      BY <3>1
  <2>6. CASE IsFromFile(i, c)
    <3>1. \A k \in DOMAIN FixupsOf(i) : \A x \in DOMAIN FixupsOf(i)[k] : ~Hits(i, k, x, c)
      BY <2>6 DEF IsFromFile, Done
    <3>2. FromFixups(i, c) = {}
      BY <3>1 DEF FromFixups, Hits, FixupsOf
    <3> QED
      BY <2>6, <3>2 DEF IsFromFile
  <2> QED
    BY <2>3, <2>5, <2>6 DEF CellIsRight
<1> QED
  BY <1>1, InvHolds, PTL
=============================================================================
