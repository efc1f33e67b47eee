------------------------------ MODULE LeImage ------------------------------
(* ImageFactory::create and LEImage::load: the file of a linear executable is  *)
(* opened and mapped, its header checked, every object given memory and its    *)
(* pages mapped into it region by region, and the fixups applied, page by page *)
(* and record by record.                                                       *)
(*                                                                             *)
(* Memory and file are counted in cells; a cell holds a 16-bit half of an      *)
(* address. What a cell holds is a record: where in the file it comes from, or *)
(* which half of which target address. A file offset is never 0 for a page,    *)
(* for the header comes first: the code uses 0 for "no region".                *)
EXTENDS Integers, Sequences

CONSTANTS
    Images,     \* the files the loader may be given, see IsImage
    PageSize,   \* LEHeader::pageSize in cells; equal to the host's page
    HeapSize,   \* mMaxHeapSize, in cells: what Launcher has for MAX_HEAP_SIZE
    Word        \* the modulus of uint32_t, in cells

\* The checks of verifyHeader in the order they are made, with the error of each.
HeaderChecks == << <<"byteOrder", "IMG_INCOMPATIBLE">>, <<"formatLevel", "IMG_NOT_SUPPORTED">>,
                   <<"cpuType", "IMG_INCOMPATIBLE">>, <<"moduleFlags", "IMG_NOT_SUPPORTED">>,
                   <<"notExecutable", "IMG_NOT_EXECUTABLE">>, <<"protectedMode", "IMG_NOT_SUPPORTED">>,
                   <<"noFixups", "IMG_NOT_RELOCATABLE">>, <<"imports", "IMG_NOT_SUPPORTED">> >>

\* A table of the file counts from 1.
IsList(s) == Len(s) \in Nat /\ DOMAIN s = 1..Len(s)

\* The kinds of fixup: the four written, the ones logged and ignored, and the rest.
SourceTypes == {"off16", "far32", "off32", "ignored", "unknown"}

\* A fixup; target is one byte, which counts from 1 and may name no object.
IsFixup(x) == /\ x.source \in SourceTypes /\ x.at \in Int /\ x.off \in Nat
              /\ x.target \in 0..255 /\ x.supported \in BOOLEAN

\* An entry of the page table: pageHigh and pageLow, and the number of the page they
\* stand for, which is the linker's to say.
PageEntry == [type : {"normal", "other"}, high : Nat, low : Nat, number : Nat \ {0}]

IsObject(b) == /\ b.flags \in {"plain", "discard", "unsupported"}
               /\ b.size \in 1..(Word - 1)
               /\ b.pages \in Seq(PageEntry)
               /\ DOMAIN b.fixups = DOMAIN b.pages
               /\ \A i \in DOMAIN b.fixups :
                     /\ IsList(b.fixups[i])
                     /\ \A k \in DOMAIN b.fixups[i] : IsFixup(b.fixups[i][k])

\* A file: the faults of its header, the table it is cut off in, its length, the offset
\* of its data pages, its entry point and stack, and its objects. espObj and eipObj
\* count from 1 and may name no object.

IsImage(f) == /\ f.cut \in {"whole", "header", "tables", "pageTable", "fixupTable", "records"}
              /\ f.faults \subseteq {HeaderChecks[i][1] : i \in DOMAIN HeaderChecks}
              /\ f.length \in Nat /\ f.data \in Nat \ {0}
              /\ IsList(f.objects)
              /\ f.eipObj \in Nat /\ f.espObj \in Nat /\ f.esp \in Nat
              /\ \A i \in DOMAIN f.objects : IsObject(f.objects[i])

ASSUME ImagesAreLE == \A f \in Images : IsImage(f)
ASSUME Sizes == PageSize \in Nat \ {0} /\ HeapSize \in Nat \ {0} /\ Word \in Nat \ {0}

VARIABLES
    pc,              \* the step of load, or how it ended
    img,             \* the file
    error,           \* the ImageLoaderException on its way out, or "none"
    mFile,           \* the host file: "closed" or "open"
    mem,             \* the map of the whole file: "none", "mapped", "released", "leaked"
    mObjectMappings, \* one mapping per object so far: a function from cells, or NULL
    o, p, r,         \* the object, page and record at hand
    region,          \* startOffset, startIdx and endOffset of mapObject
    stack            \* mStackPointer and mHeapEnd, as cells of the stack object

vars == <<pc, img, error, mFile, mem, mObjectMappings, o, p, r, region, stack>>

Cell(kind, obj, off) == [kind |-> kind, obj |-> obj, off |-> off]
Zero     == Cell("zero", 0, 0)
Gone     == Cell("gone", 0, 0)   \* mapped beyond the end of the file: no access
NULL     == <<>>            \* no memory: a mapping has at least one cell
NoRegion == [startOffset |-> 0, startIdx |-> 0, endOffset |-> 0]
NoStack  == [pointer |-> 0, heapEnd |-> 0]

NumObjects == Len(img.objects)
Object     == img.objects[o]
Listed(i)  == i \in DOMAIN mObjectMappings
Mapped(i)  == Listed(i) /\ mObjectMappings[i] # NULL

Init == /\ img \in Images
        /\ pc = "open" /\ error = "none" /\ mFile = "closed" /\ mem = "none"
        /\ mObjectMappings = << >> /\ o = 1 /\ p = 0 /\ r = 1
        /\ region = NoRegion /\ stack = NoStack

-----------------------------------------------------------------------------
(* How load ends early. *)

\* An ImageLoaderException passes the handler in load, which frees only for an
\* OSException: the map of the file stays.
LoaderError(e) == /\ pc' = "thrown" /\ error' = e
                  /\ mem' = (IF mem = "mapped" THEN "leaked" ELSE mem)
                  /\ UNCHANGED <<img, mFile, mObjectMappings, o, p, r, region, stack>>

\* Mutant: nothing is freed.
HostErrorLeaks(e) == /\ pc' = "thrown" /\ error' = e
                     /\ mem' = (IF mem = "mapped" THEN "leaked" ELSE mem)
                     /\ UNCHANGED <<img, mObjectMappings, o, p, r, region, stack>>

\* An OSException becomes an ImageLoaderException; the map of the file is freed.
HostError(e) == /\ pc' = "thrown" /\ error' = e
                /\ mem' = (IF mem = "mapped" THEN "released" ELSE mem)
                /\ UNCHANGED <<img, mObjectMappings, o, p, r, region, stack>>

\* An assertion fails, a NULL mapping is dereferenced, or memory is read or written
\* that is not the object's: the process is gone, or goes on with what it must not have
\* touched, of which nothing more is said.
Dies(how) == /\ pc' = how
             /\ UNCHANGED <<img, error, mFile, mem, mObjectMappings, o, p, r, region, stack>>

-----------------------------------------------------------------------------
(* Opening and checking. *)

\* The file cannot be opened, or it is open and cannot be mapped.
OpenFails == /\ pc = "open"
             /\ \E opened \in {"closed", "open"}, e \in {"IMG_FILE_NOT_FOUND", "IMG_OUT_OF_MEMORY"} :
                   mFile' = opened /\ HostError(e)

Open == /\ pc = "open"
        /\ pc' = "header" /\ mFile' = "open" /\ mem' = "mapped"
        /\ UNCHANGED <<img, error, mObjectMappings, o, p, r, region, stack>>

\* findLEHeader and verifyHeader: the first check that fails decides the error.
Faults == {i \in DOMAIN HeaderChecks : HeaderChecks[i][1] \in img.faults}
FirstFault == CHOOSE i \in Faults : \A k \in Faults : i <= k

CheckHeader ==
    /\ pc = "header"
    /\ \/ img.cut = "header" /\ LoaderError("IMG_UNKNOWN_FORMAT")
       \/ img.cut # "header" /\ Faults # {} /\ LoaderError(HeaderChecks[FirstFault][2])
       \/ /\ img.cut # "header" /\ Faults = {}
          /\ pc' = "tables"
          /\ UNCHANGED <<img, error, mFile, mem, mObjectMappings, o, p, r, region, stack>>

LocateTables ==
    /\ pc = "tables"
    /\ \/ img.cut = "tables" /\ LoaderError("IMG_CORRUPTED")
       \/ /\ img.cut # "tables"
          /\ pc' = "object"
          /\ UNCHANGED <<img, error, mFile, mem, mObjectMappings, o, p, r, region, stack>>

-----------------------------------------------------------------------------
(* mapObject. *)

\* Mutant: rounds down.
RoundDown(size) == (size \div PageSize) * PageSize

RoundToPageSize(size) == ((size \div PageSize) + 1) * PageSize

\* Mutant: the index in the header counts from 1, the one here from 0.
IsStackFromZero == o - 1 = img.espObj

IsStack == o = img.espObj

\* uint32_t: the size of an object of nearly 4 GB wraps.
AllocSize == (RoundToPageSize(Object.size) + (IF IsStack THEN HeapSize ELSE 0)) % Word

AtObject == pc = "object" /\ o <= NumObjects

\* Mutant: no place in the list.
SkipSilently == /\ AtObject /\ Object.flags = "discard"
                /\ o' = o + 1
                /\ UNCHANGED <<pc, img, error, mFile, mem, mObjectMappings, p, r, region, stack>>

\* Mutant: the object is looked at again and again.
SkipInPlace == /\ AtObject /\ Object.flags = "discard"
               /\ mObjectMappings' = Append(mObjectMappings, NULL)
               /\ UNCHANGED <<pc, img, error, mFile, mem, o, p, r, region, stack>>

\* A discardable object gets no memory, but a place in the list.
SkipDiscarded == /\ AtObject /\ Object.flags = "discard"
                 /\ mObjectMappings' = Append(mObjectMappings, NULL) /\ o' = o + 1
                 /\ UNCHANGED <<pc, img, error, mFile, mem, p, r, region, stack>>

RejectObject == /\ AtObject /\ Object.flags # "discard"
                /\ \/ Object.flags = "unsupported" /\ LoaderError("IMG_NOT_SUPPORTED")
                   \/ /\ Object.flags # "unsupported" /\ img.cut = "pageTable"
                      /\ LoaderError("IMG_CORRUPTED")

ObjectMayStart == AtObject /\ Object.flags = "plain" /\ img.cut # "pageTable"

NoMemory == ObjectMayStart /\ HostError("IMG_OUT_OF_MEMORY") /\ UNCHANGED mFile

\* No memory has a size of 0.
CreateObject == /\ ObjectMayStart /\ AllocSize > 0
                /\ mObjectMappings' = Append(mObjectMappings, [c \in 0..(AllocSize - 1) |-> Zero])
                /\ p' = 0 /\ region' = NoRegion
                /\ pc' = "page"
                /\ UNCHANGED <<img, error, mFile, mem, o, r, stack>>

\* uint32_t: a difference below 0 wraps.
Minus(a, b)   == IF a >= b THEN a - b ELSE (Word - b) + a
Smaller(a, b) == IF a <= b THEN a ELSE b

PageFileOffset == LET page == Object.pages[p + 1]
                  IN ((page.high + page.low - 1) * PageSize + img.data) % Word

\* The region as page p finds it: an empty one starts here.
Started == IF region.startOffset = 0
           THEN [region EXCEPT !.startOffset = PageFileOffset, !.startIdx = p]
           ELSE region

\* A page that does not follow the last one, or the last page, ends the region
\* and is taken into it.
EndsRegion == \/ region.endOffset # 0 /\ PageFileOffset # (region.endOffset + PageSize) % Word
              \/ p = Len(Object.pages) - 1

ObjectOffset == (Started.startIdx * PageSize) % Word
MapLength    == Smaller(Minus((PageFileOffset + PageSize) % Word, Started.startOffset), Object.size)

\* UnixMemMap::map: an aligned region is mapped and so filled up to the end of the
\* last page. Any other is read, and what the file has of it is enough: read ends at
\* the end of the file, and map accepts that.
IsAligned    == Started.startOffset % PageSize = 0
FilledLength == IF IsAligned
                THEN ((MapLength + PageSize - 1) \div PageSize) * PageSize
                ELSE IF Started.startOffset < img.length
                     THEN Smaller(MapLength, img.length - Started.startOffset)
                     ELSE 0

InRange(offset) == offset < AllocSize

MapIsInside == InRange(ObjectOffset) /\ InRange((ObjectOffset + Minus(MapLength, 1)) % Word)

\* A page mapped across the end of the file reads as 0 from there, one beyond it not at all.
FileCell(offset) == IF offset < img.length THEN Cell("file", 0, offset)
                    ELSE IF (offset \div PageSize) * PageSize < img.length THEN Zero
                    ELSE Gone

Filled == [c \in DOMAIN mObjectMappings[o] |->
             IF c \in ObjectOffset..(ObjectOffset + FilledLength - 1)
             THEN FileCell(Started.startOffset + c - ObjectOffset)
             ELSE mObjectMappings[o][c]]

AtPage == pc = "page" /\ p < Len(Object.pages)

RejectPage == /\ AtPage /\ Object.pages[p + 1].type # "normal"
              /\ LoaderError("IMG_NOT_SUPPORTED")

\* Mutant: the start of the region is not kept.
GrowForgetsStart == /\ AtPage /\ Object.pages[p + 1].type = "normal" /\ ~EndsRegion
                    /\ region' = [region EXCEPT !.endOffset = PageFileOffset]
                    /\ p' = p + 1
                    /\ UNCHANGED <<pc, img, error, mFile, mem, mObjectMappings, o, r, stack>>

GrowRegion == /\ AtPage /\ Object.pages[p + 1].type = "normal" /\ ~EndsRegion
              /\ region' = [Started EXCEPT !.endOffset = PageFileOffset]
              /\ p' = p + 1
              /\ UNCHANGED <<pc, img, error, mFile, mem, mObjectMappings, o, r, stack>>

\* mmap takes no region of length 0.
MapRegion == /\ AtPage /\ Object.pages[p + 1].type = "normal" /\ EndsRegion /\ MapIsInside
             /\ IsAligned => MapLength > 0
             /\ mObjectMappings' = [mObjectMappings EXCEPT ![o] = Filled]
             /\ region' = [Started EXCEPT !.startOffset = 0, !.endOffset = 0]
             /\ p' = p + 1
             /\ UNCHANGED <<pc, img, error, mFile, mem, o, r, stack>>

\* The host refuses the map, or the read fails.
MapFails == /\ AtPage /\ Object.pages[p + 1].type = "normal" /\ EndsRegion /\ MapIsInside
            /\ HostError("IMG_INTERNAL_ERROR") /\ UNCHANGED mFile

MapAsserts == /\ AtPage /\ Object.pages[p + 1].type = "normal" /\ EndsRegion /\ ~MapIsInside
              /\ Dies("aborted")

ObjectDone == /\ pc = "page" /\ p = Len(Object.pages)
              /\ pc' = "object" /\ o' = o + 1
              /\ UNCHANGED <<img, error, mFile, mem, mObjectMappings, p, r, region, stack>>

-----------------------------------------------------------------------------
(* relocate and processRelocationRecord. *)

\* All objects have their place; the walk over the fixups starts.
StartRelocation == /\ pc = "object" /\ o > NumObjects
                   /\ pc' = "fixObject" /\ o' = 1
                   /\ UNCHANGED <<img, error, mFile, mem, mObjectMappings, p, r, region, stack>>

FixObject == /\ pc = "fixObject" /\ o <= NumObjects
             /\ \/ img.cut = "fixupTable" /\ LoaderError("IMG_CORRUPTED")
                \/ /\ img.cut # "fixupTable"
                   /\ pc' = "fixPage" /\ p' = 0
                   /\ UNCHANGED <<img, error, mFile, mem, mObjectMappings, o, r, region, stack>>

FixPage == /\ pc = "fixPage" /\ p < Len(Object.pages)
           /\ \/ img.cut = "records" /\ LoaderError("IMG_CORRUPTED")
              \/ /\ img.cut # "records"
                 /\ pc' = "record" /\ r' = 1
                 /\ UNCHANGED <<img, error, mFile, mem, mObjectMappings, o, p, region, stack>>

ObjectFixed == /\ pc = "fixPage" /\ p = Len(Object.pages)
               /\ pc' = "fixObject" /\ o' = o + 1
               /\ UNCHANGED <<img, error, mFile, mem, mObjectMappings, p, r, region, stack>>

\* What a record writes: halves of the target's address, after the code selector
\* for a far pointer.
Written(x) == LET low  == Cell("low", x.target, x.off)
                  high == Cell("high", x.target, x.off)
              IN CASE x.source = "off16" -> <<low>>
                   [] x.source = "off32" -> <<low, high>>
                   [] x.source = "far32" -> <<Cell("codeSel", 0, 0), low, high>>
                   [] OTHER -> << >>

\* The first cell a record of page i writes; it may lie before the page.
SourceCell(i, x) == i * PageSize + x.at

\* The cells it writes: inside the object's memory or not, the code does not look.
Touched(i, x) == {SourceCell(i, x) + k - 1 : k \in DOMAIN Written(x)}

Applied(memory, i, x) ==
    [c \in DOMAIN memory |->
       IF c \in Touched(i, x) THEN Written(x)[c - SourceCell(i, x) + 1] ELSE memory[c]]

Record   == Object.fixups[p + 1][r]
AtRecord == pc = "record" /\ r <= Len(Object.fixups[p + 1])

RejectRecord == /\ AtRecord
                /\ \/ ~Record.supported
                   \/ Record.source = "unknown" /\ Mapped(o) /\ Mapped(Record.target)
                /\ LoaderError("IMG_NOT_SUPPORTED")

\* Both mappings are dereferenced before the kind of the fixup is looked at: NULL, or
\* whatever lies behind the list.
RecordHasNoObject == /\ AtRecord /\ Record.supported
                     /\ \/ (~Mapped(o) \/ ~Mapped(Record.target)) /\ Dies("crashed")
                        \/ Mapped(o) /\ ~Listed(Record.target) /\ Dies("corrupted")

RecordIsKnown == /\ AtRecord /\ Record.supported /\ Record.source # "unknown"
                 /\ Mapped(o) /\ Mapped(Record.target)

\* The write hits memory that is not the object's, or no memory.
RecordIsOutside ==
    /\ RecordIsKnown
    /\ \E c \in Touched(p, Record) :
          \/ c \notin DOMAIN mObjectMappings[o] /\ \E how \in {"crashed", "corrupted"} : Dies(how)
          \/ c \in DOMAIN mObjectMappings[o] /\ mObjectMappings[o][c] = Gone /\ Dies("crashed")

ApplyRecord == /\ RecordIsKnown
               /\ \A c \in Touched(p, Record) :
                     c \in DOMAIN mObjectMappings[o] /\ mObjectMappings[o][c] # Gone
               /\ mObjectMappings' = [mObjectMappings EXCEPT ![o] = Applied(@, p, Record)]
               /\ r' = r + 1
               /\ UNCHANGED <<pc, img, error, mFile, mem, o, p, region, stack>>

PageFixed == /\ pc = "record" /\ r > Len(Object.fixups[p + 1])
             /\ pc' = "fixPage" /\ p' = p + 1
             /\ UNCHANGED <<img, error, mFile, mem, mObjectMappings, o, r, region, stack>>

-----------------------------------------------------------------------------
(* The end of load, and what ImageFactory::create does with a failure. *)

StartAt == /\ pc = "fixObject" /\ o > NumObjects
           /\ \/ /\ ~Mapped(img.eipObj) \/ ~Mapped(img.espObj)
                 /\ Dies("crashed")
              \/ /\ \A i \in {img.eipObj, img.espObj} : Listed(i) => Mapped(i)
                 /\ ~Listed(img.eipObj) \/ ~Listed(img.espObj)
                 /\ Dies("corrupted")
              \/ /\ Mapped(img.eipObj) /\ Mapped(img.espObj)
                 /\ stack' = [pointer |-> img.esp, heapEnd |-> img.esp + HeapSize]
                 /\ pc' = "loaded" /\ mem' = "released"
                 /\ UNCHANGED <<img, error, mFile, mObjectMappings, o, p, r, region>>

\* The factory deletes the image, which unmaps its objects and closes its file.
DeleteImage == /\ pc = "thrown"
               /\ mObjectMappings' = [i \in DOMAIN mObjectMappings |-> NULL] /\ mFile' = "closed"
               /\ pc' = "deleted"
               /\ UNCHANGED <<img, error, mem, o, p, r, region, stack>>

Next == \/ OpenFails \/ Open \/ CheckHeader \/ LocateTables
        \/ SkipDiscarded \/ RejectObject \/ NoMemory \/ CreateObject
        \/ RejectPage \/ GrowRegion \/ MapRegion \/ MapFails \/ MapAsserts \/ ObjectDone
        \/ StartRelocation \/ FixObject \/ FixPage \/ ObjectFixed
        \/ RejectRecord \/ RecordHasNoObject \/ RecordIsOutside \/ ApplyRecord \/ PageFixed
        \/ StartAt \/ DeleteImage

Spec == Init /\ [][Next]_vars
-----------------------------------------------------------------------------
(* Properties. *)

Ends == {"loaded", "deleted", "crashed", "corrupted", "aborted"}

TypeOK == /\ pc \in Ends \cup {"open", "header", "tables", "object", "page", "fixObject",
                               "fixPage", "record", "thrown"}
          /\ img \in Images
          /\ error \in {"none", "IMG_FILE_NOT_FOUND", "IMG_UNKNOWN_FORMAT", "IMG_CORRUPTED",
                        "IMG_OUT_OF_MEMORY", "IMG_INTERNAL_ERROR"}
                       \cup {HeaderChecks[i][2] : i \in DOMAIN HeaderChecks}
          /\ mFile \in {"closed", "open"}
          /\ mem \in {"none", "mapped", "released", "leaked"}
          /\ Len(mObjectMappings) <= NumObjects
          /\ o \in 1..(NumObjects + 1) /\ p \in Nat /\ r \in Nat
          /\ region \in [startOffset : 0..(Word - 1), startIdx : Nat, endOffset : 0..(Word - 1)]
          /\ stack.pointer \in Nat /\ stack.heapEnd \in Nat

\* Nothing wraps: the memory of every object has a size, and its pages have an offset
\* in the file, of 32 bits.
FitsWord == \A i \in DOMAIN img.objects :
               LET b == img.objects[i]
               IN /\ b.size + PageSize + HeapSize < Word
                  /\ \A k \in DOMAIN b.pages : b.pages[k].number * PageSize + img.data < Word

\* The code adds the two parts of a page's number. That is the number when one of them
\* is 0, or counts in full.
SumIsNumber == \A i \in DOMAIN img.objects : \A k \in DOMAIN img.objects[i].pages :
                  LET page == img.objects[i].pages[k]
                  IN page.high + page.low = page.number

\* Every page starts before the end of the file; the last may be there in part.
HoldsPages == \A i \in DOMAIN img.objects : \A k \in DOMAIN img.objects[i].pages :
                 (img.objects[i].pages[k].number - 1) * PageSize + img.data < img.length

\* The pages of every object lie one after the other in the file, which is how
\* linkers write them.
Contiguous == /\ FitsWord /\ SumIsNumber
              /\ \A i \in DOMAIN img.objects :
                    LET pages == img.objects[i].pages
                    IN \A k \in 2..Len(pages) : pages[k].number = pages[k - 1].number + 1

\* What the file says cell c of object i is: what it has of the page that covers it, or 0.
FromFile(i, c) ==
    LET b == img.objects[i]
        k == c \div PageSize + 1
        offset == (b.pages[k].number - 1) * PageSize + img.data + (c % PageSize)
    IN IF k \in DOMAIN b.pages /\ offset < img.length THEN Cell("file", 0, offset) ELSE Zero

\* The values the fixups of object i say cell c has to get.
FromFixups(i, c) ==
    LET b == img.objects[i]
        on(k) == {x \in DOMAIN b.fixups[k] : c \in Touched(k - 1, b.fixups[k][x])}
    IN UNION {{Written(b.fixups[k][x])[c - SourceCell(k - 1, b.fixups[k][x]) + 1] : x \in on(k)} :
                 k \in DOMAIN b.fixups}

ObjectIsRight(i) ==
    \A c \in 0..(img.objects[i].size - 1) :
       LET wanted == FromFixups(i, c)
       IN IF wanted = {} THEN mObjectMappings[i][c] = FromFile(i, c)
                         ELSE mObjectMappings[i][c] \in wanted

\* A loaded image is what the file says: every cell of every object below its
\* virtual size is the cell of its own page, 0 beyond the pages, or half of the
\* address a fixup names, also where one fixup lies across two pages and is in
\* the lists of both.
LoadedAsWritten == pc = "loaded" /\ Contiguous /\ HoldsPages =>
                      \A i \in DOMAIN img.objects : Mapped(i) => ObjectIsRight(i)

\* "find and map contiguous regions" (LeImage.cpp:217): objects whose pages are not
\* contiguous are loaded right as well.
RegionsAreContiguous == pc = "loaded" /\ FitsWord /\ SumIsNumber /\ HoldsPages =>
                           \A i \in DOMAIN img.objects : Mapped(i) => ObjectIsRight(i)

\* The assertion of UnixMemMap::map (UnixMemMap.cpp:44) that a region lies inside the
\* memory of its object holds if the pages are contiguous. (It fails, and ends the
\* process, for some that are not: for the pages 2, 1 the length is 0.)
ContiguousRegionsAreInside == Contiguous => pc # "aborted"

\* The heap DOSExtender grants up to mHeapEnd is memory of the stack object, however
\* the size of that object is rounded: the stack may start at its very end.
HeapIsMapped == pc = "loaded" /\ FitsWord /\ img.esp <= img.objects[img.espObj].size =>
                   (stack.heapEnd - 1) \in DOMAIN mObjectMappings[img.espObj]

\* Whatever fails and however far load has come, the factory leaves no object mapped
\* and no file open, and the map of the file survives an error of the host never.
\* (It does survive an error of the loader: that handler frees nothing.)
FailureFreesImage ==
    /\ pc = "deleted" => mFile = "closed" /\ \A i \in DOMAIN mObjectMappings : ~Mapped(i)
    /\ pc \in {"deleted", "loaded"} => mem # "mapped"
    /\ mem = "leaked" => error \notin {"none", "IMG_OUT_OF_MEMORY", "IMG_INTERNAL_ERROR"}

\* A reference the loader follows that leads to no memory: of the entry point, the stack
\* or a fixup to an object that was discarded or is not there, of a fixup to a cell
\* outside its object, or of one to a page that the file does not have.
IsPlain(i)   == i \in DOMAIN img.objects /\ img.objects[i].flags = "plain"
BadReference ==
    \/ ~IsPlain(img.eipObj) \/ ~IsPlain(img.espObj)
    \/ \E i \in DOMAIN img.objects : \E k \in DOMAIN img.objects[i].fixups :
          \E n \in DOMAIN img.objects[i].fixups[k] :
             LET x == img.objects[i].fixups[k][n]
             IN \/ ~IsPlain(i) \/ ~IsPlain(x.target)
                \/ ~(Touched(k - 1, x) \subseteq 0..(img.objects[i].size - 1))
    \/ \E i \in DOMAIN mObjectMappings : Mapped(i) /\ \E c \in DOMAIN mObjectMappings[i] :
          mObjectMappings[i][c] = Gone

\* load touches memory that is not there or not the object's for no other reason than
\* such a reference, and no object is out of step with its place in the list.
CrashNeedsBadReference ==
    /\ pc \in {"crashed", "corrupted"} /\ FitsWord => BadReference
    /\ \A i \in DOMAIN mObjectMappings :
          pc # "deleted" => (Mapped(i) <=> img.objects[i].flags = "plain")
=============================================================================
