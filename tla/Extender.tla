------------------------------ MODULE Extender ------------------------------
(* What stands between the program and class DOS: the table of segment         *)
(* descriptors and the LDT behind it, the services of the DOS extender that    *)
(* are not passed on to DOS, and the DPMI host with its memory blocks.         *)
(*                                                                             *)
(* Memory is counted in cells, PageSize of them to a page and ParagraphSize to *)
(* the paragraphs of function 4Ah; Word is the modulus of uint32_t, and the    *)
(* limit of a segment is a field below LimitTop, in units or in LimitUnits.    *)
EXTENDS Integers, FiniteSets, FiniteSetsExt

CONSTANTS
    Word, PageSize, ParagraphSize,
    MaxMemory,      \* DPMI_MAX_MEMORY
    HeapEnd,        \* what Image::getHeapEnd returns
    LimitTop, LimitUnit,    \* 0x100000 and 4096
    EnvironmentSizes,       \* what getEnvironmentSize may return
    Foreign,        \* what an entry holds that the table has not set up
    Sizes,          \* the block sizes the program asks for
    Paragraphs,     \* the EBX it calls 4Ah with
    SpareEntries,   \* entries of the LDT that are free unless other code took them
    MaxBlocks       \* bound: blocks allocated

\* A word holds the bases and limits of the segments below.
ASSUME Numbers == /\ Word \in Nat /\ Word > 3 /\ PageSize \in Nat \ {0} /\ ParagraphSize \in Nat \ {0}
                  /\ MaxMemory \in 0..(Word - 1) /\ HeapEnd \in 0..(Word - 1)
                  /\ Sizes \subseteq 0..(Word - 1) /\ Paragraphs \subseteq Nat
                  /\ SpareEntries \subseteq Nat /\ MaxBlocks \in Nat
                  /\ LimitTop \in Nat \ {0} /\ LimitUnit \in Nat \ {0} /\ Word = LimitTop * LimitUnit
                  /\ EnvironmentSizes \subseteq 0..(Word - 1)

\* The selectors the host gives every process, code, data and thread, lie in the LDT.
OSCodeSel   == 23
OSDataSel   == 31
OSThreadSel == 39
UnknownSel  == 15      \* a selector no one has set up
OSSels == {OSCodeSel, OSDataSel, OSThreadSel}

\* Where the PSP and the environment lie, and the limit of the former.
PspBase == 1
EnvBase == 2
PspLimit == 2

\* Mutant: the index is not shifted.
SelectorUnshifted(index) == index + 7

Selector(index) == index * 8 + 7    \* table bit and privilege level 3
Entry(sel)      == sel \div 8

VARIABLES
    phase,           \* what ExecutionEnvironment and the program have come to
    ldt,             \* the entries of the LDT in use: index -> [base, limit, granular]
    mDesc,           \* selector -> Descriptor
    mPspSel, environmentSegment,
    mMemoryBlocks,   \* address -> size
    mAllocatedMemory,
    answer           \* the last service: its call, the argument, the carry flag, the results

vars == <<phase, ldt, mDesc, mPspSel, environmentSegment, mMemoryBlocks, mAllocatedMemory, answer>>
tables == <<ldt, mDesc, mPspSel, environmentSegment>>
memory == <<mMemoryBlocks, mAllocatedMemory>>

Descriptor(type, base, limit) == [type |-> type, base |-> base, limit |-> limit]
Put(f, k, v) == [x \in DOMAIN f \cup {k} |-> IF x = k THEN v ELSE f[x]]
Answer(call, arg, cf, v) == [call |-> call, arg |-> arg, cf |-> cf, value |-> v]

ERR_NO_PHYS_MEM      == 32787
ERR_INVALID_VALUE    == 32801
ERR_INVALID_SELECTOR == 32802

Init == /\ phase = "table"
        /\ \E taken \in SUBSET SpareEntries :
              ldt = [i \in {Entry(s) : s \in OSSels} \cup taken |-> Foreign]
        /\ mDesc = << >> /\ mPspSel = 0 /\ environmentSegment = 0
        /\ mMemoryBlocks = << >> /\ mAllocatedMemory = 0 /\ answer = Answer("none", 0, FALSE, 0)

-----------------------------------------------------------------------------
(* DescriptorTable. *)

\* Selector 0 and a selector that has a descriptor are refused.
Accepts(sel) == sel # 0 /\ sel \notin DOMAIN mDesc

\* Mutant: an empty FS gets a descriptor.
CreateTableWithNull ==
    /\ phase = "table"
    /\ \E fs \in OSSels \cup {0} :
          mDesc' = [s \in OSSels \cup {fs} |-> Descriptor("OS", 0, Word - 1)]
    /\ phase' = "psp"
    /\ UNCHANGED <<ldt, mPspSel, environmentSegment, memory, answer>>

\* The constructor takes over the host's six segment registers, of which several
\* hold the same selector, and FS may hold none.
CreateTable ==
    /\ phase = "table"
    /\ \E fs \in OSSels \cup {0} :
          mDesc' = [s \in (OSSels \cup {fs}) \ {0} |-> Descriptor("OS", 0, Word - 1)]
    /\ phase' = "psp"
    /\ UNCHANGED <<ldt, mPspSel, environmentSegment, memory, answer>>

FreeEntries == SpareEntries \ DOMAIN ldt

\* Mutant: the first limit that does not fit the field is not made granular.
SetDescLimitOff(base, limit) ==
    [base |-> base, limit |-> (IF limit > LimitTop THEN limit \div LimitUnit ELSE limit) % LimitTop,
     granular |-> limit > LimitTop]

\* A limit that does not fit the field is cut to units of LimitUnit.
SetDescLimit(base, limit) ==
    [base |-> base, limit |-> (IF limit >= LimitTop THEN limit \div LimitUnit ELSE limit) % LimitTop,
     granular |-> limit >= LimitTop]

\* The host sets up an entry of its choice and the table keeps its selector, if it can.
AllocLDTDesc(base, limit, sel) ==
    \E i \in FreeEntries :
       /\ ldt' = Put(ldt, i, SetDescLimit(base, limit))
       /\ IF Accepts(Selector(i))
          THEN mDesc' = Put(mDesc, Selector(i), Descriptor("LDT", base, limit)) /\ sel' = Selector(i)
          ELSE UNCHANGED mDesc /\ sel' = 0

AllocPspSel == /\ phase = "psp"
               /\ AllocLDTDesc(PspBase, PspLimit, mPspSel)
               /\ phase' = "environment"
               /\ UNCHANGED <<environmentSegment, memory, answer>>

AllocEnvironmentSel == /\ phase = "environment"
                       /\ \E size \in EnvironmentSizes : AllocLDTDesc(EnvBase, size, environmentSegment)
                       /\ phase' = "program"
                       /\ UNCHANGED <<mPspSel, memory, answer>>

\* The LDT has no room: an exception of the host ends the constructors and main.
NoEntry == /\ phase \in {"psp", "environment"}
           /\ FreeEntries = {}
           /\ phase' = "exited"
           /\ UNCHANGED <<tables, memory, answer>>

-----------------------------------------------------------------------------
(* INT 31h, the DPMI host. *)

Program == phase = "program"

Replies(call, arg, cf, v) == Program /\ answer' = Answer(call, arg, cf, v) /\ UNCHANGED phase

\* A selector the program may name: one of the table's, or any other.
NamedSels == DOMAIN mDesc \cup {0, UnknownSel}

GetSegmentBase == \E sel \in NamedSels :
    /\ \/ sel \in DOMAIN mDesc /\ Replies("base", sel, FALSE, mDesc[sel].base)
       \/ sel \notin DOMAIN mDesc /\ Replies("base", sel, TRUE, ERR_INVALID_SELECTOR)
    /\ UNCHANGED <<tables, memory>>

\* uint32_t: a difference below 0 wraps.
Minus(a, b) == IF a >= b THEN a - b ELSE (Word - b) + a

LargestFree == Minus(MaxMemory, mAllocatedMemory)
\* Mutant: bytes taken from pages.
FreePagesOfBytes == Minus(MaxMemory \div PageSize, mAllocatedMemory)

FreePages   == Minus(MaxMemory \div PageSize, mAllocatedMemory \div PageSize)

\* With an ES the table does not know nothing is written, and no error reported.
GetMemoryInfo == \E sel \in NamedSels :
    /\ \/ sel \in DOMAIN mDesc /\ Replies("info", FreePages, FALSE, LargestFree)
       \/ sel \notin DOMAIN mDesc /\ Replies("noInfo", 0, FALSE, 0)
    /\ UNCHANGED <<tables, memory>>

\* External: the host maps whole pages, at page boundaries, where nothing is mapped.
PagesOf(size) == (size + PageSize - 1) \div PageSize
Overlap(a, s, b, t) == a < b + PagesOf(t) * PageSize /\ b < a + PagesOf(s) * PageSize
FreeAddresses(size) ==
    {a \in {k * PageSize : k \in 1..(Word \div PageSize - 1)} :
        /\ a + PagesOf(size) * PageSize <= Word
        /\ \A b \in DOMAIN mMemoryBlocks : ~Overlap(a, size, b, mMemoryBlocks[b])}

\* Mutant: the pages are counted, not what was asked for.
AllocateCountsPages(size) == \E addr \in FreeAddresses(size) :
    /\ mMemoryBlocks' = Put(mMemoryBlocks, addr, size)
    /\ mAllocatedMemory' = (mAllocatedMemory + PagesOf(size) * PageSize) % Word
    /\ Replies("allocate", size, FALSE, addr)

AllocateMemory(size) == \E addr \in FreeAddresses(size) :
    /\ mMemoryBlocks' = Put(mMemoryBlocks, addr, size)
    /\ mAllocatedMemory' = (mAllocatedMemory + size) % Word
    /\ Replies("allocate", size, FALSE, addr)

\* Mutant: a size of 0 is not refused.
AllocateNothing == \E size \in Sizes :
    /\ Cardinality(DOMAIN mMemoryBlocks) < MaxBlocks
    /\ AllocateMemory(size)
    /\ UNCHANGED tables

Allocate == \E size \in Sizes :
    /\ size # 0 /\ Cardinality(DOMAIN mMemoryBlocks) < MaxBlocks
    /\ AllocateMemory(size)
    /\ UNCHANGED tables

RefuseAllocation == \E size \in Sizes :
    /\ Replies("allocate", size, TRUE, IF size = 0 THEN ERR_INVALID_VALUE ELSE ERR_NO_PHYS_MEM)
    /\ UNCHANGED <<tables, memory>>

-----------------------------------------------------------------------------
(* INT 21h, as far as the extender answers it. *)

\* ctx.getEBX() * 16 in uint32_t.
NewLimit(paragraphs) == (paragraphs * ParagraphSize) % Word

Grants(sel, paragraphs) == /\ sel \in DOMAIN mDesc /\ sel = OSDataSel
                           /\ NewLimit(paragraphs) <= HeapEnd

\* No descriptor changes: the data segment spans all memory anyway.
ResizeSegment == \E sel \in NamedSels, n \in Paragraphs :
    /\ Replies("resize", n, ~Grants(sel, n), 0)
    /\ UNCHANGED <<tables, memory>>

\* OS/386 and DOS/4GW services; of the latter only the version is known.
SegInfo == Replies("segInfo", 0, TRUE, 0) /\ UNCHANGED <<tables, memory>>

HandleDOS4GW == /\ \E known \in BOOLEAN : Replies("DOS4GW", 0, ~known, 0)
                /\ UNCHANGED <<tables, memory>>

-----------------------------------------------------------------------------
(* The end. *)

\* A DPMI function that does not exist ends the process by exit(2), and no destructor
\* of main runs; INT 21h/4Ch ends the program and main goes on.
Stop == Program /\ phase' = "stopped" /\ UNCHANGED <<tables, memory, answer>>
Exit == Program /\ phase' = "exited" /\ UNCHANGED <<tables, memory, answer>>

\* freeDesc names an entry by the selector itself, and not by its index: the entries of
\* the table stay in use, and other entries, if they were, do not.
Freed(sels) == ldt' = [i \in DOMAIN ldt \ sels |-> ldt[i]]

\* The destructors: DPMI unmaps its blocks, then the table frees its descriptors in the
\* order of their selectors, up to one that the host refuses. That is an exception out of
\* a destructor: main ends with it, or the run-time system ends the process.
Teardown ==
    /\ phase = "exited"
    /\ LET sels == {sel \in DOMAIN mDesc : mDesc[sel].type = "LDT"}
       IN  \/ phase' = "gone" /\ Freed(sels)
           \/ phase' = "refused" /\ \E refused \in sels : Freed({sel \in sels : sel < refused})
    /\ mDesc' = << >> /\ mMemoryBlocks' = << >> /\ mAllocatedMemory' = 0
    /\ UNCHANGED <<mPspSel, environmentSegment, answer>>

Next == \/ CreateTable \/ AllocPspSel \/ AllocEnvironmentSel \/ NoEntry
        \/ GetSegmentBase \/ GetMemoryInfo \/ Allocate \/ RefuseAllocation
        \/ ResizeSegment \/ SegInfo \/ HandleDOS4GW \/ Stop \/ Exit \/ Teardown

Spec == Init /\ [][Next]_vars

-----------------------------------------------------------------------------
(* Properties. *)

TypeOK == /\ phase \in {"table", "psp", "environment", "program", "stopped", "exited", "gone", "refused"}
          /\ DOMAIN ldt \subseteq SpareEntries \cup {Entry(s) : s \in OSSels}
          /\ 0 \notin DOMAIN mDesc
          /\ \A s \in DOMAIN mDesc : mDesc[s] \in [type : {"OS", "LDT"}, base : 0..(Word - 1), limit : 0..(Word - 1)]
          /\ phase \notin {"gone", "refused"} => {mPspSel, environmentSegment} \subseteq DOMAIN mDesc \cup {0}
          /\ \A a \in DOMAIN mMemoryBlocks : a \in 1..(Word - 1) /\ mMemoryBlocks[a] \in Sizes
          /\ mAllocatedMemory \in 0..(Word - 1)
          /\ answer.cf \in BOOLEAN

\* The last offset the processor lets the program use.
LastOffset(entry) == IF entry.granular THEN entry.limit * LimitUnit + LimitUnit - 1 ELSE entry.limit

\* The processor finds the segment the table has on record, which reaches as far as its
\* limit: exactly that far if the limit fits the field, less than a unit further if not.
Agrees(sel) ==
    /\ Entry(sel) \in DOMAIN ldt
    /\ ldt[Entry(sel)].base = mDesc[sel].base
    /\ LET last == LastOffset(ldt[Entry(sel)])  limit == mDesc[sel].limit
       IN  limit <= last /\ last < limit + LimitUnit /\ (limit < LimitTop => last = limit)

\* When the program starts, ES and the PSP name two different segments that are the
\* PSP and the environment, for function 0006h and, whatever their size, for the
\* processor. They are in entries of their own, none of the host's selectors has been
\* given another descriptor, and none of its entries is ever freed, not even by the
\* destructors, which free the wrong ones. What the host's own entries hold is not
\* compared with what the table says of them.
SelectorsResolve ==
    /\ \A s \in DOMAIN mDesc : mDesc[s].type = "LDT" => Agrees(s) /\ \A t \in OSSels : Entry(s) # Entry(t)
    /\ \A s \in OSSels : Entry(s) \in DOMAIN ldt
    /\ phase = "program" =>
          /\ mPspSel # environmentSegment
          /\ mPspSel # 0 /\ mDesc[mPspSel] = Descriptor("LDT", PspBase, PspLimit)
          /\ environmentSegment # 0
          /\ \E size \in EnvironmentSizes : mDesc[environmentSegment] = Descriptor("LDT", EnvBase, size)
          /\ \A s \in OSSels : mDesc[s] = Descriptor("OS", 0, Word - 1)

SumOfBlocks == MapThenSumSet(LAMBDA a : mMemoryBlocks[a], DOMAIN mMemoryBlocks)

\* mAllocatedMemory is what the blocks are together and never wraps, however many
\* the program allocates: the blocks have to fit the address space.
AllocatedIsSum == mAllocatedMemory = SumOfBlocks

\* What a step leaves of the blocks there are, and where it puts another.
BlocksAreKept ==
    \A a \in DOMAIN mMemoryBlocks :
       /\ a \in DOMAIN mMemoryBlocks' /\ mMemoryBlocks'[a] = mMemoryBlocks[a]
       /\ \A b \in DOMAIN mMemoryBlocks' \ {a} : ~Overlap(a, mMemoryBlocks[a], b, mMemoryBlocks'[b])

\* What the program was given stays its own: every block stays where it is, as large
\* as it is, over all later calls, and the next one is apart from it - until main's
\* destructors, when the program has ended.
BlocksStand == [][phase # "exited" => BlocksAreKept]_vars

\* As long as the program holds at most MaxMemory, function 0500h tells it in bytes
\* what is left of that, and in pages the same up to a page.
ReportAgrees == phase = "program" /\ answer.call = "info" /\ SumOfBlocks <= MaxMemory =>
                   /\ answer.value + SumOfBlocks = MaxMemory
                   /\ answer.arg * PageSize - answer.value \in -PageSize..PageSize

\* "we just report the maximum amount of memory as available" (DPMI.cpp:90), a maximum
\* the programs can handle: never is more reported.
ReportsAtMostMax == answer.call = "info" => answer.value <= MaxMemory
=============================================================================
