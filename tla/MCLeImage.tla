------------------------------ MODULE MCLeImage ------------------------------
(* Files for the loader: pages of two cells, one to three objects. *)
EXTENDS LeImage

\* An entry of the page table: of a page in the first 16, which needs one field only; of
\* one whose fields both count in full; and of one whose high field counts sixteen-fold.
Page(n)         == [type |-> "normal", high |-> 0, low |-> n, number |-> n]
InFull(hi, lo)  == [type |-> "normal", high |-> hi, low |-> lo, number |-> hi + lo]
Sixteens(hi, lo) == [type |-> "normal", high |-> hi, low |-> lo, number |-> 16 * hi + lo]

Pages(first, n) == [k \in 1..n |-> Page(first + k - 1)]
Numbered(ns)    == [k \in DOMAIN ns |-> Page(ns[k])]
NoFixups(pages) == [k \in DOMAIN pages |-> << >>]

Fixup(source, at, target, off) ==
    [source |-> source, at |-> at, target |-> target, off |-> off, supported |-> TRUE]

Obj(flags, size, pages, fixups) ==
    [flags |-> flags, size |-> size, pages |-> pages, fixups |-> fixups]

Plain(size, pages) == Obj("plain", size, pages, NoFixups(pages))

Image(objects, data, espObj, esp) ==
    [cut |-> "whole", faults |-> {}, length |-> 900, data |-> data, eipObj |-> 1, espObj |-> espObj,
     esp |-> esp, objects |-> objects]

\* Code of three pages with a fixup inside a page, one across two pages that is in
\* both lists, and a far pointer; the target is the second object.
Code == Obj("plain", 6, Pages(2, 3),
            << <<Fixup("off16", 0, 2, 1), Fixup("off32", 1, 2, 3)>>,
               <<Fixup("off32", -1, 2, 3)>>,
               <<Fixup("ignored", 0, 1, 0)>> >>)
FarCode == Obj("plain", 4, Pages(1, 2), << <<Fixup("far32", 0, 1, 2)>>, <<Fixup("far32", -2, 1, 2)>> >>)

\* Every size of data and bss around a page boundary, aligned in the file or not, with
\* the stack at any place in it.
DataImages == {Image(<<Code, Plain(size, Pages(5, n))>>, data, 2, esp) :
                  size \in 1..5, n \in 0..2, data \in {2, 3}, esp \in 0..5}

\* A last page of which the object has a part.
Partial == {Image(<<Plain(size, Pages(1, 2)), Plain(2, << >>)>>, data, 2, 1) : size \in 3..4, data \in {2, 3}}

\* A file that ends within the last page of an object, before it, or before them all.
Short == {[Image(<<Code, Plain(4, Pages(5, 2)), Plain(1, << >>)>>, data, 3, 1) EXCEPT !.length = l] :
             data \in {2, 3}, l \in {0} \cup 9..16}

\* Entries that use both fields, read either way.
BothFields == {Image(<<Plain(4, <<InFull(4, 1), InFull(4, 2)>>), Plain(2, <<InFull(1, 15)>>)>>, 2, 2, 1),
               Image(<<Plain(4, <<Sixteens(0, 15), Sixteens(1, 0)>>), Plain(2, << >>)>>, 2, 2, 1),
               Image(<<Plain(4, <<Sixteens(2, 1), Sixteens(2, 2)>>), Plain(2, << >>)>>, 2, 2, 1)}

StackFirst == {Image(<<FarCode, Plain(3, << >>), Plain(2, Pages(3, 1))>>, 2, e, 1) : e \in 1..3}

\* Objects without memory: as data, as target of a fixup, as stack, with fixups.
Discarded == Obj("discard", 2, Pages(9, 1), NoFixups(Pages(9, 1)))
DiscardImages ==
    {Image(<<FarCode, Discarded, Plain(2, Pages(3, 1))>>, 2, e, 1) : e \in 1..3}
    \cup {Image(<<Code, Discarded>>, 2, 1, 1),
          Image(<<Plain(2, Pages(1, 1)),
                  Obj("discard", 2, Pages(2, 1), << <<Fixup("off16", 0, 1, 0)>> >>)>>, 2, 1, 1)}

\* References to objects that are not there, and fixups outside their object.
NoObject == {[Image(<<FarCode, Plain(2, Pages(3, 1))>>, 2, e, 1) EXCEPT !.eipObj = c] : e, c \in 0..3}
            \cup {[Image(<<Plain(2, Pages(1, 1)), Discarded>>, 2, e, 1) EXCEPT !.eipObj = c] :
                     e, c \in 1..3}
            \cup {Image(<<Obj("plain", 3, Pages(1, 2), << << >>, <<Fixup(s, at, t, 1)>> >>)>>, 2, 1, 1) :
                     s \in SourceTypes, at \in {-3, -2, 1, 2, 3, 4}, t \in 0..2}

\* Files load has to refuse.
Bad == LET good == Image(<<Code, Plain(3, Pages(5, 1))>>, 2, 2, 3)
           other == [Page(2) EXCEPT !.type = "other"]
       IN {[good EXCEPT !.cut = c] : c \in {"header", "tables", "pageTable", "fixupTable", "records"}}
          \cup {[good EXCEPT !.faults = {a, b}] :
                  a, b \in {HeaderChecks[i][1] : i \in DOMAIN HeaderChecks}}
          \cup {Image(<<Code, Obj("unsupported", 2, << >>, << >>)>>, 2, 1, 1),
                Image(<<Plain(4, <<Pages(1, 1)[1], other>>)>>, 2, 1, 1),
                Image(<<Obj("plain", 2, Pages(1, 1), << <<[Fixup("off32", 0, 1, 0) EXCEPT !.supported = FALSE]>> >>)>>, 2, 1, 1),
                Image(<<Obj("plain", 2, Pages(1, 1), << <<Fixup("off16", 1, 1, 0), Fixup("unknown", 0, 1, 0)>> >>)>>, 2, 1, 1)}

\* Pages out of order or with gaps between them.
Scattered == {Image(<<Plain(4, Numbered(ns)), Plain(1, << >>)>>, 2, 2, 1) : ns \in {<<1, 3>>, <<2, 1>>}}
             \cup {Image(<<Plain(8, Numbered(ns)), Plain(1, << >>)>>, data, 2, 1) : data \in {2, 3},
                      ns \in {<<1, 2, 4, 5>>, <<1, 3, 5, 9>>}}

\* Sizes and offsets that wrap: an object of nearly a word, alone and as stack, and pages
\* across the end of the offsets.
Wrapping == {Image(<<Plain(999, Pages(1, 1)), Plain(1, << >>)>>, 2, esp, 1) : esp \in 1..2}
            \cup {Image(<<Plain(4, Pages(499, 3)), Plain(1, << >>)>>, 2, 2, 1)}

MCLinked == DataImages \cup Partial \cup Short \cup BothFields \cup StackFirst \cup DiscardImages
            \cup NoObject \cup Bad
MCAll    == MCLinked \cup Scattered \cup Wrapping
=============================================================================
