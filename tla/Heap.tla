-------------------------------- MODULE Heap --------------------------------
(***************************************************************************)
(* The kernel heap, kernel/memory/kheap.c with ordered_array.c: blocks and *)
(* holes between headers and footers that are found through their magic    *)
(* numbers, and an index of the holes.  Addresses are counted from the     *)
(* start of the heap; sizes are those of the code.                         *)
(***************************************************************************)
EXTENDS Integers, FiniteSets, SequencesExt

CONSTANTS
  Requests,      \* [size, align] of the calls of kmalloc and kmalloc_a
  MaxBlocks,     \* bound: blocks allocated at a time
  EndAddress,    \* end_address at first (0x80000)
  MaxAddress,    \* max_address (0x180000)
  MinSize,       \* HEAP_MIN_SIZE (0x70000)
  Page           \* 0x1000

HeaderSize == 12
FooterSize == 8
Overhead == HeaderSize + FooterSize

VARIABLES
  mem,      \* what has a magic number in memory: address -> header or footer
  index,    \* the ordered array of holes: addresses of their headers
  end,      \* end_address
  mapped,   \* the pages of the heap are mapped up to this address
  blocks,   \* history: address of the header of a block -> the request
  halted    \* an assertion has failed, or a page fault has stopped the kernel

heapVars == <<mem, index, end, mapped, blocks, halted>>

(* The heap as it is passed from call to call.                             *)
Now == [mem |-> mem, index |-> index, end |-> end, mapped |-> mapped, ok |-> TRUE]
Put(h) ==
  /\ mem' = h.mem /\ index' = h.index /\ end' = h.end /\ mapped' = h.mapped
  /\ halted' = ~h.ok

Header(hole, size) == [magic |-> "header", hole |-> hole, size |-> size]
Footer(header) == [magic |-> "footer", header |-> header]
WidthOf(tag) == IF tag.magic = "header" THEN HeaderSize ELSE FooterSize

(* Writing a header or a footer destroys those that it overlaps.           *)
Write(h, a, tag) ==
  LET kept == {b \in DOMAIN h.mem : b + WidthOf(h.mem[b]) <= a \/ a + WidthOf(tag) <= b}
  IN  [h EXCEPT !.mem = [b \in kept \cup {a} |-> IF b = a THEN tag ELSE h.mem[b]]]
Has(h, a, magic) == a \in DOMAIN h.mem /\ h.mem[a].magic = magic
IsHole(h, a) == Has(h, a, "header") /\ h.mem[a].hole
(* A size that has been written over reads as 0 here.                      *)
SizeOf(h, a) == IF Has(h, a, "header") THEN h.mem[a].size ELSE 0

(* insert_ordered_array and remove_ordered_array, with the search for the  *)
(* header before it: what is not in the index fails an assertion.          *)
Insert(h, a) ==
  LET after == {j \in 1 .. Len(h.index) : SizeOf(h, h.index[j]) >= SizeOf(h, a)}
  IN  [h EXCEPT !.index = InsertAt(@, Min(after \cup {Len(h.index) + 1}), a)]
RemoveHole(h, a) ==
  IF \E j \in 1 .. Len(h.index) : h.index[j] = a
  THEN [h EXCEPT !.index = RemoveAt(@, Min({j \in 1 .. Len(h.index) : h.index[j] = a}))]
  ELSE [h EXCEPT !.ok = FALSE]

(* heap_create: one hole, which has no footer yet.                         *)
HeapInit ==
  /\ mem = [a \in {0} |-> Header(TRUE, EndAddress)]
  /\ index = <<0>>
  /\ end = EndAddress /\ mapped = EndAddress
  /\ blocks = [a \in {} |-> 0]
  /\ halted = FALSE

-----------------------------------------------------------------------------
(* expand and contract round up odd sizes only (kheap.c:81, 115).          *)
Rounded(n) == IF n % 2 # 0 THEN (n \div Page) * Page + Page ELSE n

(* expand asserts its limit, and vmm_map_page that it is given a page, and *)
(* one that is not mapped yet.                                             *)
ExpandedTo(h, to) ==
  IF to > MaxAddress \/ h.end % Page # 0 \/ h.mapped > h.end
  THEN [h EXCEPT !.ok = FALSE]
  ELSE [h EXCEPT !.end = to, !.mapped = ((to + Page - 1) \div Page) * Page]
expand(h, size) == ExpandedTo(h, Rounded(size))

(* contract keeps the page that it stops at.                               *)
KeptPage(h, to) ==
  LET kept == Min({k \in 1 .. h.end \div Page : h.end - k * Page <= to})
  IN  IF kept = 1 THEN h.mapped ELSE h.end - (kept - 1) * Page
Unmapped(h, top) ==
  [h EXCEPT !.mapped = top, !.mem = [a \in {b \in DOMAIN h.mem : b < top} |-> h.mem[a]]]
ContractedTo(h, to) == [Unmapped(h, KeptPage(h, to)) EXCEPT !.end = to]
contract(h, size) == ContractedTo(h, Max({MinSize, Rounded(size)}))

(* find_smallest_hole: the first of the index that is large enough, for a  *)
(* page from the next boundary behind its header on.                       *)
Ahead(a) == (Page - ((a + HeaderSize) % Page)) % Page
Holes(h, r) ==
  {j \in 1 .. Len(h.index) :
     SizeOf(h, h.index[j]) >= r.size + Overhead + (IF r.align THEN Ahead(h.index[j]) ELSE 0)}

(* The heap grows behind the hole with the highest address, wherever that  *)
(* is.                                                                     *)
WithHole(h, a, size) ==
  Write(Write(h, a, Header(TRUE, size)), a + size - FooterSize, Footer(a))
GrownBy(h, x) ==
  IF ~x.ok THEN x
  ELSE IF h.index = <<>> THEN Insert(WithHole(x, h.end, x.end - h.end), h.end)
  ELSE LET top == Max(Range(h.index)) IN WithHole(x, top, SizeOf(h, top) + x.end - h.end)
Grown(h, r) == GrownBy(h, expand(h, h.end + r.size + Overhead))

(* heap_alloc from the hole a.  What is left is a hole of its own, unless  *)
(* it is too small for one; a page gets a hole in front, which stays where *)
(* it is in the index.  A negative size is a very large one.               *)
Unsigned(n) == IF n < 0 THEN 2 * MaxAddress ELSE n
Aligns(r, a) == r.align /\ a % Page # 0
FrontOf(r, a) == IF Aligns(r, a) THEN Page - (a % Page) - HeaderSize ELSE 0
SizeCut(h, r, a) ==
  IF SizeOf(h, a) - (r.size + Overhead) < Overhead THEN SizeOf(h, a) ELSE r.size + Overhead
InFront(h, r, a) ==
  IF Aligns(r, a) THEN WithHole(h, a, FrontOf(r, a)) ELSE RemoveHole(h, a)
Block(h, at, size) ==
  Write(Write(h, at, Header(FALSE, size)), at + size - FooterSize, Footer(at))
FooterBefore(h, a, to) ==
  IF to < h.end THEN Write(h, to, Footer(a)) ELSE h
Rest(h, a, rest) ==
  IF rest = 0 THEN h
  ELSE Insert(FooterBefore(Write(h, a, Header(TRUE, rest)), a, a + rest - FooterSize), a)
Cut(h, r, a, at, size) ==
  Rest(Block(InFront(h, r, a), at, size), at + size,
       Unsigned(SizeOf(h, a) - (at - a) - size))

(* Bound: a hole in front that cannot hold a header and a footer, or that  *)
(* is cut off a block which takes the whole of the hole, destroys what is  *)
(* around it and is not followed further.                                  *)
FrontFits(h, r, a) ==
  (r.align /\ a % Page # 0) =>
     /\ (a % Page) + HeaderSize + Overhead <= Page
     /\ SizeOf(h, a) - (r.size + Overhead) >= Overhead

(* heap_alloc, which calls itself when the heap has grown.                 *)
Halt == halted' = TRUE /\ UNCHANGED <<mem, index, end, mapped, blocks>>
Allocated(h, r, a, at) ==
  /\ FrontFits(h, r, a)
  /\ Put(Cut(h, r, a, at, SizeCut(h, r, a)))
  /\ blocks' = [b \in DOMAIN blocks \cup {at} |-> IF b = at THEN r ELSE blocks[b]]
kmalloc(r) ==
  /\ ~halted /\ Cardinality(DOMAIN blocks) < MaxBlocks
  /\ \E h \in {IF Holes(Now, r) = {} THEN Grown(Now, r) ELSE Now} :
       IF ~h.ok \/ Holes(h, r) = {} THEN Halt
       ELSE \E a \in {h.index[Min(Holes(h, r))]} : Allocated(h, r, a, a + FrontOf(r, a))

-----------------------------------------------------------------------------
(* heap_free in its four parts.  x is what it keeps: the heap h, header,   *)
(* footer and do_add.                                                      *)
(* Unify left: with the header that the footer in front names; what has    *)
(* been written over is not taken for a hole's.                            *)
LeftOf(x) == x.h.mem[x.header - FooterSize].header
JoinLeft(x, left, size) ==
  [x EXCEPT !.h = Write(Write(@, left, Header(TRUE, size)), x.footer, Footer(left)),
            !.header = left, !.add = FALSE]
UnifiedLeft(x) ==
  IF Has(x.h, x.header - FooterSize, "footer") /\ IsHole(x.h, LeftOf(x))
  THEN JoinLeft(x, LeftOf(x), SizeOf(x.h, LeftOf(x)) + SizeOf(x.h, x.header))
  ELSE x

(* Unify right: the hole behind leaves the index.  Its footer is looked up *)
(* and not written, though a comment says so.                              *)
Behind(x) == x.footer + FooterSize
JoinRight(x, right, size) ==
  [x EXCEPT !.h = RemoveHole(Write(@, x.header, Header(TRUE, SizeOf(@, x.header) + size)), right),
            !.footer = right + size - FooterSize]
UnifiedRight(x) ==
  IF Behind(x) >= x.h.mapped THEN [x EXCEPT !.h.ok = FALSE]
  ELSE IF IsHole(x.h, Behind(x)) THEN JoinRight(x, Behind(x), SizeOf(x.h, Behind(x))) ELSE x

(* At the end of the heap it is contracted.  A hole of which nothing is    *)
(* left keeps its header: the search is for another one.                   *)
Shortened(x, h, size) ==
  IF size = 0 THEN [x EXCEPT !.h = h] ELSE [x EXCEPT !.h = WithHole(h, x.header, size)]
ShortenedTo(x, h) == Shortened(x, h, SizeOf(x.h, x.header) - (x.h.end - h.end))
AtEnd(x) ==
  IF ~x.h.ok \/ Behind(x) # x.h.end THEN x ELSE ShortenedTo(x, contract(x.h, x.header))
Added(x) == IF x.add /\ x.h.ok THEN Insert(x.h, x.header) ELSE x.h

Hole(h, a) ==
  [h |-> Write(h, a, Header(TRUE, SizeOf(h, a))), header |-> a,
   footer |-> a + SizeOf(h, a) - FooterSize, add |-> TRUE]
heap_free(h, a) == Added(AtEnd(UnifiedRight(UnifiedLeft(Hole(h, a)))))
kfree(a) ==
  /\ ~halted
  /\ blocks' = [b \in DOMAIN blocks \ {a} |-> blocks[b]]
  /\ IF Has(Now, a, "header") /\ Has(Now, a + SizeOf(Now, a) - FooterSize, "footer")
     THEN \E h \in {heap_free(Now, a)} : Put(h)
     ELSE halted' = TRUE /\ UNCHANGED <<mem, index, end, mapped>>

HeapNext ==
  \/ \E r \in Requests : kmalloc(r)
  \/ \E a \in DOMAIN blocks : kfree(a)
HeapSpec == HeapInit /\ [][HeapNext]_heapVars
-----------------------------------------------------------------------------
(* Memory that is in use is not handed out again (kheap.h:54).          *)
BlocksApart ==
  ~halted => \A a, b \in DOMAIN blocks : a < b => a + blocks[a].size + Overhead <= b
=============================================================================
