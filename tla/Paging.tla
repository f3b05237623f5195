------------------------------- MODULE Paging -------------------------------
(***************************************************************************)
(* Frames of memory, page tables and page directories, and what takes and  *)
(* gives back frames: the kernel heap, which also holds the tables, and    *)
(* the programs (kernel/memory/paging.c, the pmm_ half of phys_mem.c,      *)
(* elf32.c and _proc_new_elf_proc).  Addresses are page numbers; the       *)
(* inside of the heap is Heap's, here it is the pages that its blocks take.*)
(***************************************************************************)
EXTENDS Naturals, FiniteSets, SequencesExt

CONSTANTS
  Frames,       \* frames of memory (4096)
  PerTable,     \* entries of a page table (1024)
  Low,          \* pages of the first megabyte (256)
  HeapStart,    \* the first page of the kernel heap behind its index
  HeapInitial,  \* its pages at first
  HeapMin,      \* HEAP_MIN_SIZE in pages, of this heap and of a program's
  HeapMax,      \* its pages at most
  Images,       \* programs: the pages of each segment, in order
  UserStart,    \* the first page of the heap of a program, behind its index
  UserHeap,     \* the pages of a program's heap
  Blocks,       \* pages of other blocks of the kernel heap
  MaxDirs, MaxBlocks,   \* bounds
  None

(* A directory has its own two pages in the first megabyte, and programs   *)
(* lie behind that and below the kernel heap (userspace/link.ld:11,        *)
(* proc.c:127).                                                            *)
ASSUME PagingAssumption ==
  /\ {HeapStart, HeapInitial, HeapMin, HeapMax, UserStart, UserHeap} \subseteq Nat
  /\ Frames \in Nat /\ PerTable \in Nat \ {0} /\ Low \in 2 .. PerTable
  /\ HeapStart \div PerTable = (HeapStart + HeapMax - 1) \div PerTable
  /\ HeapStart \div PerTable > 0
  /\ HeapMin > 0 /\ HeapMin <= HeapInitial /\ HeapInitial <= HeapMax
  /\ Low + HeapInitial <= Frames
  /\ Low <= UserStart /\ UserStart + UserHeap <= HeapStart
  /\ Images \subseteq Seq(Seq(0 .. HeapStart - 1)) /\ Blocks \subseteq Nat \ {0}
  /\ None \notin Nat

VARIABLES
  marked,    \* _frame_idx: the frames in use
  tables,    \* page tables, as they were made: their entries and their page
  dirs,      \* page directories: tables, tablesPhysical, physicalAddr
  heap,      \* end_address of the kernel heap, and whether it has moved
  blocks,    \* the other blocks of the kernel heap
  halted     \* an assertion has failed, or nothing useful can follow

pagingVars == <<marked, tables, dirs, heap, blocks, halted>>

Now == [marked |-> marked, tables |-> tables, dirs |-> dirs, heap |-> heap,
        blocks |-> blocks, ok |-> TRUE]
Put(result) ==
  \E k \in {result} :
    /\ marked' = k.marked /\ tables' = k.tables /\ dirs' = k.dirs
    /\ heap' = k.heap /\ blocks' = k.blocks /\ halted' = ~k.ok
Stop(k) == [k EXCEPT !.ok = FALSE]

Index == 0 .. (HeapStart \div PerTable)     \* of the tables of a directory
TableOf(p) == p \div PerTable
Slot(p) == p % PerTable
NoPages == [s \in 0 .. PerTable - 1 |-> None]
Kernel == 1                                 \* _kpage_dir

(* vmm_get_page and vmm_get_phys_addr: the frame that a page is mapped to. *)
FrameIn(k, t, p) == IF t = 0 THEN None ELSE k.tables[t].pages[Slot(p)]
FrameAt(k, d, p) == FrameIn(k, k.dirs[d].tables[TableOf(p)], p)

-----------------------------------------------------------------------------
(* pmm_alloc_frame.  Frames are handed out beyond those that there are,    *)
(* because the size of the index in bytes is taken for its size in words   *)
(* (phys_mem.c:144, 174, 194); the marks overwrite what is behind the      *)
(* index, and what follows then is not followed here.                      *)
_first_unmarked(k) == Min((0 .. Frames) \ k.marked)
Present(k, t, s, f) ==
  IF f = Frames THEN Stop(k)
  ELSE [k EXCEPT !.marked = @ \cup {f}, !.tables[t].pages[s] = f]

(* vmm_map_page with a table; and vmm_unmap_page.  Faulty form: the frame  *)
(* is given back and the page stays.                                       *)
MapIn(k, d, p) ==
  IF ~k.ok THEN k
  ELSE IF FrameAt(k, d, p) # None THEN Stop(k)
  ELSE Present(k, k.dirs[d].tables[TableOf(p)], Slot(p), _first_unmarked(k))
UnmapKeepsPage(k, d, p) == [k EXCEPT !.marked = @ \ {FrameAt(k, d, p)}]
vmm_unmap_page(k, d, p) ==
  [k EXCEPT !.marked = @ \ {FrameAt(k, d, p)},
            !.tables[k.dirs[d].tables[TableOf(p)]].pages[Slot(p)] = None]
Unmapped(k, d, from, to) ==  \* the pages behind from, the last one first
  FoldLeft(LAMBDA x, i : vmm_unmap_page(x, d, to - i), k, [i \in 1 .. to - from |-> i - 1])

(* The kernel heap.  A block on a page boundary has its header on the page *)
(* before it and its footer on the page behind it, so that blocks of whole *)
(* pages do not touch.  It is put into the first room that is there.       *)
BlocksOf(k) ==
  {[at |-> k.dirs[d].at, n |-> 2] : d \in DOMAIN k.dirs}
    \cup {[at |-> k.tables[t].at, n |-> 1] : t \in DOMAIN k.tables}
    \cup k.blocks
Room(k, n) ==
  {at \in HeapStart + 1 .. k.heap.end - n - 1 :
     \A b \in BlocksOf(k) : at + n < b.at \/ b.at + b.n < at}

(* expand, by the size of the block and its header and footer: the end is  *)
(* not on a page boundary after it, nor after contract.  Once it has moved *)
(* no page can be mapped or unmapped there any more: vmm_map_page and      *)
(* vmm_unmap_page assert a boundary, or a page that is not mapped.         *)
expand(k, n) ==
  IF k.heap.moved \/ k.heap.end + n + 1 > HeapStart + HeapMax THEN Stop(k)
  ELSE FoldLeft(LAMBDA x, p : MapIn(x, Kernel, p),
                [k EXCEPT !.heap = [end |-> k.heap.end + n + 1, moved |-> TRUE]],
                [i \in 1 .. n + 1 |-> k.heap.end + i - 1])
Roomy(k, n) == IF Room(k, n) = {} THEN expand(k, n) ELSE k
Placed(k, n) == IF k.ok THEN [k |-> k, at |-> Min(Room(k, n))] ELSE [k |-> k, at |-> 0]
kmalloc_ap(k, n) == IF k.ok THEN Placed(Roomy(k, n), n) ELSE [k |-> k, at |-> 0]

(* contract, when the block that has been freed was the last one: to the   *)
(* page that the footer of the one before it is on, which is kept.  Faulty *)
(* form: to where the one before it starts.                                *)
LastStarts(k) == Max({b.at : b \in BlocksOf(k)} \cup {HeapStart + HeapMin}) - 1
LastUsed(k) == Max({b.at + b.n : b \in BlocksOf(k)} \cup {HeapStart + HeapMin})
ContractedTo(k, last) ==
  IF last + 1 >= k.heap.end THEN k
  ELSE IF k.heap.moved THEN Stop(k)
  ELSE [Unmapped(k, Kernel, last, k.heap.end - 1) EXCEPT !.heap = [end |-> last, moved |-> TRUE]]
Freed(k, at) ==
  IF \E b \in BlocksOf(k) : b.at > at THEN k ELSE ContractedTo(k, LastUsed(k))

-----------------------------------------------------------------------------
(* _create_page_table: tablesPhysical has the frame that the table is in.  *)
WithTable(r, d, i) ==
  IF ~r.k.ok THEN r.k
  ELSE [r.k EXCEPT
          !.tables = Append(@, [pages |-> NoPages, at |-> r.at]),
          !.dirs[d].tables[i] = Len(r.k.tables) + 1,
          !.dirs[d].phys[i] = FrameAt(r.k, Kernel, r.at)]
_create_page_table(k, d, p) ==
  IF k.dirs[d].tables[TableOf(p)] # 0 THEN k ELSE WithTable(kmalloc_ap(k, 1), d, TableOf(p))
vmm_map_page(k, d, p) == IF k.ok THEN MapIn(_create_page_table(k, d, p), d, p) ELSE k
vmm_map_pages(k, d, ps) == FoldLeft(LAMBDA x, p : vmm_map_page(x, d, p), k, ps)

(* vmm_clone_dir: the tables of the kernel, and none of its own.  The      *)
(* physical address of tablesPhysical, which is the second page, is taken  *)
(* to be behind that of the first.  Faulty form: the first megabyte alone. *)
DirWithoutHeap(k, at) ==
  [tables |-> [k.dirs[Kernel].tables EXCEPT ![TableOf(HeapStart)] = 0],
   phys |-> k.dirs[Kernel].phys, at |-> at, physicalAddr |-> FrameAt(k, Kernel, at) + 1]
Dir(k, at) ==
  [tables |-> k.dirs[Kernel].tables, phys |-> k.dirs[Kernel].phys, at |-> at,
   physicalAddr |-> FrameAt(k, Kernel, at) + 1]
Cloned(r) == IF r.k.ok THEN [r.k EXCEPT !.dirs = Append(@, Dir(r.k, r.at))] ELSE r.k
vmm_clone_dir(k) == Cloned(kmalloc_ap(k, 2))

(* vmm_switch_dir: with another address in CR3 the machine resets.         *)
RightlyPlaced(k, d) == k.dirs[d].physicalAddr = FrameAt(k, Kernel, k.dirs[d].at + 1)
vmm_switch_dir(k, d) == IF k.ok /\ ~RightlyPlaced(k, d) THEN Stop(k) ELSE k

(* vmm_destroy_dir, of the directory made last.                            *)
vmm_destroy_dir(k) ==
  IF ~k.ok THEN k
  ELSE Freed([k EXCEPT !.dirs = Front(@)], Last(k.dirs).at)

-----------------------------------------------------------------------------
(* After vmm_init: the frames of the first megabyte and of the heap, in    *)
(* order; the two tables and the directory were made before the heap and   *)
(* lie in the first megabyte.  The index of frames is not cleared: it is   *)
(* assumed to be.                                                          *)
KernelDir ==
  [tables |-> [i \in Index |-> CASE i = 0 -> 1 [] i = TableOf(HeapStart) -> 2 [] OTHER -> 0],
   phys |-> [i \in Index |-> IF i \in {0, TableOf(HeapStart)} THEN 0 ELSE None],
   at |-> 0, physicalAddr |-> 1]
PagingInit ==
  /\ marked = 0 .. Low + HeapInitial - 1
  /\ tables =
       <<[pages |-> [s \in 0 .. PerTable - 1 |-> IF s < Low THEN s ELSE None], at |-> 0],
         [pages |-> [s \in 0 .. PerTable - 1 |->
            LET i == s - Slot(HeapStart)
            IN  IF s \in Slot(HeapStart) .. Slot(HeapStart) + HeapInitial - 1
                THEN Low + i ELSE None], at |-> 0]>>
  /\ dirs = <<KernelDir>>
  /\ heap = [end |-> HeapStart + HeapInitial, moved |-> FALSE]
  /\ blocks = {} /\ halted = FALSE

(* Other blocks of the kernel heap come and go.                            *)
Taken(r, n) ==
  IF r.k.ok THEN [r.k EXCEPT !.blocks = @ \cup {[at |-> r.at, n |-> n]}] ELSE r.k
Kmalloc(n) ==
  /\ ~halted /\ Cardinality(blocks) < MaxBlocks
  /\ Put(Taken(kmalloc_ap(Now, n), n))
Kfree(b) ==
  /\ ~halted
  /\ Put(Freed([Now EXCEPT !.blocks = @ \ {b}], b.at))

(* _proc_new_elf_proc.  What is not a program is found out before any page *)
(* is mapped; two segments that share a page fail an assertion.  The       *)
(* program's symbols stay in the kernel heap.                              *)
Symbols(k) == Taken(kmalloc_ap(k, 1), 1)
HeapPages == [i \in 1 .. UserHeap |-> UserStart + i - 1]
elf_load_raw_image(k, image) == Symbols(vmm_map_pages(k, Len(k.dirs), FlattenSeq(image)))
Loaded(k, image) ==
  IF ~k.ok THEN k
  ELSE IF image = None THEN vmm_destroy_dir(k)
  ELSE vmm_map_pages(elf_load_raw_image(k, image), Len(k.dirs), HeapPages)
_proc_new_elf_proc(image) ==
  /\ ~halted /\ Len(dirs) < MaxDirs
  /\ \E k \in {vmm_clone_dir(Now)} : Put(Loaded(vmm_switch_dir(k, Len(k.dirs)), image))

(* A program's own heap is contracted when it frees what is last in it, to *)
(* some page; the second time fails like that of the kernel's.  Nothing is *)
(* given back when the program ends.                                       *)
UserEnd(d) == UserStart + Cardinality({p \in Range(HeapPages) : FrameAt(Now, d, p) # None})
UserFree(d) ==
  /\ ~halted
  /\ \E last \in UserStart + HeapMin .. UserEnd(d) - 2 :
       Put(IF UserEnd(d) = UserStart + UserHeap THEN Unmapped(Now, d, last, UserEnd(d) - 1)
           ELSE Stop(Now))

PagingNext ==
  \/ \E n \in Blocks : Kmalloc(n)
  \/ \E b \in blocks : Kfree(b)
  \/ \E image \in Images \cup {None} : _proc_new_elf_proc(image)
  \/ \E d \in DOMAIN dirs \ {Kernel} : UserFree(d)
PagingSpec == PagingInit /\ [][PagingNext]_pagingVars
-----------------------------------------------------------------------------
(* Entries of page tables that are mapped.                                 *)
FrameOf(e) == tables[e[1]].pages[e[2]]
Mapped == {e \in (DOMAIN tables) \X (0 .. PerTable - 1) : FrameOf(e) # None}

(* Two pages never share a frame, whichever table they are in, and exactly *)
(* the frames that are mapped are in use: what one heap gives back and     *)
(* another takes is given back once and taken once.                        *)
FramesOwned ==
  /\ marked = {FrameOf(e) : e \in Mapped}
  /\ \A e, f \in Mapped : e # f => FrameOf(e) # FrameOf(f)

(* Every directory has the kernel's own tables, so that what the heap maps *)
(* and unmaps in a system call of one process holds in all of them.        *)
KernelShared ==
  \A d \in DOMAIN dirs, i \in {0, TableOf(HeapStart)} :
    dirs[d].tables[i] = dirs[Kernel].tables[i] /\ dirs[d].phys[i] = dirs[Kernel].phys[i]

(* The addresses that the processor walks are those of the tables that the *)
(* kernel changes, as long as the heap does not lose the pages they lie in.*)
(* The directory's own address is right in the pages that the heap had at  *)
(* first; in those it grows by, frames need not follow each other.         *)
TablesReachMmu ==
  \A d \in DOMAIN dirs :
    /\ \A i \in Index : dirs[d].tables[i] # 0 =>
         dirs[d].phys[i] = FrameAt(Now, Kernel, tables[dirs[d].tables[i]].at)
    /\ dirs[d].at + 1 < HeapStart + HeapInitial => RightlyPlaced(Now, d)
=============================================================================
