---------------------------- MODULE PagingProof ----------------------------
(***************************************************************************)
(* Proofs about Paging, for every amount of memory, size of the tables and *)
(* of the heaps, and all programs that lie below the kernel heap.          *)
(***************************************************************************)
EXTENDS Paging, Induction, SequenceTheorems

Slots == 0 .. PerTable - 1
HeapTable == TableOf(HeapStart)
HeapRange == HeapStart .. HeapStart + HeapMax - 1

Table == [pages : [Slots -> Nat \cup {None}], at : Nat]
Directory ==
  [tables : [Index -> Nat], phys : [Index -> Nat \cup {None}], at : Nat, physicalAddr : Nat]
State ==
  [marked : SUBSET (0 .. Frames - 1), tables : Seq(Table), dirs : Seq(Directory),
   heap : [end : Nat, moved : BOOLEAN], blocks : SUBSET [at : Nat, n : Nat \ {0}],
   ok : BOOLEAN]

-----------------------------------------------------------------------------
(* The inductive invariant, of any state that an operation is in.  The     *)
(* frames that are mapped are the ones in use, and each is mapped once.    *)
Owned(k) ==
  /\ \A t \in DOMAIN k.tables, s \in Slots :
       k.tables[t].pages[s] # None => k.tables[t].pages[s] \in k.marked
  /\ \A f \in k.marked :
       \E t \in DOMAIN k.tables, s \in Slots : k.tables[t].pages[s] = f
  /\ \A t, u \in DOMAIN k.tables, s, v \in Slots :
       k.tables[t].pages[s] # None /\ k.tables[t].pages[s] = k.tables[u].pages[v]
         => t = u /\ s = v

(* Table 1 is that of the first megabyte and table 2 that of the kernel    *)
(* heap, in every directory and nowhere else.                              *)
Shared(k) ==
  /\ Kernel \in DOMAIN k.dirs /\ {1, 2} \subseteq DOMAIN k.tables
  /\ \A d \in DOMAIN k.dirs :
       /\ \A i \in Index : /\ k.dirs[d].tables[i] \in 0 .. Len(k.tables)
                           /\ k.dirs[d].tables[i] = 1 <=> i = 0
                           /\ k.dirs[d].tables[i] = 2 <=> i = HeapTable
       /\ k.dirs[d].phys[0] = 0 /\ k.dirs[d].phys[HeapTable] = 0

(* The frame of a page of the kernel, below PerTable or in its heap.       *)
KernelPage(k, p) ==
  IF p < PerTable THEN k.tables[1].pages[p] ELSE k.tables[2].pages[Slot(p)]

(* The pages that never lose their frames, and those that the heap had at  *)
(* first, which can, but get no others.                                    *)
Fixed(k) ==
  /\ k.tables[1].pages[0] = 0 /\ k.tables[1].pages[1] = 1
  /\ \A p \in HeapStart .. HeapStart + HeapInitial - 1 :
       KernelPage(k, p) \in {None, Low + (p - HeapStart)}

(* Blocks are the directory and the tables made at first, or lie in the    *)
(* heap.                                                                   *)
Lies(k, at, n) == at = 0 \/ (HeapStart < at /\ at + n <= k.heap.end)
Within(k) ==
  /\ k.heap.end <= HeapStart + HeapMax
  /\ \A d \in DOMAIN k.dirs : Lies(k, k.dirs[d].at, 2)
  /\ \A t \in DOMAIN k.tables : Lies(k, k.tables[t].at, 1)
  /\ \A b \in k.blocks : b.at # 0 /\ Lies(k, b.at, b.n)

Reached(k) ==
  \A d \in DOMAIN k.dirs :
    /\ \A i \in Index : k.dirs[d].tables[i] # 0 =>
         /\ k.dirs[d].phys[i] # None
         /\ k.dirs[d].phys[i] = KernelPage(k, k.tables[k.dirs[d].tables[i]].at)
    /\ k.dirs[d].at + 1 < HeapStart + HeapInitial =>
         k.dirs[d].physicalAddr = KernelPage(k, k.dirs[d].at + 1)

Kept(k) == k \in State /\ Owned(k) /\ Shared(k) /\ Fixed(k) /\ Within(k) /\ Reached(k)

(* Between operations, as long as nothing has failed: the heap has all its *)
(* pages, and as long as it has not moved every block has a footer in it.  *)
HeapOk(k) ==
  /\ \A p \in HeapStart .. k.heap.end - 1 : KernelPage(k, p) # None
  /\ HeapStart + HeapMin <= k.heap.end
  /\ ~k.heap.moved =>
       /\ k.heap.end = HeapStart + HeapInitial
       /\ \A b \in BlocksOf(k) : b.at + b.n < k.heap.end
Sound(k) == Kept(k) /\ (k.ok => HeapOk(k))
Inv == Kept(Now) /\ (~halted => HeapOk(Now)) /\ halted \in BOOLEAN

-----------------------------------------------------------------------------
LEMMA Bounds ==
  /\ HeapStart \in Nat /\ HeapInitial \in Nat /\ HeapMin \in Nat /\ HeapMax \in Nat
  /\ UserStart \in Nat /\ UserHeap \in Nat /\ Frames \in Nat /\ Low \in Nat /\ Low >= 2
  /\ PerTable \in Nat /\ PerTable > 0 /\ Low <= PerTable
  /\ HeapMin > 0 /\ HeapMin <= HeapInitial /\ HeapInitial <= HeapMax
  /\ Low + HeapInitial <= Frames
  /\ Low <= UserStart /\ UserStart + UserHeap <= HeapStart /\ None \notin Nat
  BY PagingAssumption

(* The table and the place in it of a page: the page is where both say.    *)
LEMMA PageIsThere ==
  ASSUME NEW p \in Nat
  PROVE  /\ TableOf(p) \in Nat /\ Slot(p) \in Slots
         /\ p = PerTable * TableOf(p) + Slot(p)
<1>1. PerTable \in Nat /\ PerTable > 0
  BY Bounds
<1>2. /\ p \div PerTable \in Int /\ p % PerTable \in 0 .. PerTable - 1
      /\ p = PerTable * (p \div PerTable) + (p % PerTable)
  BY <1>1
<1>3. p \div PerTable >= 0
  <2>1. SUFFICES ASSUME p \div PerTable <= -1 PROVE FALSE
    BY <1>2
  <2>2. PerTable * (p \div PerTable) <= PerTable * (-1)
    BY <1>1, <1>2, <2>1
  <2> QED
    BY <1>1, <1>2, <2>2
<1> QED
  BY <1>2, <1>3 DEF TableOf, Slot, Slots

LEMMA TablesInOrder ==
  ASSUME NEW p \in Nat, NEW q \in Nat, p <= q
  PROVE  TableOf(p) <= TableOf(q)
<1> DEFINE a == TableOf(p)
           b == TableOf(q)
<1>1. /\ a \in Nat /\ b \in Nat /\ PerTable \in Nat /\ PerTable > 0
      /\ PerTable * a <= p /\ q < PerTable * b + PerTable
  <2>1. /\ a \in Nat /\ b \in Nat /\ Slot(p) \in Slots /\ Slot(q) \in Slots
        /\ p = PerTable * a + Slot(p) /\ q = PerTable * b + Slot(q)
    BY PageIsThere
  <2> HIDE DEF a, b
  <2>2. PerTable * a \in Int /\ PerTable * b \in Int /\ PerTable \in Nat /\ PerTable > 0
    BY <2>1, Bounds
  <2>3. Slot(p) >= 0 /\ Slot(q) < PerTable /\ Slot(p) \in Int /\ Slot(q) \in Int
    BY <2>1, <2>2 DEF Slots
  <2> QED
    BY <2>1, <2>2, <2>3
<1> HIDE DEF a, b
<1>2. SUFFICES ASSUME a >= b + 1 PROVE FALSE
  BY <1>1 DEF a, b
<1>3. PerTable * a >= PerTable * (b + 1)
  BY <1>1, <1>2
<1>4. PerTable * (b + 1) = PerTable * b + PerTable
  BY <1>1
<1> QED
  BY <1>1, <1>3, <1>4

(* The pages of the kernel heap are all in its table, in places of their   *)
(* own; no page below them has one of those.                               *)
LEMMA HeapPagesApart ==
  /\ HeapTable \in Nat /\ HeapTable > 0 /\ HeapTable \in Index /\ 0 \in Index /\ HeapStart >= PerTable
  /\ \A p \in HeapRange : /\ p \in Nat /\ TableOf(p) = HeapTable /\ Slot(p) \in Slots
                          /\ p >= PerTable
  /\ \A p, q \in HeapRange : Slot(p) = Slot(q) => p = q
  /\ \A p \in 0 .. HeapStart - 1 : /\ TableOf(p) \in Index /\ Slot(p) \in Slots
                                   /\ TableOf(p) = 0 => Slot(p) = p /\ p < PerTable
                                   /\ TableOf(p) = HeapTable =>
                                        \A q \in HeapRange : Slot(p) # Slot(q)
<1>1. HeapTable \in Nat /\ HeapTable > 0 /\ HeapStart \in Nat /\ PerTable \in Nat /\ PerTable > 0
  BY Bounds, PageIsThere, PagingAssumption DEF HeapTable, TableOf
<1>2. HeapTable \in Index /\ 0 \in Index /\ Index = 0 .. HeapTable
  BY <1>1 DEF Index, HeapTable, TableOf
<1>3. HeapStart >= PerTable
  <2>1. PerTable * HeapTable >= PerTable * 1
    BY <1>1
  <2>2. HeapStart >= PerTable * HeapTable
    BY <1>1, PageIsThere DEF HeapTable, Slots
  <2> QED
    BY <1>1, <2>1, <2>2
<1>4. ASSUME NEW p \in HeapRange
      PROVE  p \in Nat /\ TableOf(p) = HeapTable /\ Slot(p) \in Slots /\ p >= PerTable
  <2>1. p \in Nat /\ HeapStart + HeapMax - 1 \in Nat /\ HeapStart <= p /\ p <= HeapStart + HeapMax - 1
    BY Bounds DEF HeapRange
  <2>2. TableOf(HeapStart + HeapMax - 1) = HeapTable
    BY PagingAssumption DEF TableOf, HeapTable
  <2>3. HeapTable <= TableOf(p) /\ TableOf(p) <= TableOf(HeapStart + HeapMax - 1)
    BY <1>1, <2>1, TablesInOrder DEF HeapTable
  <2>4. TableOf(p) \in Nat /\ Slot(p) \in Slots
    BY <2>1, PageIsThere
  <2> QED
    BY <1>1, <1>3, <2>1, <2>2, <2>3, <2>4
<1>5. ASSUME NEW p \in HeapRange, NEW q \in HeapRange, Slot(p) = Slot(q) PROVE p = q
  <2>1. p = PerTable * HeapTable + Slot(p) /\ q = PerTable * HeapTable + Slot(q)
    BY <1>4, PageIsThere
  <2> QED
    BY <1>5, <2>1
<1>6. ASSUME NEW p \in 0 .. HeapStart - 1
      PROVE  /\ TableOf(p) \in Index /\ Slot(p) \in Slots
             /\ TableOf(p) = 0 => Slot(p) = p /\ p < PerTable
             /\ TableOf(p) = HeapTable => \A q \in HeapRange : Slot(p) # Slot(q)
  <2>1. p \in Nat /\ p < HeapStart
    BY <1>1
  <2>2. TableOf(p) \in Nat /\ Slot(p) \in Slots /\ p = PerTable * TableOf(p) + Slot(p)
    BY <2>1, PageIsThere
  <2>3. TableOf(p) <= HeapTable
    BY <1>1, <2>1, TablesInOrder DEF HeapTable
  <2>4. TableOf(p) = 0 => Slot(p) = p /\ p < PerTable
    <3>1. PerTable * 0 = 0
      BY <1>1
    <3> QED
      BY <1>1, <2>1, <2>2, <3>1 DEF Slots
  <2>5. ASSUME TableOf(p) = HeapTable, NEW q \in HeapRange PROVE Slot(p) # Slot(q)
    <3>1. q \in Nat /\ q = PerTable * HeapTable + Slot(q) /\ q >= HeapStart
      BY <1>1, <1>4, Bounds, PageIsThere DEF HeapRange
    <3>2. p = PerTable * HeapTable + Slot(p)
      BY <2>2, <2>5
    <3> QED
      BY <1>1, <2>1, <3>1, <3>2
  <2> QED
    BY <1>2, <2>2, <2>3, <2>4, <2>5
<1> QED
  BY <1>1, <1>2, <1>3, <1>4, <1>5, <1>6
-----------------------------------------------------------------------------
LEMMA StateTypes ==
  ASSUME NEW k \in State
  PROVE  /\ k.marked \in SUBSET (0 .. Frames - 1) /\ k.heap.end \in Nat /\ k.heap.moved \in BOOLEAN
         /\ k.blocks \in SUBSET [at : Nat, n : Nat \ {0}] /\ k.ok \in BOOLEAN
         /\ k.tables \in Seq(Table) /\ Len(k.tables) \in Nat /\ DOMAIN k.tables = 1 .. Len(k.tables)
         /\ \A t \in DOMAIN k.tables : /\ k.tables[t] \in Table /\ k.tables[t].at \in Nat
                                       /\ k.tables[t].pages \in [Slots -> Nat \cup {None}]
         /\ k.dirs \in Seq(Directory) /\ Len(k.dirs) \in Nat /\ DOMAIN k.dirs = 1 .. Len(k.dirs)
         /\ \A d \in DOMAIN k.dirs : k.dirs[d] \in Directory
         /\ k = [marked |-> k.marked, tables |-> k.tables, dirs |-> k.dirs, heap |-> k.heap,
                 blocks |-> k.blocks, ok |-> k.ok]
<1>1. k.tables \in Seq(Table) /\ k.dirs \in Seq(Directory) /\ k.heap \in [end : Nat, moved : BOOLEAN]
  BY DEF State
<1>2. \A t \in DOMAIN k.tables : k.tables[t] \in Table
  BY <1>1
<1>3. \A d \in DOMAIN k.dirs : k.dirs[d] \in Directory
  BY <1>1
<1>4. \A x \in Table : x.at \in Nat /\ x.pages \in [Slots -> Nat \cup {None}]
  BY DEF Table
<1>5. /\ k.marked \in SUBSET (0 .. Frames - 1) /\ k.ok \in BOOLEAN
      /\ k.blocks \in SUBSET [at : Nat, n : Nat \ {0}]
      /\ k = [marked |-> k.marked, tables |-> k.tables, dirs |-> k.dirs, heap |-> k.heap,
              blocks |-> k.blocks, ok |-> k.ok]
  BY DEF State
<1>6. k.heap.end \in Nat /\ k.heap.moved \in BOOLEAN
  BY <1>1
<1>7. /\ Len(k.tables) \in Nat /\ DOMAIN k.tables = 1 .. Len(k.tables)
      /\ Len(k.dirs) \in Nat /\ DOMAIN k.dirs = 1 .. Len(k.dirs)
  BY <1>1
<1> QED
  BY <1>1, <1>2, <1>3, <1>4, <1>5, <1>6, <1>7

LEMMA DirTypes ==
  ASSUME NEW d \in Directory
  PROVE  /\ d.tables \in [Index -> Nat] /\ d.phys \in [Index -> Nat \cup {None}]
         /\ d.at \in Nat /\ d.physicalAddr \in Nat
  BY DEF Directory

LEMMA KernelFrames ==
  ASSUME NEW k \in State, Shared(k)
  PROVE  /\ FrameAt(k, Kernel, 0) = KernelPage(k, 0)
         /\ FrameAt(k, Kernel, 1) = KernelPage(k, 1)
         /\ \A p \in HeapRange : /\ FrameAt(k, Kernel, p) = KernelPage(k, p)
                                 /\ KernelPage(k, p) = k.tables[2].pages[Slot(p)]
<1>1. /\ k.dirs[Kernel].tables[0] = 1 /\ k.dirs[Kernel].tables[HeapTable] = 2
  BY HeapPagesApart DEF Shared
<1>2. TableOf(0) = 0 /\ Slot(0) = 0 /\ TableOf(1) = 0 /\ Slot(1) = 1
  <2>1. \A p \in {0, 1} : p \in Nat /\ p < PerTable /\ p < HeapStart
    BY Bounds, HeapPagesApart
  <2>2. ASSUME NEW p \in {0, 1} PROVE TableOf(p) = 0 /\ Slot(p) = p
    <3>1. TableOf(p) \in Nat /\ Slot(p) \in Slots /\ p = PerTable * TableOf(p) + Slot(p)
      BY <2>1, PageIsThere
    <3> DEFINE a == TableOf(p)
    <3>2. a \in Nat /\ Slot(p) >= 0 /\ Slot(p) \in Int /\ PerTable * a <= p
      BY <3>1, <2>1, Bounds DEF Slots
    <3> HIDE DEF a
    <3>3. a = 0
      <4>1. SUFFICES ASSUME a >= 1 PROVE FALSE
        BY <3>2
      <4>2. PerTable * a >= PerTable * 1
        BY <3>2, <4>1, Bounds
      <4> QED
        BY <2>1, <3>2, <4>2, Bounds
    <3>4. TableOf(p) = 0
      BY <3>3 DEF a
    <3>5. p = PerTable * 0 + Slot(p) /\ PerTable * 0 = 0
      BY <3>1, <3>4, Bounds
    <3> QED
      BY <3>2, <3>4, <3>5
  <2> QED
    BY <2>2
<1>3. FrameAt(k, Kernel, 0) = k.tables[1].pages[0] /\ FrameAt(k, Kernel, 1) = k.tables[1].pages[1]
  BY <1>1, <1>2 DEF FrameAt, FrameIn
<1>4. KernelPage(k, 0) = k.tables[1].pages[0] /\ KernelPage(k, 1) = k.tables[1].pages[1]
  BY Bounds DEF KernelPage
<1>5. ASSUME NEW p \in HeapRange
      PROVE  /\ FrameAt(k, Kernel, p) = k.tables[2].pages[Slot(p)]
             /\ KernelPage(k, p) = k.tables[2].pages[Slot(p)]
  <2>1. TableOf(p) = HeapTable /\ ~(p < PerTable)
    BY HeapPagesApart, Bounds DEF HeapRange
  <2> QED
    BY <1>1, <2>1 DEF FrameAt, FrameIn, KernelPage
<1> QED
  BY <1>3, <1>4, <1>5

LEMMA Unmarked ==
  ASSUME NEW k \in State
  PROVE  _first_unmarked(k) \in (0 .. Frames) \ k.marked
<1> DEFINE S == (0 .. Frames) \ k.marked
<1>1. S \in SUBSET Nat /\ S # {}
  BY Bounds, StateTypes
<1>2. PICK x \in S : \A y \in S : x <= y
  BY <1>1, LeastElement
<1>3. Min(S) \in S
  BY <1>2 DEF Min
<1> QED
  BY <1>3 DEF _first_unmarked

(* One entry of a table changes.                                           *)
EntrySet(k, m, t, s, f) == [k EXCEPT !.marked = m, !.tables[t].pages[s] = f]
OneChanged(r, k, m, t, s, f) ==
  /\ r \in State /\ r.marked = m /\ r.dirs = k.dirs /\ r.heap = k.heap
  /\ r.blocks = k.blocks /\ r.ok = k.ok /\ Len(r.tables) = Len(k.tables)
  /\ DOMAIN r.tables = DOMAIN k.tables
  /\ \A u \in DOMAIN k.tables :
       /\ r.tables[u].at = k.tables[u].at
       /\ \A v \in Slots : r.tables[u].pages[v] =
            IF u = t /\ v = s THEN f ELSE k.tables[u].pages[v]

LEMMA OneEntry ==
  ASSUME NEW k \in State, NEW m \in SUBSET (0 .. Frames - 1),
         NEW t \in DOMAIN k.tables, NEW s \in Slots, NEW f \in Nat \cup {None}
  PROVE  OneChanged(EntrySet(k, m, t, s, f), k, m, t, s, f)
<1> DEFINE pages == [k.tables[t].pages EXCEPT ![s] = f]
           table == [pages |-> pages, at |-> k.tables[t].at]
           tables2 == [k.tables EXCEPT ![t] = table]
           r == EntrySet(k, m, t, s, f)
<1>1. /\ k.tables[t].pages \in [Slots -> Nat \cup {None}] /\ k.tables[t].at \in Nat
      /\ k.tables[t] = [pages |-> k.tables[t].pages, at |-> k.tables[t].at]
  BY StateTypes DEF Table
<1>2. pages \in [Slots -> Nat \cup {None}]
  BY <1>1
<1>3. \A v \in Slots : pages[v] = IF v = s THEN f ELSE k.tables[t].pages[v]
  BY <1>1
<1>4. [k.tables[t] EXCEPT !.pages[s] = f] = table
  BY <1>1
<1> HIDE DEF pages
<1>5. table \in Table /\ table.pages = pages /\ table.at = k.tables[t].at
  BY <1>1, <1>2 DEF Table
<1>6. [k.tables EXCEPT ![t].pages[s] = f] = tables2
  BY <1>4
<1> HIDE DEF table
<1>7. /\ tables2 \in Seq(Table) /\ Len(tables2) = Len(k.tables) /\ DOMAIN tables2 = DOMAIN k.tables
      /\ \A u \in DOMAIN k.tables : tables2[u] = IF u = t THEN table ELSE k.tables[u]
  BY <1>5, StateTypes
<1>8. r = [marked |-> m, tables |-> tables2, dirs |-> k.dirs, heap |-> k.heap,
           blocks |-> k.blocks, ok |-> k.ok]
  <2> DEFINE k2 == [marked |-> m, tables |-> k.tables, dirs |-> k.dirs, heap |-> k.heap,
                    blocks |-> k.blocks, ok |-> k.ok]
  <2>1. [k EXCEPT !.marked = m] = k2
    BY StateTypes
  <2>2. r = [k2 EXCEPT !.tables = [@ EXCEPT ![t].pages[s] = f]]
    BY <2>1 DEF EntrySet
  <2> QED
    BY <1>6, <2>2
<1> HIDE DEF tables2, r
<1>9. r.tables = tables2 /\ r \in State
  BY <1>7, <1>8 DEF State
<1>10. /\ r.marked = m /\ r.dirs = k.dirs /\ r.heap = k.heap
       /\ r.blocks = k.blocks /\ r.ok = k.ok /\ Len(r.tables) = Len(k.tables)
       /\ DOMAIN r.tables = DOMAIN k.tables
  BY <1>7, <1>8
<1>11. ASSUME NEW u \in DOMAIN k.tables
       PROVE  /\ r.tables[u].at = k.tables[u].at
              /\ \A v \in Slots : r.tables[u].pages[v] =
                   IF u = t /\ v = s THEN f ELSE k.tables[u].pages[v]
  <2>1. CASE u = t
    BY <1>3, <1>5, <1>7, <1>9, <2>1
  <2>2. CASE u # t
    BY <1>7, <1>9, <2>2
  <2> QED
    BY <2>1, <2>2
<1> QED
  BY <1>9, <1>10, <1>11 DEF r, OneChanged
LEMMA LowPages ==
  ASSUME NEW k
  PROVE  KernelPage(k, 0) = k.tables[1].pages[0] /\ KernelPage(k, 1) = k.tables[1].pages[1]
  BY Bounds DEF KernelPage

(* Changes of entries that leave what the tables and directories lie in.   *)
LEMMA KeptByPages ==
  ASSUME NEW k, Kept(k), NEW r \in State, Owned(r), r.dirs = k.dirs, r.heap = k.heap,
         r.blocks = k.blocks, DOMAIN r.tables = DOMAIN k.tables,
         \A t \in DOMAIN k.tables : r.tables[t].at = k.tables[t].at,
         \A p \in {0, 1} : KernelPage(r, p) = KernelPage(k, p),
         \A p \in HeapStart .. HeapStart + HeapInitial - 1 :
           KernelPage(r, p) \in {KernelPage(k, p), None},
         \A t \in DOMAIN k.tables : k.tables[t].at # 0 /\ KernelPage(k, k.tables[t].at) # None =>
           KernelPage(r, k.tables[t].at) = KernelPage(k, k.tables[t].at),
         \A d \in DOMAIN k.dirs : k.dirs[d].at # 0 /\ KernelPage(k, k.dirs[d].at + 1) # None =>
           KernelPage(r, k.dirs[d].at + 1) = KernelPage(k, k.dirs[d].at + 1)
  PROVE  Kept(r)
<1>1. k \in State /\ Shared(k) /\ Fixed(k) /\ Within(k) /\ Reached(k)
  BY DEF Kept
<1>2. Len(r.tables) = Len(k.tables)
  <2>1. 1 .. Len(r.tables) = 1 .. Len(k.tables) /\ Len(r.tables) \in Nat /\ Len(k.tables) \in Nat
    BY <1>1, StateTypes
  <2> QED
    BY <2>1
<1>3. Shared(r)
  BY <1>1, <1>2 DEF Shared
<1>4. Fixed(r)
  <2>1. KernelPage(k, 0) = k.tables[1].pages[0] /\ KernelPage(k, 1) = k.tables[1].pages[1]
    BY LowPages
  <2>2. KernelPage(r, 0) = r.tables[1].pages[0] /\ KernelPage(r, 1) = r.tables[1].pages[1]
    BY LowPages
  <2> QED
    BY <1>1, <2>1, <2>2 DEF Fixed
<1>5. Within(r)
  BY <1>1 DEF Within, Lies
<1>6. ASSUME NEW d \in DOMAIN k.dirs
      PROVE  /\ \A i \in Index : k.dirs[d].tables[i] # 0 =>
                  /\ k.dirs[d].phys[i] # None
                  /\ k.dirs[d].phys[i] = KernelPage(r, r.tables[k.dirs[d].tables[i]].at)
             /\ k.dirs[d].at + 1 < HeapStart + HeapInitial =>
                  k.dirs[d].physicalAddr = KernelPage(r, k.dirs[d].at + 1)
  <2>1. ASSUME NEW i \in Index, k.dirs[d].tables[i] # 0
        PROVE  /\ k.dirs[d].phys[i] # None
               /\ k.dirs[d].phys[i] = KernelPage(r, r.tables[k.dirs[d].tables[i]].at)
    <3> DEFINE t == k.dirs[d].tables[i]
    <3>1. t \in DOMAIN k.tables
      BY <1>1, <2>1, StateTypes DEF Shared
    <3>2. k.dirs[d].phys[i] # None /\ k.dirs[d].phys[i] = KernelPage(k, k.tables[t].at)
      BY <1>1, <2>1 DEF Reached
    <3> HIDE DEF t
    <3>3. KernelPage(r, k.tables[t].at) = KernelPage(k, k.tables[t].at)
      <4>1. KernelPage(r, 0) = KernelPage(k, 0) /\ KernelPage(k, k.tables[t].at) # None
        BY <3>2
      <4> QED
        BY <3>1, <4>1
    <3> QED
      BY <3>1, <3>2, <3>3 DEF t
  <2>2. ASSUME k.dirs[d].at + 1 < HeapStart + HeapInitial
        PROVE  k.dirs[d].physicalAddr = KernelPage(r, k.dirs[d].at + 1)
    <3>1. k.dirs[d].physicalAddr = KernelPage(k, k.dirs[d].at + 1)
      BY <1>1, <2>2 DEF Reached
    <3>2. k.dirs[d].physicalAddr # None
      BY <1>1, StateTypes, DirTypes, Bounds
    <3>3. k.dirs[d].at = 0 => k.dirs[d].at + 1 = 1
      OBVIOUS
    <3> QED
      BY <3>1, <3>2, <3>3
  <2> QED
    BY <2>1, <2>2
<1>7. Reached(r)
  BY <1>6 DEF Reached
<1> QED
  BY <1>3, <1>4, <1>5, <1>7 DEF Kept

(* Where the pages of blocks are.                                          *)
LEMMA BlockPages ==
  ASSUME NEW k, Kept(k)
  PROVE  /\ \A t \in DOMAIN k.tables : k.tables[t].at = 0 \/ k.tables[t].at \in HeapRange
         /\ \A d \in DOMAIN k.dirs :
              k.dirs[d].at = 0 \/ (k.dirs[d].at \in HeapRange /\ k.dirs[d].at + 1 \in HeapRange)
         /\ \A p \in HeapStart .. HeapStart + HeapInitial - 1 : p \in HeapRange
<1>1. k \in State /\ Within(k) /\ k.heap.end <= HeapStart + HeapMax
  BY DEF Kept, Within
<1>2. /\ k.heap.end \in Nat /\ \A t \in DOMAIN k.tables : k.tables[t].at \in Nat
      /\ \A d \in DOMAIN k.dirs : k.dirs[d].at \in Nat
  BY <1>1, StateTypes, DirTypes
<1>3. \A at \in Nat : Lies(k, at, 1) => at = 0 \/ at \in HeapRange
  BY <1>1, <1>2, Bounds DEF Lies, HeapRange
<1>4. \A at \in Nat : Lies(k, at, 2) => at = 0 \/ (at \in HeapRange /\ at + 1 \in HeapRange)
  BY <1>1, <1>2, Bounds DEF Lies, HeapRange
<1>5. \A p \in HeapStart .. HeapStart + HeapInitial - 1 : p \in HeapRange
  BY Bounds DEF HeapRange
<1> QED
  BY <1>1, <1>2, <1>3, <1>4, <1>5 DEF Within

(* A frame that is not in use, for a page that is not mapped.              *)
LEMMA EntryAdded ==
  ASSUME NEW k, Kept(k), NEW t \in DOMAIN k.tables, NEW s \in Slots,
         k.tables[t].pages[s] = None, NEW f \in 0 .. Frames - 1, f \notin k.marked,
         t = 2 => \A p \in HeapStart .. HeapStart + HeapInitial - 1 : s # Slot(p)
  PROVE  LET r == EntrySet(k, k.marked \cup {f}, t, s, f)
         IN  /\ Kept(r) /\ r.dirs = k.dirs /\ r.heap = k.heap /\ r.blocks = k.blocks /\ r.ok = k.ok
             /\ DOMAIN r.tables = DOMAIN k.tables /\ r.tables[t].pages[s] = f
             /\ \A u \in DOMAIN k.tables : r.tables[u].at = k.tables[u].at
             /\ \A p \in HeapRange : KernelPage(k, p) # None => KernelPage(r, p) = KernelPage(k, p)
<1> DEFINE m == k.marked \cup {f}
           r == EntrySet(k, m, t, s, f)
<1>1. /\ k \in State /\ Owned(k) /\ Shared(k) /\ Fixed(k) /\ Reached(k)
      /\ m \in SUBSET (0 .. Frames - 1) /\ f \in Nat \cup {None} /\ f # None
  BY StateTypes, Bounds DEF Kept
<1> HIDE DEF m
<1>2. /\ r \in State /\ r.marked = m /\ r.dirs = k.dirs /\ r.heap = k.heap
      /\ r.blocks = k.blocks /\ r.ok = k.ok /\ DOMAIN r.tables = DOMAIN k.tables
      /\ \A u \in DOMAIN k.tables :
           /\ r.tables[u].at = k.tables[u].at
           /\ \A v \in Slots : r.tables[u].pages[v] =
                IF u = t /\ v = s THEN f ELSE k.tables[u].pages[v]
  <2>1. OneChanged(EntrySet(k, m, t, s, f), k, m, t, s, f)
    BY <1>1, OneEntry
  <2> QED
    BY <2>1 DEF OneChanged
<1> HIDE DEF r
<1>3. Owned(r)
  <2>1. \A u \in DOMAIN k.tables, v \in Slots :
          r.tables[u].pages[v] # None => r.tables[u].pages[v] \in r.marked
    BY <1>1, <1>2 DEF Owned, m
  <2>2. ASSUME NEW g \in r.marked
        PROVE  \E u \in DOMAIN k.tables, v \in Slots : r.tables[u].pages[v] = g
    <3>1. CASE g = f
      BY <1>2, <3>1
    <3>2. CASE g # f
      <4>1. PICK u \in DOMAIN k.tables, v \in Slots : k.tables[u].pages[v] = g
        BY <1>1, <1>2, <3>2 DEF Owned, m
      <4>2. g # None
        BY <1>1, <1>2, <3>2, StateTypes, Bounds
      <4> QED
        BY <1>2, <4>1, <4>2
    <3> QED
      BY <3>1, <3>2
  <2>3. ASSUME NEW u \in DOMAIN k.tables, NEW w \in DOMAIN k.tables, NEW v \in Slots, NEW x \in Slots,
               r.tables[u].pages[v] # None, r.tables[u].pages[v] = r.tables[w].pages[x]
        PROVE  u = w /\ v = x
    <3>1. \A y \in DOMAIN k.tables, z \in Slots : k.tables[y].pages[z] # f
      BY <1>1 DEF Owned
    <3>2. CASE (u = t /\ v = s) \/ (w = t /\ x = s)
      BY <1>2, <2>3, <3>1, <3>2
    <3>3. CASE ~(u = t /\ v = s) /\ ~(w = t /\ x = s)
      BY <1>1, <1>2, <2>3, <3>3 DEF Owned
    <3> QED
      BY <3>2, <3>3
  <2> QED
    BY <1>2, <2>1, <2>2, <2>3 DEF Owned
<1>4. {1, 2} \subseteq DOMAIN k.tables
  BY <1>1 DEF Shared
<1>5. \A p \in HeapRange : /\ KernelPage(k, p) = k.tables[2].pages[Slot(p)] /\ Slot(p) \in Slots
                           /\ KernelPage(r, p) = r.tables[2].pages[Slot(p)]
  BY HeapPagesApart, Bounds DEF KernelPage, HeapRange
<1>6. \A p \in HeapRange : KernelPage(k, p) # None => KernelPage(r, p) = KernelPage(k, p)
  BY <1>2, <1>4, <1>5
<1>7. \A p \in {0, 1} : KernelPage(r, p) = KernelPage(k, p)
  <2>1. \A p \in {0, 1} : p < PerTable /\ p \in Slots
    BY Bounds DEF Slots
  <2>2. \A p \in {0, 1} : k.tables[1].pages[p] # None
    BY <1>1, Bounds DEF Fixed
  <2>3. \A p \in {0, 1} : r.tables[1].pages[p] = k.tables[1].pages[p]
    BY <1>2, <1>4, <2>1, <2>2
  <2> QED
    BY <2>1, <2>3 DEF KernelPage
<1>8. \A p \in HeapStart .. HeapStart + HeapInitial - 1 : KernelPage(r, p) = KernelPage(k, p)
  BY <1>2, <1>4, <1>5, BlockPages
<1>9. \A u \in DOMAIN k.tables : k.tables[u].at # 0 /\ KernelPage(k, k.tables[u].at) # None =>
        KernelPage(r, k.tables[u].at) = KernelPage(k, k.tables[u].at)
  BY <1>6, BlockPages
<1>10. Kept(r)
  <2>1. \A d \in DOMAIN k.dirs : k.dirs[d].at # 0 /\ KernelPage(k, k.dirs[d].at + 1) # None =>
          KernelPage(r, k.dirs[d].at + 1) = KernelPage(k, k.dirs[d].at + 1)
    BY <1>6, BlockPages
  <2> QED
    BY <1>2, <1>3, <1>7, <1>8, <1>9, <2>1, KeptByPages
<1> QED
  BY <1>2, <1>6, <1>10 DEF r, m
(* A page that loses its frame: one of a program, or one of the heap that  *)
(* is behind all tables and directories.                                   *)
LEMMA EntryCleared ==
  ASSUME NEW k, Kept(k), NEW t \in DOMAIN k.tables, NEW s \in Slots,
         t = 1 => s \notin {0, 1},
         t = 2 => \A u \in DOMAIN k.tables : k.tables[u].at # 0 => s # Slot(k.tables[u].at),
         t = 2 => \A d \in DOMAIN k.dirs : k.dirs[d].at # 0 => s # Slot(k.dirs[d].at + 1)
  PROVE  LET r == EntrySet(k, k.marked \ {k.tables[t].pages[s]}, t, s, None)
         IN  Kept(r) /\ OneChanged(r, k, k.marked \ {k.tables[t].pages[s]}, t, s, None)
<1> DEFINE m == k.marked \ {k.tables[t].pages[s]}
           r == EntrySet(k, m, t, s, None)
<1>1. /\ k \in State /\ Owned(k) /\ Shared(k) /\ Fixed(k) /\ Reached(k)
      /\ m \in SUBSET (0 .. Frames - 1) /\ None \in Nat \cup {None}
  BY StateTypes, Bounds DEF Kept
<1> HIDE DEF m
<1>2. OneChanged(r, k, m, t, s, None)
  BY <1>1, OneEntry
<1> HIDE DEF r
<1>3. /\ r \in State /\ r.marked = m /\ r.dirs = k.dirs /\ r.heap = k.heap
      /\ r.blocks = k.blocks /\ DOMAIN r.tables = DOMAIN k.tables
      /\ \A u \in DOMAIN k.tables :
           /\ r.tables[u].at = k.tables[u].at
           /\ \A v \in Slots : r.tables[u].pages[v] =
                IF u = t /\ v = s THEN None ELSE k.tables[u].pages[v]
  BY <1>2 DEF OneChanged
<1>4. Owned(r)
  <2>1. ASSUME NEW u \in DOMAIN k.tables, NEW v \in Slots, r.tables[u].pages[v] # None
        PROVE  r.tables[u].pages[v] \in r.marked
    <3>1. r.tables[u].pages[v] = k.tables[u].pages[v] /\ ~(u = t /\ v = s)
      BY <1>3, <2>1
    <3>2. k.tables[u].pages[v] # k.tables[t].pages[s]
      BY <1>1, <2>1, <3>1 DEF Owned
    <3> QED
      BY <1>1, <1>3, <2>1, <3>1, <3>2 DEF Owned, m
  <2>2. ASSUME NEW g \in r.marked
        PROVE  \E u \in DOMAIN k.tables, v \in Slots : r.tables[u].pages[v] = g
    <3>1. g \in k.marked /\ g # k.tables[t].pages[s]
      BY <1>3 DEF m
    <3>2. PICK u \in DOMAIN k.tables, v \in Slots : k.tables[u].pages[v] = g
      BY <1>1, <3>1 DEF Owned
    <3> QED
      BY <1>3, <3>1, <3>2
  <2>3. ASSUME NEW u \in DOMAIN k.tables, NEW w \in DOMAIN k.tables, NEW v \in Slots, NEW x \in Slots,
               r.tables[u].pages[v] # None, r.tables[u].pages[v] = r.tables[w].pages[x]
        PROVE  u = w /\ v = x
    BY <1>1, <1>3, <2>3 DEF Owned
  <2> QED
    BY <1>3, <2>1, <2>2, <2>3 DEF Owned
<1>5. {1, 2} \subseteq DOMAIN k.tables
  BY <1>1 DEF Shared
<1>6. \A p \in HeapRange : /\ KernelPage(k, p) = k.tables[2].pages[Slot(p)] /\ Slot(p) \in Slots
                           /\ KernelPage(r, p) = r.tables[2].pages[Slot(p)]
  BY HeapPagesApart, Bounds DEF KernelPage, HeapRange
<1>7. \A p \in {0, 1} : KernelPage(r, p) = KernelPage(k, p)
  <2>1. \A p \in {0, 1} : p < PerTable /\ p \in Slots
    BY Bounds DEF Slots
  <2>2. \A p \in {0, 1} : r.tables[1].pages[p] = k.tables[1].pages[p]
    BY <1>3, <1>5, <2>1
  <2> QED
    BY <2>1, <2>2 DEF KernelPage
<1>8. \A p \in HeapStart .. HeapStart + HeapInitial - 1 :
        KernelPage(r, p) \in {KernelPage(k, p), None}
  BY <1>3, <1>5, <1>6, BlockPages
<1>9. \A u \in DOMAIN k.tables : k.tables[u].at # 0 =>
        KernelPage(r, k.tables[u].at) = KernelPage(k, k.tables[u].at)
  <2> SUFFICES ASSUME NEW u \in DOMAIN k.tables, k.tables[u].at # 0
               PROVE  KernelPage(r, k.tables[u].at) = KernelPage(k, k.tables[u].at)
    OBVIOUS
  <2>1. k.tables[u].at \in HeapRange
    BY BlockPages
  <2> QED
    BY <1>3, <1>5, <1>6, <2>1
<1>10. \A d \in DOMAIN k.dirs : k.dirs[d].at # 0 =>
          KernelPage(r, k.dirs[d].at + 1) = KernelPage(k, k.dirs[d].at + 1)
  <2> SUFFICES ASSUME NEW d \in DOMAIN k.dirs, k.dirs[d].at # 0
               PROVE  KernelPage(r, k.dirs[d].at + 1) = KernelPage(k, k.dirs[d].at + 1)
    OBVIOUS
  <2>1. k.dirs[d].at + 1 \in HeapRange
    BY BlockPages
  <2> QED
    BY <1>3, <1>5, <1>6, <2>1
<1>11. Kept(r)
  BY <1>3, <1>4, <1>7, <1>8, <1>9, <1>10, KeptByPages
<1> QED
  BY <1>2, <1>11 DEF r, m

(* Whether an assertion has failed does not matter to all this.            *)
LEMMA KeptAlike ==
  ASSUME NEW k, Kept(k), NEW r \in State, r.marked = k.marked, r.tables = k.tables,
         r.dirs = k.dirs, r.heap = k.heap, r.blocks = k.blocks
  PROVE  Kept(r) /\ \A q : KernelPage(r, q) = KernelPage(k, q)
<1>1. Owned(r)
  BY DEF Kept, Owned
<1>2. Shared(r)
  BY DEF Kept, Shared
<1>3. \A q : KernelPage(r, q) = KernelPage(k, q)
  BY DEF KernelPage
<1>4. Fixed(r)
  BY <1>3 DEF Kept, Fixed
<1>5. Within(r)
  BY DEF Kept, Within, Lies
<1>6. Reached(r)
  BY <1>3 DEF Kept, Reached
<1> QED
  BY <1>1, <1>2, <1>3, <1>4, <1>5, <1>6 DEF Kept

(* The page p may be unmapped without loss to tables and directories.      *)
Spare(k, p) ==
  /\ p \in 2 .. HeapStart - 1 \/ p \in HeapRange
  /\ \A t \in DOMAIN k.tables : k.tables[t].at # p
  /\ \A d \in DOMAIN k.dirs : k.dirs[d].at + 1 # p
(* What changes of pages leave alone.                                      *)
SameBlocks(r, k) ==
  /\ r.dirs = k.dirs /\ r.heap = k.heap /\ r.blocks = k.blocks
  /\ DOMAIN r.tables = DOMAIN k.tables
  /\ \A t \in DOMAIN k.tables : r.tables[t].at = k.tables[t].at

LEMMA PageUnmapped ==
  ASSUME NEW k, Kept(k), NEW d \in DOMAIN k.dirs, NEW p, Spare(k, p)
  PROVE  /\ Kept(vmm_unmap_page(k, d, p)) /\ SameBlocks(vmm_unmap_page(k, d, p), k)
         /\ vmm_unmap_page(k, d, p).ok = k.ok
         /\ \A q \in HeapRange :
              q # p => KernelPage(vmm_unmap_page(k, d, p), q) = KernelPage(k, q)
<1> DEFINE t == k.dirs[d].tables[TableOf(p)]
           s == Slot(p)
           f == FrameAt(k, d, p)
           r == vmm_unmap_page(k, d, p)
<1>1. k \in State /\ Shared(k)
  BY DEF Kept
<1>2. /\ p \in Nat /\ TableOf(p) \in Index /\ s \in Slots
      /\ TableOf(p) = 0 => s \notin {0, 1}
      /\ TableOf(p) = HeapTable => \A q \in HeapRange : q # p => s # Slot(q)
  <2>1. CASE p \in 2 .. HeapStart - 1
    <3>1. p \in Nat /\ p \in 0 .. HeapStart - 1 /\ p \notin {0, 1}
      BY <2>1, Bounds
    <3> QED
      BY <3>1, HeapPagesApart
  <2>2. CASE p \in HeapRange
    BY <2>2, HeapPagesApart
  <2> QED
    BY <2>1, <2>2 DEF Spare
<1>3. /\ t \in 0 .. Len(k.tables) /\ (t = 1 <=> TableOf(p) = 0)
      /\ (t = 2 <=> TableOf(p) = HeapTable)
  BY <1>1, <1>2 DEF Shared
<1>4. CASE t = 0
  <2>1. f = None /\ r = [k EXCEPT !.marked = @ \ {f}, !.tables[0].pages[s] = None]
    BY <1>4 DEF FrameAt, FrameIn, vmm_unmap_page
  <2>2. k.marked \ {f} = k.marked
    BY <1>1, <2>1, StateTypes, Bounds
  <2>3. [k.tables EXCEPT ![0].pages[s] = None] = k.tables
    BY <1>1, StateTypes
  <2>4. r = k
    <3> DEFINE k2 == [k EXCEPT !.marked = @ \ {f}]
    <3>1. k2 = k
      BY <1>1, <2>2, StateTypes
    <3>2. r = [k2 EXCEPT !.tables = [@ EXCEPT ![0].pages[s] = None]]
      BY <2>1
    <3> HIDE DEF k2, r, f
    <3>3. r = [k EXCEPT !.tables = k.tables]
      BY <2>3, <3>1, <3>2
    <3> QED
      BY <1>1, <3>3, StateTypes
  <2> QED
    BY <2>4 DEF SameBlocks
<1>5. CASE t # 0
  <2>1. t \in DOMAIN k.tables
    BY <1>1, <1>3, <1>5, StateTypes
  <2>2. f = k.tables[t].pages[s]
    BY <1>5 DEF FrameAt, FrameIn
  <2>3. r = EntrySet(k, k.marked \ {k.tables[t].pages[s]}, t, s, None)
    BY <2>2 DEF vmm_unmap_page, EntrySet
  <2>4. t = 1 => s \notin {0, 1}
    BY <1>2, <1>3
  <2>5. t = 2 => \A u \in DOMAIN k.tables : k.tables[u].at # 0 => s # Slot(k.tables[u].at)
    BY <1>2, <1>3, BlockPages DEF Spare
  <2>6. t = 2 => \A e \in DOMAIN k.dirs : k.dirs[e].at # 0 => s # Slot(k.dirs[e].at + 1)
    BY <1>2, <1>3, BlockPages DEF Spare
  <2> HIDE DEF t, s, f, r
  <2>7. Kept(r) /\ OneChanged(r, k, k.marked \ {k.tables[t].pages[s]}, t, s, None)
    BY <1>2, <2>1, <2>3, <2>4, <2>5, <2>6, EntryCleared
  <2>8. SameBlocks(r, k) /\ r.ok = k.ok
    BY <2>7 DEF OneChanged, SameBlocks
  <2>9. ASSUME NEW q \in HeapRange, q # p PROVE KernelPage(r, q) = KernelPage(k, q)
    <3>1. /\ KernelPage(k, q) = k.tables[2].pages[Slot(q)] /\ Slot(q) \in Slots
          /\ KernelPage(r, q) = r.tables[2].pages[Slot(q)]
      BY HeapPagesApart, Bounds DEF KernelPage, HeapRange
    <3>2. 2 \in DOMAIN k.tables
      BY <1>1 DEF Shared
    <3>3. ~(2 = t /\ Slot(q) = s)
      BY <1>2, <1>3, <2>9
    <3> QED
      BY <2>7, <3>1, <3>2, <3>3 DEF OneChanged
  <2> QED
    BY <2>7, <2>8, <2>9 DEF r
<1> QED
  BY <1>4, <1>5

(* vmm_map_page with a table.                                              *)
LEMMA PageMapped ==
  ASSUME NEW k, Kept(k), NEW d \in DOMAIN k.dirs, NEW p,
         p \in 0 .. HeapStart - 1 \/ (p \in HeapRange /\ p >= HeapStart + HeapInitial),
         k.ok => k.dirs[d].tables[TableOf(p)] # 0
  PROVE  LET r == MapIn(k, d, p)
         IN  /\ Kept(r) /\ r.ok \in BOOLEAN /\ (r.ok => k.ok) /\ SameBlocks(r, k)
             /\ \A q \in HeapRange : KernelPage(k, q) # None => KernelPage(r, q) = KernelPage(k, q)
             /\ r.ok => FrameAt(r, d, p) # None
<1> DEFINE t == k.dirs[d].tables[TableOf(p)]
           s == Slot(p)
           f == _first_unmarked(k)
           r == MapIn(k, d, p)
<1>1. k \in State /\ Shared(k)
  BY DEF Kept
<1>2. /\ p \in Nat /\ TableOf(p) \in Index /\ s \in Slots
      /\ TableOf(p) = HeapTable =>
           \A q \in HeapStart .. HeapStart + HeapInitial - 1 : s # Slot(q)
  <2>1. CASE p \in 0 .. HeapStart - 1
    <3>1. p \in Nat
      BY <2>1, Bounds
    <3> QED
      BY <2>1, <3>1, HeapPagesApart, BlockPages
  <2>2. CASE p \in HeapRange /\ p >= HeapStart + HeapInitial
    <3>1. \A q \in HeapStart .. HeapStart + HeapInitial - 1 : q \in HeapRange /\ q # p
      BY <2>2, BlockPages, Bounds
    <3> QED
      BY <2>2, <3>1, HeapPagesApart
  <2> QED
    BY <2>1, <2>2
<1>3. /\ t \in 0 .. Len(k.tables) /\ (t = 1 <=> TableOf(p) = 0)
      /\ (t = 2 <=> TableOf(p) = HeapTable)
  BY <1>1, <1>2 DEF Shared
<1>4. SameBlocks(k, k)
  BY DEF SameBlocks
<1>5. ASSUME r = Stop(k) PROVE Kept(r) /\ r.ok = FALSE /\ SameBlocks(r, k)
                               /\ \A q \in HeapRange : KernelPage(r, q) = KernelPage(k, q)
  <2>1. r = [marked |-> k.marked, tables |-> k.tables, dirs |-> k.dirs, heap |-> k.heap,
             blocks |-> k.blocks, ok |-> FALSE]
    BY <1>1, <1>5, StateTypes DEF Stop
  <2>2. SameBlocks(r, k)
    BY <2>1 DEF SameBlocks
  <2> HIDE DEF r
  <2>3. r \in State /\ r.ok = FALSE
    BY <1>1, <2>1, StateTypes DEF State
  <2>4. Kept(r) /\ \A q : KernelPage(r, q) = KernelPage(k, q)
    BY <2>1, <2>3, KeptAlike
  <2> QED
    BY <1>4, <2>2, <2>3, <2>4
<1>6. CASE ~k.ok
  <2>1. r = k
    BY <1>6 DEF MapIn
  <2> HIDE DEF r
  <2>2. Kept(r) /\ r.ok \in BOOLEAN /\ ~r.ok /\ SameBlocks(r, k)
    BY <1>1, <1>4, <1>6, <2>1, StateTypes
  <2> QED
    BY <2>1, <2>2 DEF r
<1>7. CASE k.ok /\ FrameAt(k, d, p) # None
  <2>1. r = Stop(k)
    BY <1>7 DEF MapIn
  <2> HIDE DEF r
  <2> QED
    BY <1>5, <2>1 DEF r
<1>8. CASE k.ok /\ FrameAt(k, d, p) = None /\ f = Frames
  <2>1. r = Stop(k)
    BY <1>8 DEF MapIn, Present
  <2> HIDE DEF r
  <2> QED
    BY <1>5, <2>1 DEF r
<1>9. CASE k.ok /\ FrameAt(k, d, p) = None /\ f # Frames
  <2>1. t \in DOMAIN k.tables
    BY <1>1, <1>3, <1>9, StateTypes
  <2>2. k.tables[t].pages[s] = None
    BY <1>9 DEF FrameAt, FrameIn
  <2>3. f \in 0 .. Frames - 1 /\ f \notin k.marked
    BY <1>1, <1>9, Unmarked, Bounds
  <2>4. r = EntrySet(k, k.marked \cup {f}, t, s, f)
    BY <1>9 DEF MapIn, Present, EntrySet
  <2>5. t = 2 => \A q \in HeapStart .. HeapStart + HeapInitial - 1 : s # Slot(q)
    BY <1>2, <1>3
  <2> HIDE DEF t, s, f, r
  <2>6. /\ Kept(r) /\ r.dirs = k.dirs /\ r.heap = k.heap /\ r.blocks = k.blocks /\ r.ok = k.ok
        /\ DOMAIN r.tables = DOMAIN k.tables /\ r.tables[t].pages[s] = f
        /\ \A u \in DOMAIN k.tables : r.tables[u].at = k.tables[u].at
        /\ \A q \in HeapRange : KernelPage(k, q) # None => KernelPage(r, q) = KernelPage(k, q)
    BY <1>2, <2>1, <2>2, <2>3, <2>4, <2>5, EntryAdded
  <2>7. SameBlocks(r, k) /\ r.ok \in BOOLEAN
    BY <2>6, StateTypes DEF SameBlocks, Kept
  <2>8. FrameAt(r, d, p) = f /\ f # None
    BY <1>9, <2>3, <2>6, Bounds DEF FrameAt, FrameIn, t, s
  <2> QED
    BY <2>6, <2>7, <2>8 DEF r
<1> QED
  BY <1>6, <1>7, <1>8, <1>9
-----------------------------------------------------------------------------
(* The folds, step by step, when each step leads from states of V to ones  *)
(* of V.                                                                   *)
MappedAll(k, s) == FoldLeft(LAMBDA x, p : MapIn(x, Kernel, p), k, s)
UnmappedAll(k, d, to, s) == FoldLeft(LAMBDA x, i : vmm_unmap_page(x, d, to - i), k, s)
MapSteps(h, k, s) ==
  /\ h[0] = k /\ h[Len(s)] = MappedAll(k, s)
  /\ \A i \in 1 .. Len(s) : h[i] = MapIn(h[i - 1], Kernel, s[i])
UnmapSteps(h, k, d, to, s) ==
  /\ h[0] = k /\ h[Len(s)] = UnmappedAll(k, d, to, s)
  /\ \A i \in 1 .. Len(s) : h[i] = vmm_unmap_page(h[i - 1], d, to - s[i])
PageSteps(h, k, d, s) ==
  /\ h[0] = k /\ h[Len(s)] = vmm_map_pages(k, d, s)
  /\ \A i \in 1 .. Len(s) : h[i] = vmm_map_page(h[i - 1], d, s[i])
MapsIn(V, s) == \A x \in V, i \in 1 .. Len(s) : MapIn(x, Kernel, s[i]) \in V
UnmapsIn(V, d, to, s) == \A x \in V, i \in 1 .. Len(s) : vmm_unmap_page(x, d, to - s[i]) \in V
PagesIn(V, d, s) == \A x \in V, i \in 1 .. Len(s) : vmm_map_page(x, d, s[i]) \in V

LEMMA MapsInSteps ==
  ASSUME NEW V, NEW k \in V, NEW W, NEW s \in Seq(W),
         MapsIn(V, s)
  PROVE  \E h : MapSteps(h, k, s)
<1>1. k \in V /\ \A x \in V, i \in 1 .. Len(s) : MapIn(x, Kernel, s[i]) \in V
  BY DEF MapsIn
<1> DEFINE n == Len(s)
           It(g) == [S \in SUBSET (1 .. n) |->
                       IF S = {} THEN k ELSE MapIn(g[S \ {Max(S)}], Kernel, s[Max(S)])]
           F == [i \in 1 .. n |-> [x \in V |-> MapIn(x, Kernel, s[i])]]
           g == CHOOSE f : f = It(f)
<1>2. n \in Nat /\ DOMAIN s = 1 .. n
  OBVIOUS
<1> HIDE DEF n
<1>3. F \in [1 .. n -> [V -> V]]
  BY <1>1, <1>2
<1>4. \E f \in [SUBSET (1 .. n) -> V] : Iterates(f, F, n, k)
  BY <1>1, <1>2, <1>3, FoldExists DEF Folds
<1>5. \E f : f = It(f)
  <2>1. PICK f \in [SUBSET (1 .. n) -> V] :
          f = [S \in SUBSET (1 .. n) |-> IF S = {} THEN k ELSE F[Max(S)][f[S \ {Max(S)}]]]
    BY <1>4 DEF Iterates
  <2>2. ASSUME NEW S \in SUBSET (1 .. n), S # {}
        PROVE  F[Max(S)][f[S \ {Max(S)}]] = MapIn(f[S \ {Max(S)}], Kernel, s[Max(S)])
    <3>1. Max(S) \in 1 .. n
      BY <1>2, <2>2, MaxOfSome
    <3>2. f[S \ {Max(S)}] \in V
      OBVIOUS
    <3> QED
      BY <3>1, <3>2
  <2>3. f = It(f)
    BY <2>1, <2>2
  <2> QED
    BY <2>3
<1>6. g = It(g)
  <2> HIDE DEF It
  <2> QED
    BY <1>5
<1>7. MappedAll(k, s) = g[1 .. n]
  BY <1>2 DEF FoldLeft, MapThenFoldSet, MappedAll
<1> HIDE DEF g
<1>8. g[{}] = k
  BY <1>6
<1>9. ASSUME NEW i \in 1 .. n PROVE g[1 .. i] = MapIn(g[1 .. i - 1], Kernel, s[i])
  <2>1. i \in Nat \ {0} /\ 1 .. i \in SUBSET (1 .. n) /\ 1 .. i # {}
    BY <1>2, Segment
  <2>2. Max(1 .. i) = i /\ (1 .. i) \ {Max(1 .. i)} = 1 .. (i - 1)
    BY <2>1, MaxOfSegment
  <2>3. g[1 .. i] = MapIn(g[(1 .. i) \ {Max(1 .. i)}], Kernel, s[Max(1 .. i)])
    BY <1>6, <2>1
  <2> QED
    BY <2>2, <2>3
<1> DEFINE h == [i \in 0 .. n |-> g[1 .. i]]
<1>10. h[0] = k /\ h[n] = MappedAll(k, s)
  <2>1. 1 .. 0 = {} /\ 0 \in 0 .. n /\ n \in 0 .. n
    BY <1>2
  <2> QED
    BY <1>7, <1>8, <2>1
<1>11. \A i \in 1 .. n : h[i] = MapIn(h[i - 1], Kernel, s[i])
  BY <1>2, <1>9
<1> HIDE DEF h
<1> QED
  BY <1>10, <1>11 DEF n, MapSteps

LEMMA UnmapsInSteps ==
  ASSUME NEW V, NEW k \in V, NEW W, NEW s \in Seq(W), NEW d, NEW to,
         UnmapsIn(V, d, to, s)
  PROVE  \E h : UnmapSteps(h, k, d, to, s)
<1>1. k \in V /\ \A x \in V, i \in 1 .. Len(s) : vmm_unmap_page(x, d, to - s[i]) \in V
  BY DEF UnmapsIn
<1> DEFINE n == Len(s)
           It(g) == [S \in SUBSET (1 .. n) |->
                       IF S = {} THEN k ELSE vmm_unmap_page(g[S \ {Max(S)}], d, to - s[Max(S)])]
           F == [i \in 1 .. n |-> [x \in V |-> vmm_unmap_page(x, d, to - s[i])]]
           g == CHOOSE f : f = It(f)
<1>2. n \in Nat /\ DOMAIN s = 1 .. n
  OBVIOUS
<1> HIDE DEF n
<1>3. F \in [1 .. n -> [V -> V]]
  BY <1>1, <1>2
<1>4. \E f \in [SUBSET (1 .. n) -> V] : Iterates(f, F, n, k)
  BY <1>1, <1>2, <1>3, FoldExists DEF Folds
<1>5. \E f : f = It(f)
  <2>1. PICK f \in [SUBSET (1 .. n) -> V] :
          f = [S \in SUBSET (1 .. n) |-> IF S = {} THEN k ELSE F[Max(S)][f[S \ {Max(S)}]]]
    BY <1>4 DEF Iterates
  <2>2. ASSUME NEW S \in SUBSET (1 .. n), S # {}
        PROVE  F[Max(S)][f[S \ {Max(S)}]] = vmm_unmap_page(f[S \ {Max(S)}], d, to - s[Max(S)])
    <3>1. Max(S) \in 1 .. n
      BY <1>2, <2>2, MaxOfSome
    <3>2. f[S \ {Max(S)}] \in V
      OBVIOUS
    <3> QED
      BY <3>1, <3>2
  <2>3. f = It(f)
    BY <2>1, <2>2
  <2> QED
    BY <2>3
<1>6. g = It(g)
  <2> HIDE DEF It
  <2> QED
    BY <1>5
<1>7. UnmappedAll(k, d, to, s) = g[1 .. n]
  BY <1>2 DEF FoldLeft, MapThenFoldSet, UnmappedAll
<1> HIDE DEF g
<1>8. g[{}] = k
  BY <1>6
<1>9. ASSUME NEW i \in 1 .. n PROVE g[1 .. i] = vmm_unmap_page(g[1 .. i - 1], d, to - s[i])
  <2>1. i \in Nat \ {0} /\ 1 .. i \in SUBSET (1 .. n) /\ 1 .. i # {}
    BY <1>2, Segment
  <2>2. Max(1 .. i) = i /\ (1 .. i) \ {Max(1 .. i)} = 1 .. (i - 1)
    BY <2>1, MaxOfSegment
  <2>3. g[1 .. i] = vmm_unmap_page(g[(1 .. i) \ {Max(1 .. i)}], d, to - s[Max(1 .. i)])
    BY <1>6, <2>1
  <2> QED
    BY <2>2, <2>3
<1> DEFINE h == [i \in 0 .. n |-> g[1 .. i]]
<1>10. h[0] = k /\ h[n] = UnmappedAll(k, d, to, s)
  <2>1. 1 .. 0 = {} /\ 0 \in 0 .. n /\ n \in 0 .. n
    BY <1>2
  <2> QED
    BY <1>7, <1>8, <2>1
<1>11. \A i \in 1 .. n : h[i] = vmm_unmap_page(h[i - 1], d, to - s[i])
  BY <1>2, <1>9
<1> HIDE DEF h
<1> QED
  BY <1>10, <1>11 DEF n, UnmapSteps

LEMMA PagesInSteps ==
  ASSUME NEW V, NEW k \in V, NEW W, NEW s \in Seq(W), NEW d,
         PagesIn(V, d, s)
  PROVE  \E h : PageSteps(h, k, d, s)
<1>1. k \in V /\ \A x \in V, i \in 1 .. Len(s) : vmm_map_page(x, d, s[i]) \in V
  BY DEF PagesIn
<1> DEFINE n == Len(s)
           It(g) == [S \in SUBSET (1 .. n) |->
                       IF S = {} THEN k ELSE vmm_map_page(g[S \ {Max(S)}], d, s[Max(S)])]
           F == [i \in 1 .. n |-> [x \in V |-> vmm_map_page(x, d, s[i])]]
           g == CHOOSE f : f = It(f)
<1>2. n \in Nat /\ DOMAIN s = 1 .. n
  OBVIOUS
<1> HIDE DEF n
<1>3. F \in [1 .. n -> [V -> V]]
  BY <1>1, <1>2
<1>4. \E f \in [SUBSET (1 .. n) -> V] : Iterates(f, F, n, k)
  BY <1>1, <1>2, <1>3, FoldExists DEF Folds
<1>5. \E f : f = It(f)
  <2>1. PICK f \in [SUBSET (1 .. n) -> V] :
          f = [S \in SUBSET (1 .. n) |-> IF S = {} THEN k ELSE F[Max(S)][f[S \ {Max(S)}]]]
    BY <1>4 DEF Iterates
  <2>2. ASSUME NEW S \in SUBSET (1 .. n), S # {}
        PROVE  F[Max(S)][f[S \ {Max(S)}]] = vmm_map_page(f[S \ {Max(S)}], d, s[Max(S)])
    <3>1. Max(S) \in 1 .. n
      BY <1>2, <2>2, MaxOfSome
    <3>2. f[S \ {Max(S)}] \in V
      OBVIOUS
    <3> QED
      BY <3>1, <3>2
  <2>3. f = It(f)
    BY <2>1, <2>2
  <2> QED
    BY <2>3
<1>6. g = It(g)
  <2> HIDE DEF It
  <2> QED
    BY <1>5
<1>7. vmm_map_pages(k, d, s) = g[1 .. n]
  BY <1>2 DEF FoldLeft, MapThenFoldSet, vmm_map_pages
<1> HIDE DEF g
<1>8. g[{}] = k
  BY <1>6
<1>9. ASSUME NEW i \in 1 .. n PROVE g[1 .. i] = vmm_map_page(g[1 .. i - 1], d, s[i])
  <2>1. i \in Nat \ {0} /\ 1 .. i \in SUBSET (1 .. n) /\ 1 .. i # {}
    BY <1>2, Segment
  <2>2. Max(1 .. i) = i /\ (1 .. i) \ {Max(1 .. i)} = 1 .. (i - 1)
    BY <2>1, MaxOfSegment
  <2>3. g[1 .. i] = vmm_map_page(g[(1 .. i) \ {Max(1 .. i)}], d, s[Max(1 .. i)])
    BY <1>6, <2>1
  <2> QED
    BY <2>2, <2>3
<1> DEFINE h == [i \in 0 .. n |-> g[1 .. i]]
<1>10. h[0] = k /\ h[n] = vmm_map_pages(k, d, s)
  <2>1. 1 .. 0 = {} /\ 0 \in 0 .. n /\ n \in 0 .. n
    BY <1>2
  <2> QED
    BY <1>7, <1>8, <2>1
<1>11. \A i \in 1 .. n : h[i] = vmm_map_page(h[i - 1], d, s[i])
  BY <1>2, <1>9
<1> HIDE DEF h
<1> QED
  BY <1>10, <1>11 DEF n, PageSteps
-----------------------------------------------------------------------------
(* The heap.  Pages that may be spared lose their frames, no others do.    *)
LEMMA PagesUnmapped ==
  ASSUME NEW k, Kept(k), NEW d \in DOMAIN k.dirs, NEW from \in Nat, NEW to \in Nat, from <= to,
         \A p \in from + 1 .. to : Spare(k, p)
  PROVE  LET r == Unmapped(k, d, from, to)
         IN  /\ Kept(r) /\ SameBlocks(r, k) /\ r.ok = k.ok
             /\ \A q \in HeapRange : q \notin from + 1 .. to => KernelPage(r, q) = KernelPage(k, q)
<1> DEFINE s == [i \in 1 .. to - from |-> i - 1]
           V == {x \in State : /\ Kept(x) /\ SameBlocks(x, k) /\ x.ok = k.ok
                               /\ \A q \in HeapRange : q \notin from + 1 .. to =>
                                    KernelPage(x, q) = KernelPage(k, q)}
<1>1. s \in Seq(Nat) /\ Len(s) = to - from /\ Len(s) \in Nat
      /\ \A i \in 1 .. Len(s) : to - s[i] \in from + 1 .. to
  OBVIOUS
<1>2. k \in V
  BY DEF SameBlocks, Kept
<1> HIDE DEF s
<1>3. ASSUME NEW x \in V, NEW i \in 1 .. Len(s) PROVE vmm_unmap_page(x, d, to - s[i]) \in V
  <2> DEFINE p == to - s[i]
             y == vmm_unmap_page(x, d, p)
  <2>1. p \in from + 1 .. to /\ Kept(x) /\ SameBlocks(x, k)
    BY <1>1
  <2>2. Spare(x, p) /\ d \in DOMAIN x.dirs
    BY <2>1 DEF Spare, SameBlocks
  <2> HIDE DEF p
  <2>3. /\ Kept(y) /\ SameBlocks(y, x) /\ y.ok = x.ok
        /\ \A q \in HeapRange : q # p => KernelPage(y, q) = KernelPage(x, q)
    BY <2>1, <2>2, PageUnmapped
  <2> HIDE DEF y
  <2>4. SameBlocks(y, k) /\ y \in State
    BY <2>1, <2>3 DEF SameBlocks, Kept
  <2>5. \A q \in HeapRange : q \notin from + 1 .. to => KernelPage(y, q) = KernelPage(k, q)
    BY <2>1, <2>3
  <2>6. y \in V
    BY <2>3, <2>4, <2>5
  <2> QED
    BY <2>6 DEF y, p
<1> HIDE DEF V
<1>4. PICK h : /\ h[0] = k /\ h[Len(s)] = UnmappedAll(k, d, to, s)
               /\ \A i \in 1 .. Len(s) : h[i] = vmm_unmap_page(h[i - 1], d, to - s[i])
  <2>1. UnmapsIn(V, d, to, s)
    BY <1>3 DEF UnmapsIn
  <2> QED
    <3>1. \E h : UnmapSteps(h, k, d, to, s)
      BY <1>1, <1>2, <2>1, UnmapsInSteps
    <3> QED
      BY <3>1 DEF UnmapSteps
<1> DEFINE T == {i \in 0 .. Len(s) : h[i] \in V}
<1>5. 0 \in T
  BY <1>1, <1>2, <1>4
<1>6. \A i \in 1 .. Len(s) : i - 1 \in T => i \in T
  BY <1>1, <1>3, <1>4
<1>7. Len(s) \in T
  <2> HIDE DEF T
  <2>1. \A i \in 0 .. Len(s) : i \in T
    BY <1>1, <1>5, <1>6, InductionTo
  <2> QED
    BY <1>1, <2>1
<1>8. UnmappedAll(k, d, to, s) = Unmapped(k, d, from, to)
  BY DEF UnmappedAll, Unmapped, s
<1>9. Unmapped(k, d, from, to) \in V
  BY <1>4, <1>7, <1>8
<1> QED
  BY <1>9 DEF V

(* Nothing but the heap's end changes, to where no block is behind it.     *)
EndAt(k, end) == [k EXCEPT !.heap = [end |-> end, moved |-> TRUE]]
LEMMA EndMoved ==
  ASSUME NEW k, Kept(k), NEW end \in Nat, end <= HeapStart + HeapMax,
         \A b \in BlocksOf(k) : b.at = 0 \/ b.at + b.n <= end
  PROVE  LET r == EndAt(k, end)
         IN  /\ Kept(r) /\ r.heap.end = end /\ r.heap.moved = TRUE /\ r.ok = k.ok /\ r.dirs = k.dirs
             /\ r.tables = k.tables /\ r.blocks = k.blocks
             /\ \A q : KernelPage(r, q) = KernelPage(k, q)
<1> DEFINE r == EndAt(k, end)
<1>1. k \in State
  BY DEF Kept
<1>2. r = [marked |-> k.marked, tables |-> k.tables, dirs |-> k.dirs,
           heap |-> [end |-> end, moved |-> TRUE], blocks |-> k.blocks, ok |-> k.ok]
  <2>1. k = [marked |-> k.marked, tables |-> k.tables, dirs |-> k.dirs, heap |-> k.heap,
             blocks |-> k.blocks, ok |-> k.ok]
    BY <1>1, StateTypes
  <2>2. r = [k EXCEPT !.heap = [end |-> end, moved |-> TRUE]]
    BY DEF EndAt
  <2> HIDE DEF r
  <2> QED
    BY <2>1, <2>2
<1> HIDE DEF r
<1>3. /\ r.marked = k.marked /\ r.tables = k.tables /\ r.dirs = k.dirs
      /\ r.blocks = k.blocks /\ r.ok = k.ok /\ r.heap.end = end /\ r.heap.moved = TRUE
  BY <1>2
<1>4. r \in State
  BY <1>1, <1>2, StateTypes DEF State
<1>5. \A q : KernelPage(r, q) = KernelPage(k, q)
  BY <1>3 DEF KernelPage
<1>6. Owned(r) /\ Shared(r)
  BY <1>3 DEF Kept, Owned, Shared
<1>7. Fixed(r)
  BY <1>3, <1>5 DEF Kept, Fixed
<1>8. Reached(r)
  BY <1>3, <1>5 DEF Kept, Reached
<1>9. Within(r)
  <2>1. \A d \in DOMAIN k.dirs : Lies(r, k.dirs[d].at, 2)
    <3> SUFFICES ASSUME NEW d \in DOMAIN k.dirs PROVE Lies(r, k.dirs[d].at, 2)
      OBVIOUS
    <3> DEFINE b == [at |-> k.dirs[d].at, n |-> 2]
    <3>1. b \in BlocksOf(k) /\ b.at = k.dirs[d].at /\ b.n = 2
      BY DEF BlocksOf
    <3>2. Lies(k, k.dirs[d].at, 2)
      BY DEF Kept, Within
    <3> QED
      BY <1>3, <3>1, <3>2 DEF Lies
  <2>2. \A t \in DOMAIN k.tables : Lies(r, k.tables[t].at, 1)
    <3> SUFFICES ASSUME NEW t \in DOMAIN k.tables PROVE Lies(r, k.tables[t].at, 1)
      OBVIOUS
    <3> DEFINE b == [at |-> k.tables[t].at, n |-> 1]
    <3>1. b \in BlocksOf(k) /\ b.at = k.tables[t].at /\ b.n = 1
      BY DEF BlocksOf
    <3>2. Lies(k, k.tables[t].at, 1)
      BY DEF Kept, Within
    <3> QED
      BY <1>3, <3>1, <3>2 DEF Lies
  <2>3. \A b \in k.blocks : b.at # 0 /\ Lies(r, b.at, b.n)
    <3>1. \A b \in k.blocks : b \in BlocksOf(k)
      BY DEF BlocksOf
    <3>2. \A b \in k.blocks : b.at # 0 /\ Lies(k, b.at, b.n)
      BY DEF Kept, Within
    <3> QED
      BY <1>3, <3>1, <3>2 DEF Lies
  <2> QED
    BY <1>3, <2>1, <2>2, <2>3 DEF Within
<1> QED
  BY <1>3, <1>4, <1>5, <1>6, <1>7, <1>8, <1>9 DEF Kept, r

(* Where blocks are.                                                       *)
LEMMA BlockTypes ==
  ASSUME NEW k, Kept(k), NEW b \in BlocksOf(k)
  PROVE  /\ b.at \in Nat /\ b.n \in Nat \ {0} /\ Lies(k, b.at, b.n)
         /\ b.at = 0 => b.n \in {1, 2}
<1>1. k \in State /\ Within(k)
  BY DEF Kept
<1>2. CASE b \in k.blocks
  BY <1>1, <1>2, StateTypes DEF Within
<1>3. CASE \E d \in DOMAIN k.dirs : b = [at |-> k.dirs[d].at, n |-> 2]
  BY <1>1, <1>3, StateTypes, DirTypes DEF Within
<1>4. CASE \E t \in DOMAIN k.tables : b = [at |-> k.tables[t].at, n |-> 1]
  BY <1>1, <1>4, StateTypes DEF Within
<1> QED
  BY <1>2, <1>3, <1>4 DEF BlocksOf
LEMMA Stopped ==
  ASSUME NEW k, Kept(k)
  PROVE  Sound(Stop(k)) /\ SameBlocks(Stop(k), k) /\ Stop(k).ok = FALSE
<1> DEFINE r == Stop(k)
<1>1. k \in State
  BY DEF Kept
<1>2. r = [marked |-> k.marked, tables |-> k.tables, dirs |-> k.dirs, heap |-> k.heap,
           blocks |-> k.blocks, ok |-> FALSE]
  <2>1. k = [marked |-> k.marked, tables |-> k.tables, dirs |-> k.dirs, heap |-> k.heap,
             blocks |-> k.blocks, ok |-> k.ok]
    BY <1>1, StateTypes
  <2>2. r = [k EXCEPT !.ok = FALSE]
    BY DEF Stop
  <2> HIDE DEF r
  <2> QED
    BY <2>1, <2>2
<1> HIDE DEF r
<1>3. SameBlocks(r, k) /\ r.ok = FALSE
  BY <1>2 DEF SameBlocks
<1>4. r \in State
  BY <1>1, <1>2, StateTypes DEF State
<1>5. Kept(r)
  BY <1>2, <1>4, KeptAlike
<1> QED
  BY <1>3, <1>5 DEF Sound, r

LEMMA SameBlocksOf ==
  ASSUME NEW k, NEW r, r.dirs = k.dirs, r.blocks = k.blocks, DOMAIN r.tables = DOMAIN k.tables,
         \A t \in DOMAIN k.tables : r.tables[t].at = k.tables[t].at
  PROVE  BlocksOf(r) = BlocksOf(k)
<1>1. {[at |-> r.tables[t].at, n |-> 1] : t \in DOMAIN r.tables}
        = {[at |-> k.tables[t].at, n |-> 1] : t \in DOMAIN k.tables}
  OBVIOUS
<1> QED
  BY <1>1 DEF BlocksOf

(* expand maps the pages that the heap grows by, and the first block that  *)
(* is asked for fits in behind all others.                                 *)
LEMMA Expanded ==
  ASSUME NEW k, Kept(k), k.ok, HeapOk(k), NEW n \in Nat \ {0}
  PROVE  LET r == expand(k, n)
         IN  Sound(r) /\ r.dirs = k.dirs /\ (r.ok => Room(r, n) # {})
<1> DEFINE r == expand(k, n)
           e0 == k.heap.end
           e1 == e0 + n + 1
           k0 == [k EXCEPT !.heap = [end |-> e1, moved |-> TRUE]]
           s == [i \in 1 .. n + 1 |-> e0 + i - 1]
           V == {x \in State : Kept(x)}
<1>1. k \in State /\ e0 \in Nat /\ e1 \in Nat /\ n \in Nat /\ n > 0
  BY StateTypes DEF Kept
<1>2. CASE k.heap.moved \/ e1 > HeapStart + HeapMax
  <2>1. r = Stop(k)
    BY <1>2 DEF expand
  <2> HIDE DEF r
  <2>2. Sound(r) /\ r.dirs = k.dirs /\ r.ok = FALSE
    BY <2>1, Stopped DEF SameBlocks
  <2> QED
    BY <2>2 DEF r
<1>3. CASE ~k.heap.moved /\ e1 <= HeapStart + HeapMax
  <2>1. /\ e0 = HeapStart + HeapInitial
        /\ \A b \in BlocksOf(k) : b.at + b.n < e0
        /\ \A q \in HeapStart .. e0 - 1 : KernelPage(k, q) # None
    BY <1>3 DEF HeapOk
  <2>2. r = MappedAll(k0, s)
    <3>1. ~(k.heap.moved \/ k.heap.end + n + 1 > HeapStart + HeapMax)
      BY <1>1, <1>3, Bounds
    <3> QED
      BY <3>1 DEF expand, MappedAll
  <2>3. /\ Kept(k0) /\ k0.heap.end = e1 /\ k0.heap.moved = TRUE /\ k0.ok = k.ok
        /\ k0.dirs = k.dirs /\ k0.tables = k.tables /\ k0.blocks = k.blocks
        /\ \A q : KernelPage(k0, q) = KernelPage(k, q)
    <3>1. \A b \in BlocksOf(k) : b.at + b.n <= e1
      <4> SUFFICES ASSUME NEW b \in BlocksOf(k) PROVE b.at + b.n <= e1
        OBVIOUS
      <4>1. b.at \in Nat /\ b.n \in Nat
        BY BlockTypes
      <4> QED
        BY <1>1, <2>1, <4>1
    <3> HIDE DEF e1
    <3>2. e1 \in Nat /\ e1 <= HeapStart + HeapMax
      BY <1>1, <1>3
    <3>3. k0 = EndAt(k, e1)
      BY DEF EndAt
    <3> HIDE DEF k0
    <3> QED
      BY <3>1, <3>2, <3>3, EndMoved
  <2> HIDE DEF r, k0
  <2>4. /\ s \in Seq(Nat) /\ Len(s) = n + 1
        /\ \A i \in 1 .. n + 1 : s[i] = e0 + i - 1
    BY <1>1
  <2>5. \A i \in 1 .. n + 1 : s[i] \in HeapRange /\ s[i] >= HeapStart + HeapInitial
    BY <1>1, <1>3, <2>1, <2>4, Bounds DEF HeapRange
  <2> HIDE DEF s
  <2>6. ASSUME NEW x \in V, NEW i \in 1 .. Len(s)
        PROVE  LET y == MapIn(x, Kernel, s[i])
               IN  /\ y \in V /\ y.ok \in BOOLEAN /\ (y.ok => x.ok) /\ SameBlocks(y, x)
                   /\ \A q \in HeapRange :
                        KernelPage(x, q) # None => KernelPage(y, q) = KernelPage(x, q)
                   /\ y.ok => KernelPage(y, s[i]) # None
    <3> DEFINE y == MapIn(x, Kernel, s[i])
    <3>1. Kept(x) /\ Shared(x) /\ Kernel \in DOMAIN x.dirs
      BY DEF Kept, Shared
    <3>2. s[i] \in HeapRange /\ s[i] >= HeapStart + HeapInitial
      BY <2>4, <2>5
    <3>3. x.dirs[Kernel].tables[TableOf(s[i])] # 0
      BY <3>1, <3>2, HeapPagesApart DEF Shared
    <3>4. /\ Kept(y) /\ y.ok \in BOOLEAN /\ (y.ok => x.ok) /\ SameBlocks(y, x)
          /\ \A q \in HeapRange : KernelPage(x, q) # None => KernelPage(y, q) = KernelPage(x, q)
          /\ y.ok => FrameAt(y, Kernel, s[i]) # None
      BY <3>1, <3>2, <3>3, PageMapped
    <3> HIDE DEF y
    <3>5. y \in State /\ FrameAt(y, Kernel, s[i]) = KernelPage(y, s[i])
      BY <3>2, <3>4, KernelFrames DEF Kept
    <3>6. /\ y \in V /\ y.ok \in BOOLEAN /\ (y.ok => x.ok) /\ SameBlocks(y, x)
          /\ \A q \in HeapRange : KernelPage(x, q) # None => KernelPage(y, q) = KernelPage(x, q)
          /\ y.ok => KernelPage(y, s[i]) # None
      BY <3>4, <3>5
    <3> QED
      BY <3>6 DEF y
  <2>7. k0 \in V
    BY <2>3 DEF Kept
  <2> HIDE DEF V
  <2>8. PICK h : MapSteps(h, k0, s)
    <3>1. MapsIn(V, s)
      BY <2>6 DEF MapsIn
    <3> QED
      BY <2>4, <2>7, <3>1, MapsInSteps
  <2>9. /\ h[0] = k0 /\ h[n + 1] = r
        /\ \A i \in 1 .. n + 1 : h[i] = MapIn(h[i - 1], Kernel, s[i])
    BY <2>2, <2>4, <2>8 DEF MapSteps
  <2> DEFINE Ok(x, i) == /\ x \in V /\ SameBlocks(x, k0)
                         /\ x.ok => \A q \in HeapStart .. e0 + i - 1 : KernelPage(x, q) # None
             T == {i \in 0 .. n + 1 : Ok(h[i], i)}
  <2>10. 0 \in T
    <3>1. SameBlocks(k0, k0) /\ \A q \in HeapStart .. e0 + 0 - 1 : KernelPage(k0, q) # None
      BY <1>1, <2>1, <2>3 DEF SameBlocks
    <3> QED
      BY <1>1, <2>7, <2>9, <3>1
  <2>11. ASSUME NEW i \in 1 .. n + 1, i - 1 \in T PROVE i \in T
    <3> DEFINE x == h[i - 1]
               y == h[i]
               p == s[i]
    <3>1. /\ x \in V /\ SameBlocks(x, k0)
          /\ x.ok => \A q \in HeapStart .. e0 + (i - 1) - 1 : KernelPage(x, q) # None
      BY <2>11
    <3>2. y = MapIn(x, Kernel, p) /\ p = e0 + i - 1 /\ p \in HeapRange /\ i \in 1 .. Len(s)
      BY <2>4, <2>5, <2>9
    <3> HIDE DEF x, y, p
    <3>3. /\ y \in V /\ (y.ok => x.ok) /\ SameBlocks(y, x)
          /\ \A q \in HeapRange : KernelPage(x, q) # None => KernelPage(y, q) = KernelPage(x, q)
          /\ y.ok => KernelPage(y, p) # None
      BY <2>6, <3>1, <3>2 DEF p
    <3>4. SameBlocks(y, k0)
      BY <3>1, <3>3 DEF SameBlocks
    <3>5. ASSUME y.ok, NEW q \in HeapStart .. e0 + i - 1 PROVE KernelPage(y, q) # None
      <4>1. q \in HeapRange /\ (q = p \/ q \in HeapStart .. e0 + (i - 1) - 1)
        BY <1>1, <3>2, Bounds DEF HeapRange
      <4> QED
        BY <3>1, <3>3, <3>5, <4>1
    <3>6. Ok(y, i)
      BY <3>3, <3>4, <3>5
    <3> QED
      BY <3>6 DEF y
  <2>12. Ok(r, n + 1)
    <3> HIDE DEF Ok
    <3>1. n + 1 \in T
      <4>1. n + 1 \in Nat /\ n + 1 \in 0 .. n + 1
        BY <1>1
      <4> HIDE DEF T
      <4>2. \A i \in 0 .. n + 1 : i \in T
        BY <2>10, <2>11, <4>1, InductionTo
      <4> QED
        BY <4>1, <4>2
    <3> QED
      BY <2>9, <3>1
  <2>13. /\ Kept(r) /\ r.heap.end = e1 /\ r.heap.moved = TRUE /\ r.dirs = k.dirs
         /\ BlocksOf(r) = BlocksOf(k)
    <3>1. SameBlocks(r, k0) /\ Kept(r)
      BY <2>12 DEF V
    <3>2. BlocksOf(r) = BlocksOf(k0) /\ BlocksOf(k0) = BlocksOf(k)
      <4>1. BlocksOf(r) = BlocksOf(k0)
        BY <3>1, SameBlocksOf DEF SameBlocks
      <4>2. BlocksOf(k0) = BlocksOf(k)
        BY <2>3 DEF BlocksOf
      <4> QED
        BY <4>1, <4>2
    <3> QED
      BY <2>3, <3>1, <3>2 DEF SameBlocks
  <2>14. r.ok => HeapOk(r)
    <3>1. e0 + (n + 1) - 1 = e1 - 1 /\ HeapStart + HeapMin <= e1
      BY <1>1, <2>1, Bounds
    <3> HIDE DEF e1
    <3>2. r.ok => \A q \in HeapStart .. e1 - 1 : KernelPage(r, q) # None
      BY <2>12, <3>1
    <3> QED
      BY <2>13, <3>1, <3>2 DEF HeapOk
  <2>15. e0 \in Room(r, n)
    <3>1. e0 \in HeapStart + 1 .. e1 - n - 1
      BY <1>1, <2>1, Bounds
    <3>2. \A b \in BlocksOf(r) : b.at + b.n < e0
      BY <2>1, <2>13
    <3> QED
      BY <2>13, <3>1, <3>2 DEF Room
  <2> QED
    BY <2>13, <2>14, <2>15 DEF Sound, r
<1> QED
  BY <1>1, <1>2, <1>3, Bounds
(* kmalloc_ap finds pages of the heap that have frames.                    *)
GivenTo(r, k, n) ==
  /\ Sound(r.k) /\ r.k.dirs = k.dirs
  /\ r.k.ok => /\ k.ok /\ r.at \in Nat /\ HeapStart < r.at /\ r.at + n < r.k.heap.end
               /\ \A p \in r.at .. r.at + n : p \in HeapRange /\ KernelPage(r.k, p) # None
LEMMA Given ==
  ASSUME NEW k, Sound(k), NEW n \in Nat \ {0}
  PROVE  GivenTo(kmalloc_ap(k, n), k, n)
<1> DEFINE x == Roomy(k, n)
<1>1. CASE ~k.ok
  <2>1. kmalloc_ap(k, n) = [k |-> k, at |-> 0]
    BY <1>1 DEF kmalloc_ap
  <2> QED
    BY <1>1, <2>1 DEF GivenTo
<1>2. CASE k.ok
  <2>1. Kept(k) /\ HeapOk(k)
    BY <1>2 DEF Sound
  <2>2. Sound(x) /\ x.dirs = k.dirs /\ (x.ok => Room(x, n) # {})
    <3>1. CASE Room(k, n) = {}
      <4>1. x = expand(k, n)
        BY <3>1 DEF Roomy
      <4> HIDE DEF x
      <4> QED
        BY <1>2, <2>1, <4>1, Expanded
    <3>2. CASE Room(k, n) # {}
      BY <3>2 DEF Roomy
    <3> QED
      BY <3>1, <3>2
  <2>3. kmalloc_ap(k, n) = Placed(x, n)
    BY <1>2 DEF kmalloc_ap
  <2> HIDE DEF x
  <2>4. CASE ~x.ok
    <3>1. kmalloc_ap(k, n) = [k |-> x, at |-> 0]
      BY <2>3, <2>4 DEF Placed
    <3> QED
      BY <2>2, <2>4, <3>1 DEF GivenTo
  <2>5. CASE x.ok
    <3> DEFINE at == Min(Room(x, n))
    <3>1. kmalloc_ap(k, n) = [k |-> x, at |-> at]
      BY <2>3, <2>5 DEF Placed
    <3>2. x \in State /\ x.heap.end \in Nat /\ HeapOk(x) /\ x.heap.end <= HeapStart + HeapMax
      BY <2>2, <2>5, StateTypes DEF Sound, Kept, Within
    <3>3. at \in Room(x, n)
      <4>1. Room(x, n) \in SUBSET Nat /\ Room(x, n) # {}
        BY <2>2, <2>5, <3>2, Bounds DEF Room
      <4>2. PICK y \in Room(x, n) : \A z \in Room(x, n) : y <= z
        BY <4>1, LeastElement
      <4> QED
        BY <4>2 DEF Min
    <3> HIDE DEF at
    <3>4. at \in HeapStart + 1 .. x.heap.end - n - 1
      BY <3>3 DEF Room
    <3>5. at \in Nat /\ HeapStart < at /\ at + n < x.heap.end
      BY <3>2, <3>4, Bounds
    <3>6. ASSUME NEW p \in at .. at + n PROVE p \in HeapRange /\ KernelPage(x, p) # None
      <4>1. p \in HeapStart .. x.heap.end - 1 /\ p \in HeapRange
        BY <3>2, <3>5, Bounds DEF HeapRange
      <4> QED
        BY <3>2, <4>1 DEF HeapOk
    <3> QED
      BY <1>2, <2>2, <3>1, <3>5, <3>6 DEF GivenTo
  <2> QED
    BY <2>4, <2>5
<1> QED
  BY <1>1, <1>2

(* Other blocks of the heap.                                               *)
LEMMA BlockTaken ==
  ASSUME NEW k, NEW n \in Nat \ {0}, NEW r, GivenTo(r, k, n)
  PROVE  Sound(Taken(r, n)) /\ Taken(r, n).dirs = k.dirs
<1> DEFINE x == r.k
           b == [at |-> r.at, n |-> n]
           y == Taken(r, n)
<1>1. CASE ~x.ok
  BY <1>1 DEF Taken, GivenTo
<1>2. CASE x.ok
  <2>1. /\ Kept(x) /\ HeapOk(x) /\ x.dirs = k.dirs /\ r.at \in Nat /\ HeapStart < r.at
        /\ r.at + n < x.heap.end /\ x \in State
    BY <1>2 DEF GivenTo, Sound, Kept
  <2>2. y = [x EXCEPT !.blocks = @ \cup {b}]
    BY <1>2 DEF Taken
  <2> HIDE DEF x, y
  <2>3. y = [marked |-> x.marked, tables |-> x.tables, dirs |-> x.dirs, heap |-> x.heap,
             blocks |-> x.blocks \cup {b}, ok |-> x.ok]
    <3>1. x = [marked |-> x.marked, tables |-> x.tables, dirs |-> x.dirs, heap |-> x.heap,
               blocks |-> x.blocks, ok |-> x.ok]
      BY <2>1, StateTypes
    <3> QED
      BY <2>2, <3>1
  <2>4. b \in [at : Nat, n : Nat \ {0}] /\ b.at = r.at /\ b.n = n
    BY <2>1
  <2>5. y \in State
    <3>1. x.blocks \cup {b} \in SUBSET [at : Nat, n : Nat \ {0}]
      BY <2>1, <2>4, StateTypes
    <3> HIDE DEF b
    <3> QED
      BY <2>1, <2>3, <3>1, StateTypes DEF State
  <2>6. \A q : KernelPage(y, q) = KernelPage(x, q)
    BY <2>3 DEF KernelPage
  <2>7. Within(y)
    <3>1. Within(x) /\ x.heap.end \in Nat
      BY <2>1, StateTypes DEF Kept
    <3>2. r.at + n <= x.heap.end
      BY <2>1, <3>1
    <3>3. \A c \in x.blocks \cup {b} : c.at # 0 /\ Lies(y, c.at, c.n)
      BY <2>1, <2>3, <2>4, <3>1, <3>2, Bounds DEF Within, Lies
    <3> HIDE DEF b
    <3>4. /\ \A d \in DOMAIN x.dirs : Lies(y, x.dirs[d].at, 2)
          /\ \A t \in DOMAIN x.tables : Lies(y, x.tables[t].at, 1)
      BY <2>3, <3>1 DEF Within, Lies
    <3> QED
      BY <2>3, <3>1, <3>3, <3>4 DEF Within
  <2>8. Owned(y) /\ Shared(y) /\ Fixed(y) /\ Reached(y)
    <3>1. Owned(y)
      BY <2>1, <2>3 DEF Kept, Owned
    <3>2. Shared(y)
      BY <2>1, <2>3 DEF Kept, Shared
    <3>3. Fixed(y)
      BY <2>1, <2>3, <2>6 DEF Kept, Fixed
    <3>4. Reached(y)
      BY <2>1, <2>3, <2>6 DEF Kept, Reached
    <3> QED
      BY <3>1, <3>2, <3>3, <3>4
  <2>9. HeapOk(y)
    <3>1. BlocksOf(y) = BlocksOf(x) \cup {b}
      BY <2>3 DEF BlocksOf
    <3>2. ~y.heap.moved => \A c \in BlocksOf(y) : c.at + c.n < y.heap.end
      BY <2>1, <2>3, <2>4, <3>1 DEF HeapOk
    <3> QED
      BY <2>1, <2>3, <2>6, <3>2 DEF HeapOk
  <2> QED
    BY <2>1, <2>3, <2>5, <2>7, <2>8, <2>9 DEF Kept, Sound, y
<1> QED
  BY <1>1, <1>2
(* A table for pages of a directory that has none for them yet.            *)
LEMMA TableMade ==
  ASSUME NEW k, Sound(k), NEW d \in DOMAIN k.dirs, NEW i \in Index, k.dirs[d].tables[i] = 0,
         NEW r, GivenTo(r, k, 1)
  PROVE  LET y == WithTable(r, d, i)
         IN  Sound(y) /\ Len(y.dirs) = Len(k.dirs) /\ (y.ok => k.ok /\ y.dirs[d].tables[i] # 0)
<1> DEFINE x == r.k
           y == WithTable(r, d, i)
<1>1. CASE ~x.ok
  <2>1. y = x
    BY <1>1 DEF WithTable
  <2> QED
    BY <1>1, <2>1 DEF GivenTo
<1>2. CASE x.ok
  <2> DEFINE N == Len(x.tables) + 1
             f == FrameAt(x, Kernel, r.at)
             new == [pages |-> NoPages, at |-> r.at]
             tables2 == Append(x.tables, new)
             D == x.dirs[d]
             D2 == [tables |-> [D.tables EXCEPT ![i] = N], phys |-> [D.phys EXCEPT ![i] = f],
                    at |-> D.at, physicalAddr |-> D.physicalAddr]
             dirs2 == [x.dirs EXCEPT ![d] = D2]
  <2>1. /\ Kept(x) /\ HeapOk(x) /\ x.dirs = k.dirs /\ r.at \in Nat /\ HeapStart < r.at
        /\ r.at + 1 < x.heap.end /\ x \in State /\ k.ok /\ r.at \in HeapRange
        /\ KernelPage(x, r.at) # None /\ Shared(x)
    BY <1>2 DEF GivenTo, Sound, Kept
  <2>2. /\ D \in Directory /\ D.tables \in [Index -> Nat] /\ D.phys \in [Index -> Nat \cup {None}]
        /\ D.at \in Nat /\ D.physicalAddr \in Nat /\ D.tables[i] = 0
    BY <2>1, StateTypes, DirTypes
  <2>3. f = KernelPage(x, r.at) /\ f # None /\ f \in Nat \cup {None}
    <3>1. f = KernelPage(x, r.at) /\ f = x.tables[2].pages[Slot(r.at)]
      BY <2>1, KernelFrames
    <3>2. 2 \in DOMAIN x.tables /\ Slot(r.at) \in Slots
      BY <2>1, HeapPagesApart DEF Shared
    <3>3. x.tables[2].pages \in [Slots -> Nat \cup {None}]
      BY <2>1, <3>2, StateTypes
    <3> QED
      BY <2>1, <3>1, <3>2, <3>3
  <2>4. y = [marked |-> x.marked, tables |-> tables2, dirs |-> dirs2, heap |-> x.heap,
             blocks |-> x.blocks, ok |-> x.ok]
    <3> DEFINE x1 == [x EXCEPT !.tables = Append(@, new)]
               x2 == [marked |-> x.marked, tables |-> tables2, dirs |-> x.dirs, heap |-> x.heap,
                      blocks |-> x.blocks, ok |-> x.ok]
               E1 == [D EXCEPT !.tables[i] = N]
    <3>1. x1 = x2
      <4>1. x = [marked |-> x.marked, tables |-> x.tables, dirs |-> x.dirs, heap |-> x.heap,
                 blocks |-> x.blocks, ok |-> x.ok]
        BY <2>1, StateTypes
      <4> HIDE DEF x, new
      <4> QED
        BY <4>1
    <3>2. y = [[x1 EXCEPT !.dirs[d].tables[i] = N] EXCEPT !.dirs[d].phys[i] = f]
      BY <1>2 DEF WithTable
    <3>3. D = [tables |-> D.tables, phys |-> D.phys, at |-> D.at, physicalAddr |-> D.physicalAddr]
      BY <2>2 DEF Directory
    <3>4. E1 = [tables |-> [D.tables EXCEPT ![i] = N], phys |-> D.phys, at |-> D.at,
                physicalAddr |-> D.physicalAddr]
      <4> HIDE DEF D, N
      <4> QED
        BY <3>3
    <3>5. [E1 EXCEPT !.phys[i] = f] = D2
      <4> HIDE DEF D, N, f, E1
      <4> QED
        BY <3>4
    <3>6. [x.dirs EXCEPT ![d].tables[i] = N] = [x.dirs EXCEPT ![d] = E1]
      OBVIOUS
    <3>7. x.dirs \in Seq(Directory) /\ d \in DOMAIN x.dirs
      BY <2>1, StateTypes
    <3> HIDE DEF x, D, E1, D2, N, f, tables2, x1
    <3>8. [[x.dirs EXCEPT ![d] = E1] EXCEPT ![d].phys[i] = f] = dirs2
      BY <3>5, <3>7
    <3> HIDE DEF y, dirs2
    <3>9. [x2 EXCEPT !.dirs[d].tables[i] = N]
            = [marked |-> x.marked, tables |-> tables2, dirs |-> [x.dirs EXCEPT ![d] = E1],
               heap |-> x.heap, blocks |-> x.blocks, ok |-> x.ok]
      BY <3>6
    <3> QED
      BY <3>1, <3>2, <3>8, <3>9
  <2>5. /\ N \in Nat /\ N > 2 /\ Len(x.tables) \in Nat /\ DOMAIN x.tables = 1 .. Len(x.tables)
        /\ x.tables \in Seq(Table) /\ {1, 2} \subseteq DOMAIN x.tables
    BY <2>1, StateTypes DEF Shared
  <2>6. NoPages \in [Slots -> Nat \cup {None}] /\ \A s \in Slots : NoPages[s] = None
    BY DEF NoPages, Slots
  <2>7. new \in Table /\ new.pages = NoPages /\ new.at = r.at
    BY <2>1, <2>6 DEF Table
  <2> HIDE DEF new
  <2>8. /\ tables2 \in Seq(Table) /\ Len(tables2) = N /\ DOMAIN tables2 = 1 .. N
        /\ tables2[N] = new /\ \A t \in DOMAIN x.tables : tables2[t] = x.tables[t]
    BY <2>5, <2>7
  <2>9. /\ D2 \in Directory /\ D2.at = D.at /\ D2.physicalAddr = D.physicalAddr
        /\ \A j \in Index : /\ D2.tables[j] = IF j = i THEN N ELSE D.tables[j]
                            /\ D2.phys[j] = IF j = i THEN f ELSE D.phys[j]
    <3>1. [D.tables EXCEPT ![i] = N] \in [Index -> Nat]
      BY <2>2, <2>5
    <3>2. [D.phys EXCEPT ![i] = f] \in [Index -> Nat \cup {None}]
      BY <2>2, <2>3
    <3> HIDE DEF N, f, D
    <3> QED
      BY <2>2, <3>1, <3>2 DEF Directory
  <2> HIDE DEF D2
  <2>10. /\ dirs2 \in Seq(Directory) /\ Len(dirs2) = Len(x.dirs) /\ DOMAIN dirs2 = DOMAIN x.dirs
         /\ \A e \in DOMAIN x.dirs : dirs2[e] = IF e = d THEN D2 ELSE x.dirs[e]
    BY <2>1, <2>9, StateTypes
  <2> HIDE DEF y, tables2, dirs2, f
  <2>11. /\ y.marked = x.marked /\ y.tables = tables2 /\ y.dirs = dirs2 /\ y.heap = x.heap
         /\ y.blocks = x.blocks /\ y.ok = x.ok
    BY <2>4
  <2>12. y \in State
    BY <2>1, <2>4, <2>8, <2>10, StateTypes DEF State
  <2> HIDE DEF x, D, N
  <2>13. \A q : KernelPage(y, q) = KernelPage(x, q)
    BY <2>5, <2>8, <2>11 DEF KernelPage
  <2>14. Owned(y)
    <3>1. Owned(x)
      BY <2>1 DEF Kept
    <3>2. \A t \in 1 .. N : t # N => t \in DOMAIN x.tables
      BY <2>5 DEF N
    <3>3. DOMAIN x.tables \subseteq 1 .. N
      BY <2>5 DEF N
    <3>4. \A s \in Slots : tables2[N].pages[s] = None
      BY <2>6, <2>7, <2>8
    <3>5. \A t \in 1 .. N, s \in Slots :
            tables2[t].pages[s] # None => tables2[t].pages[s] \in x.marked
      BY <2>8, <3>1, <3>2, <3>4 DEF Owned
    <3>6. \A g \in x.marked : \E t \in 1 .. N, s \in Slots : tables2[t].pages[s] = g
      BY <2>8, <3>1, <3>3 DEF Owned
    <3>7. \A t, u \in 1 .. N, s, v \in Slots :
            tables2[t].pages[s] # None /\ tables2[t].pages[s] = tables2[u].pages[v]
              => t = u /\ s = v
      BY <2>8, <3>1, <3>2, <3>4 DEF Owned
    <3> QED
      BY <2>8, <2>11, <3>5, <3>6, <3>7 DEF Owned
  <2>15. Shared(y)
    <3>1. Kernel \in DOMAIN x.dirs /\ i \notin {0, HeapTable}
      BY <2>1, <2>2 DEF Shared, D
    <3>2. {1, 2} \subseteq DOMAIN tables2
      BY <2>5, <2>8
    <3>3. ASSUME NEW e \in DOMAIN x.dirs, NEW j \in Index
          PROVE  /\ dirs2[e].tables[j] \in 0 .. N
                 /\ dirs2[e].tables[j] = 1 <=> j = 0
                 /\ dirs2[e].tables[j] = 2 <=> j = HeapTable
      <4>1. /\ x.dirs[e].tables[j] \in 0 .. Len(x.tables)
            /\ x.dirs[e].tables[j] = 1 <=> j = 0
            /\ x.dirs[e].tables[j] = 2 <=> j = HeapTable
        BY <2>1 DEF Shared
      <4>2. x.dirs[e].tables[j] \in 0 .. N
        BY <2>5, <4>1 DEF N
      <4>3. CASE e = d /\ j = i
        BY <2>5, <2>9, <2>10, <3>1, <4>3
      <4>4. CASE ~(e = d /\ j = i)
        <5>1. dirs2[e].tables[j] = x.dirs[e].tables[j]
          BY <2>9, <2>10, <4>4 DEF D
        <5> QED
          BY <4>1, <4>2, <5>1
      <4> QED
        BY <4>3, <4>4
    <3>4. ASSUME NEW e \in DOMAIN x.dirs
          PROVE  dirs2[e].phys[0] = 0 /\ dirs2[e].phys[HeapTable] = 0
      <4>1. x.dirs[e].phys[0] = 0 /\ x.dirs[e].phys[HeapTable] = 0
        BY <2>1 DEF Shared
      <4>2. 0 \in Index /\ HeapTable \in Index
        BY HeapPagesApart
      <4> QED
        BY <2>9, <2>10, <3>1, <4>1, <4>2 DEF D
    <3> QED
      BY <2>8, <2>10, <2>11, <3>1, <3>2, <3>3, <3>4 DEF Shared
  <2>16. Fixed(y)
    BY <2>1, <2>5, <2>8, <2>11, <2>13 DEF Kept, Fixed
  <2>17. Within(y)
    <3>1. Within(x) /\ x.heap.end \in Nat
      BY <2>1, StateTypes DEF Kept
    <3>2. r.at + 1 <= x.heap.end
      BY <2>1, <3>1
    <3>3. \A e \in DOMAIN x.dirs : dirs2[e].at = x.dirs[e].at
      BY <2>9, <2>10 DEF D
    <3>4. \A t \in 1 .. N : tables2[t].at = r.at \/ (t \in DOMAIN x.tables /\ tables2[t].at = x.tables[t].at)
      BY <2>5, <2>7, <2>8 DEF N
    <3>5. \A t \in 1 .. N : Lies(y, tables2[t].at, 1)
      BY <2>1, <2>11, <3>1, <3>2, <3>4 DEF Within, Lies
    <3> QED
      BY <2>8, <2>10, <2>11, <3>1, <3>3, <3>5 DEF Within, Lies
  <2>18. Reached(y)
    <3>1. ASSUME NEW e \in DOMAIN x.dirs, NEW j \in Index, dirs2[e].tables[j] # 0
          PROVE  /\ dirs2[e].phys[j] # None
                 /\ dirs2[e].phys[j] = KernelPage(y, tables2[dirs2[e].tables[j]].at)
      <4>1. CASE e = d /\ j = i
        BY <2>3, <2>7, <2>8, <2>9, <2>10, <2>13, <4>1
      <4>2. CASE ~(e = d /\ j = i)
        <5>1. dirs2[e].tables[j] = x.dirs[e].tables[j] /\ dirs2[e].phys[j] = x.dirs[e].phys[j]
          BY <2>9, <2>10, <4>2 DEF D
        <5>2. x.dirs[e].tables[j] \in DOMAIN x.tables
          BY <2>1, <2>5, <3>1, <5>1 DEF Shared
        <5>3. /\ x.dirs[e].phys[j] # None
              /\ x.dirs[e].phys[j] = KernelPage(x, x.tables[x.dirs[e].tables[j]].at)
          BY <2>1, <3>1, <5>1 DEF Kept, Reached
        <5> QED
          BY <2>8, <2>13, <5>1, <5>2, <5>3
      <4> QED
        BY <4>1, <4>2
    <3>2. \A e \in DOMAIN x.dirs : /\ dirs2[e].at = x.dirs[e].at
                                   /\ dirs2[e].physicalAddr = x.dirs[e].physicalAddr
      BY <2>9, <2>10 DEF D
    <3>3. \A e \in DOMAIN x.dirs : dirs2[e].at + 1 < HeapStart + HeapInitial =>
            dirs2[e].physicalAddr = KernelPage(y, dirs2[e].at + 1)
      BY <2>1, <2>13, <3>2 DEF Kept, Reached
    <3> QED
      BY <2>10, <2>11, <3>1, <3>3 DEF Reached
  <2>19. HeapOk(y)
    <3>1. ASSUME NEW b \in BlocksOf(y), ~x.heap.moved PROVE b.at + b.n < x.heap.end
      <4>1. \A c \in BlocksOf(x) : c.at + c.n < x.heap.end
        BY <2>1, <3>1 DEF HeapOk
      <4>2. CASE b \in x.blocks
        BY <4>1, <4>2 DEF BlocksOf
      <4>3. CASE \E e \in DOMAIN x.dirs : b = [at |-> dirs2[e].at, n |-> 2]
        <5>1. PICK e \in DOMAIN x.dirs : b = [at |-> dirs2[e].at, n |-> 2]
          BY <4>3
        <5>2. dirs2[e].at = x.dirs[e].at
          BY <2>9, <2>10 DEF D
        <5>3. b \in BlocksOf(x)
          BY <5>1, <5>2 DEF BlocksOf
        <5> QED
          BY <4>1, <5>3
      <4>4. CASE \E t \in 1 .. N : b = [at |-> tables2[t].at, n |-> 1]
        <5>1. PICK t \in 1 .. N : b = [at |-> tables2[t].at, n |-> 1]
          BY <4>4
        <5>2. CASE t = N
          BY <2>1, <2>7, <2>8, <5>1, <5>2
        <5>3. CASE t # N
          <6>1. t \in DOMAIN x.tables /\ tables2[t].at = x.tables[t].at
            BY <2>5, <2>8, <5>3 DEF N
          <6>2. b \in BlocksOf(x)
            BY <5>1, <6>1 DEF BlocksOf
          <6> QED
            BY <4>1, <6>2
        <5> QED
          BY <5>2, <5>3
      <4> QED
        BY <2>8, <2>10, <2>11, <4>2, <4>3, <4>4 DEF BlocksOf
    <3> QED
      BY <2>1, <2>11, <2>13, <3>1 DEF HeapOk
  <2>20. y.dirs[d].tables[i] # 0 /\ Len(y.dirs) = Len(k.dirs)
    BY <2>1, <2>5, <2>9, <2>10, <2>11
  <2> QED
    BY <1>2, <2>1, <2>12, <2>14, <2>15, <2>16, <2>17, <2>18, <2>19, <2>20 DEF Kept, Sound, y
<1> QED
  BY <1>1, <1>2
LEMMA HeapStays ==
  ASSUME NEW x, Sound(x), NEW r, Kept(r), SameBlocks(r, x), r.ok => x.ok,
         \A q \in HeapRange : KernelPage(x, q) # None => KernelPage(r, q) = KernelPage(x, q)
  PROVE  Sound(r)
<1>1. SUFFICES ASSUME r.ok PROVE HeapOk(r)
  BY DEF Sound
<1>2. HeapOk(x) /\ Kept(x) /\ r.heap = x.heap /\ BlocksOf(r) = BlocksOf(x)
  BY <1>1, SameBlocksOf DEF Sound, SameBlocks
<1>3. \A q \in HeapStart .. x.heap.end - 1 : q \in HeapRange
  <2>1. x.heap.end \in Nat /\ x.heap.end <= HeapStart + HeapMax
    BY <1>2, StateTypes DEF Kept, Within
  <2> QED
    BY <2>1, Bounds DEF HeapRange
<1>4. \A q \in HeapStart .. x.heap.end - 1 : KernelPage(r, q) # None
  BY <1>2, <1>3 DEF HeapOk
<1> QED
  BY <1>2, <1>4 DEF HeapOk

(* vmm_map_page, for a page of a program.                                  *)
LEMMA PageGiven ==
  ASSUME NEW k, Sound(k), NEW d \in DOMAIN k.dirs, NEW p \in 0 .. HeapStart - 1
  PROVE  Sound(vmm_map_page(k, d, p)) /\ Len(vmm_map_page(k, d, p).dirs) = Len(k.dirs)
<1> DEFINE x == _create_page_table(k, d, p)
           r == MapIn(x, d, p)
<1>1. k \in State /\ Shared(k)
  BY DEF Sound, Kept
<1>2. TableOf(p) \in Index
  BY HeapPagesApart
<1>3. CASE ~k.ok
  BY <1>3 DEF vmm_map_page
<1>4. CASE k.ok
  <2>1. vmm_map_page(k, d, p) = r
    BY <1>4 DEF vmm_map_page
  <2>2. Sound(x) /\ Len(x.dirs) = Len(k.dirs) /\ (x.ok => x.dirs[d].tables[TableOf(p)] # 0)
    <3>1. CASE k.dirs[d].tables[TableOf(p)] # 0
      BY <3>1 DEF _create_page_table
    <3>2. CASE k.dirs[d].tables[TableOf(p)] = 0
      <4> DEFINE g == kmalloc_ap(k, 1)
      <4>1. x = WithTable(g, d, TableOf(p))
        BY <3>2 DEF _create_page_table
      <4>2. GivenTo(g, k, 1)
        <5>1. 1 \in Nat \ {0}
          OBVIOUS
        <5> QED
          BY <5>1, Given
      <4> HIDE DEF g, x
      <4> QED
        BY <1>2, <3>2, <4>1, <4>2, TableMade
    <3> QED
      BY <3>1, <3>2
  <2> HIDE DEF x
  <2>3. d \in DOMAIN x.dirs /\ Kept(x)
    BY <1>1, <2>2, StateTypes DEF Sound, Kept
  <2>4. /\ Kept(r) /\ (r.ok => x.ok) /\ SameBlocks(r, x)
        /\ \A q \in HeapRange : KernelPage(x, q) # None => KernelPage(r, q) = KernelPage(x, q)
    BY <2>2, <2>3, PageMapped
  <2> HIDE DEF r
  <2>5. Sound(r)
    BY <2>2, <2>4, HeapStays
  <2> QED
    BY <2>1, <2>2, <2>4, <2>5 DEF SameBlocks
<1> QED
  BY <1>3, <1>4

LEMMA PagesGiven ==
  ASSUME NEW k, Sound(k), NEW d \in DOMAIN k.dirs, NEW s \in Seq(0 .. HeapStart - 1)
  PROVE  Sound(vmm_map_pages(k, d, s)) /\ Len(vmm_map_pages(k, d, s).dirs) = Len(k.dirs)
<1> DEFINE V == {x \in State : Sound(x) /\ Len(x.dirs) = Len(k.dirs)}
<1>1. k \in V /\ k \in State
  BY DEF Sound, Kept
<1>2. Len(s) \in Nat /\ \A i \in 1 .. Len(s) : s[i] \in 0 .. HeapStart - 1
  <2> DEFINE W == 0 .. HeapStart - 1
  <2>1. s \in Seq(W)
    OBVIOUS
  <2> HIDE DEF W
  <2>2. Len(s) \in Nat /\ \A i \in 1 .. Len(s) : s[i] \in W
    BY <2>1
  <2> QED
    BY <2>2 DEF W
<1>3. ASSUME NEW x \in V, NEW i \in 1 .. Len(s) PROVE vmm_map_page(x, d, s[i]) \in V
  <2>1. Sound(x) /\ Len(x.dirs) = Len(k.dirs) /\ d \in DOMAIN x.dirs
    BY <1>1, StateTypes
  <2> DEFINE y == vmm_map_page(x, d, s[i])
  <2>2. Sound(y) /\ Len(y.dirs) = Len(x.dirs)
    BY <1>2, <2>1, PageGiven
  <2> HIDE DEF y
  <2>3. y \in V
    BY <2>1, <2>2 DEF Sound, Kept
  <2> QED
    BY <2>3 DEF y
<1> HIDE DEF V
<1>4. PICK h : PageSteps(h, k, d, s)
  <2>1. PagesIn(V, d, s)
    BY <1>3 DEF PagesIn
  <2> QED
    BY <1>1, <2>1, PagesInSteps
<1> DEFINE T == {i \in 0 .. Len(s) : h[i] \in V}
<1>5. 0 \in T
  BY <1>1, <1>2, <1>4 DEF PageSteps
<1>6. ASSUME NEW i \in 1 .. Len(s), i - 1 \in T PROVE i \in T
  <2>1. h[i - 1] \in V /\ i \in 0 .. Len(s)
    BY <1>2, <1>6
  <2>2. h[i] = vmm_map_page(h[i - 1], d, s[i])
    BY <1>4 DEF PageSteps
  <2> QED
    BY <1>3, <2>1, <2>2
<1>7. Len(s) \in T
  <2> HIDE DEF T
  <2>1. \A i \in 0 .. Len(s) : i \in T
    BY <1>2, <1>5, <1>6, InductionTo
  <2> QED
    BY <1>2, <2>1
<1>8. vmm_map_pages(k, d, s) \in V
  BY <1>4, <1>7 DEF PageSteps
<1> QED
  BY <1>8 DEF V

(* The pages of the segments of a program, one after the other.            *)
LEMMA Flattened ==
  ASSUME NEW S, NEW image \in Seq(Seq(S))
  PROVE  FlattenSeq(image) \in Seq(S)
<1> DEFINE n == Len(image)
           It(g) == [i \in 1 .. n |-> IF i = 1 THEN image[i] ELSE g[i - 1] \o image[i]]
           g == CHOOSE f : f = It(f)
           rank == [i \in 1 .. n |-> i - 1]
           pred == [i \in 1 .. n |-> IF i = 1 THEN 1 ELSE i - 1]
           F == [i \in 1 .. n |-> [v \in Seq(S) |-> v \o image[i]]]
<1>1. n \in Nat /\ \A i \in 1 .. n : image[i] \in Seq(S)
  OBVIOUS
<1>2. CASE n = 0
  <2>1. FlattenSeq(image) = image /\ image = <<>>
    BY <1>2 DEF FlattenSeq
  <2> QED
    BY <2>1
<1>3. CASE n # 0
  <2>1. FlattenSeq(image) = g[n]
    BY <1>3 DEF FlattenSeq
  <2>2. 1 \in 1 .. n /\ image[1] \in Seq(S) /\ n \in 1 .. n
    BY <1>1, <1>3
  <2> HIDE DEF n
  <2>3. F \in [1 .. n -> [Seq(S) -> Seq(S)]]
    BY <1>1
  <2>4. Descends(1 .. n, Seq(S), n, image[1], rank, pred, F)
    <3>1. rank \in [1 .. n -> 0 .. n] /\ pred \in [1 .. n -> 1 .. n]
      BY <1>1
    <3>2. \A i \in 1 .. n : rank[i] # 0 => rank[pred[i]] < rank[i]
      BY <1>1
    <3> HIDE DEF F, rank, pred
    <3> QED
      BY <1>1, <2>2, <2>3, <3>1, <3>2 DEF Descends
  <2>5. PICK f \in [1 .. n -> Seq(S)] : Follows(f, 1 .. n, image[1], rank, pred, F)
    <3> HIDE DEF F, rank, pred
    <3> QED
      BY <2>4, RecursionOnRank
  <2>6. f = It(f)
    <3>1. ASSUME NEW i \in 1 .. n
          PROVE  f[i] = IF i = 1 THEN image[i] ELSE f[i - 1] \o image[i]
      <4>1. f[i] = IF rank[i] = 0 THEN image[1] ELSE F[i][f[pred[i]]]
        BY <2>5 DEF Follows
      <4>2. CASE i = 1
        BY <1>1, <4>1, <4>2
      <4>3. CASE i # 1
        <5>1. i - 1 \in 1 .. n /\ pred[i] = i - 1 /\ rank[i] # 0
          BY <1>1, <4>3
        <5>2. f[i - 1] \in Seq(S)
          BY <5>1
        <5> QED
          BY <4>1, <4>3, <5>1, <5>2
      <4> QED
        BY <4>2, <4>3
    <3> QED
      BY <3>1
  <2>7. g = It(g)
    <3> HIDE DEF It
    <3> QED
      BY <2>6
  <2> HIDE DEF g
  <2> DEFINE T == {i \in 0 .. n : i = 0 \/ g[i] \in Seq(S)}
  <2>8. 0 \in T
    BY <1>1
  <2>9. ASSUME NEW i \in 1 .. n, i - 1 \in T PROVE i \in T
    <3>1. g[i] = IF i = 1 THEN image[i] ELSE g[i - 1] \o image[i]
      BY <2>7
    <3>2. image[i] \in Seq(S) /\ i \in 0 .. n
      BY <1>1
    <3>3. CASE i = 1
      BY <3>1, <3>2, <3>3
    <3>4. CASE i # 1
      <4>1. g[i - 1] \in Seq(S)
        BY <1>1, <2>9, <3>4
      <4> DEFINE a == g[i - 1]
                 b == image[i]
      <4>2. g[i] = a \o b
        BY <3>1, <3>4
      <4>3. a \in Seq(S) /\ b \in Seq(S)
        BY <3>2, <4>1
      <4> HIDE DEF a, b
      <4>4. a \o b \in Seq(S)
        BY <4>3, ConcatProperties
      <4> QED
        BY <3>2, <4>2, <4>4
    <3> QED
      BY <3>3, <3>4
  <2>10. n \in T
    <3> HIDE DEF T
    <3>1. \A i \in 0 .. n : i \in T
      BY <1>1, <2>8, <2>9, InductionTo
    <3> QED
      BY <1>1, <3>1
  <2> QED
    BY <1>3, <2>1, <2>10
<1> QED
  BY <1>2, <1>3
(* The last page that blocks need.                                         *)
LEMMA LastUsedIs ==
  ASSUME NEW k, Kept(k)
  PROVE  /\ LastUsed(k) \in Nat /\ HeapStart + HeapMin <= LastUsed(k)
         /\ \A b \in BlocksOf(k) : b.at + b.n <= LastUsed(k)
<1> DEFINE S == {b.at + b.n : b \in BlocksOf(k)} \cup {HeapStart + HeapMin}
           n == HeapStart + HeapMax + 2
<1>1. n \in Nat /\ k.heap.end <= HeapStart + HeapMax /\ k.heap.end \in Nat
  BY Bounds, StateTypes DEF Kept, Within
<1>2. \A b \in BlocksOf(k) : b.at + b.n \in 1 .. n
  <2> SUFFICES ASSUME NEW b \in BlocksOf(k) PROVE b.at + b.n \in 1 .. n
    OBVIOUS
  <2>1. /\ b.at \in Nat /\ b.n \in Nat \ {0} /\ Lies(k, b.at, b.n)
        /\ b.at = 0 => b.n \in {1, 2}
    BY BlockTypes
  <2> QED
    BY <1>1, <2>1, Bounds DEF Lies
<1>3. HeapStart + HeapMin \in 1 .. n
  BY Bounds
<1>4. S \in SUBSET (1 .. n) /\ S # {}
  BY <1>2, <1>3
<1>5. Max(S) \in S /\ \A y \in S : y <= Max(S)
  <2> HIDE DEF S, n
  <2> QED
    BY <1>1, <1>4, MaxOfSome
<1>6. LastUsed(k) = Max(S)
  BY DEF LastUsed
<1>7. LastUsed(k) \in Nat
  BY <1>1, <1>4, <1>5, <1>6
<1> QED
  BY <1>5, <1>6, <1>7

(* contract gives back pages behind all blocks.                            *)
LEMMA Contracted ==
  ASSUME NEW k, Kept(k), k.ok, HeapOk(k), NEW at
  PROVE  Sound(Freed(k, at))
<1> DEFINE last == LastUsed(k)
           end == k.heap.end
           x == Unmapped(k, Kernel, last, end - 1)
<1>1. Sound(k) /\ k \in State
  BY DEF Sound, Kept
<1>2. CASE Freed(k, at) = k
  BY <1>1, <1>2
<1>3. CASE Freed(k, at) # k /\ k.heap.moved
  BY <1>3, Stopped DEF Freed, ContractedTo
<1>4. CASE Freed(k, at) # k /\ ~k.heap.moved
  <2>1. last + 1 < end /\ Freed(k, at) = EndAt(x, last)
    <3>1. Freed(k, at) = ContractedTo(k, last)
      BY <1>4 DEF Freed
    <3>2. ~(last + 1 >= end)
      BY <1>4, <3>1 DEF ContractedTo
    <3>3. last \in Nat /\ end \in Nat
      BY <1>1, StateTypes, LastUsedIs
    <3>4. ContractedTo(k, last) = [x EXCEPT !.heap = [end |-> last, moved |-> TRUE]]
      BY <1>4, <3>2 DEF ContractedTo
    <3> HIDE DEF x, last
    <3> QED
      BY <3>1, <3>2, <3>3, <3>4 DEF EndAt
  <2>2. /\ last \in Nat /\ HeapStart + HeapMin <= last /\ end \in Nat /\ end <= HeapStart + HeapMax
        /\ \A b \in BlocksOf(k) : b.at + b.n <= last
        /\ \A t \in DOMAIN k.tables : k.tables[t].at \in Nat
        /\ \A d \in DOMAIN k.dirs : k.dirs[d].at \in Nat
    BY <1>1, StateTypes, DirTypes, LastUsedIs DEF Kept, Within
  <2>3. \A t \in DOMAIN k.tables : k.tables[t].at + 1 <= last
    <3> SUFFICES ASSUME NEW t \in DOMAIN k.tables PROVE k.tables[t].at + 1 <= last
      OBVIOUS
    <3> DEFINE b == [at |-> k.tables[t].at, n |-> 1]
    <3>1. b \in BlocksOf(k) /\ b.at = k.tables[t].at /\ b.n = 1
      BY DEF BlocksOf
    <3> QED
      BY <2>2, <3>1
  <2>4. \A d \in DOMAIN k.dirs : k.dirs[d].at + 2 <= last
    <3> SUFFICES ASSUME NEW d \in DOMAIN k.dirs PROVE k.dirs[d].at + 2 <= last
      OBVIOUS
    <3> DEFINE b == [at |-> k.dirs[d].at, n |-> 2]
    <3>1. b \in BlocksOf(k) /\ b.at = k.dirs[d].at /\ b.n = 2
      BY DEF BlocksOf
    <3> QED
      BY <2>2, <3>1
  <2> HIDE DEF last, x, end
  <2>5. \A p \in last + 1 .. end - 1 : Spare(k, p)
    <3> SUFFICES ASSUME NEW p \in last + 1 .. end - 1 PROVE Spare(k, p)
      OBVIOUS
    <3>1. p \in HeapRange /\ p \in Nat /\ last < p
      BY <2>2, Bounds DEF HeapRange
    <3>2. \A t \in DOMAIN k.tables : k.tables[t].at # p
      BY <2>2, <2>3, <3>1
    <3>3. \A d \in DOMAIN k.dirs : k.dirs[d].at + 1 # p
      BY <2>2, <2>4, <3>1
    <3> QED
      BY <3>1, <3>2, <3>3 DEF Spare
  <2>6. /\ Kept(x) /\ SameBlocks(x, k) /\ x.ok = k.ok
        /\ \A q \in HeapRange : q \notin last + 1 .. end - 1 => KernelPage(x, q) = KernelPage(k, q)
    <3>1. end - 1 \in Nat /\ last <= end - 1 /\ Kernel \in DOMAIN k.dirs
      BY <2>1, <2>2 DEF Kept, Shared
    <3> QED
      BY <2>2, <2>5, <3>1, PagesUnmapped DEF x
  <2>7. \A b \in BlocksOf(x) : b.at = 0 \/ b.at + b.n <= last
    <3>1. BlocksOf(x) = BlocksOf(k)
      BY <2>6, SameBlocksOf DEF SameBlocks
    <3> QED
      BY <2>2, <3>1
  <2> DEFINE r == EndAt(x, last)
  <2>8. /\ Kept(r) /\ r.heap.end = last /\ r.heap.moved = TRUE
        /\ \A q : KernelPage(r, q) = KernelPage(x, q)
    <3>1. last <= HeapStart + HeapMax
      BY <2>1, <2>2, Bounds
    <3> QED
      BY <2>2, <2>6, <2>7, <3>1, EndMoved
  <2> HIDE DEF r
  <2>9. HeapOk(r)
    <3>1. \A q \in HeapStart .. last - 1 :
            q \in HeapRange /\ q \notin last + 1 .. end - 1 /\ q \in HeapStart .. k.heap.end - 1
      BY <2>1, <2>2, Bounds DEF HeapRange, end
    <3>2. \A q \in HeapStart .. last - 1 : KernelPage(r, q) # None
      BY <2>6, <2>8, <3>1 DEF HeapOk
    <3> QED
      BY <2>2, <2>8, <3>2 DEF HeapOk
  <2> QED
    BY <2>1, <2>8, <2>9 DEF Sound, r
<1> QED
  BY <1>2, <1>3, <1>4
(* vmm_clone_dir: the directory's second page is on the frame behind that  *)
(* of the first, when both are pages that the heap had at first.           *)
LEMMA DirMade ==
  ASSUME NEW k, NEW r, GivenTo(r, k, 2)
  PROVE  /\ Sound(Cloned(r)) /\ Len(Cloned(r).dirs) \in Nat
         /\ Cloned(r).ok => Len(Cloned(r).dirs) >= 2
<1> DEFINE x == r.k
           y == Cloned(r)
<1>1. CASE ~x.ok
  <2>1. y = x
    BY <1>1 DEF Cloned
  <2> HIDE DEF y
  <2>2. Sound(y) /\ ~y.ok /\ y \in State
    BY <1>1, <2>1 DEF GivenTo, Sound, Kept
  <2> QED
    BY <2>2, StateTypes DEF y
<1>2. CASE x.ok
  <2> DEFINE new == Dir(x, r.at)
             f == FrameAt(x, Kernel, r.at)
             n == Len(x.dirs)
             dirs2 == Append(x.dirs, new)
  <2>1. /\ Kept(x) /\ HeapOk(x) /\ r.at \in Nat /\ HeapStart < r.at /\ r.at + 2 < x.heap.end
        /\ x \in State /\ Shared(x) /\ Fixed(x) /\ Within(x) /\ Reached(x)
        /\ \A p \in r.at .. r.at + 2 : p \in HeapRange /\ KernelPage(x, p) # None
    BY <1>2 DEF GivenTo, Sound, Kept
  <2>2. y = [x EXCEPT !.dirs = dirs2]
    BY <1>2 DEF Cloned
  <2>3. /\ r.at \in HeapRange /\ KernelPage(x, r.at) # None
        /\ r.at + 1 \in HeapRange /\ KernelPage(x, r.at + 1) # None
    <3>1. r.at \in r.at .. r.at + 2 /\ r.at + 1 \in r.at .. r.at + 2
      BY <2>1
    <3> QED
      BY <2>1, <3>1
  <2>4. f = KernelPage(x, r.at) /\ f \in Nat
    <3>1. f = KernelPage(x, r.at) /\ f = x.tables[2].pages[Slot(r.at)]
      BY <2>1, <2>3, KernelFrames
    <3>2. 2 \in DOMAIN x.tables /\ Slot(r.at) \in Slots
      BY <2>1, <2>3, HeapPagesApart DEF Shared
    <3>3. x.tables[2].pages \in [Slots -> Nat \cup {None}]
      BY <2>1, <3>2, StateTypes
    <3> QED
      BY <2>3, <3>1, <3>2, <3>3
  <2> HIDE DEF x, y, f
  <2>5. /\ n \in Nat /\ n > 0 /\ DOMAIN x.dirs = 1 .. n /\ Kernel \in DOMAIN x.dirs
        /\ x.dirs \in Seq(Directory) /\ x.dirs[Kernel] \in Directory /\ x.heap.end \in Nat
    BY <2>1, StateTypes DEF Shared
  <2>6. new = [tables |-> x.dirs[Kernel].tables, phys |-> x.dirs[Kernel].phys, at |-> r.at,
               physicalAddr |-> f + 1]
    BY DEF Dir, f, x
  <2>7. /\ new \in Directory /\ new.tables = x.dirs[Kernel].tables
        /\ new.phys = x.dirs[Kernel].phys /\ new.at = r.at /\ new.physicalAddr = f + 1
    <3>1. x.dirs[Kernel].tables \in [Index -> Nat] /\ x.dirs[Kernel].phys \in [Index -> Nat \cup {None}]
      BY <2>5, DirTypes
    <3>2. f + 1 \in Nat
      BY <2>4
    <3> HIDE DEF new
    <3> QED
      BY <2>1, <2>6, <3>1, <3>2 DEF Directory
  <2> HIDE DEF new, n
  <2>8. /\ dirs2 \in Seq(Directory) /\ Len(dirs2) = n + 1 /\ DOMAIN dirs2 = 1 .. n + 1
        /\ dirs2[n + 1] = new /\ \A d \in 1 .. n : dirs2[d] = x.dirs[d]
    BY <2>5, <2>7 DEF n
  <2> HIDE DEF dirs2
  <2>9. y = [marked |-> x.marked, tables |-> x.tables, dirs |-> dirs2, heap |-> x.heap,
             blocks |-> x.blocks, ok |-> x.ok]
    <3>1. x = [marked |-> x.marked, tables |-> x.tables, dirs |-> x.dirs, heap |-> x.heap,
               blocks |-> x.blocks, ok |-> x.ok]
      BY <2>1, StateTypes
    <3> QED
      BY <2>2, <3>1
  <2>10. y \in State
    BY <2>1, <2>8, <2>9, StateTypes DEF State
  <2>11. \A d \in 1 .. n + 1 : d = n + 1 \/ d \in 1 .. n
    BY <2>5
  <2>12. 1 .. n \subseteq 1 .. n + 1
    BY <2>5
  <2>13. \A q : KernelPage(y, q) = KernelPage(x, q)
    BY <2>9 DEF KernelPage
  <2>14. Owned(y)
    BY <2>1, <2>9 DEF Kept, Owned
  <2>15. Shared(y)
    <3>1. ASSUME NEW d \in 1 .. n + 1
          PROVE  \E e \in DOMAIN x.dirs : /\ dirs2[d].tables = x.dirs[e].tables
                                          /\ dirs2[d].phys = x.dirs[e].phys
      BY <2>5, <2>7, <2>8, <2>11
    <3>2. Kernel \in 1 .. n + 1
      BY <2>5, <2>12
    <3>3. \A d \in 1 .. n + 1 :
            /\ \A i \in Index : /\ dirs2[d].tables[i] \in 0 .. Len(x.tables)
                                /\ dirs2[d].tables[i] = 1 <=> i = 0
                                /\ dirs2[d].tables[i] = 2 <=> i = HeapTable
            /\ dirs2[d].phys[0] = 0 /\ dirs2[d].phys[HeapTable] = 0
      BY <2>1, <3>1 DEF Shared
    <3> QED
      BY <2>1, <2>8, <2>9, <3>2, <3>3 DEF Shared
  <2>16. Fixed(y)
    BY <2>1, <2>9, <2>13 DEF Fixed
  <2>17. Within(y)
    <3>1. Lies(y, r.at, 2)
      <4>1. r.at + 2 <= x.heap.end
        BY <2>1, <2>5
      <4> QED
        BY <2>1, <2>9, <4>1 DEF Lies
    <3>2. \A d \in 1 .. n + 1 : Lies(y, dirs2[d].at, 2)
      BY <2>1, <2>5, <2>7, <2>8, <2>9, <2>11, <3>1 DEF Within, Lies
    <3>3. /\ \A t \in DOMAIN x.tables : Lies(y, x.tables[t].at, 1)
          /\ \A b \in x.blocks : b.at # 0 /\ Lies(y, b.at, b.n)
      BY <2>1, <2>9 DEF Within, Lies
    <3> QED
      BY <2>1, <2>8, <2>9, <3>2, <3>3 DEF Within
  <2>18. Reached(y)
    <3>1. ASSUME NEW d \in 1 .. n + 1, NEW i \in Index, dirs2[d].tables[i] # 0
          PROVE  /\ dirs2[d].phys[i] # None
                 /\ dirs2[d].phys[i] = KernelPage(y, x.tables[dirs2[d].tables[i]].at)
      <4>1. PICK e \in DOMAIN x.dirs : /\ dirs2[d].tables = x.dirs[e].tables
                                       /\ dirs2[d].phys = x.dirs[e].phys
        BY <2>5, <2>7, <2>8, <2>11
      <4> QED
        BY <2>1, <2>13, <3>1, <4>1 DEF Reached
    <3>2. new.at + 1 < HeapStart + HeapInitial => new.physicalAddr = KernelPage(y, new.at + 1)
      <4>1. SUFFICES ASSUME r.at + 1 < HeapStart + HeapInitial
                     PROVE  f + 1 = KernelPage(x, r.at + 1)
        BY <2>7, <2>13
      <4>2. /\ r.at \in HeapStart .. HeapStart + HeapInitial - 1
            /\ r.at + 1 \in HeapStart .. HeapStart + HeapInitial - 1
        BY <2>1, <4>1, Bounds
      <4>3. f = Low + (r.at - HeapStart)
        BY <2>1, <2>3, <2>4, <4>2 DEF Fixed
      <4>4. KernelPage(x, r.at + 1) = Low + ((r.at + 1) - HeapStart)
        BY <2>1, <2>3, <4>2 DEF Fixed
      <4> QED
        BY <2>1, <4>3, <4>4, Bounds
    <3>3. \A d \in 1 .. n : dirs2[d].at + 1 < HeapStart + HeapInitial =>
            dirs2[d].physicalAddr = KernelPage(y, dirs2[d].at + 1)
      BY <2>1, <2>5, <2>8, <2>13 DEF Reached
    <3>4. \A d \in 1 .. n + 1 : dirs2[d].at + 1 < HeapStart + HeapInitial =>
            dirs2[d].physicalAddr = KernelPage(y, dirs2[d].at + 1)
      BY <2>8, <2>11, <3>2, <3>3
    <3> QED
      BY <2>8, <2>9, <3>1, <3>4 DEF Reached
  <2>19. HeapOk(y)
    <3>1. ASSUME NEW b \in BlocksOf(y), ~x.heap.moved PROVE b.at + b.n < x.heap.end
      <4>1. \A c \in BlocksOf(x) : c.at + c.n < x.heap.end
        BY <2>1, <3>1 DEF HeapOk
      <4>2. CASE b \in x.blocks \/ b \in {[at |-> x.tables[t].at, n |-> 1] : t \in DOMAIN x.tables}
        BY <4>1, <4>2 DEF BlocksOf
      <4>3. CASE \E d \in 1 .. n + 1 : b = [at |-> dirs2[d].at, n |-> 2]
        <5>1. PICK d \in 1 .. n + 1 : b = [at |-> dirs2[d].at, n |-> 2]
          BY <4>3
        <5>2. CASE d = n + 1
          BY <2>1, <2>7, <2>8, <5>1, <5>2
        <5>3. CASE d \in 1 .. n
          <6>1. b = [at |-> x.dirs[d].at, n |-> 2]
            BY <2>8, <5>1, <5>3
          <6>2. b \in BlocksOf(x)
            BY <2>5, <5>3, <6>1 DEF BlocksOf
          <6> QED
            BY <4>1, <6>2
        <5> QED
          BY <2>11, <5>2, <5>3
      <4> QED
        BY <2>8, <2>9, <4>2, <4>3 DEF BlocksOf
    <3> QED
      BY <2>1, <2>9, <2>13, <3>1 DEF HeapOk
  <2>20. Len(y.dirs) \in Nat /\ Len(y.dirs) >= 2
    BY <2>5, <2>8, <2>9
  <2> QED
    BY <2>10, <2>14, <2>15, <2>16, <2>17, <2>18, <2>19, <2>20 DEF Kept, Sound, y
<1> QED
  BY <1>1, <1>2

(* Directories and blocks that are given back are nobody's any more.       *)
LEMMA Fewer ==
  ASSUME NEW k, Kept(k), HeapOk(k), NEW y \in State, y.marked = k.marked, y.tables = k.tables,
         y.heap = k.heap, y.blocks \subseteq k.blocks, Len(y.dirs) \in 1 .. Len(k.dirs),
         \A d \in DOMAIN y.dirs : y.dirs[d] = k.dirs[d]
  PROVE  Kept(y) /\ HeapOk(y)
<1>1. /\ k \in State /\ Owned(k) /\ Shared(k) /\ Fixed(k) /\ Within(k) /\ Reached(k)
  BY DEF Kept
<1>2. Kernel \in DOMAIN y.dirs /\ DOMAIN y.dirs \subseteq DOMAIN k.dirs
  <2>1. /\ DOMAIN y.dirs = 1 .. Len(y.dirs) /\ DOMAIN k.dirs = 1 .. Len(k.dirs)
        /\ Len(y.dirs) \in Nat /\ Len(k.dirs) \in Nat
    BY <1>1, StateTypes
  <2> QED
    BY <2>1 DEF Kernel
<1>3. \A q : KernelPage(y, q) = KernelPage(k, q)
  BY DEF KernelPage
<1>4. Owned(y)
  BY <1>1 DEF Owned
<1>5. Shared(y)
  BY <1>1, <1>2 DEF Shared
<1>6. Fixed(y)
  BY <1>1, <1>3 DEF Fixed
<1>7. Within(y)
  BY <1>1, <1>2 DEF Within, Lies
<1>8. Reached(y)
  <2>1. ASSUME NEW d \in DOMAIN y.dirs
        PROVE  /\ \A i \in Index : y.dirs[d].tables[i] # 0 =>
                    /\ y.dirs[d].phys[i] # None
                    /\ y.dirs[d].phys[i] = KernelPage(y, y.tables[y.dirs[d].tables[i]].at)
               /\ y.dirs[d].at + 1 < HeapStart + HeapInitial =>
                    y.dirs[d].physicalAddr = KernelPage(y, y.dirs[d].at + 1)
    <3>1. d \in DOMAIN k.dirs /\ y.dirs[d] = k.dirs[d]
      BY <1>2
    <3> QED
      BY <1>1, <1>3, <3>1 DEF Reached
  <2> QED
    BY <2>1 DEF Reached
<1>9. \A b \in BlocksOf(y) : b \in BlocksOf(k)
  <2>1. \A d \in DOMAIN y.dirs : \E e \in DOMAIN k.dirs :
          [at |-> y.dirs[d].at, n |-> 2] = [at |-> k.dirs[e].at, n |-> 2]
    BY <1>2
  <2> QED
    BY <2>1 DEF BlocksOf
<1>10. HeapOk(y)
  BY <1>3, <1>9 DEF HeapOk
<1> QED
  BY <1>4, <1>5, <1>6, <1>7, <1>8, <1>10 DEF Kept

LEMMA DirDestroyed ==
  ASSUME NEW k, Sound(k), Len(k.dirs) >= 2
  PROVE  Sound(vmm_destroy_dir(k))
<1>1. CASE ~k.ok
  BY <1>1 DEF vmm_destroy_dir
<1>2. CASE k.ok
  <2> DEFINE y == [k EXCEPT !.dirs = Front(@)]
             n == Len(k.dirs)
  <2>1. /\ Kept(k) /\ HeapOk(k) /\ k \in State /\ n \in Nat /\ n >= 2
        /\ k.dirs \in Seq(Directory) /\ DOMAIN k.dirs = 1 .. n
    BY <1>2, StateTypes DEF Sound, Kept
  <2>2. /\ Front(k.dirs) \in Seq(Directory) /\ Len(Front(k.dirs)) = n - 1
        /\ \A d \in 1 .. n - 1 : Front(k.dirs)[d] = k.dirs[d]
    <3> HIDE DEF n
    <3>1. Front(k.dirs) = SubSeq(k.dirs, 1, n - 1)
      BY DEF Front, n
    <3>2. n = Len(k.dirs)
      BY DEF n
    <3> QED
      BY <2>1, <3>1, <3>2
  <2>3. y = [marked |-> k.marked, tables |-> k.tables, dirs |-> Front(k.dirs), heap |-> k.heap,
             blocks |-> k.blocks, ok |-> k.ok]
    <3>1. k = [marked |-> k.marked, tables |-> k.tables, dirs |-> k.dirs, heap |-> k.heap,
               blocks |-> k.blocks, ok |-> k.ok]
      BY <2>1, StateTypes
    <3> QED
      BY <3>1
  <2> HIDE DEF y, n
  <2>4. y \in State
    BY <2>1, <2>2, <2>3, StateTypes DEF State
  <2>5. /\ Len(y.dirs) \in 1 .. n /\ DOMAIN y.dirs = 1 .. n - 1
        /\ \A d \in 1 .. n - 1 : y.dirs[d] = k.dirs[d]
    BY <2>1, <2>2, <2>3
  <2>6. Kept(y) /\ HeapOk(y) /\ y.ok
    BY <1>2, <2>1, <2>3, <2>4, <2>5, Fewer DEF n
  <2>7. Sound(Freed(y, Last(k.dirs).at))
    BY <2>6, Contracted
  <2> QED
    BY <1>2, <2>7 DEF vmm_destroy_dir, y
<1> QED
  BY <1>1, <1>2
-----------------------------------------------------------------------------
(* After vmm_init.                                                         *)
LEMMA HeapSlots ==
  \A p \in HeapRange : /\ Slot(p) = Slot(HeapStart) + (p - HeapStart)
                       /\ Slot(p) \in Nat /\ Slot(p) < PerTable
<1> SUFFICES ASSUME NEW p \in HeapRange
             PROVE  /\ Slot(p) = Slot(HeapStart) + (p - HeapStart)
                    /\ Slot(p) \in Nat /\ Slot(p) < PerTable
  OBVIOUS
<1>1. p \in Nat /\ TableOf(p) = HeapTable /\ HeapStart \in HeapRange /\ HeapStart \in Nat
  BY HeapPagesApart, Bounds DEF HeapRange
<1>2. /\ p = PerTable * HeapTable + Slot(p) /\ HeapStart = PerTable * HeapTable + Slot(HeapStart)
      /\ Slot(p) \in Slots /\ Slot(HeapStart) \in Slots
  BY <1>1, PageIsThere DEF HeapTable
<1> DEFINE a == PerTable * HeapTable
<1>3. a \in Int
  BY <1>1, Bounds, HeapPagesApart
<1> HIDE DEF a
<1> QED
  BY <1>1, <1>2, <1>3, Bounds DEF a, Slots

LEMMA InitInv == PagingInit => Inv
<1> SUFFICES ASSUME PagingInit PROVE Inv
  OBVIOUS
<1> DEFINE k == Now
           h0 == Slot(HeapStart)
           n == Low + HeapInitial
<1>1. /\ k.marked = 0 .. n - 1 /\ k.tables = tables /\ k.dirs = <<KernelDir>>
      /\ k.heap = [end |-> HeapStart + HeapInitial, moved |-> FALSE] /\ k.blocks = {} /\ k.ok = TRUE
      /\ k = [marked |-> 0 .. n - 1, tables |-> tables, dirs |-> <<KernelDir>>,
              heap |-> [end |-> HeapStart + HeapInitial, moved |-> FALSE], blocks |-> {}, ok |-> TRUE]
  <2>1. /\ marked = 0 .. n - 1 /\ dirs = <<KernelDir>> /\ blocks = {}
        /\ heap = [end |-> HeapStart + HeapInitial, moved |-> FALSE]
    <3>1. marked = 0 .. Low + HeapInitial - 1
      BY DEF PagingInit
    <3>2. dirs = <<KernelDir>>
      BY DEF PagingInit
    <3>3. blocks = {}
      BY DEF PagingInit
    <3>4. heap = [end |-> HeapStart + HeapInitial, moved |-> FALSE]
      BY DEF PagingInit
    <3>5. Low + HeapInitial - 1 = n - 1
      BY Bounds
    <3> HIDE DEF n
    <3> QED
      BY <3>1, <3>2, <3>3, <3>4, <3>5
  <2>2. k = [marked |-> marked, tables |-> tables, dirs |-> dirs, heap |-> heap,
             blocks |-> blocks, ok |-> TRUE]
    BY DEF Now
  <2> HIDE DEF k, n
  <2> QED
    BY <2>1, <2>2
<1>2. /\ n \in Nat /\ n <= Frames /\ h0 \in Nat /\ h0 < PerTable /\ h0 + HeapInitial <= PerTable
      /\ \A p \in HeapStart .. HeapStart + HeapInitial - 1 :
           p \in HeapRange /\ Slot(p) = h0 + (p - HeapStart) /\ Slot(p) \in Slots
  <2>1. HeapStart \in HeapRange /\ HeapStart + HeapInitial - 1 \in HeapRange
    BY Bounds DEF HeapRange
  <2>2. \A p \in HeapStart .. HeapStart + HeapInitial - 1 : p \in HeapRange
    BY Bounds DEF HeapRange
  <2> DEFINE q == HeapStart + HeapInitial - 1
  <2>3. q \in HeapRange /\ q - HeapStart = HeapInitial - 1
    BY <2>1, Bounds
  <2> HIDE DEF q
  <2>4. Slot(q) = h0 + (q - HeapStart) /\ Slot(q) < PerTable /\ h0 \in Nat /\ h0 < PerTable
    BY <2>1, <2>3, HeapSlots
  <2>5. \A p \in HeapRange : Slot(p) \in Slots
    BY HeapPagesApart
  <2> QED
    BY <2>2, <2>3, <2>4, <2>5, HeapSlots, Bounds
<1> DEFINE low == [s \in 0 .. PerTable - 1 |-> IF s < Low THEN s ELSE None]
           high == [s \in 0 .. PerTable - 1 |-> IF s \in h0 .. h0 + HeapInitial - 1
                                                THEN Low + (s - h0) ELSE None]
<1>3. tables = <<[pages |-> low, at |-> 0], [pages |-> high, at |-> 0]>>
  BY DEF PagingInit
<1> HIDE DEF k, h0, n
<1>4. /\ low \in [Slots -> Nat \cup {None}] /\ high \in [Slots -> Nat \cup {None}]
      /\ \A s \in Slots : /\ s \in Nat /\ s < PerTable
                          /\ low[s] = IF s < Low THEN s ELSE None
                          /\ high[s] = IF h0 <= s /\ s <= h0 + HeapInitial - 1
                                       THEN Low + (s - h0) ELSE None
      /\ \A s \in Nat : s < PerTable => s \in Slots
  BY <1>2, Bounds DEF Slots
<1> HIDE DEF low, high
<1>5. /\ tables \in Seq(Table) /\ Len(tables) = 2 /\ DOMAIN tables = {1, 2}
      /\ tables[1].pages = low /\ tables[2].pages = high /\ tables[1].at = 0 /\ tables[2].at = 0
  BY <1>3, <1>4 DEF Table
<1>6. /\ KernelDir \in Directory /\ KernelDir.at = 0 /\ KernelDir.physicalAddr = 1
      /\ \A i \in Index : KernelDir.tables[i] = IF i = 0 THEN 1 ELSE IF i = HeapTable THEN 2 ELSE 0
      /\ \A i \in Index : KernelDir.phys[i] = IF i = 0 \/ i = HeapTable THEN 0 ELSE None
  <2> DEFINE ts == [i \in Index |-> CASE i = 0 -> 1 [] i = TableOf(HeapStart) -> 2 [] OTHER -> 0]
             ps == [i \in Index |-> IF i \in {0, TableOf(HeapStart)} THEN 0 ELSE None]
  <2>1. KernelDir = [tables |-> ts, phys |-> ps, at |-> 0, physicalAddr |-> 1]
    BY DEF KernelDir
  <2>2. \A i \in Index : ts[i] = IF i = 0 THEN 1 ELSE IF i = HeapTable THEN 2 ELSE 0
    BY HeapPagesApart DEF HeapTable
  <2>3. \A i \in Index : ps[i] = IF i = 0 \/ i = HeapTable THEN 0 ELSE None
    BY DEF HeapTable
  <2>4. ts \in [Index -> Nat] /\ ps \in [Index -> Nat \cup {None}]
    <3>1. DOMAIN ts = Index /\ \A i \in Index : ts[i] \in Nat
      BY <2>2
    <3>2. ts = [i \in Index |-> ts[i]]
      OBVIOUS
    <3> HIDE DEF ts
    <3> QED
      BY <3>1, <3>2
  <2> HIDE DEF ts, ps
  <2> QED
    BY <2>1, <2>2, <2>3, <2>4 DEF Directory
<1>7. k \in State
  <2>1. /\ 0 .. n - 1 \in SUBSET (0 .. Frames - 1) /\ <<KernelDir>> \in Seq(Directory)
        /\ [end |-> HeapStart + HeapInitial, moved |-> FALSE] \in [end : Nat, moved : BOOLEAN]
    BY <1>2, <1>6, Bounds
  <2> QED
    BY <1>1, <1>5, <2>1 DEF State
<1>8. Owned(k)
  <2>1. ASSUME NEW f \in 0 .. n - 1
        PROVE  \E t \in DOMAIN tables, s \in Slots : tables[t].pages[s] = f
    <3>1. f \in Nat /\ f < n
      BY <1>2
    <3>2. CASE f < Low
      <4>1. f \in Slots /\ low[f] = f
        BY <1>4, <3>1, <3>2, Bounds
      <4> QED
        BY <1>5, <4>1
    <3>3. CASE f >= Low
      <4> DEFINE s == h0 + (f - Low)
      <4>1. s \in Nat /\ s < PerTable /\ h0 <= s /\ s <= h0 + HeapInitial - 1 /\ Low + (s - h0) = f
        BY <1>2, <3>1, <3>3, Bounds DEF n
      <4> HIDE DEF s
      <4>2. s \in Slots /\ high[s] = f
        BY <1>4, <4>1
      <4> QED
        BY <1>5, <4>2
    <3> QED
      BY <3>1, <3>2, <3>3, Bounds
  <2>2. \A s \in Slots : low[s] # None => low[s] = s /\ s < Low
    BY <1>4
  <2>3. \A s \in Slots : high[s] # None =>
          high[s] = Low + (s - h0) /\ h0 <= s /\ s <= h0 + HeapInitial - 1
    BY <1>4
  <2>4. ASSUME NEW t \in DOMAIN tables, NEW s \in Slots, tables[t].pages[s] # None
        PROVE  tables[t].pages[s] \in 0 .. n - 1
    <3>1. CASE t = 1
      BY <1>2, <1>4, <1>5, <2>2, <2>4, <3>1, Bounds DEF n
    <3>2. CASE t = 2
      BY <1>2, <1>4, <1>5, <2>3, <2>4, <3>2, Bounds DEF n
    <3> QED
      BY <1>5, <3>1, <3>2
  <2>5. ASSUME NEW t \in DOMAIN tables, NEW u \in DOMAIN tables, NEW s \in Slots, NEW v \in Slots,
               tables[t].pages[s] # None, tables[t].pages[s] = tables[u].pages[v]
        PROVE  t = u /\ s = v
    <3>1. CASE t = 1 /\ u = 1
      BY <1>5, <2>2, <2>5, <3>1
    <3>2. CASE t = 2 /\ u = 2
      BY <1>2, <1>4, <1>5, <2>3, <2>5, <3>2, Bounds
    <3>3. CASE t = 1 /\ u = 2
      BY <1>2, <1>4, <1>5, <2>2, <2>3, <2>5, <3>3, Bounds
    <3>4. CASE t = 2 /\ u = 1
      BY <1>2, <1>4, <1>5, <2>2, <2>3, <2>5, <3>4, Bounds
    <3> QED
      BY <1>5, <3>1, <3>2, <3>3, <3>4
  <2> QED
    BY <1>1, <2>1, <2>4, <2>5 DEF Owned
<1>9. Shared(k)
  <2>1. k.dirs[1] = KernelDir /\ DOMAIN k.dirs = {1}
    BY <1>1
  <2>2. 0 \in Index /\ HeapTable \in Index /\ HeapTable # 0
    BY HeapPagesApart
  <2> QED
    BY <1>1, <1>5, <1>6, <2>1, <2>2 DEF Shared, Kernel
<1>10. \A p \in HeapStart .. HeapStart + HeapInitial - 1 :
         KernelPage(k, p) = Low + (p - HeapStart) /\ p \in Nat
  <2> SUFFICES ASSUME NEW p \in HeapStart .. HeapStart + HeapInitial - 1
               PROVE  KernelPage(k, p) = Low + (p - HeapStart) /\ p \in Nat
    OBVIOUS
  <2>1. p \in HeapRange /\ Slot(p) = h0 + (p - HeapStart) /\ Slot(p) \in Slots
    BY <1>2
  <2>2. p \in Nat /\ p >= PerTable
    BY <2>1, HeapPagesApart
  <2>3. KernelPage(k, p) = high[Slot(p)]
    BY <1>1, <1>5, <2>2, Bounds DEF KernelPage
  <2>4. h0 <= Slot(p) /\ Slot(p) <= h0 + HeapInitial - 1 /\ Slot(p) - h0 = p - HeapStart
    BY <1>2, <2>1, <2>2, Bounds
  <2> QED
    BY <1>4, <2>1, <2>2, <2>3, <2>4
<1>11. KernelPage(k, 0) = 0 /\ KernelPage(k, 1) = 1 /\ k.tables[1].pages[0] = 0 /\ k.tables[1].pages[1] = 1
  <2>1. low[0] = 0 /\ low[1] = 1
    BY <1>4, Bounds
  <2> QED
    BY <1>1, <1>5, <2>1, LowPages
<1>12. Fixed(k)
  BY <1>10, <1>11 DEF Fixed
<1>13. k.dirs[1] = KernelDir /\ DOMAIN k.dirs = {1} /\ k.heap.end = HeapStart + HeapInitial
       /\ k.heap.moved = FALSE
  BY <1>1
<1>14. Within(k)
  <2>1. HeapStart + HeapInitial <= HeapStart + HeapMax
    BY Bounds
  <2> QED
    BY <1>1, <1>5, <1>6, <1>13, <2>1 DEF Within, Lies
<1>15. Reached(k)
  <2>1. ASSUME NEW i \in Index, KernelDir.tables[i] # 0
        PROVE  KernelDir.phys[i] = 0 /\ KernelDir.tables[i] \in {1, 2}
    BY <1>6, <2>1
  <2>2. 0 # None /\ KernelDir.at + 1 = 1
    BY <1>6, Bounds
  <2> QED
    BY <1>1, <1>5, <1>6, <1>11, <1>13, <2>1, <2>2 DEF Reached
<1>16. HeapOk(k)
  <2>1. \A p \in HeapStart .. k.heap.end - 1 : KernelPage(k, p) # None
    BY <1>10, <1>13, Bounds
  <2>2. \A b \in BlocksOf(k) : b.at = 0 /\ b.n \in {1, 2}
    BY <1>1, <1>5, <1>6, <1>13 DEF BlocksOf
  <2>3. HeapStart + HeapInitial > 2 /\ HeapStart + HeapMin <= HeapStart + HeapInitial
    BY Bounds, HeapPagesApart
  <2>4. \A b \in BlocksOf(k) : b.at + b.n < k.heap.end
    BY <1>13, <2>2, <2>3, Bounds
  <2> QED
    BY <1>13, <2>1, <2>3, <2>4 DEF HeapOk
<1>17. halted = FALSE
  BY DEF PagingInit
<1> QED
  BY <1>7, <1>8, <1>9, <1>12, <1>14, <1>15, <1>16, <1>17 DEF Inv, Kept, k
-----------------------------------------------------------------------------
(* An operation from a sound state leaves one.                             *)
LEMMA PutKeepsInv ==
  ASSUME NEW r, Sound(r), Put(r)
  PROVE  Inv'
<1> DEFINE k == [marked |-> marked', tables |-> tables', dirs |-> dirs', heap |-> heap',
                 blocks |-> blocks', ok |-> TRUE]
<1>1. /\ marked' = r.marked /\ tables' = r.tables /\ dirs' = r.dirs /\ heap' = r.heap
      /\ blocks' = r.blocks /\ halted' = ~r.ok
  BY DEF Put
<1>2. Kept(r) /\ r \in State
  BY DEF Sound, Kept
<1>3. k.marked = r.marked /\ k.tables = r.tables /\ k.dirs = r.dirs /\ k.heap = r.heap
      /\ k.blocks = r.blocks
  BY <1>1
<1>4. k = [marked |-> r.marked, tables |-> r.tables, dirs |-> r.dirs, heap |-> r.heap,
           blocks |-> r.blocks, ok |-> TRUE]
  BY <1>1
<1> HIDE DEF k
<1>5. k \in State
  BY <1>2, <1>4, StateTypes DEF State
<1>6. Kept(k) /\ \A q : KernelPage(k, q) = KernelPage(r, q)
  BY <1>2, <1>3, <1>5, KeptAlike
<1>7. r.ok => HeapOk(k)
  <2>1. BlocksOf(k) = BlocksOf(r)
    BY <1>3 DEF BlocksOf
  <2> QED
    BY <1>3, <1>6, <2>1 DEF Sound, HeapOk
<1>8. halted' \in BOOLEAN /\ (~halted' => r.ok)
  BY <1>1, <1>2, StateTypes
<1>9. Kept(k) /\ (~halted' => HeapOk(k)) /\ halted' \in BOOLEAN
  BY <1>6, <1>7, <1>8
<1> QED
  BY <1>9 DEF Inv, Now, k

LEMMA SoundNow ==
  ASSUME Inv, ~halted
  PROVE  /\ Sound(Now) /\ Kept(Now) /\ HeapOk(Now) /\ Now \in State /\ Now.ok = TRUE
         /\ Now.dirs = dirs /\ Now.blocks = blocks /\ Now.tables = tables
         /\ Now = [marked |-> marked, tables |-> tables, dirs |-> dirs, heap |-> heap,
                   blocks |-> blocks, ok |-> TRUE]
<1>1. /\ Now.ok = TRUE /\ Now.dirs = dirs /\ Now.blocks = blocks /\ Now.tables = tables
      /\ Now = [marked |-> marked, tables |-> tables, dirs |-> dirs, heap |-> heap,
                blocks |-> blocks, ok |-> TRUE]
  BY DEF Now
<1>2. Kept(Now) /\ HeapOk(Now)
  BY DEF Inv
<1> QED
  BY <1>1, <1>2 DEF Sound, Kept

LEMMA KmallocKeeps ==
  ASSUME Inv, NEW n \in Blocks, Kmalloc(n)
  PROVE  Inv'
<1>1. n \in Nat \ {0}
  BY PagingAssumption
<1>2. Sound(Now)
  BY SoundNow DEF Kmalloc
<1>3. GivenTo(kmalloc_ap(Now, n), Now, n)
  BY <1>1, <1>2, Given
<1>4. Sound(Taken(kmalloc_ap(Now, n), n))
  BY <1>1, <1>3, BlockTaken
<1>5. Put(Taken(kmalloc_ap(Now, n), n))
  BY DEF Kmalloc
<1> QED
  BY <1>4, <1>5, PutKeepsInv

LEMMA KfreeKeeps ==
  ASSUME Inv, NEW b \in blocks, Kfree(b)
  PROVE  Inv'
<1> DEFINE y == [Now EXCEPT !.blocks = @ \ {b}]
<1>1. /\ Kept(Now) /\ HeapOk(Now) /\ Now \in State /\ Now.dirs = dirs
      /\ Now = [marked |-> marked, tables |-> tables, dirs |-> dirs, heap |-> heap,
                blocks |-> blocks, ok |-> TRUE]
  BY SoundNow DEF Kfree
<1>2. y = [marked |-> marked, tables |-> tables, dirs |-> dirs, heap |-> heap,
           blocks |-> blocks \ {b}, ok |-> TRUE]
  <2>1. Now = [marked |-> marked, tables |-> tables, dirs |-> dirs, heap |-> heap,
               blocks |-> blocks, ok |-> TRUE]
    BY <1>1
  <2>2. y = [Now EXCEPT !.blocks = blocks \ {b}]
    BY DEF Now
  <2> HIDE DEF y
  <2> QED
    BY <2>1, <2>2
<1>3. Put(Freed(y, b.at))
  BY DEF Kfree
<1> HIDE DEF y
<1>4. y \in State
  BY <1>1, <1>2, StateTypes DEF State
<1>5. /\ y.marked = Now.marked /\ y.tables = Now.tables /\ y.heap = Now.heap
      /\ y.blocks \subseteq Now.blocks /\ y.dirs = Now.dirs /\ y.ok = TRUE
  BY <1>1, <1>2
<1>6. Len(y.dirs) \in 1 .. Len(Now.dirs)
  <2>1. Len(Now.dirs) \in Nat /\ DOMAIN Now.dirs = 1 .. Len(Now.dirs) /\ Kernel \in DOMAIN Now.dirs
    BY <1>1, StateTypes DEF Kept, Shared
  <2> QED
    BY <1>5, <2>1
<1>7. Kept(y) /\ HeapOk(y)
  BY <1>1, <1>4, <1>5, <1>6, Fewer
<1>8. Sound(Freed(y, b.at))
  BY <1>5, <1>7, Contracted
<1> QED
  BY <1>3, <1>8, PutKeepsInv

LEMMA HeapPagesBelow == HeapPages \in Seq(0 .. HeapStart - 1)
<1> DEFINE W == 0 .. HeapStart - 1
<1>1. \A i \in 1 .. UserHeap : UserStart + i - 1 \in W
  BY Bounds
<1> HIDE DEF W
<1>2. HeapPages \in Seq(W)
  BY <1>1, Bounds DEF HeapPages
<1> QED
  BY <1>2 DEF W

LEMMA LoadedIsSound ==
  ASSUME NEW k, Sound(k), k.ok => Len(k.dirs) >= 2, NEW image \in Images \cup {None}
  PROVE  Sound(Loaded(k, image))
<1>1. CASE ~k.ok
  BY <1>1 DEF Loaded
<1>2. CASE k.ok /\ image = None
  BY <1>2, DirDestroyed DEF Loaded
<1>3. CASE k.ok /\ image # None
  <2> DEFINE d == Len(k.dirs)
             s == FlattenSeq(image)
             x == vmm_map_pages(k, d, s)
             g == kmalloc_ap(x, 1)
             y == Taken(g, 1)
  <2>1. Len(k.dirs) \in Nat /\ DOMAIN k.dirs = 1 .. Len(k.dirs) /\ Len(k.dirs) >= 2
    BY <1>3, StateTypes DEF Sound, Kept
  <2>2. d \in DOMAIN k.dirs
    BY <2>1
  <2>3. s \in Seq(0 .. HeapStart - 1)
    <3>1. image \in Seq(Seq(0 .. HeapStart - 1))
      BY <1>3, PagingAssumption
    <3> HIDE DEF s
    <3> QED
      BY <3>1, Flattened DEF s
  <2>4. Loaded(k, image) = vmm_map_pages(y, d, HeapPages)
    BY <1>3 DEF Loaded, elf_load_raw_image, Symbols
  <2> HIDE DEF s, d
  <2>5. Sound(x) /\ Len(x.dirs) = Len(k.dirs)
    BY <2>2, <2>3, PagesGiven
  <2> HIDE DEF x
  <2>6. GivenTo(g, x, 1)
    <3>1. 1 \in Nat \ {0}
      OBVIOUS
    <3> QED
      BY <2>5, <3>1, Given
  <2> HIDE DEF g
  <2>7. Sound(y) /\ y.dirs = x.dirs
    <3>1. 1 \in Nat \ {0}
      OBVIOUS
    <3> QED
      BY <2>6, <3>1, BlockTaken
  <2> HIDE DEF y
  <2>8. d \in DOMAIN y.dirs
    <3>1. DOMAIN y.dirs = 1 .. Len(y.dirs)
      BY <2>7, StateTypes DEF Sound, Kept
    <3> QED
      BY <2>1, <2>2, <2>5, <2>7, <3>1
  <2> QED
    BY <2>4, <2>7, <2>8, HeapPagesBelow, PagesGiven
<1> QED
  BY <1>1, <1>2, <1>3

LEMMA ProgramKeeps ==
  ASSUME Inv, NEW image \in Images \cup {None}, _proc_new_elf_proc(image)
  PROVE  Inv'
<1> DEFINE k == vmm_clone_dir(Now)
           x == vmm_switch_dir(k, Len(k.dirs))
<1>1. Sound(Now)
  BY SoundNow DEF _proc_new_elf_proc
<1>2. Put(Loaded(x, image))
  BY DEF _proc_new_elf_proc
<1>3. Sound(k) /\ Len(k.dirs) \in Nat /\ (k.ok => Len(k.dirs) >= 2)
  <2> DEFINE g == kmalloc_ap(Now, 2)
  <2>1. k = Cloned(g)
    BY DEF vmm_clone_dir
  <2>2. GivenTo(g, Now, 2)
    <3>1. 2 \in Nat \ {0}
      OBVIOUS
    <3> QED
      BY <1>1, <3>1, Given
  <2> HIDE DEF g, k
  <2> QED
    BY <2>1, <2>2, DirMade
<1> HIDE DEF k
<1>4. Sound(x) /\ (x.ok => Len(x.dirs) >= 2)
  <2>1. CASE x = k
    BY <1>3, <2>1
  <2>2. CASE x # k
    <3>1. x = Stop(k) /\ k.ok
      BY <2>2 DEF vmm_switch_dir
    <3> HIDE DEF x
    <3> QED
      BY <1>3, <3>1, Stopped DEF Sound, SameBlocks
  <2> QED
    BY <2>1, <2>2
<1> HIDE DEF x
<1> QED
  BY <1>2, <1>4, LoadedIsSound, PutKeepsInv

LEMMA UserFreeKeeps ==
  ASSUME Inv, NEW d \in DOMAIN dirs, UserFree(d)
  PROVE  Inv'
<1> DEFINE to == UserEnd(d) - 1
<1>1. /\ Sound(Now) /\ Kept(Now) /\ Now \in State /\ Now.dirs = dirs /\ Now.ok = TRUE
  BY SoundNow DEF UserFree
<1>2. PICK last \in UserStart + HeapMin .. UserEnd(d) - 2 :
        Put(IF UserEnd(d) = UserStart + UserHeap THEN Unmapped(Now, d, last, to) ELSE Stop(Now))
  BY DEF UserFree
<1>3. CASE UserEnd(d) # UserStart + UserHeap
  <2>1. Put(Stop(Now))
    BY <1>2, <1>3
  <2> QED
    BY <1>1, <2>1, Stopped, PutKeepsInv
<1>4. CASE UserEnd(d) = UserStart + UserHeap
  <2> DEFINE r == Unmapped(Now, d, last, to)
  <2>1. Put(r)
    BY <1>2, <1>4
  <2>2. /\ last \in Nat /\ to \in Nat /\ last <= to /\ UserStart + HeapMin <= last
        /\ to = UserStart + UserHeap - 1
    BY <1>2, <1>4, Bounds
  <2> HIDE DEF to
  <2>3. ASSUME NEW p \in last + 1 .. to PROVE Spare(Now, p)
    <3>1. p \in 2 .. HeapStart - 1
      BY <2>2, Bounds
    <3>2. p \notin HeapRange /\ p # 0 /\ p # 1
      BY <3>1, Bounds DEF HeapRange
    <3>3. \A t \in DOMAIN Now.tables : Now.tables[t].at # p
      BY <1>1, <3>2, BlockPages
    <3>4. \A e \in DOMAIN Now.dirs : Now.dirs[e].at + 1 # p
      BY <1>1, <3>2, BlockPages
    <3> QED
      BY <3>1, <3>3, <3>4 DEF Spare
  <2>4. /\ Kept(r) /\ SameBlocks(r, Now) /\ r.ok = Now.ok
        /\ \A q \in HeapRange : q \notin last + 1 .. to => KernelPage(r, q) = KernelPage(Now, q)
    <3>1. d \in DOMAIN Now.dirs
      BY <1>1
    <3> QED
      BY <1>1, <2>2, <2>3, <3>1, PagesUnmapped
  <2> HIDE DEF r
  <2>5. \A q \in HeapRange : KernelPage(r, q) = KernelPage(Now, q)
    <3>1. \A q \in HeapRange : q \notin last + 1 .. to
      BY <2>2, Bounds DEF HeapRange
    <3> QED
      BY <2>4, <3>1
  <2>6. Sound(r)
    BY <1>1, <2>4, <2>5, HeapStays
  <2> QED
    BY <2>1, <2>6, PutKeepsInv
<1> QED
  BY <1>3, <1>4

LEMMA NextInv == Inv /\ [PagingNext]_pagingVars => Inv'
<1> SUFFICES ASSUME Inv, [PagingNext]_pagingVars PROVE Inv'
  OBVIOUS
<1>1. CASE \E n \in Blocks : Kmalloc(n)
  BY <1>1, KmallocKeeps
<1>2. CASE \E b \in blocks : Kfree(b)
  BY <1>2, KfreeKeeps
<1>3. CASE \E image \in Images \cup {None} : _proc_new_elf_proc(image)
  BY <1>3, ProgramKeeps
<1>4. CASE \E d \in DOMAIN dirs \ {Kernel} : UserFree(d)
  BY <1>4, UserFreeKeeps
<1>5. CASE UNCHANGED pagingVars
  BY <1>5 DEF pagingVars, Inv, Now
<1> QED
  BY <1>1, <1>2, <1>3, <1>4, <1>5 DEF PagingNext

LEMMA InvAlways == PagingSpec => []Inv
<1> QED
  BY InitInv, NextInv, PTL DEF PagingSpec
-----------------------------------------------------------------------------
(* Exactly the frames that are mapped are in use, and each by one page, of *)
(* whichever table: what the heaps and programs take and give back is      *)
(* taken and given back once (pmm_alloc_frame, pmm_free_frame).            *)
LEMMA InvOwned == Inv => FramesOwned
<1> SUFFICES ASSUME Inv PROVE FramesOwned
  OBVIOUS
<1>1. Owned(Now) /\ Now.tables = tables /\ Now.marked = marked
  BY DEF Inv, Kept, Now
<1>2. \A e \in Mapped : /\ e[1] \in DOMAIN tables /\ e[2] \in Slots /\ e = <<e[1], e[2]>>
                        /\ tables[e[1]].pages[e[2]] # None /\ FrameOf(e) = tables[e[1]].pages[e[2]]
  BY DEF Mapped, FrameOf, Slots
<1>3. \A t \in DOMAIN tables, s \in Slots : tables[t].pages[s] # None =>
        <<t, s>> \in Mapped /\ FrameOf(<<t, s>>) = tables[t].pages[s]
  BY DEF Mapped, FrameOf, Slots
<1>4. ASSUME NEW f \in marked PROVE f \in {FrameOf(e) : e \in Mapped}
  <2>1. PICK t \in DOMAIN tables, s \in Slots : tables[t].pages[s] = f
    BY <1>1 DEF Owned
  <2>2. f # None
    BY <1>1, StateTypes, Bounds DEF Inv, Kept
  <2>3. <<t, s>> \in Mapped /\ FrameOf(<<t, s>>) = f
    BY <1>3, <2>1, <2>2
  <2> QED
    BY <2>3
<1>5. \A e \in Mapped : FrameOf(e) \in marked
  BY <1>1, <1>2 DEF Owned
<1>6. ASSUME NEW e \in Mapped, NEW f \in Mapped, FrameOf(e) = FrameOf(f) PROVE e = f
  <2>1. e[1] = f[1] /\ e[2] = f[2]
    BY <1>1, <1>2, <1>6 DEF Owned
  <2> QED
    BY <1>2, <2>1
<1> QED
  BY <1>4, <1>5, <1>6 DEF FramesOwned

THEOREM EveryFrameOnce == PagingSpec => []FramesOwned
<1> QED
  BY InvAlways, InvOwned, PTL

(* Every directory has the two tables of the kernel and their frames.      *)
LEMMA InvShared == Inv => KernelShared
<1> SUFFICES ASSUME Inv PROVE KernelShared
  OBVIOUS
<1>1. Shared(Now) /\ Now.dirs = dirs
  BY DEF Inv, Kept, Now
<1>2. 0 \in Index /\ HeapTable \in Index
  BY HeapPagesApart
<1> QED
  BY <1>1, <1>2 DEF KernelShared, Shared, HeapTable

THEOREM EveryDirHasTheKernel == PagingSpec => []KernelShared
<1> QED
  BY InvAlways, InvShared, PTL

(* The addresses that a directory gives the processor for its tables are   *)
(* those of the tables that the kernel writes, and its own is right when   *)
(* it lies in pages that the heap had at first.                            *)
LEMMA InvReached == Inv => TablesReachMmu
<1> SUFFICES ASSUME Inv PROVE TablesReachMmu
  OBVIOUS
<1>1. /\ Kept(Now) /\ Now \in State /\ Shared(Now) /\ Reached(Now) /\ Now.dirs = dirs
      /\ Now.tables = tables
  BY DEF Inv, Kept, Now
<1>2. ASSUME NEW d \in DOMAIN dirs, NEW i \in Index, dirs[d].tables[i] # 0
      PROVE  dirs[d].phys[i] = FrameAt(Now, Kernel, tables[dirs[d].tables[i]].at)
  <2> DEFINE t == dirs[d].tables[i]
  <2>1. t \in DOMAIN tables
    BY <1>1, <1>2, StateTypes DEF Shared
  <2>2. dirs[d].phys[i] = KernelPage(Now, tables[t].at)
    BY <1>1, <1>2 DEF Reached
  <2> HIDE DEF t
  <2>3. tables[t].at = 0 \/ tables[t].at \in HeapRange
    BY <1>1, <2>1, BlockPages
  <2>4. FrameAt(Now, Kernel, tables[t].at) = KernelPage(Now, tables[t].at)
    BY <1>1, <2>3, KernelFrames
  <2> QED
    BY <2>2, <2>4 DEF t
<1>3. ASSUME NEW d \in DOMAIN dirs, dirs[d].at + 1 < HeapStart + HeapInitial
      PROVE  RightlyPlaced(Now, d)
  <2>1. dirs[d].physicalAddr = KernelPage(Now, dirs[d].at + 1)
    BY <1>1, <1>3 DEF Reached
  <2>2. dirs[d].at + 1 = 1 \/ dirs[d].at + 1 \in HeapRange
    BY <1>1, BlockPages
  <2>3. FrameAt(Now, Kernel, dirs[d].at + 1) = KernelPage(Now, dirs[d].at + 1)
    BY <1>1, <2>2, KernelFrames
  <2> QED
    BY <1>1, <2>1, <2>3 DEF RightlyPlaced
<1> QED
  BY <1>2, <1>3 DEF TablesReachMmu

THEOREM MmuWalksTheTables == PagingSpec => []TablesReachMmu
<1> QED
  BY InvAlways, InvReached, PTL
=============================================================================
