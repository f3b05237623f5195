------------------------------ MODULE FatProof ------------------------------
(***************************************************************************)
(* Proofs about FatTable, for a table of any size on a disk that may fail  *)
(* at any access, and about FatTree, for any number of names, clusters and *)
(* entries in a sector.  No theorem is about both: the modules are next to *)
(* each other, not composed.                                               *)
(***************************************************************************)
EXTENDS FatTable, FatTree, Induction, FiniteSetTheorems, SequenceTheorems

Buffer == [at : Sector \cup {FsInfo, Invalid}, data : [Entry -> Value], dirty : BOOLEAN]

(* What an operation knows of its clusters at each of its steps.           *)
OpOK ==
  /\ op.pc \in {"follow", "link", "end"} => op.new \in Entry
  /\ op.pc \in {"follow", "link"} => op.from \in Entry
  /\ op.kind = "extend" => op.from \in Entry
  /\ op.pc = "follow" => op.kind = "extend"
  /\ op.pc = "clear" => op.new \in Value

IInv == FatTypeOK /\ DirtyIsTable /\ CleanIsDisk /\ BlankUntilLinked /\ OpOK

(* Every entry lies in a sector of the table.                              *)
LEMMA DivBound ==
  ASSUME NEW P \in Nat \ {0}, NEW F \in Nat \ {0}, NEW c \in 0 .. P * F - 1
  PROVE  c \div P \in 0 .. F - 1
<1> DEFINE q == c \div P
<1>1. /\ q \in Int /\ c = P * q + (c % P) /\ c % P \in 0 .. P - 1
  BY Z3
<1>2. q >= 0
  BY <1>1, Z3
<1>3. q < F
  <2>1. SUFFICES ASSUME q >= F PROVE FALSE
    BY <1>1
  <2>2. P * q >= P * F
    <3> HIDE DEF q
    <3> QED BY <1>1, <2>1, Z3
  <2>3. P * q \in Int /\ P * F \in Int
    <3> HIDE DEF q
    <3> QED BY <1>1, Z3
  <2> HIDE DEF q
  <2> QED BY <1>1, <2>2, <2>3
<1> HIDE DEF q
<1>4. q \in 0 .. F - 1
  BY <1>1, <1>2, <1>3
<1> QED
  BY <1>4 DEF q

LEMMA SectorOfEntry == \A c \in Entry : SectorOf(c) \in Sector
  BY DivBound, FatAssumption DEF Entry, SectorOf, Sector

LEMMA EntryFacts ==
  /\ Entry \subseteq Nat /\ Root \in Entry /\ Data \subseteq Entry /\ 0 \in Entry
  /\ LAST \notin Entry /\ FAIL \notin Entry /\ NoCluster \notin Entry /\ FAIL # LAST
  /\ FAIL \notin Value /\ 0 \in Value /\ LAST \in Value /\ Entry \subseteq Value
  /\ FsInfo \notin Sector /\ Invalid \notin Sector /\ FsInfo # Invalid
<1>1. PerSector * FatSectors \in Nat
  BY FatAssumption, Z3
<1> QED
  BY <1>1, FatAssumption, RootAssumption, SectorAssumption DEF Entry, Data, Value, Sector

(* Through the buffer, an access sees the table and leaves it as it is,    *)
(* whatever fails.                                                         *)
LEMMA FetchFacts ==
  ASSUME FatTypeOK, DirtyIsTable, CleanIsDisk,
         NEW s \in Sector \cup {FsInfo}, NEW bad \in Faults
  PROVE  LET f == Fetch(s, bad)
         IN  /\ f.buf \in Buffer /\ f.disk \in [Entry -> Value] /\ f.ok \in BOOLEAN
             /\ Table(f.buf, f.disk) = Table(buf, disk)
             /\ f.ok => f.buf.at = s
             /\ f.buf.dirty => f.buf.at \in Sector
             /\ ~f.buf.dirty => Table(f.buf, f.disk) = f.disk
<1> DEFINE f == Fetch(s, bad)
<1>1. Saved = Table(buf, disk)
  BY DEF Saved, CleanIsDisk
<1>2. Table(buf, disk) \in [Entry -> Value]
  BY DEF Table, FatTypeOK
<1>3. CASE f = [ok |-> TRUE, buf |-> buf, disk |-> disk] /\ buf.at = s
  BY <1>3 DEF FatTypeOK, DirtyIsTable, CleanIsDisk, Buffer
<1>4. CASE f = [ok |-> FALSE, buf |-> buf, disk |-> disk]
  BY <1>4 DEF FatTypeOK, DirtyIsTable, CleanIsDisk, Buffer
<1>5. CASE f = [ok |-> FALSE, buf |-> fatfs_fat_init, disk |-> Saved]
  <2>1. fatfs_fat_init \in Buffer /\ fatfs_fat_init.at = Invalid /\ ~fatfs_fat_init.dirty
    BY EntryFacts DEF fatfs_fat_init, Buffer, Blank
  <2>2. Table(fatfs_fat_init, Saved) = Saved
    BY <1>1, <1>2, <2>1, SectorOfEntry, EntryFacts DEF Table
  <2> QED
    BY <1>1, <1>2, <1>5, <2>1, <2>2
<1>6. CASE f = [ok |-> TRUE, buf |-> Fetched(s), disk |-> Saved]
  <2>1. SectorData(s, Saved) \in [Entry -> Value]
    BY <1>1, <1>2, EntryFacts DEF SectorData
  <2>2. Fetched(s) \in Buffer /\ Fetched(s).at = s /\ ~Fetched(s).dirty
    BY <2>1 DEF Fetched, Buffer
  <2>3. Table(Fetched(s), Saved) = Saved
    BY <1>1, <1>2 DEF Table, Fetched, SectorData
  <2> QED
    BY <1>1, <1>2, <1>6, <2>2, <2>3
<1> QED
  BY <1>3, <1>4, <1>5, <1>6 DEF Fetch

(* Reading an entry: the table stays, and the operation goes on with the   *)
(* value in it or with a failure.                                          *)
LEMMA ReadFacts ==
  ASSUME FatTypeOK, DirtyIsTable, CleanIsDisk, NEW c \in Entry, NEW bad \in Faults,
         LET f == Fetch(SectorOf(c), bad) IN buf' = f.buf /\ disk' = f.disk
  PROVE  /\ buf' \in Buffer /\ disk' \in [Entry -> Value]
         /\ Table(buf', disk') = Table(buf, disk)
         /\ DirtyIsTable' /\ CleanIsDisk'
         /\ Got(Fetch(SectorOf(c), bad), c) \in {Table(buf, disk)[c], FAIL}
         /\ Table(buf, disk)[c] \in Value
<1>1. SectorOf(c) \in Sector \cup {FsInfo}
  BY SectorOfEntry
<1> DEFINE f == Fetch(SectorOf(c), bad)
<1>2. /\ f.buf \in Buffer /\ f.disk \in [Entry -> Value] /\ f.ok \in BOOLEAN
      /\ Table(f.buf, f.disk) = Table(buf, disk)
      /\ f.ok => f.buf.at = SectorOf(c)
      /\ f.buf.dirty => f.buf.at \in Sector
      /\ ~f.buf.dirty => Table(f.buf, f.disk) = f.disk
  BY <1>1, FetchFacts
<1>3. buf' = f.buf /\ disk' = f.disk
  OBVIOUS
<1> HIDE DEF f
<1>4. f.ok => f.buf.data[c] = Table(f.buf, f.disk)[c]
  BY <1>2 DEF Table
<1>5. Got(f, c) \in {Table(buf, disk)[c], FAIL}
  BY <1>2, <1>4 DEF Got
<1>6. Table(buf, disk)[c] \in Value
  BY DEF Table, FatTypeOK
<1> QED
  BY <1>2, <1>3, <1>5, <1>6 DEF f, DirtyIsTable, CleanIsDisk

(* Writing an entry: the table changes there, or the access fails.         *)
LEMMA WriteFacts ==
  ASSUME FatTypeOK, DirtyIsTable, CleanIsDisk, NEW c \in Entry, NEW v \in Value,
         fatfs_fat_set_cluster(c, v)
  PROVE  /\ buf' \in Buffer /\ disk' \in [Entry -> Value] /\ hint' = hint
         /\ Table(buf', disk') \in {Table(buf, disk), [Table(buf, disk) EXCEPT ![c] = v]}
         /\ DirtyIsTable' /\ CleanIsDisk'
<1>1. PICK bad \in Faults :
        /\ buf' = IF Fetch(SectorOf(c), bad).ok
                  THEN WithEntry(Fetch(SectorOf(c), bad).buf, c, v)
                  ELSE Fetch(SectorOf(c), bad).buf
        /\ disk' = Fetch(SectorOf(c), bad).disk
        /\ hint' = hint
  BY DEF fatfs_fat_set_cluster
<1> DEFINE f == Fetch(SectorOf(c), bad)
<1>2. /\ f.buf \in Buffer /\ f.disk \in [Entry -> Value] /\ f.ok \in BOOLEAN
      /\ Table(f.buf, f.disk) = Table(buf, disk)
      /\ f.ok => f.buf.at = SectorOf(c)
      /\ f.buf.dirty => f.buf.at \in Sector
      /\ ~f.buf.dirty => Table(f.buf, f.disk) = f.disk
  BY SectorOfEntry, FetchFacts
<1>3. /\ buf' = IF f.ok THEN WithEntry(f.buf, c, v) ELSE f.buf
      /\ disk' = f.disk /\ hint' = hint
  BY <1>1
<1> HIDE DEF f
<1>4. CASE ~f.ok
  BY <1>2, <1>3, <1>4 DEF DirtyIsTable, CleanIsDisk
<1>5. CASE f.ok
  <2>1. /\ buf' \in Buffer /\ buf'.dirty /\ buf'.at = SectorOf(c)
        /\ buf'.data = [f.buf.data EXCEPT ![c] = v]
    BY <1>2, <1>3, <1>5, SectorOfEntry DEF WithEntry, Buffer
  <2>2. Table(buf', disk') = [Table(f.buf, f.disk) EXCEPT ![c] = v]
    BY <1>2, <1>3, <1>5, <2>1 DEF Table, Buffer
  <2> QED
    BY <1>2, <1>3, <2>1, <2>2, SectorOfEntry DEF DirtyIsTable, CleanIsDisk
<1> QED
  BY <1>2, <1>4, <1>5

-----------------------------------------------------------------------------
(* The initial state satisfies the invariant and is one of the map's.      *)
THEOREM FatInitInv == FatInit => IInv /\ FM!MapInit
<1> SUFFICES ASSUME FatInit PROVE IInv /\ FM!MapInit
  OBVIOUS
<1>1. /\ disk \in [Entry -> Value] /\ buf = fatfs_fat_init /\ hint = FALSE
      /\ op = Idle
  BY DEF FatInit
<1>2. buf \in Buffer /\ buf.at = Invalid /\ ~buf.dirty
  BY <1>1, EntryFacts DEF fatfs_fat_init, Buffer, Blank
<1>3. Idle \in Op /\ Idle.pc = "idle" /\ Idle.kind = "none"
  BY EntryFacts, FatAssumption DEF Idle, Op
<1>4. Table(buf, disk) = disk
  BY <1>1, <1>2, SectorOfEntry, EntryFacts DEF Table
<1>5. IInv
  BY <1>1, <1>2, <1>3, <1>4
     DEF IInv, FatTypeOK, DirtyIsTable, CleanIsDisk, BlankUntilLinked, OpOK, Buffer
<1>6. FM!MapInit
  BY <1>1, <1>4 DEF FM!MapInit, FM!Entry, FM!Value, FM!Idle, Entry, Value, Idle
<1> QED
  BY <1>5, <1>6

(* The buffer, once the step has been shown to be a read or a write.       *)
LEMMA BufferFacts ==
  ASSUME FatTypeOK, op' \in Op, hint' \in BOOLEAN,
         buf' \in Buffer, disk' \in [Entry -> Value]
  PROVE  FatTypeOK'
  BY DEF FatTypeOK, Buffer

(* The control of the steps that look at an entry, for the value they see. *)
LEMMA ScannedFacts ==
  ASSUME IInv, op.pc = "scan", NEW v \in Value \cup {FAIL}
  PROVE  LET o == Scanned(op, v)
         IN  /\ o \in Op
             /\ o.pc \in {"follow", "link", "end"} => v = 0 /\ o.new = op.cur
             /\ o.pc \in {"follow", "link"} => o.from \in Entry
             /\ o.kind = "extend" => o.from \in Entry
             /\ o.pc = "follow" => o.kind = "extend"
             /\ o.pc # "clear"
<1> USE EntryFacts DEF IInv, FatTypeOK, OpOK
<1>1. op \in Op /\ op.cur \in Entry /\ op.from \in Entry \cup {NoCluster}
  BY DEF Op
<1>2. CASE v = 0
  <2>1. op.cur \in Value
    BY <1>1
  <2>2. Scanned(op, v) = Found(op)
    BY <1>2 DEF Scanned
  <2>3. CASE op.kind = "extend"
    BY <1>1, <1>2, <2>1, <2>2, <2>3 DEF Found, Op
  <2>4. CASE op.kind # "extend" /\ op.from = NoCluster
    <3>1. Scanned(op, v) = [op EXCEPT !.pc = "end", !.new = op.cur]
      BY <2>2, <2>4 DEF Found
    <3> DEFINE o == [op EXCEPT !.pc = "end", !.new = op.cur]
    <3>2. o \in Op
      BY <1>1, <2>1 DEF Op
    <3>3. o.pc = "end" /\ o.new = op.cur /\ o.kind # "extend"
      BY <1>1, <2>4 DEF Op
    <3> QED
      BY <1>2, <3>1, <3>2, <3>3
  <2>5. CASE op.kind # "extend" /\ op.from # NoCluster
    BY <1>1, <1>2, <2>1, <2>2, <2>5 DEF Found, Op
  <2> QED
    BY <2>3, <2>4, <2>5
<1>3. CASE v # 0 /\ (v = FAIL \/ op.cur + 1 \notin Entry)
  BY <1>3, FatAssumption DEF Scanned, Idle, Op
<1>4. CASE v # 0 /\ v # FAIL /\ op.cur + 1 \in Entry
  <2>1. Scanned(op, v) = [op EXCEPT !.cur = op.cur + 1]
    BY <1>4 DEF Scanned
  <2> QED
    BY <1>1, <1>4, <2>1 DEF Op
<1> QED
  BY <1>2, <1>3, <1>4

LEMMA FollowedFacts ==
  ASSUME IInv, op.pc = "follow", NEW v \in Value \cup {FAIL}
  PROVE  LET o == Followed(op, v)
         IN  /\ o \in Op
             /\ o.pc \in {"follow", "link", "end"} => o.new = op.new
             /\ o.pc \in {"follow", "link"} => o.from \in Entry
             /\ o.kind = "extend" => o.from \in Entry
             /\ o.pc = "follow" => o.kind = "extend"
             /\ o.pc # "clear"
<1> USE EntryFacts DEF IInv, FatTypeOK, OpOK
<1>1. op \in Op /\ op.cur \in Entry /\ op.from \in Entry \cup {NoCluster}
  BY DEF Op
<1>2. NextCluster(v) \in Value
  BY DEF NextCluster
<1>3. CASE NextCluster(v) = LAST
  BY <1>1, <1>3 DEF Followed, Op
<1>4. CASE NextCluster(v) # LAST /\ NextCluster(v) = 0
  BY <1>4, FatAssumption DEF Followed, Idle, Op
<1>5. CASE NextCluster(v) # LAST /\ NextCluster(v) # 0
  <2>1. NextCluster(v) \in Entry
    BY <1>2, <1>5 DEF Value
  <2>2. Followed(op, v) = [op EXCEPT !.cur = NextCluster(v)]
    BY <1>5 DEF Followed
  <2> QED
    BY <1>1, <2>1, <2>2 DEF Op
<1> QED
  BY <1>3, <1>4, <1>5

(* The last step of an operation that changes an entry.                    *)
LEMMA EndedFacts ==
  ASSUME IInv, op.pc = "end"
  PROVE  /\ Ended(op) \in Op /\ Ended(op).pc \in {"idle", "scan"}
         /\ Ended(op).kind = "extend" => Ended(op).from \in Entry
<1> USE EntryFacts DEF IInv, FatTypeOK, OpOK
<1>1. op \in Op /\ op.new \in Entry /\ op.n \in 0 .. MaxGrow
  BY DEF Op
<1>2. CASE op.n > 1
  <2>1. op.n - 1 \in 0 .. MaxGrow
    BY <1>1, <1>2, FatAssumption
  <2>2. Ended(op) = [op EXCEPT !.pc = "scan", !.cur = Root, !.from = op.new, !.n = op.n - 1]
    BY <1>2 DEF Ended
  <2> QED
    BY <1>1, <2>1, <2>2 DEF Op
<1>3. CASE ~(op.n > 1)
  BY <1>3, FatAssumption DEF Ended, Idle, Op
<1> QED
  BY <1>2, <1>3

LEMMA ClearedFacts ==
  ASSUME IInv, op.pc = "clear"
  PROVE  /\ Cleared(op) \in Op /\ Cleared(op).pc \in {"idle", "next"}
         /\ Cleared(op).kind = "extend" => Cleared(op).from \in Entry
<1> USE EntryFacts DEF IInv, FatTypeOK, OpOK
<1>1. op \in Op /\ op.new \in Value
  OBVIOUS
<1>2. CASE op.new \in {0, LAST}
  BY <1>2, FatAssumption DEF Cleared, Idle, Op
<1>3. CASE op.new \notin {0, LAST}
  <2>1. op.new \in Entry /\ Cleared(op) = [op EXCEPT !.pc = "next", !.cur = op.new]
    BY <1>1, <1>3 DEF Cleared, Value
  <2> QED
    BY <1>1, <2>1 DEF Op
<1> QED
  BY <1>2, <1>3

-----------------------------------------------------------------------------
(* Every step keeps the invariant, and is a step of the map or none.       *)
THEOREM FatStep == IInv /\ [FatNext]_fatVars => IInv' /\ [FM!MapNext]_(FM!mapVars)
<1> SUFFICES ASSUME IInv, [FatNext]_fatVars
             PROVE  IInv' /\ [FM!MapNext]_(FM!mapVars)
  OBVIOUS
<1> USE EntryFacts
<1>0. FatTypeOK /\ DirtyIsTable /\ CleanIsDisk /\ BlankUntilLinked /\ OpOK
  BY DEF IInv
<1>t. op \in Op /\ op.cur \in Entry /\ buf \in Buffer
  BY <1>0 DEF FatTypeOK, Op, Buffer
<1>1. CASE Start
  <2>1. /\ Idle \in Op /\ Idle.kind = "none"
        /\ 1 \in 0 .. MaxGrow /\ 1 .. MaxGrow \subseteq 0 .. MaxGrow
    BY FatAssumption DEF Idle, Op
  <2>2. /\ op' \in Op /\ op'.pc \in {"hint", "scan", "next"}
        /\ op'.kind = "extend" => op'.from \in Entry
    <3>1. CASE op' = NewChain
      BY <2>1, <3>1 DEF NewChain, Op
    <3>2. ASSUME NEW c \in Data, op' = Extend(c) PROVE <2>2!:
      BY <2>1, <3>2 DEF Extend, Op
    <3>3. ASSUME NEW c \in Data, op' = Free(c) PROVE <2>2!:
      BY <2>1, <3>3 DEF Free, Op
    <3>4. ASSUME NEW c \in Data, NEW n \in 1 .. MaxGrow, op' = Grow(c, n) PROVE <2>2!:
      BY <2>1, <3>4 DEF Grow, Op
    <3> QED
      BY <1>1, <3>1, <3>2, <3>3, <3>4 DEF Start
  <2>3. IInv'
    BY <1>0, <1>1, <2>2
       DEF Start, IInv, FatTypeOK, DirtyIsTable, CleanIsDisk, BlankUntilLinked, OpOK, Table
  <2>4. FM!MapStart
    BY <1>1 DEF Start, FM!MapStart, FM!NewChain, FM!Extend, FM!Free, FM!Grow, FM!Data,
                FM!Entry, FM!Idle, NewChain, Extend, Free, Grow, Data, Entry, Idle, Table
  <2> QED
    BY <2>3, <2>4 DEF FM!MapNext
<1>2. CASE Hint
  <2>1. /\ op.pc = "hint" /\ op' = [op EXCEPT !.pc = "scan"]
        /\ op' \in Op /\ op'.pc = "scan" /\ op'.kind = op.kind /\ op'.from = op.from
    BY <1>2, <1>t DEF Hint, Op
  <2>2. /\ buf' \in Buffer /\ disk' \in [Entry -> Value] /\ hint' \in BOOLEAN
        /\ Table(buf', disk') = Table(buf, disk) /\ DirtyIsTable' /\ CleanIsDisk'
    <3>1. CASE UNCHANGED <<disk, buf, hint>>
      BY <1>0, <3>1 DEF FatTypeOK, Buffer, DirtyIsTable, CleanIsDisk, Table
    <3>2. ASSUME NEW bad \in Faults,
                 LET f == Fetch(FsInfo, bad)
                 IN  /\ buf' = IF f.ok THEN HintDone(f.buf) ELSE f.buf
                     /\ disk' = f.disk
                     /\ hint' = f.ok
          PROVE  <2>2!:
      <4> DEFINE f == Fetch(FsInfo, bad)
      <4>1. /\ f.buf \in Buffer /\ f.disk \in [Entry -> Value] /\ f.ok \in BOOLEAN
            /\ Table(f.buf, f.disk) = Table(buf, disk)
            /\ f.ok => f.buf.at = FsInfo
            /\ f.buf.dirty => f.buf.at \in Sector
            /\ ~f.buf.dirty => Table(f.buf, f.disk) = f.disk
        BY <1>0, FetchFacts
      <4>2. /\ buf' = IF f.ok THEN HintDone(f.buf) ELSE f.buf
            /\ disk' = f.disk /\ hint' = f.ok
        BY <3>2
      <4> HIDE DEF f
      <4>3. CASE ~f.ok
        BY <4>1, <4>2, <4>3 DEF DirtyIsTable, CleanIsDisk
      <4>4. CASE f.ok
        <5>1. /\ buf' \in Buffer /\ buf'.at = Invalid /\ ~buf'.dirty
          BY <4>1, <4>2, <4>4, EntryFacts DEF HintDone, Buffer, Blank
        <5>2. Table(buf', disk') = disk'
          <6>1. \A c \in Entry : SectorOf(c) # buf'.at
            BY <5>1, SectorOfEntry
          <6>2. disk' \in [Entry -> Value]
            BY <4>1, <4>2
          <6> QED
            BY <6>1, <6>2 DEF Table
        <5> QED
          BY <4>1, <4>2, <4>4, <5>1, <5>2 DEF DirtyIsTable, CleanIsDisk
      <4> QED
        BY <4>1, <4>3, <4>4
    <3>3. \/ UNCHANGED <<disk, buf, hint>>
          \/ \E bad \in Faults :
               LET f == Fetch(FsInfo, bad)
               IN  /\ buf' = IF f.ok THEN HintDone(f.buf) ELSE f.buf
                   /\ disk' = f.disk
                   /\ hint' = f.ok
      BY <1>2, Zenon DEF Hint
    <3> QED
      BY <3>1, <3>2, <3>3
  <2>3. IInv'
    BY <1>0, <2>1, <2>2, BufferFacts DEF IInv, BlankUntilLinked, OpOK
  <2>4. FM!MapHint
    BY <2>1, <2>2 DEF FM!MapHint
  <2> QED
    BY <2>3, <2>4 DEF FM!MapNext
<1>3. CASE Scan
  <2>1. PICK bad \in Faults :
          /\ op' = Scanned(op, Got(Fetch(SectorOf(op.cur), bad), op.cur))
          /\ buf' = Fetch(SectorOf(op.cur), bad).buf
          /\ disk' = Fetch(SectorOf(op.cur), bad).disk
          /\ UNCHANGED hint
    BY <1>3 DEF Scan, ReadEntry
  <2> DEFINE v == Got(Fetch(SectorOf(op.cur), bad), op.cur)
  <2>2. /\ buf' \in Buffer /\ disk' \in [Entry -> Value]
        /\ Table(buf', disk') = Table(buf, disk) /\ DirtyIsTable' /\ CleanIsDisk'
        /\ v \in {Table(buf, disk)[op.cur], FAIL} /\ Table(buf, disk)[op.cur] \in Value
    BY <1>0, <1>t, <2>1, ReadFacts
  <2>3. op.pc = "scan" /\ op' = Scanned(op, v) /\ hint' \in BOOLEAN
    BY <1>0, <1>3, <2>1 DEF Scan, FatTypeOK
  <2> HIDE DEF v
  <2>4. /\ op' \in Op
        /\ op'.pc \in {"follow", "link", "end"} => v = 0 /\ op'.new = op.cur
        /\ op'.pc \in {"follow", "link"} => op'.from \in Entry
        /\ op'.kind = "extend" => op'.from \in Entry
        /\ op'.pc = "follow" => op'.kind = "extend"
        /\ op'.pc # "clear"
    BY <2>2, <2>3, ScannedFacts
  <2>5. BlankUntilLinked'
    BY <2>2, <2>4 DEF BlankUntilLinked
  <2>6. IInv'
    BY <1>0, <1>t, <2>2, <2>3, <2>4, <2>5, BufferFacts DEF IInv, OpOK
  <2>7. FM!MapScan
    BY <2>2, <2>3 DEF FM!MapScan, FM!Seen, FM!Scanned, FM!Found, FM!Idle, FM!Entry,
                      Scanned, Found, Idle, Entry
  <2> QED
    BY <2>6, <2>7 DEF FM!MapNext
<1>4. CASE Follow
  <2>1. PICK bad \in Faults :
          /\ op' = Followed(op, Got(Fetch(SectorOf(op.cur), bad), op.cur))
          /\ buf' = Fetch(SectorOf(op.cur), bad).buf
          /\ disk' = Fetch(SectorOf(op.cur), bad).disk
          /\ UNCHANGED hint
    BY <1>4 DEF Follow, ReadEntry
  <2> DEFINE v == Got(Fetch(SectorOf(op.cur), bad), op.cur)
  <2>2. /\ buf' \in Buffer /\ disk' \in [Entry -> Value]
        /\ Table(buf', disk') = Table(buf, disk) /\ DirtyIsTable' /\ CleanIsDisk'
        /\ v \in {Table(buf, disk)[op.cur], FAIL} /\ Table(buf, disk)[op.cur] \in Value
    BY <1>0, <1>t, <2>1, ReadFacts
  <2>3. op.pc = "follow" /\ op' = Followed(op, v) /\ hint' \in BOOLEAN
    BY <1>0, <1>4, <2>1 DEF Follow, FatTypeOK
  <2> HIDE DEF v
  <2>4. /\ op' \in Op
        /\ op'.pc \in {"follow", "link", "end"} => op'.new = op.new
        /\ op'.pc \in {"follow", "link"} => op'.from \in Entry
        /\ op'.kind = "extend" => op'.from \in Entry
        /\ op'.pc = "follow" => op'.kind = "extend"
        /\ op'.pc # "clear"
    BY <2>2, <2>3, FollowedFacts
  <2>5. BlankUntilLinked' /\ OpOK'
    BY <1>0, <2>2, <2>3, <2>4 DEF BlankUntilLinked, OpOK
  <2>6. IInv'
    BY <1>0, <2>2, <2>3, <2>4, <2>5, BufferFacts DEF IInv
  <2>7. FM!MapFollow
    BY <2>2, <2>3 DEF FM!MapFollow, FM!Seen, FM!Followed, FM!NextCluster, FM!Idle,
                      Followed, NextCluster, Idle
  <2> QED
    BY <2>6, <2>7 DEF FM!MapNext
<1>5. CASE Link
  <2>1. /\ op.pc = "link" /\ op' = Linked(op) /\ op' \in Op /\ op'.pc = "end"
        /\ op'.new = op.new /\ op'.kind = op.kind /\ op'.from = op.from
        /\ op.from \in Entry /\ op.new \in Entry
        /\ fatfs_fat_set_cluster(op.from, op.new)
    BY <1>0, <1>5, <1>t DEF Link, Linked, Op, OpOK
  <2>2. /\ buf' \in Buffer /\ disk' \in [Entry -> Value] /\ hint' = hint
        /\ Table(buf', disk') \in {Table(buf, disk), [Table(buf, disk) EXCEPT ![op.from] = op.new]}
        /\ DirtyIsTable' /\ CleanIsDisk'
    BY <1>0, <2>1, WriteFacts
  <2>3. IInv'
    BY <1>0, <2>1, <2>2, BufferFacts DEF IInv, FatTypeOK, BlankUntilLinked, OpOK
  <2>4. FM!MapLink
    BY <2>1, <2>2 DEF FM!MapLink, FM!Linked, FM!Put, Linked
  <2> QED
    BY <2>3, <2>4 DEF FM!MapNext
<1>6. CASE End
  <2>1. /\ op.pc = "end" /\ op' = Ended(op) /\ op.new \in Entry
        /\ fatfs_fat_set_cluster(op.new, LAST)
    BY <1>0, <1>6 DEF End, OpOK
  <2>2. /\ buf' \in Buffer /\ disk' \in [Entry -> Value] /\ hint' = hint
        /\ Table(buf', disk') \in {Table(buf, disk), [Table(buf, disk) EXCEPT ![op.new] = LAST]}
        /\ DirtyIsTable' /\ CleanIsDisk'
    BY <1>0, <2>1, WriteFacts
  <2>3. IInv'
    BY <1>0, <2>1, <2>2, EndedFacts, BufferFacts DEF IInv, FatTypeOK, BlankUntilLinked, OpOK
  <2>4. FM!MapEnd
    BY <2>1, <2>2 DEF FM!MapEnd, FM!Ended, FM!Put, FM!Idle, Ended, Idle
  <2> QED
    BY <2>3, <2>4 DEF FM!MapNext
<1>7. CASE Look
  <2>1. PICK bad \in Faults :
          /\ op' = Nexted(op, Got(Fetch(SectorOf(op.cur), bad), op.cur))
          /\ buf' = Fetch(SectorOf(op.cur), bad).buf
          /\ disk' = Fetch(SectorOf(op.cur), bad).disk
          /\ UNCHANGED hint
    BY <1>7 DEF Look, ReadEntry
  <2> DEFINE v == Got(Fetch(SectorOf(op.cur), bad), op.cur)
  <2>2. /\ buf' \in Buffer /\ disk' \in [Entry -> Value]
        /\ Table(buf', disk') = Table(buf, disk) /\ DirtyIsTable' /\ CleanIsDisk'
        /\ v \in {Table(buf, disk)[op.cur], FAIL} /\ Table(buf, disk)[op.cur] \in Value
    BY <1>0, <1>t, <2>1, ReadFacts
  <2>3. op.pc = "next" /\ op' = Nexted(op, v) /\ hint' \in BOOLEAN
    BY <1>0, <1>7, <2>1 DEF Look, FatTypeOK
  <2> HIDE DEF v
  <2>4. /\ op' \in Op /\ op'.pc = "clear" /\ op'.new \in Value
        /\ op'.kind = op.kind /\ op'.from = op.from
    BY <1>t, <2>2, <2>3 DEF Nexted, NextCluster, Op
  <2>5. IInv'
    BY <1>0, <2>2, <2>3, <2>4, BufferFacts DEF IInv, BlankUntilLinked, OpOK
  <2>6. FM!MapLook
    BY <2>2, <2>3 DEF FM!MapLook, FM!Seen, FM!Nexted, FM!NextCluster, Nexted, NextCluster
  <2> QED
    BY <2>5, <2>6 DEF FM!MapNext
<1>8. CASE Clear
  <2>1. /\ op.pc = "clear" /\ op' = Cleared(op)
        /\ fatfs_fat_set_cluster(op.cur, 0)
    BY <1>8 DEF Clear
  <2>2. /\ buf' \in Buffer /\ disk' \in [Entry -> Value] /\ hint' = hint
        /\ Table(buf', disk') \in {Table(buf, disk), [Table(buf, disk) EXCEPT ![op.cur] = 0]}
        /\ DirtyIsTable' /\ CleanIsDisk'
    BY <1>0, <1>t, <2>1, WriteFacts
  <2>3. IInv'
    BY <1>0, <2>1, <2>2, ClearedFacts, BufferFacts DEF IInv, FatTypeOK, BlankUntilLinked, OpOK
  <2>4. FM!MapClear
    BY <2>1, <2>2 DEF FM!MapClear, FM!Cleared, FM!Put, FM!Idle, Cleared, Idle
  <2> QED
    BY <2>3, <2>4 DEF FM!MapNext
<1>9. CASE Walk
  <2>1. PICK c \in Data, bad \in Faults :
          /\ op' = op
          /\ buf' = Fetch(SectorOf(c), bad).buf
          /\ disk' = Fetch(SectorOf(c), bad).disk
          /\ UNCHANGED hint
    BY <1>9 DEF Walk, ReadEntry
  <2>2. /\ buf' \in Buffer /\ disk' \in [Entry -> Value]
        /\ Table(buf', disk') = Table(buf, disk) /\ DirtyIsTable' /\ CleanIsDisk'
    BY <1>0, <2>1, ReadFacts
  <2>3. IInv'
    BY <1>0, <2>1, <2>2, BufferFacts DEF IInv, FatTypeOK, BlankUntilLinked, OpOK
  <2> QED
    BY <2>1, <2>2, <2>3 DEF FM!mapVars
<1>10. CASE Purge
  <2>1. /\ buf' \in Buffer /\ disk' \in [Entry -> Value] /\ UNCHANGED <<hint, op>>
        /\ Table(buf', disk') = Table(buf, disk) /\ DirtyIsTable' /\ CleanIsDisk'
    <3>1. CASE buf.dirty
      <4>1. /\ disk' = Table(buf, disk) /\ buf' = [buf EXCEPT !.dirty = FALSE]
            /\ UNCHANGED <<hint, op>>
        BY <1>10, <3>1 DEF Purge, fatfs_fat_purge, Saved
      <4>2. /\ buf' \in Buffer /\ buf'.at = buf.at /\ buf'.data = buf.data /\ ~buf'.dirty
        BY <1>t, <4>1 DEF Buffer
      <4>3. Table(buf', disk') = Table(buf, disk)
        BY <4>1, <4>2 DEF Table
      <4>4. Table(buf, disk) \in [Entry -> Value]
        BY <1>0 DEF Table, FatTypeOK
      <4> QED
        BY <4>1, <4>2, <4>3, <4>4 DEF DirtyIsTable, CleanIsDisk
    <3>2. CASE ~buf.dirty
      BY <1>0, <1>10, <1>t, <3>2
         DEF Purge, fatfs_fat_purge, FatTypeOK, DirtyIsTable, CleanIsDisk, Table
    <3> QED
      BY <3>1, <3>2
  <2>2. IInv'
    BY <1>0, <2>1, BufferFacts DEF IInv, FatTypeOK, BlankUntilLinked, OpOK
  <2> QED
    BY <2>1, <2>2 DEF FM!mapVars
<1>11. CASE UNCHANGED fatVars
  BY <1>0, <1>11 DEF fatVars, IInv, FatTypeOK, DirtyIsTable, CleanIsDisk, BlankUntilLinked,
                     OpOK, Table, FM!mapVars
<1> QED
  BY <1>1, <1>2, <1>3, <1>4, <1>5, <1>6, <1>7, <1>8, <1>9, <1>10, <1>11 DEF FatNext

-----------------------------------------------------------------------------
(* The inductive invariant holds, for the table and for the operation.     *)
THEOREM FatInvariant == FatSpec => []IInv
<1>1. FatInit => IInv
  BY FatInitInv
<1>2. IInv /\ [FatNext]_fatVars => IInv'
  BY FatStep
<1> QED
  BY <1>1, <1>2, PTL DEF FatSpec

(* The variables keep their types: every link leads to a cluster of the    *)
(* table or ends a chain (fat_table.c:290-449).                            *)
THEOREM FatTypeCorrect == FatSpec => []FatTypeOK
<1>1. IInv => FatTypeOK
  BY DEF IInv
<1> QED
  BY <1>1, FatInvariant, PTL

(* The write-back puts nothing but the table on the disk, and only at the  *)
(* address of a sector of the table (fat_table.c:82-113, 262-285).         *)
THEOREM FatDirtyIsTable == FatSpec => []DirtyIsTable
<1>1. IInv => DirtyIsTable
  BY DEF IInv
<1> QED
  BY <1>1, FatInvariant, PTL

(* A clean buffer can be given up: the disk holds it                       *)
(* (fat_table.c:117-174).                                                  *)
THEOREM FatCleanIsDisk == FatSpec => []CleanIsDisk
<1>1. IInv => CleanIsDisk
  BY DEF IInv
<1> QED
  BY <1>1, FatInvariant, PTL

(* No cluster that is in use is linked as a new one (fat_table.c:290-346,  *)
(* fat_write.c:46-124).                                                    *)
THEOREM FatBlankUntilLinked == FatSpec => []BlankUntilLinked
<1>1. IInv => BlankUntilLinked
  BY DEF IInv
<1> QED
  BY <1>1, FatInvariant, PTL

(* The table behind its buffer implements the map, whichever accesses fail.*)
THEOREM FatImplementsMap == FatSpec => ImplementsFatMap
<1>1. FatInit => FM!MapInit
  BY FatInitInv
<1>2. IInv /\ [FatNext]_fatVars => [FM!MapNext]_(FM!mapVars)
  BY FatStep
<1> QED
  BY <1>1, <1>2, FatInvariant, PTL DEF FatSpec, FM!MapSpec, ImplementsFatMap

(* A purge leaves the whole table on the disk (fat_table.c:178-195).       *)
THEOREM FatPurgeSaves == FatSpec => PurgeSaves
<1>1. IInv /\ [FatNext]_fatVars => [Purge => disk' = Table(buf, disk)]_fatVars
  <2> SUFFICES ASSUME IInv, Purge PROVE disk' = Table(buf, disk)
    OBVIOUS
  <2>1. CASE buf.dirty
    BY <2>1 DEF Purge, fatfs_fat_purge, Saved
  <2>2. CASE ~buf.dirty
    BY <2>2 DEF Purge, fatfs_fat_purge, IInv, CleanIsDisk
  <2> QED
    BY <2>1, <2>2
<1> QED
  BY <1>1, FatInvariant, PTL DEF FatSpec, PurgeSaves

-----------------------------------------------------------------------------
(***************************************************************************)
(* The tree.  First the chains of clusters, all of which end.              *)
(***************************************************************************)
Fats == [Cluster -> Cluster \cup {0, LAST_CLUSTER}]
(* s is a chain of the table t that ends and passes no cluster twice.      *)
IsChain(t, s) ==
  /\ s \in Seq(Cluster) /\ Len(s) # 0
  /\ \A i, j \in 1 .. Len(s) : s[i] = s[j] => i = j
  /\ \A i \in 1 .. Len(s) : t[s[i]] = IF i = Len(s) THEN LAST_CLUSTER ELSE s[i + 1]

LEMMA ClusterFacts ==
  /\ Cluster \subseteq Nat /\ RootDir \in Cluster /\ RootDir + 1 \in Cluster /\ 0 \notin Cluster
  /\ LAST_CLUSTER \notin Cluster /\ LAST_CLUSTER # 0 /\ None \notin Cluster
  /\ MaxCluster \in Nat /\ Slots \in Nat \ {0}
  BY DirAssumption DEF Cluster, RootDir

LEMMA ChainFacts ==
  ASSUME NEW t \in Fats, NEW s, IsChain(t, s)
  PROVE  /\ Len(s) \in Nat /\ Len(s) >= 1 /\ DOMAIN s = 1 .. Len(s)
         /\ s \in [1 .. Len(s) -> Cluster] /\ s = [i \in 1 .. Len(s) |-> s[i]]
         /\ \A i \in 1 .. Len(s) : s[i] \in Cluster
         /\ Range(s) = {s[i] : i \in 1 .. Len(s)} /\ Range(s) \subseteq Cluster
         /\ \A c \in Range(s) : t[c] # 0
         /\ t[s[Len(s)]] = LAST_CLUSTER
         /\ \A i \in 1 .. Len(s) : i < Len(s) => t[s[i]] = s[i + 1]
<1> DEFINE n == Len(s)
<1>1. s \in Seq(Cluster) /\ n # 0
  BY DEF IsChain
<1>2. n \in Nat /\ n >= 1 /\ DOMAIN s = 1 .. n /\ \A i \in 1 .. n : s[i] \in Cluster
  BY <1>1
<1>3. \A i \in 1 .. n : t[s[i]] = IF i = n THEN LAST_CLUSTER ELSE s[i + 1]
  BY DEF IsChain
<1>4. s \in [1 .. n -> Cluster]
  BY <1>1
<1>5. s = [i \in 1 .. n |-> s[i]]
  BY <1>4
<1> HIDE DEF n
<1>6. Range(s) = {s[i] : i \in 1 .. n}
  BY <1>2 DEF Range
<1>7. ASSUME NEW i \in 1 .. n PROVE t[s[i]] # 0
  <2>1. CASE i = n
    BY <1>3, <2>1, ClusterFacts
  <2>2. CASE i # n
    <3>1. i + 1 \in 1 .. n
      BY <1>2, <2>2
    <3>2. s[i + 1] \in Cluster
      BY <1>2, <3>1
    <3>3. t[s[i]] = s[i + 1]
      BY <1>3, <2>2
    <3> QED
      BY <3>2, <3>3, ClusterFacts
  <2> QED
    BY <2>1, <2>2
<1>8. t[s[n]] = LAST_CLUSTER
  BY <1>2, <1>3
<1>9. \A i \in 1 .. n : i < n => t[s[i]] = s[i + 1]
  <2>1. \A i \in 1 .. n : i < n => i # n
    BY <1>2
  <2> QED
    BY <1>3, <2>1
<1>10. {s[i] : i \in 1 .. n} \subseteq Cluster /\ \A c \in {s[i] : i \in 1 .. n} : t[c] # 0
  BY <1>2, <1>7
<1> QED
  BY <1>2, <1>4, <1>5, <1>6, <1>8, <1>9, <1>10 DEF n

LEMMA ChainLength ==
  ASSUME NEW t \in Fats, NEW s, IsChain(t, s)
  PROVE  Len(s) <= MaxCluster - 1
<1> DEFINE S == 1 .. Len(s)
<1>1. Len(s) \in Nat /\ Len(s) >= 1 /\ DOMAIN s = S /\ \A i \in S : s[i] \in Cluster
  BY ChainFacts
<1>2. s \in [S -> Cluster]
  BY ChainFacts
<1>3. s \in Injection(S, Cluster)
  BY <1>1, <1>2 DEF Injection, IsInjective, IsChain
<1>4. MaxCluster \in Nat /\ MaxCluster >= 2
  BY <1>1, ClusterFacts DEF Cluster, RootDir
<1>5. IsFiniteSet(Cluster) /\ Cardinality(Cluster) = MaxCluster - 1
  BY <1>4, FS_Interval DEF Cluster, RootDir
<1>6. Cardinality(S) = Len(s)
  BY <1>1, FS_Interval
<1> QED
  BY <1>3, <1>5, <1>6, FS_Injection

(* Following the table from the first cluster of a chain gives the chain.  *)
LEMMA ChainIs ==
  ASSUME NEW t \in Fats, NEW s, IsChain(t, s)
  PROVE  Chain(t, s[1]) = s
<1> DEFINE n == Len(s)
           m == MaxCluster
           c == s[1]
           It(h) == [k \in 0 .. m |->
                       IF k = 0 THEN <<c>>
                       ELSE IF t[Last(h[k - 1])] \in Cluster
                            THEN Append(h[k - 1], t[Last(h[k - 1])]) ELSE h[k - 1]]
           pre(k) == [j \in 1 .. (IF k + 1 < n THEN k + 1 ELSE n) |-> s[j]]
           to == CHOOSE h : h = It(h)
           g == [k \in 0 .. m |-> pre(k)]
<1>1. /\ n \in Nat /\ n >= 1 /\ \A i \in 1 .. n : s[i] \in Cluster
      /\ t[s[n]] = LAST_CLUSTER /\ \A i \in 1 .. n : i < n => t[s[i]] = s[i + 1]
      /\ s = [j \in 1 .. n |-> s[j]]
  BY ChainFacts
<1>2. n <= m + 1 /\ m \in Nat
  BY <1>1, ChainLength, ClusterFacts
<1>3. Chain(t, s[1]) = to[m]
  BY DEF Chain
<1> HIDE DEF n, m
<1>4. pre(0) = <<c>>
  BY <1>1
<1>5. ASSUME NEW k \in 1 .. m
      PROVE  pre(k) = IF t[Last(pre(k - 1))] \in Cluster
                      THEN Append(pre(k - 1), t[Last(pre(k - 1))]) ELSE pre(k - 1)
  <2> DEFINE p == pre(k - 1)
  <2>1. CASE k < n
    <3>1. p = [j \in 1 .. k |-> s[j]]
      BY <1>1, <2>1
    <3>2. p \in Seq(Cluster) /\ Len(p) = k /\ Last(p) = s[k]
      <4>0. k \in Nat /\ k \in 1 .. k /\ \A j \in 1 .. k : s[j] \in Cluster
        BY <1>1, <2>1
      <4> HIDE DEF p
      <4>1. p \in [1 .. k -> Cluster] /\ k \in Nat /\ p[k] = s[k]
        BY <3>1, <4>0
      <4>2. p \in Seq(Cluster) /\ Len(p) = k
        BY <4>1
      <4> QED
        BY <4>1, <4>2 DEF Last
    <3>3. t[s[k]] = s[k + 1] /\ s[k + 1] \in Cluster
      <4>1. k \in 1 .. n /\ k + 1 \in 1 .. n
        BY <1>1, <2>1
      <4> QED
        BY <1>1, <2>1, <4>1
    <3>4. pre(k) = [j \in 1 .. k + 1 |-> s[j]]
      BY <1>1, <2>1
    <3> HIDE DEF p
    <3>5. Append(p, s[k + 1]) = [j \in 1 .. k + 1 |-> s[j]]
      BY <1>1, <2>1, <3>1, <3>2, <3>3
    <3> QED
      BY <3>2, <3>3, <3>4, <3>5 DEF p
  <2>2. CASE ~(k < n)
    <3>1. p = [j \in 1 .. n |-> s[j]] /\ pre(k) = p
      BY <1>1, <2>2
    <3>2. Len(p) = n /\ Last(p) = s[n]
      <4> HIDE DEF p
      <4> QED
        BY <1>1, <3>1 DEF Last
    <3>3. t[s[n]] = LAST_CLUSTER
      BY <1>1
    <3> QED
      BY <3>1, <3>2, <3>3, ClusterFacts
  <2> QED
    BY <2>1, <2>2
<1> HIDE DEF pre
<1>6. g = It(g)
  <2>1. \A k \in 1 .. m : k - 1 \in 0 .. m /\ g[k - 1] = pre(k - 1)
    BY <1>2
  <2>2. \A k \in 0 .. m : k # 0 => k \in 1 .. m
    BY <1>2
  <2> QED
    BY <1>4, <1>5, <2>1, <2>2
<1>7. to = It(to)
  <2> HIDE DEF g, It
  <2> QED
    BY <1>6
<1> HIDE DEF to
<1> DEFINE T == {k \in 0 .. m : to[k] = pre(k)}
<1>8. 0 \in T
  BY <1>2, <1>4, <1>7
<1>9. ASSUME NEW k \in 1 .. m, k - 1 \in T PROVE k \in T
  <2>1. k \in 0 .. m /\ k # 0
    BY <1>2
  <2>2. to[k] = IF t[Last(to[k - 1])] \in Cluster
                THEN Append(to[k - 1], t[Last(to[k - 1])]) ELSE to[k - 1]
    BY <1>7, <2>1
  <2> QED
    BY <1>5, <1>9, <2>1, <2>2
<1>10. \A k \in 0 .. m : k \in T
  <2> HIDE DEF T
  <2> QED
    BY <1>2, <1>8, <1>9, InductionTo
<1>11. to[m] = pre(m)
  BY <1>2, <1>10
<1>12. pre(m) = s
  BY <1>1, <1>2 DEF pre
<1> QED
  BY <1>3, <1>11, <1>12

(* A blank cluster linked behind a chain makes it longer by one.           *)
LEMMA GrownByOne ==
  ASSUME NEW t \in Fats, NEW s, IsChain(t, s), NEW c \in Cluster, t[c] = 0,
         NEW t2 \in Fats, t2[s[Len(s)]] = c, t2[c] = LAST_CLUSTER,
         \A d \in Cluster : d # c /\ d # s[Len(s)] => t2[d] = t[d]
  PROVE  /\ IsChain(t2, Append(s, c)) /\ Range(Append(s, c)) = Range(s) \cup {c}
         /\ \A d \in Cluster : d \notin Range(s) \cup {c} => t2[d] = t[d]
<1> DEFINE n == Len(s)
           s2 == Append(s, c)
<1>1. /\ n \in Nat /\ n >= 1 /\ \A i \in 1 .. n : s[i] \in Cluster
      /\ t[s[n]] = LAST_CLUSTER /\ \A i \in 1 .. n : i < n => t[s[i]] = s[i + 1]
      /\ Range(s) = {s[i] : i \in 1 .. n} /\ \A d \in Range(s) : t[d] # 0
  BY ChainFacts
<1>2. s \in Seq(Cluster) /\ \A i, j \in 1 .. n : s[i] = s[j] => i = j
  BY DEF IsChain
<1>3. /\ s2 \in Seq(Cluster) /\ Len(s2) = n + 1
      /\ \A i \in 1 .. n : s2[i] = s[i]
      /\ s2[n + 1] = c
  BY <1>2
<1>0. t2[s[n]] = c /\ \A d \in Cluster : d # c /\ d # s[n] => t2[d] = t[d]
  OBVIOUS
<1> HIDE DEF n, s2
<1>4. \A i \in 1 .. n : s[i] # c
  BY <1>1
<1>5. s[n] \in Cluster /\ n \in 1 .. n
  BY <1>1
<1>7. /\ t2[c] = LAST_CLUSTER /\ t2[s[n]] = c
      /\ \A d \in Cluster : d # c /\ d # s[n] => t2[d] = t[d]
  BY <1>0
<1>8. \A i \in 1 .. n + 1 : i = n + 1 \/ i \in 1 .. n
  BY <1>1
<1>9. \A i, j \in 1 .. n + 1 : s2[i] = s2[j] => i = j
  BY <1>2, <1>3, <1>4, <1>8
<1>10. ASSUME NEW i \in 1 .. n + 1 PROVE t2[s2[i]] = IF i = n + 1 THEN LAST_CLUSTER ELSE s2[i + 1]
  <2>1. CASE i = n + 1
    BY <1>3, <1>7, <2>1
  <2>2. CASE i = n
    BY <1>1, <1>3, <1>5, <1>7, <2>2
  <2>3. CASE i < n
    <3>1. i \in 1 .. n /\ i + 1 \in 1 .. n /\ i # n + 1 /\ i # n
      BY <1>1, <2>3
    <3>2. s[i] # c /\ s[i] # s[n] /\ s[i] \in Cluster
      BY <1>1, <1>2, <1>4, <1>5, <3>1
    <3>3. t2[s[i]] = s[i + 1]
      BY <1>1, <1>7, <2>3, <3>1, <3>2
    <3> QED
      BY <1>3, <3>1, <3>3
  <2> QED
    BY <1>1, <2>1, <2>2, <2>3
<1>11. n + 1 # 0
  BY <1>1
<1>12. IsChain(t2, s2)
  BY <1>3, <1>9, <1>10, <1>11 DEF IsChain
<1>13. Range(s2) = Range(s) \cup {c}
  <2> DEFINE m == n + 1
  <2>1. m \in 1 .. m /\ \A i \in 1 .. n : i \in 1 .. m
    BY <1>1
  <2>2. Len(s2) = m /\ s2[m] = c /\ \A i \in 1 .. m : i = m \/ i \in 1 .. n
    BY <1>3, <1>8
  <2> HIDE DEF m
  <2>3. Range(s2) = {s2[i] : i \in 1 .. m}
    BY <1>3, <2>2 DEF Range
  <2>4. \A i \in 1 .. n : s2[i] = s[i]
    BY <1>3
  <2>5. \A d \in Range(s2) : d \in Range(s) \cup {c}
    BY <1>1, <2>2, <2>3, <2>4
  <2>6. \A d \in Range(s) \cup {c} : d \in Range(s2)
    BY <1>1, <2>1, <2>2, <2>3, <2>4
  <2> QED
    BY <2>5, <2>6
<1>14. s[n] \in Range(s)
  BY <1>1, <1>5
<1>15. \A d \in Cluster : d \notin Range(s) \cup {c} => t2[d] = t[d]
  BY <1>7, <1>14
<1> QED
  BY <1>12, <1>13, <1>15 DEF n, s2

(* The clusters of the chain that begins with x.                           *)
Own(f, x) == Range(Chain(f, x))
HasChain(f, h) == IsChain(f, Chain(f, h)) /\ Chain(f, h)[1] = h

(* The chains of a table by their heads H, apart from each other and from  *)
(* the clusters L that are lost; the others are free.                      *)
TableOk(f, H, L) ==
  /\ f \in Fats /\ H \subseteq Cluster /\ L \subseteq Cluster
  /\ \A h \in H : HasChain(f, h)
  /\ \A h, k \in H : \A x \in Cluster : x \in Own(f, h) /\ x \in Own(f, k) => h = k
  /\ \A h \in H : \A x \in L : x \notin Own(f, h)
  /\ \A x \in Cluster : f[x] # 0 <=> x \in L \/ \E h \in H : x \in Own(f, h)

LEMMA OwnFacts ==
  ASSUME NEW f \in Fats, NEW h, HasChain(f, h)
  PROVE  /\ h \in Own(f, h) /\ Own(f, h) \subseteq Cluster /\ h \in Cluster
         /\ \A x \in Own(f, h) : f[x] # 0
         /\ Last(Chain(f, h)) \in Own(f, h)
<1> DEFINE s == Chain(f, h)
           n == Len(s)
<1>1. IsChain(f, s) /\ s[1] = h
  BY DEF HasChain
<1> HIDE DEF s
<1>2. /\ n \in Nat /\ n >= 1 /\ \A i \in 1 .. n : s[i] \in Cluster
      /\ Range(s) = {s[i] : i \in 1 .. n} /\ Range(s) \subseteq Cluster
      /\ \A c \in Range(s) : f[c] # 0
  BY <1>1, ChainFacts
<1>3. 1 \in 1 .. n /\ n \in 1 .. n
  BY <1>2
<1>4. s[1] \in Range(s) /\ s[n] \in Range(s)
  BY <1>2, <1>3
<1> QED
  BY <1>1, <1>2, <1>4 DEF Own, Last, s

(* A chain stays when another part of the table changes.                   *)
LEMMA SameChain ==
  ASSUME NEW f \in Fats, NEW g \in Fats, NEW h, HasChain(f, h),
         \A x \in Own(f, h) : g[x] = f[x]
  PROVE  Chain(g, h) = Chain(f, h) /\ HasChain(g, h) /\ g[h] = f[h] /\ Own(g, h) = Own(f, h)
<1> DEFINE s == Chain(f, h)
           n == Len(s)
<1>1. IsChain(f, s) /\ s[1] = h /\ Range(s) = Own(f, h)
  BY DEF HasChain, Own
<1> HIDE DEF s
<1>2. Range(s) = {s[i] : i \in 1 .. n} /\ n \in Nat
  BY <1>1, ChainFacts
<1>3. \A i \in 1 .. n : s[i] \in Range(s)
  BY <1>2
<1>4. \A i \in 1 .. n : g[s[i]] = f[s[i]]
  BY <1>1, <1>3
<1>5. IsChain(g, s)
  BY <1>1, <1>4 DEF IsChain
<1>6. Chain(g, h) = s
  BY <1>1, <1>5, ChainIs
<1>7. h \in Own(f, h)
  BY OwnFacts
<1> QED
  BY <1>1, <1>5, <1>6, <1>7 DEF HasChain, Own, s

(* What apart chains say about clusters and free entries.                  *)
LEMMA TableFacts ==
  ASSUME NEW f, NEW H, NEW L, TableOk(f, H, L)
  PROVE  /\ f \in Fats /\ H \subseteq Cluster /\ L \subseteq Cluster
         /\ \A h \in H : /\ HasChain(f, h) /\ h \in Own(f, h) /\ Own(f, h) \subseteq Cluster
                         /\ h \in Cluster /\ \A x \in Own(f, h) : f[x] # 0
         /\ \A h, k \in H : \A x \in Own(f, h) : x \in Own(f, k) => h = k
<1>1. /\ f \in Fats /\ H \subseteq Cluster /\ L \subseteq Cluster
      /\ \A h \in H : HasChain(f, h)
      /\ \A h, k \in H : \A x \in Cluster : x \in Own(f, h) /\ x \in Own(f, k) => h = k
  BY DEF TableOk
<1>2. \A h \in H : /\ h \in Own(f, h) /\ Own(f, h) \subseteq Cluster
                   /\ h \in Cluster /\ \A x \in Own(f, h) : f[x] # 0
  BY <1>1, OwnFacts
<1> QED
  BY <1>1, <1>2

(* The first cluster of a new chain.                                       *)
LEMMA TakeCluster ==
  ASSUME NEW f, NEW H, NEW L, TableOk(f, H, L), NEW c \in Cluster, f[c] = 0,
         NEW g \in Fats, g[c] = LAST_CLUSTER, \A x \in Cluster : x # c => g[x] = f[x]
  PROVE  /\ TableOk(g, H \cup {c}, L) /\ c \notin H /\ g[c] = LAST_CLUSTER
         /\ Chain(g, c) = <<c>>
         /\ \A h \in H : Chain(g, h) = Chain(f, h) /\ g[h] = f[h] /\ c \notin Own(g, h)
<1> DEFINE s == <<c>>
<1>1. /\ f \in Fats /\ H \subseteq Cluster /\ L \subseteq Cluster
      /\ \A h \in H : /\ HasChain(f, h) /\ h \in Own(f, h) /\ Own(f, h) \subseteq Cluster
                      /\ h \in Cluster /\ \A x \in Own(f, h) : f[x] # 0
      /\ \A h, k \in H : \A x \in Own(f, h) : x \in Own(f, k) => h = k
  BY TableFacts
<1>2. g \in Fats /\ g[c] = LAST_CLUSTER /\ \A x \in Cluster : x # c => g[x] = f[x]
  BY <1>1 DEF Fats
<1>3. ASSUME NEW h \in H
      PROVE  /\ c \notin Own(f, h) /\ c # h /\ Chain(g, h) = Chain(f, h) /\ HasChain(g, h)
             /\ g[h] = f[h] /\ Own(g, h) = Own(f, h)
  <2>1. c \notin Own(f, h) /\ c # h
    BY <1>1
  <2>2. \A x \in Own(f, h) : g[x] = f[x]
    BY <1>1, <1>2, <2>1
  <2> QED
    BY <1>1, <1>2, <2>1, <2>2, SameChain
<1>4. IsChain(g, s) /\ s[1] = c /\ Range(s) = {c}
  <2>1. s \in Seq(Cluster) /\ Len(s) = 1 /\ s[1] = c /\ DOMAIN s = {1}
    OBVIOUS
  <2>2. Range(s) = {c}
    BY <2>1 DEF Range
  <2> HIDE DEF s
  <2> QED
    BY <1>2, <2>1, <2>2 DEF IsChain
<1> HIDE DEF s
<1>5. Chain(g, c) = s /\ HasChain(g, c) /\ Own(g, c) = {c}
  <2>1. Chain(g, c) = s
    BY <1>2, <1>4, ChainIs
  <2> QED
    BY <1>4, <2>1 DEF HasChain, Own
<1>6. TableOk(g, H \cup {c}, L)
  <2>1. /\ \A h \in H : \A x \in L : x \notin Own(f, h)
        /\ \A x \in Cluster : f[x] # 0 <=> x \in L \/ \E h \in H : x \in Own(f, h)
    BY DEF TableOk
  <2>2. \A h \in H \cup {c} : HasChain(g, h)
    BY <1>3, <1>5
  <2>3. ASSUME NEW h \in H \cup {c}, NEW k \in H \cup {c}, NEW x \in Cluster,
               x \in Own(g, h), x \in Own(g, k)
        PROVE  h = k
    BY <1>1, <1>3, <1>5, <2>3
  <2>4. c \notin L
    BY <2>1
  <2>5. \A h \in H \cup {c} : \A x \in L : x \notin Own(g, h)
    BY <1>3, <1>5, <2>1, <2>4
  <2>6. ASSUME NEW x \in Cluster
        PROVE  g[x] # 0 <=> x \in L \/ \E h \in H \cup {c} : x \in Own(g, h)
    <3>1. CASE x = c
      BY <1>2, <1>5, <3>1, ClusterFacts
    <3>2. CASE x # c
      <4>1. (\E h \in H \cup {c} : x \in Own(g, h)) <=> \E h \in H : x \in Own(f, h)
        BY <1>3, <1>5, <3>2
      <4> QED
        BY <1>2, <2>1, <3>2, <4>1
    <3> QED
      BY <3>1, <3>2
  <2>7. H \cup {c} \subseteq Cluster
    BY <1>1
  <2> QED
    BY <1>1, <1>2, <2>2, <2>3, <2>5, <2>6, <2>7 DEF TableOk
<1> QED
  BY <1>2, <1>3, <1>5, <1>6 DEF s

(* A cluster behind the last one of a chain.                               *)
LEMMA GrowChain ==
  ASSUME NEW f, NEW H, NEW L, TableOk(f, H, L), NEW h \in H, NEW c \in Cluster, f[c] = 0,
         NEW g \in Fats, g[c] = LAST_CLUSTER, g[Last(Chain(f, h))] = c,
         \A x \in Cluster : x # c /\ x # Last(Chain(f, h)) => g[x] = f[x]
  PROVE  /\ TableOk(g, H, L) /\ Chain(g, h) = Append(Chain(f, h), c)
         /\ Own(g, h) = Own(f, h) \cup {c}
         /\ \A k \in H : k # h => Chain(g, k) = Chain(f, k) /\ g[k] = f[k]
         /\ \A k \in H : c \notin Own(f, k)
<1> DEFINE s == Chain(f, h)
           s2 == Append(s, c)
<1>1. /\ f \in Fats /\ H \subseteq Cluster /\ L \subseteq Cluster
      /\ \A k \in H : /\ HasChain(f, k) /\ k \in Own(f, k) /\ Own(f, k) \subseteq Cluster
                      /\ k \in Cluster /\ \A x \in Own(f, k) : f[x] # 0
      /\ \A j, k \in H : \A x \in Own(f, j) : x \in Own(f, k) => j = k
  BY TableFacts
<1>2. IsChain(f, s) /\ s[1] = h /\ Range(s) = Own(f, h)
  BY <1>1 DEF HasChain, Own
<1>3. /\ g \in Fats /\ IsChain(g, s2) /\ Range(s2) = Range(s) \cup {c}
      /\ \A d \in Cluster : d \notin Range(s) \cup {c} => g[d] = f[d]
  <2>1. s[Len(s)] \in Cluster /\ f[s[Len(s)]] # 0
    BY <1>1, OwnFacts DEF Last
  <2>2. /\ g \in Fats /\ g[s[Len(s)]] = c /\ g[c] = LAST_CLUSTER
        /\ \A d \in Cluster : d # c /\ d # s[Len(s)] => g[d] = f[d]
    BY DEF Last
  <2> HIDE DEF s
  <2> QED
    BY <1>1, <1>2, <2>2, GrownByOne
<1>4. s2[1] = h
  <2>1. f \in Fats /\ IsChain(f, s) /\ s[1] = h
    BY <1>1, <1>2
  <2> HIDE DEF s
  <2>2. s \in Seq(Cluster) /\ Len(s) \in Nat /\ Len(s) >= 1
    BY ONLY <2>1, ChainFacts DEF IsChain
  <2> QED
    BY <2>1, <2>2
<1>5. Chain(g, h) = s2 /\ HasChain(g, h) /\ Own(g, h) = Own(f, h) \cup {c}
  <2> HIDE DEF s2, s
  <2>1. Chain(g, h) = s2
    BY <1>3, <1>4, ChainIs
  <2> QED
    BY <1>2, <1>3, <1>4, <2>1 DEF HasChain, Own
<1> HIDE DEF s2, s
<1>6. ASSUME NEW k \in H
      PROVE  /\ c \notin Own(f, k)
             /\ k # h => /\ Chain(g, k) = Chain(f, k) /\ HasChain(g, k)
                         /\ g[k] = f[k] /\ Own(g, k) = Own(f, k)
  <2>1. c \notin Own(f, k)
    BY <1>1
  <2>2. ASSUME k # h, NEW x \in Own(f, k) PROVE g[x] = f[x]
    <3>1. x \in Cluster /\ x \notin Own(f, h)
      BY <1>1, <2>2
    <3> QED
      BY <1>2, <1>3, <2>1, <3>1
  <2> QED
    BY <1>1, <1>3, <2>1, <2>2, SameChain
<1>7. TableOk(g, H, L)
  <2>1. /\ \A k \in H : \A x \in L : x \notin Own(f, k)
        /\ \A x \in Cluster : f[x] # 0 <=> x \in L \/ \E k \in H : x \in Own(f, k)
    BY DEF TableOk
  <2>2. \A k \in H : HasChain(g, k)
    BY <1>5, <1>6
  <2>3. ASSUME NEW j \in H, NEW k \in H, NEW x \in Cluster, x \in Own(g, j), x \in Own(g, k)
        PROVE  j = k
    BY <1>1, <1>5, <1>6, <2>3
  <2>4. c \notin L
    BY <2>1
  <2>5. \A k \in H : \A x \in L : x \notin Own(g, k)
    BY <1>5, <1>6, <2>1, <2>4
  <2>6. ASSUME NEW x \in Cluster
        PROVE  g[x] # 0 <=> x \in L \/ \E k \in H : x \in Own(g, k)
    <3>1. CASE x \in Own(g, h)
      BY <1>3, <1>5, <3>1, OwnFacts
    <3>2. CASE x \notin Own(g, h)
      <4>1. g[x] = f[x]
        BY <1>2, <1>3, <1>5, <3>2
      <4>2. (\E k \in H : x \in Own(g, k)) <=> \E k \in H : x \in Own(f, k)
        BY <1>5, <1>6, <3>2
      <4> QED
        BY <2>1, <4>1, <4>2
    <3> QED
      BY <3>1, <3>2
  <2> QED
    BY <1>1, <1>3, <2>2, <2>3, <2>5, <2>6 DEF TableOk
<1> QED
  BY <1>5, <1>6, <1>7 DEF s2, s

(* A chain is given back.                                                  *)
LEMMA FreeChain ==
  ASSUME NEW f, NEW H, NEW L, TableOk(f, H, L), NEW h \in H,
         NEW g \in Fats, \A x \in Cluster : g[x] = IF x \in Own(f, h) THEN 0 ELSE f[x]
  PROVE  /\ TableOk(g, H \ {h}, L)
         /\ \A k \in H \ {h} : Chain(g, k) = Chain(f, k) /\ g[k] = f[k]
<1>1. /\ f \in Fats /\ H \subseteq Cluster /\ L \subseteq Cluster
      /\ \A k \in H : /\ HasChain(f, k) /\ k \in Own(f, k) /\ Own(f, k) \subseteq Cluster
                      /\ k \in Cluster /\ \A x \in Own(f, k) : f[x] # 0
      /\ \A j, k \in H : \A x \in Own(f, j) : x \in Own(f, k) => j = k
  BY TableFacts
<1>2. \A x \in Cluster : g[x] = IF x \in Own(f, h) THEN 0 ELSE f[x]
  BY DEF ClearedIn, Own
<1>3. g \in Fats
  BY <1>1 DEF ClearedIn, Fats
<1>4. ASSUME NEW k \in H \ {h}
      PROVE  /\ Chain(g, k) = Chain(f, k) /\ HasChain(g, k)
             /\ g[k] = f[k] /\ Own(g, k) = Own(f, k)
  <2>1. ASSUME NEW x \in Own(f, k) PROVE g[x] = f[x]
    <3>1. x \in Cluster /\ x \notin Own(f, h)
      BY <1>1
    <3> QED
      BY <1>2, <3>1
  <2> QED
    BY <1>1, <1>3, <2>1, SameChain
<1>5. TableOk(g, H \ {h}, L)
  <2>1. /\ \A k \in H : \A x \in L : x \notin Own(f, k)
        /\ \A x \in Cluster : f[x] # 0 <=> x \in L \/ \E k \in H : x \in Own(f, k)
    BY DEF TableOk
  <2>2. \A k \in H \ {h} : HasChain(g, k)
    BY <1>4
  <2>3. ASSUME NEW j \in H \ {h}, NEW k \in H \ {h}, NEW x \in Cluster,
               x \in Own(g, j), x \in Own(g, k)
        PROVE  j = k
    BY <1>1, <1>4, <2>3
  <2>5. \A k \in H \ {h} : \A x \in L : x \notin Own(g, k)
    BY <1>4, <2>1
  <2>6. ASSUME NEW x \in Cluster
        PROVE  g[x] # 0 <=> x \in L \/ \E k \in H \ {h} : x \in Own(g, k)
    <3>1. CASE x \in Own(f, h)
      <4>1. g[x] = 0 /\ x \notin L
        BY <1>2, <2>1, <3>1
      <4>2. \A k \in H \ {h} : x \notin Own(g, k)
        BY <1>1, <1>4, <3>1
      <4> QED
        BY <4>1, <4>2
    <3>2. CASE x \notin Own(f, h)
      <4>1. g[x] = f[x]
        BY <1>2, <3>2
      <4>2. (\E k \in H \ {h} : x \in Own(g, k)) <=> \E k \in H : x \in Own(f, k)
        BY <1>4, <3>2
      <4> QED
        BY <2>1, <4>1, <4>2
    <3> QED
      BY <3>1, <3>2
  <2> QED
    BY <1>1, <1>3, <2>2, <2>3, <2>5, <2>6 DEF TableOk
<1> QED
  BY <1>4, <1>5

(* A chain that nothing leads to any more.                                 *)
LEMMA LoseChain ==
  ASSUME NEW f, NEW H, NEW L, TableOk(f, H, L), NEW h \in H
  PROVE  TableOk(f, H \ {h}, L \cup Own(f, h))
<1>1. /\ f \in Fats /\ H \subseteq Cluster /\ L \subseteq Cluster
      /\ \A k \in H : /\ HasChain(f, k) /\ k \in Own(f, k) /\ Own(f, k) \subseteq Cluster
                      /\ k \in Cluster /\ \A x \in Own(f, k) : f[x] # 0
      /\ \A j, k \in H : \A x \in Own(f, j) : x \in Own(f, k) => j = k
  BY TableFacts
<1>2. /\ \A k \in H : \A x \in L : x \notin Own(f, k)
      /\ \A x \in Cluster : f[x] # 0 <=> x \in L \/ \E k \in H : x \in Own(f, k)
  BY DEF TableOk
<1>3. \A k \in H \ {h} : \A x \in L \cup Own(f, h) : x \notin Own(f, k)
  BY <1>1, <1>2
<1>4. ASSUME NEW x \in Cluster
      PROVE  f[x] # 0 <=> x \in L \cup Own(f, h) \/ \E k \in H \ {h} : x \in Own(f, k)
  BY <1>2
<1> QED
  BY <1>1, <1>3, <1>4 DEF TableOk

Sfn == (DOMAIN Shown \cup {Base[n] : n \in Name} \cup {Stem[Base[n]] : n \in Name}) \X Nat
LfnCell == [t : {"lfn"}, name : Name, i : Nat]
SfnCell == [t : Kind, sfn : Sfn, first : Cluster \ {RootDir}, size : Nat]
Cell == {BlankEntry, Deleted} \cup LfnCell \cup SfnCell

(* Where the files and directories of a list of entries are.               *)
LiveAt(s) == {p \in DOMAIN s : Live(s[p])}

(* The entry at p has the name m: it has none but its short name, or its   *)
(* parts and only those are right before it.                               *)
WellNamed(s, p, m) ==
  \/ /\ p = 1 \/ s[p - 1].t # "lfn"
     /\ s[p].sfn[1] \in DOMAIN Shown /\ m = Shown[s[p].sfn[1]]
  \/ /\ Parts[m] < p
     /\ \A i \in 1 .. Parts[m] : s[p - i] = LfnEntry(m, i)
     /\ p - Parts[m] = 1 \/ s[p - Parts[m] - 1].t # "lfn"

LEMMA CellFacts ==
  ASSUME NEW e \in Cell
  PROVE  /\ e.t \in {"blank", "deleted", "lfn", "file", "dir"}
         /\ Live(e) <=> e \in SfnCell
         /\ Live(e) => /\ e.t \in Kind /\ e.first \in Cluster /\ e.first # RootDir
                       /\ e.size \in Nat /\ e.sfn \in Sfn
                       /\ e = SfnEntry(e.t, e.sfn, e.first, e.size)
         /\ e.t = "lfn" \/ e.t = "deleted" \/ e.t = "blank" => ~Live(e)
<1>1. CASE e = BlankEntry
  BY <1>1 DEF BlankEntry, Live, Kind, SfnCell
<1>2. CASE e = Deleted
  BY <1>2 DEF Deleted, Live, Kind, SfnCell
<1>3. CASE e \in LfnCell
  BY <1>3 DEF LfnCell, Live, Kind, SfnCell
<1>4. CASE e \in SfnCell
  <2>1. e.t \in Kind /\ e = SfnEntry(e.t, e.sfn, e.first, e.size)
    BY <1>4 DEF SfnCell, SfnEntry
  <2>2. e.first \in Cluster /\ e.first # RootDir /\ e.size \in Nat /\ e.sfn \in Sfn
    BY <1>4 DEF SfnCell
  <2> QED
    BY <1>4, <2>1, <2>2 DEF Live, Kind
<1> QED
  BY <1>1, <1>2, <1>3, <1>4 DEF Cell

LEMMA CellsAre ==
  /\ BlankEntry \in Cell /\ BlankEntry.t = "blank" /\ ~Live(BlankEntry)
  /\ Deleted \in Cell /\ Deleted.t = "deleted" /\ ~Live(Deleted)
  /\ \A n \in Name, i \in Nat : /\ LfnEntry(n, i) \in Cell /\ LfnEntry(n, i).t = "lfn"
                                /\ LfnEntry(n, i).name = n /\ LfnEntry(n, i).i = i
                                /\ ~Live(LfnEntry(n, i))
  /\ \A k \in Kind, x \in Sfn, c \in Cluster \ {RootDir}, z \in Nat :
       SfnEntry(k, x, c, z) \in SfnCell /\ SfnEntry(k, x, c, z) \in Cell
<1>1. ASSUME NEW n \in Name, NEW i \in Nat
      PROVE  /\ LfnEntry(n, i) \in Cell /\ LfnEntry(n, i).t = "lfn"
             /\ LfnEntry(n, i).name = n /\ LfnEntry(n, i).i = i /\ ~Live(LfnEntry(n, i))
  BY DEF LfnEntry, Cell, LfnCell, Live, Kind
<1>2. ASSUME NEW k \in Kind, NEW x \in Sfn, NEW c \in Cluster \ {RootDir}, NEW z \in Nat
      PROVE  SfnEntry(k, x, c, z) \in SfnCell /\ SfnEntry(k, x, c, z) \in Cell
  BY DEF SfnEntry, Cell, SfnCell
<1>3. /\ BlankEntry \in Cell /\ BlankEntry.t = "blank" /\ ~Live(BlankEntry)
      /\ Deleted \in Cell /\ Deleted.t = "deleted" /\ ~Live(Deleted)
  BY DEF BlankEntry, Deleted, Cell, Live, Kind
<1> QED
  BY <1>1, <1>2, <1>3

LEMMA PartsFacts == \A m \in Name : Parts[m] \in Nat /\ Parts[m] >= 1
  BY DirAssumption

LEMMA MaxIs ==
  ASSUME NEW S \in SUBSET Int, NEW x \in S, \A y \in S : y <= x
  PROVE  Max(S) = x
<1> DEFINE m == Max(S)
<1>1. m \in S /\ \A y \in S : m >= y
  BY DEF Max
<1> HIDE DEF m
<1>2. m = x
  BY <1>1
<1> QED
  BY <1>2 DEF m

LEMMA MinIs ==
  ASSUME NEW S \in SUBSET Int, NEW x \in S, \A y \in S : x <= y
  PROVE  Min(S) = x
<1> DEFINE m == Min(S)
<1>1. m \in S /\ \A y \in S : m <= y
  BY DEF Min
<1> HIDE DEF m
<1>2. m = x
  BY <1>1
<1> QED
  BY <1>2 DEF m

(* fatfs_lfn_cache_entry and what it collects the name from                *)
(* (fat_misc.c:55-117).                                                    *)
LEMMA NameIs ==
  ASSUME NEW s \in Seq(Cell), NEW p \in DOMAIN s, NEW m \in Name, WellNamed(s, p, m)
  PROVE  NameAt(s, p) = m
<1> DEFINE S == {q \in 0 .. p - 1 : q = 0 \/ s[q].t # "lfn"}
           parts == Max(S) + 1 .. p - 1
<1>1. p \in Nat /\ p >= 1 /\ S \in SUBSET Int
  OBVIOUS
<1>2. NameAt(s, p) = NameOf(s, p, parts)
  BY DEF NameAt
<1>3. CASE /\ p = 1 \/ s[p - 1].t # "lfn"
           /\ s[p].sfn[1] \in DOMAIN Shown /\ m = Shown[s[p].sfn[1]]
  <2>1. p - 1 \in S /\ \A q \in S : q <= p - 1
    BY <1>1, <1>3
  <2>2. Max(S) = p - 1
    <3> HIDE DEF S
    <3> QED
      BY <1>1, <2>1, MaxIs
  <2>3. parts = {}
    <3> HIDE DEF S
    <3> QED
      BY <1>1, <2>2
  <2> HIDE DEF parts
  <2> QED
    BY <1>2, <1>3, <2>3 DEF NameOf, Displayed
<1>4. CASE /\ Parts[m] < p
           /\ \A i \in 1 .. Parts[m] : s[p - i] = LfnEntry(m, i)
           /\ p - Parts[m] = 1 \/ s[p - Parts[m] - 1].t # "lfn"
  <2> DEFINE k == Parts[m]
  <2>1. k \in Nat /\ k >= 1 /\ k < p
    BY <1>4, PartsFacts
  <2>2. ASSUME NEW q \in p - k .. p - 1
        PROVE  s[q].t = "lfn" /\ s[q].i = p - q /\ s[q].name = m /\ q > 0
    <3>1. p - q \in 1 .. k /\ p - (p - q) = q
      BY <1>1, <2>1
    <3>2. s[q] = LfnEntry(m, p - q)
      BY <1>4, <3>1
    <3> QED
      BY <1>1, <2>1, <3>1, <3>2 DEF LfnEntry
  <2>3. p - k - 1 = 0 \/ s[p - k - 1].t # "lfn"
    BY <1>4
  <2> HIDE DEF k
  <2>4. p - k - 1 \in S
    BY <1>1, <2>1, <2>3
  <2>5. \A q \in S : q <= p - k - 1
    <3>1. \A q \in S : q \notin p - k .. p - 1 /\ q \in 0 .. p - 1
      BY <2>2
    <3> QED
      BY <1>1, <2>1, <3>1
  <2>6. Max(S) = p - k - 1
    <3> HIDE DEF S
    <3> QED
      BY <1>1, <2>4, <2>5, MaxIs
  <2>7. parts = p - k .. p - 1
    <3> HIDE DEF S
    <3> QED
      BY <1>1, <2>1, <2>6
  <2> HIDE DEF parts
  <2>8. parts # {} /\ Min(parts) = p - k
    <3>1. p - k \in parts /\ parts \in SUBSET Int /\ \A q \in parts : p - k <= q
      BY <1>1, <2>1, <2>7
    <3> QED
      BY <3>1, MinIs
  <2>9. s[Min(parts)].i = k
    <3>1. p - k \in p - k .. p - 1
      BY <1>1, <2>1
    <3> QED
      BY <1>1, <2>1, <2>2, <2>8, <3>1
  <2> DEFINE part(i) == s[Max({q \in parts : s[q].i = i})].name
             whole == {x \in Name : /\ Parts[x] = k
                                    /\ \A i \in 1 .. k : (\E q \in parts : s[q].i = i) /\ part(i) = x}
  <2>10. ASSUME NEW i \in 1 .. k PROVE (\E q \in parts : s[q].i = i) /\ part(i) = m
    <3>1. p - i \in parts /\ s[p - i].i = i /\ s[p - i].name = m
      <4>1. p - i \in p - k .. p - 1 /\ p - (p - i) = i
        BY <1>1, <2>1
      <4> QED
        BY <2>2, <2>7, <4>1
    <3>2. \A q \in parts : s[q].i = i => q = p - i
      <4>1. \A q \in parts : s[q].i = p - q /\ q \in Int
        BY <1>1, <2>1, <2>2, <2>7
      <4> QED
        BY <1>1, <4>1
    <3>3. {q \in parts : s[q].i = i} = {p - i}
      BY <3>1, <3>2
    <3>4. Max({p - i}) = p - i
      <4>1. {p - i} \in SUBSET Int /\ p - i \in {p - i} /\ \A q \in {p - i} : q <= p - i
        BY <1>1, <2>1
      <4> QED
        BY <4>1, MaxIs
    <3> QED
      BY <3>1, <3>3, <3>4
  <2> HIDE DEF part
  <2>11. 1 \in 1 .. k
    BY <2>1
  <2>12. whole = {m}
    BY <2>10, <2>11 DEF k
  <2>13. WholeName(s, parts, k) = whole
    BY DEF WholeName, part
  <2> HIDE DEF whole
  <2>14. NameOf(s, p, parts) = CHOOSE x \in {m} : TRUE
    BY <2>8, <2>9, <2>12, <2>13 DEF NameOf
  <2>15. (CHOOSE x \in {m} : TRUE) = m
    OBVIOUS
  <2> QED
    BY <1>2, <2>14, <2>15
<1> QED
  BY <1>3, <1>4 DEF WellNamed

(* A name stays when nothing changes from a barrier on: the start of the   *)
(* directory, or an entry that is no part before and after.                *)
LEMMA NameStays ==
  ASSUME NEW s, NEW r, NEW p \in Nat \ {0}, NEW m \in Name, WellNamed(s, p, m),
         NEW b \in 0 .. p - 1, b = 0 \/ (s[b].t # "lfn" /\ r[b].t # "lfn"),
         \A q \in b + 1 .. p - 1 : r[q] = s[q],
         r[p].sfn = s[p].sfn
  PROVE  WellNamed(r, p, m)
<1>1. CASE /\ p = 1 \/ s[p - 1].t # "lfn"
           /\ s[p].sfn[1] \in DOMAIN Shown /\ m = Shown[s[p].sfn[1]]
  <2>1. p = 1 \/ r[p - 1].t # "lfn"
    <3>1. CASE b = p - 1
      BY <3>1
    <3>2. CASE b # p - 1
      <4>1. p - 1 \in b + 1 .. p - 1
        BY <3>2
      <4> QED
        BY <1>1, <4>1
    <3> QED
      BY <3>1, <3>2
  <2> QED
    BY <1>1, <2>1 DEF WellNamed
<1>2. CASE /\ Parts[m] < p
           /\ \A i \in 1 .. Parts[m] : s[p - i] = LfnEntry(m, i)
           /\ p - Parts[m] = 1 \/ s[p - Parts[m] - 1].t # "lfn"
  <2> DEFINE k == Parts[m]
  <2>1. k \in Nat /\ k >= 1 /\ k < p
    BY <1>2, PartsFacts
  <2>2. b <= p - k - 1
    <3>1. ASSUME b > p - k - 1 PROVE FALSE
      <4>1. p - b \in 1 .. k /\ p - (p - b) = b /\ b # 0
        BY <2>1, <3>1
      <4>2. s[b] = LfnEntry(m, p - b)
        BY <1>2, <4>1
      <4> QED
        BY <4>1, <4>2 DEF LfnEntry
    <3> QED
      BY <2>1, <3>1
  <2>3. \A i \in 1 .. k : r[p - i] = LfnEntry(m, i)
    <3>1. \A i \in 1 .. k : p - i \in b + 1 .. p - 1
      BY <2>1, <2>2
    <3> QED
      BY <1>2, <3>1
  <2>4. p - k = 1 \/ r[p - k - 1].t # "lfn"
    <3>1. CASE b = p - k - 1
      BY <2>1, <3>1
    <3>2. CASE b # p - k - 1
      <4>1. p - k - 1 \in b + 1 .. p - 1
        BY <2>1, <2>2, <3>2
      <4> QED
        BY <1>2, <4>1
    <3> QED
      BY <3>1, <3>2
  <2> QED
    BY <1>2, <2>3, <2>4 DEF WellNamed
<1> QED
  BY <1>1, <1>2 DEF WellNamed

(* The entries of a directory: every live one has a name, and no two have  *)
(* the same name or short name.                                            *)
Apart(s, p, q) == Folded[NameAt(s, p)] # Folded[NameAt(s, q)] /\ s[p].sfn # s[q].sfn
DirOk(s) ==
  /\ s \in Seq(Cell)
  /\ \A p \in LiveAt(s) : NameAt(s, p) \in Name /\ WellNamed(s, p, NameAt(s, p))
  /\ \A p, q \in LiveAt(s) : p # q => Apart(s, p, q)

LEMMA DirFacts ==
  ASSUME NEW s, DirOk(s)
  PROVE  /\ s \in Seq(Cell) /\ DOMAIN s = 1 .. Len(s) /\ Len(s) \in Nat
         /\ \A p \in DOMAIN s : p \in Nat \ {0} /\ s[p] \in Cell
         /\ \A p \in LiveAt(s) : /\ p \in DOMAIN s /\ p \in Nat \ {0} /\ s[p] \in SfnCell
                                 /\ s[p].t \in Kind /\ s[p].t # "lfn"
                                 /\ s[p].first \in Cluster /\ s[p].first # RootDir
                                 /\ s[p].size \in Nat /\ s[p].sfn \in Sfn
                                 /\ s[p] = SfnEntry(s[p].t, s[p].sfn, s[p].first, s[p].size)
                                 /\ NameAt(s, p) \in Name
         /\ \A p, q \in LiveAt(s) : Folded[NameAt(s, p)] = Folded[NameAt(s, q)] => p = q
         /\ \A p, q \in LiveAt(s) : s[p].sfn = s[q].sfn => p = q
<1>1. s \in Seq(Cell) /\ DOMAIN s = 1 .. Len(s) /\ Len(s) \in Nat
  BY DEF DirOk
<1>2. \A p \in DOMAIN s : p \in Nat \ {0} /\ s[p] \in Cell
  BY <1>1
<1>3. ASSUME NEW p \in LiveAt(s)
      PROVE  /\ p \in DOMAIN s /\ p \in Nat \ {0} /\ s[p] \in SfnCell
             /\ s[p].t \in Kind /\ s[p].t # "lfn"
             /\ s[p].first \in Cluster /\ s[p].first # RootDir
             /\ s[p].size \in Nat /\ s[p].sfn \in Sfn
             /\ s[p] = SfnEntry(s[p].t, s[p].sfn, s[p].first, s[p].size)
             /\ NameAt(s, p) \in Name
  <2>1. p \in DOMAIN s /\ s[p] \in Cell /\ Live(s[p]) /\ NameAt(s, p) \in Name
    BY <1>2 DEF LiveAt, DirOk
  <2> QED
    BY <1>2, <2>1, CellFacts
<1>4. \A p, q \in LiveAt(s) : Folded[NameAt(s, p)] = Folded[NameAt(s, q)] => p = q
  BY DEF DirOk, Apart
<1>5. \A p, q \in LiveAt(s) : s[p].sfn = s[q].sfn => p = q
  BY DEF DirOk, Apart
<1> QED
  BY <1>1, <1>2, <1>3, <1>4, <1>5

(* A directory whose live entries were there before, with their names.     *)
LEMMA DirFrom ==
  ASSUME NEW s, DirOk(s), NEW r \in Seq(Cell), LiveAt(r) \subseteq LiveAt(s),
         \A q \in LiveAt(r) : r[q].sfn = s[q].sfn /\ WellNamed(r, q, NameAt(s, q))
  PROVE  DirOk(r) /\ \A q \in LiveAt(r) : NameAt(r, q) = NameAt(s, q)
<1>1. ASSUME NEW q \in LiveAt(r)
      PROVE  NameAt(r, q) = NameAt(s, q) /\ NameAt(s, q) \in Name /\ r[q].sfn = s[q].sfn
             /\ WellNamed(r, q, NameAt(r, q))
  <2>1. q \in DOMAIN r /\ NameAt(s, q) \in Name
    BY DirFacts DEF LiveAt
  <2>2. NameAt(r, q) = NameAt(s, q)
    BY <2>1, NameIs
  <2> QED
    BY <2>1, <2>2
<1>2. \A p, q \in LiveAt(r) : p # q => Apart(s, p, q)
  BY DEF DirOk
<1> QED
  BY <1>1, <1>2 DEF DirOk, Apart

(* fatfs_mark_file_deleted                                                 *)
Marked(s, p, r) == r = [s EXCEPT ![p] = Deleted]

(* An entry marked as deleted takes its name away and no other.            *)
LEMMA MarkedDir ==
  ASSUME NEW s, DirOk(s), NEW p \in LiveAt(s), NEW r, Marked(s, p, r)
  PROVE  /\ DirOk(r) /\ DOMAIN r = DOMAIN s /\ LiveAt(r) = LiveAt(s) \ {p}
         /\ \A q \in LiveAt(r) : r[q] = s[q] /\ NameAt(r, q) = NameAt(s, q)
<1>1. /\ s \in Seq(Cell) /\ DOMAIN s = 1 .. Len(s) /\ Len(s) \in Nat
      /\ p \in DOMAIN s /\ p \in Nat \ {0} /\ s[p].t # "lfn"
      /\ \A q \in LiveAt(s) : q \in Nat \ {0} /\ NameAt(s, q) \in Name
  BY DirFacts
<1>2. /\ r \in Seq(Cell) /\ DOMAIN r = DOMAIN s /\ r[p] = Deleted
      /\ \A q \in DOMAIN s : q # p => r[q] = s[q]
  BY <1>1, CellsAre DEF Marked
<1>3. LiveAt(r) = LiveAt(s) \ {p}
  <2>1. \A q \in DOMAIN s : Live(r[q]) <=> q # p /\ Live(s[q])
    BY <1>2, CellsAre
  <2> QED
    BY <1>2, <2>1 DEF LiveAt
<1>4. ASSUME NEW q \in LiveAt(r)
      PROVE  r[q] = s[q] /\ WellNamed(r, q, NameAt(s, q))
  <2>1. q \in LiveAt(s) /\ q # p /\ r[q] = s[q] /\ q \in 1 .. Len(s)
    BY <1>1, <1>2, <1>3 DEF LiveAt
  <2>2. WellNamed(s, q, NameAt(s, q))
    BY <2>1 DEF DirOk
  <2> DEFINE b == IF p < q THEN p ELSE 0
  <2>3. b \in 0 .. q - 1 /\ (b = 0 \/ (s[b].t # "lfn" /\ r[b].t # "lfn"))
    BY <1>1, <1>2, <2>1, CellsAre
  <2>4. \A x \in b + 1 .. q - 1 : r[x] = s[x]
    BY <1>1, <1>2, <2>1
  <2> HIDE DEF b
  <2> QED
    BY <1>1, <2>1, <2>2, <2>3, <2>4, NameStays
<1>5. DirOk(r) /\ \A q \in LiveAt(r) : NameAt(r, q) = NameAt(s, q)
  BY <1>2, <1>3, <1>4, DirFrom
<1> QED
  BY <1>2, <1>3, <1>4, <1>5

(* fatfs_update_file_length                                                *)
Resized(s, p, z, r) == r = [s EXCEPT ![p] = [s[p] EXCEPT !.size = z]]

(* A length written into an entry changes no name.                         *)
LEMMA ResizedDir ==
  ASSUME NEW s, DirOk(s), NEW p \in LiveAt(s), NEW z \in Nat, NEW r, Resized(s, p, z, r)
  PROVE  /\ DirOk(r) /\ DOMAIN r = DOMAIN s /\ LiveAt(r) = LiveAt(s)
         /\ \A q \in LiveAt(s) : NameAt(r, q) = NameAt(s, q) /\ (q # p => r[q] = s[q])
         /\ r[p] = SfnEntry(s[p].t, s[p].sfn, s[p].first, z)
<1>a. r = [s EXCEPT ![p] = [s[p] EXCEPT !.size = z]]
  BY DEF Resized
<1> USE <1>a
<1>1. /\ s \in Seq(Cell) /\ DOMAIN s = 1 .. Len(s) /\ Len(s) \in Nat
      /\ p \in DOMAIN s /\ p \in Nat \ {0} /\ s[p].t # "lfn" /\ s[p].t \in Kind
      /\ s[p].first \in Cluster \ {RootDir} /\ s[p].sfn \in Sfn
      /\ s[p] = SfnEntry(s[p].t, s[p].sfn, s[p].first, s[p].size)
      /\ \A q \in LiveAt(s) : q \in Nat \ {0} /\ NameAt(s, q) \in Name
  BY DirFacts
<1> DEFINE e == SfnEntry(s[p].t, s[p].sfn, s[p].first, z)
<1>2. [s[p] EXCEPT !.size = z] = e
  BY <1>1 DEF SfnEntry
<1>3. e \in Cell /\ Live(e) /\ e.t = s[p].t /\ e.sfn = s[p].sfn
  <2>1. e \in SfnCell /\ e \in Cell
    BY <1>1, CellsAre
  <2> QED
    BY <2>1, CellFacts DEF SfnEntry
<1> HIDE DEF e
<1>4. /\ r \in Seq(Cell) /\ DOMAIN r = DOMAIN s /\ r[p] = e
      /\ \A q \in DOMAIN s : q # p => r[q] = s[q]
  BY <1>1, <1>2, <1>3
<1>5. LiveAt(r) = LiveAt(s)
  <2>1. \A q \in DOMAIN s : Live(r[q]) <=> Live(s[q])
    BY <1>3, <1>4 DEF LiveAt
  <2> QED
    BY <1>4, <2>1 DEF LiveAt
<1>6. ASSUME NEW q \in LiveAt(r)
      PROVE  r[q].sfn = s[q].sfn /\ WellNamed(r, q, NameAt(s, q))
  <2>1. q \in LiveAt(s) /\ q \in 1 .. Len(s) /\ r[q].sfn = s[q].sfn
    BY <1>1, <1>3, <1>4, <1>5 DEF LiveAt
  <2>2. WellNamed(s, q, NameAt(s, q))
    BY <2>1 DEF DirOk
  <2> DEFINE b == IF p < q THEN p ELSE 0
  <2>3. b \in 0 .. q - 1 /\ (b = 0 \/ (s[b].t # "lfn" /\ r[b].t # "lfn"))
    BY <1>1, <1>3, <1>4, <2>1
  <2>4. \A x \in b + 1 .. q - 1 : r[x] = s[x]
    BY <1>1, <1>4, <2>1
  <2> HIDE DEF b
  <2> QED
    BY <1>1, <2>1, <2>2, <2>3, <2>4, NameStays
<1>7. DirOk(r) /\ \A q \in LiveAt(r) : NameAt(r, q) = NameAt(s, q)
  BY <1>4, <1>5, <1>6, DirFrom
<1> QED
  BY <1>4, <1>5, <1>7 DEF e, LiveAt

(* Entries are written where no live entry is, from a to at, and behind    *)
(* what was the end.                                                       *)
Over(s, r, a, at) ==
  /\ s \in Seq(Cell) /\ r \in Seq(Cell) /\ Len(s) <= Len(r)
  /\ a \in Nat /\ at \in Nat
  /\ \A q \in LiveAt(s) : q < a \/ q > at
  /\ \A q \in 1 .. Len(s) : q < a \/ q > at => r[q] = s[q]
  /\ at < Len(s) => at > 0 /\ s[at].t # "lfn" /\ r[at].t # "lfn"

(* Entries written over free ones leave the live ones with their names.    *)
LEMMA OverKeeps ==
  ASSUME NEW s, DirOk(s), NEW r, NEW a, NEW at, Over(s, r, a, at), NEW q \in LiveAt(s)
  PROVE  /\ q \in LiveAt(r) /\ r[q] = s[q] /\ NameAt(r, q) = NameAt(s, q)
         /\ WellNamed(r, q, NameAt(r, q))
<1>1. /\ s \in Seq(Cell) /\ r \in Seq(Cell) /\ Len(s) <= Len(r) /\ Len(s) \in Nat
      /\ a \in Nat /\ at \in Nat /\ Len(r) \in Nat /\ DOMAIN r = 1 .. Len(r)
      /\ q < a \/ q > at
      /\ \A x \in 1 .. Len(s) : x < a \/ x > at => r[x] = s[x]
      /\ at < Len(s) => at > 0 /\ s[at].t # "lfn" /\ r[at].t # "lfn"
  BY DEF Over
<1>2. /\ q \in 1 .. Len(s) /\ NameAt(s, q) \in Name /\ WellNamed(s, q, NameAt(s, q))
      /\ Live(s[q])
  BY DirFacts DEF DirOk, LiveAt
<1>3. q \in LiveAt(r) /\ r[q] = s[q]
  BY <1>1, <1>2 DEF LiveAt
<1> DEFINE b == IF q > at /\ a <= at THEN at ELSE 0
<1>4. b \in 0 .. q - 1 /\ (b = 0 \/ (s[b].t # "lfn" /\ r[b].t # "lfn"))
  BY <1>1, <1>2
<1>5. \A x \in b + 1 .. q - 1 : r[x] = s[x]
  BY <1>1, <1>2
<1>6. q \in Nat \ {0} /\ r[q].sfn = s[q].sfn
  BY <1>2, <1>3
<1> HIDE DEF b
<1>7. WellNamed(r, q, NameAt(s, q))
  BY <1>2, <1>4, <1>5, <1>6, NameStays
<1>8. NameAt(r, q) = NameAt(s, q)
  BY <1>1, <1>2, <1>3, <1>7, NameIs DEF LiveAt
<1> QED
  BY <1>3, <1>7, <1>8

LEMMA OverPart ==
  ASSUME NEW s, DirOk(s), NEW r, NEW a, NEW at, Over(s, r, a, at), LiveAt(r) \subseteq LiveAt(s)
  PROVE  /\ DirOk(r) /\ LiveAt(r) = LiveAt(s)
         /\ \A q \in LiveAt(s) : r[q] = s[q] /\ NameAt(r, q) = NameAt(s, q)
<1>1. \A q \in LiveAt(s) : /\ q \in LiveAt(r) /\ r[q] = s[q] /\ NameAt(r, q) = NameAt(s, q)
                           /\ WellNamed(r, q, NameAt(r, q))
  BY OverKeeps
<1>2. r \in Seq(Cell)
  BY DEF Over
<1> QED
  BY <1>1, <1>2, DirFrom

(* Entries written whole over free ones have the name they were made from. *)
LEMMA OverNamed ==
  ASSUME NEW s, DirOk(s), NEW r, NEW a, NEW at, Over(s, r, a, at),
         NEW b \in DOMAIN r, b \notin LiveAt(s), Live(r[b]), LiveAt(r) \subseteq LiveAt(s) \cup {b},
         NEW n \in Name, WellNamed(r, b, n),
         \A q \in LiveAt(s) : Folded[NameAt(s, q)] # Folded[n] /\ s[q].sfn # r[b].sfn
  PROVE  /\ DirOk(r) /\ LiveAt(r) = LiveAt(s) \cup {b} /\ NameAt(r, b) = n
         /\ \A q \in LiveAt(s) : r[q] = s[q] /\ NameAt(r, q) = NameAt(s, q)
<1>1. \A q \in LiveAt(s) : /\ q \in LiveAt(r) /\ r[q] = s[q] /\ NameAt(r, q) = NameAt(s, q)
                           /\ WellNamed(r, q, NameAt(r, q)) /\ NameAt(s, q) \in Name
  BY OverKeeps, DirFacts
<1>2. r \in Seq(Cell) /\ b \in LiveAt(r)
  BY DEF Over, LiveAt
<1>3. NameAt(r, b) = n
  BY <1>2, NameIs
<1>4. LiveAt(r) = LiveAt(s) \cup {b}
  BY <1>1, <1>2
<1>5. \A p, q \in LiveAt(s) : p # q => Apart(s, p, q)
  BY DEF DirOk
<1>6. DirOk(r)
  <2>1. \A p \in LiveAt(r) : NameAt(r, p) \in Name /\ WellNamed(r, p, NameAt(r, p))
    BY <1>1, <1>3, <1>4
  <2>2. ASSUME NEW p \in LiveAt(r), NEW q \in LiveAt(r), p # q PROVE Apart(r, p, q)
    <3>1. CASE p \in LiveAt(s) /\ q \in LiveAt(s)
      BY <1>1, <1>5, <2>2, <3>1 DEF Apart
    <3>2. CASE p = b /\ q \in LiveAt(s)
      BY <1>1, <1>3, <3>2 DEF Apart
    <3>3. CASE q = b /\ p \in LiveAt(s)
      BY <1>1, <1>3, <3>3 DEF Apart
    <3> QED
      BY <1>4, <2>2, <3>1, <3>2, <3>3
  <2> QED
    BY <1>2, <2>1, <2>2 DEF DirOk
<1> QED
  BY <1>1, <1>3, <1>4, <1>6

-----------------------------------------------------------------------------
(* The disk and the sector buffer.                                         *)
Block == [1 .. Slots -> Cell]
Buffers == [at : Cluster \cup {None}, data : Block]
Disks == [fat : Fats, slots : [Cluster -> Block], cur : Buffers]
(* The buffer holds the sector that it has the address of.                 *)
CurOk(d) == d.cur.at # None => d.cur.data = d.slots[d.cur.at]
DiskOk(d) == d \in Disks /\ CurOk(d)

(* What the directory c has on the disk.                                   *)
Blocks(sl, ch) == [i \in DOMAIN ch |-> sl[ch[i]]]
Listed(sl, ch) == EntriesOf(Blocks(sl, ch))
(* The entries of the directory c.                                         *)
Contents(d, c) == Listed(d.slots, Chain(d.fat, c))

(* Positions in sectors of so many entries.                                *)
LEMMA PlaceFacts ==
  ASSUME NEW n \in Nat, NEW p \in 1 .. Slots * n
  PROVE  SectorIndex(p) \in 1 .. n /\ Offset(p) \in 1 .. Slots /\ SectorIndex(p) \in Nat
<1> DEFINE k == (p - 1) \div Slots
           m == (p - 1) % Slots
<1>1. Slots \in Nat \ {0} /\ Slots * n = n * Slots
  BY ClusterFacts, Z3
<1>2. n * Slots \in Nat /\ p \in 1 .. n * Slots
  BY <1>1, Times
<1>3. p - 1 \in Nat
  BY <1>2
<1>4. k \in Nat /\ m \in 0 .. Slots - 1 /\ p - 1 = k * Slots + m
  BY <1>1, <1>3, DivMod
<1> HIDE DEF k, m
<1>5. k * Slots \in Nat
  BY <1>1, <1>4, Times
<1>6. ~(n <= k)
  <2>1. n <= k => n * Slots <= k * Slots
    BY <1>1, <1>4, Times
  <2> QED
    BY <1>1, <1>2, <1>4, <1>5, <2>1
<1> QED
  BY <1>1, <1>4, <1>6 DEF SectorIndex, Offset, k, m

LEMMA PlaceUnique ==
  ASSUME NEW n \in Nat, NEW p \in 1 .. Slots * n, NEW q \in 1 .. Slots * n,
         SectorIndex(p) = SectorIndex(q), Offset(p) = Offset(q)
  PROVE  p = q
<1>1. Slots \in Nat \ {0} /\ Slots * n = n * Slots
  BY ClusterFacts, Z3
<1>2. n * Slots \in Nat
  BY <1>1, Times
<1> DEFINE k(x) == (x - 1) \div Slots
           m(x) == (x - 1) % Slots
<1>3. ASSUME NEW x \in 1 .. Slots * n
      PROVE  k(x) \in Nat /\ m(x) \in 0 .. Slots - 1 /\ x = k(x) * Slots + m(x) + 1 /\ k(x) * Slots \in Nat
  <2>1. x - 1 \in Nat
    BY <1>1, <1>2
  <2>2. k(x) \in Nat /\ m(x) \in 0 .. Slots - 1 /\ x - 1 = k(x) * Slots + m(x)
    BY <1>1, <2>1, DivMod
  <2> HIDE DEF k, m
  <2>3. k(x) * Slots \in Nat
    BY <1>1, <2>2, Times
  <2>4. x \in Int
    BY <1>1, <1>2
  <2> QED
    BY <1>1, <2>2, <2>3, <2>4
<1>4. k(p) + 1 = k(q) + 1 /\ m(p) + 1 = m(q) + 1
  BY DEF SectorIndex, Offset
<1> HIDE DEF k, m
<1>5. k(p) = k(q) /\ m(p) = m(q)
  <2>1. k(p) \in Nat /\ k(q) \in Nat /\ m(p) \in Int /\ m(q) \in Int
    BY <1>1, <1>3
  <2> QED
    BY <1>4, <2>1
<1> QED
  BY <1>3, <1>5

LEMMA PlaceBelow ==
  ASSUME NEW n \in Nat, NEW k \in Nat, k <= n
  PROVE  /\ Slots * k \in Nat /\ Slots * n \in Nat /\ Slots * k <= Slots * n
         /\ n >= 1 => Slots * n >= 1 /\ Slots * n >= Slots
         /\ Slots * (n + 1) = Slots * n + Slots
         /\ \A p \in 1 .. Slots * n : p <= Slots * k <=> SectorIndex(p) <= k
<1>1. /\ Slots \in Nat \ {0} /\ Slots * n = n * Slots /\ Slots * k = k * Slots
      /\ Slots * (n + 1) = (n + 1) * Slots
  BY ClusterFacts, Z3
<1>2. /\ n * Slots \in Nat /\ k * Slots \in Nat /\ k * Slots <= n * Slots
      /\ (n + 1) * Slots = n * Slots + Slots
  BY <1>1, Times
<1>3. n >= 1 => n * Slots >= Slots
  <2>1. n >= 1 => n = (n - 1) + 1 /\ n - 1 \in Nat
    OBVIOUS
  <2>2. n >= 1 => ((n - 1) + 1) * Slots = (n - 1) * Slots + Slots /\ (n - 1) * Slots \in Nat
    BY <1>1, <2>1, Times
  <2> QED
    BY <1>1, <2>1, <2>2
<1>4. ASSUME NEW p \in 1 .. Slots * n PROVE p <= Slots * k <=> SectorIndex(p) <= k
  <2> DEFINE j == (p - 1) \div Slots
             m == (p - 1) % Slots
  <2>1. p - 1 \in Nat /\ p \in Int
    BY <1>1, <1>2
  <2>2. j \in Nat /\ m \in 0 .. Slots - 1 /\ p - 1 = j * Slots + m
    BY <1>1, <2>1, DivMod
  <2>3. SectorIndex(p) = j + 1
    BY DEF SectorIndex
  <2> HIDE DEF j, m
  <2>4. /\ j * Slots \in Nat
        /\ k <= j => k * Slots <= j * Slots
        /\ j < k => j * Slots + Slots <= k * Slots
    BY <1>1, <2>2, Times
  <2>5. CASE j < k
    BY <1>1, <1>2, <2>1, <2>2, <2>3, <2>4, <2>5
  <2>6. CASE k <= j
    BY <1>1, <1>2, <2>1, <2>2, <2>3, <2>4, <2>6
  <2> QED
    BY <2>2, <2>5, <2>6
<1> QED
  BY <1>1, <1>2, <1>3, <1>4

(* An entry has one sector and one place in it.                            *)
LEMMA ListedFacts ==
  ASSUME NEW sl \in [Cluster -> Block], NEW ch \in Seq(Cluster)
  PROVE  /\ Listed(sl, ch) \in Seq(Cell) /\ Len(Listed(sl, ch)) = Slots * Len(ch)
         /\ DOMAIN Listed(sl, ch) = 1 .. Slots * Len(ch) /\ Slots * Len(ch) \in Nat
         /\ \A p \in 1 .. Slots * Len(ch) :
              /\ Listed(sl, ch)[p] = sl[ch[SectorIndex(p)]][Offset(p)]
              /\ SectorIndex(p) \in 1 .. Len(ch) /\ Offset(p) \in 1 .. Slots
              /\ ch[SectorIndex(p)] \in Cluster
<1> DEFINE n == Len(ch)
           b == Blocks(sl, ch)
           s == Listed(sl, ch)
<1>1. n \in Nat /\ DOMAIN ch = 1 .. n /\ \A i \in 1 .. n : ch[i] \in Cluster
  OBVIOUS
<1>2. b \in [1 .. n -> Block] /\ b \in Seq(Block) /\ Len(b) = n
      /\ \A i \in 1 .. n : b[i] = sl[ch[i]]
  BY <1>1 DEF Blocks
<1>3. s = [p \in 1 .. Slots * n |-> b[SectorIndex(p)][Offset(p)]]
  BY <1>2 DEF Listed, EntriesOf
<1>4. Slots * n \in Nat
  BY <1>1, PlaceBelow
<1> HIDE DEF n, b, s
<1>5. ASSUME NEW p \in 1 .. Slots * n
      PROVE  /\ SectorIndex(p) \in 1 .. n /\ Offset(p) \in 1 .. Slots /\ s[p] \in Cell
             /\ s[p] = sl[ch[SectorIndex(p)]][Offset(p)] /\ ch[SectorIndex(p)] \in Cluster
  <2>1. SectorIndex(p) \in 1 .. n /\ Offset(p) \in 1 .. Slots
    BY <1>1, PlaceFacts
  <2> QED
    BY <1>1, <1>2, <1>3, <2>1 DEF Block
<1>6. s \in [1 .. Slots * n -> Cell]
  BY <1>3, <1>5
<1>7. s \in Seq(Cell) /\ Len(s) = Slots * n /\ DOMAIN s = 1 .. Slots * n
  BY <1>4, <1>6
<1> QED
  BY <1>4, <1>5, <1>7 DEF n, s

(* A scan reads what is on the disk.                                       *)
LEMMA EntriesAre ==
  ASSUME NEW d, DiskOk(d), NEW c, HasChain(d.fat, c)
  PROVE  /\ Sectors(d, c) = Blocks(d.slots, Chain(d.fat, c))
         /\ Entries(d, c) = Contents(d, c)
         /\ Chain(d.fat, c) \in Seq(Cluster) /\ Len(Chain(d.fat, c)) \in Nat \ {0}
<1> DEFINE ch == Chain(d.fat, c)
<1>1. d.fat \in Fats /\ d.slots \in [Cluster -> Block]
  BY DEF DiskOk, Disks
<1>2. ch \in Seq(Cluster) /\ Len(ch) \in Nat /\ Len(ch) >= 1 /\ \A i \in DOMAIN ch : ch[i] \in Cluster
  BY <1>1, ChainFacts DEF HasChain, IsChain
<1>3. Sectors(d, c) = [i \in DOMAIN ch |-> IF i = 1 /\ d.cur.at = ch[1] THEN d.cur.data
                                           ELSE d.slots[ch[i]]]
  BY DEF Sectors, SectorsOf
<1> HIDE DEF ch
<1>4. d.cur.at \in Cluster => d.cur.data = d.slots[d.cur.at]
  BY ClusterFacts DEF DiskOk, CurOk
<1>5. Sectors(d, c) = Blocks(d.slots, ch)
  BY <1>2, <1>3, <1>4 DEF Blocks
<1>6. Entries(d, c) = Listed(d.slots, ch)
  BY <1>5 DEF Entries, Listed
<1> QED
  BY <1>2, <1>5, <1>6 DEF ch, Contents

(* What a search leaves: the disk, and the sector where it ended in the    *)
(* buffer.                                                                 *)
After(d, c, e) ==
  /\ e.fat = d.fat /\ e.slots = d.slots /\ DiskOk(e) /\ e.cur.at \in Own(d.fat, c)

LEMMA AfterLoaded ==
  ASSUME NEW d, DiskOk(d), NEW c, HasChain(d.fat, c), NEW p \in DOMAIN Contents(d, c)
  PROVE  After(d, c, Loaded(d, c, p))
<1> DEFINE ch == Chain(d.fat, c)
           x == SectorIndex(p)
           e == Loaded(d, c, p)
<1>1. d \in Disks /\ d.fat \in Fats /\ d.slots \in [Cluster -> Block]
  BY DEF DiskOk, Disks
<1>2. ch \in Seq(Cluster) /\ Len(ch) \in Nat /\ DOMAIN ch = 1 .. Len(ch)
  BY EntriesAre
<1>3. x \in 1 .. Len(ch) /\ ch[x] \in Cluster
  BY <1>1, <1>2, ListedFacts DEF Contents
<1>4. Sectors(d, c)[x] = d.slots[ch[x]]
  <2>1. Sectors(d, c) = Blocks(d.slots, ch)
    BY EntriesAre
  <2> HIDE DEF ch, x
  <2> QED
    BY <1>2, <1>3, <2>1 DEF Blocks
<1>5. e = [d EXCEPT !.cur = [at |-> ch[x], data |-> d.slots[ch[x]]]]
  BY <1>4 DEF Loaded
<1>6. ch[x] \in Own(d.fat, c)
  BY <1>2, <1>3 DEF Own, Range
<1> HIDE DEF ch, x, e
<1>7. [at |-> ch[x], data |-> d.slots[ch[x]]] \in Buffers
  BY <1>1, <1>3 DEF Buffers
<1>8. e \in Disks /\ e.fat = d.fat /\ e.slots = d.slots /\ e.cur.at = ch[x] /\ e.cur.data = d.slots[ch[x]]
  BY <1>1, <1>5, <1>7 DEF Disks
<1> QED
  BY <1>6, <1>8 DEF After, DiskOk, CurOk, e

LEMMA AfterAll ==
  ASSUME NEW d, DiskOk(d), NEW c, HasChain(d.fat, c)
  PROVE  After(d, c, LoadedAll(d, c))
<1>1. /\ Entries(d, c) = Contents(d, c) /\ Chain(d.fat, c) \in Seq(Cluster)
      /\ Len(Chain(d.fat, c)) \in Nat \ {0}
  BY EntriesAre
<1>2. d.slots \in [Cluster -> Block]
  BY DEF DiskOk, Disks
<1>3. Len(Contents(d, c)) \in DOMAIN Contents(d, c)
  <2> DEFINE n == Len(Chain(d.fat, c))
  <2>1. /\ Len(Contents(d, c)) = Slots * n /\ DOMAIN Contents(d, c) = 1 .. Slots * n
        /\ Slots * n \in Nat
    BY <1>1, <1>2, ListedFacts DEF Contents
  <2>2. Slots * n >= 1
    BY <1>1, PlaceBelow
  <2> QED
    BY <2>1, <2>2
<1> QED
  BY <1>1, <1>3, AfterLoaded DEF LoadedAll

LEMMA AfterSearch ==
  ASSUME NEW d, DiskOk(d), NEW c, HasChain(d.fat, c), NEW S \in SUBSET DOMAIN Contents(d, c),
         NEW r, r = SearchEnd(d, c, Least(S))
  PROVE  /\ After(d, c, r.d) /\ (r.at = 0 <=> S = {})
         /\ S # {} => r.at \in S /\ \A p \in S : r.at <= p
<1>1. d.slots \in [Cluster -> Block] /\ Chain(d.fat, c) \in Seq(Cluster)
  BY EntriesAre DEF DiskOk, Disks
<1>2. DOMAIN Contents(d, c) \subseteq Nat \ {0}
  BY <1>1, ListedFacts DEF Contents
<1>3. CASE S = {}
  <2>1. Least(S) = 0
    BY <1>3 DEF Least
  <2>2. r = [d |-> LoadedAll(d, c), at |-> 0]
    BY <2>1 DEF SearchEnd
  <2> QED
    BY <1>3, <2>2, AfterAll
<1>4. CASE S # {}
  <2>1. PICK x \in S : \A y \in S : x <= y
    BY <1>2, <1>4, LeastElement
  <2>2. Min(S) = x
    BY <1>2, <2>1, MinIs
  <2>3. Least(S) = x /\ x # 0
    BY <1>2, <1>4, <2>1, <2>2 DEF Least
  <2>4. r = [d |-> Loaded(d, c, x), at |-> x]
    BY <2>3 DEF SearchEnd
  <2> QED
    BY <1>4, <2>1, <2>3, <2>4, AfterLoaded
<1> QED
  BY <1>3, <1>4

(* The directory c is changed to the entries s, and nothing else is.       *)
Changed(d, c, e, s) ==
  /\ DiskOk(e) /\ e.fat = d.fat /\ Contents(e, c) = s
  /\ \A x \in Cluster : x \notin Own(d.fat, c) => e.slots[x] = d.slots[x]

(* Where the entries of a directory are on the disk.                       *)
LEMMA ContentsFacts ==
  ASSUME NEW d, DiskOk(d), NEW c, HasChain(d.fat, c)
  PROVE  LET ch == Chain(d.fat, c)
             s == Contents(d, c)
             n == Len(ch)
         IN  /\ ch \in Seq(Cluster) /\ n \in Nat \ {0} /\ s \in Seq(Cell)
             /\ Len(s) = Slots * n /\ Slots * n \in Nat \ {0} /\ DOMAIN s = 1 .. Len(s)
             /\ \A p \in DOMAIN s : /\ s[p] = d.slots[ch[SectorIndex(p)]][Offset(p)]
                                    /\ SectorIndex(p) \in 1 .. n /\ Offset(p) \in 1 .. Slots
                                    /\ ch[SectorIndex(p)] \in Own(d.fat, c)
                                    /\ ch[SectorIndex(p)] \in Cluster
             /\ \A i, j \in 1 .. n : ch[i] = ch[j] => i = j
<1> DEFINE ch == Chain(d.fat, c)
           s == Contents(d, c)
           n == Len(ch)
<1>1. ch \in Seq(Cluster) /\ n \in Nat \ {0} /\ d.slots \in [Cluster -> Block] /\ s = Listed(d.slots, ch)
  BY EntriesAre DEF DiskOk, Disks, Contents
<1>2. \A i, j \in 1 .. n : ch[i] = ch[j] => i = j
  BY DEF HasChain, IsChain
<1>3. Own(d.fat, c) = Range(ch)
  BY DEF Own
<1> HIDE DEF ch, s
<1>4. /\ s \in Seq(Cell) /\ Len(s) = Slots * n /\ DOMAIN s = 1 .. Slots * n /\ Slots * n \in Nat
      /\ \A p \in 1 .. Slots * n : /\ s[p] = d.slots[ch[SectorIndex(p)]][Offset(p)]
                                   /\ SectorIndex(p) \in 1 .. n /\ Offset(p) \in 1 .. Slots
                                   /\ ch[SectorIndex(p)] \in Cluster
  BY <1>1, ListedFacts
<1>5. \A i \in 1 .. n : ch[i] \in Own(d.fat, c)
  BY <1>1, <1>3 DEF Range
<1>6. Slots * n >= 1
  BY <1>1, PlaceBelow
<1>7. Slots * n \in Nat \ {0} /\ DOMAIN s = 1 .. Len(s)
  BY <1>4, <1>6
<1>8. ASSUME NEW p \in DOMAIN s
      PROVE  /\ s[p] = d.slots[ch[SectorIndex(p)]][Offset(p)]
             /\ SectorIndex(p) \in 1 .. n /\ Offset(p) \in 1 .. Slots
             /\ ch[SectorIndex(p)] \in Own(d.fat, c) /\ ch[SectorIndex(p)] \in Cluster
  BY <1>4, <1>5, <1>8
<1> QED
  BY <1>1, <1>2, <1>4, <1>7, <1>8 DEF ch, s

(* One entry is changed (fat_write.c:123-164, 274-373).                    *)
LEMMA ChgIs ==
  ASSUME NEW d, DiskOk(d), NEW c, HasChain(d.fat, c), NEW p \in DOMAIN Contents(d, c), NEW e \in Cell
  PROVE  Changed(d, c, Chg(d, c, p, e), [Contents(d, c) EXCEPT ![p] = e])
<1> DEFINE ch == Chain(d.fat, c)
           s == Contents(d, c)
           n == Len(ch)
           x == SectorIndex(p)
           o == Offset(p)
           cl == ch[x]
           b == [d.slots[cl] EXCEPT ![o] = e]
           r == Chg(d, c, p, e)
           s2 == [s EXCEPT ![p] = e]
<1>1. /\ ch \in Seq(Cluster) /\ n \in Nat \ {0} /\ s \in Seq(Cell)
      /\ Len(s) = Slots * n /\ Slots * n \in Nat \ {0} /\ DOMAIN s = 1 .. Len(s)
      /\ \A q \in DOMAIN s : /\ s[q] = d.slots[ch[SectorIndex(q)]][Offset(q)]
                             /\ SectorIndex(q) \in 1 .. n /\ Offset(q) \in 1 .. Slots
                             /\ ch[SectorIndex(q)] \in Own(d.fat, c)
                             /\ ch[SectorIndex(q)] \in Cluster
      /\ \A i, j \in 1 .. n : ch[i] = ch[j] => i = j
  BY ContentsFacts
<1>2. d \in Disks /\ d.slots \in [Cluster -> Block] /\ d.fat \in Fats
  BY DEF DiskOk, Disks
<1>3. Sectors(d, c) = Blocks(d.slots, ch)
  BY EntriesAre
<1>4. p \in DOMAIN s
  OBVIOUS
<1> HIDE DEF ch, s
<1>5. x \in 1 .. n /\ o \in 1 .. Slots /\ cl \in Cluster /\ cl \in Own(d.fat, c) /\ DOMAIN ch = 1 .. n
  BY <1>1, <1>4
<1>6. Edited(d, c, p, e) = b
  BY <1>3, <1>5 DEF Edited, Blocks
<1>7. r = [[d EXCEPT !.cur = [at |-> cl, data |-> b]] EXCEPT !.slots[cl] = b]
  BY <1>6 DEF Chg, Written, Held, ch
<1> HIDE DEF n, x, o, cl, r
<1>8. b \in Block /\ d.slots[cl] \in Block
  BY <1>2, <1>5 DEF Block
<1>9. /\ r \in Disks /\ r.fat = d.fat /\ r.cur.at = cl /\ r.cur.data = b
      /\ r.slots = [d.slots EXCEPT ![cl] = b]
  <2>1. [at |-> cl, data |-> b] \in Buffers
    BY <1>5, <1>8 DEF Buffers
  <2>2. [d.slots EXCEPT ![cl] = b] \in [Cluster -> Block]
    BY <1>2, <1>5, <1>8
  <2> HIDE DEF b
  <2> QED
    BY <1>2, <1>7, <2>1, <2>2 DEF Disks
<1>10. r.slots[cl] = b /\ \A y \in Cluster : y # cl => r.slots[y] = d.slots[y]
  <2> HIDE DEF b
  <2> QED
    BY <1>2, <1>5, <1>9
<1>11. b[o] = e /\ \A j \in 1 .. Slots : j # o => b[j] = d.slots[cl][j]
  BY <1>5, <1>8 DEF Block
<1> HIDE DEF b
<1>12. DiskOk(r)
  BY <1>9, <1>10 DEF DiskOk, CurOk
<1>13. Contents(r, c) = s2
  <2>1. Contents(r, c) = Listed(r.slots, ch)
    BY <1>9 DEF Contents, ch
  <2>2. r.slots \in [Cluster -> Block]
    BY <1>9 DEF Disks
  <2> DEFINE s3 == Listed(r.slots, ch)
  <2>3. /\ s3 \in [1 .. Slots * n -> Cell]
        /\ \A q \in 1 .. Slots * n : s3[q] = r.slots[ch[SectorIndex(q)]][Offset(q)]
    <3>1. /\ s3 \in Seq(Cell) /\ DOMAIN s3 = 1 .. Slots * Len(ch) /\ Len(s3) = Slots * Len(ch)
          /\ \A q \in 1 .. Slots * Len(ch) : s3[q] = r.slots[ch[SectorIndex(q)]][Offset(q)]
      BY <1>1, <2>2, ListedFacts
    <3> HIDE DEF s3
    <3> QED
      BY <3>1 DEF n
  <2> HIDE DEF s3
  <2>4. s2 \in [1 .. Slots * n -> Cell]
    <3>1. s \in [1 .. Slots * n -> Cell]
      BY <1>1
    <3> QED
      BY <3>1
  <2>5. ASSUME NEW q \in 1 .. Slots * n PROVE s3[q] = s2[q]
    <3>1. /\ q \in DOMAIN s /\ SectorIndex(q) \in 1 .. n /\ Offset(q) \in 1 .. Slots
          /\ s[q] = d.slots[ch[SectorIndex(q)]][Offset(q)] /\ ch[SectorIndex(q)] \in Cluster
      BY <1>1
    <3>2. CASE q = p
      BY <1>10, <1>11, <2>3, <3>1, <3>2 DEF cl, x, o
    <3>3. CASE q # p
      <4>1. s2[q] = s[q]
        BY <3>1, <3>3
      <4>2. CASE SectorIndex(q) = x
        <5>1. Offset(q) # o
          BY <1>1, <1>4, <3>3, <4>2, PlaceUnique DEF x, o
        <5> QED
          BY <1>10, <1>11, <2>3, <3>1, <4>1, <4>2, <5>1 DEF cl
      <4>3. CASE SectorIndex(q) # x
        <5>1. ch[SectorIndex(q)] # cl
          BY <1>1, <1>5, <3>1, <4>3 DEF cl
        <5> QED
          BY <1>10, <2>3, <3>1, <4>1, <5>1
      <4> QED
        BY <4>2, <4>3
    <3> QED
      BY <3>2, <3>3
  <2>6. s3 = s2
    <3> DEFINE D == 1 .. Slots * n
    <3>1. s3 \in [D -> Cell] /\ s2 \in [D -> Cell] /\ \A q \in D : s3[q] = s2[q]
      BY <2>3, <2>4, <2>5
    <3> HIDE DEF D, s2
    <3> QED
      BY <3>1
  <2> QED
    BY <2>1, <2>6 DEF s3
<1>14. \A y \in Cluster : y \notin Own(d.fat, c) => r.slots[y] = d.slots[y]
  BY <1>5, <1>10
<1> QED
  BY <1>9, <1>12, <1>13, <1>14 DEF Changed, s, r

(* The entry with a short name that only it has.                           *)
LEMMA ShortNameIs ==
  ASSUME NEW d, DiskOk(d), NEW c, HasChain(d.fat, c), DirOk(Contents(d, c)),
         NEW p \in LiveAt(Contents(d, c)), NEW sfn, Contents(d, c)[p].sfn = sfn
  PROVE  After(d, c, fatfs_sfn_exists(d, c, sfn).d) /\ fatfs_sfn_exists(d, c, sfn).at = p /\ p # 0
<1> DEFINE s == Contents(d, c)
           S == {q \in DOMAIN s : Live(s[q]) /\ s[q].sfn = sfn}
           r == fatfs_sfn_exists(d, c, sfn)
<1>1. Entries(d, c) = s
  BY EntriesAre
<1>2. r = SearchEnd(d, c, Least(S))
  BY <1>1 DEF fatfs_sfn_exists, Search, SearchIn
<1>3. S = {p} /\ p # 0
  <2> HIDE DEF s
  <2>1. /\ \A x, y \in LiveAt(s) : s[x].sfn = s[y].sfn => x = y
        /\ p \in Nat \ {0}
    BY DirFacts DEF s
  <2>2. p \in LiveAt(s) /\ s[p].sfn = sfn
    BY DEF s
  <2> QED
    BY <2>1, <2>2 DEF LiveAt
<1>4. S \in SUBSET DOMAIN s
  OBVIOUS
<1> HIDE DEF S, r
<1>5. /\ After(d, c, r.d)
      /\ S # {} => r.at \in S
  BY <1>2, <1>4, AfterSearch
<1> QED
  BY <1>3, <1>5 DEF r

(* After a search, the directory is as it was.                             *)
LEMMA AfterSame ==
  ASSUME NEW d, NEW c, NEW e, After(d, c, e)
  PROVE  DiskOk(e) /\ e.fat = d.fat /\ e.slots = d.slots /\ \A x : Contents(e, x) = Contents(d, x)
  BY DEF After, Contents

(* fatfs_mark_file_deleted (fat_access.c:714-777).                         *)
LEMMA MarkedIs ==
  ASSUME NEW d, DiskOk(d), NEW c, HasChain(d.fat, c), DirOk(Contents(d, c)),
         NEW p \in LiveAt(Contents(d, c)), NEW sfn, Contents(d, c)[p].sfn = sfn
  PROVE  Changed(d, c, fatfs_mark_file_deleted(d, c, sfn), [Contents(d, c) EXCEPT ![p] = Deleted])
<1> DEFINE r == fatfs_sfn_exists(d, c, sfn)
<1>1. After(d, c, r.d) /\ r.at = p /\ p # 0
  BY ShortNameIs
<1>2. DiskOk(r.d) /\ r.d.fat = d.fat /\ r.d.slots = d.slots /\ Contents(r.d, c) = Contents(d, c)
  BY <1>1, AfterSame
<1>3. fatfs_mark_file_deleted(d, c, sfn) = Chg(r.d, c, p, Deleted)
  BY <1>1 DEF fatfs_mark_file_deleted, OnShortName, EditAt
<1>4. p \in DOMAIN Contents(d, c)
  BY DEF LiveAt
<1> HIDE DEF r
<1>5. Changed(r.d, c, Chg(r.d, c, p, Deleted), [Contents(d, c) EXCEPT ![p] = Deleted])
  BY <1>2, <1>4, ChgIs, CellsAre
<1> QED
  BY <1>2, <1>3, <1>5 DEF Changed

(* fatfs_update_file_length (fat_access.c:616-678).                        *)
LEMMA ResizedIs ==
  ASSUME NEW d, DiskOk(d), NEW c, HasChain(d.fat, c), DirOk(Contents(d, c)), NEW z \in Nat,
         NEW p \in LiveAt(Contents(d, c)), NEW sfn, Contents(d, c)[p].sfn = sfn
  PROVE  Changed(d, c, fatfs_update_file_length(d, c, sfn, z),
                 [Contents(d, c) EXCEPT ![p] = [Contents(d, c)[p] EXCEPT !.size = z]])
<1> DEFINE r == fatfs_sfn_exists(d, c, sfn)
           s == Contents(d, c)
           e == [s[p] EXCEPT !.size = z]
<1>1. After(d, c, r.d) /\ r.at = p /\ p # 0
  BY ShortNameIs
<1>2. /\ DiskOk(r.d) /\ r.d.fat = d.fat /\ r.d.slots = d.slots /\ Contents(r.d, c) = s
      /\ HasChain(r.d.fat, c)
  BY <1>1, AfterSame
<1>3. fatfs_update_file_length(d, c, sfn, z) = Chg(r.d, c, p, e)
  <2>1. Entries(r.d, c) = s
    BY <1>2, EntriesAre
  <2> QED
    BY <1>1, <2>1 DEF fatfs_update_file_length, OnShortName, EditAt
<1>4. p \in DOMAIN s
  BY DEF LiveAt
<1>5. e \in Cell
  <2> HIDE DEF s
  <2>1. s[p] \in SfnCell
    BY DirFacts DEF s
  <2> QED
    BY <2>1 DEF SfnCell, Cell
<1> HIDE DEF r, e
<1>6. Changed(r.d, c, Chg(r.d, c, p, e), [s EXCEPT ![p] = e])
  BY <1>2, <1>4, <1>5, ChgIs
<1> QED
  BY <1>2, <1>3, <1>6 DEF Changed, e

(* What may become of a disk while the directory c is changed: the chain   *)
(* of c may become longer, and nothing else that an entry leads to changes.*)
Starts(s, t) == Len(s) <= Len(t) /\ \A i \in 1 .. Len(s) : t[i] = s[i]
Leads(d, c, e, H, L) ==
  /\ DiskOk(e) /\ TableOk(e.fat, H, L) /\ Starts(Chain(d.fat, c), Chain(e.fat, c))
  /\ \A k \in H \ {c} : /\ Chain(e.fat, k) = Chain(d.fat, k) /\ e.fat[k] = d.fat[k]
                        /\ Contents(e, k) = Contents(d, k)

LEMMA LeadsOn ==
  ASSUME NEW H, NEW L, NEW c \in H, NEW d, NEW e, NEW g, Leads(d, c, e, H, L), Leads(e, c, g, H, L),
         TableOk(d.fat, H, L)
  PROVE  Leads(d, c, g, H, L)
<1>1. HasChain(d.fat, c) /\ HasChain(e.fat, c) /\ HasChain(g.fat, c)
  BY DEF Leads, TableOk
<1>2. /\ Len(Chain(d.fat, c)) \in Nat /\ Len(Chain(e.fat, c)) \in Nat /\ Len(Chain(g.fat, c)) \in Nat
  BY <1>1 DEF HasChain, IsChain
<1>3. Starts(Chain(d.fat, c), Chain(g.fat, c))
  <2>1. Starts(Chain(d.fat, c), Chain(e.fat, c)) /\ Starts(Chain(e.fat, c), Chain(g.fat, c))
    BY DEF Leads
  <2> QED
    BY <1>2, <2>1 DEF Starts
<1> QED
  BY <1>3 DEF Leads

LEMMA AfterLeads ==
  ASSUME NEW H, NEW L, NEW c, NEW d, DiskOk(d), TableOk(d.fat, H, L), NEW e, After(d, c, e), NEW b \in H
  PROVE  Leads(d, b, e, H, L) /\ Contents(e, b) = Contents(d, b)
<1>1. DiskOk(e) /\ e.fat = d.fat /\ \A x : Contents(e, x) = Contents(d, x)
  BY AfterSame
<1>2. Len(Chain(d.fat, b)) \in Nat
  BY DEF TableOk, HasChain, IsChain
<1> QED
  BY <1>1, <1>2 DEF Leads, Starts

(* Blocks that do not change have the entries they had.                    *)
LEMMA SameBlocks ==
  ASSUME NEW d, NEW e, NEW k, HasChain(d.fat, k), d.fat \in Fats,
         Chain(e.fat, k) = Chain(d.fat, k), \A x \in Own(d.fat, k) : e.slots[x] = d.slots[x]
  PROVE  Contents(e, k) = Contents(d, k)
<1> DEFINE ch == Chain(d.fat, k)
<1>1. \A i \in DOMAIN ch : ch[i] \in Own(d.fat, k)
  BY DEF Own, Range
<1>2. Blocks(e.slots, ch) = Blocks(d.slots, ch)
  BY <1>1 DEF Blocks
<1> QED
  BY <1>2 DEF Contents, Listed

LEMMA ChangedLeads ==
  ASSUME NEW H, NEW L, NEW c \in H, NEW d, TableOk(d.fat, H, L), NEW e, NEW s, Changed(d, c, e, s)
  PROVE  Leads(d, c, e, H, L) /\ Contents(e, c) = s
<1>1. DiskOk(e) /\ e.fat = d.fat /\ Contents(e, c) = s
      /\ \A x \in Cluster : x \notin Own(d.fat, c) => e.slots[x] = d.slots[x]
  BY DEF Changed
<1>2. Len(Chain(d.fat, c)) \in Nat
  BY DEF TableOk, HasChain, IsChain
<1>3. ASSUME NEW k \in H \ {c} PROVE Contents(e, k) = Contents(d, k)
  <2>1. HasChain(d.fat, k) /\ Own(d.fat, k) \subseteq Cluster /\ d.fat \in Fats
        /\ \A x \in Own(d.fat, k) : x \notin Own(d.fat, c)
    BY TableFacts
  <2> QED
    BY <1>1, <2>1, SameBlocks
<1> QED
  BY <1>1, <1>2, <1>3 DEF Leads, Starts

(* A directory gets a cluster of blank entries (fat_write.c:83-113).       *)
LEMMA BlankFacts ==
  /\ BlankSector \in Block /\ NoSector \in Buffers
  /\ \A i \in 1 .. Slots : BlankSector[i] = BlankEntry
<1>1. BlankSector \in Block /\ \A i \in 1 .. Slots : BlankSector[i] = BlankEntry
  BY CellsAre DEF BlankSector, Block
<1> QED
  BY <1>1 DEF NoSector, Buffers

GrownBy(s, r) ==
  Len(r) = Len(s) + Slots /\ \A q \in 1 .. Len(r) : r[q] = IF q <= Len(s) THEN s[q] ELSE BlankEntry

(* A directory grows by a blank sector (fat_write.c:226-256).              *)
LEMMA GrownIs ==
  ASSUME NEW H, NEW L, NEW c \in H, NEW d, DiskOk(d), TableOk(d.fat, H, L),
         NEW new \in Cluster, d.fat[new] = 0, NEW e, e = Grown(d, c, new),
         NEW s, s = Contents(d, c), NEW r, r = Contents(e, c)
  PROVE  Leads(d, c, e, H, L) /\ GrownBy(s, r)
<1> DEFINE ch == Chain(d.fat, c)
           f == [d.fat EXCEPT ![Last(ch)] = new, ![new] = LAST_CLUSTER]
           n == Len(ch)
<1>0. d \in Disks /\ d.fat \in Fats /\ d.slots \in [Cluster -> Block]
  BY DEF DiskOk, Disks
<1>1. /\ TableOk(f, H, L) /\ Chain(f, c) = Append(ch, new) /\ Own(f, c) = Own(d.fat, c) \cup {new}
      /\ \A k \in H : k # c => Chain(f, k) = Chain(d.fat, k) /\ f[k] = d.fat[k]
      /\ \A k \in H : new \notin Own(d.fat, k)
  <2>1. Last(ch) \in Cluster /\ Last(ch) # new
    BY TableFacts, OwnFacts
  <2> HIDE DEF ch
  <2>2. /\ f \in Fats /\ f[new] = LAST_CLUSTER /\ f[Last(ch)] = new
        /\ \A x \in Cluster : x # new /\ x # Last(ch) => f[x] = d.fat[x]
    BY <1>0, <2>1 DEF Fats
  <2> HIDE DEF f
  <2> QED
    BY <2>2, GrowChain DEF ch
<1>2. f \in Fats
  BY <1>1 DEF TableOk
<1>3. /\ e \in Disks /\ e.fat = f /\ e.slots = [d.slots EXCEPT ![new] = BlankSector]
      /\ e.cur.at = new /\ e.cur.data = BlankSector
  <2> HIDE DEF f
  <2>1. e = [fat |-> f, slots |-> [d.slots EXCEPT ![new] = BlankSector],
             cur |-> [at |-> new, data |-> BlankSector]]
    <3>1. e = [d EXCEPT !.fat = f, !.slots[new] = BlankSector,
                        !.cur = [at |-> new, data |-> BlankSector]]
      BY DEF Grown, f
    <3>2. d = [fat |-> d.fat, slots |-> d.slots, cur |-> d.cur]
      BY <1>0 DEF Disks
    <3> QED
      BY <3>1, <3>2
  <2>2. [at |-> new, data |-> BlankSector] \in Buffers
    BY BlankFacts DEF Buffers
  <2>3. [d.slots EXCEPT ![new] = BlankSector] \in [Cluster -> Block]
    BY <1>0, BlankFacts
  <2> QED
    BY <1>2, <2>1, <2>2, <2>3 DEF Disks
<1> HIDE DEF f
<1>4. e.slots[new] = BlankSector /\ \A x \in Cluster : x # new => e.slots[x] = d.slots[x]
  BY <1>0, <1>3
<1>5. DiskOk(e)
  BY <1>3, <1>4 DEF DiskOk, CurOk
<1>6. /\ ch \in Seq(Cluster) /\ n \in Nat \ {0} /\ s \in Seq(Cell)
      /\ Len(s) = Slots * n /\ Slots * n \in Nat \ {0} /\ DOMAIN s = 1 .. Len(s)
      /\ \A q \in DOMAIN s : /\ s[q] = d.slots[ch[SectorIndex(q)]][Offset(q)]
                             /\ SectorIndex(q) \in 1 .. n /\ Offset(q) \in 1 .. Slots
                             /\ ch[SectorIndex(q)] \in Own(d.fat, c)
                             /\ ch[SectorIndex(q)] \in Cluster
  <2>1. HasChain(d.fat, c)
    BY TableFacts
  <2> QED
    BY <2>1, ContentsFacts
<1>7. r = Listed(e.slots, Append(ch, new))
  BY <1>1, <1>3 DEF Contents
<1>8. \A q \in DOMAIN s : ch[SectorIndex(q)] # new
  BY <1>1, <1>6
<1> HIDE DEF ch
<1>9. /\ Append(ch, new) \in Seq(Cluster) /\ Len(Append(ch, new)) = n + 1
      /\ \A i \in 1 .. n : Append(ch, new)[i] = ch[i] /\ Append(ch, new)[n + 1] = new
  BY <1>6
<1>10. /\ Len(r) = Slots * (n + 1) /\ Slots * (n + 1) \in Nat
       /\ \A q \in 1 .. Slots * (n + 1) :
            /\ r[q] = e.slots[Append(ch, new)[SectorIndex(q)]][Offset(q)]
            /\ SectorIndex(q) \in 1 .. n + 1 /\ Offset(q) \in 1 .. Slots
  <2>1. e.slots \in [Cluster -> Block]
    BY <1>3 DEF Disks
  <2>2. /\ DOMAIN Listed(e.slots, Append(ch, new)) = 1 .. Slots * Len(Append(ch, new))
        /\ Len(Listed(e.slots, Append(ch, new))) = Slots * Len(Append(ch, new))
        /\ Slots * Len(Append(ch, new)) \in Nat
        /\ \A p \in 1 .. Slots * Len(Append(ch, new)) :
             /\ Listed(e.slots, Append(ch, new))[p] = e.slots[Append(ch, new)[SectorIndex(p)]][Offset(p)]
             /\ SectorIndex(p) \in 1 .. Len(Append(ch, new)) /\ Offset(p) \in 1 .. Slots
    BY <1>9, <2>1, ListedFacts
  <2> HIDE DEF n
  <2> QED
    BY <1>7, <1>9, <2>2
<1> HIDE DEF n
<1>11. Slots * (n + 1) = Slots * n + Slots /\ \A q \in 1 .. Slots * (n + 1) : q <= Slots * n <=> SectorIndex(q) <= n
  <2>1. n \in Nat /\ n + 1 \in Nat /\ n <= n + 1
    BY <1>6
  <2> QED
    BY <2>1, PlaceBelow
<1>12. ASSUME NEW q \in 1 .. Len(r)
       PROVE  r[q] = IF q <= Len(s) THEN s[q] ELSE BlankEntry
  <2>0. /\ r[q] = e.slots[Append(ch, new)[SectorIndex(q)]][Offset(q)]
        /\ SectorIndex(q) \in 1 .. n + 1 /\ Offset(q) \in 1 .. Slots
        /\ q <= Len(s) <=> SectorIndex(q) <= n
    BY <1>6, <1>10, <1>11
  <2>1. CASE q <= Len(s)
    <3>1. q \in DOMAIN s
      BY <1>6, <1>10, <2>1
    <3> QED
      BY <1>4, <1>6, <1>8, <1>9, <2>0, <2>1, <3>1
  <2>2. CASE ~(q <= Len(s))
    <3>1. SectorIndex(q) = n + 1
      BY <1>6, <2>0, <2>2
    <3> QED
      BY <1>4, <1>6, <1>9, <2>0, <2>2, <3>1, BlankFacts
  <2> QED
    BY <2>1, <2>2
<1>13. Starts(ch, Chain(e.fat, c))
  BY <1>1, <1>3, <1>6, <1>9 DEF Starts, n, ch
<1>14. ASSUME NEW k \in H \ {c} PROVE Contents(e, k) = Contents(d, k)
  <2>1. HasChain(d.fat, k) /\ Own(d.fat, k) \subseteq Cluster /\ new \notin Own(d.fat, k)
    BY <1>1, TableFacts
  <2> QED
    BY <1>0, <1>1, <1>3, <1>4, <2>1, SameBlocks
<1> QED
  BY <1>1, <1>3, <1>5, <1>6, <1>10, <1>11, <1>12, <1>13, <1>14 DEF Leads, GrownBy, ch

(* Entries are written one after the other (fat_write.c:170-268).          *)
Upto(i, room) == IF i <= room THEN i ELSE room
Puts(s, at, es, k) == [q \in DOMAIN s |-> IF q \in at .. at + k - 1 THEN es[q - at + 1] ELSE s[q]]

LEMMA AddedAtIs ==
  ASSUME NEW r, DiskOk(r.d), NEW c, HasChain(r.d.fat, c), NEW es \in Seq(Cell),
         NEW s, s = Contents(r.d, c), r.at \in DOMAIN s,
         NEW room, room = Len(s) - r.at + 1, NEW a, a = AddedAt(r, c, es, room)
  PROVE  /\ Changed(r.d, c, a.d, Puts(s, r.at, es, Upto(Len(es), room)))
         /\ a.ok \in BOOLEAN /\ (a.ok <=> Len(es) <= room) /\ room \in Nat
<1> DEFINE d == r.d
           at == r.at
           m == Len(es)
           V == {e \in Disks : DiskOk(e) /\ e.fat = d.fat}
           F == [i \in 1 .. m |-> [e \in V |-> IF i > room THEN e ELSE Chg(e, c, at + i - 1, es[i])]]
           It(h) == [i \in 0 .. m |-> IF i = 0 THEN d ELSE IF i > room THEN h[i - 1]
                                      ELSE Chg(h[i - 1], c, at + i - 1, es[i])]
           put == CHOOSE h : h = It(h)
           st(i) == Puts(s, at, es, Upto(i, room))
<1>1. /\ s \in Seq(Cell) /\ Len(s) \in Nat /\ DOMAIN s = 1 .. Len(s)
      /\ at \in 1 .. Len(s) /\ room = Len(s) - at + 1 /\ room \in Nat /\ m \in Nat /\ DOMAIN es = 1 .. m
      /\ \A i \in 1 .. m : es[i] \in Cell
      /\ d \in Disks /\ d.fat \in Fats /\ DiskOk(d) /\ HasChain(d.fat, c) /\ s = Contents(d, c)
  <2>1. s \in Seq(Cell)
    BY ContentsFacts
  <2> QED
    BY <2>1 DEF DiskOk, Disks
<1>2. a = [d |-> put[m], ok |-> m <= room]
  BY DEF AddedAt
<1> HIDE DEF d, at, m, put
<1>3. ASSUME NEW e, DiskOk(e), e.fat = d.fat, NEW i \in 1 .. m, i <= room
      PROVE  /\ at + i - 1 \in DOMAIN Contents(e, c) /\ at + i - 1 \in DOMAIN s
             /\ Changed(e, c, Chg(e, c, at + i - 1, es[i]),
                        [Contents(e, c) EXCEPT ![at + i - 1] = es[i]])
             /\ Chg(e, c, at + i - 1, es[i]) \in V
  <2>1. Len(Contents(e, c)) = Len(s) /\ DOMAIN Contents(e, c) = 1 .. Len(Contents(e, c))
    BY <1>1, <1>3, ContentsFacts
  <2>2. at + i - 1 \in DOMAIN Contents(e, c) /\ at + i - 1 \in DOMAIN s
    BY <1>1, <1>3, <2>1
  <2>3. Changed(e, c, Chg(e, c, at + i - 1, es[i]), [Contents(e, c) EXCEPT ![at + i - 1] = es[i]])
    BY <1>1, <1>3, <2>2, ChgIs
  <2> QED
    BY <1>3, <2>2, <2>3 DEF Changed, DiskOk
<1>4. Folds(F, V, m, d)
  <2>1. ASSUME NEW i \in 1 .. m, NEW e \in V
        PROVE  (IF i > room THEN e ELSE Chg(e, c, at + i - 1, es[i])) \in V
    <3>1. CASE i > room
      BY <3>1
    <3>2. CASE i <= room
      BY <1>3, <3>2
    <3> QED
      BY <1>1, <3>1, <3>2
  <2>2. d \in V
    BY <1>1
  <2> HIDE DEF V
  <2>3. F \in [1 .. m -> [V -> V]]
    BY <2>1
  <2> HIDE DEF F
  <2> QED
    BY <1>1, <2>2, <2>3 DEF Folds
<1>5. \E g \in [0 .. m -> V] : Iterated(g, F, m, d)
  <2> HIDE DEF F, V
  <2> QED
    BY <1>4, Iteration
<1>6. PICK g \in [0 .. m -> V] : Iterated(g, F, m, d)
  BY <1>5
<1>7. g = It(g)
  <2>1. ASSUME NEW i \in 0 .. m
        PROVE  g[i] = IF i = 0 THEN d ELSE IF i > room THEN g[i - 1]
                      ELSE Chg(g[i - 1], c, at + i - 1, es[i])
    <3>1. CASE i = 0
      BY <1>6, <3>1 DEF Iterated
    <3>2. CASE i # 0
      <4>1. i \in 1 .. m /\ i - 1 \in 0 .. m
        BY <1>1, <3>2
      <4>2. g[i - 1] \in V
        BY <1>6, <4>1
      <4>3. g[i] = F[i][g[i - 1]]
        BY <1>6, <3>2 DEF Iterated
      <4> HIDE DEF V
      <4> QED
        BY <3>2, <4>1, <4>2, <4>3
    <3> QED
      BY <3>1, <3>2
  <2>2. g = [i \in 0 .. m |-> g[i]]
    BY <1>6
  <2> HIDE DEF V, F
  <2> QED
    BY <2>1, <2>2
<1>8. put = It(put)
  BY <1>7 DEF put
<1> HIDE DEF It
<1>9. put[0] = d /\ \A i \in 1 .. m : put[i] = IF i > room THEN put[i - 1]
                                               ELSE Chg(put[i - 1], c, at + i - 1, es[i])
  <2>1. put = [i \in 0 .. m |-> IF i = 0 THEN d ELSE IF i > room THEN put[i - 1]
                                ELSE Chg(put[i - 1], c, at + i - 1, es[i])]
    BY <1>8 DEF It
  <2>2. 0 \in 0 .. m /\ \A i \in 1 .. m : i \in 0 .. m /\ i # 0
    BY <1>1
  <2> QED
    BY <2>1, <2>2
<1> HIDE DEF F, V
<1> DEFINE S == {i \in 0 .. m : Changed(d, c, put[i], st(i))}
<1>10. 0 \in S
  <2>1. st(0) = s
    <3>1. Upto(0, room) = 0
      BY <1>1 DEF Upto
    <3>2. \A q \in DOMAIN s : q \notin at .. at + 0 - 1
      BY <1>1
    <3>3. s = [q \in DOMAIN s |-> s[q]]
      BY <1>1
    <3> QED
      BY <3>1, <3>2, <3>3 DEF Puts
  <2>2. Changed(d, c, put[0], s)
    BY <1>1, <1>9 DEF Changed
  <2> HIDE DEF st
  <2> QED
    BY <1>1, <2>1, <2>2
<1>11. ASSUME NEW i \in 1 .. m, i - 1 \in S PROVE i \in S
  <2>1. /\ DiskOk(put[i - 1]) /\ put[i - 1].fat = d.fat /\ Contents(put[i - 1], c) = st(i - 1)
        /\ \A x \in Cluster : x \notin Own(d.fat, c) => put[i - 1].slots[x] = d.slots[x]
    BY <1>11 DEF Changed
  <2>2. CASE i > room
    <3>1. put[i] = put[i - 1]
      BY <1>9, <2>2
    <3>2. Upto(i - 1, room) = Upto(i, room)
      BY <1>1, <2>2 DEF Upto
    <3> QED
      BY <1>11, <3>1, <3>2
  <2>3. CASE i <= room
    <3>1. put[i] = Chg(put[i - 1], c, at + i - 1, es[i])
      <4>1. ~(i > room)
        BY <1>1, <2>3
      <4> QED
        BY <1>9, <4>1
    <3>2. /\ Changed(put[i - 1], c, put[i], [st(i - 1) EXCEPT ![at + i - 1] = es[i]])
          /\ at + i - 1 \in DOMAIN s
      BY <1>3, <2>1, <2>3, <3>1
    <3>3. [st(i - 1) EXCEPT ![at + i - 1] = es[i]] = st(i)
      <4>1. Upto(i - 1, room) = i - 1 /\ Upto(i, room) = i
        BY <1>1, <2>3 DEF Upto
      <4>2. /\ st(i - 1) = [q \in DOMAIN s |-> IF q \in at .. at + i - 2 THEN es[q - at + 1] ELSE s[q]]
            /\ st(i) = [q \in DOMAIN s |-> IF q \in at .. at + i - 1 THEN es[q - at + 1] ELSE s[q]]
        <5>1. at + (i - 1) - 1 = at + i - 2
          BY <1>1
        <5> QED
          BY <4>1, <5>1 DEF Puts
      <4>3. \A q \in DOMAIN s : q \in at .. at + i - 1 <=> (q \in at .. at + i - 2 \/ q = at + i - 1)
        <5>1. at \in Int /\ i \in 1 .. m /\ m \in Nat /\ DOMAIN s \subseteq Int
          BY <1>1
        <5> QED
          BY ONLY <5>1
      <4>4. (at + i - 1) - at + 1 = i
        BY <1>1
      <4> HIDE DEF st
      <4> QED
        BY <3>2, <4>2, <4>3, <4>4
    <3> HIDE DEF st
    <3> QED
      BY <2>1, <3>2, <3>3 DEF Changed
  <2> QED
    BY <1>1, <2>2, <2>3
<1>12. m \in S
  <2> HIDE DEF S
  <2>1. \A i \in 0 .. m : i \in S
    BY <1>1, <1>10, <1>11, InductionTo
  <2> QED
    BY <1>1, <2>1
<1>13. a.d = put[m] /\ a.ok \in BOOLEAN /\ (a.ok <=> m <= room)
  <2> DEFINE B == m <= room
  <2>1. a = [d |-> put[m], ok |-> B]
    BY <1>2
  <2>2. B \in BOOLEAN
    BY <1>1
  <2> HIDE DEF B
  <2>3. a.d = put[m] /\ a.ok = B
    BY <2>1
  <2> QED
    BY <2>2, <2>3 DEF B
<1> QED
  BY <1>1, <1>12, <1>13 DEF m, d, at

(* The free entries before p (fat_write.c:57-80).                          *)
LEMMA RunFacts ==
  ASSUME NEW s \in Seq(Cell), NEW p \in 1 .. Len(s)
  PROVE  /\ RunStart(s, p) \in 1 .. p + 1
         /\ \A q \in LiveAt(s) : q < RunStart(s, p) \/ q > p
         /\ RunStart(s, p) = 1 \/ RunStart(s, p) - 1 \in LiveAt(s)
<1> DEFINE S == {q \in 0 .. p : q = 0 \/ Live(s[q])}
           T == {q + 1 : q \in S}
<1>1. Len(s) \in Nat /\ DOMAIN s = 1 .. Len(s) /\ p \in Nat
  OBVIOUS
<1>2. 1 \in T /\ T \in SUBSET (1 .. p + 1) /\ p + 1 \in Nat
  <2>1. 0 \in S
    BY <1>1
  <2> QED
    BY <1>1, <2>1
<1>3. Max(T) \in T /\ \A y \in T : y <= Max(T)
  <2> HIDE DEF T
  <2>1. T # {}
    BY <1>2
  <2> QED
    BY <1>2, <2>1, MaxOfSome
<1>4. PICK x \in S : Max(T) = x + 1
  BY <1>3
<1>5. S \in SUBSET Int /\ \A y \in S : y <= x
  <2>1. S \in SUBSET Int
    BY <1>1
  <2>2. \A y \in S : y + 1 \in T
    OBVIOUS
  <2> HIDE DEF S, T
  <2>3. \A y \in S : y + 1 <= x + 1
    BY <1>3, <1>4, <2>2
  <2> QED
    BY <1>4, <2>1, <2>3
<1>6. Max(S) = x
  <2> HIDE DEF S
  <2> QED
    BY <1>4, <1>5, MaxIs
<1>7. RunStart(s, p) = x + 1 /\ x \in 0 .. p /\ (x = 0 \/ Live(s[x]))
  BY <1>6 DEF RunStart
<1>8. \A q \in LiveAt(s) : q <= x \/ q > p
  BY <1>1, <1>5 DEF LiveAt
<1> HIDE DEF S
<1> QED
  BY <1>1, <1>7, <1>8 DEF LiveAt

(* The entries of a name: its parts backwards, and the short entry.        *)
LEMMA NewFacts ==
  ASSUME NEW n \in Name, NEW sfn \in Sfn, NEW first \in Cluster \ {RootDir}, NEW kind \in Kind
  PROVE  LET es == NewEntries(n, sfn, first, kind)
         IN  /\ es \in Seq(Cell) /\ Len(es) = Parts[n] + 1 /\ DOMAIN es = 1 .. Parts[n] + 1
             /\ \A i \in 1 .. Parts[n] : es[i] = LfnEntry(n, Parts[n] + 1 - i) /\ ~Live(es[i])
             /\ es[Parts[n] + 1] = SfnEntry(kind, sfn, first, 0) /\ Live(es[Parts[n] + 1])
             /\ es[Parts[n] + 1].t # "lfn" /\ es[Parts[n] + 1].sfn = sfn
<1> DEFINE m == Parts[n]
           u == [i \in 1 .. m |-> LfnEntry(n, m + 1 - i)]
           x == SfnEntry(kind, sfn, first, 0)
<1>1. m \in Nat
  BY PartsFacts
<1> HIDE DEF m
<1>2. u \in Seq(Cell) /\ Len(u) = m
  BY <1>1, CellsAre
<1>3. \A i \in 1 .. m : ~Live(u[i])
  BY <1>1, CellsAre
<1>4. x \in SfnCell /\ x \in Cell
  BY CellsAre
<1>5. Live(x) /\ x.t # "lfn" /\ x.sfn = sfn
  BY <1>4, CellFacts DEF SfnEntry
<1>6. \A i \in 1 .. m : u[i] = LfnEntry(n, m + 1 - i)
  OBVIOUS
<1> HIDE DEF u, x
<1>7. /\ Append(u, x) \in Seq(Cell) /\ Len(Append(u, x)) = m + 1 /\ DOMAIN Append(u, x) = 1 .. m + 1
      /\ Append(u, x)[m + 1] = x /\ \A i \in 1 .. m : Append(u, x)[i] = u[i]
  BY <1>1, <1>2, <1>4
<1>8. NewEntries(n, sfn, first, kind) = Append(u, x)
  BY DEF NewEntries, u, x, m
<1> QED
  BY <1>3, <1>5, <1>6, <1>7, <1>8 DEF m, x

(* They are written over a run of free entries of a directory; t is the    *)
(* directory, or what it is with a cluster more.                           *)
LEMMA PutOver ==
  ASSUME NEW s, DirOk(s), NEW t \in Seq(Cell), Len(s) <= Len(t), \A q \in 1 .. Len(s) : t[q] = s[q],
         LiveAt(t) = LiveAt(s),
         NEW at \in 1 .. Len(t), NEW p \in 1 .. Len(t), \A q \in LiveAt(s) : q < at \/ q > p,
         at = 1 \/ at - 1 \in LiveAt(s), NEW n \in Name, NEW sfn \in Sfn, NEW first \in Cluster \ {RootDir}, NEW kind \in Kind,
         NEW es, es = NewEntries(n, sfn, first, kind),
         NEW k \in 0 .. Len(es), p < Len(s) => s[p].t # "lfn" /\ k = Len(es), at + k - 1 <= p, NEW r, r = Puts(t, at, es, k),
         NEW b, b = at + k - 1
  PROVE  /\ Over(s, r, at, p) /\ Len(r) = Len(t)
         /\ k < Len(es) => LiveAt(r) = LiveAt(s)
         /\ k = Len(es) => /\ b \in DOMAIN r /\ b \notin LiveAt(s) /\ Live(r[b])
                           /\ r[b] = SfnEntry(kind, sfn, first, 0) /\ r[b].sfn = sfn
                           /\ LiveAt(r) = LiveAt(s) \cup {b} /\ WellNamed(r, b, n)
<1> DEFINE m == Parts[n]
<1>1. /\ s \in Seq(Cell) /\ DOMAIN s = 1 .. Len(s) /\ Len(s) \in Nat
      /\ Len(t) \in Nat /\ DOMAIN t = 1 .. Len(t)
      /\ \A q \in LiveAt(s) : q \in 1 .. Len(s) /\ s[q].t # "lfn" /\ Live(s[q])
  BY DirFacts DEF LiveAt
<1>2. /\ es \in Seq(Cell) /\ Len(es) = m + 1 /\ DOMAIN es = 1 .. m + 1 /\ m \in Nat /\ m >= 1
      /\ \A i \in 1 .. m : es[i] = LfnEntry(n, m + 1 - i) /\ ~Live(es[i])
      /\ es[m + 1] = SfnEntry(kind, sfn, first, 0) /\ Live(es[m + 1])
      /\ es[m + 1].t # "lfn" /\ es[m + 1].sfn = sfn
  BY NewFacts, PartsFacts
<1> HIDE DEF m
<1>3. /\ \A q \in 1 .. Len(t) : r[q] = IF q \in at .. at + k - 1 THEN es[q - at + 1] ELSE t[q]
      /\ DOMAIN r = 1 .. Len(t)
  BY <1>1 DEF Puts
<1>4. \A q \in at .. at + k - 1 : q \in 1 .. Len(t) /\ q - at + 1 \in 1 .. k /\ q - at + 1 \in 1 .. m + 1
  BY <1>1, <1>2
<1>5. r \in Seq(Cell) /\ Len(r) = Len(t)
  <2>1. ASSUME NEW q \in 1 .. Len(t) PROVE r[q] \in Cell
    <3>1. CASE q \in at .. at + k - 1
      <4>1. r[q] = es[q - at + 1] /\ q - at + 1 \in 1 .. Len(es)
        BY <1>2, <1>3, <1>4, <3>1
      <4> QED
        BY <1>2, <4>1
    <3>2. CASE q \notin at .. at + k - 1
      BY <1>1, <1>3, <3>2
    <3> QED
      BY <3>1, <3>2
  <2>2. r = [q \in 1 .. Len(t) |-> IF q \in at .. at + k - 1 THEN es[q - at + 1] ELSE t[q]]
    BY <1>1 DEF Puts
  <2>3. r \in [1 .. Len(t) -> Cell]
    BY <1>3, <2>1, <2>2
  <2> QED
    BY <1>1, <2>3
<1>6. Over(s, r, at, p)
  <2>1. \A q \in 1 .. Len(s) : q < at \/ q > p => r[q] = s[q]
    BY <1>1, <1>2, <1>3
  <2>2. ASSUME p < Len(s) PROVE r[p].t # "lfn"
    <3>1. CASE p \in at .. at + k - 1
      <4>1. p = at + k - 1
        <5>1. p \in Int /\ at \in Int /\ k \in Int /\ at + k - 1 <= p
          BY <1>1, <1>2
        <5> QED
          BY <3>1, <5>1
      <4>2. CASE k = m + 1
        <5>1. p - at + 1 = m + 1
          BY <1>1, <1>2, <4>1, <4>2
        <5> QED
          BY <1>2, <1>3, <3>1, <5>1
      <4>3. CASE k # m + 1
        BY <1>2, <2>2, <4>3
      <4> QED
        BY <4>2, <4>3
    <3>2. CASE p \notin at .. at + k - 1
      BY <1>1, <1>3, <2>2, <3>2
    <3> QED
      BY <3>1, <3>2
  <2> QED
    BY <1>1, <1>5, <2>1, <2>2 DEF Over
<1>7. ASSUME NEW q \in LiveAt(s) PROVE q \in LiveAt(r)
  <2>1. q \in 1 .. Len(s) /\ Live(s[q]) /\ (q < at \/ q > p)
    BY <1>1
  <2>2. r[q] = s[q]
    BY <1>1, <1>2, <1>3, <2>1
  <2> QED
    BY <1>1, <1>3, <2>1, <2>2 DEF LiveAt
<1>8. ASSUME NEW q \in LiveAt(r), q \notin LiveAt(s)
      PROVE  k = m + 1 /\ q = at + k - 1
  <2>1. q \in 1 .. Len(t) /\ Live(r[q])
    BY <1>3 DEF LiveAt
  <2>2. q \in at .. at + k - 1
    <3>1. CASE q \notin at .. at + k - 1
      <4>1. r[q] = t[q]
        BY <1>3, <2>1, <3>1
      <4>2. q \in LiveAt(t)
        BY <1>1, <2>1, <4>1 DEF LiveAt
      <4> QED
        BY <1>8, <4>2
    <3> QED
      BY <3>1
  <2>3. r[q] = es[q - at + 1] /\ q - at + 1 \in 1 .. m + 1 /\ q - at + 1 <= k
    BY <1>3, <1>4, <2>1, <2>2
  <2>4. q - at + 1 \notin 1 .. m
    BY <1>2, <2>1, <2>3
  <2>5. q - at + 1 = m + 1
    BY <1>2, <2>3, <2>4
  <2> QED
    BY <1>2, <2>2, <2>3, <2>5
<1>9. CASE k < Len(es)
  <2>1. LiveAt(r) = LiveAt(s)
    <3>1. k # m + 1
      BY <1>2, <1>9
    <3> QED
      BY <1>7, <1>8, <3>1
  <2>2. k # Len(es)
    BY <1>2, <1>9
  <2> QED
    BY <1>5, <1>6, <2>1, <2>2
<1>10. CASE k = Len(es)
  <2>1. b \in at .. at + k - 1 /\ b = at + m /\ k = m + 1 /\ b - at + 1 = m + 1
    BY <1>2, <1>10
  <2>2. b \in 1 .. Len(t) /\ r[b] = es[m + 1]
    BY <1>3, <1>4, <2>1
  <2>3. b \notin LiveAt(s)
    BY <1>2, <2>1
  <2>4. LiveAt(r) = LiveAt(s) \cup {b}
    <3>1. b \in LiveAt(r)
      BY <1>2, <1>3, <2>2 DEF LiveAt
    <3> QED
      BY <1>7, <1>8, <2>1, <3>1
  <2>5. ASSUME NEW i \in 1 .. m PROVE r[b - i] = LfnEntry(n, i)
    <3>1. b - i \in at .. at + k - 1 /\ b - i - at + 1 = m + 1 - i /\ m + 1 - i \in 1 .. m
      BY <1>2, <2>1
    <3>2. r[b - i] = es[m + 1 - i]
      BY <1>3, <1>4, <3>1
    <3>3. es[m + 1 - i] = LfnEntry(n, m + 1 - (m + 1 - i))
      BY <1>2, <3>1
    <3>4. m + 1 - (m + 1 - i) = i
      BY <1>2
    <3> QED
      BY <3>2, <3>3, <3>4
  <2>6. m < b /\ b - m = at
    BY <1>2, <2>1
  <2>7. at = 1 \/ r[at - 1].t # "lfn"
    <3>1. CASE at # 1
      <4>1. at - 1 \in 1 .. Len(s) /\ s[at - 1].t # "lfn"
        BY <1>1, <3>1
      <4>2. at - 1 \notin at .. at + k - 1 /\ at - 1 \in 1 .. Len(t)
        BY <1>1, <4>1
      <4>3. r[at - 1] = s[at - 1]
        BY <1>3, <4>1, <4>2
      <4> QED
        BY <4>1, <4>3
    <3> QED
      BY <3>1
  <2>8. WellNamed(r, b, n)
    BY <2>5, <2>6, <2>7 DEF WellNamed, m
  <2>9. ~(k < Len(es))
    BY <1>2, <1>10
  <2> QED
    BY <1>2, <1>3, <1>5, <1>6, <2>2, <2>3, <2>4, <2>8, <2>9
<1> QED
  BY <1>2, <1>9, <1>10

(* A directory with the live entries of another one, and one with an entry *)
(* more, at b with the name n.                                             *)
Kin(s, r) ==
  /\ DirOk(r) /\ LiveAt(r) = LiveAt(s)
  /\ \A q \in LiveAt(s) : r[q] = s[q] /\ NameAt(r, q) = NameAt(s, q)
NewIn(s, r, b, n, e) ==
  /\ DirOk(r) /\ b \notin LiveAt(s) /\ LiveAt(r) = LiveAt(s) \cup {b}
  /\ r[b] = e /\ NameAt(r, b) = n
  /\ \A q \in LiveAt(s) : r[q] = s[q] /\ NameAt(r, q) = NameAt(s, q)
NewNames(s, n, sfn) == \A q \in LiveAt(s) : Folded[NameAt(s, q)] # Folded[n] /\ s[q].sfn # sfn

(* t is the directory s or has a cluster more, and m entries fit from at   *)
(* on, or what fits up to the end p.                                       *)
Room(s, t, at, p, m) ==
  /\ Len(s) <= Len(t) /\ (\A q \in 1 .. Len(s) : t[q] = s[q]) /\ LiveAt(t) = LiveAt(s)
  /\ at \in 1 .. Len(t) /\ p \in 1 .. Len(t) /\ (\A q \in LiveAt(s) : q < at \/ q > p)
  /\ at = 1 \/ at - 1 \in LiveAt(s)
  /\ p = Len(t) \/ (s[p].t # "lfn" /\ at + m - 1 <= p)

(* All entries of a name are written, or there was no room.                *)
LEMMA WrittenIs ==
  ASSUME NEW H, NEW L, NEW c \in H, NEW d, TableOk(d.fat, H, L), NEW s, DirOk(s),
         NEW r, Leads(d, c, r.d, H, L), NEW t, t = Contents(r.d, c), NEW p,
         NEW n \in Name, NEW sfn \in Sfn, NEW first \in Cluster \ {RootDir}, NEW kind \in Kind,
         NEW es, es = NewEntries(n, sfn, first, kind), NewNames(s, n, sfn),
         Room(s, t, r.at, p, Len(es)), NEW a, a = AddedIn(r, c, es)
  PROVE  /\ Leads(d, c, a.d, H, L) /\ a.ok \in BOOLEAN
         /\ ~a.ok => Kin(s, Contents(a.d, c))
         /\ a.ok => \E b : NewIn(s, Contents(a.d, c), b, n, SfnEntry(kind, sfn, first, 0))
<1> DEFINE at == r.at
           room == Len(t) - at + 1
           k == Upto(Len(es), room)
           u == Contents(a.d, c)
           b == at + k - 1
<1>0. /\ Len(s) <= Len(t) /\ (\A q \in 1 .. Len(s) : t[q] = s[q]) /\ LiveAt(t) = LiveAt(s)
      /\ r.at \in 1 .. Len(t) /\ p \in 1 .. Len(t) /\ (\A q \in LiveAt(s) : q < r.at \/ q > p)
      /\ r.at = 1 \/ r.at - 1 \in LiveAt(s)
      /\ p = Len(t) \/ (s[p].t # "lfn" /\ r.at + Len(es) - 1 <= p)
  BY DEF Room
<1>1. /\ DiskOk(r.d) /\ TableOk(r.d.fat, H, L) /\ HasChain(r.d.fat, c)
  BY TableFacts DEF Leads
<1>2. t \in Seq(Cell) /\ Len(t) \in Nat /\ DOMAIN t = 1 .. Len(t) /\ Entries(r.d, c) = t
  BY <1>1, ContentsFacts, EntriesAre
<1>3. es \in Seq(Cell) /\ Len(es) \in Nat
  BY NewFacts
<1>4. a = AddedAt(r, c, es, room)
  <2>1. r.at # 0
    BY <1>0, <1>2
  <2> QED
    BY <1>2, <2>1 DEF AddedIn
<1>5. Changed(r.d, c, a.d, Puts(t, r.at, es, k)) /\ a.ok \in BOOLEAN /\ (a.ok <=> Len(es) <= room) /\ room \in Nat
  <2>1. r.at \in DOMAIN t /\ room = Len(t) - r.at + 1
    BY <1>0, <1>2
  <2> HIDE DEF room
  <2>2. DiskOk(r.d) /\ HasChain(r.d.fat, c) /\ es \in Seq(Cell) /\ t = Contents(r.d, c)
        /\ a = AddedAt(r, c, es, room)
    BY <1>1, <1>3, <1>4
  <2> QED
    BY ONLY <2>1, <2>2, AddedAtIs
<1>6. Leads(r.d, c, a.d, H, L) /\ u = Puts(t, at, es, k)
  <2> HIDE DEF k
  <2>1. c \in H /\ TableOk(r.d.fat, H, L) /\ Changed(r.d, c, a.d, Puts(t, at, es, k))
    BY <1>1, <1>5
  <2> QED
    BY ONLY <2>1, ChangedLeads
<1>7. Leads(d, c, a.d, H, L)
  BY <1>6, LeadsOn
<1> HIDE DEF u
<1>8. at \in 1 .. Len(t) /\ (\A q \in LiveAt(s) : q < at \/ q > p) /\ (at = 1 \/ at - 1 \in LiveAt(s))
      /\ (p = Len(t) \/ (s[p].t # "lfn" /\ at + Len(es) - 1 <= p)) /\ room = Len(t) - at + 1 /\ p \in 1 .. Len(t)
  BY <1>0
<1> HIDE DEF at, room
<1>9. /\ k \in 0 .. Len(es) /\ at + k - 1 <= p
      /\ k = Len(es) <=> Len(es) <= room
      /\ k < Len(es) <=> ~(Len(es) <= room)
  <2>1. CASE Len(es) <= room
    BY <1>2, <1>3, <1>5, <1>8, <2>1 DEF Upto
  <2>2. CASE ~(Len(es) <= room)
    BY <1>2, <1>3, <1>5, <1>8, <2>2 DEF Upto
  <2> QED
    BY <2>1, <2>2
<1> HIDE DEF k, b
<1>10. p < Len(s) => s[p].t # "lfn" /\ k = Len(es)
  <2>1. Len(s) \in Nat /\ Len(s) <= Len(t) /\ p \in 1 .. Len(t)
    BY <1>0, DirFacts
  <2> QED
    BY <1>2, <1>3, <1>8, <1>9, <2>1
<1>11. /\ Over(s, u, at, p)
       /\ k < Len(es) => LiveAt(u) = LiveAt(s)
       /\ k = Len(es) => /\ b \in DOMAIN u /\ b \notin LiveAt(s) /\ Live(u[b])
                         /\ u[b] = SfnEntry(kind, sfn, first, 0) /\ u[b].sfn = sfn
                         /\ LiveAt(u) = LiveAt(s) \cup {b} /\ WellNamed(u, b, n)
  <2>1. /\ DirOk(s) /\ t \in Seq(Cell) /\ Len(s) <= Len(t) /\ LiveAt(t) = LiveAt(s)
        /\ \A q \in 1 .. Len(s) : t[q] = s[q]
        /\ n \in Name /\ sfn \in Sfn /\ first \in Cluster \ {RootDir} /\ kind \in Kind
        /\ es = NewEntries(n, sfn, first, kind) /\ p \in 1 .. Len(t)
    BY <1>0, <1>2
  <2>2. b = at + k - 1
    BY DEF b
  <2>3. u = Puts(t, at, es, k)
    BY <1>6
  <2>4. Over(s, u, at, p) /\ (k = Len(es) => b \in DOMAIN u)
    BY ONLY <2>2, <2>3, <1>8, <1>9, <1>10, <2>1, PutOver
  <2>5. k < Len(es) => LiveAt(u) = LiveAt(s)
    BY ONLY <2>2, <2>3, <1>8, <1>9, <1>10, <2>1, PutOver
  <2>6. k = Len(es) => /\ b \in DOMAIN u /\ b \notin LiveAt(s) /\ Live(u[b])
                         /\ u[b] = SfnEntry(kind, sfn, first, 0) /\ u[b].sfn = sfn
                         /\ LiveAt(u) = LiveAt(s) \cup {b} /\ WellNamed(u, b, n)
    BY ONLY <2>2, <2>3, <1>8, <1>9, <1>10, <2>1, PutOver
  <2> QED
    BY <2>4, <2>5, <2>6
<1>12. CASE ~a.ok
  <2>1. LiveAt(u) = LiveAt(s)
    BY <1>5, <1>9, <1>11, <1>12
  <2>2. /\ DirOk(u) /\ LiveAt(u) = LiveAt(s)
        /\ \A q \in LiveAt(s) : u[q] = s[q] /\ NameAt(u, q) = NameAt(s, q)
    BY <1>11, <2>1, OverPart
  <2>3. Kin(s, u)
    BY <2>2 DEF Kin
  <2> QED
    BY <1>5, <1>7, <1>12, <2>3 DEF u
<1>13. CASE a.ok
  <2>1. /\ b \in DOMAIN u /\ b \notin LiveAt(s) /\ Live(u[b])
        /\ u[b] = SfnEntry(kind, sfn, first, 0) /\ u[b].sfn = sfn
        /\ LiveAt(u) = LiveAt(s) \cup {b} /\ WellNamed(u, b, n)
    BY <1>5, <1>9, <1>11, <1>13
  <2>2. NewIn(s, u, b, n, SfnEntry(kind, sfn, first, 0))
    BY <1>11, <2>1, OverNamed DEF NewIn, NewNames
  <2> QED
    BY <1>7, <1>13, <2>2 DEF u
<1>14. a.ok \in BOOLEAN
  BY <1>5
<1> QED
  BY <1>12, <1>13, <1>14

(* A new entry of a directory (fat_write.c:43-268).                        *)
LEMMA AddedIs ==
  ASSUME NEW H, NEW L, NEW c \in H, NEW d, DiskOk(d), TableOk(d.fat, H, L),
         NEW s, s = Contents(d, c), DirOk(s),
         NEW n \in Name, NEW sfn \in Sfn, NEW first \in Cluster \ {RootDir}, NEW kind \in Kind,
         NewNames(s, n, sfn), NEW a, a = fatfs_add_file_entry(d, c, n, sfn, first, kind)
  PROVE  /\ Leads(d, c, a.d, H, L) /\ a.ok \in BOOLEAN
         /\ ~a.ok => Kin(s, Contents(a.d, c))
         /\ a.ok => \E b : NewIn(s, Contents(a.d, c), b, n, SfnEntry(kind, sfn, first, 0))
<1> DEFINE es == NewEntries(n, sfn, first, kind)
           m == Len(es)
           S == {p \in DOMAIN s : s[p].t \in {"deleted", "blank"} /\ p - RunStart(s, p) + 1 >= m}
           r0 == SearchEnd(d, c, Least(S))
           r == FreeRun(d, c, s, r0)
<1>1. HasChain(d.fat, c) /\ d.fat \in Fats
  BY TableFacts
<1>2. /\ s \in Seq(Cell) /\ Len(s) \in Nat \ {0} /\ DOMAIN s = 1 .. Len(s) /\ Entries(d, c) = s
  BY <1>1, ContentsFacts, EntriesAre
<1>3. fatfs_find_free_dir_offset(d, c, m) = r
  BY <1>2 DEF fatfs_find_free_dir_offset, Search, SearchIn
<1>4. a = AddedIn(r, c, es)
  BY <1>3 DEF fatfs_add_file_entry, AddedTo
<1>5. /\ After(d, c, r0.d) /\ (r0.at = 0 <=> S = {})
      /\ S # {} => r0.at \in S /\ \A p \in S : r0.at <= p
  <2>1. S \in SUBSET DOMAIN Contents(d, c)
    OBVIOUS
  <2> HIDE DEF S
  <2> QED
    BY <1>1, <2>1, AfterSearch
<1>6. Leads(d, c, r0.d, H, L) /\ Contents(r0.d, c) = s /\ DiskOk(r0.d) /\ r0.d.fat = d.fat
  BY <1>5, AfterLeads, AfterSame
<1>7. es \in Seq(Cell) /\ m \in Nat
  BY NewFacts
<1>8. r = IF r0.at # 0 THEN [r0 EXCEPT !.at = RunStart(s, r0.at)]
          ELSE IF BlankCluster(d.fat) = {} THEN r0
          ELSE [d |-> Grown(r0.d, c, Min(BlankCluster(d.fat))), at |-> RunStart(s, Len(s))]
  BY DEF FreeRun
<1>9. r0 = [d |-> r0.d, at |-> r0.at]
  BY DEF SearchEnd
<1> HIDE DEF es, m, r, r0
<1>10. CASE r0.at # 0
  <2> DEFINE p == r0.at
  <2>1. p \in DOMAIN s /\ s[p].t \in {"deleted", "blank"} /\ p - RunStart(s, p) + 1 >= m
    BY <1>5, <1>10
  <2>2. r.d = r0.d /\ r.at = RunStart(s, p)
    BY <1>8, <1>9, <1>10
  <2> HIDE DEF p, S
  <2>3. /\ RunStart(s, p) \in 1 .. p + 1
        /\ \A q \in LiveAt(s) : q < RunStart(s, p) \/ q > p
        /\ RunStart(s, p) = 1 \/ RunStart(s, p) - 1 \in LiveAt(s)
    BY <1>2, <2>1, RunFacts
  <2>4. m >= 1
    BY NewFacts, PartsFacts DEF m, es
  <2>5. r.at \in 1 .. Len(s) /\ p \in 1 .. Len(s) /\ r.at + m - 1 <= p
    BY <1>2, <1>7, <2>1, <2>2, <2>3, <2>4
  <2>6. s[p].t # "lfn"
    BY <2>1
  <2>7. Leads(d, c, r.d, H, L) /\ s = Contents(r.d, c)
    BY <1>6, <2>2
  <2>8. /\ c \in H /\ TableOk(d.fat, H, L) /\ DirOk(s) /\ n \in Name /\ sfn \in Sfn
        /\ first \in Cluster \ {RootDir} /\ kind \in Kind /\ NewNames(s, n, sfn)
        /\ es = NewEntries(n, sfn, first, kind) /\ a = AddedIn(r, c, es)
    BY <1>4 DEF es
  <2> DEFINE t == s
  <2>9. Room(s, t, r.at, p, Len(es)) /\ t = Contents(r.d, c)
    BY <1>2, <2>2, <2>3, <2>5, <2>6, <2>7 DEF m, Room
  <2>10. Leads(d, c, r.d, H, L)
    BY <2>7
  <2> HIDE DEF t
  <2> QED
    BY ONLY <2>8, <2>9, <2>10, WrittenIs
<1>11. CASE r0.at = 0 /\ BlankCluster(d.fat) = {}
  <2>1. r = r0
    BY <1>8, <1>11
  <2>2. a.d = r0.d /\ a.ok = FALSE
    BY <1>4, <1>11, <2>1 DEF AddedIn
  <2>3. Kin(s, s)
    BY DEF Kin
  <2> QED
    BY <1>6, <2>2, <2>3
<1>12. CASE r0.at = 0 /\ BlankCluster(d.fat) # {}
  <2> DEFINE new == Min(BlankCluster(d.fat))
             t == Contents(r.d, c)
  <2>1. new \in BlankCluster(d.fat)
    <3>1. BlankCluster(d.fat) \in SUBSET Nat
      BY ClusterFacts DEF BlankCluster
    <3>2. PICK x \in BlankCluster(d.fat) : \A y \in BlankCluster(d.fat) : x <= y
      BY <1>12, <3>1, LeastElement
    <3>3. BlankCluster(d.fat) \in SUBSET Int
      BY <3>1
    <3> QED
      BY <3>2, <3>3, MinIs
  <2>2. new \in Cluster /\ d.fat[new] = 0
    BY <2>1 DEF BlankCluster
  <2>3. r.d = Grown(r0.d, c, new) /\ r.at = RunStart(s, Len(s))
    BY <1>8, <1>12
  <2> HIDE DEF new
  <2>4. /\ Leads(r0.d, c, r.d, H, L) /\ Len(t) = Len(s) + Slots
        /\ \A q \in 1 .. Len(t) : t[q] = IF q <= Len(s) THEN s[q] ELSE BlankEntry
    <3>1. c \in H /\ DiskOk(r0.d) /\ TableOk(r0.d.fat, H, L) /\ new \in Cluster /\ r0.d.fat[new] = 0
          /\ r.d = Grown(r0.d, c, new) /\ Contents(r0.d, c) = s /\ t = Contents(r.d, c)
      BY <1>6, <2>2, <2>3
    <3>2. Leads(r0.d, c, r.d, H, L) /\ GrownBy(s, t)
      BY ONLY <3>1, GrownIs
    <3> QED
      BY <3>2 DEF GrownBy
  <2>5. Leads(d, c, r.d, H, L)
    BY <1>6, <2>4, LeadsOn
  <2>6. t \in Seq(Cell) /\ DOMAIN t = 1 .. Len(t) /\ Len(t) \in Nat
    <3>1. DiskOk(r.d) /\ HasChain(r.d.fat, c)
      BY <2>4, TableFacts DEF Leads
    <3> QED
      BY <3>1, ContentsFacts
  <2> HIDE DEF t
  <2>7. /\ RunStart(s, Len(s)) \in 1 .. Len(s) + 1
        /\ \A q \in LiveAt(s) : q < RunStart(s, Len(s)) \/ q > Len(s)
        /\ RunStart(s, Len(s)) = 1 \/ RunStart(s, Len(s)) - 1 \in LiveAt(s)
    BY <1>2, RunFacts
  <2>8. Slots \in Nat \ {0}
    BY ClusterFacts
  <2>9. /\ r.at \in 1 .. Len(t) /\ Len(t) \in 1 .. Len(t) /\ Len(s) <= Len(t)
        /\ \A q \in 1 .. Len(s) : t[q] = s[q]
    BY <1>2, <2>3, <2>4, <2>6, <2>7, <2>8
  <2>10. \A q \in LiveAt(s) : q < r.at \/ q > Len(t)
    <3>1. \A q \in LiveAt(s) : q <= Len(s) /\ q \in Nat
      BY <1>2 DEF LiveAt
    <3> QED
      BY <1>2, <2>3, <2>7, <3>1
  <2>11. LiveAt(t) = LiveAt(s)
    <3>1. ASSUME NEW q \in LiveAt(t) PROVE q \in LiveAt(s)
      <4>1. q \in 1 .. Len(t) /\ Live(t[q])
        BY <2>6 DEF LiveAt
      <4>2. q <= Len(s)
        BY <2>4, <4>1, CellsAre
      <4> QED
        BY <1>2, <2>6, <2>9, <4>1, <4>2 DEF LiveAt
    <3>2. ASSUME NEW q \in LiveAt(s) PROVE q \in LiveAt(t)
      <4>1. q \in 1 .. Len(s) /\ Live(s[q])
        BY <1>2 DEF LiveAt
      <4> QED
        BY <1>2, <2>6, <2>9, <4>1 DEF LiveAt
    <3> QED
      BY <3>1, <3>2
  <2>12. /\ c \in H /\ TableOk(d.fat, H, L) /\ DirOk(s) /\ n \in Name /\ sfn \in Sfn
         /\ first \in Cluster \ {RootDir} /\ kind \in Kind /\ NewNames(s, n, sfn)
         /\ es = NewEntries(n, sfn, first, kind) /\ a = AddedIn(r, c, es) /\ t = Contents(r.d, c)
    BY <1>4 DEF es, t
  <2>13. Room(s, t, r.at, Len(t), Len(es))
    BY <2>3, <2>7, <2>9, <2>10, <2>11 DEF Room
  <2> QED
    BY ONLY <2>5, <2>12, <2>13, WrittenIs
<1> QED
  BY <1>10, <1>11, <1>12

(* A name is searched in a directory (fat_access.c:316-420).               *)
LEMMA FoundIs ==
  ASSUME NEW d, DiskOk(d), NEW c, HasChain(d.fat, c), NEW s, s = Contents(d, c), DirOk(s),
         NEW n \in Name, NEW g, g = fatfs_get_file_entry(d, c, n)
  PROVE  /\ After(d, c, g.d)
         /\ g.at = 0 => \A q \in LiveAt(s) : Folded[NameAt(s, q)] # Folded[n]
         /\ g.at # 0 => g.at \in LiveAt(s)
         /\ \A q \in LiveAt(s) : Folded[NameAt(s, q)] = Folded[n] => g.at = q /\ g.at # 0
<1> DEFINE S == {p \in DOMAIN s : Live(s[p]) /\ Same(NameAt(s, p), n)}
<1>1. Entries(d, c) = s
  BY EntriesAre
<1>2. g = SearchEnd(d, c, Least(S))
  BY <1>1 DEF fatfs_get_file_entry, Search, SearchIn
<1>3. \A q : q \in S <=> q \in LiveAt(s) /\ Folded[NameAt(s, q)] = Folded[n]
  <2>1. \A q \in LiveAt(s) : NameAt(s, q) # Garbled
    BY DirFacts, DirAssumption
  <2> QED
    BY <2>1 DEF LiveAt, Same
<1>4. S \in SUBSET DOMAIN Contents(d, c)
  OBVIOUS
<1> HIDE DEF S
<1>5. /\ After(d, c, g.d) /\ (g.at = 0 <=> S = {})
      /\ S # {} => g.at \in S
  BY <1>2, <1>4, AfterSearch
<1>6. \A x, y \in S : x = y
  BY <1>3, DirFacts
<1> QED
  BY <1>3, <1>5, <1>6

(* A short name for a new file: one that no entry has                      *)
(* (fatfs.c:680-693, 718-738).                                             *)
LEMMA TailsLeft ==
  ASSUME NEW d, DiskOk(d), NEW c, HasChain(d.fat, c), NEW s, s = Contents(d, c), DirOk(s), NEW n \in Name
  PROVE  TailFree(d, c, n) # {}
<1> DEFINE N == {Folded[m] : m \in Name}
           T == 0 .. MaxTail
<1>1. Entries(d, c) = s
  BY EntriesAre
<1>2. SUFFICES ASSUME TailFree(d, c, n) = {} PROVE FALSE
  OBVIOUS
<1>3. \A t \in T : \E p \in LiveAt(s) : s[p].sfn = Candidate(n, t)
  <2>1. TailFree(d, c, n) = {t \in T : \A i \in DOMAIN s : Live(s[i]) => s[i].sfn # Candidate(n, t)}
    BY <1>1 DEF TailFree
  <2> QED
    BY <1>2, <2>1 DEF LiveAt
<1> DEFINE at(t) == CHOOSE p \in LiveAt(s) : s[p].sfn = Candidate(n, t)
           g == [t \in T |-> Folded[NameAt(s, at(t))]]
<1>4. \A t \in T : at(t) \in LiveAt(s) /\ s[at(t)].sfn = Candidate(n, t)
  BY <1>3
<1> HIDE DEF at
<1>5. \A t, u \in T : Candidate(n, t) = Candidate(n, u) => t = u
  BY DEF Candidate
<1>6. \A t, u \in T : at(t) = at(u) => t = u
  BY <1>4, <1>5
<1>7. g \in Injection(T, N)
  <2>1. ASSUME NEW t \in T PROVE g[t] \in N
    BY <1>4, DirFacts
  <2>2. ASSUME NEW t \in T, NEW u \in T, g[t] = g[u] PROVE t = u
    BY <1>4, <1>6, <2>2, DirFacts
  <2>3. g = [t \in T |-> g[t]]
    OBVIOUS
  <2> HIDE DEF g, T, N
  <2>4. g \in [T -> N]
    BY <2>1, <2>3
  <2> QED
    BY <2>2, <2>4 DEF Injection, IsInjective
<1>8. IsFiniteSet(N) /\ Cardinality(N) <= MaxTail /\ MaxTail \in Nat
  BY TailAssumption, DirAssumption
<1>9. Cardinality(T) = MaxTail + 1
  BY <1>8, FS_Interval
<1>10. Cardinality(T) <= Cardinality(N) /\ Cardinality(N) \in Nat
  <2> HIDE DEF T, N, g
  <2> QED
    BY <1>7, <1>8, FS_Injection, FS_CardinalityType
<1> HIDE DEF T, N
<1> QED
  BY <1>8, <1>9, <1>10

(* The short name that is chosen is not in the directory                   *)
(* (fatfs.c:714-738).                                                      *)
LEMMA ShortIs ==
  ASSUME NEW d, DiskOk(d), NEW c, HasChain(d.fat, c), NEW s, s = Contents(d, c), DirOk(s),
         NEW n \in Name, NEW r, r = ShortName(d, c, n)
  PROVE  /\ After(d, c, r.d)
         /\ r.sfn # None => r.sfn \in Sfn /\ \A q \in LiveAt(s) : s[q].sfn # r.sfn
<1> DEFINE F == TailFree(d, c, n)
<1>1. Entries(d, c) = s
  BY EntriesAre
<1>2. F = {t \in 0 .. MaxTail : \A i \in DOMAIN s : Live(s[i]) => s[i].sfn # Candidate(n, t)}
  BY <1>1 DEF TailFree
<1>3. F # {}
  BY TailsLeft
<1>4. r = [d |-> LoadedAll(d, c),
           sfn |-> IF Min(F) = MaxTail /\ MaxTail > 0 THEN None ELSE Candidate(n, Min(F))]
  BY <1>3 DEF ShortName, Tailed
<1> HIDE DEF F
<1>5. Min(F) \in F
  <2>1. F \in SUBSET Nat /\ F \in SUBSET Int
    BY <1>2
  <2>2. PICK x \in F : \A y \in F : x <= y
    BY <1>3, <2>1, LeastElement
  <2> QED
    BY <2>1, <2>2, MinIs
<1>6. Min(F) \in Nat /\ \A q \in LiveAt(s) : s[q].sfn # Candidate(n, Min(F))
  BY <1>2, <1>5 DEF LiveAt
<1>7. Candidate(n, Min(F)) \in Sfn
  BY <1>6 DEF Candidate, Sfn
<1>8. After(d, c, LoadedAll(d, c))
  BY AfterAll
<1> QED
  BY <1>4, <1>6, <1>7, <1>8

(* A tree: the entries of every directory, the root and the directories in *)
(* it.  Every file and directory has one entry.                            *)
SubDirs(s) == {s[p].first : p \in {q \in LiveAt(s) : s[q].t = "dir"}}
(* The first clusters of the tree.                                         *)
Heads(T) == {RootDir} \cup UNION {{T[c][p].first : p \in LiveAt(T[c])} : c \in DOMAIN T}
OnePlace(T) ==
  \A b, c \in DOMAIN T : \A p \in LiveAt(T[b]), q \in LiveAt(T[c]) :
    T[b][p].first = T[c][q].first => b = c /\ p = q
TreeOk(T) ==
  /\ DOMAIN T = {RootDir} \cup SubDirs(T[RootDir])
  /\ \A c \in DOMAIN T : DirOk(T[c])
  /\ \A c \in DOMAIN T : c # RootDir => \A p \in LiveAt(T[c]) : T[c][p].t = "file"
  /\ OnePlace(T)

(* A disk has that tree; X is not yet or no more in it, and L is lost.     *)
Good(d, T, L, X) ==
  /\ TreeOk(T) /\ DiskOk(d)
  /\ \A c \in DOMAIN T : T[c] = Contents(d, c)
  /\ \A c \in DOMAIN T : \A p \in LiveAt(T[c]) :
       T[c][p].t = "file" => d.fat[T[c][p].first] = LAST_CLUSTER
  /\ TableOk(d.fat, Heads(T) \cup X, L)

(* The table on the disk may be behind: a directory may have more clusters *)
(* in the buffer, but no entry is in them.                                 *)
BehindAt(h, f, c, s) ==
  /\ HasChain(h, c) /\ Starts(Chain(h, c), Chain(f, c))
  /\ \A p \in LiveAt(s) : SectorIndex(p) <= Len(Chain(h, c))
Behind(h, f, T) ==
  /\ h \in Fats /\ \A c \in DOMAIN T : BehindAt(h, f, c, T[c])
  /\ \A c \in DOMAIN T : \A p \in LiveAt(T[c]) :
       T[c][p].t = "file" => h[T[c][p].first] = LAST_CLUSTER

LEMMA HeadsAre ==
  ASSUME NEW T
  PROVE  \A x : x \in Heads(T) <=> x = RootDir \/ \E c \in DOMAIN T : \E p \in LiveAt(T[c]) : T[c][p].first = x
  BY DEF Heads

LEMMA TreeFacts ==
  ASSUME NEW T, TreeOk(T)
  PROVE  /\ RootDir \in DOMAIN T /\ DOMAIN T \subseteq Cluster /\ DOMAIN T \subseteq Heads(T)
         /\ \A c \in DOMAIN T : DirOk(T[c])
         /\ \A c \in DOMAIN T : c # RootDir =>
              \E p \in LiveAt(T[RootDir]) : T[RootDir][p].t = "dir" /\ T[RootDir][p].first = c
         /\ \A c \in DOMAIN T : \A p \in LiveAt(T[c]) :
              /\ T[c][p].t \in Kind /\ T[c][p].first \in Cluster /\ T[c][p].first # RootDir
              /\ T[c][p].first \in Heads(T) /\ T[c][p].first # c
              /\ T[c][p].t = "file" => T[c][p].first \notin DOMAIN T
              /\ T[c][p].t = "dir" => c = RootDir /\ T[c][p].first \in DOMAIN T
<1>1. /\ RootDir \in DOMAIN T
      /\ \A c \in DOMAIN T : c # RootDir =>
              \E p \in LiveAt(T[RootDir]) : T[RootDir][p].t = "dir" /\ T[RootDir][p].first = c
      /\ \A p \in LiveAt(T[RootDir]) : T[RootDir][p].t = "dir" => T[RootDir][p].first \in DOMAIN T
      /\ \A c \in DOMAIN T : DirOk(T[c])
      /\ \A c \in DOMAIN T : c # RootDir => \A p \in LiveAt(T[c]) : T[c][p].t = "file"
  BY DEF TreeOk, SubDirs
<1>2. \A c \in DOMAIN T : \A p \in LiveAt(T[c]) :
         T[c][p].t \in Kind /\ T[c][p].first \in Cluster /\ T[c][p].first # RootDir
  BY <1>1, DirFacts
<1>3. \A c \in DOMAIN T : \A p \in LiveAt(T[c]) : T[c][p].first \in Heads(T)
  BY HeadsAre
<1>4. DOMAIN T \subseteq Cluster /\ DOMAIN T \subseteq Heads(T)
  BY <1>1, <1>2, <1>3, HeadsAre, ClusterFacts
<1>5. ASSUME NEW c \in DOMAIN T, NEW p \in LiveAt(T[c]), T[c][p].t = "file" \/ T[c][p].first = c,
             T[c][p].first \in DOMAIN T
      PROVE  FALSE
  <2>1. T[c][p].first # RootDir
    BY <1>2
  <2>2. PICK q \in LiveAt(T[RootDir]) : T[RootDir][q].t = "dir" /\ T[RootDir][q].first = T[c][p].first
    BY <1>1, <1>5, <2>1
  <2>3. c = RootDir /\ p = q
    BY <1>1, <2>2 DEF TreeOk, OnePlace
  <2> QED
    BY <1>5, <2>1, <2>2, <2>3
<1>6. \A k \in Kind : k = "file" \/ k = "dir"
  BY DEF Kind
<1> QED
  BY <1>1, <1>2, <1>3, <1>4, <1>5, <1>6

LEMMA GoodFacts ==
  ASSUME NEW d, NEW T, NEW L, NEW X, Good(d, T, L, X)
  PROVE  /\ TreeOk(T) /\ DiskOk(d) /\ d.fat \in Fats /\ d.slots \in [Cluster -> Block]
         /\ TableOk(d.fat, Heads(T) \cup X, L) /\ L \subseteq Cluster
         /\ \A c \in DOMAIN T : /\ T[c] = Contents(d, c) /\ HasChain(d.fat, c) /\ c \in Heads(T) /\ c \in Cluster
                                /\ Entries(d, c) = T[c] /\ DirOk(T[c])
         /\ \A x \in Heads(T) : HasChain(d.fat, x) /\ x \in Cluster /\ d.fat[x] # 0
<1>1. TreeOk(T) /\ DiskOk(d) /\ TableOk(d.fat, Heads(T) \cup X, L)
      /\ \A c \in DOMAIN T : T[c] = Contents(d, c)
  BY DEF Good
<1>2. d.fat \in Fats /\ d.slots \in [Cluster -> Block] /\ L \subseteq Cluster
  BY <1>1, TableFacts DEF DiskOk, Disks
<1>3. \A x \in Heads(T) : HasChain(d.fat, x) /\ x \in Cluster /\ d.fat[x] # 0
  <2>1. ASSUME NEW x \in Heads(T) PROVE HasChain(d.fat, x) /\ x \in Cluster /\ x \in Own(d.fat, x)
                                        /\ \A y \in Own(d.fat, x) : d.fat[y] # 0
    BY <1>1, TableFacts
  <2> QED
    BY <2>1
<1>4. ASSUME NEW c \in DOMAIN T
      PROVE  HasChain(d.fat, c) /\ c \in Heads(T) /\ c \in Cluster /\ DirOk(T[c]) /\ Entries(d, c) = T[c]
  <2>1. HasChain(d.fat, c) /\ c \in Heads(T) /\ c \in Cluster /\ DirOk(T[c])
    BY <1>1, <1>3, TreeFacts
  <2> QED
    BY <1>1, <2>1, EntriesAre
<1> QED
  BY <1>1, <1>2, <1>3, <1>4

(* After a purge the table on the disk is not behind.                      *)
LEMMA BehindSelf ==
  ASSUME NEW d, NEW T, NEW L, NEW X, Good(d, T, L, X)
  PROVE  Behind(d.fat, d.fat, T)
<1>1. d.fat \in Fats /\ DiskOk(d)
      /\ \A c \in DOMAIN T : T[c] = Contents(d, c) /\ HasChain(d.fat, c)
  BY GoodFacts
<1>2. ASSUME NEW c \in DOMAIN T PROVE BehindAt(d.fat, d.fat, c, T[c])
  <2>1. /\ Len(Chain(d.fat, c)) \in Nat \ {0}
        /\ \A p \in DOMAIN T[c] : SectorIndex(p) \in 1 .. Len(Chain(d.fat, c))
    BY <1>1, ContentsFacts
  <2> QED
    BY <1>1, <2>1 DEF BehindAt, Starts, LiveAt
<1>3. \A c \in DOMAIN T : \A p \in LiveAt(T[c]) :
        T[c][p].t = "file" => d.fat[T[c][p].first] = LAST_CLUSTER
  BY DEF Good
<1> QED
  BY <1>1, <1>2, <1>3 DEF Behind

LEMMA StartsOn ==
  ASSUME NEW r, Len(r) \in Nat, NEW s, Len(s) \in Nat, NEW t, Len(t) \in Nat, Starts(r, s), Starts(s, t)
  PROVE  Starts(r, t)
  BY DEF Starts

(* The entries of a directory change, but not what they lead to.           *)
Alike(s, r) ==
  /\ DirOk(r) /\ LiveAt(r) = LiveAt(s)
  /\ \A q \in LiveAt(s) : r[q].t = s[q].t /\ r[q].first = s[q].first
With(T, c, s) == [x \in DOMAIN T |-> IF x = c THEN s ELSE T[x]]

LEMMA SameTree ==
  ASSUME NEW d, NEW T, NEW L, NEW X, Good(d, T, L, X), NEW c \in DOMAIN T,
         NEW e, Leads(d, c, e, Heads(T) \cup X, L), NEW s, s = Contents(e, c), Alike(T[c], s),
         NEW T2, T2 = With(T, c, s)
  PROVE  /\ Good(e, T2, L, X) /\ Heads(T2) = Heads(T) /\ DOMAIN T2 = DOMAIN T
         /\ \A h : Behind(h, d.fat, T) => Behind(h, e.fat, T2)
<1>1. /\ TreeOk(T) /\ DiskOk(d) /\ d.fat \in Fats
      /\ TableOk(d.fat, Heads(T) \cup X, L)
      /\ \A b \in DOMAIN T : T[b] = Contents(d, b) /\ HasChain(d.fat, b) /\ b \in Heads(T)
  BY GoodFacts
<1>2. /\ DiskOk(e) /\ TableOk(e.fat, Heads(T) \cup X, L) /\ Starts(Chain(d.fat, c), Chain(e.fat, c))
      /\ \A k \in Heads(T) : k # c => /\ Chain(e.fat, k) = Chain(d.fat, k) /\ e.fat[k] = d.fat[k]
                                      /\ Contents(e, k) = Contents(d, k)
  BY DEF Leads
<1>3. DOMAIN T2 = DOMAIN T /\ T2[c] = s /\ \A b \in DOMAIN T : b # c => T2[b] = T[b]
  BY DEF With
<1>4. DirOk(s) /\ LiveAt(s) = LiveAt(T[c])
      /\ \A q \in LiveAt(T[c]) : s[q].t = T[c][q].t /\ s[q].first = T[c][q].first
  BY DEF Alike
<1>5. /\ \A b \in DOMAIN T : LiveAt(T2[b]) = LiveAt(T[b])
      /\ \A b \in DOMAIN T : \A q \in LiveAt(T[b]) : T2[b][q].t = T[b][q].t /\ T2[b][q].first = T[b][q].first
  BY <1>3, <1>4
<1>6. Heads(T2) = Heads(T)
  <2>1. \A x : x \in Heads(T2) <=> x \in Heads(T)
    BY <1>3, <1>5, HeadsAre
  <2> QED
    BY <2>1
<1>7. TreeOk(T2)
  <2>1. SubDirs(T2[RootDir]) = SubDirs(T[RootDir])
    BY <1>1, <1>5, TreeFacts DEF SubDirs
  <2>2. DOMAIN T2 = {RootDir} \cup SubDirs(T2[RootDir])
    BY <1>1, <1>3, <2>1 DEF TreeOk
  <2>3. \A b \in DOMAIN T2 : DirOk(T2[b])
    BY <1>1, <1>3, <1>4, TreeFacts
  <2>4. \A b \in DOMAIN T2 : b # RootDir => \A p \in LiveAt(T2[b]) : T2[b][p].t = "file"
    BY <1>1, <1>3, <1>5 DEF TreeOk
  <2>5. OnePlace(T2)
    BY <1>1, <1>3, <1>5 DEF TreeOk, OnePlace
  <2> QED
    BY <2>2, <2>3, <2>4, <2>5 DEF TreeOk
<1>8. ASSUME NEW b \in DOMAIN T, NEW p \in LiveAt(T[b])
      PROVE  /\ T[b][p].first \in Heads(T) /\ (T[b][p].t = "file" => T[b][p].first # c)
             /\ (T[b][p].t = "file" => e.fat[T[b][p].first] = d.fat[T[b][p].first])
  BY <1>1, <1>2, TreeFacts
<1>9. Good(e, T2, L, X)
  <2>1. \A b \in DOMAIN T2 : T2[b] = Contents(e, b)
    BY <1>1, <1>2, <1>3
  <2>2. \A b \in DOMAIN T2 : \A p \in LiveAt(T2[b]) :
          T2[b][p].t = "file" => e.fat[T2[b][p].first] = LAST_CLUSTER
    <3>1. \A b \in DOMAIN T : \A p \in LiveAt(T[b]) :
            T[b][p].t = "file" => d.fat[T[b][p].first] = LAST_CLUSTER
      BY DEF Good
    <3> QED
      BY <1>3, <1>5, <1>8, <3>1
  <2> QED
    BY <1>2, <1>6, <1>7, <2>1, <2>2 DEF Good
<1>10. ASSUME NEW h, Behind(h, d.fat, T) PROVE Behind(h, e.fat, T2)
  <2>1. /\ h \in Fats /\ \A b \in DOMAIN T : BehindAt(h, d.fat, b, T[b])
        /\ \A b \in DOMAIN T : \A p \in LiveAt(T[b]) :
             T[b][p].t = "file" => h[T[b][p].first] = LAST_CLUSTER
    BY <1>10 DEF Behind
  <2>2. ASSUME NEW b \in DOMAIN T PROVE BehindAt(h, e.fat, b, T2[b])
    <3>1. /\ HasChain(h, b) /\ Starts(Chain(h, b), Chain(d.fat, b))
          /\ \A p \in LiveAt(T2[b]) : SectorIndex(p) <= Len(Chain(h, b))
      BY <1>5, <2>1 DEF BehindAt
    <3>2. Starts(Chain(h, b), Chain(e.fat, b))
      <4>1. CASE b # c
        BY <1>1, <1>2, <3>1, <4>1
      <4>2. CASE b = c
        <5>1. HasChain(e.fat, c) /\ HasChain(d.fat, c) /\ HasChain(h, c)
          BY <1>1, <1>2, <3>1, <4>2 DEF TableOk
        <5>2. Len(Chain(e.fat, c)) \in Nat /\ Len(Chain(d.fat, c)) \in Nat /\ Len(Chain(h, c)) \in Nat
          BY <5>1 DEF HasChain, IsChain
        <5> QED
          BY <1>2, <3>1, <4>2, <5>2, StartsOn
      <4> QED
        BY <4>1, <4>2
    <3> QED
      BY <3>1, <3>2 DEF BehindAt
  <2>3. \A b \in DOMAIN T2 : \A p \in LiveAt(T2[b]) :
          T2[b][p].t = "file" => h[T2[b][p].first] = LAST_CLUSTER
    BY <1>3, <1>5, <2>1
  <2> QED
    BY <1>3, <2>1, <2>2, <2>3 DEF Behind
<1> QED
  BY <1>3, <1>6, <1>9, <1>10

(* The table changes, but no chain that an entry leads to.                 *)
LEMMA SameChains ==
  ASSUME NEW d, NEW T, NEW L, NEW X, Good(d, T, L, X), NEW e, DiskOk(e),
         NEW K, NEW Y, TableOk(e.fat, Heads(T) \cup Y, K),
         \A k \in Heads(T) : Chain(e.fat, k) = Chain(d.fat, k) /\ e.fat[k] = d.fat[k],
         \A k \in DOMAIN T : \A x \in Own(d.fat, k) : e.slots[x] = d.slots[x]
  PROVE  /\ Good(e, T, K, Y)
         /\ \A h : Behind(h, d.fat, T) => Behind(h, e.fat, T)
<1>0. Good(d, T, L, X)
  OBVIOUS
<1>1. /\ TreeOk(T) /\ DiskOk(d) /\ d.fat \in Fats
      /\ \A b \in DOMAIN T : T[b] = Contents(d, b) /\ HasChain(d.fat, b) /\ b \in Heads(T)
  BY ONLY <1>0, GoodFacts
<1>2. \A b \in DOMAIN T : T[b] = Contents(e, b)
  BY <1>1, SameBlocks
<1>3. \A b \in DOMAIN T : \A p \in LiveAt(T[b]) : T[b][p].first \in Heads(T)
  BY <1>1, TreeFacts
<1>4. Good(e, T, K, Y)
  BY <1>1, <1>2, <1>3 DEF Good
<1>5. ASSUME NEW h, Behind(h, d.fat, T) PROVE Behind(h, e.fat, T)
  BY <1>1, <1>5 DEF Behind, BehindAt
<1> QED
  BY <1>4, <1>5

(* The first cluster of what is not yet in the tree (fatfs.c:639-642,      *)
(* 761-770).                                                               *)
Took(d, new, e) ==
  /\ new \in Cluster /\ d.fat[new] = 0 /\ e \in Disks /\ CurOk(e) /\ e.fat[new] = LAST_CLUSTER
  /\ \A x \in Cluster : x # new => e.fat[x] = d.fat[x]
  /\ \A x \in Cluster : x # new => e.slots[x] = d.slots[x]

(* A cluster that was taken belongs to nothing in the tree.                *)
LEMMA NewCluster ==
  ASSUME NEW d, NEW T, NEW L, Good(d, T, L, {}), NEW new, NEW e, Took(d, new, e)
  PROVE  /\ Good(e, T, L, {new}) /\ new \notin Heads(T) /\ new \notin L /\ e.fat[new] = LAST_CLUSTER
         /\ Chain(e.fat, new) = <<new>>
         /\ \A h : Behind(h, d.fat, T) => Behind(h, e.fat, T)
<1> USE DEF Took
<1>1. /\ TableOk(d.fat, Heads(T) \cup {}, L) /\ d.fat \in Fats /\ Heads(T) \cup {} = Heads(T)
      /\ \A c \in DOMAIN T : c \in Heads(T)
  BY GoodFacts
<1>2. e.fat \in Fats /\ e.fat[new] = LAST_CLUSTER /\ \A x \in Cluster : x # new => e.fat[x] = d.fat[x]
  BY <1>1 DEF Disks
<1>3. /\ TableOk(e.fat, Heads(T) \cup {new}, L) /\ new \notin Heads(T)
      /\ Chain(e.fat, new) = <<new>>
      /\ \A h \in Heads(T) : Chain(e.fat, h) = Chain(d.fat, h) /\ e.fat[h] = d.fat[h] /\ new \notin Own(e.fat, h)
  <2> DEFINE H == Heads(T)
             f == d.fat
             g == e.fat
  <2>1. /\ TableOk(f, H, L) /\ new \in Cluster /\ f[new] = 0 /\ g \in Fats
        /\ g[new] = LAST_CLUSTER /\ \A x \in Cluster : x # new => g[x] = f[x]
    BY <1>1, <1>2
  <2> HIDE DEF H, f, g
  <2>2. /\ TableOk(g, H \cup {new}, L) /\ new \notin H /\ Chain(g, new) = <<new>>
        /\ \A h \in H : Chain(g, h) = Chain(f, h) /\ g[h] = f[h] /\ new \notin Own(g, h)
    BY ONLY <2>1, TakeCluster
  <2> QED
    BY <2>2 DEF H, f, g
<1>4. ASSUME NEW k \in DOMAIN T, NEW x \in Own(d.fat, k) PROVE e.slots[x] = d.slots[x]
  <2>1. x # new /\ x \in Cluster
    BY <1>1, <1>3, TableFacts DEF Own
  <2> QED
    BY <2>1
<1>5. new \notin L
  BY <1>1 DEF TableOk
<1>6. DiskOk(e)
  BY DEF DiskOk
<1> QED
  BY <1>2, <1>3, <1>4, <1>5, <1>6, SameChains

LEMMA TookBehind ==
  ASSUME NEW d, NEW T, NEW L, Good(d, T, L, {}), NEW new, NEW e, Took(d, new, e), NEW h, Behind(h, d.fat, T)
  PROVE  Behind(h, e.fat, T)
  BY NewCluster

(* It is given back (fatfs.c:675-678, 796-799) or lost.                    *)
LEMMA GivenBack ==
  ASSUME NEW d, NEW T, NEW L, NEW new, Good(d, T, L, {new}), new \notin Heads(T),
         NEW e, e = Freed(d, new)
  PROVE  Good(e, T, L, {}) /\ \A h : Behind(h, d.fat, T) => Behind(h, e.fat, T)
<1> DEFINE H == Heads(T) \cup {new}
<1>1. /\ TableOk(d.fat, H, L) /\ d.fat \in Fats /\ DiskOk(d)
  BY GoodFacts
<1>2. new \in Cluster /\ new # 0 /\ H \ {new} = Heads(T) \cup {}
  BY <1>1, ClusterFacts DEF TableOk
<1>3. /\ e \in Disks /\ e.fat = ClearedIn(d.fat, Chain(d.fat, new)) /\ e.slots = d.slots /\ e.cur = d.cur
  <2> DEFINE f == ClearedIn(d.fat, Chain(d.fat, new))
  <2>1. f \in Fats
    BY <1>1 DEF ClearedIn, Fats
  <2>2. e = [d EXCEPT !.fat = f]
    BY <1>2 DEF Freed
  <2> HIDE DEF f
  <2>3. d \in Disks
    BY <1>1 DEF DiskOk
  <2> QED
    BY <2>1, <2>2, <2>3 DEF Disks, f
<1>4. e.fat \in Fats /\ \A x \in Cluster : e.fat[x] = IF x \in Own(d.fat, new) THEN 0 ELSE d.fat[x]
  BY <1>3 DEF ClearedIn, Own, Disks
<1>5. /\ TableOk(e.fat, H \ {new}, L)
      /\ \A k \in H \ {new} : Chain(e.fat, k) = Chain(d.fat, k) /\ e.fat[k] = d.fat[k]
  <2>1. new \in H
    OBVIOUS
  <2> HIDE DEF H
  <2> QED
    BY <1>1, <1>4, <2>1, FreeChain
<1>6. DiskOk(e)
  BY <1>1, <1>3 DEF DiskOk, CurOk
<1>7. /\ TableOk(e.fat, Heads(T) \cup {}, L)
      /\ \A k \in Heads(T) : Chain(e.fat, k) = Chain(d.fat, k) /\ e.fat[k] = d.fat[k]
  BY <1>2, <1>5
<1> QED
  BY <1>3, <1>6, <1>7, SameChains

LEMMA IsLost ==
  ASSUME NEW d, NEW T, NEW L, NEW new, Good(d, T, L, {new}), new \notin Heads(T),
         Chain(d.fat, new) = <<new>>
  PROVE  Good(d, T, L \cup {new}, {})
<1> DEFINE H == Heads(T) \cup {new}
<1>1. /\ TableOk(d.fat, H, L) /\ DiskOk(d)
  BY GoodFacts
<1>2. H \ {new} = Heads(T) \cup {} /\ Own(d.fat, new) = {new}
  BY DEF Own, Range
<1>3. TableOk(d.fat, H \ {new}, L \cup Own(d.fat, new))
  <2>1. new \in H
    OBVIOUS
  <2> HIDE DEF H
  <2> QED
    BY <1>1, <2>1, LoseChain
<1>4. TableOk(d.fat, Heads(T) \cup {}, L \cup {new})
  BY <1>2, <1>3
<1> QED
  BY <1>1, <1>4, SameChains

(* A file gets its entry (fatfs.c:663-672).                                *)
LEMMA FileAdded ==
  ASSUME NEW d, NEW T, NEW L, NEW new, Good(d, T, L, {new}), new \notin Heads(T), d.fat[new] = LAST_CLUSTER,
         NEW c \in DOMAIN T, NEW e, Leads(d, c, e, Heads(T) \cup {new}, L),
         NEW s, s = Contents(e, c), NEW b, NEW n, NEW sfn, NEW z,
         NewIn(T[c], s, b, n, SfnEntry("file", sfn, new, z)),
         NEW T2, T2 = With(T, c, s)
  PROVE  Good(e, T2, L, {}) /\ Heads(T2) = Heads(T) \cup {new}
<1>1. /\ TreeOk(T) /\ DiskOk(d) /\ d.fat \in Fats
      /\ TableOk(d.fat, Heads(T) \cup {new}, L)
      /\ \A x \in DOMAIN T : T[x] = Contents(d, x) /\ HasChain(d.fat, x) /\ x \in Heads(T)
  BY GoodFacts
<1>2. /\ DiskOk(e) /\ TableOk(e.fat, Heads(T) \cup {new}, L)
      /\ \A k \in Heads(T) \cup {new} : k # c => /\ Chain(e.fat, k) = Chain(d.fat, k) /\ e.fat[k] = d.fat[k]
                                                 /\ Contents(e, k) = Contents(d, k)
  BY DEF Leads
<1>3. DOMAIN T2 = DOMAIN T /\ T2[c] = s /\ \A x \in DOMAIN T : x # c => T2[x] = T[x]
  BY DEF With
<1>4. /\ DirOk(s) /\ b \notin LiveAt(T[c]) /\ LiveAt(s) = LiveAt(T[c]) \cup {b}
      /\ s[b].t = "file" /\ s[b].first = new /\ \A q \in LiveAt(T[c]) : s[q] = T[c][q]
  BY DEF NewIn, SfnEntry
<1>5. \A x \in DOMAIN T : \A p \in LiveAt(T2[x]) :
        \/ x = c /\ p = b /\ T2[x][p].t = "file" /\ T2[x][p].first = new
        \/ p \in LiveAt(T[x]) /\ T2[x][p] = T[x][p] /\ T[x][p].first \in Heads(T) /\ T[x][p].first # new
  BY <1>1, <1>3, <1>4, TreeFacts
<1>6. \A x \in DOMAIN T : \A p \in LiveAt(T[x]) : p \in LiveAt(T2[x]) /\ T2[x][p] = T[x][p]
  BY <1>3, <1>4
<1>7. Heads(T2) = Heads(T) \cup {new}
  <2>1. ASSUME NEW x \in Heads(T2) PROVE x \in Heads(T) \cup {new}
    BY <1>3, <1>5, HeadsAre
  <2>2. ASSUME NEW x \in Heads(T) PROVE x \in Heads(T2)
    BY <1>3, <1>6, HeadsAre
  <2>3. new \in Heads(T2)
    BY <1>3, <1>4, HeadsAre
  <2> QED
    BY <2>1, <2>2, <2>3
<1>8. TreeOk(T2)
  <2>1. RootDir \in DOMAIN T /\ \A k \in {"file", "dir"} : k = "file" <=> k # "dir"
    BY <1>1, TreeFacts
  <2>2. SubDirs(T2[RootDir]) = SubDirs(T[RootDir])
    BY <1>5, <1>6, <2>1 DEF SubDirs
  <2>3. DOMAIN T2 = {RootDir} \cup SubDirs(T2[RootDir])
    BY <1>1, <1>3, <2>2 DEF TreeOk
  <2>4. \A x \in DOMAIN T2 : DirOk(T2[x])
    BY <1>1, <1>3, <1>4, TreeFacts
  <2>5. \A x \in DOMAIN T2 : x # RootDir => \A p \in LiveAt(T2[x]) : T2[x][p].t = "file"
    BY <1>1, <1>3, <1>5 DEF TreeOk
  <2>6. OnePlace(T2)
    <3>1. OnePlace(T)
      BY <1>1 DEF TreeOk
    <3> QED
      BY <1>3, <1>5, <3>1 DEF OnePlace
  <2> QED
    BY <2>3, <2>4, <2>5, <2>6 DEF TreeOk
<1>9. \A x \in DOMAIN T2 : T2[x] = Contents(e, x)
  BY <1>1, <1>2, <1>3
<1>10. \A x \in DOMAIN T2 : \A p \in LiveAt(T2[x]) :
         T2[x][p].t = "file" => e.fat[T2[x][p].first] = LAST_CLUSTER
  <2>1. \A x \in DOMAIN T : \A p \in LiveAt(T[x]) :
          T[x][p].t = "file" => d.fat[T[x][p].first] = LAST_CLUSTER /\ T[x][p].first # c
    BY <1>1, TreeFacts DEF Good
  <2>2. new # c
    BY <1>1
  <2> QED
    BY <1>2, <1>3, <1>5, <2>1, <2>2
<1>11. Heads(T2) \cup {} = Heads(T) \cup {new}
  BY <1>7
<1> QED
  BY <1>2, <1>7, <1>8, <1>9, <1>10, <1>11 DEF Good

LEMMA GoodWhole ==
  ASSUME NEW d, NEW T, NEW L, Good(d, T, L, {})
  PROVE  /\ TreeOk(T) /\ DiskOk(d) /\ d.fat \in Fats /\ TableOk(d.fat, Heads(T), L)
         /\ \A c \in DOMAIN T : T[c] = Contents(d, c)
         /\ \A c \in DOMAIN T : \A p \in LiveAt(T[c]) :
              T[c][p].t = "file" => d.fat[T[c][p].first] = LAST_CLUSTER
<1> DEFINE X == {}
<1>1. Good(d, T, L, X) /\ \A x : x \notin X
  OBVIOUS
<1> HIDE DEF X
<1>2. Heads(T) \cup X = Heads(T)
  BY <1>1
<1>3. /\ TableOk(d.fat, Heads(T) \cup X, L) /\ TreeOk(T) /\ DiskOk(d)
      /\ \A c \in DOMAIN T : T[c] = Contents(d, c)
      /\ \A c \in DOMAIN T : \A p \in LiveAt(T[c]) :
              T[c][p].t = "file" => d.fat[T[c][p].first] = LAST_CLUSTER
  BY <1>1 DEF Good
<1>4. TableOk(d.fat, Heads(T), L)
  BY <1>2, <1>3
<1> QED
  BY <1>3, <1>4 DEF TableOk

(* What makes a tree one that the disk has.                                *)
LEMMA MadeGood ==
  ASSUME NEW d, NEW T, NEW L, TreeOk(T), DiskOk(d), TableOk(d.fat, Heads(T), L),
         \A c \in DOMAIN T : T[c] = Contents(d, c),
         \A c \in DOMAIN T : \A p \in LiveAt(T[c]) :
              T[c][p].t = "file" => d.fat[T[c][p].first] = LAST_CLUSTER
  PROVE  Good(d, T, L, {})
<1> DEFINE X == {}
<1>1. \A x : x \notin X
  OBVIOUS
<1> HIDE DEF X
<1>2. Heads(T) \cup X = Heads(T)
  BY <1>1
<1>3. Good(d, T, L, X)
  BY <1>2 DEF Good
<1> QED
  BY <1>3 DEF X

(* A new directory is blank and gets its entry in the root                 *)
(* (fatfs.c:770-805).                                                      *)
LEMMA BlankDir ==
  ASSUME NEW d, DiskOk(d), NEW c, HasChain(d.fat, c), Chain(d.fat, c) = <<c>>, d.slots[c] = BlankSector
  PROVE  DirOk(Contents(d, c)) /\ LiveAt(Contents(d, c)) = {}
<1> DEFINE s == Contents(d, c)
<1>1. s \in Seq(Cell) /\ \A p \in DOMAIN s : s[p] = BlankEntry
  <2>1. /\ s \in Seq(Cell)
        /\ \A p \in DOMAIN s : /\ s[p] = d.slots[Chain(d.fat, c)[SectorIndex(p)]][Offset(p)]
                               /\ SectorIndex(p) \in 1 .. Len(Chain(d.fat, c)) /\ Offset(p) \in 1 .. Slots
    BY ContentsFacts
  <2> HIDE DEF s
  <2>2. \A i \in 1 .. Len(<<c>>) : <<c>>[i] = c
    OBVIOUS
  <2> QED
    BY <2>1, <2>2, BlankFacts
<1> HIDE DEF s
<1>2. LiveAt(s) = {}
  BY <1>1, CellsAre DEF LiveAt
<1> QED
  BY <1>1, <1>2 DEF DirOk, s

WithDir(T, s, new, r) ==
  [x \in DOMAIN T \cup {new} |-> IF x = RootDir THEN s ELSE IF x = new THEN r ELSE T[x]]

LEMMA DirAdded ==
  ASSUME NEW d, NEW T, NEW L, NEW new, Good(d, T, L, {new}), new \notin Heads(T),
         Chain(d.fat, new) = <<new>>, d.slots[new] = BlankSector,
         NEW e, Leads(d, RootDir, e, Heads(T) \cup {new}, L),
         NEW s, s = Contents(e, RootDir), NEW b, NEW n, NEW sfn, NEW z,
         NewIn(T[RootDir], s, b, n, SfnEntry("dir", sfn, new, z)),
         NEW r, r = Contents(e, new), NEW T2, T2 = WithDir(T, s, new, r)
  PROVE  Good(e, T2, L, {}) /\ Heads(T2) = Heads(T) \cup {new} /\ new \in Cluster /\ LiveAt(r) = {}
<1>1. /\ TreeOk(T) /\ DiskOk(d) /\ d.fat \in Fats
      /\ TableOk(d.fat, Heads(T) \cup {new}, L)
      /\ \A x \in DOMAIN T : T[x] = Contents(d, x) /\ HasChain(d.fat, x) /\ x \in Heads(T)
  BY GoodFacts
<1>2. /\ DiskOk(e) /\ TableOk(e.fat, Heads(T) \cup {new}, L)
      /\ \A k \in Heads(T) \cup {new} : k # RootDir =>
           /\ Chain(e.fat, k) = Chain(d.fat, k) /\ e.fat[k] = d.fat[k]
           /\ Contents(e, k) = Contents(d, k)
  BY DEF Leads
<1>3. RootDir \in DOMAIN T /\ RootDir \in Heads(T) /\ new # RootDir /\ new \notin DOMAIN T
      /\ HasChain(d.fat, new) /\ new \in Cluster
  <2>1. RootDir \in DOMAIN T /\ RootDir \in Heads(T)
    BY <1>1, TreeFacts
  <2>2. HasChain(d.fat, new) /\ new \in Cluster
    BY <1>1 DEF TableOk
  <2> QED
    BY <1>1, <2>1, <2>2
<1>4. /\ DOMAIN T2 = DOMAIN T \cup {new} /\ T2[RootDir] = s /\ T2[new] = r
      /\ \A x \in DOMAIN T : x # RootDir => T2[x] = T[x]
  BY <1>3 DEF WithDir
<1>5. DirOk(r) /\ LiveAt(r) = {}
  <2>1. r = Contents(d, new)
    BY <1>2, <1>3
  <2> QED
    BY <1>1, <1>3, <2>1, BlankDir
<1>6. /\ DirOk(s) /\ b \notin LiveAt(T[RootDir]) /\ LiveAt(s) = LiveAt(T[RootDir]) \cup {b}
      /\ s[b].t = "dir" /\ s[b].first = new /\ \A q \in LiveAt(T[RootDir]) : s[q] = T[RootDir][q]
  BY DEF NewIn, SfnEntry
<1>7. \A x \in DOMAIN T2 : \A p \in LiveAt(T2[x]) :
        \/ x = RootDir /\ p = b /\ T2[x][p].t = "dir" /\ T2[x][p].first = new
        \/ x \in DOMAIN T /\ p \in LiveAt(T[x]) /\ T2[x][p] = T[x][p] /\ T[x][p].first \in Heads(T) /\ T[x][p].first # new
  BY <1>1, <1>4, <1>5, <1>6, TreeFacts
<1>8. \A x \in DOMAIN T : \A p \in LiveAt(T[x]) : p \in LiveAt(T2[x]) /\ T2[x][p] = T[x][p]
  BY <1>4, <1>6
<1>9. Heads(T2) = Heads(T) \cup {new}
  <2>1. ASSUME NEW x \in Heads(T2) PROVE x \in Heads(T) \cup {new}
    BY <1>7, HeadsAre
  <2>2. ASSUME NEW x \in Heads(T) PROVE x \in Heads(T2)
    BY <1>4, <1>8, HeadsAre
  <2>3. new \in Heads(T2)
    BY <1>3, <1>4, <1>6, HeadsAre
  <2> QED
    BY <2>1, <2>2, <2>3
<1>10. TreeOk(T2)
  <2>1. SubDirs(T2[RootDir]) = SubDirs(T[RootDir]) \cup {new}
    BY <1>3, <1>4, <1>6 DEF SubDirs
  <2>2. DOMAIN T2 = {RootDir} \cup SubDirs(T2[RootDir])
    <3>1. DOMAIN T = {RootDir} \cup SubDirs(T[RootDir])
      BY <1>1 DEF TreeOk
    <3> QED
      BY <1>4, <2>1, <3>1
  <2>3. \A x \in DOMAIN T2 : DirOk(T2[x])
    BY <1>1, <1>4, <1>5, <1>6, TreeFacts
  <2>4. \A x \in DOMAIN T2 : x # RootDir => \A p \in LiveAt(T2[x]) : T2[x][p].t = "file"
    BY <1>1, <1>4, <1>7 DEF TreeOk
  <2>5. OnePlace(T2)
    <3>1. OnePlace(T)
      BY <1>1 DEF TreeOk
    <3> QED
      BY <1>4, <1>7, <3>1 DEF OnePlace
  <2> QED
    BY <2>2, <2>3, <2>4, <2>5 DEF TreeOk
<1>11. \A x \in DOMAIN T2 : T2[x] = Contents(e, x)
  BY <1>1, <1>2, <1>3, <1>4
<1>12. \A x \in DOMAIN T2 : \A p \in LiveAt(T2[x]) :
         T2[x][p].t = "file" => e.fat[T2[x][p].first] = LAST_CLUSTER
  <2>1. \A x \in DOMAIN T : \A p \in LiveAt(T[x]) :
          T[x][p].t = "file" => d.fat[T[x][p].first] = LAST_CLUSTER
    BY DEF Good
  <2>2. \A x \in DOMAIN T : \A p \in LiveAt(T[x]) : T[x][p].first # RootDir
    BY <1>1, TreeFacts
  <2> QED
    BY <1>2, <1>4, <1>7, <2>1, <2>2
<1>13. Heads(T2) \cup {} = Heads(T) \cup {new}
  BY <1>9
<1> QED
  BY <1>2, <1>3, <1>5, <1>9, <1>10, <1>11, <1>12, <1>13 DEF Good

(* A file, or an empty directory, and its entry are removed                *)
(* (fatfs.c:550-582).                                                      *)
Without(T, c, s, x) == [y \in DOMAIN T \ {x} |-> IF y = c THEN s ELSE T[y]]

LEMMA MarkedChange ==
  ASSUME NEW d, DiskOk(d), NEW c, HasChain(d.fat, c), NEW s, s = Contents(d, c), DirOk(s),
         NEW p \in LiveAt(s), NEW sfn, s[p].sfn = sfn, NEW r, Marked(s, p, r),
         NEW e, e = fatfs_mark_file_deleted(d, c, sfn)
  PROVE  Changed(d, c, e, r)
<1>1. r = [Contents(d, c) EXCEPT ![p] = Deleted]
  BY DEF Marked
<1>2. /\ DirOk(Contents(d, c)) /\ p \in LiveAt(Contents(d, c)) /\ Contents(d, c)[p].sfn = sfn
  OBVIOUS
<1>3. Changed(d, c, e, [Contents(d, c) EXCEPT ![p] = Deleted])
  BY <1>2, MarkedIs
<1> QED
  BY <1>1, <1>3

Removes(d, T, c, p, x, e, s, T2) ==
  /\ c \in DOMAIN T /\ p \in LiveAt(T[c]) /\ x = T[c][p].first /\ (x \in DOMAIN T => LiveAt(T[x]) = {})
  /\ \E sfn : T[c][p].sfn = sfn /\ e = fatfs_mark_file_deleted(Freed(d, x), c, sfn)
  /\ Marked(T[c], p, s) /\ T2 = Without(T, c, s, x)

(* What an entry led to is freed and the entry deleted: the tree without   *)
(* it.                                                                     *)
LEMMA EntryRemoved ==
  ASSUME NEW d, NEW T, NEW L, Good(d, T, L, {}), NEW c, NEW p, NEW x, NEW e, NEW s, NEW T2,
         Removes(d, T, c, p, x, e, s, T2)
  PROVE  /\ Good(e, T2, L, {}) /\ c # x /\ DOMAIN T2 = DOMAIN T \ {x} /\ T2[c] = s
         /\ \A h : Behind(h, d.fat, T) => Behind(h, e.fat, T2)
<1> USE DEF Removes
<1>a. PICK sfn : T[c][p].sfn = sfn /\ e = fatfs_mark_file_deleted(Freed(d, x), c, sfn)
  OBVIOUS
<1>b. /\ c \in DOMAIN T /\ p \in LiveAt(T[c]) /\ x = T[c][p].first /\ (x \in DOMAIN T => LiveAt(T[x]) = {})
       /\ Marked(T[c], p, s) /\ T2 = Without(T, c, s, x)
  OBVIOUS
<1> USE <1>a, <1>b
<1> HIDE DEF Removes
<1>0. Good(d, T, L, {})
  OBVIOUS
<1>1. /\ TreeOk(T) /\ d.fat \in Fats /\ DiskOk(d) /\ TableOk(d.fat, Heads(T), L)
      /\ \A b \in DOMAIN T : T[b] = Contents(d, b) /\ HasChain(d.fat, b) /\ b \in Heads(T) /\ DirOk(T[b])
  <2>1. /\ TreeOk(T) /\ d.fat \in Fats /\ DiskOk(d) /\ TableOk(d.fat, Heads(T), L)
        /\ \A b \in DOMAIN T : T[b] = Contents(d, b)
    BY ONLY <1>0, GoodWhole
  <2>2. \A b \in DOMAIN T : HasChain(d.fat, b) /\ b \in Heads(T) /\ DirOk(T[b])
    BY ONLY <1>0, GoodFacts
  <2> QED
    BY <2>1, <2>2
<1>2. x \in Cluster /\ x # 0 /\ x \in Heads(T) /\ x # c /\ x # RootDir
  BY <1>1, TreeFacts, ClusterFacts
<1> DEFINE H == Heads(T)
           g == Freed(d, x)
<1>3. /\ g \in Disks /\ g.fat = ClearedIn(d.fat, Chain(d.fat, x)) /\ g.slots = d.slots /\ g.cur = d.cur
  <2> DEFINE f == ClearedIn(d.fat, Chain(d.fat, x))
  <2>1. f \in Fats
    BY <1>1 DEF ClearedIn, Fats
  <2>2. g = [d EXCEPT !.fat = f]
    BY <1>2 DEF Freed
  <2> HIDE DEF f, g
  <2>3. d \in Disks
    BY <1>1 DEF DiskOk
  <2> QED
    BY <2>1, <2>2, <2>3 DEF Disks, f
<1>21. \A y \in DOMAIN T : y \in H
  BY <1>1
<1>22. x \in H /\ TableOk(d.fat, H, L)
  BY <1>1, <1>2
<1>23. \A y \in DOMAIN T : \A q \in LiveAt(T[y]) : T[y][q].first \in H
  BY <1>1, TreeFacts
<1>24. \A y \in DOMAIN T : \A q \in LiveAt(T[y]) : T[y][q].first = x => y = c /\ q = p
  <2>1. OnePlace(T)
    BY <1>1 DEF TreeOk
  <2> HIDE DEF H, g
  <2> QED
    BY <2>1 DEF OnePlace
<1> HIDE DEF g, H
<1>4. g.fat \in Fats /\ \A y \in Cluster : g.fat[y] = IF y \in Own(d.fat, x) THEN 0 ELSE d.fat[y]
  BY <1>3 DEF ClearedIn, Own, Disks
<1>5. /\ TableOk(g.fat, H \ {x}, L)
      /\ \A k \in H \ {x} : Chain(g.fat, k) = Chain(d.fat, k) /\ g.fat[k] = d.fat[k]
  <2> DEFINE f == d.fat
             h == g.fat
  <2>1. f \in Fats /\ TableOk(f, H, L) /\ x \in H /\ h \in Fats
        /\ \A y \in Cluster : h[y] = IF y \in Own(f, x) THEN 0 ELSE f[y]
    BY <1>1, <1>4, <1>22
  <2> HIDE DEF f, h
  <2>2. /\ TableOk(h, H \ {x}, L)
        /\ \A k \in H \ {x} : Chain(h, k) = Chain(f, k) /\ h[k] = f[k]
    BY ONLY <2>1, FreeChain
  <2> QED
    BY <2>2 DEF f, h
<1>6. DiskOk(g)
  BY <1>1, <1>3 DEF DiskOk, CurOk
<1>7. \A k : k \in H /\ k # x => Contents(g, k) = Contents(d, k)
  BY <1>3, <1>5 DEF Contents
<1>8. HasChain(g.fat, c) /\ c \in H \ {x} /\ Contents(g, c) = T[c]
  <2>1. c \in H \ {x}
    BY <1>2, <1>21
  <2> QED
    BY <1>1, <1>5, <1>7, <2>1 DEF TableOk
<1>9. Changed(g, c, e, s)
  BY <1>1, <1>6, <1>8, MarkedChange DEF g
<1>10. /\ DiskOk(e) /\ TableOk(e.fat, H \ {x}, L) /\ e.fat = g.fat /\ Contents(e, c) = s
       /\ \A k \in H : k # x /\ k # c => Contents(e, k) = Contents(d, k)
  <2>1. Leads(g, c, e, H \ {x}, L) /\ Contents(e, c) = s
    BY <1>5, <1>8, <1>9, ChangedLeads
  <2> QED
    BY <1>7, <1>9, <2>1 DEF Leads, Changed
<1>11. /\ DOMAIN T2 = DOMAIN T \ {x} /\ T2[c] = s
       /\ \A y \in DOMAIN T \ {x} : y # c => T2[y] = T[y]
  BY <1>2 DEF Without
<1>12. /\ DirOk(s) /\ LiveAt(s) = LiveAt(T[c]) \ {p}
       /\ \A q \in LiveAt(s) : s[q] = T[c][q]
  <2>1. DirOk(T[c])
    BY <1>1
  <2> QED
    BY <2>1, MarkedDir
<1>13. \A y \in DOMAIN T2 : \A q \in LiveAt(T2[y]) :
         /\ y \in DOMAIN T /\ q \in LiveAt(T[y]) /\ T2[y][q] = T[y][q] /\ T[y][q].first # x
         /\ T[y][q].first \in H
  <2>2. ASSUME NEW y \in DOMAIN T2, NEW q \in LiveAt(T2[y])
        PROVE  y \in DOMAIN T /\ q \in LiveAt(T[y]) /\ T2[y][q] = T[y][q] /\ (y = c => q # p)
    <3>1. CASE y = c
      BY <1>11, <1>12, <2>2, <3>1
    <3>2. CASE y # c
      BY <1>11, <2>2, <3>2
    <3> QED
      BY <3>1, <3>2
  <2>3. ASSUME NEW y \in DOMAIN T2, NEW q \in LiveAt(T2[y])
        PROVE  T[y][q].first # x /\ T[y][q].first \in H
    BY <1>23, <1>24, <2>2
  <2> QED
    BY <2>2, <2>3
<1>14. \A y \in DOMAIN T : \A q \in LiveAt(T[y]) :
         (y = c /\ q = p) \/ (y \in DOMAIN T2 /\ q \in LiveAt(T2[y]) /\ T2[y][q] = T[y][q])
  BY <1>11, <1>12
<1>15. Heads(T2) = H \ {x}
  <2>1. ASSUME NEW y \in Heads(T2) PROVE y \in H \ {x}
    <3>1. CASE y = RootDir
      BY <1>1, <1>2, <3>1, HeadsAre DEF H
    <3>2. CASE y # RootDir
      <4>1. PICK z \in DOMAIN T2 : \E q \in LiveAt(T2[z]) : T2[z][q].first = y
        BY <2>1, <3>2, HeadsAre
      <4> QED
        BY <1>13, <4>1
    <3> QED
      BY <3>1, <3>2
  <2>2. ASSUME NEW y \in H, y # x PROVE y \in Heads(T2)
    <3>1. CASE y = RootDir
      BY <3>1, HeadsAre
    <3>2. CASE y # RootDir
      <4>0. PICK z \in DOMAIN T : \E q \in LiveAt(T[z]) : T[z][q].first = y
        BY <2>2, <3>2, HeadsAre DEF H
      <4>1. PICK q \in LiveAt(T[z]) : T[z][q].first = y
        BY <4>0
      <4>2. z \in DOMAIN T2 /\ q \in LiveAt(T2[z]) /\ T2[z][q].first = y
        BY <1>14, <2>2, <4>1
      <4> QED
        BY <4>2, HeadsAre
    <3> QED
      BY <3>1, <3>2
  <2> QED
    BY <2>1, <2>2
<1>16. TreeOk(T2)
  <2>1. RootDir \in DOMAIN T2 /\ DOMAIN T = {RootDir} \cup SubDirs(T[RootDir])
    BY <1>1, <1>2, <1>11, TreeFacts DEF TreeOk
  <2>2. SubDirs(T2[RootDir]) = SubDirs(T[RootDir]) \ {x}
    <3>1. ASSUME NEW y \in SubDirs(T2[RootDir]) PROVE y \in SubDirs(T[RootDir]) /\ y # x
      BY <1>13, <2>1 DEF SubDirs
    <3>2. ASSUME NEW y \in SubDirs(T[RootDir]), y # x PROVE y \in SubDirs(T2[RootDir])
      <4>1. PICK q \in LiveAt(T[RootDir]) : T[RootDir][q].t = "dir" /\ T[RootDir][q].first = y
        BY <3>2 DEF SubDirs
      <4>2. RootDir \in DOMAIN T
        BY <2>1
      <4>3. q \in LiveAt(T2[RootDir]) /\ T2[RootDir][q] = T[RootDir][q]
        BY <1>14, <3>2, <4>1, <4>2
      <4> QED
        BY <4>1, <4>3 DEF SubDirs
    <3> QED
      BY <3>1, <3>2
  <2>3. DOMAIN T2 = {RootDir} \cup SubDirs(T2[RootDir])
    BY <1>2, <1>11, <2>1, <2>2
  <2>4. \A y \in DOMAIN T2 : DirOk(T2[y])
    BY <1>1, <1>11, <1>12
  <2>5. \A y \in DOMAIN T2 : y # RootDir => \A q \in LiveAt(T2[y]) : T2[y][q].t = "file"
    BY <1>1, <1>13 DEF TreeOk
  <2>6. OnePlace(T2)
    BY <1>1, <1>13 DEF TreeOk, OnePlace
  <2> QED
    BY <2>3, <2>4, <2>5, <2>6 DEF TreeOk
<1>17. \A y \in DOMAIN T2 : T2[y] = Contents(e, y)
  <2>1. ASSUME NEW y \in DOMAIN T2, y # c PROVE T2[y] = Contents(e, y)
    BY <1>1, <1>10, <1>11, <1>21, <2>1
  <2> QED
    BY <1>10, <1>11, <2>1
<1>18. \A y \in DOMAIN T2 : \A q \in LiveAt(T2[y]) :
         T2[y][q].t = "file" => e.fat[T2[y][q].first] = LAST_CLUSTER
  <2>1. \A y \in DOMAIN T : \A q \in LiveAt(T[y]) :
          T[y][q].t = "file" => d.fat[T[y][q].first] = LAST_CLUSTER
    BY DEF Good
  <2> QED
    BY <1>5, <1>10, <1>13, <2>1
<1>19. Good(e, T2, L, {})
  <2>1. Heads(T2) \cup {} = H \ {x}
    BY <1>15
  <2> QED
    BY <1>10, <1>16, <1>17, <1>18, <2>1 DEF Good
<1>20. ASSUME NEW h, Behind(h, d.fat, T) PROVE Behind(h, e.fat, T2)
  <2>1. /\ h \in Fats /\ \A b \in DOMAIN T : BehindAt(h, d.fat, b, T[b])
        /\ \A b \in DOMAIN T : \A q \in LiveAt(T[b]) :
             T[b][q].t = "file" => h[T[b][q].first] = LAST_CLUSTER
    BY <1>20 DEF Behind
  <2>2. ASSUME NEW b \in DOMAIN T2 PROVE BehindAt(h, e.fat, b, T2[b])
    <3>1. b \in DOMAIN T /\ b \in H \ {x}
      BY <1>11, <1>21
    <3>4. \A q \in LiveAt(T2[b]) : q \in LiveAt(T[b])
      BY <1>13
    <3>2. Chain(e.fat, b) = Chain(d.fat, b)
      BY <1>5, <1>10, <3>1
    <3> QED
      BY <2>1, <3>1, <3>2, <3>4 DEF BehindAt
  <2>3. \A b \in DOMAIN T2 : \A q \in LiveAt(T2[b]) :
          T2[b][q].t = "file" => h[T2[b][q].first] = LAST_CLUSTER
    BY <1>13, <2>1
  <2> QED
    BY <2>1, <2>2, <2>3 DEF Behind
<1> QED
  BY <1>2, <1>11, <1>19, <1>20

(* Freeing a chain without a purge leaves the table on the disk behind, by *)
(* clusters that no entry leads to.                                        *)
LEMMA RemovedBehind ==
  ASSUME NEW d, NEW T, NEW L, Good(d, T, L, {}), NEW c, NEW p, NEW x, NEW e, NEW s, NEW T2,
         Removes(d, T, c, p, x, e, s, T2), NEW h, Behind(h, d.fat, T)
  PROVE  Behind(h, e.fat, T2)
  BY EntryRemoved

(* A directory whose last clusters are missing, with no entry in them.     *)
LEMMA PrefixDir ==
  ASSUME NEW d, DiskOk(d), NEW e, DiskOk(e), e.slots = d.slots, NEW c,
         HasChain(d.fat, c), HasChain(e.fat, c), Starts(Chain(e.fat, c), Chain(d.fat, c)),
         NEW s, s = Contents(d, c), DirOk(s), NEW r, r = Contents(e, c),
         \A p \in LiveAt(s) : SectorIndex(p) <= Len(Chain(e.fat, c))
  PROVE  Kin(s, r)
<1> DEFINE ch == Chain(d.fat, c)
           n == Len(ch)
           eh == Chain(e.fat, c)
           k == Len(eh)
<1>1. /\ n \in Nat /\ s \in Seq(Cell) /\ Len(s) = Slots * n /\ Slots * n \in Nat /\ DOMAIN s = 1 .. Len(s)
      /\ \A p \in DOMAIN s : s[p] = d.slots[ch[SectorIndex(p)]][Offset(p)]
  BY ContentsFacts
<1>2. /\ k \in Nat /\ r \in Seq(Cell) /\ Len(r) = Slots * k /\ Slots * k \in Nat /\ DOMAIN r = 1 .. Len(r)
      /\ \A p \in DOMAIN r : r[p] = d.slots[eh[SectorIndex(p)]][Offset(p)] /\ SectorIndex(p) \in 1 .. k
  BY ContentsFacts
<1>3. k <= n /\ \A i \in 1 .. k : ch[i] = eh[i]
  BY DEF Starts
<1>4. \A p \in LiveAt(s) : SectorIndex(p) <= k
  OBVIOUS
<1> HIDE DEF ch, n, eh, k
<1>5. Slots * k <= Slots * n /\ \A p \in 1 .. Slots * n : p <= Slots * k <=> SectorIndex(p) <= k
  BY <1>1, <1>2, <1>3, PlaceBelow
<1>6. \A q \in 1 .. Len(r) : q \in DOMAIN s /\ r[q] = s[q]
  BY <1>1, <1>2, <1>3, <1>5
<1>7. LiveAt(r) = LiveAt(s)
  <2>1. ASSUME NEW q \in LiveAt(r) PROVE q \in LiveAt(s)
    BY <1>2, <1>6 DEF LiveAt
  <2>2. ASSUME NEW q \in LiveAt(s) PROVE q \in LiveAt(r)
    <3>1. q \in 1 .. Slots * n /\ SectorIndex(q) <= k /\ q \in Nat
      BY <1>1, <1>4 DEF LiveAt
    <3>2. q \in 1 .. Len(r)
      BY <1>2, <1>5, <3>1
    <3> QED
      BY <1>2, <1>6, <3>2 DEF LiveAt
  <2> QED
    BY <2>1, <2>2
<1>8. ASSUME NEW q \in LiveAt(r)
      PROVE  r[q] = s[q] /\ WellNamed(r, q, NameAt(s, q))
  <2>1. q \in LiveAt(s) /\ q \in 1 .. Len(r) /\ q \in Nat \ {0}
    BY <1>2, <1>7 DEF LiveAt
  <2>2. NameAt(s, q) \in Name /\ WellNamed(s, q, NameAt(s, q))
    BY <2>1 DEF DirOk
  <2>3. \A x \in 0 + 1 .. q - 1 : r[x] = s[x]
    BY <1>2, <1>6, <2>1
  <2>4. r[q] = s[q] /\ r[q].sfn = s[q].sfn
    BY <1>6, <2>1
  <2>5. 0 \in 0 .. q - 1
    BY <2>1
  <2>6. WellNamed(r, q, NameAt(s, q))
    BY <2>1, <2>2, <2>3, <2>4, <2>5, NameStays
  <2> QED
    BY <2>4, <2>6
<1>9. DirOk(r) /\ \A q \in LiveAt(r) : NameAt(r, q) = NameAt(s, q)
  <2>1. LiveAt(r) \subseteq LiveAt(s) /\ \A q \in LiveAt(r) : r[q].sfn = s[q].sfn /\ WellNamed(r, q, NameAt(s, q))
    BY <1>7, <1>8
  <2> QED
    BY <1>2, <2>1, DirFrom
<1> QED
  BY <1>7, <1>8, <1>9 DEF Kin

(* The chains of a table that is behind are parts of those in the buffer.  *)
LEMMA OwnBehind ==
  ASSUME NEW d, NEW T, NEW L, Good(d, T, L, {}), NEW h, Behind(h, d.fat, T)
  PROVE  /\ h \in Fats
         /\ \A x \in Heads(T) : HasChain(h, x) /\ \A y \in Own(h, x) : y \in Own(d.fat, x) /\ y \in Cluster
<1>1. /\ TreeOk(T) /\ d.fat \in Fats
      /\ \A c \in DOMAIN T : HasChain(d.fat, c)
  BY GoodFacts
<1>2. /\ h \in Fats /\ \A c \in DOMAIN T : BehindAt(h, d.fat, c, T[c])
      /\ \A c \in DOMAIN T : \A p \in LiveAt(T[c]) :
           T[c][p].t = "file" => h[T[c][p].first] = LAST_CLUSTER
  BY DEF Behind
<1>3. ASSUME NEW x \in DOMAIN T
      PROVE  HasChain(h, x) /\ \A y \in Own(h, x) : y \in Own(d.fat, x) /\ y \in Cluster
  <2> DEFINE eh == Chain(h, x)
             ch == Chain(d.fat, x)
  <2>1. HasChain(h, x) /\ Starts(eh, ch)
    BY <1>2, <1>3 DEF BehindAt
  <2>2. IsChain(h, eh) /\ IsChain(d.fat, ch)
    BY <1>1, <2>1 DEF HasChain
  <2>3. Own(h, x) = Range(eh) /\ Own(d.fat, x) = Range(ch)
    BY DEF Own
  <2> HIDE DEF eh, ch
  <2>4. /\ Len(eh) \in Nat /\ Range(eh) = {eh[i] : i \in 1 .. Len(eh)} /\ \A i \in 1 .. Len(eh) : eh[i] \in Cluster
        /\ Len(ch) \in Nat /\ Range(ch) = {ch[i] : i \in 1 .. Len(ch)}
    BY <1>1, <1>2, <2>2, ChainFacts
  <2>5. Len(eh) <= Len(ch) /\ \A i \in 1 .. Len(eh) : ch[i] = eh[i]
    BY <2>1 DEF Starts
  <2> QED
    BY <2>1, <2>3, <2>4, <2>5
<1>4. ASSUME NEW c \in DOMAIN T, NEW p \in LiveAt(T[c]), T[c][p].t = "file", NEW x, x = T[c][p].first
      PROVE  HasChain(h, x) /\ \A y \in Own(h, x) : y \in Own(d.fat, x) /\ y \in Cluster
  <2>1. x \in Cluster /\ h[x] = LAST_CLUSTER /\ x \in Heads(T)
    BY <1>1, <1>2, <1>4, TreeFacts
  <2>2. IsChain(h, <<x>>)
    BY <2>1 DEF IsChain
  <2>3. Chain(h, x) = <<x>>
    BY <1>2, <2>2, ChainIs
  <2>4. HasChain(h, x)
    BY <2>2, <2>3 DEF HasChain
  <2>5. Own(h, x) = {x}
    BY <2>3 DEF Own, Range
  <2>6. x \in Own(d.fat, x)
    BY <1>1, <2>1, GoodFacts, OwnFacts
  <2> QED
    BY <2>1, <2>4, <2>5, <2>6
<1>5. ASSUME NEW x \in Heads(T)
      PROVE  \/ x \in DOMAIN T
             \/ \E c \in DOMAIN T : \E p \in LiveAt(T[c]) : T[c][p].t = "file" /\ x = T[c][p].first
  <2>1. CASE x = RootDir
    BY <1>1, <2>1, TreeFacts
  <2>2. CASE x # RootDir
    <3>1. PICK c \in DOMAIN T : \E p \in LiveAt(T[c]) : T[c][p].first = x
      BY <2>2, HeadsAre
    <3>2. PICK p \in LiveAt(T[c]) : T[c][p].first = x
      BY <3>1
    <3>3. T[c][p].t \in {"file", "dir"} /\ (T[c][p].t = "dir" => x \in DOMAIN T)
      BY <1>1, <3>2, TreeFacts DEF Kind
    <3> QED
      BY <3>2, <3>3
  <2> QED
    BY <2>1, <2>2
<1> QED
  BY <1>2, <1>3, <1>4, <1>5

(* Power off and on: what entries lead to is there, and the clusters that  *)
(* none leads to are lost.                                                 *)
Seen(e, T) == [c \in DOMAIN T |-> Contents(e, c)]
Led(h, T) == UNION {Own(h, x) : x \in Heads(T)}

(* The tree as the table on the disk shows it.                             *)
LEMMA Remounted ==
  ASSUME NEW d, NEW T, NEW L, Good(d, T, L, {}), NEW h, Behind(h, d.fat, T),
         NEW e \in Disks, CurOk(e), e.fat = h, e.slots = d.slots,
         NEW T2, T2 = Seen(e, T), NEW K, K = {c \in Cluster : h[c] # 0} \ Led(h, T)
  PROVE  /\ Good(e, T2, K, {}) /\ Heads(T2) = Heads(T) /\ DOMAIN T2 = DOMAIN T
         /\ \A c \in DOMAIN T : Kin(T[c], T2[c])
<1>1. /\ TreeOk(T) /\ d.fat \in Fats /\ DiskOk(d) /\ TableOk(d.fat, Heads(T), L)
      /\ \A c \in DOMAIN T : T[c] = Contents(d, c)
  BY GoodWhole
<1>2. /\ h \in Fats
      /\ \A x \in Heads(T) : HasChain(h, x) /\ \A y \in Own(h, x) : y \in Own(d.fat, x) /\ y \in Cluster
  BY OwnBehind
<1>3. DiskOk(e)
  BY DEF DiskOk
<1>4. DOMAIN T2 = DOMAIN T /\ \A c \in DOMAIN T : T2[c] = Contents(e, c)
  BY DEF Seen
<1>5. \A c \in DOMAIN T : DirOk(T[c]) /\ HasChain(d.fat, c) /\ c \in Heads(T)
  BY GoodFacts
<1>6. ASSUME NEW c \in DOMAIN T PROVE Kin(T[c], T2[c])
  <2>1. HasChain(h, c) /\ Starts(Chain(h, c), Chain(d.fat, c))
        /\ \A p \in LiveAt(T[c]) : SectorIndex(p) <= Len(Chain(h, c))
    BY <1>6 DEF Behind, BehindAt
  <2> QED
    BY <1>1, <1>3, <1>4, <1>5, <2>1, PrefixDir
<1>7. /\ \A c \in DOMAIN T : DirOk(T2[c]) /\ LiveAt(T2[c]) = LiveAt(T[c])
      /\ \A c \in DOMAIN T : \A p \in LiveAt(T[c]) : T2[c][p] = T[c][p]
  BY <1>6 DEF Kin
<1>8. Heads(T2) = Heads(T)
  <2>1. \A x : x \in Heads(T2) <=> x \in Heads(T)
    BY <1>4, <1>7, HeadsAre
  <2> QED
    BY <2>1
<1>9. TreeOk(T2)
  <2>1. RootDir \in DOMAIN T
    BY <1>1, TreeFacts
  <2>2. SubDirs(T2[RootDir]) = SubDirs(T[RootDir])
    BY <1>7, <2>1 DEF SubDirs
  <2>3. DOMAIN T2 = {RootDir} \cup SubDirs(T2[RootDir])
    BY <1>1, <1>4, <2>2 DEF TreeOk
  <2>4. \A c \in DOMAIN T2 : c # RootDir => \A p \in LiveAt(T2[c]) : T2[c][p].t = "file"
    BY <1>1, <1>4, <1>7 DEF TreeOk
  <2>5. OnePlace(T2)
    <3>1. OnePlace(T)
      BY <1>1 DEF TreeOk
    <3> QED
      BY <1>4, <1>7, <3>1 DEF OnePlace
  <2> QED
    BY <1>4, <1>7, <2>3, <2>4, <2>5 DEF TreeOk
<1>10. \A c \in DOMAIN T2 : \A p \in LiveAt(T2[c]) : T2[c][p].t = "file" => e.fat[T2[c][p].first] = LAST_CLUSTER
  <2>1. \A c \in DOMAIN T : \A p \in LiveAt(T[c]) : T[c][p].t = "file" => h[T[c][p].first] = LAST_CLUSTER
    BY DEF Behind
  <2> QED
    BY <1>4, <1>7, <2>1
<1>11. \A x : x \in Led(h, T) <=> \E y \in Heads(T) : x \in Own(h, y)
  BY DEF Led
<1>12. TableOk(h, Heads(T), K)
  <2>1. Heads(T) \subseteq Cluster /\ \A x, y \in Heads(T) : \A z \in Own(d.fat, x) : z \in Own(d.fat, y) => x = y
    BY <1>1, TableFacts
  <2>2. \A x \in Heads(T) : \A z \in Own(h, x) : h[z] # 0
    BY <1>2, OwnFacts
  <2>3. \A x \in K : x \in Cluster /\ h[x] # 0 /\ x \notin Led(h, T)
    OBVIOUS
  <2>4. \A x \in Cluster : h[x] # 0 => x \in K \/ x \in Led(h, T)
    OBVIOUS
  <2>5. \A x, y \in Heads(T) : \A z \in Cluster : z \in Own(h, x) /\ z \in Own(h, y) => x = y
    BY <1>2, <2>1
  <2>6. \A x \in Cluster : h[x] # 0 <=> x \in K \/ \E y \in Heads(T) : x \in Own(h, y)
    BY <1>11, <2>2, <2>3, <2>4
  <2>7. K \subseteq Cluster /\ \A x \in Heads(T) : \A z \in K : z \notin Own(h, x)
    BY <1>11, <2>3
  <2> QED
    BY <1>2, <2>1, <2>5, <2>6, <2>7 DEF TableOk
<1>13. Good(e, T2, K, {})
  <2>1. TableOk(e.fat, Heads(T2), K)
    BY <1>8, <1>12
  <2> QED
    BY <1>3, <1>4, <1>9, <1>10, <2>1, MadeGood
<1> QED
  BY <1>4, <1>6, <1>8, <1>13

(* What the buffer holds does not matter to what is on the disk.           *)
LEMMA AnyBuffer ==
  ASSUME NEW d, NEW T, NEW L, Good(d, T, L, {}), NEW e \in Disks, CurOk(e), e.fat = d.fat, e.slots = d.slots
  PROVE  Good(e, T, L, {})
<1>1. /\ TreeOk(T) /\ DiskOk(d) /\ TableOk(d.fat, Heads(T), L)
      /\ \A c \in DOMAIN T : T[c] = Contents(d, c)
      /\ \A c \in DOMAIN T : \A p \in LiveAt(T[c]) : T[c][p].t = "file" => d.fat[T[c][p].first] = LAST_CLUSTER
  BY GoodWhole
<1>2. \A c : Contents(e, c) = Contents(d, c)
  BY DEF Contents
<1>3. DiskOk(e)
  BY DEF DiskOk
<1> QED
  BY <1>1, <1>2, <1>3, MadeGood

LEMMA OnDiskIs ==
  ASSUME NEW f \in Fats, slots \in [Cluster -> Block]
  PROVE  OnDisk(f) \in Disks /\ CurOk(OnDisk(f)) /\ OnDisk(f).fat = f /\ OnDisk(f).slots = slots
<1>1. NoSector \in Buffers /\ NoSector.at = None
  BY BlankFacts DEF NoSector
<1> QED
  BY <1>1 DEF OnDisk, Disks, CurOk

(* The directories, the entries and the clusters of a table are those of   *)
(* the tree.                                                               *)
LEMMA DiskIs ==
  ASSUME NEW f \in Fats, slots \in [Cluster -> Block], NEW T, NEW L, Good(OnDisk(f), T, L, {})
  PROVE  /\ Dirs(f) = DOMAIN T
         /\ \A c \in DOMAIN T : Entries(OnDisk(f), c) = T[c]
         /\ \A pl : pl \in Places(f) <=> \E c \in DOMAIN T : \E p \in LiveAt(T[c]) :
                                          pl = [dir |-> c, at |-> p, first |-> T[c][p].first]
<1> DEFINE d == OnDisk(f)
<1>1. /\ TreeOk(T) /\ \A c \in DOMAIN T : Entries(d, c) = T[c]
  BY GoodFacts
<1> HIDE DEF d
<1>2. RootDir \in DOMAIN T
  BY <1>1, TreeFacts
<1>3. Dirs(f) = DOMAIN T
  <2>1. LiveIn(f, RootDir) = {e \in Range(T[RootDir]) : Live(e)}
    BY <1>1, <1>2 DEF LiveIn, d
  <2>2. \A e : e \in LiveIn(f, RootDir) <=> \E p \in LiveAt(T[RootDir]) : e = T[RootDir][p]
    BY <2>1 DEF Range, LiveAt
  <2>3. Dirs(f) = {RootDir} \cup SubDirs(T[RootDir])
    BY <2>2 DEF Dirs, SubDirs
  <2> QED
    BY <1>1, <2>3 DEF TreeOk
<1>4. \A pl : pl \in Places(f) <=> \E c \in DOMAIN T : \E p \in LiveAt(T[c]) :
                                          pl = [dir |-> c, at |-> p, first |-> T[c][p].first]
  <2>1. \A pl : pl \in Places(f) <=> \E c \in DOMAIN T : pl \in PlacesIn(c, T[c])
    BY <1>1, <1>3 DEF Places, d
  <2>2. \A c : \A pl : pl \in PlacesIn(c, T[c]) <=> \E p \in LiveAt(T[c]) :
                         pl = [dir |-> c, at |-> p, first |-> T[c][p].first]
    BY DEF PlacesIn, LiveAt
  <2> QED
    BY <2>1, <2>2
<1> QED
  BY <1>1, <1>3, <1>4 DEF d

(* The clusters that entries lead to are the chains of the tree.           *)
LEMMA UsedIs ==
  ASSUME NEW f \in Fats, slots \in [Cluster -> Block], NEW T, NEW L, Good(OnDisk(f), T, L, {})
  PROVE  Used(f) = Led(f, T)
<1>1. /\ \A pl : pl \in Places(f) <=> \E c \in DOMAIN T : \E p \in LiveAt(T[c]) :
                                          pl = [dir |-> c, at |-> p, first |-> T[c][p].first]
  BY DiskIs
<1>2. \A x \in Heads(T) : x # 0 /\ ChainOf(f, x) = Own(f, x)
  BY GoodFacts, ClusterFacts DEF ChainOf, Own
<1>3. RootDir \in Heads(T) /\ \A c \in DOMAIN T : \A p \in LiveAt(T[c]) : T[c][p].first \in Heads(T)
  BY HeadsAre
<1>4. ASSUME NEW y \in Used(f) PROVE y \in Led(f, T)
  <2>1. CASE y \in ChainOf(f, RootDir)
    BY <1>2, <1>3, <2>1 DEF Led
  <2>2. CASE y \notin ChainOf(f, RootDir)
    <3>1. PICK pl \in Places(f) : y \in ChainOf(f, pl.first)
      BY <1>4, <2>2 DEF Used
    <3>2. PICK c \in DOMAIN T : \E p \in LiveAt(T[c]) : pl = [dir |-> c, at |-> p, first |-> T[c][p].first]
      BY <1>1, <3>1
    <3>3. PICK p \in LiveAt(T[c]) : pl = [dir |-> c, at |-> p, first |-> T[c][p].first]
      BY <3>2
    <3>4. pl.first \in Heads(T)
      BY <1>3, <3>3
    <3> QED
      BY <1>2, <3>1, <3>4 DEF Led
  <2> QED
    BY <2>1, <2>2
<1>5. ASSUME NEW y \in Led(f, T) PROVE y \in Used(f)
  <2>1. PICK x \in Heads(T) : y \in Own(f, x)
    BY <1>5 DEF Led
  <2>2. CASE x = RootDir
    BY <1>2, <2>1, <2>2 DEF Used
  <2>3. CASE x # RootDir
    <3>1. PICK c \in DOMAIN T : \E p \in LiveAt(T[c]) : T[c][p].first = x
      BY <2>1, <2>3, HeadsAre
    <3>2. PICK p \in LiveAt(T[c]) : T[c][p].first = x
      BY <3>1
    <3> DEFINE pl == [dir |-> c, at |-> p, first |-> T[c][p].first]
    <3>3. pl \in Places(f) /\ pl.first = x
      BY <1>1, <3>2
    <3> HIDE DEF pl
    <3> QED
      BY <1>2, <2>1, <3>3 DEF Used
  <2> QED
    BY <2>2, <2>3
<1> QED
  BY <1>4, <1>5

(* The chains of a tree that the disk has are apart.                       *)
LEMMA ApartIs ==
  ASSUME NEW f \in Fats, slots \in [Cluster -> Block], NEW T, NEW L, Good(OnDisk(f), T, L, {})
  PROVE  ChainsApart(f)
<1> DEFINE top == [dir |-> None, at |-> 0, first |-> RootDir]
           all == Places(f) \cup {top}
<1>0. TreeOk(T) /\ TableOk(f, Heads(T), L)
  <2>1. OnDisk(f).fat = f
    BY OnDiskIs
  <2> QED
    BY <2>1, GoodWhole
<1>1. ASSUME NEW pl \in all
      PROVE  /\ pl.first \in Heads(T)
             /\ \/ pl = top
                \/ \E c \in DOMAIN T : \E p \in LiveAt(T[c]) : pl = [dir |-> c, at |-> p, first |-> T[c][p].first]
  <2>1. CASE pl = top
    BY <2>1, HeadsAre
  <2>2. CASE pl # top
    <3>1. PICK c \in DOMAIN T : \E p \in LiveAt(T[c]) : pl = [dir |-> c, at |-> p, first |-> T[c][p].first]
      BY <1>1, <2>2, DiskIs
    <3>2. PICK p \in LiveAt(T[c]) : pl = [dir |-> c, at |-> p, first |-> T[c][p].first]
      BY <3>1
    <3> QED
      BY <3>2, HeadsAre
  <2> QED
    BY <2>1, <2>2
<1>2. ASSUME NEW x \in all, NEW y \in all, x.first = y.first PROVE x = y
  <2>0. /\ \A c \in DOMAIN T : \A p \in LiveAt(T[c]) : T[c][p].first # RootDir
        /\ OnePlace(T)
    BY <1>0, TreeFacts DEF TreeOk
  <2>1. CASE x = top
    BY <1>1, <1>2, <2>0, <2>1
  <2>2. CASE y = top
    BY <1>1, <1>2, <2>0, <2>2
  <2>3. CASE x # top /\ y # top
    <3>1. PICK b \in DOMAIN T : \E p \in LiveAt(T[b]) : x = [dir |-> b, at |-> p, first |-> T[b][p].first]
      BY <1>1, <2>3
    <3>2. PICK p \in LiveAt(T[b]) : x = [dir |-> b, at |-> p, first |-> T[b][p].first]
      BY <3>1
    <3>3. PICK c \in DOMAIN T : \E q \in LiveAt(T[c]) : y = [dir |-> c, at |-> q, first |-> T[c][q].first]
      BY <1>1, <2>3
    <3>4. PICK q \in LiveAt(T[c]) : y = [dir |-> c, at |-> q, first |-> T[c][q].first]
      BY <3>3
    <3>5. T[b][p].first = T[c][q].first
      BY <1>2, <3>2, <3>4
    <3>6. b = c /\ p = q
      BY <2>0, <3>5 DEF OnePlace
    <3> QED
      BY <3>2, <3>4, <3>6
  <2> QED
    BY <2>1, <2>2, <2>3
<1> HIDE DEF all, top
<1>3. \A h \in Heads(T) : h # 0 /\ ChainOf(f, h) = Own(f, h) /\ f[Last(Chain(f, h))] = LAST_CLUSTER
  <2>1. ASSUME NEW h \in Heads(T) PROVE h # 0 /\ ChainOf(f, h) = Own(f, h) /\ f[Last(Chain(f, h))] = LAST_CLUSTER
    <3>1. h \in Cluster /\ HasChain(f, h) /\ f \in Fats
      BY <1>0, TableFacts
    <3>2. h # 0 /\ ChainOf(f, h) = Own(f, h)
      BY <3>1, ClusterFacts DEF ChainOf, Own
    <3> DEFINE ch == Chain(f, h)
    <3>3. IsChain(f, ch)
      BY <3>1 DEF HasChain
    <3> HIDE DEF ch
    <3>4. f[ch[Len(ch)]] = LAST_CLUSTER
      BY <3>1, <3>3, ChainFacts
    <3> QED
      BY <3>2, <3>4 DEF Last, ch
  <2> QED
    BY <2>1
<1>4. \A x, y \in all : x # y => ChainOf(f, x.first) \cap ChainOf(f, y.first) = {}
  <2>1. ASSUME NEW x \in all, NEW y \in all, x # y, NEW z, z \in ChainOf(f, x.first), z \in ChainOf(f, y.first)
        PROVE  FALSE
    <3>1. x.first \in Heads(T) /\ y.first \in Heads(T) /\ x.first # y.first
      BY <1>1, <1>2, <2>1
    <3>2. z \in Own(f, x.first) /\ z \in Own(f, y.first)
      BY <1>3, <2>1, <3>1
    <3> QED
      BY <1>0, <3>1, <3>2, TableFacts
  <2> QED
    BY <2>1
<1>5. \A pl \in all : pl.first # 0 => f[Last(Chain(f, pl.first))] = LAST_CLUSTER
  BY <1>1, <1>3
<1>6. ApartIn(f, all)
  BY <1>4, <1>5 DEF ApartIn
<1> QED
  BY <1>6 DEF ChainsApart, all, top

(* What a state with a tree shows.                                         *)
LEMMA NowIs ==
  ASSUME NEW T, NEW L, Good(Now, T, L, {})
  PROVE  /\ Now.fat = fat /\ Now.slots = slots /\ Now.cur = cur
         /\ fat \in Fats /\ slots \in [Cluster -> Block] /\ cur \in Buffers /\ CurOk(Now)
         /\ TableOk(fat, Heads(T), L)
         /\ Good(OnDisk(fat), T, L, {})
<1>1. Now.fat = fat /\ Now.slots = slots /\ Now.cur = cur
  BY DEF Now
<1>2. DiskOk(Now) /\ TableOk(Now.fat, Heads(T), L)
  BY GoodWhole
<1>3. fat \in Fats /\ slots \in [Cluster -> Block] /\ cur \in Buffers /\ CurOk(Now)
  BY <1>1, <1>2 DEF DiskOk, Disks
<1>4. Good(OnDisk(fat), T, L, {})
  <2>1. /\ OnDisk(fat) \in Disks /\ CurOk(OnDisk(fat)) /\ OnDisk(fat).fat = Now.fat
        /\ OnDisk(fat).slots = Now.slots
    BY <1>1, <1>3, OnDiskIs
  <2> QED
    BY <2>1, AnyBuffer
<1> QED
  BY <1>1, <1>2, <1>3, <1>4

(* What a tree means for the properties of the disk.                       *)
LEMMA StateShows ==
  ASSUME NEW T, Good(Now, T, lost, {}), Behind(fatDisk, fat, T)
  PROVE  CacheIsDisk /\ OwnChains /\ NothingLost /\ NamesKept
<1>1. /\ Now.fat = fat /\ Now.slots = slots /\ Now.cur = cur
      /\ fat \in Fats /\ slots \in [Cluster -> Block] /\ CurOk(Now)
      /\ TableOk(fat, Heads(T), lost) /\ Good(OnDisk(fat), T, lost, {})
  BY NowIs
<1>2. CacheIsDisk
  BY <1>1 DEF CacheIsDisk, CurOk
<1>3. ChainsApart(fat)
  BY <1>1, ApartIs
<1>4. ChainsApart(fatDisk)
  <2> DEFINE e == OnDisk(fatDisk)
             T2 == Seen(e, T)
             K == {c \in Cluster : fatDisk[c] # 0} \ Led(fatDisk, T)
  <2>1. fatDisk \in Fats
    BY DEF Behind
  <2>2. e \in Disks /\ CurOk(e) /\ e.fat = fatDisk /\ e.slots = Now.slots
    BY <1>1, <2>1, OnDiskIs
  <2>3. Behind(fatDisk, Now.fat, T)
    BY <1>1
  <2> HIDE DEF e
  <2>4. Good(e, T2, K, {})
    BY <2>2, <2>3, Remounted
  <2> HIDE DEF T2, K
  <2> QED
    BY <1>1, <2>1, <2>4, ApartIs DEF e
<1>5. NothingLost
  <2>1. Used(fat) = Led(fat, T)
    BY <1>1, UsedIs
  <2>2. \A x \in Cluster : fat[x] # 0 <=> x \in lost \/ \E h \in Heads(T) : x \in Own(fat, h)
    BY <1>1 DEF TableOk
  <2>3. \A x : x \in Led(fat, T) <=> \E h \in Heads(T) : x \in Own(fat, h)
    BY DEF Led
  <2>4. lost \subseteq Cluster /\ \A h \in Heads(T) : Own(fat, h) \subseteq Cluster
    BY <1>1, TableFacts
  <2> QED
    BY <2>1, <2>2, <2>3, <2>4 DEF NothingLost
<1>6. NamesKept
  <2>1. Dirs(fat) = DOMAIN T /\ \A c \in DOMAIN T : Entries(OnDisk(fat), c) = T[c] /\ DirOk(T[c])
    BY <1>1, DiskIs, GoodFacts
  <2>2. ASSUME NEW c \in DOMAIN T PROVE NamesKeptIn(T[c], {p \in DOMAIN T[c] : Live(T[c][p])})
    <3> DEFINE s == T[c]
    <3>1. DirOk(s)
      BY <2>1
    <3> HIDE DEF s
    <3>2. {p \in DOMAIN s : Live(s[p])} = LiveAt(s)
      BY DEF LiveAt
    <3>3. \A p \in LiveAt(s) : NameAt(s, p) # Garbled
      BY <3>1, DirFacts, DirAssumption
    <3>4. \A p, q \in LiveAt(s) : p # q => Folded[NameAt(s, p)] # Folded[NameAt(s, q)] /\ s[p].sfn # s[q].sfn
      BY <3>1, DirFacts
    <3>5. NamesKeptIn(s, LiveAt(s))
      BY <3>3, <3>4 DEF NamesKeptIn, NamesApart
    <3> QED
      BY <3>2, <3>5 DEF s
  <2> QED
    BY <2>1, <2>2 DEF NamesKept
<1> QED
  BY <1>2, <1>3, <1>4, <1>5, <1>6 DEF OwnChains

-----------------------------------------------------------------------------
(* A node stands for an entry; the node of an open file has what its data  *)
(* and its length need (fatfs.c:501-548).                                  *)
Info(s, p) == [first |-> s[p].first, sfn |-> s[p].sfn]
NodeFor(s, p, x) ==
  IF s[p].t = "dir" THEN x = DirNode(NameAt(s, p), s[p].first)
  ELSE x = FileNode(NameAt(s, p), s[p].size, None) \/ x = FileNode(NameAt(s, p), s[p].size, Info(s, p))

(* The nodes ks are of entries of the directory s; all of them.            *)
KidsOk(ks, s) ==
  /\ \A x \in ks : \E p \in LiveAt(s) : NodeFor(s, p, x)
  /\ \A x, y \in ks : x.name = y.name => x = y
Full(ks, s) == \A p \in LiveAt(s) : \E x \in ks : NodeFor(s, p, x)

LEMMA NodeFacts ==
  ASSUME NEW s, NEW p, NEW x, NodeFor(s, p, x)
  PROVE  /\ x.name = NameAt(s, p)
         /\ x.kind = "dir" => s[p].t = "dir" /\ x.first = s[p].first /\ x.info = None
         /\ x.kind = "file" => s[p].t # "dir" /\ x.first = 0 /\ x.len = s[p].size
         /\ x.kind = "file" \/ x.kind = "dir"
         /\ [x EXCEPT !.info = None] = NodeOf(s, p)
         /\ x.info # None => s[p].t # "dir" /\ x.kind = "file" /\ x.info.first = s[p].first /\ x.info.sfn = s[p].sfn
<1>1. CASE s[p].t = "dir"
  <2>1. x = DirNode(NameAt(s, p), s[p].first)
    BY <1>1 DEF NodeFor
  <2>2. [DirNode(NameAt(s, p), s[p].first) EXCEPT !.info = None] = DirNode(NameAt(s, p), s[p].first)
    BY DEF DirNode
  <2> QED
    BY <1>1, <2>1, <2>2 DEF DirNode, NodeOf
<1>2. CASE s[p].t # "dir"
  <2>1. x = FileNode(NameAt(s, p), s[p].size, None) \/ x = FileNode(NameAt(s, p), s[p].size, Info(s, p))
    BY <1>2 DEF NodeFor
  <2>2. \A i : [FileNode(NameAt(s, p), s[p].size, i) EXCEPT !.info = None] = FileNode(NameAt(s, p), s[p].size, None)
    BY DEF FileNode
  <2>3. [x EXCEPT !.info = None] = NodeOf(s, p)
    BY <1>2, <2>1, <2>2 DEF NodeOf
  <2>4. /\ x.name = NameAt(s, p) /\ x.kind = "file" /\ x.first = 0 /\ x.len = s[p].size
        /\ x.info = None \/ x.info = Info(s, p)
    BY <2>1 DEF FileNode
  <2> QED
    BY <1>2, <2>3, <2>4 DEF Info
<1> QED
  BY <1>1, <1>2

LEMMA NodeOfIs ==
  ASSUME NEW s, NEW p
  PROVE  NodeFor(s, p, NodeOf(s, p))
  BY DEF NodeFor, NodeOf

(* _populate_dir_children                                                  *)
LEMMA NodesInAre ==
  ASSUME NEW s
  PROVE  \A x : x \in NodesIn(s) <=> \E p \in LiveAt(s) : x = NodeOf(s, p)
  BY DEF NodesIn, LiveAt

(* Reading a directory gives the nodes of its entries.                     *)
LEMMA KidsListed ==
  ASSUME NEW s, DirOk(s)
  PROVE  KidsOk(NodesIn(s), s) /\ Full(NodesIn(s), s) /\ (NodesIn(s) = {} => LiveAt(s) = {})
<1>1. \A p : NodeFor(s, p, NodeOf(s, p)) /\ NodeOf(s, p).name = NameAt(s, p)
  BY NodeOfIs, NodeFacts
<1>2. \A p, q \in LiveAt(s) : NameAt(s, p) = NameAt(s, q) => p = q
  BY DirFacts
<1> QED
  BY <1>1, <1>2, NodesInAre DEF KidsOk, Full

(* The nodes of an entry are the only ones with its name.                  *)
LEMMA KidsNames ==
  ASSUME NEW s, DirOk(s), NEW ks, KidsOk(ks, s), NEW x \in ks, NEW p \in LiveAt(s), x.name = NameAt(s, p)
  PROVE  NodeFor(s, p, x)
<1>1. PICK q \in LiveAt(s) : NodeFor(s, q, x)
  BY DEF KidsOk
<1>2. q = p
  BY <1>1, NodeFacts, DirFacts
<1> QED
  BY <1>1, <1>2

LEMMA SameFor ==
  ASSUME NEW s, NEW r, NEW p, r[p] = s[p], NameAt(r, p) = NameAt(s, p)
  PROVE  \A x : NodeFor(r, p, x) <=> NodeFor(s, p, x)
  BY DEF NodeFor, Info

LEMMA KidsSame ==
  ASSUME NEW s, NEW r, Kin(s, r), NEW ks, KidsOk(ks, s)
  PROVE  KidsOk(ks, r) /\ (Full(ks, s) => Full(ks, r))
<1>1. LiveAt(r) = LiveAt(s) /\ \A p \in LiveAt(s) : \A x : NodeFor(r, p, x) <=> NodeFor(s, p, x)
  BY SameFor DEF Kin
<1> QED
  BY <1>1 DEF KidsOk, Full

LEMMA KidsAdded ==
  ASSUME NEW s, DirOk(s), NEW r, NEW b, NEW n, NEW e, NewIn(s, r, b, n, e), NEW ks, KidsOk(ks, s),
         NEW y, NodeFor(r, b, y)
  PROVE  KidsOk(ks \cup {y}, r) /\ (Full(ks, s) => Full(ks \cup {y}, r))
<1>1. /\ DirOk(r) /\ b \notin LiveAt(s) /\ LiveAt(r) = LiveAt(s) \cup {b}
      /\ \A p \in LiveAt(s) : NameAt(r, p) = NameAt(s, p) /\ \A x : NodeFor(r, p, x) <=> NodeFor(s, p, x)
  BY SameFor DEF NewIn
<1>2. ASSUME NEW x \in ks PROVE x.name # y.name /\ \E p \in LiveAt(r) : NodeFor(r, p, x)
  <2>1. PICK p \in LiveAt(s) : NodeFor(s, p, x)
    BY DEF KidsOk
  <2>2. p \in LiveAt(r) /\ NodeFor(r, p, x) /\ p # b /\ b \in LiveAt(r)
    BY <1>1, <2>1
  <2>3. x.name = NameAt(r, p) /\ y.name = NameAt(r, b)
    BY <2>2, NodeFacts
  <2> QED
    BY <1>1, <2>2, <2>3, DirFacts
<1>3. \A x, z \in ks : x.name = z.name => x = z
  BY DEF KidsOk
<1>4. KidsOk(ks \cup {y}, r)
  BY <1>1, <1>2, <1>3 DEF KidsOk
<1>5. Full(ks, s) => Full(ks \cup {y}, r)
  BY <1>1 DEF Full
<1> QED
  BY <1>4, <1>5

LEMMA KidsRemoved ==
  ASSUME NEW s, DirOk(s), NEW p \in LiveAt(s), NEW r, Marked(s, p, r), NEW ks, KidsOk(ks, s),
         NEW y \in ks, NodeFor(s, p, y)
  PROVE  KidsOk(ks \ {y}, r) /\ (Full(ks, s) => Full(ks \ {y}, r))
<1>1. /\ LiveAt(r) = LiveAt(s) \ {p}
      /\ \A q \in LiveAt(r) : \A x : NodeFor(r, q, x) <=> NodeFor(s, q, x)
  BY MarkedDir, SameFor
<1>2. \A q \in LiveAt(s) : \A x \in ks : NodeFor(s, q, x) => (x = y <=> q = p)
  <2>1. ASSUME NEW q \in LiveAt(s), NEW x \in ks, NodeFor(s, q, x) PROVE x = y <=> q = p
    <3>1. x.name = NameAt(s, q) /\ y.name = NameAt(s, p)
      BY <2>1, NodeFacts
    <3>2. x.name = y.name => x = y
      BY DEF KidsOk
    <3>3. NameAt(s, q) = NameAt(s, p) => q = p
      BY DirFacts
    <3> QED
      BY <3>1, <3>2, <3>3
  <2> QED
    BY <2>1
<1>3. KidsOk(ks \ {y}, r)
  BY <1>1, <1>2 DEF KidsOk
<1>4. Full(ks, s) => Full(ks \ {y}, r)
  BY <1>1, <1>2 DEF Full
<1> QED
  BY <1>3, <1>4

(* The node of an entry is replaced, and the entry may change with it.     *)
LEMMA KidsReplaced ==
  ASSUME NEW s, DirOk(s), NEW p \in LiveAt(s), NEW r, LiveAt(r) = LiveAt(s),
         \A q \in LiveAt(s) : NameAt(r, q) = NameAt(s, q) /\ (q # p => r[q] = s[q]),
         NEW ks, KidsOk(ks, s), NEW x \in ks, NodeFor(s, p, x), NEW y, NodeFor(r, p, y)
  PROVE  KidsOk((ks \ {x}) \cup {y}, r) /\ (Full(ks, s) => Full((ks \ {x}) \cup {y}, r))
<1>1. \A q \in LiveAt(s) : q # p => \A z : NodeFor(r, q, z) <=> NodeFor(s, q, z)
  BY SameFor
<1>2. ASSUME NEW q \in LiveAt(s), NEW z \in ks, NodeFor(s, q, z)
      PROVE  (z = x <=> q = p) /\ (z.name = y.name => q = p)
  <2>1. z.name = NameAt(s, q) /\ x.name = NameAt(s, p) /\ y.name = NameAt(s, p)
    BY <1>2, NodeFacts
  <2>2. z.name = x.name => z = x
    BY DEF KidsOk
  <2>3. NameAt(s, q) = NameAt(s, p) => q = p
    BY DirFacts
  <2> QED
    BY <2>1, <2>2, <2>3
<1>3. ASSUME NEW z \in ks \ {x} PROVE z.name # y.name /\ \E q \in LiveAt(r) : NodeFor(r, q, z)
  <2>1. PICK q \in LiveAt(s) : NodeFor(s, q, z)
    BY <1>3 DEF KidsOk
  <2>2. q # p /\ z.name # y.name
    BY <1>2, <1>3, <2>1
  <2> QED
    BY <1>1, <2>1, <2>2
<1>4. KidsOk((ks \ {x}) \cup {y}, r)
  <2>1. \A w, z \in ks : w.name = z.name => w = z
    BY DEF KidsOk
  <2> QED
    BY <1>3, <2>1 DEF KidsOk
<1>5. ASSUME Full(ks, s) PROVE Full((ks \ {x}) \cup {y}, r)
  <2>1. ASSUME NEW q \in LiveAt(r) PROVE \E z \in (ks \ {x}) \cup {y} : NodeFor(r, q, z)
    <3>1. CASE q = p
      BY <3>1
    <3>2. CASE q # p
      <4>1. PICK z \in ks : NodeFor(s, q, z)
        BY <1>5, <2>1 DEF Full
      <4> QED
        BY <1>1, <1>2, <2>1, <3>2, <4>1
    <3> QED
      BY <3>1, <3>2
  <2> QED
    BY <2>1 DEF Full
<1> QED
  BY <1>4, <1>5

(* The nodes of a tree: only the root and the directories in its list have *)
(* a list, and the list of a directory in F is complete.                   *)
Shows(k, c) == c = RootDir \/ \E n \in k[RootDir] : n.kind = "dir" /\ n.first = c
NodesOk(k, F, T) ==
  /\ DOMAIN k = Cluster
  /\ \A c \in F : Shows(k, c)
  /\ \A c \in Cluster : k[c] # {} => Shows(k, c)
  /\ \A c \in DOMAIN T : KidsOk(k[c], T[c]) /\ (c \in F => Full(k[c], T[c]))

LEMMA ShowsFacts ==
  ASSUME NEW T, TreeOk(T), NEW k, NEW F, NodesOk(k, F, T), NEW c, Shows(k, c)
  PROVE  c \in DOMAIN T /\ c \in Cluster
<1>1. RootDir \in DOMAIN T /\ DOMAIN T \subseteq Cluster
  BY TreeFacts
<1>2. CASE c # RootDir
  <2>1. PICK n \in k[RootDir] : n.kind = "dir" /\ n.first = c
    BY <1>2 DEF Shows
  <2>2. PICK p \in LiveAt(T[RootDir]) : NodeFor(T[RootDir], p, n)
    BY <1>1 DEF NodesOk, KidsOk
  <2>3. T[RootDir][p].t = "dir" /\ T[RootDir][p].first = c
    BY <2>1, <2>2, NodeFacts
  <2>4. c \in DOMAIN T
    BY <1>1, <2>3, TreeFacts
  <2> QED
    BY <1>1, <2>4
<1> QED
  BY <1>1, <1>2

(* One list changes with its directory.                                    *)
LEMMA NodesChange ==
  ASSUME NEW T, TreeOk(T), NEW k, NEW F, NodesOk(k, F, T), NEW c, Shows(k, c),
         NEW T2, DOMAIN T2 = DOMAIN T, \A b \in DOMAIN T : b # c => T2[b] = T[b],
         NEW j, DOMAIN j = Cluster, \A b \in Cluster : b # c => j[b] = k[b],
         KidsOk(j[c], T2[c]), NEW G, \A b \in G : b \in F \/ b = c, c \in G => Full(j[c], T2[c]),
         c = RootDir => \A n \in k[RootDir] : n.kind = "dir" =>
                          \E m \in j[RootDir] : m.kind = "dir" /\ m.first = n.first
  PROVE  NodesOk(j, G, T2) /\ \A b : Shows(k, b) => Shows(j, b)
<1>1. c \in DOMAIN T /\ c \in Cluster /\ DOMAIN T \subseteq Cluster /\ RootDir \in Cluster
  BY ShowsFacts, TreeFacts
<1>2. ASSUME NEW b, Shows(k, b) PROVE Shows(j, b)
  <2>1. CASE c = RootDir
    BY <1>2, <2>1 DEF Shows
  <2>2. CASE c # RootDir
    BY <1>1, <1>2, <2>2 DEF Shows
  <2> QED
    BY <2>1, <2>2
<1>3. \A b \in G : Shows(j, b)
  BY <1>2 DEF NodesOk
<1>4. \A b \in Cluster : j[b] # {} => Shows(j, b)
  BY <1>2 DEF NodesOk
<1>5. \A b \in DOMAIN T2 : KidsOk(j[b], T2[b]) /\ (b \in G => Full(j[b], T2[b]))
  <2>1. ASSUME NEW b \in DOMAIN T2, b # c PROVE KidsOk(j[b], T2[b]) /\ (b \in G => Full(j[b], T2[b]))
    BY <1>1, <2>1 DEF NodesOk
  <2> QED
    BY <2>1
<1> QED
  BY <1>2, <1>3, <1>4, <1>5 DEF NodesOk

LEMMA AfterGood ==
  ASSUME NEW d, NEW T, NEW L, NEW X, Good(d, T, L, X), NEW c, NEW e, After(d, c, e)
  PROVE  Good(e, T, L, X) /\ e.fat = d.fat
<1>1. DiskOk(e) /\ e.fat = d.fat /\ \A x : Contents(e, x) = Contents(d, x)
  BY AfterSame
<1> QED
  BY <1>1 DEF Good

(* _populate_dir_children: the children of a directory are known.          *)
LEMMA PopulatedIs ==
  ASSUME NEW d, NEW T, NEW L, Good(d, T, L, {}), NEW k, NEW F, NodesOk(k, F, T),
         NEW c, Shows(k, c), NEW r, r = Populated(d, c, k)
  PROVE  /\ Good(r.d, T, L, {}) /\ r.d.fat = d.fat /\ NodesOk(r.kids, F \cup r.from, T)
         /\ \A b : Shows(k, b) => Shows(r.kids, b)
         /\ r.kids[c] = {} => LiveAt(T[c]) = {}
         /\ \A b \in Cluster : b # c => r.kids[b] = k[b]
<1>1. TreeOk(T) /\ c \in DOMAIN T /\ c \in Cluster /\ DOMAIN T \subseteq Cluster /\ RootDir \in DOMAIN T
  BY GoodWhole, ShowsFacts, TreeFacts
<1>2. /\ DiskOk(d) /\ HasChain(d.fat, c) /\ Entries(d, c) = T[c] /\ DirOk(T[c])
  BY <1>1, GoodFacts
<1>3. CASE k[c] # {}
  <2>1. r = [d |-> d, kids |-> k, from |-> {}]
    BY <1>3 DEF Populated
  <2>2. r.d = d /\ r.kids = k /\ F \cup r.from = F
    BY <2>1
  <2> QED
    BY <1>3, <2>2
<1>4. CASE k[c] = {}
  <2> DEFINE l == NodesIn(T[c])
             j == WithList(k, c, l)
  <2>1. r = [d |-> LoadedAll(d, c), from |-> {c}, kids |-> j]
    BY <1>2, <1>4 DEF Populated, Listing
  <2>2. r.d = LoadedAll(d, c) /\ r.kids = j /\ F \cup r.from = F \cup {c}
    BY <2>1
  <2>3. Good(r.d, T, L, {}) /\ r.d.fat = d.fat
    BY <1>2, <2>2, AfterAll, AfterGood
  <2>4. KidsOk(l, T[c]) /\ Full(l, T[c]) /\ (l = {} => LiveAt(T[c]) = {})
    BY <1>2, KidsListed
  <2>5. DOMAIN j = Cluster /\ j[c] = l
    BY <1>1 DEF WithList
  <2>6. \A b \in Cluster : b # c => j[b] = k[b]
    <3>1. CASE c = RootDir
      <4>1. \A b \in Cluster : b # c => k[b] = {}
        BY <1>4, <3>1 DEF NodesOk, Shows
      <4> QED
        BY <4>1 DEF WithList
    <3>2. CASE c # RootDir
      <4>1. \A n \in l : n.kind # "dir"
        <5>1. ASSUME NEW n \in l, n.kind = "dir" PROVE FALSE
          <6>1. PICK p \in LiveAt(T[c]) : n = NodeOf(T[c], p)
            BY <5>1, NodesInAre
          <6>2. T[c][p].t = "file"
            BY <1>1, <3>2 DEF TreeOk
          <6> QED
            BY <5>1, <6>1, <6>2 DEF NodeOf, FileNode
        <5> QED
          BY <5>1
      <4> HIDE DEF l
      <4> QED
        BY <4>1 DEF WithList
    <3> QED
      BY <3>1, <3>2
  <2> HIDE DEF l, j
  <2>7. c = RootDir => \A n \in k[RootDir] : n.kind = "dir" =>
                          \E m \in j[RootDir] : m.kind = "dir" /\ m.first = n.first
    BY <1>4
  <2>8. NodesOk(j, F \cup {c}, T) /\ \A b : Shows(k, b) => Shows(j, b)
    <3> DEFINE G == F \cup {c}
    <3>1. (\A b \in G : b \in F \/ b = c) /\ (c \in G => Full(j[c], T[c])) /\ KidsOk(j[c], T[c])
      BY <2>4, <2>5
    <3> HIDE DEF G
    <3>2. NodesOk(j, G, T) /\ \A b : Shows(k, b) => Shows(j, b)
      BY <1>1, <2>5, <2>6, <2>7, <3>1, NodesChange
    <3> QED
      BY <3>2 DEF G
  <2> QED
    BY <2>2, <2>3, <2>4, <2>5, <2>6, <2>8
<1> QED
  BY <1>3, <1>4

(* What a path leads to, and on.                                           *)
FoundOk(r, F, T, L, f) == Good(r.d, T, L, {}) /\ r.d.fat = f /\ NodesOk(r.kids, F \cup r.from, T)

(* A directory below another one is read as well (fatfs.c:626-637).        *)
LEMMA TooIs ==
  ASSUME NEW r, NEW F, NEW T, NEW L, NEW f, FoundOk(r, F, T, L, f), NEW c, Shows(r.kids, c),
         NEW i, i = PopulatedToo(r, c)
  PROVE  /\ FoundOk(i, F, T, L, f) /\ \A b : Shows(r.kids, b) => Shows(i.kids, b)
         /\ i.kids[c] = {} => LiveAt(T[c]) = {}
         /\ \A b \in Cluster : b # c => i.kids[b] = r.kids[b]
<1> DEFINE p == Populated(r.d, c, r.kids)
<1>1. i.d = p.d /\ i.kids = p.kids /\ i.from = p.from \cup r.from
  <2>1. p.d = p.d /\ i = [p EXCEPT !.from = @ \cup r.from]
    BY DEF PopulatedToo
  <2>2. \E x, y, z : p = [d |-> x, kids |-> y, from |-> z]
    BY DEF Populated
  <2> HIDE DEF p
  <2> QED
    BY <2>1, <2>2
<1> HIDE DEF p
<1>2. /\ Good(p.d, T, L, {}) /\ p.d.fat = r.d.fat /\ NodesOk(p.kids, (F \cup r.from) \cup p.from, T)
      /\ \A b : Shows(r.kids, b) => Shows(p.kids, b)
      /\ p.kids[c] = {} => LiveAt(T[c]) = {}
      /\ \A b \in Cluster : b # c => p.kids[b] = r.kids[b]
  <2> DEFINE G == F \cup r.from
  <2>1. Good(r.d, T, L, {}) /\ NodesOk(r.kids, G, T)
    BY DEF FoundOk
  <2> HIDE DEF G
  <2>2. /\ Good(p.d, T, L, {}) /\ p.d.fat = r.d.fat /\ NodesOk(p.kids, G \cup p.from, T)
        /\ \A b : Shows(r.kids, b) => Shows(p.kids, b)
        /\ p.kids[c] = {} => LiveAt(T[c]) = {}
        /\ \A b \in Cluster : b # c => p.kids[b] = r.kids[b]
    BY <2>1, PopulatedIs DEF p
  <2> QED
    BY <2>2 DEF G
<1>3. (F \cup r.from) \cup p.from = F \cup i.from
  BY <1>1
<1> QED
  BY <1>1, <1>2, <1>3 DEF FoundOk

-----------------------------------------------------------------------------
(* The inductive invariant: there is a tree that the disk has, the table   *)
(* on the disk is at most behind it, and the nodes are its entries.        *)
TreeState(T) == Good(Now, T, lost, {}) /\ Behind(fatDisk, fat, T) /\ NodesOk(kids, filled, T)
(* The invariant.                                                          *)
TreeInv == \E T : TreeState(T)

LEMMA PutState ==
  ASSUME NEW d, Put(d), NEW T, Good(d, T, lost', {}), NodesOk(kids', filled', T), Behind(fatDisk', d.fat, T)
  PROVE  TreeInv'
<1>1. fat' = d.fat /\ slots' = d.slots /\ cur' = d.cur
  BY DEF Put
<1>2. d \in Disks /\ CurOk(d)
  BY GoodWhole DEF DiskOk
<1>3. /\ Now' \in Disks /\ CurOk(Now') /\ (Now').fat = d.fat /\ (Now').slots = d.slots
  BY <1>1, <1>2 DEF Now, Disks, CurOk
<1>4. Good(Now', T, lost', {})
  BY <1>3, AnyBuffer
<1>5. Good(Now', T, lost', {}) /\ Behind(fatDisk', fat', T) /\ NodesOk(kids', filled', T)
  BY <1>1, <1>4
<1> QED
  BY <1>5 DEF TreeInv, TreeState

(* An operation that read directories only, and stopped.                   *)
LEMMA LeftState ==
  ASSUME NEW d, NEW k, NEW from, Leave(d, k, from), NEW T, Good(d, T, lost', {}),
         NodesOk(k, filled \cup from, T), Behind(fatDisk', d.fat, T)
  PROVE  TreeInv'
  BY PutState DEF Leave

(* The table may have gone to the disk.                                    *)
LEMMA Flushed ==
  ASSUME NEW d, NEW T, NEW L, Good(d, T, L, {}), NEW h, Behind(h, d.fat, T), NEW g, g = h \/ g = d.fat
  PROVE  Behind(g, d.fat, T)
  BY BehindSelf

LEMMA StateFacts ==
  ASSUME NEW T, TreeState(T)
  PROVE  /\ Good(Now, T, lost, {}) /\ Now.fat = fat /\ Behind(fatDisk, fat, T) /\ NodesOk(kids, filled, T)
         /\ TreeOk(T) /\ fat \in Fats /\ \A c \in Reached : Shows(kids, c) /\ c \in DOMAIN T
         /\ FoundOk(Known, filled, T, lost, fat) /\ Known.kids = kids /\ Known.d = Now /\ Known.from = {}
<1>1. Good(Now, T, lost, {}) /\ Behind(fatDisk, fat, T) /\ NodesOk(kids, filled, T)
  BY DEF TreeState
<1>2. Now.fat = fat /\ fat \in Fats /\ TreeOk(T)
  BY <1>1, NowIs, GoodWhole
<1>3. \A c \in Reached : Shows(kids, c)
  BY DEF Reached, Shows
<1>4. \A c \in Reached : c \in DOMAIN T
  BY <1>1, <1>2, <1>3, ShowsFacts
<1>5. Known.kids = kids /\ Known.d = Now /\ Known.from = {}
  BY DEF Known
<1>6. FoundOk(Known, filled, T, lost, fat)
  <2>1. filled \cup Known.from = filled
    BY <1>5
  <2> QED
    BY <1>1, <1>2, <1>5, <2>1 DEF FoundOk
<1> QED
  BY <1>1, <1>2, <1>3, <1>4, <1>5, <1>6

(* A path is followed to its directory, which is read.                     *)
LEMMA FindIs ==
  ASSUME NEW T, TreeState(T), NEW c, Shows(kids, c)
  PROVE  /\ FoundOk(At(c), filled, T, lost, fat) /\ Shows(At(c).kids, c)
         /\ FoundOk(Find(c), filled, T, lost, fat) /\ Shows(Find(c).kids, c)
<1>1. FoundOk(Known, filled, T, lost, fat) /\ Known.kids = kids
  BY StateFacts
<1>2. FoundOk(At(c), filled, T, lost, fat) /\ Shows(At(c).kids, c)
  <2>1. CASE c = RootDir
    BY <1>1, <2>1 DEF At
  <2>2. CASE c # RootDir
    <3>1. At(c) = PopulatedToo(Known, RootDir)
      BY <2>2 DEF At
    <3>2. Shows(Known.kids, RootDir)
      BY DEF Shows
    <3> QED
      BY <1>1, <3>1, <3>2, TooIs
  <2> QED
    BY <2>1, <2>2
<1>3. FoundOk(Find(c), filled, T, lost, fat) /\ Shows(Find(c).kids, c)
  <2>1. Find(c) = PopulatedToo(At(c), c)
    BY DEF Find
  <2> QED
    BY <1>2, <2>1, TooIs
<1> QED
  BY <1>2, <1>3

(* A step that only reads the disk.                                        *)
LEMMA OnlyRead ==
  ASSUME NEW T, TreeState(T), NEW r, FoundOk(r, filled, T, lost, fat), lost' = lost,
         NEW d, Good(d, T, lost, {}), d.fat = fat, Leave(d, r.kids, r.from), fatDisk' = fatDisk \/ Buffered(d)
  PROVE  TreeInv'
<1>1. NodesOk(r.kids, filled \cup r.from, T) /\ Behind(fatDisk, d.fat, T)
  BY StateFacts DEF FoundOk
<1>2. Behind(fatDisk', d.fat, T)
  BY <1>1, Flushed DEF Buffered
<1> QED
  BY <1>1, <1>2, LeftState

(* _fs_read_dir (fatfs.c:609-624).                                         *)
LEMMA ReadDirStep ==
  ASSUME NEW T, TreeState(T), NEW c \in Reached, ReadDir(c)
  PROVE  TreeInv'
<1>1. Shows(kids, c)
  BY StateFacts
<1>2. FoundOk(Find(c), filled, T, lost, fat)
  BY <1>1, FindIs
<1>3. Leave(Find(c).d, Find(c).kids, Find(c).from) /\ fatDisk' = fatDisk /\ lost' = lost
  BY DEF ReadDir
<1>4. Good(Find(c).d, T, lost, {}) /\ Find(c).d.fat = fat
  BY <1>2 DEF FoundOk
<1> QED
  BY <1>2, <1>3, <1>4, OnlyRead

(* A directory is searched for a name and for a short name.                *)
LEMMA SearchedIs ==
  ASSUME NEW d, NEW T, NEW L, Good(d, T, L, {}), NEW c \in DOMAIN T, NEW n \in Name,
         NEW g, g = fatfs_get_file_entry(d, c, n)
  PROVE  /\ After(d, c, g.d) /\ Good(g.d, T, L, {}) /\ g.d.fat = d.fat
         /\ g.at = 0 => \A q \in LiveAt(T[c]) : Folded[NameAt(T[c], q)] # Folded[n]
         /\ g.at # 0 => g.at \in LiveAt(T[c])
         /\ \A q \in LiveAt(T[c]) : Folded[NameAt(T[c], q)] = Folded[n] => g.at = q /\ g.at # 0
<1>1. DiskOk(d) /\ HasChain(d.fat, c) /\ T[c] = Contents(d, c) /\ DirOk(T[c])
  BY GoodFacts
<1>2. /\ After(d, c, g.d)
      /\ g.at = 0 => \A q \in LiveAt(T[c]) : Folded[NameAt(T[c], q)] # Folded[n]
      /\ g.at # 0 => g.at \in LiveAt(T[c])
      /\ \A q \in LiveAt(T[c]) : Folded[NameAt(T[c], q)] = Folded[n] => g.at = q /\ g.at # 0
  BY <1>1, FoundIs
<1> QED
  BY <1>2, AfterGood

LEMMA NamedIs ==
  ASSUME NEW d, NEW T, NEW L, NEW X, Good(d, T, L, X), NEW c \in DOMAIN T, NEW n \in Name,
         \A q \in LiveAt(T[c]) : Folded[NameAt(T[c], q)] # Folded[n],
         NEW s, s = ShortName(d, c, n)
  PROVE  /\ After(d, c, s.d) /\ Good(s.d, T, L, X) /\ s.d.fat = d.fat /\ s.d.slots = d.slots
         /\ s.sfn # None => s.sfn \in Sfn /\ NewNames(T[c], n, s.sfn)
<1>1. DiskOk(d) /\ HasChain(d.fat, c) /\ T[c] = Contents(d, c) /\ DirOk(T[c])
  BY GoodFacts
<1>2. /\ After(d, c, s.d)
      /\ s.sfn # None => s.sfn \in Sfn /\ \A q \in LiveAt(T[c]) : T[c][q].sfn # s.sfn
  BY <1>1, ShortIs
<1>3. s.sfn # None => NewNames(T[c], n, s.sfn)
  BY <1>2 DEF NewNames
<1>4. s.d.slots = d.slots
  BY <1>2 DEF After
<1> QED
  BY <1>2, <1>3, <1>4, AfterGood

LEMMA BlankIs ==
  ASSUME NEW f, BlankCluster(f) # {}
  PROVE  Min(BlankCluster(f)) \in Cluster /\ f[Min(BlankCluster(f))] = 0
<1> DEFINE S == BlankCluster(f)
<1>1. S \in SUBSET Nat /\ S \in SUBSET Int /\ \A x \in S : x \in Cluster /\ f[x] = 0
  <2>1. \A x \in S : x \in Cluster /\ f[x] = 0
    BY DEF BlankCluster
  <2> HIDE DEF S
  <2>2. \A x \in S : x \in Nat
    BY <2>1, ClusterFacts
  <2>3. S \in SUBSET Nat
    BY <2>2
  <2>4. S \in SUBSET Int
    BY <2>2
  <2> QED
    BY <2>1, <2>3, <2>4
<1> HIDE DEF S
<1>2. S # {}
  BY DEF S
<1>3. PICK x \in S : \A y \in S : x <= y
  BY <1>1, <1>2, LeastElement
<1>4. Min(S) = x
  BY <1>1, <1>3, MinIs
<1> QED
  BY <1>1, <1>3, <1>4 DEF S

LEMMA EntriesGood ==
  ASSUME NEW d, NEW T, NEW L, NEW X, Good(d, T, L, X), NEW c \in DOMAIN T
  PROVE  Entries(d, c) = T[c] /\ DirOk(T[c]) /\ T[c] = Contents(d, c) /\ HasChain(d.fat, c)
  BY GoodFacts

LEMMA KinAlike ==
  ASSUME NEW s, NEW r, Kin(s, r)
  PROVE  Alike(s, r)
  BY DEF Kin, Alike

(* No room is left for the entry: the cluster is given back                *)
(* (fatfs.c:675-678, 796-799).                                             *)
LEMMA NoRoom ==
  ASSUME NEW T, TreeState(T), lost' = lost, NEW c, c \in Reached,
         NEW r, FoundOk(r, filled, T, lost, fat), Shows(r.kids, c),
         NEW e, NEW new, Good(e, T, lost, {new}), new \notin Heads(T), Behind(fatDisk, e.fat, T),
         NEW a, Leads(e, c, a.d, Heads(T) \cup {new}, lost), Kin(T[c], Contents(a.d, c)),
         NEW d, d = Freed(a.d, new), Leave(d, r.kids, r.from), Buffered(d)
  PROVE  TreeInv'
<1> DEFINE s == Contents(a.d, c)
           T2 == With(T, c, s)
<1>1. c \in DOMAIN T /\ TreeOk(T)
  BY StateFacts
<1>2. Alike(T[c], s)
  BY KinAlike
<1> HIDE DEF T2
<1>3. T2 = With(T, c, s)
  BY DEF T2
<1>4. Kin(T[c], s)
  OBVIOUS
<1>11. s = Contents(a.d, c)
  OBVIOUS
<1> HIDE DEF s
<1>5. /\ Good(a.d, T2, lost, {new}) /\ Heads(T2) = Heads(T) /\ DOMAIN T2 = DOMAIN T
      /\ Behind(fatDisk, a.d.fat, T2)
  <2> DEFINE X == {new}
             D == a.d
  <2>1. Good(e, T, lost, X) /\ Leads(e, c, D, Heads(T) \cup X, lost) /\ Behind(fatDisk, e.fat, T)
        /\ s = Contents(D, c)
    BY <1>11
  <2> HIDE DEF X, D
  <2>2. c \in DOMAIN T /\ Alike(T[c], s) /\ T2 = With(T, c, s)
    BY ONLY <1>1, <1>2, <1>3
  <2>3. Good(e, T, lost, X) /\ Leads(e, c, D, Heads(T) \cup X, lost) /\ s = Contents(D, c)
    BY ONLY <2>1
  <2>4. Good(D, T2, lost, X) /\ Heads(T2) = Heads(T) /\ DOMAIN T2 = DOMAIN T
    BY ONLY <2>2, <2>3, SameTree
  <2>5. Behind(fatDisk, e.fat, T) => Behind(fatDisk, D.fat, T2)
    BY ONLY <2>2, <2>3, SameTree
  <2> QED
    BY <2>1, <2>4, <2>5 DEF X, D
<1>6. Good(d, T2, lost, {}) /\ Behind(fatDisk, d.fat, T2)
  BY <1>5, GivenBack
<1>7. Behind(fatDisk', d.fat, T2)
  BY <1>6, Flushed DEF Buffered
<1>8. T2[c] = s /\ \A b \in DOMAIN T : b # c => T2[b] = T[b]
  BY <1>1, <1>3 DEF With
<1>9. NodesOk(r.kids, filled \cup r.from, T2)
  <2> DEFINE k == r.kids
             F == filled \cup r.from
  <2>1. NodesOk(k, F, T) /\ Shows(k, c)
    BY DEF FoundOk
  <2> HIDE DEF k, F
  <2>2. KidsOk(k[c], T[c]) /\ (c \in F => Full(k[c], T[c])) /\ DOMAIN k = Cluster
    BY <1>1, <2>1 DEF NodesOk
  <2>3. KidsOk(k[c], s) /\ (c \in F => Full(k[c], s))
    BY <1>4, <2>2, KidsSame
  <2>4. NodesOk(k, F, T2)
    BY <1>1, <1>5, <1>8, <2>1, <2>2, <2>3, NodesChange
  <2> QED
    BY <2>4 DEF k, F
<1> QED
  BY <1>6, <1>7, <1>9, LeftState

(* A file gets its entry, and a node that is open.                         *)
LEMMA FileMade ==
  ASSUME NEW T, TreeState(T), lost' = lost, NEW c, c \in Reached, NEW n \in Name, NEW sfn,
         NEW r, FoundOk(r, filled, T, lost, fat), Shows(r.kids, c),
         NEW e, NEW new, Good(e, T, lost, {new}), new \notin Heads(T), e.fat[new] = LAST_CLUSTER,
         NEW a, a.ok, Leads(e, c, a.d, Heads(T) \cup {new}, lost),
         NEW b, NewIn(T[c], Contents(a.d, c), b, n, SfnEntry("file", sfn, new, 0)),
         EntryMade(c, n, r, a, new)
  PROVE  TreeInv'
<1> DEFINE s == Contents(a.d, c)
           T2 == With(T, c, s)
           o == fatfs_get_file_entry(a.d, c, n)
           f == SfnEntry("file", sfn, new, 0)
<1>1. c \in DOMAIN T /\ TreeOk(T) /\ DirOk(T[c]) /\ c \in Cluster
  BY StateFacts, TreeFacts
<1>2. NewIn(T[c], s, b, n, f)
  OBVIOUS
<1>3. T2 = With(T, c, s) /\ s = Contents(a.d, c) /\ o = fatfs_get_file_entry(a.d, c, n)
  OBVIOUS
<1>17. f.first = new /\ f.sfn = sfn /\ f.t = "file" /\ f.size = 0 /\ f = SfnEntry("file", sfn, new, 0)
  BY DEF SfnEntry
<1> HIDE DEF s, T2, o, f
<1>4. Good(a.d, T2, lost, {})
  <2>1. NewIn(T[c], s, b, n, SfnEntry("file", sfn, new, 0))
    BY <1>2, <1>17
  <2> QED
    BY <1>1, <1>3, <2>1, FileAdded
<1>5. /\ DOMAIN T2 = DOMAIN T /\ T2[c] = s /\ \A x \in DOMAIN T : x # c => T2[x] = T[x]
  BY <1>1, <1>3 DEF With
<1>6. b \in LiveAt(s) /\ NameAt(s, b) = n /\ s[b] = f
  BY <1>2 DEF NewIn
<1>7. o.at = b /\ o.at # 0 /\ Good(o.d, T2, lost, {})
  BY <1>1, <1>3, <1>4, <1>5, <1>6, SearchedIs
<1>8. Entries(a.d, c)[o.at] = f
  <2>1. Entries(a.d, c) = T2[c]
    BY <1>1, <1>4, <1>5, EntriesGood
  <2> QED
    BY <1>5, <1>6, <1>7, <2>1
<1> DEFINE y == FileNode(n, 0, [first |-> new, sfn |-> sfn])
           j == [r.kids EXCEPT ![c] = @ \cup {y}]
<1>9. Leave(o.d, j, r.from) /\ Purged(o.d)
  BY <1>3, <1>7, <1>8, <1>17 DEF EntryMade
<1>10. NodeFor(s, b, y)
  BY <1>6, <1>17 DEF NodeFor, Info
<1> HIDE DEF y
<1>11. DOMAIN r.kids = Cluster
  BY DEF FoundOk, NodesOk
<1>12. DOMAIN j = Cluster /\ j[c] = r.kids[c] \cup {y} /\ \A x \in Cluster : x # c => j[x] = r.kids[x]
  BY <1>1, <1>11
<1> HIDE DEF j
<1>13. NodesOk(j, filled \cup r.from, T2)
  <2> DEFINE k == r.kids
             F == filled \cup r.from
  <2>1. NodesOk(k, F, T) /\ Shows(k, c) /\ j[c] = k[c] \cup {y} /\ DOMAIN j = Cluster
        /\ \A x \in Cluster : x # c => j[x] = k[x]
    BY <1>12 DEF FoundOk
  <2> HIDE DEF k, F
  <2>2. KidsOk(k[c], T[c]) /\ (c \in F => Full(k[c], T[c]))
    BY <1>1, <2>1 DEF NodesOk
  <2>3. KidsOk(j[c], T2[c]) /\ (c \in F => Full(j[c], T2[c]))
    BY <1>1, <1>2, <1>5, <1>10, <2>1, <2>2, KidsAdded
  <2>4. c = RootDir => \A x \in k[RootDir] : x.kind = "dir" =>
                        \E m \in j[RootDir] : m.kind = "dir" /\ m.first = x.first
    BY <2>1
  <2>5. NodesOk(j, F, T2)
    <3>1. /\ TreeOk(T) /\ NodesOk(k, F, T) /\ Shows(k, c) /\ DOMAIN T2 = DOMAIN T
          /\ \A x \in DOMAIN T : x # c => T2[x] = T[x]
          /\ DOMAIN j = Cluster /\ \A x \in Cluster : x # c => j[x] = k[x]
          /\ KidsOk(j[c], T2[c]) /\ (\A x \in F : x \in F \/ x = c) /\ (c \in F => Full(j[c], T2[c]))
      BY <1>1, <1>5, <2>1, <2>3
    <3> QED
      BY ONLY <2>4, <3>1, NodesChange
  <2> QED
    BY <2>5 DEF F
<1>14. Behind(fatDisk', o.d.fat, T2)
  BY <1>7, <1>9, BehindSelf DEF Purged
<1> QED
  BY <1>7, <1>9, <1>13, <1>14, LeftState

(* _fs_create_file (fatfs.c:746-805).                                      *)
LEMMA CreateFileStep ==
  ASSUME NEW T, TreeState(T), NEW c \in Reached, NEW n \in Name, CreateFile(c, n)
  PROVE  TreeInv'
<1> DEFINE r == Find(c)
           g == fatfs_get_file_entry(r.d, c, n)
           s == ShortName(g.d, c, n)
<1>1. Shows(kids, c) /\ c \in DOMAIN T /\ TreeOk(T) /\ Behind(fatDisk, fat, T) /\ fat \in Fats
  BY StateFacts
<1>2. FoundOk(r, filled, T, lost, fat) /\ Shows(r.kids, c)
  BY <1>1, FindIs
<1>3. lost' = lost
  BY DEF CreateFile
<1>4. IF g.at # 0 THEN Leave(g.d, r.kids, r.from) /\ Buffered(g.d) ELSE NamedFile(c, n, r, s)
  BY DEF CreateFile
<1>20. g = fatfs_get_file_entry(r.d, c, n) /\ s = ShortName(g.d, c, n)
  OBVIOUS
<1> HIDE DEF r, g, s
<1>5. Good(r.d, T, lost, {}) /\ r.d.fat = fat
  BY <1>2 DEF FoundOk
<1>6. /\ Good(g.d, T, lost, {}) /\ g.d.fat = fat
      /\ g.at = 0 => \A q \in LiveAt(T[c]) : Folded[NameAt(T[c], q)] # Folded[n]
  BY <1>1, <1>5, <1>20, SearchedIs
<1>7. CASE g.at # 0
  BY <1>2, <1>3, <1>4, <1>6, <1>7, OnlyRead
<1>8. CASE g.at = 0
  <2>1. /\ Good(s.d, T, lost, {}) /\ s.d.fat = fat
        /\ s.sfn # None => s.sfn \in Sfn /\ NewNames(T[c], n, s.sfn)
    BY <1>1, <1>6, <1>8, <1>20, NamedIs
  <2>2. CASE s.sfn = None \/ BlankCluster(fat) = {}
    <3>1. Leave(s.d, r.kids, r.from) /\ Buffered(s.d)
      BY <1>4, <1>8, <2>2 DEF NamedFile
    <3> QED
      BY <1>2, <1>3, <2>1, <3>1, OnlyRead
  <2>3. CASE s.sfn # None /\ BlankCluster(fat) # {}
    <3> DEFINE new == Min(BlankCluster(fat))
               e == [s.d EXCEPT !.fat[new] = LAST_CLUSTER]
               a == fatfs_add_file_entry(e, c, n, s.sfn, new, "file")
               H == Heads(T) \cup {new}
    <3>1. EntryMade(c, n, r, a, new)
      BY <1>4, <1>8, <2>3 DEF NamedFile
    <3>2. new \in Cluster /\ fat[new] = 0
      BY <2>3, BlankIs
    <3>3. a = fatfs_add_file_entry(e, c, n, s.sfn, new, "file")
      OBVIOUS
    <3> HIDE DEF new, a
    <3>4. s.d \in Disks /\ CurOk(s.d)
      BY <2>1, GoodWhole DEF DiskOk
    <3>5. /\ e \in Disks /\ e.fat = [fat EXCEPT ![new] = LAST_CLUSTER] /\ e.slots = s.d.slots /\ e.cur = s.d.cur
      <4> DEFINE f == [fat EXCEPT ![new] = LAST_CLUSTER]
      <4>1. f \in Fats
        BY <1>1, <3>2 DEF Fats
      <4>2. e = [s.d EXCEPT !.fat = f]
        BY <2>1, <3>4 DEF Disks
      <4> HIDE DEF f, e
      <4> QED
        BY <3>4, <4>1, <4>2 DEF Disks, f
    <3> HIDE DEF e
    <3>6. CurOk(e)
      BY <3>4, <3>5 DEF CurOk
    <3>7. /\ Good(e, T, lost, {new}) /\ new \notin Heads(T) /\ e.fat[new] = LAST_CLUSTER
          /\ Behind(fatDisk, e.fat, T)
      <4>1. /\ s.d.fat[new] = 0 /\ e.fat[new] = LAST_CLUSTER
            /\ \A x \in Cluster : x # new => e.fat[x] = s.d.fat[x]
            /\ \A x \in Cluster : x # new => e.slots[x] = s.d.slots[x]
        BY <1>1, <2>1, <3>2, <3>5 DEF Fats
      <4>2. Behind(fatDisk, s.d.fat, T)
        BY <1>1, <2>1
      <4>3. Took(s.d, new, e)
        BY <2>1, <3>2, <3>5, <3>6, <4>1 DEF Took
      <4>4. Good(e, T, lost, {new}) /\ new \notin Heads(T)
        BY <2>1, <4>3, NewCluster
      <4>5. Behind(fatDisk, e.fat, T)
        BY <2>1, <4>2, <4>3, TookBehind
      <4> QED
        BY <4>1, <4>4, <4>5
    <3>8. new # RootDir /\ new \in Cluster \ {RootDir} /\ c \in H
      BY <1>1, <3>2, <3>7, TreeFacts
    <3>9. DiskOk(e) /\ TableOk(e.fat, H, lost) /\ T[c] = Contents(e, c) /\ DirOk(T[c])
      BY <1>1, <3>7, GoodFacts
    <3> HIDE DEF H
    <3>10. "file" \in Kind
      BY DEF Kind
    <3>11. /\ Leads(e, c, a.d, H, lost) /\ a.ok \in BOOLEAN
           /\ ~a.ok => Kin(T[c], Contents(a.d, c))
           /\ a.ok => \E b : NewIn(T[c], Contents(a.d, c), b, n, SfnEntry("file", s.sfn, new, 0))
      BY <2>1, <2>3, <3>3, <3>8, <3>9, <3>10, AddedIs
    <3>12. Leads(e, c, a.d, Heads(T) \cup {new}, lost)
      BY <3>11 DEF H
    <3>13. CASE ~a.ok
      <4>1. Leave(Freed(a.d, new), r.kids, r.from) /\ Buffered(Freed(a.d, new))
        BY <3>1, <3>13 DEF EntryMade
      <4> QED
        BY <1>2, <1>3, <3>7, <3>11, <3>12, <3>13, <4>1, NoRoom
    <3>14. CASE a.ok
      <4>1. PICK b : NewIn(T[c], Contents(a.d, c), b, n, SfnEntry("file", s.sfn, new, 0))
        BY <3>11, <3>14
      <4> QED
        BY <1>2, <1>3, <3>1, <3>7, <3>12, <3>14, <4>1, FileMade
    <3> QED
      BY <3>11, <3>13, <3>14
  <2> QED
    BY <2>2, <2>3
<1> QED
  BY <1>7, <1>8

(* A directory gets its entry, its node and an empty list.                 *)
LEMMA NodesDir ==
  ASSUME NEW T, TreeOk(T), NEW k, NEW F, NodesOk(k, F, T), NEW new \in Cluster, new \notin Heads(T),
         NEW s, NEW b, NEW n, NEW f, NewIn(T[RootDir], s, b, n, f), f.t = "dir", f.first = new,
         NEW r, LiveAt(r) = {}, NEW T2, T2 = WithDir(T, s, new, r),
         NEW y, y = DirNode(n, new),
         NEW j, DOMAIN j = Cluster, j[RootDir] = k[RootDir] \cup {y}, j[new] = {},
         \A c \in Cluster : c # RootDir /\ c # new => j[c] = k[c],
         NEW G, \A c \in G : c \in F \/ c = new
  PROVE  NodesOk(j, G, T2)
<1>1. /\ RootDir \in DOMAIN T /\ DOMAIN T \subseteq Cluster /\ new \notin DOMAIN T /\ DirOk(T[RootDir])
      /\ new # RootDir /\ RootDir \in Cluster
  BY TreeFacts
<1>2. /\ DOMAIN T2 = DOMAIN T \cup {new} /\ T2[RootDir] = s /\ T2[new] = r
      /\ \A c \in DOMAIN T : c # RootDir => T2[c] = T[c]
  BY <1>1 DEF WithDir
<1>3. y.kind = "dir" /\ y.first = new
  BY DEF DirNode
<1>4. \A c : Shows(k, c) => Shows(j, c)
  BY DEF Shows
<1>5. Shows(j, new)
  BY <1>3 DEF Shows
<1>6. \A c \in G : Shows(j, c)
  BY <1>4, <1>5 DEF NodesOk
<1>7. \A c \in Cluster : j[c] # {} => Shows(j, c)
  <2>1. \A c \in Cluster : k[c] # {} => Shows(k, c)
    BY DEF NodesOk
  <2>2. Shows(j, RootDir)
    BY DEF Shows
  <2> QED
    BY <1>4, <2>1, <2>2
<1>8. KidsOk(j[RootDir], s) /\ (RootDir \in G => Full(j[RootDir], s))
  <2>1. KidsOk(k[RootDir], T[RootDir]) /\ (RootDir \in F => Full(k[RootDir], T[RootDir]))
    BY <1>1 DEF NodesOk
  <2>2. NodeFor(s, b, y)
    BY DEF NewIn, NodeFor
  <2>3. KidsOk(k[RootDir] \cup {y}, s) /\ (Full(k[RootDir], T[RootDir]) => Full(k[RootDir] \cup {y}, s))
    BY <1>1, <2>1, <2>2, KidsAdded
  <2> QED
    BY <1>1, <2>1, <2>3
<1>9. KidsOk(j[new], r) /\ Full(j[new], r)
  BY DEF KidsOk, Full
<1>10. \A c \in DOMAIN T : c # RootDir => KidsOk(j[c], T2[c]) /\ (c \in G => Full(j[c], T2[c]))
  <2>1. ASSUME NEW c \in DOMAIN T, c # RootDir PROVE KidsOk(j[c], T2[c]) /\ (c \in G => Full(j[c], T2[c]))
    <3>1. j[c] = k[c] /\ T2[c] = T[c] /\ (c \in G => c \in F)
      BY <1>1, <1>2, <2>1
    <3> QED
      BY <3>1 DEF NodesOk
  <2> QED
    BY <2>1
<1>11. \A c \in DOMAIN T2 : KidsOk(j[c], T2[c]) /\ (c \in G => Full(j[c], T2[c]))
  BY <1>2, <1>8, <1>9, <1>10
<1> QED
  BY <1>6, <1>7, <1>11 DEF NodesOk

(* The cluster of a new directory is erased past the buffer, which does not*)
(* hold it: the buffer has a sector of the parent (fatfs.c:761-770).       *)
LEMMA ErasedTook ==
  ASSUME NEW d, NEW T, NEW L, Good(d, T, L, {}), d.cur.at \in Own(d.fat, RootDir),
         NEW new \in Cluster, d.fat[new] = 0, NEW e, e = Erased(d, new)
  PROVE  Took(d, new, e) /\ e.slots[new] = BlankSector
<1>1. DiskOk(d) /\ d.fat \in Fats /\ d.slots \in [Cluster -> Block] /\ RootDir \in Heads(T)
  BY GoodFacts, TreeFacts
<1>2. d.cur.at # new
  <2>1. TableOk(d.fat, Heads(T), L)
    BY GoodWhole
  <2> QED
    BY <1>1, <2>1 DEF TableOk
<1> DEFINE f == [d.fat EXCEPT ![new] = LAST_CLUSTER]
           sl == [d.slots EXCEPT ![new] = BlankSector]
<1>3. f \in Fats /\ f[new] = LAST_CLUSTER /\ \A x \in Cluster : x # new => f[x] = d.fat[x]
  BY <1>1 DEF Fats
<1>4. sl \in [Cluster -> Block] /\ sl[new] = BlankSector /\ \A x \in Cluster : x # new => sl[x] = d.slots[x]
  BY <1>1, BlankFacts
<1>5. d \in Disks /\ CurOk(d)
  BY <1>1 DEF DiskOk
<1>6. e = [d EXCEPT !.fat = f, !.slots = sl]
  BY <1>5 DEF Erased, Disks
<1> HIDE DEF f, sl
<1>7. e \in Disks /\ e.fat = f /\ e.slots = sl /\ e.cur = d.cur
  BY <1>3, <1>4, <1>5, <1>6 DEF Disks
<1>8. d.cur.at # None => d.cur.at \in Cluster
  BY <1>1, <1>5 DEF Disks, Buffers
<1>9. CurOk(e)
  BY <1>2, <1>4, <1>5, <1>7, <1>8 DEF CurOk
<1> QED
  BY <1>3, <1>4, <1>7, <1>9 DEF Took

(* A directory gets its place in the tree.                                 *)
LEMMA DirMadeIs ==
  ASSUME NEW T, TreeState(T), lost' = lost, NEW n, NEW sfn,
         NEW d, NEW new, Good(d, T, lost, {new}), new \notin Heads(T), Chain(d.fat, new) = <<new>>,
         d.slots[new] = BlankSector,
         NEW a, Leads(d, RootDir, a.d, Heads(T) \cup {new}, lost),
         NEW b, NewIn(T[RootDir], Contents(a.d, RootDir), b, n, SfnEntry("dir", sfn, new, 0)),
         Leave(a.d, [kids EXCEPT ![RootDir] = @ \cup {DirNode(n, new)}, ![new] = {}], {new}),
         Purged(a.d)
  PROVE  TreeInv'
<1> DEFINE e == a.d
           s == Contents(e, RootDir)
           r == Contents(e, new)
           T2 == WithDir(T, s, new, r)
           f == SfnEntry("dir", sfn, new, 0)
           y == DirNode(n, new)
           j == [kids EXCEPT ![RootDir] = @ \cup {y}, ![new] = {}]
           G == filled \cup {new}
<1>1. Leads(d, RootDir, e, Heads(T) \cup {new}, lost) /\ s = Contents(e, RootDir)
      /\ NewIn(T[RootDir], s, b, n, SfnEntry("dir", sfn, new, 0)) /\ r = Contents(e, new)
      /\ T2 = WithDir(T, s, new, r) /\ y = DirNode(n, new)
  OBVIOUS
<1>2. f = SfnEntry("dir", sfn, new, 0) /\ f.t = "dir" /\ f.first = new
  BY DEF SfnEntry
<1>3. Leave(e, j, {new}) /\ Purged(e)
  OBVIOUS
<1>4. TreeOk(T) /\ NodesOk(kids, filled, T) /\ DOMAIN kids = Cluster
  BY StateFacts DEF NodesOk
<1> HIDE DEF e, s, r, T2, f, y
<1>5. Good(e, T2, lost, {}) /\ new \in Cluster /\ LiveAt(r) = {}
  <2>1. Good(d, T, lost, {new}) /\ new \notin Heads(T) /\ Chain(d.fat, new) = <<new>> /\ d.slots[new] = BlankSector
    OBVIOUS
  <2>2. Good(e, T2, lost, {})
    BY ONLY <1>1, <2>1, DirAdded
  <2>3. DiskOk(d) /\ TableOk(d.fat, Heads(T) \cup {new}, lost)
    BY ONLY <2>1, GoodFacts
  <2>4. new \in Cluster /\ HasChain(d.fat, new) /\ new # RootDir
    BY <1>4, <2>1, <2>3, TreeFacts DEF TableOk
  <2>5. r = Contents(d, new)
    BY <1>1, <2>4 DEF Leads
  <2>6. LiveAt(r) = {}
    BY <2>1, <2>3, <2>4, <2>5, BlankDir
  <2> QED
    BY <2>2, <2>4, <2>6
<1>6. new # RootDir
  BY <1>4, TreeFacts
<1>7. DOMAIN j = Cluster /\ j[RootDir] = kids[RootDir] \cup {y} /\ j[new] = {}
      /\ \A c \in Cluster : c # RootDir /\ c # new => j[c] = kids[c]
  BY <1>4, <1>5, <1>6, ClusterFacts
<1>8. \A c \in G : c \in filled \/ c = new
  OBVIOUS
<1> HIDE DEF j, G
<1>9. NewIn(T[RootDir], s, b, n, f)
  BY <1>1, <1>2
<1>10. NodesOk(j, G, T2)
  BY <1>1, <1>2, <1>4, <1>5, <1>7, <1>8, <1>9, NodesDir
<1>11. Behind(fatDisk', e.fat, T2)
  BY <1>3, <1>5, BehindSelf DEF Purged
<1>12. NodesOk(j, filled \cup {new}, T2)
  BY <1>10 DEF G
<1> QED
  BY <1>3, <1>5, <1>11, <1>12, LeftState

(* _fs_create_dir (fatfs.c:684-744).                                       *)
LEMMA MkDirStep ==
  ASSUME NEW T, TreeState(T), NEW n \in Name, MkDir(RootDir, n)
  PROVE  TreeInv'
<1> DEFINE c == RootDir
           r == Known
           g == fatfs_get_file_entry(r.d, c, n)
           new == Min(BlankCluster(fat))
           e == Erased(g.d, new)
           s == ShortName(e, c, n)
<1>1. /\ c \in Reached /\ Shows(kids, c) /\ c \in DOMAIN T /\ TreeOk(T) /\ Behind(fatDisk, fat, T) /\ fat \in Fats
      /\ FoundOk(r, filled, T, lost, fat) /\ Shows(r.kids, c) /\ r.kids = kids /\ r.from = {}
  BY StateFacts DEF Reached
<1>2. IF g.at # 0 \/ BlankCluster(fat) = {}
      THEN Leave(g.d, r.kids, r.from) /\ Buffered(g.d) /\ lost' = lost
      ELSE NamedDir(c, n, r, s, new)
  BY DEF MkDir, At
<1>3. g = fatfs_get_file_entry(r.d, c, n) /\ s = ShortName(e, c, n) /\ e = Erased(g.d, new) /\ c = RootDir
  OBVIOUS
<1> HIDE DEF c, r, g, e, s
<1>5. Good(r.d, T, lost, {}) /\ r.d.fat = fat
  BY <1>1 DEF FoundOk
<1>6. /\ After(r.d, c, g.d) /\ Good(g.d, T, lost, {}) /\ g.d.fat = fat
      /\ g.at = 0 => \A q \in LiveAt(T[c]) : Folded[NameAt(T[c], q)] # Folded[n]
  BY <1>1, <1>3, <1>5, SearchedIs
<1>7. CASE g.at # 0 \/ BlankCluster(fat) = {}
  BY <1>1, <1>2, <1>6, <1>7, OnlyRead
<1>8. CASE ~(g.at # 0 \/ BlankCluster(fat) = {})
  <2>1. new \in Cluster /\ fat[new] = 0
    BY <1>8, BlankIs
  <2>2. NamedDir(c, n, r, s, new)
    BY <1>2, <1>8
  <2> HIDE DEF new
  <2>3. Took(g.d, new, e) /\ e.slots[new] = BlankSector
    BY <1>3, <1>5, <1>6, <2>1, ErasedTook DEF After
  <2>4. Good(e, T, lost, {new}) /\ new \notin Heads(T) /\ Chain(e.fat, new) = <<new>>
    <3> DEFINE D == g.d
    <3>1. Good(D, T, lost, {}) /\ Took(D, new, e)
      BY <1>6, <2>3
    <3> HIDE DEF D
    <3>2. Good(e, T, lost, {new}) /\ new \notin Heads(T)
      BY ONLY <3>1, NewCluster
    <3>3. Chain(e.fat, new) = <<new>>
      BY ONLY <3>1, NewCluster
    <3> QED
      BY <3>2, <3>3
  <2>5. Behind(fatDisk, e.fat, T)
    BY <1>1, <1>6, <2>3, TookBehind
  <2>6. /\ Good(s.d, T, lost, {new}) /\ s.d.fat = e.fat /\ s.d.slots = e.slots
        /\ s.sfn # None => s.sfn \in Sfn /\ NewNames(T[c], n, s.sfn)
    <3> DEFINE X == {new}
    <3>1. Good(e, T, lost, X) /\ \A q \in LiveAt(T[c]) : Folded[NameAt(T[c], q)] # Folded[n]
      BY <1>6, <1>8, <2>4
    <3> HIDE DEF X
    <3>2. /\ Good(s.d, T, lost, X) /\ s.d.fat = e.fat /\ s.d.slots = e.slots
          /\ s.sfn # None => s.sfn \in Sfn /\ NewNames(T[c], n, s.sfn)
      BY <1>1, <1>3, <3>1, NamedIs
    <3> QED
      BY <3>2 DEF X
  <2>7. CASE s.sfn = None
    <3>1. Leave(s.d, r.kids, r.from) /\ Buffered(s.d) /\ lost' = lost \cup {new}
      BY <2>2, <2>7 DEF NamedDir
    <3>2. Good(s.d, T, lost', {})
      BY <2>4, <2>6, <3>1, IsLost
    <3>3. Behind(fatDisk', s.d.fat, T)
      BY <2>5, <2>6, <3>1, <3>2, Flushed DEF Buffered
    <3>4. NodesOk(r.kids, filled \cup r.from, T)
      BY <1>1 DEF FoundOk
    <3> QED
      BY <3>1, <3>2, <3>3, <3>4, LeftState
  <2>8. CASE s.sfn # None
    <3> DEFINE a == fatfs_add_file_entry(s.d, c, n, s.sfn, new, "dir")
               H == Heads(T) \cup {new}
    <3>1. DirMade(c, n, r, a, new)
      BY <2>2, <2>8 DEF NamedDir
    <3>2. a = fatfs_add_file_entry(s.d, c, n, s.sfn, new, "dir")
      OBVIOUS
    <3> HIDE DEF a
    <3>3. new \in Cluster \ {RootDir} /\ c \in H
      BY <1>1, <2>1, <2>4, TreeFacts
    <3>4. DiskOk(s.d) /\ TableOk(s.d.fat, H, lost) /\ T[c] = Contents(s.d, c) /\ DirOk(T[c])
      <4> DEFINE D == s.d
      <4>1. Good(D, T, lost, {new})
        BY <2>6
      <4> HIDE DEF D
      <4>2. DiskOk(D) /\ TableOk(D.fat, H, lost) /\ T[c] = Contents(D, c) /\ DirOk(T[c])
        BY <1>1, <4>1, GoodFacts
      <4> QED
        BY <4>2 DEF D
    <3> HIDE DEF H
    <3>5. "dir" \in Kind
      BY DEF Kind
    <3>6. /\ Leads(s.d, c, a.d, H, lost) /\ a.ok \in BOOLEAN
          /\ ~a.ok => Kin(T[c], Contents(a.d, c))
          /\ a.ok => \E b : NewIn(T[c], Contents(a.d, c), b, n, SfnEntry("dir", s.sfn, new, 0))
      BY <2>6, <2>8, <3>2, <3>3, <3>4, <3>5, AddedIs
    <3>7. Leads(s.d, c, a.d, Heads(T) \cup {new}, lost) /\ lost' = lost
      BY <3>1, <3>6 DEF H, DirMade
    <3>8. CASE ~a.ok
      <4>1. Leave(Freed(a.d, new), r.kids, r.from) /\ Buffered(Freed(a.d, new))
        BY <3>1, <3>8 DEF DirMade
      <4>2. Behind(fatDisk, s.d.fat, T)
        BY <2>5, <2>6
      <4> QED
        BY <1>1, <2>4, <2>6, <3>6, <3>7, <3>8, <4>1, <4>2, NoRoom
    <3>9. CASE a.ok
      <4>1. PICK b : NewIn(T[c], Contents(a.d, c), b, n, SfnEntry("dir", s.sfn, new, 0))
        BY <3>6, <3>9
      <4>2. Leave(a.d, [kids EXCEPT ![RootDir] = @ \cup {DirNode(n, new)}, ![new] = {}], {new}) /\ Purged(a.d)
        <5>1. Leave(a.d, [r.kids EXCEPT ![c] = @ \cup {DirNode(n, new)}, ![new] = {}], r.from \cup {new}) /\ Purged(a.d)
          BY <3>1, <3>9 DEF DirMade
        <5>2. r.from \cup {new} = {new}
          BY <1>1
        <5> QED
          BY <1>1, <1>3, <5>1, <5>2
      <4>3. Chain(s.d.fat, new) = <<new>> /\ s.d.slots[new] = BlankSector
        BY <2>3, <2>4, <2>6
      <4> QED
        BY <1>3, <2>4, <2>6, <3>7, <4>1, <4>2, <4>3, DirMadeIs
    <3> QED
      BY <3>6, <3>8, <3>9
  <2> QED
    BY <2>7, <2>8
<1> QED
  BY <1>7, <1>8

(* A child of a directory, found by its name.                              *)
LEMMA ChildIs ==
  ASSUME NEW T, TreeOk(T), NEW k, NEW F, NodesOk(k, F, T), NEW c, Shows(k, c), NEW x \in k[c]
  PROVE  \E p \in LiveAt(T[c]) :
           /\ NodeFor(T[c], p, x) /\ x.name = NameAt(T[c], p) /\ x.name \in Name
           /\ T[c][p].first \in Cluster /\ T[c][p].first # c
           /\ x.kind = "dir" => /\ c = RootDir /\ Shows(k, x.first) /\ x.first = T[c][p].first /\ x.info = None
                                /\ T[c][p].t = "dir"
           /\ x.kind # "dir" => /\ x.kind = "file" /\ x.first = 0 /\ T[c][p].first \notin DOMAIN T
                                /\ T[c][p].t = "file"
<1>1. c \in DOMAIN T /\ c \in Cluster /\ DirOk(T[c])
  BY ShowsFacts, TreeFacts
<1>2. PICK p \in LiveAt(T[c]) : NodeFor(T[c], p, x)
  BY <1>1 DEF NodesOk, KidsOk
<1>3. /\ x.name = NameAt(T[c], p)
      /\ x.kind = "dir" => T[c][p].t = "dir" /\ x.first = T[c][p].first /\ x.info = None
      /\ x.kind = "file" => T[c][p].t # "dir" /\ x.first = 0
      /\ x.kind = "file" \/ x.kind = "dir"
  BY <1>2, NodeFacts
<1>4. NameAt(T[c], p) \in Name /\ T[c][p].t \in Kind
  BY <1>1, DirFacts
<1>5. /\ T[c][p].first \in Cluster /\ T[c][p].first # c
      /\ T[c][p].t = "file" => T[c][p].first \notin DOMAIN T
      /\ T[c][p].t = "dir" => c = RootDir
  BY <1>1, TreeFacts
<1>6. x.kind = "dir" => Shows(k, x.first)
  BY <1>3, <1>5 DEF Shows
<1> QED
  BY <1>2, <1>3, <1>4, <1>5, <1>6 DEF Kind

(* A node goes with its entry.                                             *)
Unlists(T, k, c, y, p, x, s, T2, j) ==
  /\ y \in k[c] /\ p \in LiveAt(T[c]) /\ NodeFor(T[c], p, y) /\ x = T[c][p].first
  /\ y.kind = "dir" => k[x] = {} /\ y.first = x /\ T[c][p].t = "dir"
  /\ y.kind # "dir" => x \notin DOMAIN T
  /\ Marked(T[c], p, s) /\ T2 = Without(T, c, s, x)
  /\ DOMAIN j = Cluster /\ j[c] = k[c] \ {y} /\ \A b \in Cluster : b # c => j[b] = k[b]

(* A node that goes with its entry: the others still stand for theirs.     *)
LEMMA NodesGone ==
  ASSUME NEW T, TreeOk(T), NEW k, NEW F, NodesOk(k, F, T), NEW c, Shows(k, c),
         NEW y, NEW p, NEW x, NEW s, NEW T2, NEW j, Unlists(T, k, c, y, p, x, s, T2, j),
         NEW G, \A b \in G : b \in F /\ b # y.first
  PROVE  NodesOk(j, G, T2)
<1>a. /\ y \in k[c] /\ p \in LiveAt(T[c]) /\ NodeFor(T[c], p, y) /\ x = T[c][p].first
      /\ y.kind = "dir" => k[x] = {} /\ y.first = x /\ T[c][p].t = "dir"
      /\ y.kind # "dir" => x \notin DOMAIN T
      /\ Marked(T[c], p, s) /\ T2 = Without(T, c, s, x)
      /\ DOMAIN j = Cluster /\ j[c] = k[c] \ {y} /\ \A b \in Cluster : b # c => j[b] = k[b]
  BY DEF Unlists
<1> USE <1>a
<1>1. /\ c \in DOMAIN T /\ c \in Cluster /\ DOMAIN T \subseteq Cluster /\ RootDir \in DOMAIN T /\ DirOk(T[c])
      /\ x \in Cluster /\ x # c /\ x # RootDir
  BY ShowsFacts, TreeFacts
<1>2. /\ DOMAIN T2 = DOMAIN T \ {x} /\ T2[c] = s /\ \A b \in DOMAIN T2 : b # c => T2[b] = T[b]
  BY <1>1 DEF Without
<1>3. \A b : Shows(k, b) /\ (y.kind = "dir" => b # y.first) => Shows(j, b)
  <2>1. ASSUME NEW b, Shows(k, b), y.kind = "dir" => b # y.first PROVE Shows(j, b)
    <3>1. CASE b = RootDir
      BY <3>1 DEF Shows
    <3>2. CASE b # RootDir
      <4>1. PICK m \in k[RootDir] : m.kind = "dir" /\ m.first = b
        BY <2>1, <3>2 DEF Shows
      <4>2. m # y
        BY <2>1, <4>1
      <4>3. m \in j[RootDir]
        BY <1>1, <4>2
      <4> QED
        BY <4>1, <4>3 DEF Shows
    <3> QED
      BY <3>1, <3>2
  <2> QED
    BY <2>1
<1>4. \A b \in G : Shows(j, b)
  BY <1>3 DEF NodesOk
<1>5. \A b \in Cluster : j[b] # {} => Shows(j, b)
  <2>1. ASSUME NEW b \in Cluster, j[b] # {} PROVE Shows(j, b)
    <3>1. k[b] # {} /\ Shows(k, b)
      <4>1. k[b] # {}
        BY <1>1, <2>1
      <4> QED
        BY <4>1 DEF NodesOk
    <3>2. y.kind = "dir" => b # y.first
      BY <3>1
    <3> QED
      BY <1>3, <3>1, <3>2
  <2> QED
    BY <2>1
<1>6. KidsOk(j[c], s) /\ (c \in G => Full(j[c], s))
  <2>1. KidsOk(k[c], T[c]) /\ (c \in G => Full(k[c], T[c]))
    BY <1>1 DEF NodesOk
  <2>2. KidsOk(k[c] \ {y}, s) /\ (Full(k[c], T[c]) => Full(k[c] \ {y}, s))
    BY <1>1, <2>1, KidsRemoved
  <2> QED
    BY <2>1, <2>2
<1>7. \A b \in DOMAIN T2 : KidsOk(j[b], T2[b]) /\ (b \in G => Full(j[b], T2[b]))
  <2>1. ASSUME NEW b \in DOMAIN T2, b # c PROVE KidsOk(j[b], T2[b]) /\ (b \in G => Full(j[b], T2[b]))
    <3>1. b \in DOMAIN T /\ j[b] = k[b] /\ T2[b] = T[b] /\ (b \in G => b \in F)
      BY <1>1, <1>2, <2>1
    <3> QED
      BY <3>1 DEF NodesOk
  <2> QED
    BY <1>2, <1>6, <2>1
<1> QED
  BY <1>4, <1>5, <1>7 DEF NodesOk

(* The entry is found again, and it goes with what it leads to.            *)
LEMMA UnlinkedStep ==
  ASSUME NEW T, TreeState(T), lost' = lost, NEW in, FoundOk(in, filled, T, lost, fat),
         NEW c, Shows(in.kids, c), NEW node \in in.kids[c],
         node.kind = "dir" => in.kids[node.first] = {} /\ LiveAt(T[node.first]) = {},
         NEW g, g = fatfs_get_file_entry(in.d, c, node.name), Unlinked(c, node, in, g, Entries(in.d, c)[g.at])
  PROVE  TreeInv'
<1>1. TreeOk(T) /\ Good(in.d, T, lost, {}) /\ in.d.fat = fat /\ NodesOk(in.kids, filled \cup in.from, T)
      /\ Behind(fatDisk, fat, T)
  BY StateFacts DEF FoundOk
<1> DEFINE F == filled \cup in.from
           k == in.kids
<1>2. c \in DOMAIN T /\ c \in Cluster /\ DirOk(T[c]) /\ DOMAIN k = Cluster
  BY <1>1, ShowsFacts, TreeFacts DEF NodesOk
<1>3. NodesOk(k, F, T) /\ Shows(k, c) /\ node \in k[c]
  BY <1>1
<1>4. node.kind = "dir" => k[node.first] = {} /\ LiveAt(T[node.first]) = {}
  OBVIOUS
<1>5. \E d \in {fatfs_mark_file_deleted(Freed(g.d, Entries(in.d, c)[g.at].first), c, Entries(in.d, c)[g.at].sfn)} :
        /\ Put(d) /\ Buffered(d)
        /\ kids' = [k EXCEPT ![c] = @ \ {node}]
        /\ filled' = F \ {node.first}
  BY DEF Unlinked
<1> HIDE DEF F, k
<1>6. PICK p \in LiveAt(T[c]) :
           /\ NodeFor(T[c], p, node) /\ node.name = NameAt(T[c], p) /\ node.name \in Name
           /\ T[c][p].first \in Cluster /\ T[c][p].first # c
           /\ node.kind = "dir" => /\ c = RootDir /\ Shows(k, node.first) /\ node.first = T[c][p].first
                                   /\ node.info = None /\ T[c][p].t = "dir"
           /\ node.kind # "dir" => /\ node.kind = "file" /\ node.first = 0 /\ T[c][p].first \notin DOMAIN T
                                   /\ T[c][p].t = "file"
  BY <1>1, <1>3, ChildIs
<1>7. g.at = p /\ Good(g.d, T, lost, {}) /\ g.d.fat = fat
  BY <1>1, <1>2, <1>6, SearchedIs
<1>8. Entries(in.d, c) = T[c]
  BY <1>1, <1>2, EntriesGood
<1> DEFINE x == T[c][p].first
           sfn == T[c][p].sfn
           e == fatfs_mark_file_deleted(Freed(g.d, x), c, sfn)
           s == [T[c] EXCEPT ![p] = Deleted]
           T2 == Without(T, c, s, x)
           j == [k EXCEPT ![c] = @ \ {node}]
           G == F \ {node.first}
<1>9. Put(e) /\ Buffered(e) /\ kids' = j /\ filled' = G
  BY <1>5, <1>7, <1>8
<1>10. Marked(T[c], p, s) /\ x = T[c][p].first /\ T[c][p].sfn = sfn /\ T2 = Without(T, c, s, x)
       /\ e = fatfs_mark_file_deleted(Freed(g.d, x), c, sfn)
  BY DEF Marked
<1>11. DOMAIN j = Cluster /\ j[c] = k[c] \ {node} /\ \A b \in Cluster : b # c => j[b] = k[b]
  BY <1>2
<1>12. \A b \in G : b \in F /\ b # node.first
  OBVIOUS
<1> HIDE DEF x, sfn, e, s, T2, j, G
<1>13. x \in DOMAIN T => LiveAt(T[x]) = {}
  BY <1>4, <1>6, <1>10
<1>14. Good(e, T2, lost, {}) /\ (Behind(fatDisk, fat, T) => Behind(fatDisk, e.fat, T2))
  <2>1. Removes(g.d, T, c, p, x, e, s, T2)
    BY <1>2, <1>10, <1>13 DEF Removes
  <2>2. Good(e, T2, lost, {})
    BY <1>7, <2>1, EntryRemoved
  <2>3. ASSUME Behind(fatDisk, fat, T) PROVE Behind(fatDisk, e.fat, T2)
    BY <1>7, <2>1, <2>3, RemovedBehind
  <2> QED
    BY <2>2, <2>3
<1>15. Behind(fatDisk', e.fat, T2)
  BY <1>1, <1>9, <1>14, Flushed DEF Buffered
<1>16. NodesOk(j, G, T2)
  <2>1. /\ node.kind = "dir" => k[x] = {} /\ node.first = x /\ T[c][p].t = "dir"
        /\ node.kind # "dir" => x \notin DOMAIN T
    BY <1>4, <1>6, <1>10
  <2>2. Unlists(T, k, c, node, p, x, s, T2, j)
    BY <1>3, <1>6, <1>10, <1>11, <2>1 DEF Unlists
  <2> QED
    BY <1>1, <1>3, <1>12, <2>2, NodesGone
<1> QED
  BY <1>9, <1>14, <1>15, <1>16, PutState

(* _fs_remove (fatfs.c:550-582).                                           *)
LEMMA RemoveChildStep ==
  ASSUME NEW T, TreeState(T), NEW c \in Reached, NEW n \in Name, RemoveChild(c, n)
  PROVE  TreeInv'
<1> DEFINE r == Find(c)
<1>1. Shows(kids, c) /\ c \in DOMAIN T /\ TreeOk(T)
  BY StateFacts
<1>2. FoundOk(r, filled, T, lost, fat) /\ Shows(r.kids, c)
  BY <1>1, FindIs
<1>3. lost' = lost
  BY DEF RemoveChild
<1>4. PICK node \in Child(r.kids, c, n) :
        \E in \in {IF node.kind = "dir" THEN PopulatedToo(r, node.first) ELSE r} : RemoveIn(c, node, in)
  BY DEF RemoveChild
<1> HIDE DEF r
<1> DEFINE in == IF node.kind = "dir" THEN PopulatedToo(r, node.first) ELSE r
<1>5. RemoveIn(c, node, in)
  BY <1>4
<1>6. node \in r.kids[c] /\ c \in Cluster
  BY <1>1, <1>4, ShowsFacts, TreeFacts DEF Child
<1>7. NodesOk(r.kids, filled \cup r.from, T)
  BY <1>2 DEF FoundOk
<1>8. /\ node.name \in Name
      /\ node.kind = "dir" => c = RootDir /\ Shows(r.kids, node.first) /\ node.first # c
  BY <1>1, <1>2, <1>6, <1>7, ChildIs
<1>9. /\ FoundOk(in, filled, T, lost, fat) /\ Shows(in.kids, c) /\ node \in in.kids[c]
      /\ node.kind = "dir" /\ in.kids[node.first] = {} => LiveAt(T[node.first]) = {}
  <2>1. CASE node.kind # "dir"
    BY <1>2, <1>6, <2>1
  <2>2. CASE node.kind = "dir"
    <3>1. in = PopulatedToo(r, node.first)
      BY <2>2
    <3> DEFINE x == node.first
    <3>3. Shows(r.kids, x) /\ in = PopulatedToo(r, x)
      BY <1>8, <2>2, <3>1
    <3> HIDE DEF in, x
    <3>4. /\ FoundOk(in, filled, T, lost, fat) /\ \A b : Shows(r.kids, b) => Shows(in.kids, b)
          /\ in.kids[x] = {} => LiveAt(T[x]) = {}
          /\ \A b \in Cluster : b # x => in.kids[b] = r.kids[b]
      BY <1>2, <3>3, TooIs
    <3>2. /\ FoundOk(in, filled, T, lost, fat) /\ \A b : Shows(r.kids, b) => Shows(in.kids, b)
          /\ in.kids[node.first] = {} => LiveAt(T[node.first]) = {}
          /\ \A b \in Cluster : b # node.first => in.kids[b] = r.kids[b]
      BY <3>4 DEF x
    <3> QED
      BY <1>2, <1>6, <1>8, <2>2, <3>2
  <2> QED
    BY <2>1, <2>2
<1> HIDE DEF in
<1> DEFINE g == fatfs_get_file_entry(in.d, c, node.name)
<1>10. IF node.kind = "dir" /\ in.kids[node.first] # {}
       THEN Leave(in.d, in.kids, in.from) /\ fatDisk' = fatDisk
       ELSE IF g.at = 0 THEN Leave(g.d, in.kids, in.from) /\ fatDisk' = fatDisk
                        ELSE Unlinked(c, node, in, g, Entries(in.d, c)[g.at])
  BY <1>5 DEF RemoveIn
<1>11. g = fatfs_get_file_entry(in.d, c, node.name)
  OBVIOUS
<1> HIDE DEF g
<1>12. Good(in.d, T, lost, {}) /\ in.d.fat = fat
  BY <1>9 DEF FoundOk
<1>13. Good(g.d, T, lost, {}) /\ g.d.fat = fat
  BY <1>1, <1>8, <1>11, <1>12, SearchedIs
<1>14. CASE node.kind = "dir" /\ in.kids[node.first] # {}
  BY <1>3, <1>9, <1>10, <1>12, <1>14, OnlyRead
<1>15. CASE ~(node.kind = "dir" /\ in.kids[node.first] # {}) /\ g.at = 0
  BY <1>3, <1>9, <1>10, <1>13, <1>15, OnlyRead
<1>16. CASE ~(node.kind = "dir" /\ in.kids[node.first] # {}) /\ g.at # 0
  BY <1>3, <1>9, <1>10, <1>11, <1>16, UnlinkedStep
<1> QED
  BY <1>14, <1>15, <1>16

(* The node of a file is replaced; its entry may change with it.           *)
Replaces(T, k, c, x, p, s, y, T2, j) ==
  /\ x \in k[c] /\ x.kind = "file" /\ p \in LiveAt(T[c]) /\ NodeFor(T[c], p, x)
  /\ LiveAt(s) = LiveAt(T[c])
  /\ \A q \in LiveAt(T[c]) : NameAt(s, q) = NameAt(T[c], q) /\ (q # p => s[q] = T[c][q])
  /\ NodeFor(s, p, y)
  /\ DOMAIN T2 = DOMAIN T /\ T2[c] = s /\ \A b \in DOMAIN T : b # c => T2[b] = T[b]
  /\ DOMAIN j = Cluster /\ j[c] = (k[c] \ {x}) \cup {y} /\ \A b \in Cluster : b # c => j[b] = k[b]

(* A node that is replaced with its entry: the others still stand for      *)
(* theirs.                                                                 *)
LEMMA NodesReplaced ==
  ASSUME NEW T, TreeOk(T), NEW k, NEW F, NodesOk(k, F, T), NEW c, Shows(k, c),
         NEW x, NEW p, NEW s, NEW y, NEW T2, NEW j, Replaces(T, k, c, x, p, s, y, T2, j)
  PROVE  NodesOk(j, F, T2)
<1>1. c \in DOMAIN T /\ c \in Cluster /\ DirOk(T[c])
  BY ShowsFacts, TreeFacts
<1>2. KidsOk(k[c], T[c]) /\ (c \in F => Full(k[c], T[c]))
  BY <1>1 DEF NodesOk
<1>3. KidsOk((k[c] \ {x}) \cup {y}, s) /\ (Full(k[c], T[c]) => Full((k[c] \ {x}) \cup {y}, s))
  <2>1. p \in LiveAt(T[c]) /\ LiveAt(s) = LiveAt(T[c]) /\ x \in k[c] /\ NodeFor(T[c], p, x) /\ NodeFor(s, p, y)
    BY DEF Replaces
  <2>2. \A q \in LiveAt(T[c]) : NameAt(s, q) = NameAt(T[c], q) /\ (q # p => s[q] = T[c][q])
    BY DEF Replaces
  <2> QED
    BY <1>1, <1>2, <2>1, <2>2, KidsReplaced
<1>4. KidsOk(j[c], T2[c]) /\ (c \in F => Full(j[c], T2[c]))
  BY <1>2, <1>3 DEF Replaces
<1>5. c = RootDir => \A n \in k[RootDir] : n.kind = "dir" =>
                          \E m \in j[RootDir] : m.kind = "dir" /\ m.first = n.first
  <2>1. x.kind = "file" /\ (\A n \in k[c] : n # x => n \in j[c]) /\ "file" # "dir"
    BY DEF Replaces
  <2> QED
    BY <2>1
<1>6. /\ DOMAIN T2 = DOMAIN T /\ \A b \in DOMAIN T : b # c => T2[b] = T[b]
      /\ DOMAIN j = Cluster /\ \A b \in Cluster : b # c => j[b] = k[b]
      /\ \A b \in F : b \in F \/ b = c
  BY DEF Replaces
<1> QED
  BY <1>4, <1>5, <1>6, NodesChange

(* _fs_open_file (fatfs.c:501-537).                                        *)
LEMMA OpenStep ==
  ASSUME NEW T, TreeState(T), NEW c \in Reached, NEW n \in Name, Open(c, n)
  PROVE  TreeInv'
<1> DEFINE r == Find(c)
<1>1. Shows(kids, c) /\ c \in DOMAIN T /\ TreeOk(T) /\ c \in Cluster /\ Behind(fatDisk, fat, T)
  BY StateFacts, TreeFacts
<1>2. FoundOk(r, filled, T, lost, fat) /\ Shows(r.kids, c)
  BY <1>1, FindIs
<1>3. lost' = lost /\ fatDisk' = fatDisk
  BY DEF Open
<1>4. PICK node \in Child(r.kids, c, n) : node.kind = "file" /\ OpenNode(c, node, r)
  BY DEF Open
<1> HIDE DEF r
<1>5. node \in r.kids[c]
  BY <1>4 DEF Child
<1>6. Good(r.d, T, lost, {}) /\ r.d.fat = fat /\ NodesOk(r.kids, filled \cup r.from, T)
  BY <1>2 DEF FoundOk
<1>7. PICK p \in LiveAt(T[c]) :
        NodeFor(T[c], p, node) /\ node.name = NameAt(T[c], p) /\ node.name \in Name /\ T[c][p].t = "file"
  BY <1>1, <1>2, <1>4, <1>5, <1>6, ChildIs
<1> DEFINE g == fatfs_get_file_entry(r.d, c, node.name)
           e == Entries(r.d, c)[g.at]
           y == FileNode(node.name, e.size, [first |-> e.first, sfn |-> e.sfn])
           j == [r.kids EXCEPT ![c] = (@ \ {node}) \cup {y}]
<1>8. IF node.info # None THEN Leave(r.d, r.kids, r.from)
      ELSE IF g.at = 0 THEN Leave(g.d, r.kids, r.from) ELSE Leave(g.d, j, r.from)
  BY <1>4 DEF OpenNode
<1>9. g = fatfs_get_file_entry(r.d, c, node.name) /\ e = Entries(r.d, c)[g.at]
      /\ y = FileNode(node.name, e.size, [first |-> e.first, sfn |-> e.sfn])
  OBVIOUS
<1>10. DOMAIN j = Cluster /\ j[c] = (r.kids[c] \ {node}) \cup {y} /\ \A b \in Cluster : b # c => j[b] = r.kids[b]
  BY <1>1, <1>6 DEF NodesOk
<1> HIDE DEF g, e, y, j
<1>11. g.at = p /\ Good(g.d, T, lost, {}) /\ g.d.fat = fat
  BY <1>1, <1>6, <1>7, <1>9, SearchedIs
<1>12. e = T[c][p]
  BY <1>1, <1>6, <1>9, <1>11, EntriesGood
<1>13. CASE node.info # None
  BY <1>2, <1>3, <1>6, <1>8, <1>13, OnlyRead
<1>14. CASE node.info = None /\ g.at = 0
  BY <1>2, <1>3, <1>8, <1>11, <1>14, OnlyRead
<1>15. CASE node.info = None /\ g.at # 0
  <2>1. NodeFor(T[c], p, y)
    BY <1>7, <1>9, <1>12 DEF NodeFor, Info
  <2>2. Replaces(T, r.kids, c, node, p, T[c], y, T, j)
    BY <1>4, <1>5, <1>7, <1>10, <2>1 DEF Replaces
  <2> DEFINE F == filled \cup r.from
  <2>3. NodesOk(r.kids, F, T)
    BY <1>6
  <2> HIDE DEF F
  <2>4. NodesOk(j, F, T)
    BY <1>1, <1>2, <2>2, <2>3, NodesReplaced
  <2>5. NodesOk(j, filled \cup r.from, T)
    BY <2>4 DEF F
  <2>6. Leave(g.d, j, r.from) /\ Behind(fatDisk', g.d.fat, T) /\ Good(g.d, T, lost', {})
    BY <1>1, <1>3, <1>8, <1>11, <1>15
  <2> QED
    BY <2>5, <2>6, LeftState
<1> QED
  BY <1>13, <1>14, <1>15

(* _fs_close_file (fatfs.c:539-548).                                       *)
LEMMA CloseStep ==
  ASSUME NEW T, TreeState(T), NEW c \in Reached, NEW x, Close(c, x)
  PROVE  TreeInv'
<1>1. Shows(kids, c) /\ c \in DOMAIN T /\ TreeOk(T) /\ c \in Cluster /\ Behind(fatDisk, fat, T)
      /\ Good(Now, T, lost, {}) /\ Now.fat = fat /\ NodesOk(kids, filled, T)
  BY StateFacts, TreeFacts
<1> DEFINE y == [x EXCEPT !.info = None]
           j == [kids EXCEPT ![c] = (@ \ {x}) \cup {y}]
<1>2. x \in kids[c] /\ x.kind = "file" /\ kids' = j /\ filled' = filled /\ lost' = lost /\ fatDisk' = fatDisk
      /\ Put(Now)
  BY DEF Close, Files, Put, Now
<1>3. PICK p \in LiveAt(T[c]) : NodeFor(T[c], p, x)
  BY <1>1, <1>2, ChildIs
<1>4. NodeFor(T[c], p, y)
  <2>1. y = NodeOf(T[c], p)
    BY <1>3, NodeFacts
  <2> HIDE DEF y
  <2> QED
    BY <2>1, NodeOfIs
<1>5. DOMAIN j = Cluster /\ j[c] = (kids[c] \ {x}) \cup {y} /\ \A b \in Cluster : b # c => j[b] = kids[b]
  BY <1>1 DEF NodesOk
<1> HIDE DEF y, j
<1>6. Replaces(T, kids, c, x, p, T[c], y, T, j)
  BY <1>2, <1>3, <1>4, <1>5 DEF Replaces
<1>7. NodesOk(j, filled, T)
  BY <1>1, <1>6, NodesReplaced
<1> QED
  BY <1>1, <1>2, <1>7, PutState

(* The entry of a file that became longer.                                 *)
LEMMA LengthenStep ==
  ASSUME NEW T, TreeState(T), NEW c \in Reached, NEW x, Lengthen(c, x)
  PROVE  TreeInv'
<1>1. Shows(kids, c) /\ c \in DOMAIN T /\ TreeOk(T) /\ c \in Cluster /\ DirOk(T[c])
      /\ Good(Now, T, lost, {}) /\ Now.fat = fat /\ NodesOk(kids, filled, T)
  BY StateFacts, TreeFacts
<1> DEFINE z == x.len + 1
           y == [x EXCEPT !.len = @ + 1]
           j == [kids EXCEPT ![c] = (@ \ {x}) \cup {y}]
           d == fatfs_update_file_length(Now, c, x.info.sfn, z)
<1>2. x \in kids[c] /\ x.kind = "file" /\ x.info # None /\ kids' = j /\ filled' = filled /\ lost' = lost
      /\ Put(d) /\ Purged(d)
  BY DEF Lengthen, Files
<1>3. PICK p \in LiveAt(T[c]) : NodeFor(T[c], p, x) /\ T[c][p].t = "file"
  BY <1>1, <1>2, ChildIs
<1>4. x.len = T[c][p].size /\ x.info.sfn = T[c][p].sfn /\ T[c][p].size \in Nat /\ z \in Nat /\ z = T[c][p].size + 1
  <2>1. x.len = T[c][p].size /\ x.info.sfn = T[c][p].sfn
    BY <1>2, <1>3, NodeFacts
  <2>2. T[c][p].size \in Nat
    BY <1>1, DirFacts
  <2> QED
    BY <2>1, <2>2
<1> DEFINE s == [T[c] EXCEPT ![p] = [T[c][p] EXCEPT !.size = z]]
           T2 == With(T, c, s)
<1>5. d = fatfs_update_file_length(Now, c, x.info.sfn, z) /\ T2 = With(T, c, s)
      /\ s = [T[c] EXCEPT ![p] = [T[c][p] EXCEPT !.size = z]]
  OBVIOUS
<1>6. DOMAIN j = Cluster /\ j[c] = (kids[c] \ {x}) \cup {y} /\ \A b \in Cluster : b # c => j[b] = kids[b]
  BY <1>1 DEF NodesOk
<1>7. x = FileNode(NameAt(T[c], p), T[c][p].size, Info(T[c], p))
  BY <1>2, <1>3 DEF NodeFor, FileNode
<1>8. y = FileNode(NameAt(T[c], p), z, Info(T[c], p))
  BY <1>4, <1>7 DEF FileNode
<1> HIDE DEF z, y, j, d, s, T2
<1>9. /\ DirOk(s) /\ LiveAt(s) = LiveAt(T[c])
      /\ \A q \in LiveAt(T[c]) : NameAt(s, q) = NameAt(T[c], q) /\ (q # p => s[q] = T[c][q])
      /\ s[p] = SfnEntry(T[c][p].t, T[c][p].sfn, T[c][p].first, z)
  <2>1. Resized(T[c], p, z, s)
    BY <1>5 DEF Resized
  <2> QED
    BY <1>1, <1>4, <2>1, ResizedDir
<1>10. s[p].t = T[c][p].t /\ s[p].first = T[c][p].first /\ s[p].sfn = T[c][p].sfn /\ s[p].size = z
  BY <1>9 DEF SfnEntry
<1>11. Alike(T[c], s)
  BY <1>9, <1>10 DEF Alike
<1>12. NodeFor(s, p, y)
  <2>1. NameAt(s, p) = NameAt(T[c], p)
    BY <1>9
  <2> QED
    BY <1>3, <1>8, <1>10, <2>1 DEF NodeFor, Info
<1>13. Changed(Now, c, d, s)
  <2>1. DiskOk(Now) /\ HasChain(Now.fat, c) /\ T[c] = Contents(Now, c)
    BY <1>1, GoodFacts
  <2> HIDE DEF Now
  <2>2. DirOk(Contents(Now, c)) /\ p \in LiveAt(Contents(Now, c)) /\ Contents(Now, c)[p].sfn = x.info.sfn
    BY <1>1, <1>4, <2>1
  <2>3. Changed(Now, c, fatfs_update_file_length(Now, c, x.info.sfn, z),
                 [Contents(Now, c) EXCEPT ![p] = [Contents(Now, c)[p] EXCEPT !.size = z]])
    BY <1>4, <2>1, <2>2, ResizedIs
  <2> QED
    BY <1>5, <2>1, <2>3
<1>14. Good(d, T2, lost, {})
  <2> DEFINE X == {}
             H == Heads(T) \cup X
  <2>1. Good(Now, T, lost, X)
    BY <1>1
  <2> HIDE DEF X
  <2>2. TableOk(Now.fat, H, lost) /\ c \in H
    BY <1>1, <2>1, GoodFacts
  <2> HIDE DEF H
  <2>3. Leads(Now, c, d, H, lost) /\ Contents(d, c) = s
    BY <1>13, <2>2, ChangedLeads
  <2>4. Leads(Now, c, d, Heads(T) \cup X, lost) /\ s = Contents(d, c)
    BY <2>3 DEF H
  <2>5. Good(d, T2, lost, X)
    BY <1>1, <1>5, <1>11, <2>1, <2>4, SameTree
  <2> QED
    BY <2>5 DEF X
<1>15. DOMAIN T2 = DOMAIN T /\ T2[c] = s /\ \A b \in DOMAIN T : b # c => T2[b] = T[b]
  BY <1>1, <1>5 DEF With
<1>16. Replaces(T, kids, c, x, p, s, y, T2, j)
  BY <1>2, <1>3, <1>6, <1>9, <1>12, <1>15 DEF Replaces
<1>17. NodesOk(j, filled, T2)
  BY <1>1, <1>16, NodesReplaced
<1>18. Behind(fatDisk', d.fat, T2)
  BY <1>2, <1>14, BehindSelf DEF Purged
<1> QED
  BY <1>2, <1>14, <1>17, <1>18, PutState

(* Power off and on: the tree is still there, its directories as long as   *)
(* the table on the disk has them (fatfs.c:853-905).                       *)
LEMMA RemountStep ==
  ASSUME NEW T, TreeState(T), Remount
  PROVE  TreeInv'
<1> DEFINE e == OnDisk(fatDisk)
           T2 == Seen(e, T)
           K == {c \in Cluster : fatDisk[c] # 0} \ Led(fatDisk, T)
<1>1. /\ Good(Now, T, lost, {}) /\ Behind(fatDisk, fat, T) /\ TreeOk(T)
      /\ Now.fat = fat /\ Now.slots = slots /\ slots \in [Cluster -> Block]
  BY StateFacts, NowIs
<1>2. fatDisk \in Fats
  BY <1>1 DEF Behind
<1>3. e \in Disks /\ CurOk(e) /\ e.fat = fatDisk /\ e.slots = Now.slots /\ e.cur = NoSector
  BY <1>1, <1>2, OnDiskIs DEF OnDisk
<1>4. /\ Put(e) /\ fatDisk' = fatDisk /\ kids' = [c \in Cluster |-> {}] /\ filled' = {}
      /\ lost' = {c \in Cluster : fatDisk[c] # 0} \ Used(fatDisk)
  BY <1>1, <1>3 DEF Remount, Put
<1>5. T2 = Seen(e, T) /\ e = OnDisk(fatDisk) /\ K = {c \in Cluster : fatDisk[c] # 0} \ Led(fatDisk, T)
  OBVIOUS
<1> HIDE DEF e, T2
<1>6. Behind(fatDisk, Now.fat, T)
  BY <1>1
<1>7. Good(e, T2, K, {}) /\ Heads(T2) = Heads(T) /\ DOMAIN T2 = DOMAIN T
  BY <1>1, <1>3, <1>5, <1>6, Remounted
<1>8. lost' = K
  <2>1. Used(fatDisk) = Led(fatDisk, T2)
    BY <1>1, <1>2, <1>5, <1>7, UsedIs
  <2>2. Led(fatDisk, T2) = Led(fatDisk, T)
    BY <1>7 DEF Led
  <2> QED
    BY <1>4, <2>1, <2>2
<1> HIDE DEF K
<1>9. Good(e, T2, lost', {})
  BY <1>7, <1>8
<1>10. NodesOk(kids', filled', T2)
  <2>1. DOMAIN T2 \subseteq Cluster
    BY <1>1, <1>7, TreeFacts
  <2> QED
    BY <1>4, <2>1 DEF NodesOk, KidsOk
<1>11. Behind(fatDisk', e.fat, T2)
  BY <1>3, <1>4, <1>7, BehindSelf
<1> QED
  BY <1>4, <1>9, <1>10, <1>11, PutState

LEMMA StutterStep ==
  ASSUME NEW T, TreeState(T), UNCHANGED treeVars
  PROVE  TreeInv'
<1>1. TreeState(T)'
  BY DEF treeVars, TreeState, Now
<1> QED
  BY <1>1 DEF TreeInv

(* The disk as it comes.                                                   *)
LEMMA SingleChain ==
  ASSUME NEW f \in Fats, NEW c \in Cluster, f[c] = LAST_CLUSTER
  PROVE  Chain(f, c) = <<c>> /\ HasChain(f, c) /\ Own(f, c) = {c}
<1> DEFINE s == <<c>>
<1>1. s \in Seq(Cluster) /\ Len(s) = 1 /\ s[1] = c
  OBVIOUS
<1> HIDE DEF s
<1>2. IsChain(f, s)
  BY <1>1 DEF IsChain
<1>3. Chain(f, c) = s
  BY <1>1, <1>2, ChainIs
<1>4. Range(s) = {c}
  BY DEF s, Range
<1> QED
  BY <1>1, <1>2, <1>3, <1>4 DEF HasChain, Own, s

(* A tree of the root alone, with files of one cluster.                    *)
LEMMA FirstTree ==
  ASSUME fat \in Fats, slots \in [Cluster -> Block], cur = NoSector, fatDisk = fat, fat[RootDir] = LAST_CLUSTER,
         NEW s, s = Contents(Now, RootDir), DirOk(s),
         \A p \in LiveAt(s) : s[p].t = "file" /\ fat[s[p].first] = LAST_CLUSTER,
         \A p, q \in LiveAt(s) : s[p].first = s[q].first => p = q,
         \A x \in Cluster : fat[x] # 0 <=> x = RootDir \/ \E p \in LiveAt(s) : x = s[p].first,
         kids = [c \in Cluster |-> {}], filled = {}, lost = {}
  PROVE  TreeInv
<1> DEFINE T == [x \in {RootDir} |-> s]
<1>1. DOMAIN T = {RootDir} /\ T[RootDir] = s
  OBVIOUS
<1> HIDE DEF T
<1>2. \A p \in LiveAt(s) : s[p].t = "file" /\ s[p].first \in Cluster /\ s[p].first # RootDir
  BY DirFacts
<1>3. Now.fat = fat /\ DiskOk(Now)
  BY BlankFacts DEF Now, DiskOk, Disks, CurOk, NoSector
<1>4. \A x : x \in Heads(T) <=> x = RootDir \/ \E p \in LiveAt(s) : s[p].first = x
  BY <1>1, HeadsAre
<1>5. TreeOk(T)
  <2>1. SubDirs(s) = {}
    BY <1>2 DEF SubDirs
  <2>2. OnePlace(T)
    BY <1>1 DEF OnePlace
  <2> QED
    BY <1>1, <2>1, <2>2 DEF TreeOk
<1>6. \A x \in Heads(T) : x \in Cluster /\ fat[x] = LAST_CLUSTER
  BY <1>2, <1>4, ClusterFacts
<1>7. \A x \in Heads(T) : HasChain(fat, x) /\ Own(fat, x) = {x}
  BY <1>6, SingleChain
<1>8. TableOk(fat, Heads(T), lost)
  BY <1>4, <1>6, <1>7 DEF TableOk
<1>9. Good(Now, T, lost, {})
  BY <1>1, <1>3, <1>5, <1>8, MadeGood
<1>10. NodesOk(kids, filled, T)
  BY <1>1, ClusterFacts DEF NodesOk, KidsOk
<1>11. Behind(fatDisk, fat, T)
  BY <1>3, <1>9, BehindSelf
<1> QED
  BY <1>9, <1>10, <1>11 DEF TreeInv, TreeState

(* A disk with nothing in its root, or one file.                           *)
LEMMA TreeStart ==
  ASSUME TreeInit
  PROVE  TreeInv
<1>1. /\ cur = NoSector /\ fatDisk = fat /\ kids = [c \in Cluster |-> {}] /\ filled = {} /\ lost = {}
  BY DEF TreeInit
<1>2. LAST_CLUSTER # 0 /\ RootDir \in Cluster /\ RootDir + 1 \in Cluster /\ RootDir # RootDir + 1
  BY ClusterFacts DEF RootDir
<1> DEFINE s == Contents(Now, RootDir)
<1>3. CASE /\ fat = [c \in Cluster |-> IF c = RootDir THEN LAST_CLUSTER ELSE 0]
           /\ slots = [c \in Cluster |-> BlankSector]
  <2>1. fat \in Fats /\ fat[RootDir] = LAST_CLUSTER /\ \A x \in Cluster : fat[x] # 0 <=> x = RootDir
    BY <1>2, <1>3 DEF Fats
  <2>2. slots \in [Cluster -> Block] /\ slots[RootDir] = BlankSector
    BY <1>2, <1>3, BlankFacts
  <2>3. Now.fat = fat /\ Now.slots = slots /\ DiskOk(Now)
    BY <1>1, <2>1, <2>2, BlankFacts DEF Now, DiskOk, Disks, CurOk, NoSector
  <2>4. DirOk(s) /\ LiveAt(s) = {}
    BY <1>2, <2>1, <2>2, <2>3, SingleChain, BlankDir
  <2>5. s = Contents(Now, RootDir)
    OBVIOUS
  <2> HIDE DEF s
  <2> QED
    BY <1>1, <2>1, <2>2, <2>4, <2>5, FirstTree
<1>4. ASSUME NEW b \in DOMAIN Shown,
             fat = [c \in Cluster |-> IF c \in {RootDir, RootDir + 1} THEN LAST_CLUSTER ELSE 0],
             slots = [c \in Cluster |-> IF c # RootDir THEN BlankSector
               ELSE [BlankSector EXCEPT ![1] = SfnEntry("file", <<b, 0>>, RootDir + 1, 0)]]
      PROVE  TreeInv
  <2> DEFINE f == SfnEntry("file", <<b, 0>>, RootDir + 1, 0)
             z == [BlankSector EXCEPT ![1] = f]
  <2>1. /\ fat \in Fats /\ fat[RootDir] = LAST_CLUSTER /\ fat[RootDir + 1] = LAST_CLUSTER
        /\ \A x \in Cluster : fat[x] # 0 <=> x = RootDir \/ x = RootDir + 1
    BY <1>2, <1>4 DEF Fats
  <2>2. f \in Cell /\ f.t = "file" /\ f.first = RootDir + 1 /\ f.sfn[1] = b /\ Live(f)
    <3>1. <<b, 0>> \in Sfn /\ <<b, 0>>[1] = b /\ "file" \in Kind
      BY <1>4 DEF Sfn, Kind
    <3>2. RootDir + 1 \in Cluster \ {RootDir} /\ 0 \in Nat
      BY <1>2
    <3>3. f \in Cell
      BY <3>1, <3>2, CellsAre
    <3> QED
      BY <3>1, <3>3 DEF SfnEntry, Live
  <2> HIDE DEF f
  <2>3. z \in Block /\ z[1] = f /\ \A i \in 1 .. Slots : i # 1 => z[i] = BlankEntry
    <3>1. BlankSector \in [1 .. Slots -> Cell] /\ 1 \in 1 .. Slots /\ \A i \in 1 .. Slots : BlankSector[i] = BlankEntry
      BY BlankFacts, ClusterFacts DEF Block
    <3> QED
      BY <2>2, <3>1 DEF Block
  <2>4. slots[RootDir] = z /\ slots \in [Cluster -> Block]
    <3>1. slots = [c \in Cluster |-> IF c # RootDir THEN BlankSector ELSE z]
      BY <1>4 DEF f
    <3> HIDE DEF z
    <3> QED
      BY <1>2, <2>3, <3>1, BlankFacts
  <2> HIDE DEF z
  <2>5. Now.fat = fat /\ Now.slots = slots /\ DiskOk(Now)
    BY <1>1, <2>1, <2>4, BlankFacts DEF Now, DiskOk, Disks, CurOk, NoSector
  <2>6. Chain(fat, RootDir) = <<RootDir>> /\ HasChain(fat, RootDir)
    BY <1>2, <2>1, SingleChain
  <2>7. /\ s \in Seq(Cell) /\ DOMAIN s = 1 .. Slots * 1 /\ Slots * 1 \in Nat \ {0}
        /\ \A p \in DOMAIN s : s[p] = z[Offset(p)] /\ SectorIndex(p) = 1 /\ Offset(p) \in 1 .. Slots
    <3> DEFINE ch == Chain(Now.fat, RootDir)
    <3>1. ch = <<RootDir>> /\ Len(ch) = 1 /\ ch[1] = RootDir
      BY <2>5, <2>6
    <3>2. HasChain(Now.fat, RootDir)
      BY <2>5, <2>6
    <3>3. /\ s \in Seq(Cell) /\ Len(s) = Slots * Len(ch) /\ Slots * Len(ch) \in Nat \ {0} /\ DOMAIN s = 1 .. Len(s)
          /\ \A p \in DOMAIN s : /\ s[p] = Now.slots[ch[SectorIndex(p)]][Offset(p)]
                                 /\ SectorIndex(p) \in 1 .. Len(ch) /\ Offset(p) \in 1 .. Slots
      BY <2>5, <3>2, ContentsFacts
    <3> HIDE DEF ch, s
    <3>4. \A p \in DOMAIN s : SectorIndex(p) = 1
      BY <3>1, <3>3
    <3> QED
      BY <2>4, <2>5, <3>1, <3>3, <3>4
  <2>8. s = Contents(Now, RootDir)
    OBVIOUS
  <2> HIDE DEF s
  <2>9. 1 \in DOMAIN s /\ Offset(1) = 1 /\ SectorIndex(1) = 1
    <3>1. 1 \in DOMAIN s
      BY <2>7
    <3>2. Offset(1) = 1
      <4>1. Slots \in Nat \ {0}
        BY ClusterFacts
      <4>2. (1 - 1) % Slots = 0
        BY <4>1, Z3
      <4> QED
        BY <4>2 DEF Offset
    <3> QED
      BY <2>7, <3>1, <3>2
  <2>10. s[1] = f /\ \A p \in DOMAIN s : p # 1 => s[p] = BlankEntry
    <3>1. ASSUME NEW p \in DOMAIN s, p # 1 PROVE s[p] = BlankEntry
      <4>1. Offset(p) # 1
        BY <2>7, <2>9, <3>1, PlaceUnique
      <4> QED
        BY <2>3, <2>7, <4>1
    <3> QED
      BY <2>3, <2>7, <2>9, <3>1
  <2>11. LiveAt(s) = {1}
    BY <2>2, <2>9, <2>10, CellsAre DEF LiveAt
  <2>12. WellNamed(s, 1, Shown[b]) /\ Shown[b] \in Name
    BY <1>4, <2>2, <2>10, DirAssumption DEF WellNamed
  <2>13. NameAt(s, 1) = Shown[b]
    BY <2>7, <2>9, <2>12, NameIs
  <2>14. DirOk(s)
    BY <2>7, <2>11, <2>12, <2>13 DEF DirOk
  <2> QED
    BY <1>1, <2>1, <2>2, <2>4, <2>8, <2>10, <2>11, <2>14, FirstTree
<1> QED
  BY <1>3, <1>4 DEF TreeInit

(* Every operation keeps the invariant.                                    *)
LEMMA TreeStep ==
  ASSUME TreeInv, [TreeNext]_treeVars
  PROVE  TreeInv'
<1>1. PICK T : TreeState(T)
  BY DEF TreeInv
<1>2. ASSUME NEW c \in Reached, ReadDir(c) PROVE TreeInv'
  BY <1>1, <1>2, ReadDirStep
<1>3. ASSUME NEW c \in Reached, NEW n \in Name, CreateFile(c, n) PROVE TreeInv'
  BY <1>1, <1>3, CreateFileStep
<1>4. ASSUME NEW n \in Name, MkDir(RootDir, n) PROVE TreeInv'
  BY <1>1, <1>4, MkDirStep
<1>5. ASSUME NEW c \in Reached, NEW n \in Name, RemoveChild(c, n) PROVE TreeInv'
  BY <1>1, <1>5, RemoveChildStep
<1>6. ASSUME NEW c \in Reached, NEW n \in Name, Open(c, n) PROVE TreeInv'
  BY <1>1, <1>6, OpenStep
<1>7. ASSUME NEW c \in Reached, NEW x, Close(c, x) PROVE TreeInv'
  BY <1>1, <1>7, CloseStep
<1>8. ASSUME NEW c \in Reached, NEW x, Lengthen(c, x) PROVE TreeInv'
  BY <1>1, <1>8, LengthenStep
<1>9. ASSUME Remount PROVE TreeInv'
  BY <1>1, <1>9, RemountStep
<1>10. ASSUME UNCHANGED treeVars PROVE TreeInv'
  BY <1>1, <1>10, StutterStep
<1> QED
  BY <1>2, <1>3, <1>4, <1>5, <1>6, <1>7, <1>8, <1>9, <1>10 DEF TreeNext

(* The nodes of a directory that was read are what is listed on the disk.  *)
LEMMA KidsShow ==
  ASSUME NEW T, TreeState(T), NEW c \in filled
  PROVE  /\ kids[c] # {} => {[x EXCEPT !.info = None] : x \in kids[c]} = Listing(OnDisk(fat), c)
         /\ \A x \in kids[c] : x.info # None =>
              \E e \in LiveIn(fat, c) : e.sfn = x.info.sfn /\ e.first = x.info.first /\ e.size = x.len
<1>1. /\ Good(Now, T, lost, {}) /\ NodesOk(kids, filled, T) /\ TreeOk(T) /\ fat \in Fats
      /\ slots \in [Cluster -> Block] /\ Good(OnDisk(fat), T, lost, {})
  BY StateFacts, NowIs
<1>2. c \in DOMAIN T
  BY <1>1, ShowsFacts DEF NodesOk
<1> DEFINE s == T[c]
           ks == kids[c]
<1>3. KidsOk(ks, s) /\ Full(ks, s)
  BY <1>1, <1>2 DEF NodesOk
<1>4. Entries(OnDisk(fat), c) = s
  BY <1>1, <1>2, DiskIs
<1> HIDE DEF s, ks
<1>5. Listing(OnDisk(fat), c) = NodesIn(s)
  BY <1>4 DEF Listing
<1>6. \A y : y \in {[x EXCEPT !.info = None] : x \in ks} <=> y \in NodesIn(s)
  <2>1. ASSUME NEW x \in ks PROVE [x EXCEPT !.info = None] \in NodesIn(s)
    <3>1. PICK p \in LiveAt(s) : NodeFor(s, p, x)
      BY <1>3 DEF KidsOk
    <3> QED
      BY <3>1, NodeFacts, NodesInAre
  <2>2. ASSUME NEW y \in NodesIn(s) PROVE \E x \in ks : y = [x EXCEPT !.info = None]
    <3>1. PICK p \in LiveAt(s) : y = NodeOf(s, p)
      BY <2>2, NodesInAre
    <3>2. PICK x \in ks : NodeFor(s, p, x)
      BY <1>3 DEF Full
    <3> QED
      BY <3>1, <3>2, NodeFacts
  <2> QED
    BY <2>1, <2>2
<1>7. ASSUME NEW x \in ks, x.info # None
      PROVE  \E e \in LiveIn(fat, c) : e.sfn = x.info.sfn /\ e.first = x.info.first /\ e.size = x.len
  <2>1. PICK p \in LiveAt(s) : NodeFor(s, p, x)
    BY <1>3 DEF KidsOk
  <2>2. s[p].sfn = x.info.sfn /\ s[p].first = x.info.first /\ s[p].size = x.len
    BY <1>7, <2>1, NodeFacts
  <2>3. s[p] \in LiveIn(fat, c)
    BY <1>4, <2>1 DEF LiveIn, LiveAt, Range
  <2> QED
    BY <2>2, <2>3
<1>8. {[x EXCEPT !.info = None] : x \in ks} = NodesIn(s)
  BY <1>6
<1> QED
  BY <1>5, <1>7, <1>8 DEF ks

(* What the invariant means for the properties.                            *)
LEMMA TreeShows ==
  ASSUME TreeInv
  PROVE  CacheIsDisk /\ OwnChains /\ NothingLost /\ NamesKept /\ NodesAreEntries
<1>1. PICK T : TreeState(T)
  BY DEF TreeInv
<1>2. CacheIsDisk /\ OwnChains /\ NothingLost /\ NamesKept
  BY <1>1, StateShows DEF TreeState
<1>3. NodesAreEntries
  BY <1>1, KidsShow DEF NodesAreEntries
<1> QED
  BY <1>2, <1>3

(* Whatever operations run, in whatever order and with the power going off *)
(* between any two of them, there is a tree that the disk has: every       *)
(* directory has its entries, every entry its chain, the table on the disk *)
(* is at most behind the one in its buffer, and the nodes in memory are    *)
(* entries of the tree (fatfs.c:441-905).                                  *)
THEOREM TreeAlways == TreeSpec => []TreeInv
<1>1. TreeInit => TreeInv
  BY TreeStart
<1>2. TreeInv /\ [TreeNext]_treeVars => TreeInv'
  BY TreeStep
<1> QED
  BY <1>1, <1>2, PTL DEF TreeSpec

(* The sector buffer holds what the disk holds, though a new directory is  *)
(* erased past it (fat_access.c:241-251, fatfs.c:739-770).                 *)
THEOREM TreeCacheIsDisk == TreeSpec => []CacheIsDisk
<1>1. TreeInv => CacheIsDisk
  BY TreeShows
<1> QED
  BY <1>1, TreeAlways, PTL

(* Every file and directory has a chain of its own that ends, in the table *)
(* in memory and in the one on the disk (fatfs.c:550-582, 639-805).        *)
THEOREM TreeOwnChains == TreeSpec => []OwnChains
<1>1. TreeInv => OwnChains
  BY TreeShows
<1> QED
  BY <1>1, TreeAlways, PTL

(* A cluster that no entry leads to is free, but for those that were lost  *)
(* when the power went off (fatfs.c:550-582, 639-805).                     *)
THEOREM TreeNothingLost == TreeSpec => []NothingLost
<1>1. TreeInv => NothingLost
  BY TreeShows
<1> QED
  BY <1>1, TreeAlways, PTL

(* Every name comes out of its directory as it went in, and no two names   *)
(* or short names there are the same: neither deleted entries that are     *)
(* used again nor a full sector bring the parts of a long name apart       *)
(* (fat_write.c:46-268, fatfs.c:718-738).                                  *)
THEOREM TreeNamesKept == TreeSpec => []NamesKept
<1>1. TreeInv => NamesKept
  BY TreeShows
<1> QED
  BY <1>1, TreeAlways, PTL

(* What the kernel knows of a directory that was read is what the disk has *)
(* there, and an open file knows its entry and its length                  *)
(* (fatfs.c:441-606).                                                      *)
THEOREM TreeNodesAreEntries == TreeSpec => []NodesAreEntries
<1>1. TreeInv => NodesAreEntries
  BY TreeShows
<1> QED
  BY <1>1, TreeAlways, PTL
=============================================================================
