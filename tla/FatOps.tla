------------------------------- MODULE FatOps -------------------------------
(***************************************************************************)
(* The control of the operations on the file allocation table,             *)
(* drivers/fat/fat_table.c and the allocation of drivers/fat/fat_write.c:  *)
(* what each of them does next, given the entry it has just looked at.     *)
(* FatMap lets them work on a table, FatTable on a disk behind a buffer.   *)
(*                                                                         *)
(* An operation in progress is a record:                                   *)
(*   pc    what comes next, kind  which operation                          *)
(*   cur   the entry to look at, or to clear                               *)
(*   from  the end of the chain that grows, NoCluster for a new chain      *)
(*   new   the cluster found blank, or the next one of a chain being freed *)
(*   n     the clusters still to be added                                  *)
(***************************************************************************)
EXTENDS Integers

CONSTANTS
  PerSector,    \* entries in a sector of the table (128, or 256 for FAT16)
  FatSectors,   \* sectors of the table
  Root,         \* rootdir_first_cluster, where the search for blanks starts
  LAST,         \* FAT32_LAST_CLUSTER
  FAIL,         \* an access to the disk failed
  NoCluster,
  MaxGrow       \* bound: clusters added by one call

ASSUME FatAssumption ==
  /\ PerSector \in Nat \ {0} /\ FatSectors \in Nat \ {0}
  /\ PerSector * FatSectors > 2
  /\ MaxGrow \in Nat \ {0}
  /\ LAST \notin Int /\ FAIL \notin Int /\ NoCluster \notin Int
  /\ LAST # FAIL

Entry == 0 .. PerSector * FatSectors - 1
Data == Entry \ {0, 1}     \* the first two entries are not clusters
Value == Entry \cup {LAST}

ASSUME RootAssumption == Root \in Entry

Idle == [pc |-> "idle", kind |-> "none", cur |-> Root, from |-> NoCluster,
         new |-> NoCluster, n |-> 0]

Op == [pc : {"idle", "hint", "scan", "follow", "link", "end", "next", "clear"},
       kind : {"none", "new", "grow", "extend", "free"},
       cur : Entry, from : Entry \cup {NoCluster},
       new : Value \cup {NoCluster}, n : 0 .. MaxGrow]

(* The operations: a first cluster for a file, clusters behind the last one *)
(* of a chain, a cluster at the end of a directory, and all of a chain.    *)
NewChain    == [Idle EXCEPT !.pc = "hint", !.kind = "new", !.n = 1]
Grow(c, n)  == [Idle EXCEPT !.pc = "hint", !.kind = "grow", !.from = c, !.n = n]
Extend(c)   == [Idle EXCEPT !.pc = "scan", !.kind = "extend", !.from = c, !.n = 1]
Free(c)     == [Idle EXCEPT !.pc = "next", !.kind = "free", !.cur = c]

(* fatfs_find_blank_cluster: from the root on; a failed access ends it, as *)
(* does the end of the table.  Faulty forms: the cluster after the blank,  *)
(* and a search beyond the end.                                            *)
FoundTooFar(op) ==
  LET c == IF op.cur + 1 \in Entry THEN op.cur + 1 ELSE op.cur
  IN  IF op.kind = "extend" THEN [op EXCEPT !.pc = "follow", !.new = c, !.cur = op.from]
      ELSE [op EXCEPT !.pc = IF op.from = NoCluster THEN "end" ELSE "link", !.new = c]
Found(op) ==
  IF op.kind = "extend" THEN [op EXCEPT !.pc = "follow", !.new = op.cur, !.cur = op.from]
  ELSE IF op.from = NoCluster THEN [op EXCEPT !.pc = "end", !.new = op.cur]
  ELSE [op EXCEPT !.pc = "link", !.new = op.cur]
ScannedPastEnd(op, v) ==
  IF v = 0 THEN Found(op) ELSE IF v = FAIL THEN Idle ELSE [op EXCEPT !.cur = op.cur + 1]
Scanned(op, v) ==
  IF v = 0 THEN Found(op)
  ELSE IF v = FAIL \/ op.cur + 1 \notin Entry THEN Idle
  ELSE [op EXCEPT !.cur = op.cur + 1]

(* fatfs_find_next_cluster takes a failed access for the end of a chain.   *)
NextCluster(v) == IF v = FAIL THEN LAST ELSE v

(* fatfs_fat_add_cluster_to_chain: to the last cluster of the chain.       *)
Followed(op, v) ==
  IF NextCluster(v) = LAST THEN [op EXCEPT !.pc = "link", !.from = op.cur]
  ELSE IF NextCluster(v) = 0 THEN Idle
  ELSE [op EXCEPT !.cur = NextCluster(v)]

Linked(op) == [op EXCEPT !.pc = "end"]

(* The new cluster ends the chain, and the next one goes behind it.        *)
Ended(op) ==
  IF op.n > 1 THEN [op EXCEPT !.pc = "scan", !.cur = Root, !.from = op.new, !.n = op.n - 1]
  ELSE Idle

(* fatfs_free_cluster_chain: look up the next cluster, then clear this one.*)
Nexted(op, v) == [op EXCEPT !.pc = "clear", !.new = NextCluster(v)]
Cleared(op) ==
  IF op.new \in {0, LAST} THEN Idle ELSE [op EXCEPT !.pc = "next", !.cur = op.new]
=============================================================================
