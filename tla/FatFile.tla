------------------------------ MODULE FatFile ------------------------------
(***************************************************************************)
(* The data of files in kernel/fatfs/fatfs.c: sectors in chains of         *)
(* clusters, found through the place of the last access, with one sector   *)
(* buffer per open file that is written through.  A directory entry is the *)
(* first cluster and the length; FatTree has the directories.              *)
(***************************************************************************)
EXTENDS Naturals, FiniteSetsExt, SequencesExt

CONSTANTS
  File, Byte, None,
  SectorSize,         \* FAT_SECTOR_SIZE
  PerCluster,         \* sectors_per_cluster
  MaxCluster,         \* bound: the last cluster of the table
  MaxSize,            \* bound: the size of a file
  Texts,              \* what programs write: sequences of bytes
  LAST

ASSUME FileAssumption ==
  /\ SectorSize \in Nat \ {0} /\ PerCluster \in Nat \ {0}
  /\ MaxCluster \in Nat /\ MaxSize \in Nat
  /\ 0 \in Byte /\ Texts \subseteq Seq(Byte)
  /\ LAST \notin Nat
  /\ None \notin Nat \cup Seq(Byte) \cup [first : Nat, len : Nat]

Cluster == 2 .. MaxCluster
Sector == [1 .. SectorSize -> Byte]
ZeroSector == [i \in 1 .. SectorSize |-> 0]

VARIABLES
  fat,       \* the file allocation table
  data,      \* the sectors of the clusters on the disk
  entry,     \* the directory entry of a file: first cluster and length
  node,      \* its node: the length and, when it is open, its file_info
  got,       \* what the last call has read
  halted     \* an assertion has stopped the kernel

fileVars == <<fat, data, entry, node, got, halted>>

(* file_info: the first cluster, last_fat_lookup, file_data_address and    *)
(* file_data_sector.                                                       *)
NoPlace == [index |-> None, cluster |-> None]
Info(first) == [first |-> first, look |-> NoPlace, addr |-> None, sector |-> ZeroSector]
NoNode == [len |-> 0, info |-> None]
Least(a, b) == IF a < b THEN a ELSE b

NextOf(t, c) == IF c = LAST THEN LAST ELSE t[c]

(* The cluster with the index i: the last place, the one behind it, or from*)
(* the start of the chain; and the last cluster that was passed.  Faulty   *)
(* form: the last place is taken for the one asked for.                    *)
From(info, i) ==
  IF i # 0 /\ info.look.index # None /\ i = info.look.index + 1 THEN info.look
  ELSE [index |-> 0, cluster |-> info.first]
Walk(t, info, i) ==
  LET at[k \in From(info, i).index .. i] ==
        IF k = From(info, i).index THEN [prev |-> LAST, cluster |-> From(info, i).cluster]
        ELSE LET p == at[k - 1]
             IN  IF p.cluster = LAST THEN p
                 ELSE [prev |-> p.cluster, cluster |-> NextOf(t, p.cluster)]
  IN  at[i]
LookStale(t, info, i) ==
  IF info.look.index # None /\ info.look.index <= i /\ i <= info.look.index + 1
  THEN [prev |-> LAST, cluster |-> info.look.cluster] ELSE Walk(t, info, i)
Look(t, info, i) ==
  IF i = info.look.index THEN [prev |-> LAST, cluster |-> info.look.cluster]
  ELSE Walk(t, info, i)
Placed(info, i, c) == [info EXCEPT !.look = [index |-> i, cluster |-> c]]

(* An access in progress: fat, data and info (the file_info), the bytes    *)
(* done, those read, and whether it goes on.                               *)
Work(f) == [fat |-> fat, data |-> data, info |-> node[f].info, done |-> 0,
            bytes |-> <<>>, n |-> 0, go |-> TRUE, halted |-> FALSE]

(* _read_sectors: what is left of one cluster, to w.bytes; w.n sectors.    *)
InCluster(at, n) == Least(n, PerCluster - (at % PerCluster))
ReadSectors(w, at, n) ==
  LET i == at \div PerCluster
      c == Look(w.fat, w.info, i).cluster
      s == at % PerCluster
  IN  IF c = LAST THEN [w EXCEPT !.n = 0, !.bytes = <<>>]
      ELSE [w EXCEPT !.info = Placed(w.info, i, c), !.n = InCluster(at, n),
              !.bytes = FlattenSeq([k \in 1 .. InCluster(at, n) |-> w.data[c][s + k - 1]])]
(* The sector at in the buffer: a failed read leaves what the caller says. *)
Buffered(w, at, b) == [w EXCEPT !.info.addr = at, !.info.sector = b]

(* _fs_read_file: whole sectors past the buffer, others through it.        *)
Part(in, left) == Least(SectorSize - in, left)
ReadStep(w, off, count) ==
  LET at == (off + w.done) \div SectorSize
      in == (off + w.done) % SectorSize
      left == count - w.done
      whole == ReadSectors(w, at, left \div SectorSize)
      one == ReadSectors(w, at, 1)
      b == IF w.info.addr = at THEN w ELSE Buffered(one, at, one.bytes)
  IN  IF in = 0 /\ left >= SectorSize
      THEN [whole EXCEPT !.bytes = w.bytes \o @, !.done = @ + SectorSize * whole.n,
                         !.go = whole.n > 0]
      ELSE IF w.info.addr # at /\ one.n = 0 THEN [w EXCEPT !.go = FALSE]
      ELSE [b EXCEPT !.done = @ + Part(in, left),
              !.bytes = w.bytes \o SubSeq(b.info.sector, in + 1, in + Part(in, left))]
ReadFile(f, off, n) ==
  LET count == IF off >= node[f].len THEN 0 ELSE Least(n, node[f].len - off)
      after[k \in 0 .. MaxSize] ==
        IF k = 0 THEN Work(f)
        ELSE LET w == after[k - 1]
             IN  IF w.go /\ w.done < count THEN ReadStep(w, off, count) ELSE w
  IN  after[MaxSize]

(* fatfs_add_free_space behind the cluster prev: the table and the first   *)
(* new cluster, None if there are not enough (what was linked stays).      *)
BlankIn(t) == {c \in Cluster : t[c] = 0}
AddFree(t, prev, n) ==
  LET add[k \in 0 .. n] ==
        IF k = 0 THEN [fat |-> t, last |-> prev, first |-> None, ok |-> TRUE]
        ELSE LET r == add[k - 1]
                 c == Min(BlankIn(r.fat))
             IN  IF ~r.ok \/ BlankIn(r.fat) = {} THEN [r EXCEPT !.ok = FALSE]
                 ELSE [fat |-> [r.fat EXCEPT ![r.last] = c, ![c] = LAST], last |-> c,
                       first |-> IF k = 1 THEN c ELSE r.first, ok |-> TRUE]
  IN  add[n]

(* _write_sectors: the chain grows by all that is still to be written, and *)
(* what is left of one cluster is written.                                 *)
WriteSectors(w, at, secs) ==
  LET i == at \div PerCluster
      n == Len(secs)
      l == Look(w.fat, w.info, i)
      more == AddFree(w.fat, l.prev, (n + PerCluster - 1) \div PerCluster)
      t == IF l.cluster = LAST THEN more.fat ELSE w.fat
      c == IF l.cluster = LAST THEN more.first ELSE l.cluster
      s == at % PerCluster
  IN  IF l.cluster = LAST /\ ~more.ok THEN [w EXCEPT !.fat = t, !.n = 0]
      ELSE [w EXCEPT !.fat = t, !.info = Placed(w.info, i, c), !.n = InCluster(at, n),
              !.data[c] = [k \in 0 .. PerCluster - 1 |->
                IF k \in s .. s + InCluster(at, n) - 1 THEN secs[k - s + 1] ELSE @[k]]]

(* _fs_write_file: whole sectors past the buffer, which is given up; others*)
(* through it, and an assertion when the disk is full.  Faulty form: the   *)
(* buffer is kept when whole sectors are written.                          *)
SectorsOf(text, done, left) ==
  [k \in 1 .. left \div SectorSize |->
     SubSeq(text, done + (k - 1) * SectorSize + 1, done + k * SectorSize)]
WholeKeepsBuffer(w, at, left, text) ==
  LET r == WriteSectors(w, at, SectorsOf(text, w.done, left))
  IN  [r EXCEPT !.done = @ + SectorSize * r.n, !.go = r.n > 0]
Whole(w, at, left, text) ==
  LET r == WriteSectors([w EXCEPT !.info.addr = None], at, SectorsOf(text, w.done, left))
  IN  [r EXCEPT !.done = @ + SectorSize * r.n, !.go = r.n > 0]
Piece(w, at, in, left, text) ==
  LET part == Part(in, left)
      read == ReadSectors(w, at, 1)
      b == IF w.info.addr = at \/ part = SectorSize THEN w
           ELSE Buffered(read, at, IF read.n = 0 THEN ZeroSector ELSE read.bytes)
      sector == [i \in 1 .. SectorSize |->
        IF i \in in + 1 .. in + part THEN text[w.done + i - in] ELSE b.info.sector[i]]
      r == WriteSectors(Buffered(b, at, sector), at, <<sector>>)
  IN  [r EXCEPT !.done = @ + part, !.go = r.n = 1, !.halted = r.n # 1]
WriteStep(w, off, text) ==
  LET at == (off + w.done) \div SectorSize
      in == (off + w.done) % SectorSize
      left == Len(text) - w.done
  IN  IF in = 0 /\ left >= SectorSize THEN Whole(w, at, left, text)
      ELSE Piece(w, at, in, left, text)
WriteFile(f, off, text) ==
  LET after[k \in 0 .. MaxSize] ==
        IF k = 0 THEN Work(f)
        ELSE LET w == after[k - 1]
             IN  IF w.go /\ w.done < Len(text) THEN WriteStep(w, off, text) ELSE w
  IN  after[MaxSize]

-----------------------------------------------------------------------------
FileInit ==
  /\ fat = [c \in Cluster |-> 0]
  /\ data = [c \in Cluster |-> [k \in 0 .. PerCluster - 1 |-> ZeroSector]]
  /\ entry = [f \in File |-> None]
  /\ node = [f \in File |-> NoNode]
  /\ got = <<>> /\ halted = FALSE

(* A new file gets a cluster, which is not erased, and is open.            *)
Create(f) ==
  /\ entry[f] = None /\ BlankIn(fat) # {}
  /\ fat' = [fat EXCEPT ![Min(BlankIn(fat))] = LAST]
  /\ entry' = [entry EXCEPT ![f] = [first |-> Min(BlankIn(fat)), len |-> 0]]
  /\ node' = [node EXCEPT ![f] = [len |-> 0, info |-> Info(Min(BlankIn(fat)))]]
  /\ got' = <<>> /\ UNCHANGED <<data, halted>>

(* _fs_open_file and _fs_close_file.                                       *)
Open(f) ==
  /\ entry[f] # None /\ node[f].info = None
  /\ node' = [node EXCEPT ![f].info = Info(entry[f].first)]
  /\ got' = <<>> /\ UNCHANGED <<fat, data, entry, halted>>
Close(f) ==
  /\ node[f].info # None
  /\ node' = [node EXCEPT ![f].info = None]
  /\ got' = <<>> /\ UNCHANGED <<fat, data, entry, halted>>

(* _fs_remove, of a file that is not open: the other case is a known fault.*)
ChainOf(t, c) ==
  LET to[k \in 0 .. MaxCluster - 2] ==
        IF k = 0 THEN <<c>>
        ELSE LET s == to[k - 1] IN IF t[Last(s)] \in Cluster THEN Append(s, t[Last(s)]) ELSE s
  IN  to[MaxCluster - 2]
Delete(f) ==
  /\ entry[f] # None /\ node[f].info = None
  /\ fat' = [c \in Cluster |-> IF c \in Range(ChainOf(fat, entry[f].first)) THEN 0 ELSE fat[c]]
  /\ entry' = [entry EXCEPT ![f] = None]
  /\ node' = [node EXCEPT ![f] = NoNode]
  /\ got' = <<>> /\ UNCHANGED <<data, halted>>

(* io_read and io_write of an open file, at an offset that io_seek bounds  *)
(* by the length.                                                          *)
Read(f, off, n) ==
  /\ node[f].info # None /\ off <= node[f].len
  /\ \E w \in {ReadFile(f, off, n)} :
       /\ got' = w.bytes
       /\ node' = [node EXCEPT ![f].info = w.info]
       /\ UNCHANGED <<fat, data, entry, halted>>
Write(f, off, text) ==
  /\ node[f].info # None /\ off <= node[f].len /\ off + Len(text) <= MaxSize
  /\ \E w \in {WriteFile(f, off, text)} :
       LET len == IF w.halted \/ off + w.done <= node[f].len THEN node[f].len ELSE off + w.done
       IN  /\ fat' = w.fat /\ data' = w.data /\ got' = <<>>
           /\ halted' = w.halted
           /\ node' = [node EXCEPT ![f] = [len |-> len, info |-> w.info]]
           /\ entry' = [entry EXCEPT ![f].len = len]

FileNext ==
  /\ ~halted
  /\ \E f \in File :
       \/ Create(f) \/ Open(f) \/ Close(f) \/ Delete(f)
       \/ \E off \in 0 .. MaxSize, n \in 1 .. MaxSize : Read(f, off, n)
       \/ \E off \in 0 .. MaxSize, text \in Texts : Write(f, off, text)

FileSpec == FileInit /\ [][FileNext]_fileVars
-----------------------------------------------------------------------------
(* What is on the disk of a file.  The chain comes from a set of one       *)
(* element, so that TLC evaluates it once.                                 *)
BytesOf(c, len) ==
  LET byte(j) == data[c[j \div (SectorSize * PerCluster) + 1]]
                     [(j \div SectorSize) % PerCluster][(j % SectorSize) + 1]
  IN  [i \in 1 .. len |-> byte(i - 1)]
Content(f) ==
  IF entry[f] = None THEN None
  ELSE CHOOSE s \in {BytesOf(c, entry[f].len) : c \in {ChainOf(fat, entry[f].first)}} : TRUE

(* Files are the sequences of bytes that were written, with any number of  *)
(* them open, whatever the sector buffer, the last place in the chain and  *)
(* the ends of clusters and of the disk do (fatfs.c:67-486).               *)
Store == INSTANCE FileStore WITH content <- [f \in File |-> Content(f)]
ImplementsFileStore == Store!StoreSpec

(* The buffer of an open file is the sector on the disk, and the place in  *)
(* the chain is where the walk from the start leads: nobody else writes or *)
(* frees the clusters of an open file (fatfs.c:88-135).                    *)
PlaceIsChain ==
  \A f \in File : node[f].info # None =>
    LET c == ChainOf(fat, entry[f].first)
        i == node[f].info
    IN  /\ i.look.index # None => i.look.index < Len(c) /\ c[i.look.index + 1] = i.look.cluster
        /\ i.addr # None /\ ~halted =>
             i.sector = data[c[i.addr \div PerCluster + 1]][i.addr % PerCluster]
=============================================================================
