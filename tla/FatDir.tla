------------------------------- MODULE FatDir -------------------------------
(***************************************************************************)
(* Directories of the FAT file system: the entries on the disk, as         *)
(* drivers/fat/fat_access.c, fat_write.c and fat_misc.c search and change  *)
(* them through one sector buffer.  A cluster is one sector, and a sector  *)
(* has Slots entries; the file allocation table is the map that FatTable   *)
(* implements.  FatTree has the file system on top of it.                  *)
(***************************************************************************)
EXTENDS Naturals, SequencesExt

CONSTANTS
  Name,         \* long file names
  Parts,        \* [Name -> Nat]: fatfs_lfn_entries_required, entries of a name
  Folded,       \* [Name -> ...]: the name for fatfs_compare_names, without case
  Base,         \* [Name -> ...]: the short name of fatfs_lfn_create_sfn
  Stem,         \* [base -> ...]: what fatfs_lfn_generate_tail keeps of it
  Shown,        \* [base -> Name]: fatfs_get_sfn_display_name, without long name
  Garbled,      \* the name made of entries that do not belong together
  Slots,        \* FAT_DIR_ENTRIES_PER_SECTOR
  MaxCluster,   \* bound: the last cluster of the table
  MaxTail,      \* the number of the last tail (9999)
  LAST_CLUSTER, None

RootDir == 2
ASSUME DirAssumption ==
  /\ Slots \in Nat \ {0} /\ MaxTail \in Nat
  /\ MaxCluster \in Nat /\ MaxCluster > RootDir
  /\ Parts \in [Name -> Nat \ {0}]
  /\ \A b \in DOMAIN Shown : Shown[b] \in Name
  /\ Garbled \notin Name /\ LAST_CLUSTER \notin Nat /\ None \notin Nat

(* There are more tails than names (fatfs.c:725-738 ends wrongly otherwise).*)
ASSUME TailAssumption ==
  /\ IsFiniteSet({Folded[n] : n \in Name})
  /\ Cardinality({Folded[n] : n \in Name}) <= MaxTail

Cluster == RootDir .. MaxCluster
Kind == {"file", "dir"}

(* Directory entries.                                                      *)
BlankEntry == [t |-> "blank"]
Deleted == [t |-> "deleted"]
LfnEntry(n, i) == [t |-> "lfn", name |-> n, i |-> i]
SfnEntry(kind, sfn, first, size) ==
  [t |-> kind, sfn |-> sfn, first |-> first, size |-> size]
Live(e) == e.t \in Kind
BlankSector == [j \in 1 .. Slots |-> BlankEntry]

(* The disk as the library sees it, passed from call to call, is a record: *)
(*   fat    the file allocation table                                      *)
(*   slots  the directory entries on the disk, by cluster                  *)
(*   cur    currentsector: the cluster it holds, and its entries           *)
NoSector == [at |-> None, data |-> BlankSector]

-----------------------------------------------------------------------------
(* Reading a directory: fatfs_find_next_cluster and fatfs_sector_reader.   *)
Chain(f, c) ==
  LET to[n \in 0 .. MaxCluster] ==
        IF n = 0 THEN <<c>>
        ELSE LET s == to[n - 1]
             IN  IF f[Last(s)] \in Cluster THEN Append(s, f[Last(s)]) ELSE s
  IN  to[MaxCluster]

(* The buffer is used again when it holds the sector; only the first of a  *)
(* scan can be there.                                                      *)
SectorsOf(d, cs) ==
  [i \in DOMAIN cs |-> IF i = 1 /\ d.cur.at = cs[1] THEN d.cur.data ELSE d.slots[cs[i]]]
Sectors(d, c) == SectorsOf(d, Chain(d.fat, c))
SectorIndex(p) == (p - 1) \div Slots + 1
Offset(p) == ((p - 1) % Slots) + 1
EntriesOf(ss) == [p \in 1 .. Slots * Len(ss) |-> ss[SectorIndex(p)][Offset(p)]]
Entries(d, c) == EntriesOf(Sectors(d, c))

(* The buffer after a scan that ended at entry p.                          *)
Loaded(d, c, p) ==
  [d EXCEPT !.cur = [at |-> Chain(d.fat, c)[SectorIndex(p)],
                     data |-> Sectors(d, c)[SectorIndex(p)]]]
LoadedAll(d, c) == Loaded(d, c, Len(Entries(d, c)))

(* The first entry that satisfies a test, and the buffer after the search. *)
Least(S) == IF S = {} THEN 0 ELSE Min(S)
SearchEnd(d, c, at) == [d |-> IF at = 0 THEN LoadedAll(d, c) ELSE Loaded(d, c, at), at |-> at]
SearchIn(d, c, s, Test(_, _)) == SearchEnd(d, c, Least({p \in DOMAIN s : Test(s, p)}))
Search(d, c, Test(_, _)) == SearchIn(d, c, Entries(d, c), Test)

(* fatfs_get_sfn_display_name.                                             *)
Displayed(e) == Shown[e.sfn[1]]

(* The name of the live entry at p.  fatfs_lfn_cache_entry collects the    *)
(* parts right before it, and takes the first one for the number of them;  *)
(* any other entry makes fatfs_lfn_cache_init forget them.                 *)
WholeName(s, parts, n) ==
  LET part(i) == s[Max({q \in parts : s[q].i = i})].name
  IN  {m \in Name : /\ Parts[m] = n
                    /\ \A i \in 1 .. n : (\E q \in parts : s[q].i = i) /\ part(i) = m}
NameOf(s, p, parts) ==
  IF parts = {} THEN Displayed(s[p])
  ELSE LET whole == WholeName(s, parts, s[Min(parts)].i)
       IN  IF whole = {} THEN Garbled ELSE CHOOSE m \in whole : TRUE
NameAt(s, p) == NameOf(s, p, Max({q \in 0 .. p - 1 : q = 0 \/ s[q].t # "lfn"}) + 1 .. p - 1)

(* fatfs_compare_names, fatfs_get_file_entry and fatfs_sfn_exists.         *)
Same(a, b) == a # Garbled /\ Folded[a] = Folded[b]
fatfs_get_file_entry(d, c, n) ==
  Search(d, c, LAMBDA s, p : Live(s[p]) /\ Same(NameAt(s, p), n))
fatfs_sfn_exists(d, c, sfn) == Search(d, c, LAMBDA s, p : Live(s[p]) /\ s[p].sfn = sfn)

-----------------------------------------------------------------------------
(* An entry of a directory is changed in the buffer and written.  Faulty   *)
(* form: it is written past the buffer.                                    *)
Edited(d, c, p, e) == [Sectors(d, c)[SectorIndex(p)] EXCEPT ![Offset(p)] = e]
Held(d, cl, b) == [d EXCEPT !.cur = [at |-> cl, data |-> b]]
Written(d, cl, b) == [Held(d, cl, b) EXCEPT !.slots[cl] = b]
ChgPastBuffer(d, c, p, e) ==
  [d EXCEPT !.slots[Chain(d.fat, c)[SectorIndex(p)]] = Edited(d, c, p, e)]
Chg(d, c, p, e) == Written(d, Chain(d.fat, c)[SectorIndex(p)], Edited(d, c, p, e))

(* fatfs_update_file_length, fatfs_mark_file_deleted: the first entry with *)
(* the short name.  Faulty form: only the first sector is searched.        *)
EditAt(r, c, Edit(_)) ==
  IF r.at = 0 THEN r.d ELSE Chg(r.d, c, r.at, Edit(Entries(r.d, c)[r.at]))
OnShortName(d, c, sfn, Edit(_)) == EditAt(fatfs_sfn_exists(d, c, sfn), c, Edit)
LengthInFirst(d, c, sfn, len) ==
  LET r == fatfs_sfn_exists(d, c, sfn)
  IN  IF r.at > Slots THEN r.d ELSE EditAt(r, c, LAMBDA e : [e EXCEPT !.size = len])
fatfs_update_file_length(d, c, sfn, len) ==
  OnShortName(d, c, sfn, LAMBDA e : [e EXCEPT !.size = len])
fatfs_mark_file_deleted(d, c, sfn) == OnShortName(d, c, sfn, LAMBDA e : Deleted)

(* fatfs_find_blank_cluster and fatfs_free_cluster_chain.  Faulty form: the*)
(* rest of a chain stays in use.                                           *)
BlankCluster(f) == {c \in Cluster : f[c] = 0}
FreedFirst(d, c) == IF c = 0 THEN d ELSE [d EXCEPT !.fat[c] = 0]
ClearedIn(f, cs) == [x \in Cluster |-> IF x \in Range(cs) THEN 0 ELSE f[x]]
Freed(d, c) == IF c = 0 THEN d ELSE [d EXCEPT !.fat = ClearedIn(@, Chain(@, c))]

(* A directory that is full gets a cluster; the buffer is what erases it.  *)
Grown(d, c, new) ==
  [d EXCEPT !.fat = [d.fat EXCEPT ![Last(Chain(d.fat, c))] = new, ![new] = LAST_CLUSTER],
            !.slots[new] = BlankSector, !.cur = [at |-> new, data |-> BlankSector]]

(* fatfs_find_free_dir_offset: a run of entries without a live one, that is*)
(* long enough when a deleted or a blank entry is met; at the end of the   *)
(* directory, the run and a new cluster.                                   *)
RunStart(s, p) == Max({q \in 0 .. p : q = 0 \/ Live(s[q])}) + 1
FreeRun(d, c, s, r) ==
  IF r.at # 0 THEN [r EXCEPT !.at = RunStart(s, r.at)]
  ELSE IF BlankCluster(d.fat) = {} THEN r
  ELSE [d |-> Grown(r.d, c, Min(BlankCluster(d.fat))), at |-> RunStart(s, Len(s))]
fatfs_find_free_dir_offset(d, c, count) ==
  FreeRun(d, c, Entries(d, c),
    Search(d, c, LAMBDA s, p : /\ s[p].t \in {"deleted", "blank"}
                               /\ p - RunStart(s, p) + 1 >= count))

(* fatfs_add_file_entry: the long name backwards, then the entry; what does*)
(* not fit behind the place that was found is missing.                     *)
NewEntries(n, sfn, first, kind) ==
  Append([i \in 1 .. Parts[n] |-> LfnEntry(n, Parts[n] + 1 - i)], SfnEntry(kind, sfn, first, 0))
AddedAt(r, c, es, room) ==
  LET put[i \in 0 .. Len(es)] ==
        IF i = 0 THEN r.d
        ELSE IF i > room THEN put[i - 1] ELSE Chg(put[i - 1], c, r.at + i - 1, es[i])
  IN  [d |-> put[Len(es)], ok |-> Len(es) <= room]
AddedIn(r, c, es) ==
  IF r.at = 0 THEN [d |-> r.d, ok |-> FALSE]
  ELSE AddedAt(r, c, es, Len(Entries(r.d, c)) - r.at + 1)
AddedTo(d, c, es) == AddedIn(fatfs_find_free_dir_offset(d, c, Len(es)), c, es)
fatfs_add_file_entry(d, c, n, sfn, first, kind) ==
  AddedTo(d, c, NewEntries(n, sfn, first, kind))

(* The short name: with a tail if it is taken.  The test for the last tail *)
(* comes after the number has been advanced once more, so it refuses the   *)
(* last tail when it is free and goes on with it when all are taken        *)
(* (fatfs.c:680-693, 725-738).  Faulty form: the name is never tailed.     *)
Candidate(n, t) == IF t = 0 THEN <<Base[n], 0>> ELSE <<Stem[Base[n]], t>>
ShortNameUntailed(d, c, n) == [d |-> LoadedAll(d, c), sfn |-> Candidate(n, 0)]
TailFree(d, c, n) ==
  {t \in 0 .. MaxTail :
     \A i \in DOMAIN Entries(d, c) :
       LET e == Entries(d, c)[i] IN Live(e) => e.sfn # Candidate(n, t)}
Tailed(d, c, n, free) ==
  IF free = {}
  THEN [d |-> fatfs_sfn_exists(d, c, Candidate(n, MaxTail)).d, sfn |-> Candidate(n, MaxTail)]
  ELSE [d |-> LoadedAll(d, c),
        sfn |-> IF Min(free) = MaxTail /\ MaxTail > 0 THEN None ELSE Candidate(n, Min(free))]
ShortName(d, c, n) == Tailed(d, c, n, TailFree(d, c, n))
=============================================================================
