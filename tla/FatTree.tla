------------------------------ MODULE FatTree ------------------------------
(***************************************************************************)
(* The file system of kernel/fatfs/fatfs.c: the tree of nodes it keeps of  *)
(* the directories on the disk, and the operations on files and            *)
(* directories as kernel/io/io.c calls them.  An operation is one step: it *)
(* runs in a system call.                                                  *)
(***************************************************************************)
EXTENDS FatDir

CONSTANTS MaxLen     \* bound: the length of a file, in steps

VARIABLES
  fat,       \* the file allocation table
  fatDisk,   \* what the disk holds of it
  slots,     \* the directory entries on the disk, by cluster
  cur,       \* currentsector: the cluster it holds, and its entries
  kids,      \* the children of the directory at a cluster
  filled,    \* history: the directories whose children come from the disk
  lost       \* history: clusters that no entry leads to any more

treeVars == <<fat, fatDisk, slots, cur, kids, filled, lost>>

Now == [fat |-> fat, slots |-> slots, cur |-> cur]
Put(d) == fat' = d.fat /\ slots' = d.slots /\ cur' = d.cur

(* The table goes to the disk when it is purged; it may go there before.   *)
(* Faulty form: it is not purged.                                          *)
NotPurged(d) == fatDisk' = fatDisk
Purged(d) == fatDisk' = d.fat
Buffered(d) == fatDisk' \in {fatDisk, d.fat}

(* _create_file_node and _create_dir_node.                                 *)
FileNode(n, len, info) == [name |-> n, kind |-> "file", first |-> 0, len |-> len, info |-> info]
DirNode(n, c) == [name |-> n, kind |-> "dir", first |-> c, len |-> 0, info |-> None]

(* _populate_dir_children: fatfs_list_directory_next for every entry.      *)
NodeOf(s, p) ==
  IF s[p].t = "dir" THEN DirNode(NameAt(s, p), s[p].first)
  ELSE FileNode(NameAt(s, p), s[p].size, None)
NodesIn(s) == {NodeOf(s, p) : p \in {q \in DOMAIN s : Live(s[q])}}
Listing(d, c) == NodesIn(Entries(d, c))
WithList(k, c, l) ==
  [x \in Cluster |-> IF x = c THEN l
                     ELSE IF \E n \in l : n.kind = "dir" /\ n.first = x THEN {} ELSE k[x]]
Populated(d, c, k) ==
  IF k[c] # {} THEN [d |-> d, kids |-> k, from |-> {}]
  ELSE [d |-> LoadedAll(d, c), from |-> {c}, kids |-> WithList(k, c, Listing(d, c))]
PopulatedToo(r, c) ==
  LET in == Populated(r.d, c, r.kids) IN [in EXCEPT !.from = @ \cup r.from]
Child(k, c, n) == {x \in k[c] : x.name = n}

(* The directories a path can lead to: the root and what is in its list.   *)
Reached == {RootDir} \cup {n.first : n \in {m \in kids[RootDir] : m.kind = "dir"}}

(* fs_get_abs_path: to a directory, and on to a name in it.                *)
Known == [d |-> Now, kids |-> kids, from |-> {}]
At(c) == IF c = RootDir THEN Known ELSE PopulatedToo(Known, RootDir)
Find(c) == PopulatedToo(At(c), c)

(* What an operation leaves: the disk, the buffer, and the nodes.          *)
Leave(d, k, from) == Put(d) /\ kids' = k /\ filled' = filled \cup from

(* The disk as it comes: an empty root, or one file with a short name only.*)
TreeInit ==
  /\ \/ /\ fat = [c \in Cluster |-> IF c = RootDir THEN LAST_CLUSTER ELSE 0]
        /\ slots = [c \in Cluster |-> BlankSector]
     \/ \E b \in DOMAIN Shown :
          /\ fat = [c \in Cluster |-> IF c \in {RootDir, RootDir + 1} THEN LAST_CLUSTER ELSE 0]
          /\ slots = [c \in Cluster |-> IF c # RootDir THEN BlankSector
               ELSE [BlankSector EXCEPT ![1] = SfnEntry("file", <<b, 0>>, RootDir + 1, 0)]]
  /\ fatDisk = fat
  /\ cur = NoSector
  /\ kids = [c \in Cluster |-> {}]
  /\ filled = {} /\ lost = {}

(* _fs_read_dir, or a path to a name that is not there.                    *)
ReadDir(c) ==
  /\ \E r \in {Find(c)} : Leave(r.d, r.kids, r.from)
  /\ UNCHANGED <<fatDisk, lost>>

(* io_open with OPEN_CREATE: _fs_create_file, when the path leads nowhere. *)
(* The name is found on the disk when the list does not have it; no short  *)
(* name and no cluster are left; no room is left for the entry.            *)
(* An entry that is not found again is marked as deleted by its long name. *)
NotOpened(d, c, n, new) == fatfs_mark_file_deleted(Freed(d, new), c, <<n>>)
EntryMade(c, n, r, a, new) ==
  IF ~a.ok THEN Leave(Freed(a.d, new), r.kids, r.from) /\ Buffered(Freed(a.d, new))
  ELSE \E o \in {fatfs_get_file_entry(a.d, c, n)} :
         IF o.at = 0 THEN \E d \in {NotOpened(o.d, c, n, new)} :
                            Leave(d, r.kids, r.from) /\ Buffered(d)
         ELSE \E e \in {Entries(a.d, c)[o.at]} :
           /\ Leave(o.d, [r.kids EXCEPT ![c] =
                @ \cup {FileNode(n, 0, [first |-> e.first, sfn |-> e.sfn])}], r.from)
           /\ Purged(o.d)
NamedFile(c, n, r, s) ==
  IF s.sfn = None \/ BlankCluster(fat) = {}
  THEN Leave(s.d, r.kids, r.from) /\ Buffered(s.d)
  ELSE \E new \in {Min(BlankCluster(fat))} :
       \E a \in {fatfs_add_file_entry([s.d EXCEPT !.fat[new] = LAST_CLUSTER], c, n, s.sfn, new, "file")} :
         EntryMade(c, n, r, a, new)
CreateFile(c, n) ==
  /\ \E r \in {Find(c)} : \E g \in {fatfs_get_file_entry(r.d, c, n)} :
       /\ Child(r.kids, c, n) = {}
       /\ IF g.at # 0 THEN Leave(g.d, r.kids, r.from) /\ Buffered(g.d)
          ELSE \E s \in {ShortName(g.d, c, n)} : NamedFile(c, n, r, s)
  /\ UNCHANGED lost

(* io_mkdir: _fs_create_dir.  The path leads to the parent only, whose     *)
(* children need not be known.  The cluster is erased past the buffer, and *)
(* it is not given back when there is no short name.                       *)
DirMade(c, n, r, a, new) ==
  /\ UNCHANGED lost
  /\ IF ~a.ok THEN Leave(Freed(a.d, new), r.kids, r.from) /\ Buffered(Freed(a.d, new))
     ELSE /\ Leave(a.d, [r.kids EXCEPT ![c] = @ \cup {DirNode(n, new)}, ![new] = {}],
                   r.from \cup {new})
          /\ Purged(a.d)
NamedDir(c, n, r, s, new) ==
  IF s.sfn = None
  THEN Leave(s.d, r.kids, r.from) /\ Buffered(s.d) /\ lost' = lost \cup {new}
  ELSE \E a \in {fatfs_add_file_entry(s.d, c, n, s.sfn, new, "dir")} : DirMade(c, n, r, a, new)
Erased(d, new) == [d EXCEPT !.fat[new] = LAST_CLUSTER, !.slots[new] = BlankSector]
MkDir(c, n) ==
  \E r \in {At(c)} : \E g \in {fatfs_get_file_entry(r.d, c, n)} :
    IF g.at # 0 \/ BlankCluster(fat) = {}
    THEN Leave(g.d, r.kids, r.from) /\ Buffered(g.d) /\ UNCHANGED lost
    ELSE \E new \in {Min(BlankCluster(fat))} : \E s \in {ShortName(Erased(g.d, new), c, n)} :
           NamedDir(c, n, r, s, new)

(* io_remove: a file, or a directory in which nothing is found, and        *)
(* _fs_remove.  The table is not purged.                                   *)
Unlinked(c, node, in, g, e) ==
  \E d \in {fatfs_mark_file_deleted(Freed(g.d, e.first), c, e.sfn)} :
    /\ Put(d) /\ Buffered(d)
    /\ kids' = [in.kids EXCEPT ![c] = @ \ {node}]
    /\ filled' = (filled \cup in.from) \ {node.first}
RemoveIn(c, node, in) ==
  IF node.kind = "dir" /\ in.kids[node.first] # {}
  THEN Leave(in.d, in.kids, in.from) /\ UNCHANGED fatDisk
  ELSE \E g \in {fatfs_get_file_entry(in.d, c, node.name)} :
         IF g.at = 0 THEN Leave(g.d, in.kids, in.from) /\ UNCHANGED fatDisk
         ELSE Unlinked(c, node, in, g, Entries(in.d, c)[g.at])
RemoveChild(c, n) ==
  /\ \E r \in {Find(c)} : \E node \in Child(r.kids, c, n) :
       \E in \in {IF node.kind = "dir" THEN PopulatedToo(r, node.first) ELSE r} :
         RemoveIn(c, node, in)
  /\ UNCHANGED lost

(* _fs_open_file: what a file needs for its data and its length.           *)
OpenNode(c, node, r) ==
  IF node.info # None THEN Leave(r.d, r.kids, r.from)
  ELSE \E g \in {fatfs_get_file_entry(r.d, c, node.name)} :
         IF g.at = 0 THEN Leave(g.d, r.kids, r.from)
         ELSE \E e \in {Entries(r.d, c)[g.at]} :
           Leave(g.d, [r.kids EXCEPT ![c] = (@ \ {node}) \cup
             {FileNode(node.name, e.size, [first |-> e.first, sfn |-> e.sfn])}], r.from)
Open(c, n) ==
  /\ \E r \in {Find(c)} : \E node \in Child(r.kids, c, n) :
       node.kind = "file" /\ OpenNode(c, node, r)
  /\ UNCHANGED <<fatDisk, lost>>

Files(c) == {x \in kids[c] : x.kind = "file"}
Close(c, x) ==
  /\ x \in Files(c) /\ x.info # None
  /\ kids' = [kids EXCEPT ![c] = (@ \ {x}) \cup {[x EXCEPT !.info = None]}]
  /\ UNCHANGED <<fat, fatDisk, slots, cur, filled, lost>>

(* The end of _fs_write_file, when the file has become longer; its data is *)
(* in FatFile.                                                             *)
Lengthen(c, x) ==
  /\ x \in Files(c) /\ x.info # None /\ x.len < MaxLen
  /\ \E d \in {fatfs_update_file_length(Now, c, x.info.sfn, x.len + 1)} : Put(d) /\ Purged(d)
  /\ kids' = [kids EXCEPT ![c] = (@ \ {x}) \cup {[x EXCEPT !.len = @ + 1]}]
  /\ UNCHANGED <<filled, lost>>

-----------------------------------------------------------------------------
(* What is on the disk.                                                    *)
OnDisk(f) == [fat |-> f, slots |-> slots, cur |-> NoSector]
LiveIn(f, c) == {e \in Range(Entries(OnDisk(f), c)) : Live(e)}
Dirs(f) == {RootDir} \cup {e.first : e \in {x \in LiveIn(f, RootDir) : x.t = "dir"}}
PlacesIn(c, s) ==
  {[dir |-> c, at |-> p, first |-> s[p].first] : p \in {q \in DOMAIN s : Live(s[q])}}
Places(f) == UNION {PlacesIn(c, Entries(OnDisk(f), c)) : c \in Dirs(f)}
ChainOf(f, c) == IF c = 0 THEN {} ELSE Range(Chain(f, c))
Used(f) == ChainOf(f, RootDir) \cup UNION {ChainOf(f, pl.first) : pl \in Places(f)}

(* Power off and on: fatfs_mount_partition finds what the disk holds.      *)
Remount ==
  /\ fat' = fatDisk /\ UNCHANGED <<fatDisk, slots>>
  /\ cur' = NoSector
  /\ kids' = [c \in Cluster |-> {}] /\ filled' = {}
  /\ lost' = {c \in Cluster : fatDisk[c] # 0} \ Used(fatDisk)

TreeNext ==
  \/ \E c \in Reached : ReadDir(c)
  \/ \E c \in Reached, n \in Name : CreateFile(c, n)
  \/ \E n \in Name : MkDir(RootDir, n)
  \/ \E c \in Reached, n \in Name : RemoveChild(c, n)
  \/ \E c \in Reached, n \in Name : Open(c, n)
  \/ \E c \in Reached : \E x \in kids[c] : Close(c, x)
  \/ \E c \in Reached : \E x \in kids[c] : Lengthen(c, x)
  \/ Remount

TreeSpec == TreeInit /\ [][TreeNext]_treeVars
-----------------------------------------------------------------------------
(* The sector buffer is what the disk holds (fat_access.c:241-251), though *)
(* new directories are erased past it.                                     *)
CacheIsDisk == cur.at # None => cur.data = slots[cur.at]

(* Every file and directory has a chain of its own that ends, apart from   *)
(* the others, and not only in the buffer of the table: the power may go   *)
(* off between any two operations (fatfs.c:550-582, 639-805).              *)
ApartIn(f, all) ==
  /\ \A pl \in all : pl.first # 0 => f[Last(Chain(f, pl.first))] = LAST_CLUSTER
  /\ \A x, y \in all : x # y => ChainOf(f, x.first) \cap ChainOf(f, y.first) = {}
ChainsApart(f) == ApartIn(f, Places(f) \cup {[dir |-> None, at |-> 0, first |-> RootDir]})
OwnChains == ChainsApart(fat) /\ ChainsApart(fatDisk)

(* Clusters that no entry leads to are free.                               *)
NothingLost == {c \in Cluster : fat[c] # 0} = Used(fat) \cup lost

(* Names come out of a directory as they went in, none is there twice and  *)
(* short names are different (fat_misc.c:55-117, fatfs.c:718-729).         *)
NamesApart(s, live, name) ==
  /\ \A p \in live : name[p] # Garbled
  /\ \A p, q \in live : p # q => Folded[name[p]] # Folded[name[q]] /\ s[p].sfn # s[q].sfn
NamesKeptIn(s, live) == NamesApart(s, live, [p \in live |-> NameAt(s, p)])
NamesKept ==
  \A c \in Dirs(fat) :
    \E s \in {Entries(OnDisk(fat), c)} : NamesKeptIn(s, {p \in DOMAIN s : Live(s[p])})

(* The nodes of a directory that has been read are its entries: an open    *)
(* file has the length, the first cluster and the short name of its entry  *)
(* (fatfs.c:501-606).                                                      *)
NodesAreEntries ==
  \A c \in filled :
    /\ kids[c] # {} => {[x EXCEPT !.info = None] : x \in kids[c]} = Listing(OnDisk(fat), c)
    /\ \A x \in kids[c] : x.info # None =>
         \E e \in LiveIn(fat, c) : e.sfn = x.info.sfn /\ e.first = x.info.first /\ e.size = x.len
=============================================================================
