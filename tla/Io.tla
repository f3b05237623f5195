--------------------------------- MODULE Io ---------------------------------
(***************************************************************************)
(* What the system calls for files do (kernel/io/io.c): the descriptors of *)
(* each process, kept in a hash table by process, over the nodes of Vfs;   *)
(* and the kernel's log (kernel/klog.c), which is a file like any other    *)
(* and is written to in the middle of what other files are asked.          *)
(*                                                                         *)
(* A file is a sequence of units, enough to tell lines of the log; how the *)
(* units come to be on the disk is FatFile's and FatTree's, and the disk   *)
(* here is the size in each directory entry.                               *)
(***************************************************************************)
EXTENDS Vfs, Integers

CONSTANTS
  MaxFd,       \* MAX_FD_CNT (64)
  Std,         \* descriptors that a process starts with (3)
  Buckets,     \* of the hash table (64)
  CacheSize,   \* INIT_BUFF_ENTRIES (256)
  LogNames,    \* names for the log, as many as klog_init_persistence tries
  EarlyLines,  \* lines logged before the log is opened
  Paths,       \* the paths that processes use
  Programs,    \* the paths that are executed
  Sizes,       \* lengths of reads and writes, places of seeks
  MaxPid, MaxNode, MaxLen, MaxLines, MaxStreams   \* bounds

VARIABLES
  nodes,       \* number of a node -> the node
  disk,        \* <<directory, name>> -> size, of the entries on the disk
  table,       \* _proc_io: bucket -> the pids in it
  fds,         \* process, or Kernel -> fd -> descriptor
  streams,     \* process -> its open directories
  log,         \* _initial_buff, _persistence, and what has been logged
  pids,        \* next_pid
  misuse,      \* history: a process has done what the code does not expect
  halted       \* an assertion has failed, or a fault has stopped the kernel

(* The table has a bucket, a process a descriptor, and one of the names    *)
(* for the log is free: klog_init_persistence asserts that.                *)
ASSUME IoAssumption ==
  /\ MaxFd \in Nat \ {0} /\ Buckets \in Nat \ {0}
  /\ Std \in Nat /\ CacheSize \in Nat /\ EarlyLines \in 0 .. CacheSize
  /\ LogNames \in Seq(STRING) /\ \E i \in DOMAIN LogNames : LogNames[i] # LogNames[1]
  /\ "" \notin Range(LogNames)
  /\ Paths \subseteq Seq(STRING) /\ Programs \subseteq Seq(STRING) /\ Sizes \subseteq Nat

ioVars == <<nodes, disk, table, fds, streams, log, pids, misuse, halted>>

Kernel == 0
NoFd == MaxFd          \* INVALID_FD
NoDesc == [node |-> -1, off |-> 0]   \* a null pointer in the array
Desc(n) == [node |-> n, off |-> 0]
EmptyFds == [i \in 0 .. MaxFd - 1 |-> NoDesc]

(* The kernel as it is passed from call to call.                           *)
Now == [nodes |-> nodes, disk |-> disk, fds |-> fds, log |-> log, misuse |-> misuse, ok |-> TRUE]
Put(result) ==
  \E k \in {result} :
    /\ nodes' = k.nodes /\ disk' = k.disk /\ fds' = k.fds /\ log' = k.log
    /\ misuse' = k.misuse /\ halted' = ~k.ok
Stop(k) == [k EXCEPT !.ok = FALSE]
Misused(k) == [k EXCEPT !.misuse = TRUE]

(* The hash table: a list of keys for each bucket.                         *)
hash_tbl_has(t, key) == key \in Range(t[key % Buckets])
hash_tbl_add(t, key) == [t EXCEPT ![key % Buckets] = <<key>> \o @]
hash_tbl_delete(t, key) == [t EXCEPT ![key % Buckets] = RemoveFirst(@, key)]

Running == {p \in DOMAIN fds \ {Kernel} : hash_tbl_has(table, p)}

-----------------------------------------------------------------------------
(* Files.  Users of a node: the descriptors that refer to it.              *)
Refers(d, n) == d # NoDesc /\ d.node = n
Users(k, n) == {at \in (DOMAIN k.fds) \X (0 .. MaxFd - 1) : Refers(k.fds[at[1]][at[2]], n)}
IsFile(k, n) == k.nodes[n].kind = "fatfile"
EntryOf(k, n) == <<k.nodes[n].dir, k.nodes[n].name>>

(* Units: a line of the log has its number.                                *)
End == 0
Gap == -1
Byte == -2
(* A write puts units at an offset, with a gap of what was there before.   *)
Overlaid(text, off, units) ==
  [i \in 1 .. (IF off + Len(units) > Len(text) THEN off + Len(units) ELSE Len(text)) |->
     IF i \in off + 1 .. off + Len(units) THEN units[i - off]
     ELSE IF i <= Len(text) THEN text[i] ELSE Gap]

(* _fs_write_file of fatfs.c, which asserts that the file is open, and has *)
(* the length written to the entry of its name, whose ever that now is.    *)
fs_write(k, n, off, units) ==
  LET len == IF off + Len(units) > k.nodes[n].len THEN off + Len(units) ELSE k.nodes[n].len
      e == EntryOf(k, n)
  IN  IF ~IsFile(k, n) THEN k
      ELSE IF ~k.nodes[n].open THEN Stop(k)
      ELSE [k EXCEPT !.nodes[n].text = Overlaid(@, off, units), !.nodes[n].len = len,
                     !.disk = IF len > k.nodes[n].len /\ e \in DOMAIN @
                              THEN [@ EXCEPT ![e] = len] ELSE @]

(* io_write and io_read.  A descriptor that has been closed has no node,   *)
(* and the functions of a node at address 0 are what the BIOS left there.  *)
Live(k, o, fd) == k.fds[o][fd] # NoDesc /\ k.fds[o][fd].node # Null
io_write(k, o, fd, units) ==
  IF k.fds[o][fd] = NoDesc THEN k
  ELSE IF ~Live(k, o, fd) THEN Stop(Misused(k))
  ELSE LET d == k.fds[o][fd]
       IN  [fs_write(k, d.node, d.off, units)
              EXCEPT !.fds[o][fd].off = IF IsFile(k, d.node) THEN @ + Len(units) ELSE @]

(* What is read: of a file up to its end, of the RAM disk without a look   *)
(* at the offset, and of the console in Sched.                             *)
Count(k, d, n) ==
  LET len == k.nodes[d.node].len
      least == IF n < len THEN n ELSE len
  IN  CASE k.nodes[d.node].kind = "ramfile" -> least
        [] IsFile(k, d.node) /\ k.nodes[d.node].open /\ d.off < len ->
             IF d.off + n > len THEN len - d.off ELSE n
        [] OTHER -> 0
io_read(k, o, fd, n) ==
  IF k.fds[o][fd] = NoDesc THEN k
  ELSE IF ~Live(k, o, fd) THEN Stop(Misused(k))
  ELSE [k EXCEPT !.fds[o][fd].off = @ + Count(k, k.fds[o][fd], n)]

-----------------------------------------------------------------------------
(* klog_impl: a line and its end are written one after the other; before   *)
(* there is a file for them, lines are kept, until there is no room.       *)
Line(k, line) == io_write(k, Kernel, k.log.persistence, <<line, End>>)
Said(k) ==
  IF k.log.persistence # NoFd THEN Line(k, k.log.said)
  ELSE IF Len(k.log.cache) < CacheSize
  THEN [k EXCEPT !.log.cache = Append(@, k.log.said)]
  ELSE [k EXCEPT !.log.lost = @ \cup {k.log.said}]
KLOG(k) == IF k.ok THEN Said([k EXCEPT !.log.said = @ + 1]) ELSE k

(* A call that finds or makes a node gives the kernel after it, and the    *)
(* node or Null.                                                           *)
With(k, n) == [k |-> k, node |-> n]

(* _fs_open_file of fatfs.c, for whoever opens the node first; the other   *)
(* nodes' open.  Faulty form: the length is not looked up.                 *)
OpenedEmpty(k, n, e) ==
  IF e \in DOMAIN k.disk THEN With([k EXCEPT !.nodes[n].open = TRUE, !.nodes[n].len = 0], n)
  ELSE With(KLOG(k), Null)
Opened(k, n, e) ==
  IF e \in DOMAIN k.disk
  THEN With([k EXCEPT !.nodes[n].open = TRUE, !.nodes[n].len = k.disk[e]], n)
  ELSE With(KLOG(k), Null)
fs_open(k, parent, n) ==
  IF IsFile(k, n) /\ ~k.nodes[n].open
  THEN Opened(KLOG(k), n, <<parent, k.nodes[n].name>>)
  ELSE With(k, IF IsFile(k, n) \/ k.nodes[n].kind = "ramfile" THEN n ELSE Null)

(* _fs_close_file: it frees what all descriptors of the node use.          *)
fs_close(k, n) ==
  IF IsFile(k, n) THEN [KLOG(k) EXCEPT !.nodes[n].open = FALSE] ELSE k

(* _fs_create_child: the entry, the node, which is open if it is a file's, *)
(* and its place in the directory.                                         *)
Node(kind, name, dir) ==
  [kind |-> kind, name |-> name, dir |-> dir, kids |-> <<>>, len |-> 0, open |-> FALSE, text |-> <<>>]
Entered(k, e, kind) ==
  [k EXCEPT !.disk = [x \in DOMAIN @ \cup {e} |-> IF x = e THEN 0 ELSE @[x]],
            !.nodes = Append(@, Node(kind, e[2], e[1]))]
Linked(k, dir) == With([k EXCEPT !.nodes[dir].kids = <<Len(k.nodes)>> \o @], Len(k.nodes))
NewChild(k, e, kind, room) ==
  IF e \in DOMAIN k.disk \/ ~room THEN With(k, Null)
  ELSE IF kind = "fatdir" THEN Linked(Entered(k, e, kind), e[1])
  ELSE Linked(fs_open(Entered(k, e, kind), e[1], Len(k.nodes) + 1).k, e[1])
fs_create_child(k, dir, name, kind, room) ==
  IF k.nodes[dir].kind = "fatdir" THEN NewChild(KLOG(k), <<dir, name>>, kind, room)
  ELSE With(k, Null)

-----------------------------------------------------------------------------
(* The first descriptor that is not in use.                                *)
FreeFds(k, o) == {fd \in 0 .. MaxFd - 1 : ~Live(k, o, fd)}
_find_free_fd(k, o) == IF FreeFds(k, o) = {} THEN NoFd ELSE Min(FreeFds(k, o))

(* _create_file_desc for what was found or made.                           *)
WithDesc(found, o, fd) ==
  IF found.node = Null THEN [k |-> found.k, fd |-> NoFd]
  ELSE [k |-> [found.k EXCEPT !.fds[o][fd] = Desc(found.node)], fd |-> fd]
_open_file(k, o, path) ==
  LET at == fs_get_abs_path(k.nodes, path)
      fd == _find_free_fd(k, o)
  IN  IF at.node = Null \/ fd = NoFd THEN [k |-> k, fd |-> NoFd]
      ELSE WithDesc(fs_open(k, at.parent, at.node), o, fd)
_create_file(k, o, path, room) ==
  LET dir == fs_get_abs_path(k.nodes, LeafDir(path)).node
      fd == _find_free_fd(k, o)
  IN  IF fs_get_abs_path(k.nodes, path).node # Null \/ ~HasLeaf(path) \/ fd = NoFd \/ dir = Null
      THEN [k |-> k, fd |-> NoFd]
      ELSE WithDesc(fs_create_child(k, dir, Last(path), "fatfile", room), o, fd)

(* io_open: each way of opening is tried when those before it have failed. *)
FirstRead(k, o, path, flags) ==
  IF "read" \in flags THEN _open_file(k, o, path) ELSE [k |-> k, fd |-> NoFd]
ThenCreate(r, o, path, flags, room) ==
  IF r.fd = NoFd /\ "create" \in flags THEN _create_file(r.k, o, path, room) ELSE r
ThenWrite(r, o, path, flags) ==
  IF r.fd = NoFd /\ "write" \in flags THEN _open_file(r.k, o, path) ELSE r
io_open(k, o, path, flags, room) ==
  ThenWrite(ThenCreate(FirstRead(k, o, path, flags), o, path, flags, room), o, path, flags)

(* io_close.  Whoever else has the node open is left with a closed file.   *)
(* Faulty form: the descriptor is left as it is.                           *)
Sharing(k, o, fd, n) == IsFile(k, n) /\ Users(k, n) # {<<o, fd>>}
CloseKeepsDesc(k, o, fd) ==
  IF ~Live(k, o, fd) \/ Sharing(k, o, fd, k.fds[o][fd].node) THEN k
  ELSE fs_close(k, k.fds[o][fd].node)
io_close(k, o, fd) ==
  LET n == k.fds[o][fd].node
  IN  IF k.fds[o][fd] = NoDesc THEN k
      ELSE IF ~Live(k, o, fd) THEN Stop(Misused(k))
      ELSE [fs_close(IF Sharing(k, o, fd, n) THEN Misused(k) ELSE k, n)
              EXCEPT !.fds[o][fd] = Desc(Null)]

(* io_remove of a node that was found: only the FAT file system removes,   *)
(* whether the file is open or not.                                        *)
_fs_remove(k, parent, n) ==
  LET e == <<parent, k.nodes[n].name>>
  IN  IF k.nodes[parent].kind # "fatdir" THEN Stop(k)
      ELSE IF e \notin DOMAIN k.disk THEN KLOG(k)
      ELSE [k EXCEPT !.disk = [x \in DOMAIN @ \ {e} |-> @[x]],
                     !.nodes[parent].kids = RemoveFirst(@, n)]
io_remove(k, at) ==
  IF Listed(k.nodes, at.node) # <<>> \/ k.nodes[at.node].kind \notin {"fatfile", "fatdir"} THEN k
  ELSE _fs_remove(KLOG(IF Users(k, at.node) # {} THEN Misused(k) ELSE k), at.parent, at.node)

-----------------------------------------------------------------------------
(* After the mount; a file is there, and a log of the same minute, empty.  *)
Program == 6
LogDir == 7
File == 9
IoInit ==
  /\ nodes = <<[Node("root", "", 0) EXCEPT !.kids = <<Fat, Dev, Ram>>],
               [Node("ramdir", "initrd", 0) EXCEPT !.kids = <<Program>>],
               Node("dev", "dev", 0), Node("con", "con1", 0),
               [Node("fatdir", "fatfs", 0) EXCEPT !.kids = <<LogDir, File>>],
               [Node("ramfile", "shell", Ram) EXCEPT !.len = 2],
               [Node("fatdir", "log", Fat) EXCEPT !.kids = <<8>>],
               Node("fatfile", Head(LogNames), LogDir),
               Node("fatfile", "f", Fat)>>
  /\ disk = [e \in {<<Fat, "log">>, <<Fat, "f">>, <<LogDir, Head(LogNames)>>} |-> 0]
  /\ table = [b \in 0 .. Buckets - 1 |-> <<>>]
  /\ fds = [o \in {Kernel} |-> EmptyFds]
  /\ streams = [o \in {} |-> <<>>]
  /\ log = [cache |-> [i \in 1 .. EarlyLines |-> i], persistence |-> NoFd,
            said |-> EarlyLines, lost |-> {}]
  /\ pids = 1 /\ misuse = FALSE /\ halted = FALSE

(* klog_init_persistence, once, before there are processes: the first name *)
(* that is free, or the last one tried; then the lines kept are written.   *)
(* Faulty form: from the last one on.                                      *)
LogPath(i) == <<"fatfs", "log", LogNames[i]>>
LogPathFree(i) == fs_get_abs_path(nodes, LogPath(i)).node = Null
Try == Min({i \in 1 .. Len(LogNames) : LogPathFree(i)} \cup {Len(LogNames)})
Written(k, lines) ==
  LET after[i \in 0 .. Len(lines)] == IF i = 0 THEN k ELSE Line(after[i - 1], lines[i])
  IN  after[Len(lines)]
PersistedBackwards(r) ==
  IF r.fd = NoFd THEN Stop(r.k)
  ELSE Written([r.k EXCEPT !.log.persistence = r.fd, !.log.cache = <<>>], Reverse(r.k.log.cache))
Persisted(r) ==
  IF r.fd = NoFd THEN Stop(r.k)
  ELSE Written([r.k EXCEPT !.log.persistence = r.fd, !.log.cache = <<>>], r.k.log.cache)
klog_init_persistence ==
  /\ ~halted /\ ~misuse /\ log.persistence = NoFd
  /\ Put(Persisted(io_open(Now, Kernel, LogPath(Try), {"create"}, TRUE)))
  /\ UNCHANGED <<table, streams, pids>>

(* A system call of a process that is running, while the bounds last; what *)
(* comes after a misuse is not followed.                                   *)
Calls(o) ==
  /\ ~halted /\ ~misuse /\ log.persistence # NoFd /\ o \in Running
  /\ log.said < MaxLines
Done(k) == Put(k) /\ UNCHANGED <<table, streams, pids>>

Open(o) ==
  /\ Calls(o)
  /\ \E path \in Paths, room \in BOOLEAN,
        flags \in {{"read"}, {"write"}, {"create"}, {"read", "write", "create"}} :
       /\ "create" \in flags => Len(nodes) < MaxNode
       /\ room \/ "create" \in flags
       /\ Done(io_open(Now, o, path, flags, room).k)
Close(o) == Calls(o) /\ \E fd \in 0 .. MaxFd - 1 : Done(io_close(Now, o, fd))
Read(o) ==
  /\ Calls(o)
  /\ \E fd \in 0 .. MaxFd - 1, n \in Sizes :
       /\ Live(Now, o, fd) => fds[o][fd].off + n <= MaxLen
       /\ Done(io_read(Now, o, fd, n))

(* What a process writes into the log is not what the kernel expects.      *)
IsLog(n) == n = fds[Kernel][log.persistence].node
Write(o) ==
  /\ Calls(o)
  /\ \E fd \in 0 .. MaxFd - 1, n \in Sizes :
       LET k == IF Live(Now, o, fd) /\ IsLog(fds[o][fd].node) THEN Misused(Now) ELSE Now
       IN  /\ Live(Now, o, fd) => fds[o][fd].off + n <= MaxLen
           /\ Done(io_write(k, o, fd, [i \in 1 .. n |-> Byte]))

(* io_seek: to the end at most.  The length at address 0 moves nothing     *)
(* that is read again.                                                     *)
Seek(o) ==
  /\ Calls(o)
  /\ \E fd \in 0 .. MaxFd - 1, n \in Sizes \cup {0} :
       LET len == nodes[fds[o][fd].node].len
       IN  /\ Live(Now, o, fd)
           /\ Done([Now EXCEPT !.fds[o][fd].off = IF n > len THEN len ELSE n])

(* io_mkdir and io_remove.  For a path that leads nowhere, io_remove reads *)
(* the flags at address 0 and stops or returns, by what they are.          *)
MkDir(o) ==
  /\ Calls(o)
  /\ \E path \in Paths, room \in BOOLEAN :
       LET dir == fs_get_abs_path(nodes, LeafDir(path)).node
       IN  /\ HasLeaf(path) /\ dir # Null /\ Len(nodes) < MaxNode
           /\ Done(fs_create_child(Now, dir, Last(path), "fatdir", room).k)
Delete(o) ==
  /\ Calls(o)
  /\ \E path \in Paths :
       LET at == fs_get_abs_path(nodes, path)
       IN  IF at.node = Null
           THEN Done(Misused(Now)) \/ Done(Stop(Misused(Now)))
           ELSE Done(io_remove(Now, at))

(* io_opendir copies what is listed, each entry before the one before it.  *)
(* The test whether the node is a directory is of !flags and never true.   *)
OpenDir(o) ==
  /\ Calls(o) /\ Cardinality({x \in DOMAIN streams : streams[x] # <<>>}) < MaxStreams
  /\ \E path \in Paths :
       LET n == fs_get_abs_path(nodes, path).node
       IN  /\ n # Null
           /\ streams' = [streams EXCEPT ![o] = <<Reverse(Listed(nodes, n))>> \o @]
  /\ UNCHANGED <<nodes, disk, table, fds, log, pids, misuse, halted>>
ReadDir(o) ==
  /\ Calls(o) /\ streams[o] # <<>> /\ Head(streams[o]) # <<>>
  /\ streams' = [streams EXCEPT ![o][1] = Tail(@)]
  /\ UNCHANGED <<nodes, disk, table, fds, log, pids, misuse, halted>>
CloseDir(o) ==
  /\ Calls(o) /\ streams[o] # <<>>
  /\ streams' = [streams EXCEPT ![o] = Tail(@)]
  /\ UNCHANGED <<nodes, disk, table, fds, log, pids, misuse, halted>>

-----------------------------------------------------------------------------
(* proc_start_user_proc reads the file and closes it, whoever else has it  *)
(* open, and goes on if it can be loaded.  io_proc_start makes the first   *)
(* descriptors, or takes over those of the caller that are named.          *)
ReadImage(opened, shared) ==
  IF opened.node = Null THEN opened
  ELSE With(fs_close(IF shared THEN Misused(opened.k) ELSE opened.k, opened.node), opened.node)
Image(path) ==
  LET at == fs_get_abs_path(nodes, path)
  IN  IF at.node = Null \/ at.parent = Null \/ nodes[at.node].len = 0 THEN With(Now, Null)
      ELSE ReadImage(fs_open(Now, at.parent, at.node),
                     IsFile(Now, at.node) /\ Users(Now, at.node) # {})
io_proc_start(k, o, given) ==
  [fd \in 0 .. MaxFd - 1 |->
     IF fd >= Std THEN NoDesc
     ELSE IF given[fd] = NoFd THEN Desc(Con)
     ELSE IF k.fds[o][given[fd]] = NoDesc THEN NoDesc
     ELSE Desc(k.fds[o][given[fd]].node)]
Given == {[fd \in 0 .. Std - 1 |-> IF fd = std THEN own ELSE NoFd] :
            std \in 0 .. Std - 1, own \in 0 .. MaxFd}
Start(o) ==
  /\ \/ Calls(o)
     \/ /\ o = Kernel /\ pids = 1 /\ log.persistence # NoFd
        /\ ~halted /\ ~misuse /\ log.said < MaxLines
  /\ \E path \in Programs, given \in Given, loads \in BOOLEAN : \E image \in {Image(path)} :
       /\ pids <= MaxPid
       /\ o = Kernel => \A fd \in 0 .. Std - 1 : given[fd] = NoFd
       /\ IF image.node # Null /\ loads
          THEN /\ Put(IF hash_tbl_has(table, pids) THEN Stop(image.k)
                     ELSE [image.k EXCEPT !.fds = [x \in DOMAIN @ \cup {pids} |->
                             IF x = pids THEN io_proc_start(image.k, o, given) ELSE @[x]]])
               /\ table' = hash_tbl_add(table, pids)
               /\ streams' = [x \in DOMAIN streams \cup {pids} |->
                                IF x = pids THEN <<>> ELSE streams[x]]
               /\ pids' = pids + 1
          ELSE Done(IF image.node # Null THEN KLOG(image.k) ELSE image.k)

(* io_proc_end, called by sched_exit: directories are closed, files not.   *)
Exit(o) ==
  /\ Calls(o)
  /\ table' = hash_tbl_delete(table, o)
  /\ fds' = [x \in DOMAIN fds \ {o} |-> fds[x]]
  /\ streams' = [x \in DOMAIN streams \ {o} |-> streams[x]]
  /\ UNCHANGED <<nodes, disk, log, pids, misuse, halted>>

IoNext ==
  \/ klog_init_persistence
  \/ Start(Kernel)
  \/ \E o \in Running :
       \/ Open(o) \/ Close(o) \/ Read(o) \/ Write(o) \/ Seek(o) \/ MkDir(o) \/ Delete(o)
       \/ OpenDir(o) \/ ReadDir(o) \/ CloseDir(o) \/ Start(o) \/ Exit(o)
IoSpec == IoInit /\ [][IoNext]_ioVars
-----------------------------------------------------------------------------
(* The kernel stops in these calls only after a process has done what they *)
(* do not expect: used a descriptor it had closed, closed or removed what  *)
(* another descriptor refers to, or removed what is not there.  Neither a  *)
(* process that ends with files open, nor one that opens what another has  *)
(* left open or runs out of descriptors, stops it.                         *)
OnlyMisuseHalts == halted => misuse

(* Whoever opens, closes and writes in which order, an offset stays within *)
(* its file, and a file has the length that its directory entry has: what  *)
(* is appended through one descriptor is there for the next.               *)
OffsetsInFile ==
  ~misuse =>
    \A o \in DOMAIN fds, fd \in 0 .. MaxFd - 1 :
      LET n == fds[o][fd].node
      IN  (Live(Now, o, fd) /\ IsFile(Now, n)) =>
             /\ fds[o][fd].off <= nodes[n].len
             /\ EntryOf(Now, n) \in DOMAIN disk /\ nodes[n].len = disk[EntryOf(Now, n)]

(* The log holds every line that was logged, those from before there was a *)
(* file first, but for the lines that found the cache full; none is twice  *)
(* there, or torn by one that was logged while a file was being opened.    *)
LogKept ==
  (log.persistence # NoFd /\ ~misuse) =>
     LET text == nodes[fds[Kernel][log.persistence].node].text
         line(i) == text[2 * i - 1]
     IN  \E n \in 0 .. Len(text) :
           /\ Len(text) = 2 * n /\ \A i \in 1 .. n : text[2 * i] = End
           /\ \A i, j \in 1 .. n : i < j => line(i) < line(j)
           /\ {line(i) : i \in 1 .. n} = (1 .. log.said) \ log.lost
=============================================================================
