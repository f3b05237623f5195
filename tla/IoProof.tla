------------------------------ MODULE IoProof ------------------------------
(***************************************************************************)
(* Proofs about Io, for every number of descriptors, size of the hash      *)
(* table and of the cache of the log, and for any paths and sizes.         *)
(*                                                                         *)
(* What the kernel keeps of its nodes, directory entries and descriptors   *)
(* (Base) and of its log (LogOk) is stated on the record that the calls    *)
(* pass on, so that each call is shown to keep it by itself, with the      *)
(* lines that it logs on the way.                                          *)
(***************************************************************************)
EXTENDS Io, Induction, SequenceTheorems

(* All strings; the provers are to know of these that they are some.      *)
Names == STRING \cup {"", "initrd", "dev", "con1", "fatfs", "shell", "log", "f"}
Kinds == {"root", "ramdir", "dev", "con", "ramfile", "fatdir", "fatfile"}
NodeT ==
  [kind : Kinds, name : Names, dir : Nat, kids : Seq(Nat), len : Nat, open : BOOLEAN,
   text : Seq(Int)]
DescT == [node : Int, off : Nat]
LogT == [cache : Seq(Nat), persistence : 0 .. MaxFd, said : Nat, lost : SUBSET Nat]
Disks == UNION {[S -> Nat] : S \in SUBSET (Nat \X Names)}
FdT == [0 .. MaxFd - 1 -> DescT]
Fds == UNION {[S -> FdT] : S \in SUBSET Nat}

(* The nodes that are made at the start stay what they are; later ones are *)
(* of the FAT file system.                                                 *)
Fixed(ns) ==
  /\ Len(ns) >= LogDir
  /\ ns[Root].kind = "root" /\ ns[Root].kids = <<Fat, Dev, Ram>>
  /\ ns[Ram].kind = "ramdir" /\ ns[Ram].kids = <<Program>>
  /\ ns[Dev].kind = "dev" /\ ns[Con].kind = "con" /\ ns[Program].kind = "ramfile"
  /\ ns[Fat].kind = "fatdir" /\ ns[LogDir].kind = "fatdir"
  /\ \A n \in LogDir .. Len(ns) : ns[n].kind \in {"fatfile", "fatdir"}

(* The children of a directory have it as their parent, names of their own *)
(* and entries on the disk.                                                *)
ChildOk(ns, ds, d, c) ==
  /\ c \in LogDir .. Len(ns) /\ ns[c].dir = d /\ <<d, ns[c].name>> \in DOMAIN ds
KidsOk(ns, ds, d) ==
  /\ \A i \in DOMAIN ns[d].kids : ChildOk(ns, ds, d, ns[d].kids[i])
  /\ \A i, j \in DOMAIN ns[d].kids : ns[ns[d].kids[i]].name = ns[ns[d].kids[j]].name => i = j
Tree(ns, ds) == \A d \in DOMAIN ns : ns[d].kind = "fatdir" => KidsOk(ns, ds, d)

(* A node that has not been removed.                                       *)
Attached(ns, n) ==
  /\ ns[n].dir \in DOMAIN ns /\ ns[ns[n].dir].kind = "fatdir"
  /\ \E i \in DOMAIN ns[ns[n].dir].kids : ns[ns[n].dir].kids[i] = n

(* An open file is as long as its entry says.                              *)
Key(ns, n) == <<ns[n].dir, ns[n].name>>
Lengths(ns, ds) ==
  \A n \in DOMAIN ns :
    (ns[n].kind = "fatfile" /\ ns[n].open /\ Attached(ns, n)) => ns[n].len = ds[Key(ns, n)]

(* What a descriptor refers to: a file is there and open.                  *)
FileOk(ns, n, off) == ns[n].open /\ Attached(ns, n) /\ off <= ns[n].len
DescOk(ns, d) ==
  \/ d = NoDesc \/ d.node = Null
  \/ d.node \in DOMAIN ns /\ (ns[d.node].kind = "fatfile" => FileOk(ns, d.node, d.off))
Descs(ns, f) ==
  /\ Kernel \in DOMAIN f
  /\ \A o \in DOMAIN f, fd \in 0 .. MaxFd - 1 : DescOk(ns, f[o][fd])

(* The log, before there is a file for it and after.                       *)
Counted(line, n, S) ==
  /\ \A i, j \in 1 .. n : i < j => line[i] < line[j]
  /\ \A i \in 1 .. n : line[i] \in S
  /\ \A x \in S : \E i \in 1 .. n : line[i] = x
LinesOf(text, n, S) ==
  /\ Len(text) = 2 * n /\ \A i \in 1 .. n : text[2 * i] = End
  /\ Counted([i \in 1 .. n |-> text[2 * i - 1]], n, S)
Logged(l) == (1 .. l.said) \ l.lost
LogAt(ns, d) ==
  /\ d # NoDesc /\ d.node \in LogDir .. Len(ns) /\ ns[d.node].kind = "fatfile"
  /\ ns[d.node].dir = LogDir /\ d.off = ns[d.node].len /\ d.off = Len(ns[d.node].text)
LogFile(ns, d, S) == LogAt(ns, d) /\ \E n \in Nat : LinesOf(ns[d.node].text, n, S)
LogOk(ns, f, l) ==
  /\ l \in LogT /\ l.lost \subseteq 1 .. l.said
  /\ IF l.persistence = NoFd THEN Counted(l.cache, Len(l.cache), Logged(l))
     ELSE LogFile(ns, f[Kernel][l.persistence], Logged(l))

Base(ns, ds, f) ==
  /\ ns \in Seq(NodeT) /\ ds \in Disks /\ f \in Fds
  /\ Fixed(ns) /\ Tree(ns, ds) /\ Lengths(ns, ds) /\ Descs(ns, f)
  /\ ns[LogDir].dir = Fat /\ Attached(ns, LogDir)

(* The kernel's record by its parts, and what is always true of it.        *)
Kern(ns, ds, f, l, m, b) ==
  [nodes |-> ns, disk |-> ds, fds |-> f, log |-> l, misuse |-> m, ok |-> b]
Up == TRUE   \* no assertion has failed; a node is open
Down == FALSE
Good(k) ==
  /\ k = Kern(k.nodes, k.disk, k.fds, k.log, k.misuse, Up)
  /\ Base(k.nodes, k.disk, k.fds) /\ LogOk(k.nodes, k.fds, k.log)

(* Pids are not used again, and the hash table knows only those given out. *)
Known(t, n) ==
  /\ t \in [0 .. Buckets - 1 -> Seq(Nat)]
  /\ \A b \in 0 .. Buckets - 1 : \A i \in DOMAIN t[b] : t[b][i] < n
Pids == pids \in Nat \ {0} /\ Known(table, pids)

Unopened == log.persistence = NoFd => IoInit
IInv == ~misuse => (~halted /\ Good(Now) /\ Pids /\ Unopened)
LEMMA NodeIn ==
  ASSUME NEW ns \in Seq(NodeT), NEW n \in DOMAIN ns
  PROVE  /\ ns[n] \in NodeT /\ ns[n].kind \in Kinds /\ ns[n].name \in Names /\ ns[n].dir \in Nat
         /\ ns[n].kids \in Seq(Nat) /\ ns[n].len \in Nat /\ ns[n].open \in BOOLEAN
         /\ ns[n].text \in Seq(Int)
<1>1. ns[n] \in NodeT
  OBVIOUS
<1> QED
  BY <1>1 DEF NodeT

LEMMA GoodKern ==
  ASSUME NEW ns, NEW ds, NEW f, NEW l, NEW m
  PROVE  /\ Good(Kern(ns, ds, f, l, m, Up))
               <=> Base(ns, ds, f) /\ LogOk(ns, f, l)
         /\ Kern(ns, ds, f, l, m, Up).misuse = m
  BY DEF Good, Kern

LEMMA GoodIs ==
  ASSUME NEW k, Good(k)
  PROVE  \E ns, ds, f, l, m :
           /\ k = Kern(ns, ds, f, l, m, Up)
           /\ Base(ns, ds, f) /\ LogOk(ns, f, l)
  BY DEF Good

(* Assignments to parts of it.                                            *)
WithSaid(l, x) == [l EXCEPT !.said = x]
WithCache(l, x) == [l EXCEPT !.cache = x]
WithLost(l, x) == [l EXCEPT !.lost = x]
WithPersistence(l, x) == [l EXCEPT !.persistence = x]
TextSet(k, n, x) == [k EXCEPT !.nodes[n].text = x]
LenSet(k, n, x) == [k EXCEPT !.nodes[n].len = x]
OpenSet(k, n, x) == [k EXCEPT !.nodes[n].open = x]
KidsSet(k, n, x) == [k EXCEPT !.nodes[n].kids = x]
NodesSet(k, x) == [k EXCEPT !.nodes = x]
DiskSet(k, x) == [k EXCEPT !.disk = x]
FdsSet(k, x) == [k EXCEPT !.fds = x]
DescSet(k, o, fd, x) == [k EXCEPT !.fds[o][fd] = x]
OffSet(k, o, fd, x) == [k EXCEPT !.fds[o][fd].off = x]
CacheSet(k, x) == [k EXCEPT !.log.cache = x]
SaidSet(k, x) == [k EXCEPT !.log.said = x]
LostSet(k, x) == [k EXCEPT !.log.lost = x]
PersistenceSet(k, x) == [k EXCEPT !.log.persistence = x]
MisuseSet(k, x) == [k EXCEPT !.misuse = x]

LEMMA TextSetIs ==
  ASSUME NEW ns, NEW ds, NEW f, NEW l, NEW m, NEW b, NEW k, k = Kern(ns, ds, f, l, m, b),
         NEW n, NEW x
  PROVE  TextSet(k, n, x) = Kern([ns EXCEPT ![n].text = x], ds, f, l, m, b)
  BY DEF Kern, TextSet
LEMMA LenSetIs ==
  ASSUME NEW ns, NEW ds, NEW f, NEW l, NEW m, NEW b, NEW k, k = Kern(ns, ds, f, l, m, b),
         NEW n, NEW x
  PROVE  LenSet(k, n, x) = Kern([ns EXCEPT ![n].len = x], ds, f, l, m, b)
  BY DEF Kern, LenSet
LEMMA OpenSetIs ==
  ASSUME NEW ns, NEW ds, NEW f, NEW l, NEW m, NEW b, NEW k, k = Kern(ns, ds, f, l, m, b),
         NEW n, NEW x
  PROVE  OpenSet(k, n, x) = Kern([ns EXCEPT ![n].open = x], ds, f, l, m, b)
  BY DEF Kern, OpenSet
LEMMA KidsSetIs ==
  ASSUME NEW ns, NEW ds, NEW f, NEW l, NEW m, NEW b, NEW k, k = Kern(ns, ds, f, l, m, b),
         NEW n, NEW x
  PROVE  KidsSet(k, n, x) = Kern([ns EXCEPT ![n].kids = x], ds, f, l, m, b)
  BY DEF Kern, KidsSet
LEMMA NodesSetIs ==
  ASSUME NEW ns, NEW ds, NEW f, NEW l, NEW m, NEW b, NEW k, k = Kern(ns, ds, f, l, m, b),
         NEW x
  PROVE  NodesSet(k, x) = Kern(x, ds, f, l, m, b)
  BY DEF Kern, NodesSet
LEMMA DiskSetIs ==
  ASSUME NEW ns, NEW ds, NEW f, NEW l, NEW m, NEW b, NEW k, k = Kern(ns, ds, f, l, m, b),
         NEW x
  PROVE  DiskSet(k, x) = Kern(ns, x, f, l, m, b)
  BY DEF Kern, DiskSet
LEMMA FdsSetIs ==
  ASSUME NEW ns, NEW ds, NEW f, NEW l, NEW m, NEW b, NEW k, k = Kern(ns, ds, f, l, m, b),
         NEW x
  PROVE  FdsSet(k, x) = Kern(ns, ds, x, l, m, b)
  BY DEF Kern, FdsSet
LEMMA DescSetIs ==
  ASSUME NEW ns, NEW ds, NEW f, NEW l, NEW m, NEW b, NEW k, k = Kern(ns, ds, f, l, m, b),
         NEW o, NEW fd, NEW x
  PROVE  DescSet(k, o, fd, x) = Kern(ns, ds, [f EXCEPT ![o][fd] = x], l, m, b)
  BY DEF Kern, DescSet
LEMMA OffSetIs ==
  ASSUME NEW ns, NEW ds, NEW f, NEW l, NEW m, NEW b, NEW k, k = Kern(ns, ds, f, l, m, b),
         NEW o, NEW fd, NEW x
  PROVE  OffSet(k, o, fd, x) = Kern(ns, ds, [f EXCEPT ![o][fd].off = x], l, m, b)
  BY DEF Kern, OffSet
LEMMA CacheSetIs ==
  ASSUME NEW ns, NEW ds, NEW f, NEW l, NEW m, NEW b, NEW k, k = Kern(ns, ds, f, l, m, b),
         NEW x
  PROVE  CacheSet(k, x) = Kern(ns, ds, f, WithCache(l, x), m, b)
  BY DEF Kern, CacheSet, WithCache
LEMMA SaidSetIs ==
  ASSUME NEW ns, NEW ds, NEW f, NEW l, NEW m, NEW b, NEW k, k = Kern(ns, ds, f, l, m, b),
         NEW x
  PROVE  SaidSet(k, x) = Kern(ns, ds, f, WithSaid(l, x), m, b)
  BY DEF Kern, SaidSet, WithSaid
LEMMA LostSetIs ==
  ASSUME NEW ns, NEW ds, NEW f, NEW l, NEW m, NEW b, NEW k, k = Kern(ns, ds, f, l, m, b),
         NEW x
  PROVE  LostSet(k, x) = Kern(ns, ds, f, WithLost(l, x), m, b)
  BY DEF Kern, LostSet, WithLost
LEMMA PersistenceSetIs ==
  ASSUME NEW ns, NEW ds, NEW f, NEW l, NEW m, NEW b, NEW k, k = Kern(ns, ds, f, l, m, b),
         NEW x
  PROVE  PersistenceSet(k, x) = Kern(ns, ds, f, WithPersistence(l, x), m, b)
  BY DEF Kern, PersistenceSet, WithPersistence
LEMMA MisuseSetIs ==
  ASSUME NEW ns, NEW ds, NEW f, NEW l, NEW m, NEW b, NEW k, k = Kern(ns, ds, f, l, m, b),
         NEW x
  PROVE  MisuseSet(k, x) = Kern(ns, ds, f, l, x, b)
  BY DEF Kern, MisuseSet

(* A function of any domain within D.                                      *)
LEMMA MapIn ==
  ASSUME NEW D, NEW V, NEW f
  PROVE  f \in UNION {[S -> V] : S \in SUBSET D}
           <=> /\ f = [x \in DOMAIN f |-> f[x]] /\ DOMAIN f \subseteq D
               /\ \A x \in DOMAIN f : f[x] \in V
<1> DEFINE P == f = [x \in DOMAIN f |-> f[x]] /\ DOMAIN f \subseteq D /\ \A x \in DOMAIN f : f[x] \in V
<1>1. ASSUME P PROVE f \in [DOMAIN f -> V] /\ DOMAIN f \in SUBSET D
  BY <1>1
<1>2. ASSUME NEW S \in SUBSET D, f \in [S -> V] PROVE P
  BY <1>2
<1> QED
  BY <1>1, <1>2
LEMMA DiskFun ==
  ASSUME NEW d
  PROVE  d \in Disks <=> /\ d = [e \in DOMAIN d |-> d[e]] /\ DOMAIN d \subseteq Nat \X Names
                         /\ \A e \in DOMAIN d : d[e] \in Nat
  BY DEF Disks
LEMMA FdsFun ==
  ASSUME NEW f
  PROVE  f \in Fds <=> /\ f = [o \in DOMAIN f |-> f[o]] /\ DOMAIN f \subseteq Nat
                         /\ \A o \in DOMAIN f : f[o] \in FdT
  BY MapIn DEF Fds

(* A file after units have been written to it.                             *)
Reach(off, units, len) == IF off + Len(units) > len THEN off + Len(units) ELSE len
Longer(x, off, units) ==
  [x EXCEPT !.text = Overlaid(@, off, units), !.len = Reach(off, units, @)]
Moved(f, o, fd, off) == [f EXCEPT ![o][fd].off = off]
Resized(ds, e, old, new) == IF new > old /\ e \in DOMAIN ds THEN [ds EXCEPT ![e] = new] ELSE ds

Writes(ns, ds, f, o, fd, units, n, off, x, n1, d1, f1) ==
  /\ f[o][fd] # NoDesc /\ n = f[o][fd].node /\ n # Null /\ ns[n].kind = "fatfile"
  /\ off = f[o][fd].off /\ x = Longer(ns[n], off, units)
  /\ n1 = [ns EXCEPT ![n] = x]
  /\ d1 = Resized(ds, Key(ns, n), ns[n].len, x.len)
  /\ f1 = Moved(f, o, fd, off + Len(units))

LEMMA WriteParts ==
  ASSUME NEW ns, NEW ds, NEW f, NEW l, NEW m, NEW b, NEW k, k = Kern(ns, ds, f, l, m, b),
         NEW o, NEW fd, NEW units, ns \in Seq(NodeT), NEW n \in DOMAIN ns, ns[n].open,
         NEW off, NEW x, NEW n1, NEW d1, NEW f1,
         Writes(ns, ds, f, o, fd, units, n, off, x, n1, d1, f1)
  PROVE  io_write(k, o, fd, units) = Kern(n1, d1, f1, l, m, b)
<1> DEFINE t == Overlaid(ns[n].text, off, units)
           len == Reach(off, units, ns[n].len)
           e == Key(ns, n)
           d == Resized(ds, e, ns[n].len, len)
           r == fs_write(k, n, off, units)
<1>0. /\ f[o][fd] # NoDesc /\ n = f[o][fd].node /\ n # Null /\ ns[n].kind = "fatfile"
      /\ off = f[o][fd].off /\ x = Longer(ns[n], off, units)
      /\ n1 = [ns EXCEPT ![n] = x]
      /\ d1 = Resized(ds, e, ns[n].len, x.len)
      /\ f1 = Moved(f, o, fd, off + Len(units))
  BY DEF Writes
<1>1. /\ k.nodes = ns /\ k.disk = ds /\ k.fds = f /\ IsFile(k, n) /\ ns[n] \in NodeT
  BY <1>0, NodeIn DEF Kern, IsFile
<1> DEFINE k1 == TextSet(k, n, t)
           k2 == LenSet(k1, n, len)
<1>2. r = DiskSet(k2, d)
  BY <1>1 DEF fs_write, EntryOf, Key, Resized, Reach, TextSet, LenSet, DiskSet
<1> HIDE DEF t, len, e, d, r
<1>3. x = [ns[n] EXCEPT !.text = t, !.len = len] /\ x.len = len
  <2>1. x = [ns[n] EXCEPT !.text = t, !.len = len]
    BY <1>0 DEF Longer, t, len
  <2> QED
    BY <1>1, <2>1 DEF NodeT
<1>4. r = Kern([ns EXCEPT ![n] = x], d, f, l, m, b)
  <2> DEFINE na == [ns EXCEPT ![n].text = t]
             nb == [na EXCEPT ![n].len = len]
  <2>1. k1 = Kern(na, ds, f, l, m, b)
    BY TextSetIs
  <2> HIDE DEF k1, na
  <2>2. k2 = Kern(nb, ds, f, l, m, b)
    BY <2>1, LenSetIs
  <2> HIDE DEF k2, nb
  <2>3. r = Kern(nb, d, f, l, m, b)
    BY <1>2, <2>2, DiskSetIs
  <2>4. nb = [ns EXCEPT ![n] = x]
    BY <1>1, <1>3 DEF na, nb
  <2> QED
    BY <2>3, <2>4
<1>5. r.fds[o][fd].off = off
  BY <1>0, <1>4 DEF Kern
<1>6. io_write(k, o, fd, units) = OffSet(r, o, fd, off + Len(units))
  BY <1>0, <1>1, <1>5 DEF io_write, Live, r, OffSet
<1>7. OffSet(r, o, fd, off + Len(units))
        = Kern([ns EXCEPT ![n] = x], d, Moved(f, o, fd, off + Len(units)), l, m, b)
  BY <1>4, OffSetIs DEF Moved
<1> QED
  BY <1>0, <1>3, <1>6, <1>7 DEF d

(* What depends on the shape of the tree only.                             *)
SameShape(ns, n1) ==
  /\ DOMAIN n1 = DOMAIN ns /\ Len(n1) = Len(ns)
  /\ \A n \in DOMAIN ns :
       /\ n1[n].kind = ns[n].kind /\ n1[n].name = ns[n].name
       /\ n1[n].dir = ns[n].dir /\ n1[n].kids = ns[n].kids

LEMMA AttachedShape ==
  ASSUME NEW ns, NEW n1, SameShape(ns, n1), NEW n \in DOMAIN ns
  PROVE  (Attached(n1, n) <=> Attached(ns, n)) /\ Key(n1, n) = Key(ns, n)
  BY DEF SameShape, Attached, Key

LEMMA FixedShape ==
  ASSUME NEW ns, NEW n1, SameShape(ns, n1), ns \in Seq(NodeT), Fixed(ns)
  PROVE  Fixed(n1)
<1>1. DOMAIN ns = 1 .. Len(ns) /\ Len(ns) \in Nat /\ Len(ns) >= 7 /\ Len(n1) = Len(ns)
  BY DEF Fixed, LogDir, SameShape
<1>2. /\ \A n \in 1 .. 7 : n \in DOMAIN ns
      /\ \A n \in LogDir .. Len(ns) : n \in DOMAIN ns
  BY <1>1 DEF LogDir
<1>3. /\ n1[Root].kind = "root" /\ n1[Root].kids = <<Fat, Dev, Ram>>
      /\ n1[Ram].kind = "ramdir" /\ n1[Ram].kids = <<Program>>
  BY <1>2 DEF SameShape, Fixed, Root, Ram
<1>4. /\ n1[Dev].kind = "dev" /\ n1[Con].kind = "con" /\ n1[Program].kind = "ramfile"
      /\ n1[Fat].kind = "fatdir" /\ n1[LogDir].kind = "fatdir"
  BY <1>2 DEF SameShape, Fixed, Dev, Con, Fat, Program, LogDir
<1>5. \A n \in LogDir .. Len(ns) : n1[n].kind \in {"fatfile", "fatdir"}
  BY <1>2 DEF SameShape, Fixed
<1> QED
  BY <1>1, <1>3, <1>4, <1>5 DEF Fixed, LogDir

LEMMA TreeShape ==
  ASSUME NEW ns, NEW n1, NEW ds, NEW d1, SameShape(ns, n1), ns \in Seq(NodeT),
         Tree(ns, ds), DOMAIN ds \subseteq DOMAIN d1
  PROVE  Tree(n1, d1)
<1>1. DOMAIN ns = 1 .. Len(ns) /\ Len(ns) \in Nat /\ \A c \in LogDir .. Len(ns) : c \in DOMAIN ns
  BY DEF LogDir
<1> SUFFICES ASSUME NEW d \in DOMAIN ns, ns[d].kind = "fatdir" PROVE KidsOk(n1, d1, d)
  BY DEF Tree, SameShape
<1>2. KidsOk(ns, ds, d) /\ n1[d].kids = ns[d].kids
  BY DEF Tree, SameShape
<1>3. \A i \in DOMAIN ns[d].kids : ns[d].kids[i] \in DOMAIN ns
  BY <1>1, <1>2 DEF KidsOk, ChildOk
<1>4. \A c \in DOMAIN ns : n1[c].name = ns[c].name /\ n1[c].dir = ns[c].dir /\ Len(n1) = Len(ns)
  BY DEF SameShape
<1>5. \A i \in DOMAIN ns[d].kids : ChildOk(n1, d1, d, ns[d].kids[i])
  BY <1>2, <1>3, <1>4 DEF KidsOk, ChildOk
<1>6. \A i \in DOMAIN ns[d].kids : n1[ns[d].kids[i]].name = ns[ns[d].kids[i]].name
  BY <1>3, <1>4
<1>7. \A i, j \in DOMAIN ns[d].kids : ns[ns[d].kids[i]].name = ns[ns[d].kids[j]].name => i = j
  BY <1>2 DEF KidsOk
<1> QED
  BY <1>2, <1>5, <1>6, <1>7 DEF KidsOk

(* A node that is there has an entry of its own.                           *)
LEMMA KeyIsOwn ==
  ASSUME NEW ns \in Seq(NodeT), NEW ds, Tree(ns, ds), NEW n \in DOMAIN ns, Attached(ns, n)
  PROVE  /\ Key(ns, n) \in DOMAIN ds
         /\ \A m \in DOMAIN ns : Attached(ns, m) /\ Key(ns, m) = Key(ns, n) => m = n
<1>1. PICK i \in DOMAIN ns[ns[n].dir].kids : ns[ns[n].dir].kids[i] = n
  BY DEF Attached
<1>2. KidsOk(ns, ds, ns[n].dir)
  BY DEF Attached, Tree
<1>3. Key(ns, n) \in DOMAIN ds
  BY <1>1, <1>2 DEF KidsOk, ChildOk, Key
<1>4. ASSUME NEW m \in DOMAIN ns, Attached(ns, m), Key(ns, m) = Key(ns, n) PROVE m = n
  <2>1. ns[m].dir = ns[n].dir /\ ns[m].name = ns[n].name
    BY <1>4 DEF Key
  <2>2. PICK j \in DOMAIN ns[ns[n].dir].kids : ns[ns[n].dir].kids[j] = m
    BY <1>4, <2>1 DEF Attached
  <2> QED
    BY <1>1, <1>2, <2>1, <2>2 DEF KidsOk
<1> QED
  BY <1>3, <1>4

(* A file that is written to keeps everything in order.                    *)
LongerOk(y, off, units, x) ==
  /\ x \in NodeT /\ x.text = Overlaid(y.text, off, units) /\ x.len = Reach(off, units, y.len)
  /\ x.kind = y.kind /\ x.name = y.name /\ x.dir = y.dir /\ x.kids = y.kids /\ x.open = y.open

LEMMA LongerIs ==
  ASSUME NEW y \in NodeT, NEW off \in Nat, NEW units \in Seq(Int)
  PROVE  LongerOk(y, off, units, Longer(y, off, units))
<1>1. Reach(off, units, y.len) \in Nat
  BY DEF Reach, NodeT
<1>2. Overlaid(y.text, off, units) \in Seq(Int)
  <2>1. y.text \in Seq(Int) /\ Len(y.text) \in Nat /\ Len(units) \in Nat
    BY DEF NodeT
  <2> DEFINE n == IF off + Len(units) > Len(y.text) THEN off + Len(units) ELSE Len(y.text)
             v(i) == IF i \in off + 1 .. off + Len(units) THEN units[i - off]
                     ELSE IF i <= Len(y.text) THEN y.text[i] ELSE Gap
  <2>2. n \in Nat
    BY <2>1
  <2>3. \A i \in 1 .. n : v(i) \in Int
    <3> SUFFICES ASSUME NEW i \in 1 .. n PROVE v(i) \in Int
      OBVIOUS
    <3>1. i \in Nat \ {0}
      BY <2>2
    <3>2. CASE i \in off + 1 .. off + Len(units)
      <4>1. i - off \in 1 .. Len(units)
        BY <2>1, <3>2
      <4> QED
        BY <3>2, <4>1
    <3>3. CASE ~(i \in off + 1 .. off + Len(units)) /\ i <= Len(y.text)
      <4>1. i \in 1 .. Len(y.text)
        BY <2>1, <3>1, <3>3
      <4> QED
        BY <2>1, <3>3, <4>1
    <3> QED
      BY <3>2, <3>3 DEF Gap
  <2>4. Overlaid(y.text, off, units) = [i \in 1 .. n |-> v(i)]
    BY DEF Overlaid
  <2> HIDE DEF n, v
  <2> QED
    BY <2>2, <2>3, <2>4
<1> QED
  BY <1>1, <1>2 DEF Longer, LongerOk, NodeT
(* A descriptor that is assigned.                                          *)
LEMMA DescIn ==
  ASSUME NEW f \in Fds, NEW o \in DOMAIN f, NEW fd \in 0 .. MaxFd - 1
  PROVE  /\ f[o] \in FdT /\ f[o][fd] \in DescT /\ f[o][fd].node \in Int /\ f[o][fd].off \in Nat
<1>1. f[o] \in FdT
  BY FdsFun
<1> QED
  BY <1>1 DEF FdT, DescT

Assigned(f, o, fd, d) == [f EXCEPT ![o][fd] = d]
LEMMA AssignedIs ==
  ASSUME NEW f \in Fds, NEW o \in DOMAIN f, NEW fd \in 0 .. MaxFd - 1, NEW d \in DescT
  PROVE  /\ Assigned(f, o, fd, d) \in Fds /\ DOMAIN Assigned(f, o, fd, d) = DOMAIN f
         /\ Assigned(f, o, fd, d)[o][fd] = d
         /\ \A p \in DOMAIN f, i \in 0 .. MaxFd - 1 :
              <<p, i>> # <<o, fd>> => Assigned(f, o, fd, d)[p][i] = f[p][i]
<1> DEFINE g == Assigned(f, o, fd, d)
<1>1. /\ DOMAIN f \subseteq Nat /\ \A p \in DOMAIN f : f[p] \in FdT
  BY FdsFun
<1>2. DOMAIN g = DOMAIN f /\ g = [p \in DOMAIN g |-> g[p]]
  BY DEF Assigned
<1>3. g[o] = [f[o] EXCEPT ![fd] = d] /\ \A p \in DOMAIN f : p # o => g[p] = f[p]
  BY DEF Assigned
<1>4. g[o] \in FdT /\ g[o][fd] = d /\ \A i \in 0 .. MaxFd - 1 : i # fd => g[o][i] = f[o][i]
  BY <1>1, <1>3 DEF FdT
<1>5. \A p \in DOMAIN g : g[p] \in FdT
  BY <1>1, <1>2, <1>3, <1>4
<1>6. g \in Fds
  <2> HIDE DEF g
  <2> QED
    BY <1>1, <1>2, <1>5, FdsFun
<1>7. \A p \in DOMAIN f, i \in 0 .. MaxFd - 1 : <<p, i>> # <<o, fd>> => g[p][i] = f[p][i]
  <2> SUFFICES ASSUME NEW p \in DOMAIN f, NEW i \in 0 .. MaxFd - 1, <<p, i>> # <<o, fd>>
               PROVE  g[p][i] = f[p][i]
    OBVIOUS
  <2> QED
    BY <1>3, <1>4
<1> QED
  BY <1>2, <1>4, <1>6, <1>7

LEMMA MovedIs ==
  ASSUME NEW f \in Fds, NEW o \in DOMAIN f, NEW fd \in 0 .. MaxFd - 1, NEW off \in Nat
  PROVE  /\ [node |-> f[o][fd].node, off |-> off] \in DescT
         /\ Moved(f, o, fd, off) = Assigned(f, o, fd, [node |-> f[o][fd].node, off |-> off])
<1>1. f[o][fd] \in DescT
  BY DescIn
<1>2. [f[o][fd] EXCEPT !.off = off] = [node |-> f[o][fd].node, off |-> off]
  BY <1>1 DEF DescT
<1> QED
  BY <1>1, <1>2 DEF Moved, Assigned, DescT

ResizedOk(ds, e, old, new, d1) ==
  /\ d1 \in Disks /\ DOMAIN d1 = DOMAIN ds /\ \A x \in DOMAIN ds : x # e => d1[x] = ds[x]
  /\ (e \in DOMAIN ds /\ ds[e] = old /\ new >= old) => d1[e] = new

LEMMA ResizedIs ==
  ASSUME NEW ds \in Disks, NEW e, NEW old \in Nat, NEW new \in Nat
  PROVE  ResizedOk(ds, e, old, new, Resized(ds, e, old, new))
<1>1. /\ DOMAIN ds \subseteq Nat \X Names /\ \A x \in DOMAIN ds : ds[x] \in Nat
  BY DiskFun
<1> DEFINE d == [ds EXCEPT ![e] = new]
<1>2. DOMAIN d = DOMAIN ds /\ d = [x \in DOMAIN d |-> d[x]] /\ \A x \in DOMAIN d : d[x] \in Nat
  BY <1>1
<1>3. d \in Disks
  BY <1>1, <1>2, DiskFun
<1> QED
  BY <1>2, <1>3 DEF Resized, ResizedOk

LEMMA DescLive ==
  ASSUME NEW ns, NEW f, Descs(ns, f), f \in Fds, NEW o \in DOMAIN f, NEW fd \in 0 .. MaxFd - 1
  PROVE  /\ f[o][fd] \in DescT /\ f[o][fd].node \in Int /\ f[o][fd].off \in Nat
         /\ f[o][fd] # NoDesc /\ f[o][fd].node # Null =>
              /\ f[o][fd].node \in DOMAIN ns
              /\ ns[f[o][fd].node].kind = "fatfile" => FileOk(ns, f[o][fd].node, f[o][fd].off)
<1>1. f[o][fd] \in DescT
  BY DescIn
<1> QED
  BY <1>1 DEF Descs, DescOk, DescT
LEMMA WriteBase ==
  ASSUME NEW ns, NEW ds, NEW f, Base(ns, ds, f), NEW o \in DOMAIN f, NEW fd \in 0 .. MaxFd - 1,
         NEW units \in Seq(Int), NEW n, NEW off, NEW x, NEW n1, NEW d1, NEW f1,
         Writes(ns, ds, f, o, fd, units, n, off, x, n1, d1, f1)
  PROVE  SameShape(ns, n1) /\ Base(n1, d1, f1)
<1>1. /\ ns \in Seq(NodeT) /\ ds \in Disks /\ f \in Fds
      /\ Fixed(ns) /\ Tree(ns, ds) /\ Lengths(ns, ds) /\ Descs(ns, f)
      /\ ns[LogDir].dir = Fat /\ Attached(ns, LogDir) /\ LogDir \in DOMAIN ns
  BY DEF Base, Fixed, LogDir
<1>0. /\ n = f[o][fd].node /\ off = f[o][fd].off /\ f[o][fd] # NoDesc /\ n # Null
      /\ ns[n].kind = "fatfile" /\ x = Longer(ns[n], off, units)
  BY DEF Writes
<1>2. n \in DOMAIN ns /\ FileOk(ns, n, off) /\ off \in Nat /\ ns[n] \in NodeT /\ Len(units) \in Nat
  BY <1>0, <1>1, DescLive, NodeIn
<1>3. /\ x \in NodeT /\ x.len = Reach(off, units, ns[n].len)
      /\ x.kind = ns[n].kind /\ x.name = ns[n].name /\ x.dir = ns[n].dir /\ x.kids = ns[n].kids
      /\ x.open = ns[n].open
  <2>1. LongerOk(ns[n], off, units, x)
    BY <1>0, <1>2, LongerIs
  <2> QED
    BY <2>1 DEF LongerOk
<1>4. ns[n].len \in Nat /\ x.len \in Nat /\ x.len >= ns[n].len /\ off + Len(units) <= x.len
  BY <1>1, <1>2, <1>3, NodeIn DEF Reach
<1>5. /\ n1 \in Seq(NodeT) /\ DOMAIN n1 = DOMAIN ns /\ Len(n1) = Len(ns) /\ n1[n] = x
      /\ \A m \in DOMAIN ns : m # n => n1[m] = ns[m]
  BY <1>1, <1>2, <1>3 DEF Writes
<1>6. SameShape(ns, n1)
  BY <1>3, <1>5 DEF SameShape
<1>7. /\ d1 \in Disks /\ DOMAIN d1 = DOMAIN ds
      /\ \A e \in DOMAIN ds : e # Key(ns, n) => d1[e] = ds[e]
      /\ (Key(ns, n) \in DOMAIN ds /\ ds[Key(ns, n)] = ns[n].len) => d1[Key(ns, n)] = x.len
  <2>1. ResizedOk(ds, Key(ns, n), ns[n].len, x.len, d1)
    BY <1>1, <1>4, ResizedIs DEF Writes
  <2> QED
    BY <1>4, <2>1 DEF ResizedOk
<1>8. Fixed(n1) /\ Tree(n1, d1)
  BY <1>1, <1>6, <1>7, FixedShape, TreeShape
<1>9. \A m \in DOMAIN ns : (Attached(n1, m) <=> Attached(ns, m)) /\ Key(n1, m) = Key(ns, m)
  BY <1>6, AttachedShape
<1>10. n1[LogDir].dir = Fat /\ Attached(n1, LogDir)
  BY <1>1, <1>6, <1>9 DEF SameShape
<1>11. Lengths(n1, d1)
  <2> SUFFICES ASSUME NEW m \in DOMAIN ns, n1[m].kind = "fatfile", n1[m].open, Attached(n1, m)
               PROVE  n1[m].len = d1[Key(n1, m)]
    BY <1>5 DEF Lengths
  <2>1. Attached(ns, m) /\ Key(n1, m) = Key(ns, m) /\ Key(ns, m) \in DOMAIN ds
    BY <1>1, <1>9, KeyIsOwn
  <2>2. ns[m].kind = "fatfile" /\ ns[m].open
    BY <1>3, <1>5
  <2>3. ns[m].len = ds[Key(ns, m)]
    BY <1>1, <2>1, <2>2 DEF Lengths
  <2>4. CASE m = n
    BY <1>5, <1>7, <2>1, <2>3, <2>4
  <2>5. CASE m # n
    <3>1. Attached(ns, n)
      BY <1>2 DEF FileOk
    <3>2. Key(ns, m) # Key(ns, n)
      BY <1>1, <1>2, <2>1, <2>5, <3>1, KeyIsOwn
    <3> QED
      BY <1>5, <1>7, <2>1, <2>3, <2>5, <3>2
  <2> QED
    BY <2>4, <2>5
<1> DEFINE d == [node |-> f[o][fd].node, off |-> off + Len(units)]
<1>12. d \in DescT /\ d.node = n /\ d.off = off + Len(units) /\ f1 = Assigned(f, o, fd, d)
  BY <1>0, <1>1, <1>2, MovedIs DEF Writes
<1> HIDE DEF d
<1>13. /\ f1 \in Fds /\ DOMAIN f1 = DOMAIN f /\ f1[o][fd] = d
       /\ \A p \in DOMAIN f, i \in 0 .. MaxFd - 1 : <<p, i>> # <<o, fd>> => f1[p][i] = f[p][i]
  BY <1>1, <1>12, AssignedIs
<1>14. \A m \in DOMAIN ns, y \in Nat : FileOk(ns, m, y) => FileOk(n1, m, y)
  <2> SUFFICES ASSUME NEW m \in DOMAIN ns, NEW y \in Nat, FileOk(ns, m, y) PROVE FileOk(n1, m, y)
    OBVIOUS
  <2>1. ns[m].len \in Nat
    BY <1>1, NodeIn
  <2>2. n1[m].open /\ n1[m].len >= ns[m].len /\ n1[m].len \in Nat
    BY <1>3, <1>4, <1>5, <2>1 DEF FileOk
  <2> QED
    BY <1>9, <2>1, <2>2 DEF FileOk
<1>15. FileOk(n1, n, off + Len(units))
  BY <1>2, <1>3, <1>4, <1>5, <1>9 DEF FileOk
<1>16. Descs(n1, f1)
  <2> SUFFICES ASSUME NEW p \in DOMAIN f, NEW i \in 0 .. MaxFd - 1 PROVE DescOk(n1, f1[p][i])
    BY <1>1, <1>13 DEF Descs
  <2>1. CASE <<p, i>> = <<o, fd>>
    BY <1>0, <1>2, <1>5, <1>12, <1>13, <1>15, <2>1 DEF DescOk
  <2>2. CASE <<p, i>> # <<o, fd>>
    <3>1. f1[p][i] = f[p][i] /\ DescOk(ns, f[p][i]) /\ f[p][i].off \in Nat
      BY <1>1, <1>13, <2>2, DescIn DEF Descs
    <3> QED
      BY <1>5, <1>6, <1>14, <3>1 DEF DescOk, SameShape
  <2> QED
    BY <2>1, <2>2
<1> QED
  BY <1>5, <1>6, <1>7, <1>8, <1>10, <1>11, <1>13, <1>16 DEF Base
(* One line more.                                                          *)
LEMMA CountedMore ==
  ASSUME NEW line, NEW n \in Nat, NEW said \in Nat, NEW S \in SUBSET (1 .. said), Counted(line, n, S),
         NEW more, \A i \in 1 .. n : more[i] = line[i], more[n + 1] = said + 1
  PROVE  Counted(more, n + 1, S \cup {said + 1})
<1>1. \A i \in 1 .. n + 1 : i \in 1 .. n \/ i = n + 1
  OBVIOUS
<1>2. \A i \in 1 .. n : line[i] \in S /\ line[i] < said + 1
  <2> SUFFICES ASSUME NEW i \in 1 .. n PROVE line[i] \in S /\ line[i] < said + 1
    OBVIOUS
  <2>1. line[i] \in S
    BY DEF Counted
  <2>2. line[i] \in 1 .. said
    BY <2>1
  <2> QED
    BY <2>1, <2>2
<1>3. \A i, j \in 1 .. n + 1 : i < j => more[i] < more[j]
  <2> SUFFICES ASSUME NEW i \in 1 .. n + 1, NEW j \in 1 .. n + 1, i < j PROVE more[i] < more[j]
    OBVIOUS
  <2>1. i \in 1 .. n
    OBVIOUS
  <2>2. CASE j \in 1 .. n
    BY <2>1, <2>2 DEF Counted
  <2>3. CASE j = n + 1
    BY <1>2, <2>1, <2>3
  <2> QED
    BY <1>1, <2>2, <2>3
<1>4. \A i \in 1 .. n + 1 : more[i] \in S \cup {said + 1}
  BY <1>1, <1>2
<1>5. \A x \in S \cup {said + 1} : \E i \in 1 .. n + 1 : more[i] = x
  <2>1. ASSUME NEW x \in S PROVE \E i \in 1 .. n + 1 : more[i] = x
    <3>1. PICK i \in 1 .. n : line[i] = x
      BY DEF Counted
    <3>2. i \in 1 .. n + 1 /\ more[i] = x
      BY <3>1
    <3> QED
      BY <3>2
  <2>2. n + 1 \in 1 .. n + 1
    OBVIOUS
  <2> QED
    BY <2>1, <2>2
<1> QED
  BY <1>3, <1>4, <1>5 DEF Counted

OneMore(text, line, more) ==
  /\ Len(more) = Len(text) + 2 /\ \A i \in 1 .. Len(text) : more[i] = text[i]
  /\ more[Len(text) + 1] = line /\ more[Len(text) + 2] = End

LEMMA Appended ==
  ASSUME NEW text \in Seq(Int), NEW line \in Nat
  PROVE  OneMore(text, line, Overlaid(text, Len(text), <<line, End>>))
<1> DEFINE L == Len(text)
           u == <<line, End>>
           n == IF L + Len(u) > L THEN L + Len(u) ELSE L
           v(i) == IF i \in L + 1 .. L + Len(u) THEN u[i - L] ELSE IF i <= L THEN text[i] ELSE Gap
           more == Overlaid(text, L, u)
<1>1. L \in Nat /\ Len(u) = 2 /\ u[1] = line /\ u[2] = End
  OBVIOUS
<1>2. n = L + 2
  BY <1>1
<1>3. \A i \in 1 .. L : i \notin L + 1 .. L + Len(u) /\ i <= L
  BY <1>1
<1>4. L + 1 \in L + 1 .. L + Len(u) /\ L + 2 \in L + 1 .. L + Len(u) /\ (L + 1) - L = 1 /\ (L + 2) - L = 2
  BY <1>1
<1>5. v(L + 1) = line /\ v(L + 2) = End /\ \A i \in 1 .. L : v(i) = text[i]
  <2> HIDE DEF u
  <2> QED
    BY <1>1, <1>3, <1>4
<1>6. more = [i \in 1 .. n |-> v(i)]
  BY DEF Overlaid
<1> HIDE DEF v, more, n, u
<1>7. Len(more) = L + 2 /\ \A i \in 1 .. L + 2 : more[i] = v(i)
  BY <1>1, <1>2, <1>6
<1>8. OneMore(text, line, more)
  BY <1>1, <1>5, <1>7 DEF OneMore
<1> QED
  BY <1>8 DEF more, u

LEMMA LinesMore ==
  ASSUME NEW text \in Seq(Int), NEW n \in Nat, NEW said \in Nat, NEW S \in SUBSET (1 .. said),
         LinesOf(text, n, S)
  PROVE  LinesOf(Overlaid(text, Len(text), <<said + 1, End>>), n + 1, S \cup {said + 1})
<1> DEFINE more == Overlaid(text, Len(text), <<said + 1, End>>)
           old == [i \in 1 .. n |-> text[2 * i - 1]]
           new == [i \in 1 .. n + 1 |-> more[2 * i - 1]]
<1>1. /\ Len(text) = 2 * n /\ \A i \in 1 .. n : text[2 * i] = End
      /\ Counted(old, n, S)
  BY DEF LinesOf
<1>2. /\ Len(more) = Len(text) + 2 /\ \A i \in 1 .. Len(text) : more[i] = text[i]
      /\ more[Len(text) + 1] = said + 1 /\ more[Len(text) + 2] = End
  <2>1. OneMore(text, said + 1, more)
    BY Appended
  <2> QED
    BY <2>1 DEF OneMore
<1> HIDE DEF more
<1>3. \A i \in 1 .. n : 2 * i \in 1 .. Len(text) /\ 2 * i - 1 \in 1 .. Len(text)
  BY <1>1
<1>4. /\ 2 * (n + 1) = Len(text) + 2 /\ 2 * (n + 1) - 1 = Len(text) + 1
      /\ \A i \in 1 .. n + 1 : i \in 1 .. n \/ i = n + 1
  BY <1>1
<1>5. Len(more) = 2 * (n + 1) /\ \A i \in 1 .. n + 1 : more[2 * i] = End
  BY <1>1, <1>2, <1>3, <1>4
<1>6. (\A i \in 1 .. n : new[i] = old[i]) /\ new[n + 1] = said + 1
  <2>1. \A i \in 1 .. n : i \in 1 .. n + 1
    OBVIOUS
  <2>2. n + 1 \in 1 .. n + 1
    OBVIOUS
  <2> QED
    BY <1>2, <1>3, <1>4, <2>1, <2>2
<1> HIDE DEF new, old
<1>7. Counted(new, n + 1, S \cup {said + 1})
  BY <1>1, <1>6, CountedMore
<1> QED
  BY <1>5, <1>7 DEF LinesOf, new, more
-----------------------------------------------------------------------------
(* What a call that only logs leaves as it is.                             *)
LogsOnly(k, r) ==
  /\ r.misuse = k.misuse /\ SameShape(k.nodes, r.nodes)
  /\ \A n \in DOMAIN k.nodes : r.nodes[n].open = k.nodes[n].open
  /\ DOMAIN r.disk = DOMAIN k.disk /\ DOMAIN r.fds = DOMAIN k.fds
  /\ \A o \in DOMAIN k.fds, fd \in 0 .. MaxFd - 1 :
       /\ r.fds[o][fd].node = k.fds[o][fd].node
       /\ r.fds[o][fd] = NoDesc <=> k.fds[o][fd] = NoDesc
       /\ o # Kernel => r.fds[o][fd] = k.fds[o][fd]
  /\ r.log.persistence = k.log.persistence
  /\ k.log.persistence = NoFd => (r.nodes = k.nodes /\ r.disk = k.disk /\ r.fds = k.fds)

LEMMA LogIn ==
  ASSUME NEW l \in LogT
  PROVE  l.cache \in Seq(Nat) /\ l.persistence \in 0 .. MaxFd /\ l.said \in Nat /\ l.lost \in SUBSET Nat
  BY DEF LogT
LEMMA WithSaidIs ==
  ASSUME NEW l \in LogT, NEW x \in Nat
  PROVE  /\ WithSaid(l, x) \in LogT /\ WithSaid(l, x).said = x
         /\ WithSaid(l, x).cache = l.cache
         /\ WithSaid(l, x).lost = l.lost
         /\ WithSaid(l, x).persistence = l.persistence
  BY DEF LogT, WithSaid
LEMMA WithCacheIs ==
  ASSUME NEW l \in LogT, NEW x \in Seq(Nat)
  PROVE  /\ WithCache(l, x) \in LogT /\ WithCache(l, x).cache = x
         /\ WithCache(l, x).said = l.said
         /\ WithCache(l, x).lost = l.lost
         /\ WithCache(l, x).persistence = l.persistence
  BY DEF LogT, WithCache
LEMMA WithLostIs ==
  ASSUME NEW l \in LogT, NEW x \in SUBSET Nat
  PROVE  /\ WithLost(l, x) \in LogT /\ WithLost(l, x).lost = x
         /\ WithLost(l, x).said = l.said
         /\ WithLost(l, x).cache = l.cache
         /\ WithLost(l, x).persistence = l.persistence
  BY DEF LogT, WithLost
LEMMA WithPersistenceIs ==
  ASSUME NEW l \in LogT, NEW x \in 0 .. MaxFd
  PROVE  /\ WithPersistence(l, x) \in LogT /\ WithPersistence(l, x).persistence = x
         /\ WithPersistence(l, x).said = l.said
         /\ WithPersistence(l, x).cache = l.cache
         /\ WithPersistence(l, x).lost = l.lost
  BY DEF LogT, WithPersistence

(* A line before there is a file.                                          *)
LEMMA KlogCached ==
  ASSUME NEW ns, NEW ds, NEW f, NEW l, NEW m, NEW k, k = Kern(ns, ds, f, l, m, Up),
         Base(ns, ds, f), LogOk(ns, f, l), l.persistence = NoFd
  PROVE  \E l1 : /\ KLOG(k) = Kern(ns, ds, f, l1, m, Up) /\ LogOk(ns, f, l1)
                 /\ l1.persistence = NoFd
<1> DEFINE s == l.said + 1
           l0 == WithSaid(l, s)
           k0 == SaidSet(k, s)
<1>0. l \in LogT /\ l.lost \subseteq 1 .. l.said /\ Counted(l.cache, Len(l.cache), Logged(l))
  BY DEF LogOk
<1>1. l.cache \in Seq(Nat) /\ l.said \in Nat /\ s \in Nat
  BY <1>0, LogIn
<1>2. KLOG(k) = Said(k0)
  BY DEF KLOG, Kern, SaidSet, Up
<1> HIDE DEF l0, k0, s
<1>3. l0 \in LogT /\ l0.said = s /\ l0.cache = l.cache /\ l0.lost = l.lost /\ l0.persistence = NoFd
  BY <1>0, <1>1, WithSaidIs DEF l0
<1>4. k0 = Kern(ns, ds, f, l0, m, Up)
  BY SaidSetIs DEF k0, l0
<1>5. k0.log = l0
  BY <1>4 DEF Kern
<1>6. CASE Len(l.cache) < CacheSize
  <2> DEFINE c == Append(l.cache, s)
             l1 == WithCache(l0, c)
  <2>1. Said(k0) = CacheSet(k0, c)
    BY <1>3, <1>5, <1>6 DEF Said, CacheSet
  <2>2. /\ c \in Seq(Nat) /\ Len(c) = Len(l.cache) + 1 /\ c[Len(l.cache) + 1] = s
        /\ \A i \in 1 .. Len(l.cache) : c[i] = l.cache[i]
    BY <1>1
  <2> HIDE DEF c, l1
  <2>3. CacheSet(k0, c) = Kern(ns, ds, f, l1, m, Up)
    BY <1>4, CacheSetIs DEF l1
  <2>4. l1 \in LogT /\ l1.said = s /\ l1.cache = c /\ l1.lost = l.lost /\ l1.persistence = NoFd
    BY <1>3, <2>2, WithCacheIs DEF l1
  <2>5. Logged(l) \in SUBSET (1 .. l.said) /\ Logged(l1) = Logged(l) \cup {s} /\ l1.lost \subseteq 1 .. s
    BY <1>0, <1>1, <2>4 DEF Logged, s
  <2>6. Len(l.cache) \in Nat
    BY <1>1
  <2>7. Counted(c, Len(c), Logged(l1))
    <3> DEFINE S == Logged(l)
               n == Len(l.cache)
               line == l.cache
               said == l.said
    <3> HIDE DEF S, n, line, said
    <3>1. Counted(line, n, S) /\ n \in Nat /\ said \in Nat /\ S \in SUBSET (1 .. said)
      BY <1>0, <1>1, <2>5, <2>6 DEF S, n, line, said
    <3>2. (\A i \in 1 .. n : c[i] = line[i]) /\ c[n + 1] = said + 1
      BY <2>2 DEF n, line, said, s
    <3>3. Counted(c, n + 1, S \cup {said + 1})
      BY <3>1, <3>2, CountedMore
    <3> QED
      BY <2>2, <2>5, <3>3 DEF S, n, said, s
  <2>8. LogOk(ns, f, l1)
    BY <2>4, <2>5, <2>7 DEF LogOk
  <2> QED
    BY <1>2, <2>1, <2>3, <2>4, <2>8
<1>7. CASE ~(Len(l.cache) < CacheSize)
  <2> DEFINE c == l.lost \cup {s}
             l1 == WithLost(l0, c)
  <2>1. Said(k0) = LostSet(k0, c)
    BY <1>3, <1>5, <1>7 DEF Said, LostSet
  <2>2. c \in SUBSET Nat
    BY <1>0, <1>1, LogIn
  <2> HIDE DEF l1, c
  <2>3. LostSet(k0, c) = Kern(ns, ds, f, l1, m, Up)
    BY <1>4, LostSetIs DEF l1
  <2>4. l1 \in LogT /\ l1.said = s /\ l1.cache = l.cache /\ l1.lost = c /\ l1.persistence = NoFd
    BY <1>3, <2>2, WithLostIs DEF l1
  <2>5. Logged(l1) = Logged(l) /\ l1.lost \subseteq 1 .. s
    BY <1>0, <1>1, <2>4 DEF Logged, c, s
  <2>6. LogOk(ns, f, l1)
    BY <1>0, <2>4, <2>5 DEF LogOk
  <2> QED
    BY <1>2, <2>1, <2>3, <2>4, <2>6
<1> QED
  BY <1>6, <1>7
(* A line that goes to the file.                                           *)
Lined(ns, ds, f, p, v, n1, d1, f1) ==
  /\ SameShape(ns, n1) /\ Base(n1, d1, f1) /\ DOMAIN d1 = DOMAIN ds
  /\ \A i \in DOMAIN ns : n1[i].open = ns[i].open
  /\ LogAt(n1, f1[Kernel][p]) /\ f1[Kernel][p].node = f[Kernel][p].node
  /\ n1[f[Kernel][p].node].text
       = Overlaid(ns[f[Kernel][p].node].text, Len(ns[f[Kernel][p].node].text), <<v, End>>)
  /\ DOMAIN f1 = DOMAIN f
  /\ \A o \in DOMAIN f, i \in 0 .. MaxFd - 1 :
       /\ f1[o][i].node = f[o][i].node
       /\ f1[o][i] = NoDesc <=> f[o][i] = NoDesc
       /\ o # Kernel => f1[o][i] = f[o][i]

LEMMA LineWritten ==
  ASSUME NEW ns, NEW ds, NEW f, NEW l, NEW m, NEW k, k = Kern(ns, ds, f, l, m, Up),
         Base(ns, ds, f), NEW p \in 0 .. MaxFd - 1, l.persistence = p,
         LogAt(ns, f[Kernel][p]), NEW v \in Nat
  PROVE  \E n1, d1, f1 : /\ Line(k, v) = Kern(n1, d1, f1, l, m, Up)
                         /\ Lined(ns, ds, f, p, v, n1, d1, f1)
<1> DEFINE units == <<v, End>>
<1>1. units \in Seq(Int) /\ Len(units) = 2
  <2>1. v \in Int /\ End \in Int
    BY DEF End
  <2> QED
    BY <2>1
<1>2. Line(k, v) = io_write(k, Kernel, p, units)
  BY DEF Line, Kern
<1>3. /\ ns \in Seq(NodeT) /\ f \in Fds /\ Descs(ns, f) /\ Kernel \in DOMAIN f
  BY DEF Base, Descs
<1> DEFINE n == f[Kernel][p].node
           off == f[Kernel][p].off
           x == Longer(ns[n], off, units)
           n1 == [ns EXCEPT ![n] = x]
           d1 == Resized(ds, Key(ns, n), ns[n].len, x.len)
           f1 == Moved(f, Kernel, p, off + Len(units))
<1> HIDE DEF units, n, off, x, n1, d1, f1
<1>4. /\ f[Kernel][p] # NoDesc /\ n \in LogDir .. Len(ns) /\ ns[n].kind = "fatfile" /\ ns[n].dir = LogDir
      /\ off = ns[n].len /\ off = Len(ns[n].text)
  BY DEF LogAt, n, off
<1>5. n \in DOMAIN ns /\ n # Null /\ ns[n].open /\ off \in Nat
  <2>1. n \in DOMAIN ns /\ n # Null
    BY <1>3, <1>4 DEF LogDir, Null
  <2>2. ns[n].open
    <3>1. FileOk(ns, n, off)
      BY <1>3, <1>4, <2>1, DescLive DEF n, off
    <3> QED
      BY <3>1 DEF FileOk
  <2>3. off \in Nat
    BY <1>3, DescIn DEF off
  <2> QED
    BY <2>1, <2>2, <2>3
<1>6. Writes(ns, ds, f, Kernel, p, units, n, off, x, n1, d1, f1)
  BY <1>4, <1>5 DEF Writes, n, off, x, n1, d1, f1
<1>7. Line(k, v) = Kern(n1, d1, f1, l, m, Up)
  BY <1>2, <1>3, <1>5, <1>6, WriteParts
<1>8. SameShape(ns, n1) /\ Base(n1, d1, f1)
  BY <1>1, <1>3, <1>6, WriteBase
<1>9. ns[n] \in NodeT /\ LongerOk(ns[n], off, units, x)
  BY <1>1, <1>3, <1>5, LongerIs, NodeIn DEF x
<1>10. n1[n] = x /\ \A i \in DOMAIN ns : i # n => n1[i] = ns[i]
  BY <1>5 DEF n1
<1> DEFINE d == [node |-> f[Kernel][p].node, off |-> off + Len(units)]
<1>11. d \in DescT /\ d.node = n /\ d.off = off + 2 /\ f1 = Assigned(f, Kernel, p, d)
  BY <1>1, <1>3, <1>5, MovedIs DEF n, f1
<1> HIDE DEF d
<1>12. /\ DOMAIN f1 = DOMAIN f /\ f1[Kernel][p] = d
       /\ \A o \in DOMAIN f, i \in 0 .. MaxFd - 1 : <<o, i>> # <<Kernel, p>> => f1[o][i] = f[o][i]
  BY <1>3, <1>11, AssignedIs
<1>13. d # NoDesc
  BY <1>5, <1>11 DEF NoDesc
<1>14. x.text = Overlaid(ns[n].text, Len(ns[n].text), <<v, End>>)
  BY <1>4, <1>9 DEF LongerOk, units
<1>15. LogAt(n1, d)
  <2>1. Len(x.text) = off + 2
    <3>1. ns[n].text \in Seq(Int)
      BY <1>3, <1>5, NodeIn
    <3>2. OneMore(ns[n].text, v, x.text)
      BY <1>14, <3>1, Appended
    <3> QED
      BY <1>4, <3>2 DEF OneMore
  <2>2. x.len = off + 2
    <3>1. x.len = Reach(off, units, off)
      BY <1>4, <1>9 DEF LongerOk
    <3>2. Reach(off, units, off) = off + 2
      BY <1>1, <1>5 DEF Reach
    <3> QED
      BY <3>1, <3>2
  <2>3. x.kind = "fatfile" /\ x.dir = LogDir /\ Len(n1) = Len(ns)
    BY <1>4, <1>8, <1>9 DEF LongerOk, SameShape
  <2> QED
    BY <1>4, <1>10, <1>11, <1>13, <2>1, <2>2, <2>3 DEF LogAt
<1>16. \A i \in DOMAIN ns : n1[i].open = ns[i].open
  BY <1>9, <1>10 DEF LongerOk
<1>17. DOMAIN d1 = DOMAIN ds
  BY DEF d1, Resized
<1>18. \A o \in DOMAIN f, i \in 0 .. MaxFd - 1 :
         /\ f1[o][i].node = f[o][i].node
         /\ f1[o][i] = NoDesc <=> f[o][i] = NoDesc
         /\ o # Kernel => f1[o][i] = f[o][i]
  <2> SUFFICES ASSUME NEW o \in DOMAIN f, NEW i \in 0 .. MaxFd - 1
               PROVE  /\ f1[o][i].node = f[o][i].node
                      /\ f1[o][i] = NoDesc <=> f[o][i] = NoDesc
                      /\ o # Kernel => f1[o][i] = f[o][i]
    OBVIOUS
  <2>1. CASE <<o, i>> = <<Kernel, p>>
    BY <1>4, <1>11, <1>12, <1>13, <2>1 DEF n
  <2>2. CASE <<o, i>> # <<Kernel, p>>
    BY <1>12, <2>2
  <2> QED
    BY <2>1, <2>2
<1>19. Lined(ns, ds, f, p, v, n1, d1, f1)
  <2>1. LogAt(n1, f1[Kernel][p]) /\ f1[Kernel][p].node = n /\ n1[n].text = x.text
    BY <1>10, <1>11, <1>12, <1>15
  <2> QED
    BY <1>8, <1>12, <1>14, <1>16, <1>17, <1>18, <2>1 DEF Lined, n
<1> QED
  BY <1>7, <1>19

LEMMA KlogWritten ==
  ASSUME NEW ns, NEW ds, NEW f, NEW l, NEW m, NEW k, k = Kern(ns, ds, f, l, m, Up),
         Base(ns, ds, f), LogOk(ns, f, l), l.persistence # NoFd
  PROVE  Good(KLOG(k)) /\ LogsOnly(k, KLOG(k))
<1> DEFINE s == l.said + 1
           p == l.persistence
           l0 == WithSaid(l, s)
           k0 == SaidSet(k, s)
<1>0. l \in LogT /\ l.lost \subseteq 1 .. l.said /\ LogFile(ns, f[Kernel][p], Logged(l))
  BY DEF LogOk
<1>1. l.said \in Nat /\ s \in Nat /\ p \in 0 .. MaxFd - 1
  <2>1. l.said \in Nat /\ p \in 0 .. MaxFd /\ p # NoFd
    BY <1>0, LogIn
  <2>2. MaxFd \in Nat /\ NoFd = MaxFd
    BY IoAssumption DEF NoFd
  <2> QED
    BY <2>1, <2>2
<1>2. KLOG(k) = Said(k0)
  BY DEF KLOG, Kern, SaidSet, Up
<1> HIDE DEF l0, k0, s, p
<1>3. l0 \in LogT /\ l0.said = s /\ l0.cache = l.cache /\ l0.lost = l.lost /\ l0.persistence = p
  BY <1>0, <1>1, WithSaidIs DEF l0, p
<1>4. k0 = Kern(ns, ds, f, l0, m, Up)
  BY SaidSetIs DEF k0, l0
<1>5. KLOG(k) = Line(k0, s)
  <2>1. k0.log = l0 /\ p # NoFd
    BY <1>4 DEF Kern, p
  <2> QED
    BY <1>2, <1>3, <2>1 DEF Said
<1>6. LogAt(ns, f[Kernel][p])
  BY <1>0 DEF LogFile
<1>7. PICK n1, d1, f1 : /\ KLOG(k) = Kern(n1, d1, f1, l0, m, Up)
                        /\ Lined(ns, ds, f, p, s, n1, d1, f1)
  BY <1>1, <1>3, <1>4, <1>5, <1>6, LineWritten
<1> DEFINE n == f[Kernel][p].node
<1> HIDE DEF n
<1>8. /\ SameShape(ns, n1) /\ Base(n1, d1, f1) /\ LogAt(n1, f1[Kernel][p]) /\ f1[Kernel][p].node = n
      /\ n1[n].text = Overlaid(ns[n].text, Len(ns[n].text), <<s, End>>)
  BY <1>7 DEF Lined, n
<1>9. LogOk(n1, f1, l0)
  <2>1. Logged(l) \in SUBSET (1 .. l.said) /\ Logged(l0) = Logged(l) \cup {s} /\ l0.lost \subseteq 1 .. s
    BY <1>0, <1>1, <1>3 DEF Logged, s
  <2>2. PICK c \in Nat : LinesOf(ns[n].text, c, Logged(l))
    BY <1>0 DEF LogFile, n
  <2>3. ns[n].text \in Seq(Int)
    <3>1. ns \in Seq(NodeT) /\ n \in LogDir .. Len(ns)
      BY <1>6 DEF Base, LogAt, n
    <3>2. n \in DOMAIN ns
      BY <3>1 DEF LogDir
    <3> QED
      BY <3>1, <3>2, NodeIn
  <2>4. LinesOf(n1[n].text, c + 1, Logged(l0)) /\ c + 1 \in Nat
    <3> DEFINE S == Logged(l)
               text == ns[n].text
               said == l.said
    <3> HIDE DEF S, text, said
    <3>1. text \in Seq(Int) /\ said \in Nat /\ S \in SUBSET (1 .. said) /\ LinesOf(text, c, S)
      BY <1>1, <2>1, <2>2, <2>3 DEF S, text, said
    <3>2. LinesOf(Overlaid(text, Len(text), <<said + 1, End>>), c + 1, S \cup {said + 1})
      BY <3>1, LinesMore
    <3> QED
      BY <1>8, <2>1, <3>2 DEF S, text, said, s
  <2>5. LogFile(n1, f1[Kernel][p], Logged(l0))
    BY <1>8, <2>4 DEF LogFile
  <2> QED
    BY <1>3, <2>1, <2>5 DEF LogOk, p
<1>10. Good(KLOG(k))
  BY <1>7, <1>8, <1>9, GoodKern
<1>11. LogsOnly(k, KLOG(k))
  <2> DEFINE r == KLOG(k)
  <2>1. /\ r.nodes = n1 /\ r.disk = d1 /\ r.fds = f1 /\ r.log = l0 /\ r.misuse = m
        /\ k.nodes = ns /\ k.disk = ds /\ k.fds = f /\ k.log = l /\ k.misuse = m
    BY <1>7 DEF Kern
  <2> HIDE DEF r
  <2>2. l0.persistence = l.persistence /\ l.persistence # NoFd
    BY <1>3 DEF p
  <2>3. LogsOnly(k, r)
    BY <1>7, <1>8, <2>1, <2>2 DEF LogsOnly, Lined
  <2> QED
    BY <2>3 DEF r
<1> QED
  BY <1>10, <1>11

(* What is logged in the middle of a call disturbs nothing.                *)
LEMMA KlogGood ==
  ASSUME NEW k, Good(k)
  PROVE  Good(KLOG(k)) /\ LogsOnly(k, KLOG(k))
<1>1. PICK ns, ds, f, l, m : k = Kern(ns, ds, f, l, m, Up) /\ Base(ns, ds, f) /\ LogOk(ns, f, l)
  BY GoodIs
<1>2. CASE l.persistence = NoFd
  <2>1. PICK l1 : /\ KLOG(k) = Kern(ns, ds, f, l1, m, Up) /\ LogOk(ns, f, l1)
                  /\ l1.persistence = NoFd
    BY <1>1, <1>2, KlogCached
  <2>2. Good(KLOG(k))
    BY <1>1, <2>1, GoodKern
  <2> DEFINE r == KLOG(k)
  <2>3. /\ r.nodes = ns /\ r.disk = ds /\ r.fds = f /\ r.log = l1 /\ r.misuse = m
        /\ k.nodes = ns /\ k.disk = ds /\ k.fds = f /\ k.log = l /\ k.misuse = m
    BY <1>1, <2>1 DEF Kern
  <2> HIDE DEF r
  <2>4. LogsOnly(k, r)
    BY <1>2, <2>1, <2>3 DEF LogsOnly, SameShape
  <2> QED
    BY <2>2, <2>4 DEF r
<1>3. CASE l.persistence # NoFd
  BY <1>1, <1>3, KlogWritten
<1> QED
  BY <1>2, <1>3
(* The log is where it was.                                                *)
LEMMA LogFd ==
  ASSUME NEW l, l.persistence # NoFd, NEW ns, NEW f, LogOk(ns, f, l)
  PROVE  l.persistence \in 0 .. MaxFd - 1
<1>1. l.persistence \in 0 .. MaxFd
  BY LogIn DEF LogOk
<1>2. MaxFd \in Nat /\ NoFd = MaxFd
  BY IoAssumption DEF NoFd
<1> QED
  BY <1>1, <1>2

LogStays(ns, f, l, n1, f1) ==
  /\ Len(ns) \in Nat /\ Len(n1) \in Nat /\ Len(n1) >= Len(ns)
  /\ l.persistence # NoFd =>
       /\ n1[f[Kernel][l.persistence].node] = ns[f[Kernel][l.persistence].node]
       /\ f1[Kernel][l.persistence] = f[Kernel][l.persistence]
LEMMA LogElsewhere ==
  ASSUME NEW ns, NEW f, NEW l, LogOk(ns, f, l), NEW n1, NEW f1, LogStays(ns, f, l, n1, f1)
  PROVE  LogOk(n1, f1, l)
<1> USE DEF LogStays
<1>1. CASE l.persistence = NoFd
  BY <1>1 DEF LogOk
<1>2. CASE l.persistence # NoFd
  <2> DEFINE d == f[Kernel][l.persistence]
  <2>1. LogFile(ns, d, Logged(l)) /\ n1[d.node] = ns[d.node] /\ f1[Kernel][l.persistence] = d
    BY <1>2 DEF LogOk
  <2> HIDE DEF d
  <2>2. d.node \in LogDir .. Len(n1)
    BY <2>1 DEF LogFile, LogAt, LogDir
  <2>3. LogFile(n1, d, Logged(l))
    BY <2>1, <2>2 DEF LogFile, LogAt
  <2> QED
    BY <1>2, <2>1, <2>3 DEF LogOk, d
<1> QED
  BY <1>1, <1>2

(* A node that no descriptor refers to may be opened and closed.           *)
Unused(ns, f, n) ==
  \A o \in DOMAIN f, fd \in 0 .. MaxFd - 1 : f[o][fd] # NoDesc => f[o][fd].node # n
Reopened(ns, ds, n, x) ==
  /\ x \in NodeT /\ x.kind = ns[n].kind /\ x.name = ns[n].name /\ x.dir = ns[n].dir
  /\ x.kids = ns[n].kids /\ x.text = ns[n].text
  /\ (ns[n].kind = "fatfile" /\ x.open /\ Attached(ns, n)) => x.len = ds[Key(ns, n)]

LEMMA UnusedNode ==
  ASSUME NEW ns, NEW ds, NEW f, NEW l, Base(ns, ds, f), LogOk(ns, f, l),
         NEW n \in DOMAIN ns, Unused(ns, f, n), NEW x, Reopened(ns, ds, n, x),
         NEW n1, n1 = [ns EXCEPT ![n] = x]
  PROVE  SameShape(ns, n1) /\ Base(n1, ds, f) /\ LogOk(n1, f, l)
<1>1. /\ ns \in Seq(NodeT) /\ ds \in Disks /\ f \in Fds
      /\ Fixed(ns) /\ Tree(ns, ds) /\ Lengths(ns, ds) /\ Descs(ns, f)
      /\ ns[LogDir].dir = Fat /\ Attached(ns, LogDir) /\ LogDir \in DOMAIN ns
  BY DEF Base, Fixed, LogDir
<1>2. /\ x \in NodeT /\ x.kind = ns[n].kind /\ x.name = ns[n].name /\ x.dir = ns[n].dir
      /\ x.kids = ns[n].kids
      /\ (ns[n].kind = "fatfile" /\ x.open /\ Attached(ns, n)) => x.len = ds[Key(ns, n)]
  BY DEF Reopened
<1>3. /\ n1 \in Seq(NodeT) /\ DOMAIN n1 = DOMAIN ns /\ Len(n1) = Len(ns) /\ n1[n] = x
      /\ \A m \in DOMAIN ns : m # n => n1[m] = ns[m]
  BY <1>1, <1>2
<1>4. SameShape(ns, n1)
  BY <1>2, <1>3 DEF SameShape
<1>5. Fixed(n1) /\ Tree(n1, ds)
  BY <1>1, <1>4, FixedShape, TreeShape
<1>6. \A m \in DOMAIN ns : (Attached(n1, m) <=> Attached(ns, m)) /\ Key(n1, m) = Key(ns, m)
  BY <1>4, AttachedShape
<1>7. n1[LogDir].dir = Fat /\ Attached(n1, LogDir)
  BY <1>1, <1>4, <1>6 DEF SameShape
<1>8. Lengths(n1, ds)
  <2> SUFFICES ASSUME NEW m \in DOMAIN ns, n1[m].kind = "fatfile", n1[m].open, Attached(n1, m)
               PROVE  n1[m].len = ds[Key(n1, m)]
    BY <1>3 DEF Lengths
  <2>1. CASE m = n
    BY <1>2, <1>3, <1>6, <2>1
  <2>2. CASE m # n
    BY <1>1, <1>3, <1>6, <2>2 DEF Lengths
  <2> QED
    BY <2>1, <2>2
<1>9. Descs(n1, f)
  <2> SUFFICES ASSUME NEW o \in DOMAIN f, NEW fd \in 0 .. MaxFd - 1 PROVE DescOk(n1, f[o][fd])
    BY <1>1 DEF Descs
  <2>1. DescOk(ns, f[o][fd]) /\ (f[o][fd] # NoDesc => f[o][fd].node # n)
    BY <1>1 DEF Descs, Unused
  <2> QED
    BY <1>3, <1>6, <2>1 DEF DescOk, FileOk
<1>10. LogOk(n1, f, l)
  <2>1. l.persistence # NoFd => n1[f[Kernel][l.persistence].node] = ns[f[Kernel][l.persistence].node]
    <3> SUFFICES ASSUME l.persistence # NoFd
                 PROVE  n1[f[Kernel][l.persistence].node] = ns[f[Kernel][l.persistence].node]
      OBVIOUS
    <3>1. l \in LogT /\ LogAt(ns, f[Kernel][l.persistence])
      BY DEF LogOk, LogFile
    <3>2. l.persistence \in 0 .. MaxFd - 1
      BY LogFd
    <3>3. f[Kernel][l.persistence].node # n
      BY <1>1, <3>1, <3>2 DEF Unused, LogAt, Descs
    <3>4. f[Kernel][l.persistence].node \in DOMAIN ns
      BY <1>1, <3>1 DEF LogAt, LogDir
    <3> QED
      BY <1>3, <3>3, <3>4
  <2>2. Len(ns) \in Nat /\ Len(n1) = Len(ns)
    BY <1>1, <1>3
  <2>3. LogStays(ns, f, l, n1, f)
    BY <2>1, <2>2 DEF LogStays
  <2> QED
    BY <2>3, LogElsewhere
<1> QED
  BY <1>1, <1>3, <1>4, <1>5, <1>7, <1>8, <1>9, <1>10 DEF Base

(* A descriptor that is made, moved or closed.                             *)
LEMMA DescAssigned ==
  ASSUME NEW ns, NEW ds, NEW f, NEW l, Base(ns, ds, f), LogOk(ns, f, l),
         NEW o \in DOMAIN f, NEW fd \in 0 .. MaxFd - 1, NEW d \in DescT, DescOk(ns, d),
         o # Kernel \/ l.persistence = NoFd,
         NEW f1, f1 = Assigned(f, o, fd, d)
  PROVE  Base(ns, ds, f1) /\ LogOk(ns, f1, l)
<1>1. f \in Fds /\ Descs(ns, f) /\ Len(ns) \in Nat /\ Kernel \in DOMAIN f
  BY DEF Base, Descs
<1>2. /\ f1 \in Fds /\ DOMAIN f1 = DOMAIN f /\ f1[o][fd] = d
      /\ \A p \in DOMAIN f, i \in 0 .. MaxFd - 1 : <<p, i>> # <<o, fd>> => f1[p][i] = f[p][i]
  BY <1>1, AssignedIs
<1>3. Descs(ns, f1)
  <2> SUFFICES ASSUME NEW p \in DOMAIN f, NEW i \in 0 .. MaxFd - 1 PROVE DescOk(ns, f1[p][i])
    BY <1>1, <1>2 DEF Descs
  <2> QED
    BY <1>1, <1>2 DEF Descs
<1>4. l.persistence # NoFd => f1[Kernel][l.persistence] = f[Kernel][l.persistence]
  <2> SUFFICES ASSUME l.persistence # NoFd PROVE f1[Kernel][l.persistence] = f[Kernel][l.persistence]
    OBVIOUS
  <2>1. l.persistence \in 0 .. MaxFd - 1
    BY LogFd
  <2> QED
    BY <1>1, <1>2, <2>1
<1>5. LogOk(ns, f1, l)
  <2>1. LogStays(ns, f, l, ns, f1)
    BY <1>1, <1>4 DEF LogStays
  <2> QED
    BY <2>1, LogElsewhere
<1> QED
  BY <1>2, <1>3, <1>5 DEF Base
-----------------------------------------------------------------------------
(* What a call that opens or closes a node leaves as it is.                *)
Same(k, r) ==
  /\ r.misuse = k.misuse /\ r.log.persistence = k.log.persistence
  /\ DOMAIN r.fds = DOMAIN k.fds
  /\ \A o \in DOMAIN k.fds, fd \in 0 .. MaxFd - 1 :
       /\ r.fds[o][fd].node = k.fds[o][fd].node
       /\ r.fds[o][fd] = NoDesc <=> k.fds[o][fd] = NoDesc
Alike(k, r) == Same(k, r) /\ SameShape(k.nodes, r.nodes) /\ DOMAIN r.disk = DOMAIN k.disk

LEMMA LogsAlike ==
  ASSUME NEW k, NEW r, LogsOnly(k, r)
  PROVE  Alike(k, r)
BY DEF LogsOnly, Alike, Same

LEMMA AlikeNext ==
  ASSUME NEW k, NEW r, NEW t
  PROVE  /\ Same(k, r) /\ Same(r, t) => Same(k, t)
         /\ Alike(k, r) /\ Alike(r, t) => Alike(k, t)
<1>1. Same(k, r) /\ Same(r, t) => Same(k, t)
  BY DEF Same
<1>2. SameShape(k.nodes, r.nodes) /\ SameShape(r.nodes, t.nodes) => SameShape(k.nodes, t.nodes)
  BY DEF SameShape
<1> QED
  BY <1>1, <1>2 DEF Alike

LEMMA ShutUnused ==
  ASSUME NEW ns, NEW f, Descs(ns, f), NEW n \in Nat, n # Null, ns[n].kind = "fatfile", ~ns[n].open
  PROVE  Unused(ns, f, n)
BY DEF Unused, Descs, DescOk, FileOk

(* The node is opened at the length of its entry.                          *)
LEMMA OpenedGood ==
  ASSUME NEW k, Good(k), NEW n \in DOMAIN k.nodes, IsFile(k, n), ~k.nodes[n].open,
         NEW e, e = Key(k.nodes, n), NEW r, r = Opened(k, n, e)
  PROVE  /\ Good(r.k) /\ Alike(k, r.k)
         /\ e \in DOMAIN k.disk =>
              /\ r.node = n /\ r.k.disk = k.disk /\ r.k.fds = k.fds
              /\ r.k.nodes[n].open /\ r.k.nodes[n].len = k.disk[e]
              /\ r.k.nodes[n].text = k.nodes[n].text
         /\ e \notin DOMAIN k.disk => r.node = Null
<1>1. PICK ns, ds, f, l, m : k = Kern(ns, ds, f, l, m, Up) /\ Base(ns, ds, f) /\ LogOk(ns, f, l)
  BY GoodIs
<1>2. k.nodes = ns /\ k.disk = ds /\ k.fds = f /\ k.log = l /\ k.misuse = m
  BY <1>1 DEF Kern
<1>3. CASE e \notin DOMAIN ds
  <2>1. r.k = KLOG(k) /\ r.node = Null
    BY <1>2, <1>3 DEF Opened, With
  <2> QED
    BY <1>2, <1>3, <2>1, KlogGood, LogsAlike
<1>4. CASE e \in DOMAIN ds
  <2> DEFINE y == ns[n]
             x == [[y EXCEPT !.open = Up] EXCEPT !.len = ds[e]]
             na == [ns EXCEPT ![n].open = Up]
             nb == [na EXCEPT ![n].len = ds[e]]
             k1 == OpenSet(k, n, Up)
             k2 == LenSet(k1, n, ds[e])
  <2>1. r.k = k2 /\ r.node = n
    BY <1>2, <1>4 DEF Opened, With, OpenSet, LenSet, Up
  <2>2. y \in NodeT /\ n \in DOMAIN ns /\ ns \in Seq(NodeT) /\ ds[e] \in Nat /\ Descs(ns, f)
    <3>1. ns \in Seq(NodeT) /\ ds \in Disks /\ Descs(ns, f)
      BY <1>1 DEF Base
    <3> QED
      BY <1>2, <1>4, <3>1, NodeIn, DiskFun
  <2>3. nb = [ns EXCEPT ![n] = x]
    BY <2>2
  <2>4. k1 = Kern(na, ds, f, l, m, Up)
    BY <1>1, OpenSetIs
  <2> HIDE DEF k1, na
  <2>5. k2 = Kern(nb, ds, f, l, m, Up)
    BY <2>4, LenSetIs
  <2>6. /\ x \in NodeT /\ x.kind = y.kind /\ x.name = y.name /\ x.dir = y.dir
        /\ x.kids = y.kids /\ x.text = y.text /\ x.open /\ x.len = ds[e]
    BY <2>2 DEF NodeT, Up
  <2> HIDE DEF k2, nb, x
  <2>7. Reopened(ns, ds, n, x)
    BY <1>2, <2>6 DEF Reopened
  <2>8. n # Null /\ n \in Nat
    BY <2>2 DEF Null
  <2>9. Unused(ns, f, n)
    BY <1>2, <2>2, <2>8, ShutUnused DEF IsFile
  <2>10. SameShape(ns, nb) /\ Base(nb, ds, f) /\ LogOk(nb, f, l)
    BY <1>1, <2>2, <2>3, <2>7, <2>9, UnusedNode
  <2>11. nb[n] = x
    BY <2>2, <2>3
  <2>12. Good(k2) /\ Alike(k, k2) /\ k2.nodes = nb /\ k2.disk = ds /\ k2.fds = f
    <3>1. Good(k2)
      BY <2>5, <2>10, GoodKern
    <3>2. k2.nodes = nb /\ k2.disk = ds /\ k2.fds = f /\ k2.log = l /\ k2.misuse = m
      BY <2>5 DEF Kern
    <3> QED
      BY <1>2, <2>10, <3>1, <3>2 DEF Alike, Same
  <2> QED
    BY <1>2, <1>4, <2>1, <2>6, <2>11, <2>12
<1> QED
  BY <1>2, <1>3, <1>4

LEMMA FsOpenGood ==
  ASSUME NEW k, Good(k), NEW n \in DOMAIN k.nodes, NEW parent,
         IsFile(k, n) => parent = k.nodes[n].dir, NEW r, r = fs_open(k, parent, n)
  PROVE  /\ Good(r.k) /\ Alike(k, r.k) /\ r.node \in {Null, n}
         /\ (r.node = n /\ IsFile(k, n)) => r.k.nodes[n].open
<1>1. CASE IsFile(k, n) /\ ~k.nodes[n].open
  <2> DEFINE k1 == KLOG(k)
             e == <<parent, k.nodes[n].name>>
  <2>1. r = Opened(k1, n, e)
    BY <1>1 DEF fs_open
  <2>2. Good(k1) /\ LogsOnly(k, k1)
    BY KlogGood
  <2> HIDE DEF k1
  <2>3. Alike(k, k1)
    BY <2>2, LogsAlike
  <2>4. /\ n \in DOMAIN k1.nodes /\ IsFile(k1, n) /\ ~k1.nodes[n].open /\ e = Key(k1.nodes, n)
    BY <1>1, <2>2 DEF LogsOnly, SameShape, IsFile, Key
  <2> HIDE DEF e
  <2>5. /\ Good(r.k) /\ Alike(k1, r.k)
        /\ e \in DOMAIN k1.disk => r.node = n /\ r.k.nodes[n].open
        /\ e \notin DOMAIN k1.disk => r.node = Null
    BY <2>1, <2>2, <2>4, OpenedGood
  <2> QED
    <3>1. n # Null
      BY DEF Good, Base, Null
    <3> QED
      BY <2>3, <2>5, <3>1, AlikeNext
<1>2. CASE ~(IsFile(k, n) /\ ~k.nodes[n].open)
  <2>1. r.k = k /\ r.node \in {Null, n}
    BY <1>2 DEF fs_open, With
  <2>2. Alike(k, k)
    BY DEF Alike, Same, SameShape
  <2> QED
    <3>1. n # Null
      BY DEF Good, Base, Null
    <3> QED
      BY <1>2, <2>1, <2>2, <3>1
<1> QED
  BY <1>1, <1>2

(* It is closed, and nothing refers to it.                                 *)
LEMMA ShutGood ==
  ASSUME NEW k, Good(k), NEW n \in DOMAIN k.nodes, Unused(k.nodes, k.fds, n)
  PROVE  Good(OpenSet(k, n, Down)) /\ Same(k, OpenSet(k, n, Down))
<1> DEFINE r == OpenSet(k, n, Down)
<1>1. PICK ns, ds, f, l, m : k = Kern(ns, ds, f, l, m, Up) /\ Base(ns, ds, f) /\ LogOk(ns, f, l)
  BY GoodIs
<1>2. k.nodes = ns /\ k.disk = ds /\ k.fds = f /\ k.log = l /\ k.misuse = m
  BY <1>1 DEF Kern
<1>3. n \in DOMAIN ns /\ Unused(ns, f, n) /\ ns[n] \in NodeT
  <2>1. ns \in Seq(NodeT)
    BY <1>1 DEF Base
  <2> QED
    BY <1>2, <2>1, NodeIn
<1> DEFINE y == ns[n]
           x == [y EXCEPT !.open = Down]
           n1 == [ns EXCEPT ![n].open = Down]
<1>4. n1 = [ns EXCEPT ![n] = x]
  OBVIOUS
<1>5. r = Kern(n1, ds, f, l, m, Up)
  BY <1>1, OpenSetIs
<1>6. Reopened(ns, ds, n, x)
  BY <1>3 DEF NodeT, Reopened, Down
<1> HIDE DEF n1, x, r
<1>7. Base(n1, ds, f) /\ LogOk(n1, f, l)
  BY <1>1, <1>3, <1>4, <1>6, UnusedNode
<1>8. Good(r)
  BY <1>5, <1>7, GoodKern
<1>9. r.fds = f /\ r.log = l /\ r.misuse = m
  BY <1>5 DEF Kern
<1>10. Same(k, r)
  BY <1>2, <1>9 DEF Same
<1> QED
  BY <1>8, <1>10 DEF r

LEMMA FsCloseGood ==
  ASSUME NEW k, Good(k), NEW n \in DOMAIN k.nodes, Unused(k.nodes, k.fds, n)
  PROVE  Good(fs_close(k, n)) /\ Same(k, fs_close(k, n))
<1>1. CASE ~IsFile(k, n)
  BY <1>1 DEF fs_close, Same
<1>2. CASE IsFile(k, n)
  <2> DEFINE j == KLOG(k)
  <2>1. Good(j) /\ LogsOnly(k, j)
    BY KlogGood
  <2>2. fs_close(k, n) = OpenSet(j, n, Down)
    BY <1>2 DEF fs_close, OpenSet, Down
  <2> HIDE DEF j
  <2>3. n \in DOMAIN j.nodes /\ Unused(j.nodes, j.fds, n) /\ Same(k, j)
    BY <2>1, LogsAlike DEF LogsOnly, SameShape, Unused, Alike
  <2> QED
    BY <2>1, <2>2, <2>3, ShutGood, AlikeNext
<1> QED
  BY <1>1, <1>2
-----------------------------------------------------------------------------
IsKid(ns, ds, d, c) ==
  /\ c \in DOMAIN ns /\ c \in LogDir .. Len(ns) /\ ns[c].dir = d
  /\ <<d, ns[c].name>> \in DOMAIN ds /\ Attached(ns, c)
LEMMA KidIs ==
  ASSUME NEW ns \in Seq(NodeT), NEW ds, Tree(ns, ds), NEW d \in DOMAIN ns, ns[d].kind = "fatdir"
  PROVE  \A i \in DOMAIN ns[d].kids : IsKid(ns, ds, d, ns[d].kids[i])
<1> SUFFICES ASSUME NEW i \in DOMAIN ns[d].kids PROVE IsKid(ns, ds, d, ns[d].kids[i])
  OBVIOUS
<1> DEFINE c == ns[d].kids[i]
<1>1. ChildOk(ns, ds, d, c)
  BY DEF Tree, KidsOk
<1> HIDE DEF c
<1>2. c \in LogDir .. Len(ns) /\ ns[c].dir = d /\ <<d, ns[c].name>> \in DOMAIN ds
  BY <1>1 DEF ChildOk
<1>3. c \in DOMAIN ns
  BY <1>2 DEF LogDir
<1>4. Attached(ns, c)
  BY <1>2 DEF Attached, c
<1>5. IsKid(ns, ds, d, c)
  BY <1>2, <1>3, <1>4 DEF IsKid
<1> QED
  BY <1>5 DEF c

(* A node that is made: it has an entry, and then a place in its directory *)
(* that no other child has by its name.                                    *)
Fresh(ns, ds, dir, n) ==
  /\ n \in DOMAIN ns /\ n > LogDir /\ dir \in DOMAIN ns /\ dir # n /\ ns[dir].kind = "fatdir"
  /\ ns[n].dir = dir /\ ns[n].kind \in {"fatfile", "fatdir"} /\ Key(ns, n) \in DOMAIN ds
  /\ \A i \in DOMAIN ns[dir].kids : ns[ns[dir].kids[i]].name # ns[n].name
MoreDisk(ds, e) == [x \in DOMAIN ds \cup {e} |-> IF x = e THEN 0 ELSE ds[x]]

Enters(ns, ds, dir, name, kind, e, n1, d1) ==
  /\ e = <<dir, name>> /\ e \notin DOMAIN ds
  /\ n1 = Append(ns, Node(kind, name, dir)) /\ d1 = MoreDisk(ds, e)
LEMMA EnteredBase ==
  ASSUME NEW ns, NEW ds, NEW f, NEW l, Base(ns, ds, f), LogOk(ns, f, l),
         NEW dir \in DOMAIN ns, ns[dir].kind = "fatdir", NEW name \in Names,
         NEW kind \in {"fatfile", "fatdir"}, NEW e, NEW n1, NEW d1,
         Enters(ns, ds, dir, name, kind, e, n1, d1)
  PROVE  Base(n1, d1, f) /\ LogOk(n1, f, l) /\ Fresh(n1, d1, dir, Len(ns) + 1)
<1> DEFINE y == Node(kind, name, dir)
           n == Len(ns) + 1
<1>1. /\ ns \in Seq(NodeT) /\ ds \in Disks /\ f \in Fds
      /\ Fixed(ns) /\ Tree(ns, ds) /\ Lengths(ns, ds) /\ Descs(ns, f)
      /\ ns[LogDir].dir = Fat /\ Attached(ns, LogDir) /\ LogDir \in DOMAIN ns
      /\ Len(ns) \in Nat /\ Len(ns) >= LogDir /\ DOMAIN ns = 1 .. Len(ns)
  BY DEF Base, Fixed, LogDir
<1>2. dir \in Nat /\ n \in Nat /\ n > LogDir /\ n \notin DOMAIN ns
  BY <1>1 DEF LogDir
<1>3. /\ y \in NodeT /\ y.kind = kind /\ y.name = name /\ y.dir = dir /\ y.kids = <<>> /\ y.open = FALSE
  BY <1>2 DEF Node, NodeT, Kinds
<1>0. e = <<dir, name>> /\ e \notin DOMAIN ds /\ n1 = Append(ns, y) /\ d1 = MoreDisk(ds, e)
  BY DEF Enters
<1> HIDE DEF y
<1>4. n1 \in Seq(NodeT) /\ Len(n1) = n /\ DOMAIN n1 = 1 .. n
  BY <1>0, <1>1, <1>3
<1>5. n1[n] = y /\ \A m \in DOMAIN ns : n1[m] = ns[m] /\ m \in DOMAIN n1
  BY <1>0, <1>1, <1>3
<1>6. \A m \in DOMAIN n1 : m \in DOMAIN ns \/ m = n
  BY <1>1, <1>4
<1> HIDE DEF n
<1>7. /\ d1 \in Disks /\ DOMAIN d1 = DOMAIN ds \cup {e} /\ \A x \in DOMAIN ds : d1[x] = ds[x]
  <2>1. DOMAIN ds \subseteq Nat \X Names /\ \A x \in DOMAIN ds : ds[x] \in Nat
    BY <1>1, DiskFun
  <2>2. /\ d1 = [x \in DOMAIN d1 |-> d1[x]] /\ DOMAIN d1 = DOMAIN ds \cup {e}
        /\ \A x \in DOMAIN ds : d1[x] = ds[x]
    BY <1>0 DEF MoreDisk
  <2>3. \A x \in DOMAIN d1 : d1[x] \in Nat
    BY <1>0, <2>1 DEF MoreDisk
  <2>4. DOMAIN d1 \subseteq Nat \X Names
    BY <1>0, <1>2, <2>1, <2>2
  <2> QED
    BY <1>0, <2>2, <2>3, <2>4, DiskFun
<1>8. \A d \in DOMAIN ns : ns[d].kind = "fatdir" =>
        \A i \in DOMAIN ns[d].kids : IsKid(ns, ds, d, ns[d].kids[i])
  BY <1>1, KidIs
<1>9. Fixed(n1)
  <2>1. 1 \in DOMAIN ns /\ 2 \in DOMAIN ns /\ 3 \in DOMAIN ns /\ 4 \in DOMAIN ns /\ 5 \in DOMAIN ns /\ 6 \in DOMAIN ns
    BY <1>1 DEF LogDir
  <2>2. \A m \in LogDir .. n : m = n \/ (m \in LogDir .. Len(ns) /\ m \in DOMAIN ns)
    BY <1>1 DEF LogDir, n
  <2>3. \A m \in LogDir .. n : n1[m].kind \in {"fatfile", "fatdir"}
    BY <1>1, <1>3, <1>5, <2>2 DEF Fixed
  <2> QED
    BY <1>1, <1>2, <1>4, <1>5, <2>1, <2>3 DEF Fixed, Root, Ram, Dev, Con, Fat, Program, LogDir
<1>10. Tree(n1, d1)
  <2> SUFFICES ASSUME NEW d \in DOMAIN n1, n1[d].kind = "fatdir" PROVE KidsOk(n1, d1, d)
    BY DEF Tree
  <2>1. CASE d = n
    BY <1>3, <1>5, <2>1 DEF KidsOk
  <2>2. CASE d \in DOMAIN ns
    <3>1. n1[d] = ns[d] /\ KidsOk(ns, ds, d) /\ ns[d].kind = "fatdir"
      BY <1>1, <1>5, <2>2 DEF Tree
    <3>0. \A m \in LogDir .. Len(ns) : m \in LogDir .. n
      BY <1>1 DEF LogDir, n
    <3>2. \A i \in DOMAIN ns[d].kids :
            /\ ns[d].kids[i] \in DOMAIN ns /\ ns[d].kids[i] \in LogDir .. n
            /\ n1[ns[d].kids[i]] = ns[ns[d].kids[i]]
      BY <1>5, <1>8, <2>2, <3>0, <3>1 DEF IsKid
    <3>3. \A i \in DOMAIN ns[d].kids : ChildOk(n1, d1, d, ns[d].kids[i])
      BY <1>4, <1>7, <1>8, <2>2, <3>1, <3>2 DEF ChildOk, IsKid
    <3>4. \A i, j \in DOMAIN ns[d].kids : ns[ns[d].kids[i]].name = ns[ns[d].kids[j]].name => i = j
      BY <3>1 DEF KidsOk
    <3> QED
      BY <3>1, <3>2, <3>3, <3>4 DEF KidsOk
  <2> QED
    BY <1>6, <2>1, <2>2
<1>11. \A m \in DOMAIN ns : (Attached(n1, m) <=> Attached(ns, m)) /\ Key(n1, m) = Key(ns, m)
  <2> SUFFICES ASSUME NEW m \in DOMAIN ns
               PROVE  (Attached(n1, m) <=> Attached(ns, m)) /\ Key(n1, m) = Key(ns, m)
    OBVIOUS
  <2>1. n1[m] = ns[m]
    BY <1>5
  <2>2. CASE ns[m].dir \in DOMAIN ns
    BY <1>5, <2>1, <2>2 DEF Attached, Key
  <2>3. CASE ns[m].dir \notin DOMAIN ns
    BY <1>3, <1>5, <1>6, <2>1, <2>3 DEF Attached, Key
  <2> QED
    BY <2>2, <2>3
<1>12. n1[LogDir].dir = Fat /\ Attached(n1, LogDir)
  BY <1>1, <1>5, <1>11
<1>13. Lengths(n1, d1)
  <2> SUFFICES ASSUME NEW m \in DOMAIN n1, n1[m].kind = "fatfile", n1[m].open, Attached(n1, m)
               PROVE  n1[m].len = d1[Key(n1, m)]
    BY DEF Lengths
  <2>1. m \in DOMAIN ns
    BY <1>3, <1>5, <1>6
  <2>2. n1[m] = ns[m] /\ Attached(ns, m) /\ Key(n1, m) = Key(ns, m)
    BY <1>5, <1>11, <2>1
  <2>3. Key(ns, m) \in DOMAIN ds
    BY <1>1, <2>1, <2>2, KeyIsOwn
  <2> QED
    BY <1>1, <1>7, <2>1, <2>2, <2>3 DEF Lengths
<1>14. Descs(n1, f)
  <2> SUFFICES ASSUME NEW o \in DOMAIN f, NEW fd \in 0 .. MaxFd - 1 PROVE DescOk(n1, f[o][fd])
    BY <1>1 DEF Descs
  <2>1. DescOk(ns, f[o][fd])
    BY <1>1 DEF Descs
  <2> QED
    BY <1>5, <1>11, <2>1 DEF DescOk, FileOk
<1>15. LogOk(n1, f, l)
  <2>1. l.persistence # NoFd => n1[f[Kernel][l.persistence].node] = ns[f[Kernel][l.persistence].node]
    <3> SUFFICES ASSUME l.persistence # NoFd
                 PROVE  n1[f[Kernel][l.persistence].node] = ns[f[Kernel][l.persistence].node]
      OBVIOUS
    <3>1. LogAt(ns, f[Kernel][l.persistence])
      BY DEF LogOk, LogFile
    <3>2. f[Kernel][l.persistence].node \in DOMAIN ns
      BY <1>1, <3>1 DEF LogAt, LogDir
    <3> QED
      BY <1>5, <3>2
  <2>2. Len(n1) >= Len(ns) /\ Len(n1) \in Nat
    BY <1>1, <1>2, <1>4 DEF n
  <2>3. LogStays(ns, f, l, n1, f)
    BY <1>1, <2>1, <2>2 DEF LogStays
  <2> QED
    BY <2>3, LogElsewhere
<1>16. Fresh(n1, d1, dir, n)
  <2>1. n \in DOMAIN n1 /\ dir # n /\ n1[dir] = ns[dir] /\ dir \in DOMAIN n1 /\ Key(n1, n) = e
    BY <1>0, <1>2, <1>3, <1>4, <1>5 DEF Key
  <2>2. \A i \in DOMAIN ns[dir].kids : n1[ns[dir].kids[i]].name # name
    <3> SUFFICES ASSUME NEW i \in DOMAIN ns[dir].kids PROVE n1[ns[dir].kids[i]].name # name
      OBVIOUS
    <3>1. IsKid(ns, ds, dir, ns[dir].kids[i])
      BY <1>8
    <3>2. n1[ns[dir].kids[i]] = ns[ns[dir].kids[i]]
      BY <1>5, <3>1 DEF IsKid
    <3> QED
      BY <1>0, <3>1, <3>2 DEF IsKid
  <2>3. e \in DOMAIN d1 /\ n1[n].dir = dir /\ n1[n].kind = kind /\ n1[n].name = name
    BY <1>3, <1>5, <1>7
  <2> QED
    BY <1>2, <2>1, <2>2, <2>3 DEF Fresh
<1> QED
  BY <1>1, <1>4, <1>7, <1>9, <1>10, <1>12, <1>13, <1>14, <1>15, <1>16 DEF Base, n

LEMMA FreshAlike ==
  ASSUME NEW k, Good(k), NEW r, Alike(k, r), NEW dir, NEW n, Fresh(k.nodes, k.disk, dir, n)
  PROVE  Fresh(r.nodes, r.disk, dir, n)
<1> DEFINE ns == k.nodes
           n1 == r.nodes
<1>1. Tree(ns, k.disk) /\ ns \in Seq(NodeT)
  BY DEF Good, Base
<1>2. SameShape(ns, n1) /\ DOMAIN r.disk = DOMAIN k.disk
  BY DEF Alike
<1> HIDE DEF ns, n1
<1>3. Fresh(ns, k.disk, dir, n)
  BY DEF ns
<1>4. \A i \in DOMAIN ns[dir].kids : ns[dir].kids[i] \in DOMAIN ns
  <2>1. dir \in DOMAIN ns /\ ns[dir].kind = "fatdir"
    BY <1>3 DEF Fresh
  <2> QED
    BY <1>1, <2>1, KidIs DEF IsKid
<1>5. Key(n1, n) = Key(ns, n)
  BY <1>2, <1>3 DEF SameShape, Fresh, Key
<1>6. /\ DOMAIN n1 = DOMAIN ns /\ n1[dir].kind = ns[dir].kind /\ n1[dir].kids = ns[dir].kids
      /\ n1[n].dir = ns[n].dir /\ n1[n].kind = ns[n].kind /\ n1[n].name = ns[n].name
  BY <1>2, <1>3 DEF SameShape, Fresh
<1>7. \A i \in DOMAIN n1[dir].kids : n1[n1[dir].kids[i]].name # n1[n].name
  BY <1>2, <1>3, <1>4, <1>6 DEF SameShape, Fresh
<1> QED
  BY <1>2, <1>3, <1>5, <1>6, <1>7 DEF Fresh, n1
FileLen(ns, ds, n) == (ns[n].kind = "fatfile" /\ ns[n].open) => ns[n].len = ds[Key(ns, n)]
Links(ns, dir, n, n1) == n1 = [ns EXCEPT ![dir].kids = <<n>> \o ns[dir].kids]
LEMMA LinkedBase ==
  ASSUME NEW ns, NEW ds, NEW f, NEW l, Base(ns, ds, f), LogOk(ns, f, l), NEW dir, NEW n,
         Fresh(ns, ds, dir, n), FileLen(ns, ds, n), NEW n1, Links(ns, dir, n, n1)
  PROVE  Base(n1, ds, f) /\ LogOk(n1, f, l) /\ Attached(n1, n) /\ n1[n] = ns[n] /\ Len(n1) = Len(ns)
<1> DEFINE y == ns[dir]
           kk == <<n>> \o y.kids
           x == [y EXCEPT !.kids = kk]
<1>1. /\ ns \in Seq(NodeT) /\ ds \in Disks /\ f \in Fds
      /\ Fixed(ns) /\ Tree(ns, ds) /\ Lengths(ns, ds) /\ Descs(ns, f)
      /\ ns[LogDir].dir = Fat /\ Attached(ns, LogDir) /\ LogDir \in DOMAIN ns
      /\ Len(ns) \in Nat /\ Len(ns) >= LogDir /\ DOMAIN ns = 1 .. Len(ns)
  BY DEF Base, Fixed, LogDir
<1>2. /\ n \in DOMAIN ns /\ n > LogDir /\ dir \in DOMAIN ns /\ dir # n /\ y.kind = "fatdir"
      /\ ns[n].dir = dir /\ ns[n].kind \in {"fatfile", "fatdir"} /\ Key(ns, n) \in DOMAIN ds
      /\ \A i \in DOMAIN y.kids : ns[y.kids[i]].name # ns[n].name
  BY DEF Fresh
<1>3. y \in NodeT /\ y.kids \in Seq(Nat) /\ Len(y.kids) \in Nat /\ DOMAIN y.kids = 1 .. Len(y.kids) /\ n \in Nat
  <2>1. y \in NodeT /\ y.kids \in Seq(Nat)
    BY <1>1, <1>2, NodeIn
  <2> QED
    BY <1>1, <1>2, <2>1
<1>4. /\ kk \in Seq(Nat) /\ Len(kk) = Len(y.kids) + 1 /\ DOMAIN kk = 1 .. Len(kk) /\ kk[1] = n
      /\ \A i \in DOMAIN y.kids : i + 1 \in DOMAIN kk /\ kk[i + 1] = y.kids[i]
      /\ \A i \in DOMAIN kk : i = 1 \/ (i - 1 \in DOMAIN y.kids /\ kk[i] = y.kids[i - 1])
  <2> DEFINE q == y.kids
  <2> HIDE DEF q, y
  <2>1. q \in Seq(Nat) /\ Len(q) \in Nat /\ DOMAIN q = 1 .. Len(q) /\ n \in Nat
    BY <1>3 DEF q
  <2> DEFINE p == <<n>> \o q
  <2>2. p \in Seq(Nat) /\ Len(p) = Len(q) + 1 /\ DOMAIN p = 1 .. Len(p) /\ p[1] = n
    BY <2>1
  <2>3. \A i \in 1 .. Len(q) : i + 1 \in 1 .. Len(q) + 1 /\ p[i + 1] = q[i]
    BY <2>1
  <2>4. \A i \in 1 .. Len(q) + 1 : i = 1 \/ (i - 1 \in 1 .. Len(q) /\ p[i] = q[i - 1])
    <3> SUFFICES ASSUME NEW i \in 1 .. Len(q) + 1, i # 1
                 PROVE  i - 1 \in 1 .. Len(q) /\ p[i] = q[i - 1]
      OBVIOUS
    <3>1. i - 1 \in 1 .. Len(q) /\ (i - 1) + 1 = i
      BY <2>1
    <3> HIDE DEF p
    <3> QED
      BY <2>3, <3>1
  <2> HIDE DEF p
  <2>5. kk = p
    BY DEF p, q
  <2> QED
    BY <2>1, <2>2, <2>3, <2>4, <2>5 DEF q
<1> HIDE DEF kk
<1>5. /\ x \in NodeT /\ x.kind = y.kind /\ x.name = y.name /\ x.dir = y.dir /\ x.len = y.len
      /\ x.open = y.open /\ x.text = y.text /\ x.kids = kk
  BY <1>3, <1>4 DEF NodeT
<1>6. n1 = [ns EXCEPT ![dir] = x]
  BY DEF kk, Links
<1> HIDE DEF x, y
<1>7. /\ n1 \in Seq(NodeT) /\ DOMAIN n1 = DOMAIN ns /\ Len(n1) = Len(ns) /\ n1[dir] = x
      /\ \A m \in DOMAIN ns : m # dir => n1[m] = ns[m]
  BY <1>1, <1>2, <1>5, <1>6
<1>8. \A m \in DOMAIN ns : /\ n1[m].kind = ns[m].kind /\ n1[m].name = ns[m].name
                           /\ n1[m].dir = ns[m].dir /\ n1[m].open = ns[m].open
                           /\ n1[m].len = ns[m].len /\ Key(n1, m) = Key(ns, m)
  BY <1>5, <1>7 DEF Key, y
<1>9. \A d \in DOMAIN ns : ns[d].kind = "fatdir" =>
        \A i \in DOMAIN ns[d].kids : IsKid(ns, ds, d, ns[d].kids[i])
  BY <1>1, KidIs
<1>10. Fixed(n1)
  <2>1. 1 \in DOMAIN ns /\ 2 \in DOMAIN ns /\ 3 \in DOMAIN ns /\ 4 \in DOMAIN ns /\ 5 \in DOMAIN ns /\ 6 \in DOMAIN ns
    BY <1>1 DEF LogDir
  <2>2. dir # 1 /\ dir # 2
    BY <1>1, <1>2 DEF Fixed, Root, Ram, y
  <2>3. n1[1] = ns[1] /\ n1[2] = ns[2]
    BY <1>7, <2>1, <2>2
  <2>4. \A m \in LogDir .. Len(ns) : m \in DOMAIN ns
    BY <1>1 DEF LogDir
  <2>5. \A m \in LogDir .. Len(n1) : n1[m].kind \in {"fatfile", "fatdir"}
    BY <1>1, <1>7, <1>8, <2>4 DEF Fixed
  <2> QED
    BY <1>1, <1>7, <1>8, <2>1, <2>3, <2>5 DEF Fixed, Root, Ram, Dev, Con, Fat, Program
<1>11. Tree(n1, ds)
  <2> SUFFICES ASSUME NEW d \in DOMAIN ns, ns[d].kind = "fatdir" PROVE KidsOk(n1, ds, d)
    BY <1>7, <1>8 DEF Tree
  <2>1. KidsOk(ns, ds, d)
    BY <1>1 DEF Tree
  <2>2. CASE d # dir
    <3>1. n1[d].kids = ns[d].kids
      BY <1>7, <2>2
    <3>2. \A i \in DOMAIN ns[d].kids :
            /\ ChildOk(n1, ds, d, ns[d].kids[i]) /\ n1[ns[d].kids[i]].name = ns[ns[d].kids[i]].name
      BY <1>7, <1>8, <1>9 DEF IsKid, ChildOk
    <3>3. \A i, j \in DOMAIN ns[d].kids : ns[ns[d].kids[i]].name = ns[ns[d].kids[j]].name => i = j
      BY <2>1 DEF KidsOk
    <3> QED
      BY <3>1, <3>2, <3>3 DEF KidsOk
  <2>3. CASE d = dir
    <3>1. n1[d].kids = kk /\ y = ns[d]
      BY <1>5, <1>7, <2>3 DEF y
    <3>2. \A i \in DOMAIN y.kids :
            /\ ChildOk(n1, ds, d, y.kids[i]) /\ n1[y.kids[i]].name = ns[y.kids[i]].name
      BY <1>7, <1>8, <1>9, <3>1 DEF IsKid, ChildOk
    <3>3. \A i, j \in DOMAIN y.kids : ns[y.kids[i]].name = ns[y.kids[j]].name => i = j
      BY <2>1, <3>1 DEF KidsOk
    <3>4. ChildOk(n1, ds, d, n) /\ n1[n].name = ns[n].name
      <4>1. n \in LogDir .. Len(n1) /\ n1[n].dir = d /\ n1[n].name = ns[n].name
        BY <1>1, <1>2, <1>7, <1>8, <2>3 DEF LogDir
      <4>2. <<d, n1[n].name>> \in DOMAIN ds
        BY <1>2, <1>8, <2>3 DEF Key
      <4> QED
        BY <4>1, <4>2 DEF ChildOk
    <3>5. \A i \in DOMAIN kk : ChildOk(n1, ds, d, kk[i])
      BY <1>4, <3>2, <3>4
    <3>6. ASSUME NEW i \in DOMAIN kk, NEW j \in DOMAIN kk, n1[kk[i]].name = n1[kk[j]].name PROVE i = j
      <4>1. CASE i = 1 /\ j = 1
        BY <4>1
      <4>2. CASE i = 1 /\ j # 1
        BY <1>2, <1>4, <3>2, <3>4, <3>6, <4>2
      <4>3. CASE i # 1 /\ j = 1
        BY <1>2, <1>4, <3>2, <3>4, <3>6, <4>3
      <4>4. CASE i # 1 /\ j # 1
        <5>1. i - 1 \in DOMAIN y.kids /\ j - 1 \in DOMAIN y.kids /\ kk[i] = y.kids[i - 1] /\ kk[j] = y.kids[j - 1]
          BY <1>4, <4>4
        <5>2. i - 1 = j - 1
          BY <3>2, <3>3, <3>6, <5>1
        <5>3. i \in Nat /\ j \in Nat
          BY <1>4
        <5> QED
          BY <5>2, <5>3
      <4> QED
        BY <4>1, <4>2, <4>3, <4>4
    <3> QED
      BY <3>1, <3>5, <3>6 DEF KidsOk
  <2> QED
    BY <2>2, <2>3
<1>12. \A m \in DOMAIN ns : Attached(n1, m) <=> (Attached(ns, m) \/ m = n)
  <2> SUFFICES ASSUME NEW m \in DOMAIN ns PROVE Attached(n1, m) <=> (Attached(ns, m) \/ m = n)
    OBVIOUS
  <2>1. n1[m].dir = ns[m].dir
    BY <1>8
  <2>2. CASE ns[m].dir = dir
    <3>1. /\ Attached(n1, m) <=> \E i \in DOMAIN kk : kk[i] = m
          /\ Attached(ns, m) <=> \E i \in DOMAIN y.kids : y.kids[i] = m
      BY <1>2, <1>5, <1>7, <1>8, <2>1, <2>2 DEF Attached, y
    <3>2. 1 \in DOMAIN kk
      BY <1>3, <1>4
    <3>3. ASSUME NEW i \in DOMAIN kk, kk[i] = m PROVE m = n \/ \E j \in DOMAIN y.kids : y.kids[j] = m
      BY <1>4, <3>3
    <3>4. ASSUME NEW i \in DOMAIN y.kids, y.kids[i] = m PROVE \E j \in DOMAIN kk : kk[j] = m
      BY <1>4, <3>4
    <3>5. m = n => \E j \in DOMAIN kk : kk[j] = m
      BY <1>4, <3>2
    <3> QED
      BY <3>1, <3>3, <3>4, <3>5
  <2>3. CASE ns[m].dir # dir
    BY <1>2, <1>7, <1>8, <2>1, <2>3 DEF Attached
  <2> QED
    BY <2>2, <2>3
<1>13. n1[LogDir].dir = Fat /\ Attached(n1, LogDir)
  BY <1>1, <1>8, <1>12
<1>14. Lengths(n1, ds)
  <2> SUFFICES ASSUME NEW m \in DOMAIN ns, n1[m].kind = "fatfile", n1[m].open, Attached(n1, m)
               PROVE  n1[m].len = ds[Key(n1, m)]
    BY <1>7 DEF Lengths
  <2> QED
    BY <1>1, <1>8, <1>12 DEF Lengths, FileLen
<1>15. Descs(n1, f)
  <2> SUFFICES ASSUME NEW o \in DOMAIN f, NEW fd \in 0 .. MaxFd - 1 PROVE DescOk(n1, f[o][fd])
    BY <1>1 DEF Descs
  <2>1. DescOk(ns, f[o][fd])
    BY <1>1 DEF Descs
  <2> QED
    BY <1>7, <1>8, <1>12, <2>1 DEF DescOk, FileOk
<1>16. LogOk(n1, f, l)
  <2>1. l.persistence # NoFd => n1[f[Kernel][l.persistence].node] = ns[f[Kernel][l.persistence].node]
    <3> SUFFICES ASSUME l.persistence # NoFd
                 PROVE  n1[f[Kernel][l.persistence].node] = ns[f[Kernel][l.persistence].node]
      OBVIOUS
    <3>1. LogAt(ns, f[Kernel][l.persistence])
      BY DEF LogOk, LogFile
    <3>2. f[Kernel][l.persistence].node \in DOMAIN ns /\ f[Kernel][l.persistence].node # dir
      BY <1>1, <1>2, <3>1 DEF LogAt, LogDir, y
    <3> QED
      BY <1>7, <3>2
  <2>2. Len(n1) >= Len(ns) /\ Len(n1) \in Nat
    BY <1>1, <1>7
  <2>3. LogStays(ns, f, l, n1, f)
    BY <1>1, <2>1, <2>2 DEF LogStays
  <2> QED
    BY <2>3, LogElsewhere
<1> QED
  BY <1>1, <1>2, <1>7, <1>10, <1>11, <1>12, <1>13, <1>14, <1>15, <1>16 DEF Base
LEMMA EnteredGood ==
  ASSUME NEW k, Good(k), NEW dir \in DOMAIN k.nodes, k.nodes[dir].kind = "fatdir",
         NEW name \in Names, NEW kind \in {"fatfile", "fatdir"},
         NEW e, e = <<dir, name>>, e \notin DOMAIN k.disk, NEW r, r = Entered(k, e, kind),
         NEW n, n = Len(k.nodes) + 1
  PROVE  /\ Good(r) /\ Same(k, r) /\ Fresh(r.nodes, r.disk, dir, n) /\ Len(r.nodes) = n
         /\ r.nodes[n] = Node(kind, name, dir) /\ r.disk[e] = 0 /\ r.fds = k.fds /\ Key(r.nodes, n) = e
<1>1. PICK ns, ds, f, l, m : k = Kern(ns, ds, f, l, m, Up) /\ Base(ns, ds, f) /\ LogOk(ns, f, l)
  BY GoodIs
<1>2. k.nodes = ns /\ k.disk = ds /\ k.fds = f /\ k.log = l /\ k.misuse = m
  BY <1>1 DEF Kern
<1> DEFINE n1 == Append(ns, Node(kind, name, dir))
           d1 == MoreDisk(ds, e)
           k1 == DiskSet(k, d1)
<1>3. r = NodesSet(k1, n1)
  <2>1. e[1] = dir /\ e[2] = name
    OBVIOUS
  <2> QED
    BY <1>2, <2>1 DEF Entered, NodesSet, DiskSet, MoreDisk
<1>4. k1 = Kern(ns, d1, f, l, m, Up)
  BY <1>1, DiskSetIs
<1> HIDE DEF k1, d1, n1
<1>5. r = Kern(n1, d1, f, l, m, Up)
  BY <1>3, <1>4, NodesSetIs
<1>6. Base(n1, d1, f) /\ LogOk(n1, f, l) /\ Fresh(n1, d1, dir, n)
  <2>1. Enters(ns, ds, dir, name, kind, e, n1, d1)
    BY <1>2 DEF Enters, n1, d1
  <2> QED
    BY <1>1, <1>2, <2>1, EnteredBase
<1>7. r.nodes = n1 /\ r.disk = d1 /\ r.fds = f /\ r.log = l /\ r.misuse = m
  BY <1>5 DEF Kern
<1>8. Good(r) /\ Same(k, r)
  <2>1. Good(r)
    BY <1>5, <1>6, GoodKern
  <2> QED
    BY <1>2, <1>7, <2>1 DEF Same
<1>9. Len(n1) = n /\ n1[n] = Node(kind, name, dir)
  <2>1. ns \in Seq(NodeT)
    BY <1>1 DEF Base
  <2> QED
    BY <1>2, <2>1 DEF n1
<1>10. Key(n1, n) = e /\ d1[e] = 0
  BY <1>9 DEF Key, Node, d1, MoreDisk
<1> QED
  BY <1>6, <1>7, <1>8, <1>9, <1>10, <1>2

LEMMA LinkedGood ==
  ASSUME NEW k, Good(k), NEW dir, NEW n, n = Len(k.nodes), Fresh(k.nodes, k.disk, dir, n),
         FileLen(k.nodes, k.disk, n), NEW r, r = Linked(k, dir)
  PROVE  /\ Good(r.k) /\ Same(k, r.k) /\ r.node = n /\ n \in DOMAIN r.k.nodes /\ n > LogDir
         /\ Attached(r.k.nodes, n) /\ r.k.nodes[n] = k.nodes[n] /\ r.k.fds = k.fds
         /\ Len(r.k.nodes) = n
<1>1. PICK ns, ds, f, l, m : k = Kern(ns, ds, f, l, m, Up) /\ Base(ns, ds, f) /\ LogOk(ns, f, l)
  BY GoodIs
<1>2. k.nodes = ns /\ k.disk = ds /\ k.fds = f /\ k.log = l /\ k.misuse = m
  BY <1>1 DEF Kern
<1> DEFINE n1 == [ns EXCEPT ![dir].kids = <<n>> \o ns[dir].kids]
           kk == <<n>> \o ns[dir].kids
<1>3. r.k = KidsSet(k, dir, kk) /\ r.node = n
  BY <1>2 DEF Linked, With, KidsSet
<1>4. r.k = Kern([ns EXCEPT ![dir].kids = kk], ds, f, l, m, Up)
  <2> HIDE DEF kk
  <2> QED
    BY <1>1, <1>3, KidsSetIs
<1>5. Links(ns, dir, n, n1) /\ n1 = [ns EXCEPT ![dir].kids = kk]
  BY DEF Links
<1> HIDE DEF n1, kk
<1>6. Base(n1, ds, f) /\ LogOk(n1, f, l) /\ Attached(n1, n) /\ n1[n] = ns[n] /\ Len(n1) = Len(ns)
  BY <1>1, <1>2, <1>5, LinkedBase
<1>7. r.k.nodes = n1 /\ r.k.disk = ds /\ r.k.fds = f /\ r.k.log = l /\ r.k.misuse = m
  BY <1>4, <1>5 DEF Kern
<1>8. Good(r.k) /\ Same(k, r.k)
  <2>1. Good(r.k)
    BY <1>4, <1>5, <1>6, GoodKern
  <2> QED
    BY <1>2, <1>7, <2>1 DEF Same
<1>9. n \in DOMAIN n1 /\ n > LogDir
  <2>1. ns \in Seq(NodeT) /\ n1 \in Seq(NodeT)
    BY <1>1, <1>6 DEF Base
  <2> QED
    BY <1>2, <1>6, <2>1 DEF Fresh
<1> QED
  BY <1>2, <1>3, <1>6, <1>7, <1>8, <1>9

(* The entry, the node and the place in its directory; a file is open.     *)
Made(k, r, kind) ==
  /\ Good(r.k) /\ Same(k, r.k)
  /\ r.node # Null =>
       /\ r.node \in DOMAIN r.k.nodes /\ r.node > LogDir
       /\ kind = "fatfile" => FileOk(r.k.nodes, r.node, 0)
LogMade(k, r, dir) ==
  /\ r.node # Null /\ r.k.nodes[r.node].kind = "fatfile" /\ r.k.nodes[r.node].dir = dir
  /\ r.k.nodes[r.node].len = 0 /\ r.k.nodes[r.node].text = <<>> /\ r.k.fds = k.fds

LEMMA NewChildGood ==
  ASSUME NEW k, Good(k), NEW dir \in DOMAIN k.nodes, k.nodes[dir].kind = "fatdir",
         NEW name \in Names, NEW kind \in {"fatfile", "fatdir"}, NEW room,
         NEW e, e = <<dir, name>>, NEW r, r = NewChild(k, e, kind, room)
  PROVE  /\ Made(k, r, kind)
         /\ (k.log.persistence = NoFd /\ e \notin DOMAIN k.disk /\ room /\ kind = "fatfile") =>
              LogMade(k, r, dir)
<1>1. CASE e \in DOMAIN k.disk \/ ~room
  <2>1. r.k = k /\ r.node = Null
    BY <1>1 DEF NewChild, With
  <2> QED
    BY <1>1, <2>1 DEF Made, Same
<1>2. CASE ~(e \in DOMAIN k.disk \/ ~room)
  <2> DEFINE k2 == Entered(k, e, kind)
             n == Len(k.nodes) + 1
  <2>1. /\ Good(k2) /\ Same(k, k2) /\ Fresh(k2.nodes, k2.disk, dir, n) /\ Len(k2.nodes) = n
        /\ k2.nodes[n] = Node(kind, name, dir) /\ k2.disk[e] = 0 /\ k2.fds = k.fds
        /\ Key(k2.nodes, n) = e
    BY <1>2, EnteredGood
  <2>2. e[1] = dir
    OBVIOUS
  <2>3. CASE kind = "fatdir"
    <3>1. r = Linked(k2, dir)
      BY <1>2, <2>2, <2>3 DEF NewChild
    <3> HIDE DEF k2, n
    <3>2. FileLen(k2.nodes, k2.disk, n)
      BY <2>1, <2>3 DEF FileLen, Node
    <3>3. Good(r.k) /\ Same(k2, r.k) /\ r.node = n /\ n \in DOMAIN r.k.nodes /\ n > LogDir
      BY <2>1, <3>1, <3>2, LinkedGood
    <3>4. Same(k, r.k)
      BY <2>1, <3>3, AlikeNext
    <3> QED
      BY <2>3, <3>3, <3>4 DEF Made
  <2>4. CASE kind = "fatfile"
    <3> DEFINE r3 == fs_open(k2, dir, n)
               k3 == KLOG(k2)
    <3>1. r = Linked(r3.k, dir)
      BY <1>2, <2>2, <2>4 DEF NewChild
    <3> HIDE DEF k2, n
    <3>2. /\ IsFile(k2, n) /\ ~k2.nodes[n].open /\ k2.nodes[n].name = name /\ k2.nodes[n].dir = dir
          /\ k2.nodes[n].text = <<>> /\ k2.nodes[n].kind = "fatfile"
      BY <2>1, <2>4 DEF IsFile, Node
    <3>3. r3 = Opened(k3, n, e)
      BY <3>2 DEF fs_open
    <3>4. Good(k3) /\ LogsOnly(k2, k3)
      BY <2>1, KlogGood
    <3> HIDE DEF k3, r3
    <3>5. Alike(k2, k3)
      BY <3>4, LogsAlike
    <3>6. Fresh(k3.nodes, k3.disk, dir, n)
      BY <2>1, <3>5, FreshAlike
    <3>7. n \in DOMAIN k2.nodes /\ e \in DOMAIN k2.disk
      BY <2>1 DEF Fresh
    <3>8. /\ n \in DOMAIN k3.nodes /\ IsFile(k3, n) /\ ~k3.nodes[n].open /\ e = Key(k3.nodes, n)
          /\ e \in DOMAIN k3.disk /\ k3.nodes[n].dir = dir
      BY <2>1, <3>2, <3>4, <3>7 DEF LogsOnly, SameShape, IsFile, Key
    <3>9. /\ Good(r3.k) /\ Alike(k3, r3.k) /\ r3.node = n /\ r3.k.disk = k3.disk /\ r3.k.fds = k3.fds
          /\ r3.k.nodes[n].open /\ r3.k.nodes[n].len = k3.disk[e] /\ r3.k.nodes[n].text = k3.nodes[n].text
      BY <3>3, <3>4, <3>8, OpenedGood
    <3>10. Fresh(r3.k.nodes, r3.k.disk, dir, n)
      BY <3>4, <3>6, <3>9, FreshAlike
    <3>11. /\ Len(r3.k.nodes) = n /\ Key(r3.k.nodes, n) = e /\ r3.k.nodes[n].kind = "fatfile"
           /\ r3.k.nodes[n].dir = dir
      BY <2>1, <3>5, <3>8, <3>9 DEF Alike, SameShape, Key, IsFile
    <3>12. FileLen(r3.k.nodes, r3.k.disk, n)
      BY <3>9, <3>11 DEF FileLen
    <3>13. /\ Good(r.k) /\ Same(r3.k, r.k) /\ r.node = n /\ n \in DOMAIN r.k.nodes /\ n > LogDir
           /\ Attached(r.k.nodes, n) /\ r.k.nodes[n] = r3.k.nodes[n] /\ r.k.fds = r3.k.fds
      BY <3>1, <3>9, <3>10, <3>11, <3>12, LinkedGood
    <3>14. Same(k, r.k)
      BY <2>1, <3>5, <3>9, <3>13, AlikeNext DEF Alike
    <3>15. FileOk(r.k.nodes, n, 0)
      <4>1. r.k.nodes \in Seq(NodeT)
        BY <3>13 DEF Good, Base
      <4>2. r.k.nodes[n].len \in Nat
        BY <3>13, <4>1, NodeIn
      <4> QED
        BY <3>9, <3>13, <4>2 DEF FileOk
    <3>16. Made(k, r, kind)
      BY <3>13, <3>14, <3>15 DEF Made
    <3>17. k.log.persistence = NoFd => LogMade(k, r, dir)
      <4> SUFFICES ASSUME k.log.persistence = NoFd PROVE LogMade(k, r, dir)
        OBVIOUS
      <4>1. k3.disk = k2.disk /\ k3.nodes = k2.nodes /\ k3.fds = k2.fds
        BY <2>1, <3>4 DEF Same, LogsOnly
      <4>2. n # Null
        BY <3>13 DEF LogDir, Null
      <4> QED
        BY <2>1, <3>2, <3>9, <3>11, <3>13, <4>1, <4>2 DEF LogMade
    <3> QED
      BY <3>16, <3>17
  <2> QED
    BY <2>3, <2>4
<1> QED
  BY <1>1, <1>2

LEMMA CreateGood ==
  ASSUME NEW k, Good(k), NEW dir \in DOMAIN k.nodes, NEW name \in Names,
         NEW kind \in {"fatfile", "fatdir"}, NEW room,
         NEW r, r = fs_create_child(k, dir, name, kind, room)
  PROVE  /\ Made(k, r, kind)
         /\ (/\ k.log.persistence = NoFd /\ <<dir, name>> \notin DOMAIN k.disk /\ room
             /\ kind = "fatfile" /\ k.nodes[dir].kind = "fatdir") => LogMade(k, r, dir)
<1>1. CASE k.nodes[dir].kind = "fatdir"
  <2> DEFINE k1 == KLOG(k)
             e == <<dir, name>>
  <2>1. r = NewChild(k1, e, kind, room)
    BY <1>1 DEF fs_create_child
  <2>2. Good(k1) /\ LogsOnly(k, k1)
    BY KlogGood
  <2> HIDE DEF k1
  <2>3. dir \in DOMAIN k1.nodes /\ k1.nodes[dir].kind = "fatdir"
    BY <1>1, <2>2 DEF LogsOnly, SameShape
  <2>4. /\ Made(k1, r, kind)
        /\ (k1.log.persistence = NoFd /\ e \notin DOMAIN k1.disk /\ room /\ kind = "fatfile") =>
             LogMade(k1, r, dir)
    BY <2>1, <2>2, <2>3, NewChildGood
  <2>5. Same(k, k1)
    BY <2>2, LogsAlike DEF Alike
  <2>6. Made(k, r, kind)
    BY <2>4, <2>5, AlikeNext DEF Made
  <2> QED
    BY <2>2, <2>4, <2>6 DEF LogsOnly, LogMade
<1>2. CASE k.nodes[dir].kind # "fatdir"
  <2>1. r.k = k /\ r.node = Null
    BY <1>2 DEF fs_create_child, With
  <2> QED
    BY <1>2, <2>1 DEF Made, Same
<1> QED
  BY <1>1, <1>2
-----------------------------------------------------------------------------
(* What a path leads to: a child is found in the directory that it is in.  *)
Reached(ns, n, parent) ==
  n \in DOMAIN ns /\ (n >= LogDir => (Attached(ns, n) /\ parent = ns[n].dir))

LEMMA MinOf ==
  ASSUME NEW S \in SUBSET Nat, S # {}
  PROVE  Min(S) \in S /\ \A y \in S : Min(S) <= y
<1>1. PICK x \in S : \A y \in S : x <= y
  BY LeastElement
<1> QED
  BY <1>1 DEF Min

LEMMA FoundIs ==
  ASSUME NEW ns \in Seq(NodeT), NEW u \in DOMAIN ns, NEW name
  PROVE  FindChild(ns, u, name) = Null \/
           (IsDir(ns, u) /\ \E i \in DOMAIN ns[u].kids :
                              /\ FindChild(ns, u, name) = ns[u].kids[i]
                              /\ ns[ns[u].kids[i]].name = name)
<1> DEFINE kids == ns[u].kids
           I == {i \in 1 .. Len(kids) : ns[kids[i]].name = name}
           found == IF I # {} THEN Min(I) ELSE 0
<1>1. kids \in Seq(Nat) /\ Len(kids) \in Nat /\ DOMAIN kids = 1 .. Len(kids)
  <2>1. kids \in Seq(Nat)
    BY NodeIn
  <2> QED
    BY <2>1
<1>2. FindChild(ns, u, name) = IF ~IsDir(ns, u) \/ found = 0 THEN Null ELSE kids[found]
  BY DEF FindChild, SelectInSeq
<1>3. I # {} => Min(I) \in I
  <2>1. I \in SUBSET Nat
    BY <1>1
  <2> HIDE DEF I
  <2> QED
    BY <2>1, MinOf
<1> QED
  BY <1>1, <1>2, <1>3

LEMMA ChildIs ==
  ASSUME NEW ns, NEW ds, NEW f, Base(ns, ds, f), NEW u \in DOMAIN ns, NEW name
  PROVE  Child(ns, u, name) = Null \/ Reached(ns, Child(ns, u, name), u)
<1>1. ns \in Seq(NodeT) /\ Fixed(ns) /\ Tree(ns, ds) /\ Len(ns) \in Nat /\ DOMAIN ns = 1 .. Len(ns)
  BY DEF Base
<1>2. 1 \in DOMAIN ns /\ 2 \in DOMAIN ns /\ 3 \in DOMAIN ns /\ 4 \in DOMAIN ns /\ 5 \in DOMAIN ns /\ 6 \in DOMAIN ns
  BY <1>1 DEF Fixed, LogDir
<1>3. u \in 1 .. 6 \/ ns[u].kind \in {"fatfile", "fatdir"}
  BY <1>1 DEF Fixed, LogDir
<1> DEFINE c == Child(ns, u, name)
<1>4. CASE ns[u].kind = "dev"
  <2>1. c = Con
    BY <1>4 DEF Child
  <2> QED
    BY <1>2, <2>1 DEF Reached, Con, LogDir
<1>5. CASE ns[u].kind # "dev"
  <2>1. c = FindChild(ns, u, name)
    BY <1>5 DEF Child
  <2> HIDE DEF c
  <2> SUFFICES ASSUME c # Null PROVE Reached(ns, c, u)
    BY DEF c
  <2>2. PICK i \in DOMAIN ns[u].kids : c = ns[u].kids[i] /\ IsDir(ns, u)
    BY <1>1, <2>1, FoundIs
  <2>3. CASE ns[u].kind = "fatdir"
    <3>1. IsKid(ns, ds, u, c)
      BY <1>1, <2>2, <2>3, KidIs
    <3> QED
      BY <3>1 DEF IsKid, Reached
  <2>4. CASE ns[u].kind # "fatdir"
    <3>1. u = Root \/ u = Ram
      BY <1>1, <1>3, <1>5, <2>2, <2>4 DEF IsDir, Dirs, Fixed, Root, Ram, Dev, Con, Fat, Program, LogDir
    <3>2. CASE u = Root
      <4>1. ns[u].kids = <<5, 3, 2>>
        BY <1>1, <3>2 DEF Fixed, Fat, Dev, Ram
      <4>2. c \in {5, 3, 2}
        BY <2>2, <4>1
      <4> QED
        BY <1>2, <4>2 DEF Reached, LogDir
    <3>3. CASE u = Ram
      <4>1. ns[u].kids = <<6>>
        BY <1>1, <3>3 DEF Fixed, Program
      <4>2. c = 6
        BY <2>2, <4>1
      <4> QED
        BY <1>2, <4>2 DEF Reached, LogDir
    <3> QED
      BY <3>1, <3>2, <3>3
  <2> QED
    BY <2>3, <2>4
<1> QED
  BY <1>4, <1>5

LEMMA WalkIs ==
  ASSUME NEW ns, NEW ds, NEW f, Base(ns, ds, f), NEW path \in Seq(Names),
         NEW at, at = Walked(ns, path)
  PROVE  /\ at[0] = Root /\ \A i \in 0 .. Len(path) : at[i] \in 0 .. Len(ns)
         /\ \A i \in 1 .. Len(path) :
              at[i] = IF at[i - 1] = Null \/ Ends(path, i) THEN at[i - 1]
                      ELSE Child(ns, at[i - 1], path[i])
<1> DEFINE n == Len(path)
           V == 0 .. Len(ns)
           step(i, v) == IF v = Null \/ Ends(path, i) THEN v ELSE Child(ns, v, path[i])
           It(h) == [i \in 0 .. n |-> IF i = 0 THEN Root ELSE step(i, h[i - 1])]
           F == [i \in 1 .. n |-> [v \in V |-> step(i, v)]]
<1>1. at = CHOOSE h : h = It(h)
  BY DEF Walked
<1>2. n \in Nat /\ ns \in Seq(NodeT) /\ Len(ns) \in Nat /\ DOMAIN ns = 1 .. Len(ns) /\ Len(ns) >= 7
  BY DEF Base, Fixed, LogDir
<1>3. Root \in V
  BY <1>2 DEF Root
<1>4. ASSUME NEW i \in 1 .. n, NEW v \in V PROVE step(i, v) \in V
  <2>1. CASE v = Null \/ Ends(path, i)
    BY <2>1
  <2>2. CASE ~(v = Null \/ Ends(path, i))
    <3>1. v \in DOMAIN ns
      BY <1>2, <2>2 DEF Null
    <3>2. Child(ns, v, path[i]) = Null \/ Child(ns, v, path[i]) \in DOMAIN ns
      BY <3>1, ChildIs DEF Reached
    <3> QED
      BY <1>2, <2>2, <3>2 DEF Null
  <2> QED
    BY <2>1, <2>2
<1> HIDE DEF V, step
<1>5. \E g \in [0 .. n -> V] : Iterated(g, F, n, Root)
  <2>1. Folds(F, V, n, Root)
    BY <1>2, <1>3, <1>4 DEF Folds
  <2> HIDE DEF F
  <2> QED
    BY <2>1, Iteration
<1>6. PICK g \in [0 .. n -> V] : \A i \in 0 .. n : g[i] = IF i = 0 THEN Root ELSE F[i][g[i - 1]]
  BY <1>5 DEF Iterated
<1>7. g = It(g)
  <2>1. \A i \in 0 .. n : i # 0 => i \in 1 .. n /\ i - 1 \in 0 .. n
    BY <1>2
  <2>2. \A i \in 0 .. n : i # 0 => F[i][g[i - 1]] = step(i, g[i - 1])
    BY <2>1
  <2> QED
    BY <1>6, <2>2
<1>8. at = It(at)
  <2> HIDE DEF It
  <2> QED
    BY <1>1, <1>7
<1>9. 0 \in 0 .. n /\ \A i \in 1 .. n : i \in 0 .. n /\ i # 0 /\ i - 1 \in 0 .. n
  BY <1>2
<1>10. at[0] = Root /\ \A i \in 1 .. n : at[i] = step(i, at[i - 1])
  BY <1>8, <1>9
<1>11. \A i \in 0 .. n : at[i] \in V
  <2> DEFINE T == {i \in 0 .. n : at[i] \in V}
  <2>1. 0 \in T
    BY <1>3, <1>9, <1>10
  <2>2. \A i \in 1 .. n : i - 1 \in T => i \in T
    BY <1>4, <1>9, <1>10
  <2> HIDE DEF T
  <2>3. \A i \in 0 .. n : i \in T
    BY <1>2, <2>1, <2>2, InductionTo
  <2> QED
    BY <2>3 DEF T
<1> QED
  BY <1>10, <1>11 DEF V, step

(* A node that a path leads to, and its parent.                            *)
LEMMA PathIs ==
  ASSUME NEW ns, NEW ds, NEW f, Base(ns, ds, f), NEW path \in Seq(Names),
         NEW at, at = fs_get_abs_path(ns, path)
  PROVE  at.node = Null \/ Reached(ns, at.node, at.parent)
<1> DEFINE w == Walked(ns, path)
           n == Len(path)
<1>1. /\ w[0] = Root /\ \A i \in 0 .. n : w[i] \in 0 .. Len(ns)
      /\ \A i \in 1 .. n :
           w[i] = IF w[i - 1] = Null \/ Ends(path, i) THEN w[i - 1] ELSE Child(ns, w[i - 1], path[i])
  BY WalkIs
<1> HIDE DEF w
<1>2. n \in Nat /\ ns \in Seq(NodeT) /\ Len(ns) \in Nat /\ DOMAIN ns = 1 .. Len(ns) /\ Len(ns) >= 7
  BY DEF Base, Fixed, LogDir
<1>3. CASE path = <<>>
  <2>1. at.node = Root
    BY <1>3 DEF fs_get_abs_path
  <2> QED
    BY <1>2, <2>1 DEF Reached, Root, LogDir
<1>4. CASE path # <<>>
  <2>1. n \in Nat \ {0}
    BY <1>2, <1>4
  <2>2. /\ at.node = w[n]
        /\ at.node # Null => at.parent = IF Ends(path, n) THEN w[n - 2] ELSE w[n - 1]
    BY <1>4 DEF fs_get_abs_path, w
  <2>3. ASSUME NEW i \in 1 .. n, ~Ends(path, i), w[i] # Null PROVE Reached(ns, w[i], w[i - 1])
    <3>1. i - 1 \in 0 .. n
      BY <1>2
    <3>2. w[i] = Child(ns, w[i - 1], path[i]) /\ w[i - 1] # Null
      BY <1>1, <2>3
    <3>3. w[i - 1] \in DOMAIN ns
      BY <1>1, <1>2, <3>1, <3>2 DEF Null
    <3> QED
      BY <2>3, <3>2, <3>3, ChildIs
  <2>4. CASE ~Ends(path, n)
    BY <2>1, <2>2, <2>3, <2>4
  <2>5. CASE Ends(path, n)
    <3>1. n > 1 /\ n - 1 \in 1 .. n /\ ~Ends(path, n - 1) /\ n \in 1 .. n
      <4>1. n > 1
        BY <2>5 DEF Ends
      <4>2. n - 1 \in 1 .. n /\ n - 1 # n /\ n \in 1 .. n
        BY <2>1, <4>1
      <4> QED
        BY <4>1, <4>2 DEF Ends
    <3>2. w[n] = w[n - 1] /\ (n - 1) - 1 = n - 2
      BY <1>1, <2>1, <2>5, <3>1
    <3> QED
      BY <2>2, <2>3, <2>5, <3>1, <3>2
  <2> QED
    BY <2>4, <2>5
<1> QED
  BY <1>3, <1>4
-----------------------------------------------------------------------------
(* What every call of a process leaves: a kernel in order, or a misuse.    *)
Owns(k, o) == o \in DOMAIN k.fds /\ (o # Kernel \/ k.log.persistence = NoFd)
Kin(k, r) ==
  /\ Good(r) /\ r.misuse = k.misuse /\ r.log.persistence = k.log.persistence
  /\ DOMAIN r.fds = DOMAIN k.fds

LEMMA KinNext ==
  ASSUME NEW k, NEW r, NEW t, NEW o
  PROVE  /\ (Good(k) => Kin(k, k)) /\ (Kin(k, r) /\ Kin(r, t) => Kin(k, t))
         /\ (Good(r) /\ Same(k, r) => Kin(k, r)) /\ (Owns(k, o) /\ Kin(k, r) => Owns(r, o))
BY DEF Kin, Owns, Same

LEMMA FreeFdIs ==
  ASSUME NEW k, NEW o
  PROVE  _find_free_fd(k, o) # NoFd =>
           /\ _find_free_fd(k, o) \in 0 .. MaxFd - 1
           /\ ~Live(k, o, _find_free_fd(k, o))
<1> DEFINE S == FreeFds(k, o)
<1>1. S \in SUBSET Nat /\ S \subseteq 0 .. MaxFd - 1 /\ \A fd \in S : ~Live(k, o, fd)
  <2>1. MaxFd \in Nat
    BY IoAssumption
  <2>2. S \subseteq 0 .. MaxFd - 1 /\ \A fd \in S : ~Live(k, o, fd)
    BY DEF FreeFds
  <2>3. 0 .. MaxFd - 1 \subseteq Nat
    BY <2>1
  <2> HIDE DEF S
  <2> QED
    BY <2>2, <2>3
<1>2. _find_free_fd(k, o) = IF S = {} THEN NoFd ELSE Min(S)
  BY DEF _find_free_fd
<1> HIDE DEF S
<1> QED
  BY <1>1, <1>2, MinOf

(* A descriptor for a node that is there, and open if it is a file.        *)
LEMMA DescGood ==
  ASSUME NEW k, Good(k), NEW o, Owns(k, o), NEW fd \in 0 .. MaxFd - 1, NEW d \in DescT,
         DescOk(k.nodes, d)
  PROVE  Kin(k, DescSet(k, o, fd, d)) /\ DescSet(k, o, fd, d).nodes = k.nodes
           /\ DescSet(k, o, fd, d).log = k.log /\ DescSet(k, o, fd, d).fds = Assigned(k.fds, o, fd, d)
<1>1. PICK ns, ds, f, l, m : k = Kern(ns, ds, f, l, m, Up) /\ Base(ns, ds, f) /\ LogOk(ns, f, l)
  BY GoodIs
<1>2. k.nodes = ns /\ k.disk = ds /\ k.fds = f /\ k.log = l /\ k.misuse = m
  BY <1>1 DEF Kern
<1> DEFINE f1 == Assigned(f, o, fd, d)
           r == DescSet(k, o, fd, d)
<1>3. r = Kern(ns, ds, f1, l, m, Up)
  BY <1>1, DescSetIs DEF Assigned
<1> HIDE DEF r, f1
<1>4. o \in DOMAIN f /\ (o # Kernel \/ l.persistence = NoFd)
  BY <1>2 DEF Owns
<1>5. Base(ns, ds, f1) /\ LogOk(ns, f1, l)
  BY <1>1, <1>2, <1>4, DescAssigned DEF f1
<1>6. DOMAIN f1 = DOMAIN f
  BY DEF f1, Assigned
<1>7. Good(r)
  BY <1>3, <1>5, GoodKern
<1>8. r.nodes = ns /\ r.disk = ds /\ r.fds = f1 /\ r.log = l /\ r.misuse = m
  BY <1>3 DEF Kern
<1> QED
  BY <1>2, <1>6, <1>7, <1>8 DEF Kin, r, f1

Described(k, n) == n \in DOMAIN k.nodes /\ (IsFile(k, n) => FileOk(k.nodes, n, 0))
LEMMA DescribedOk ==
  ASSUME NEW k, Good(k), NEW n, Described(k, n)
  PROVE  Desc(n) \in DescT /\ DescOk(k.nodes, Desc(n))
<1>1. n \in Int
  BY DEF Described, Good, Base
<1> QED
  BY <1>1 DEF Described, Desc, DescT, DescOk, IsFile

LEMMA WithDescGood ==
  ASSUME NEW k, NEW found, Kin(k, found.k), NEW o, Owns(k, o), NEW fd \in 0 .. MaxFd - 1,
         found.node # Null => Described(found.k, found.node), NEW r, r = WithDesc(found, o, fd)
  PROVE  Kin(k, r.k)
<1>1. CASE found.node = Null
  BY <1>1 DEF WithDesc
<1>2. CASE found.node # Null
  <2> DEFINE d == Desc(found.node)
  <2>1. r.k = DescSet(found.k, o, fd, d)
    BY <1>2 DEF WithDesc, DescSet
  <2>2. Good(found.k) /\ Owns(found.k, o)
    BY KinNext DEF Kin
  <2>3. d \in DescT /\ DescOk(found.k.nodes, d)
    BY <1>2, <2>2, DescribedOk
  <2> HIDE DEF d
  <2>4. Kin(found.k, r.k)
    BY <2>1, <2>2, <2>3, DescGood
  <2> QED
    BY <2>4, KinNext
<1> QED
  BY <1>1, <1>2

(* io_open, for a path of any kind.                                        *)
LEMMA OpenFileGood ==
  ASSUME NEW k, Good(k), NEW o, Owns(k, o), NEW path \in Seq(Names),
         NEW r, r = _open_file(k, o, path)
  PROVE  Kin(k, r.k)
<1> DEFINE at == fs_get_abs_path(k.nodes, path)
           fd == _find_free_fd(k, o)
           found == fs_open(k, at.parent, at.node)
<1>1. CASE at.node = Null \/ fd = NoFd
  <2>1. r.k = k
    BY <1>1 DEF _open_file
  <2> QED
    BY <2>1, KinNext
<1>2. CASE ~(at.node = Null \/ fd = NoFd)
  <2>1. r = WithDesc(found, o, fd)
    BY <1>2 DEF _open_file
  <2>2. fd \in 0 .. MaxFd - 1
    BY <1>2, FreeFdIs
  <2>3. Base(k.nodes, k.disk, k.fds)
    BY DEF Good
  <2>4. Reached(k.nodes, at.node, at.parent)
    BY <1>2, <2>3, PathIs
  <2> HIDE DEF at, fd, found
  <2>5. /\ at.node \in DOMAIN k.nodes
        /\ IsFile(k, at.node) => Attached(k.nodes, at.node) /\ at.parent = k.nodes[at.node].dir
    <3>1. IsFile(k, at.node) => at.node >= LogDir
      <4>1. at.node \in 1 .. Len(k.nodes) /\ Len(k.nodes) \in Nat
        BY <2>3, <2>4 DEF Base, Reached
      <4>2. k.nodes[at.node].kind = "fatfile" => at.node \notin 1 .. 6
        BY <2>3 DEF Base, Fixed, Root, Ram, Dev, Con, Fat, Program
      <4> QED
        BY <4>1, <4>2 DEF IsFile, LogDir
    <3> QED
      BY <2>4, <3>1 DEF Reached
  <2>6. /\ Good(found.k) /\ Alike(k, found.k) /\ found.node \in {Null, at.node}
        /\ (found.node = at.node /\ IsFile(k, at.node)) => found.k.nodes[at.node].open
    BY <2>5, FsOpenGood DEF found
  <2>7. ASSUME found.node # Null PROVE Described(found.k, found.node)
    <3>1. /\ found.node = at.node /\ at.node \in DOMAIN found.k.nodes
          /\ IsFile(found.k, at.node) => IsFile(k, at.node)
      BY <2>5, <2>6, <2>7 DEF Alike, SameShape, IsFile
    <3>2. Attached(k.nodes, at.node) => Attached(found.k.nodes, at.node)
      BY <2>5, <2>6, AttachedShape DEF Alike
    <3>3. found.k.nodes \in Seq(NodeT)
      BY <2>6 DEF Good, Base
    <3>4. found.k.nodes[at.node].len \in Nat
      BY <3>1, <3>3, NodeIn
    <3> QED
      BY <2>5, <2>6, <3>1, <3>2, <3>4 DEF Described, FileOk
  <2>8. Kin(k, found.k)
    BY <2>6, KinNext DEF Alike
  <2> QED
    BY <2>1, <2>2, <2>7, <2>8, WithDescGood
<1> QED
  BY <1>1, <1>2
(* A path of one part.                                                     *)
LEMMA OneIn ==
  ASSUME NEW T, NEW x \in T
  PROVE  <<x>> \in Seq(T)
OBVIOUS

LEMMA LeafIs ==
  ASSUME NEW path \in Seq(Names), path # <<>>
  PROVE  LeafDir(path) \in Seq(Names) /\ Last(path) \in Names
<1> DEFINE n == Len(path)
<1>1. n \in Nat \ {0} /\ n \in DOMAIN path
  OBVIOUS
<1>2. Last(path) \in Names
  BY <1>1 DEF Last
<1>3. Front(path) \in Seq(Names)
  <2>1. n - 1 \in Nat /\ \A i \in 1 .. n - 1 : i \in 1 .. n
    BY <1>1
  <2> QED
    BY <2>1 DEF Front
<1>4. <<"">> \in Seq(Names)
  <2>1. "" \in Names
    BY DEF Names
  <2> QED
    BY <2>1, OneIn
<1> QED
  BY <1>2, <1>3, <1>4 DEF LeafDir

LEMMA CreateFileGood ==
  ASSUME NEW k, Good(k), NEW o, Owns(k, o), NEW path \in Seq(Names), NEW room,
         NEW r, r = _create_file(k, o, path, room)
  PROVE  Kin(k, r.k)
<1> DEFINE dir == fs_get_abs_path(k.nodes, LeafDir(path)).node
           fd == _find_free_fd(k, o)
           kind == "fatfile"
           found == fs_create_child(k, dir, Last(path), kind, room)
           no == fs_get_abs_path(k.nodes, path).node # Null \/ ~HasLeaf(path) \/ fd = NoFd \/ dir = Null
<1>1. CASE no
  <2>1. r.k = k
    BY <1>1 DEF _create_file
  <2> QED
    BY <2>1, KinNext
<1>2. CASE ~no
  <2>1. r = WithDesc(found, o, fd)
    BY <1>2 DEF _create_file
  <2>2. fd \in 0 .. MaxFd - 1
    BY <1>2, FreeFdIs
  <2>3. LeafDir(path) \in Seq(Names) /\ Last(path) \in Names
    BY <1>2, LeafIs DEF HasLeaf
  <2>4. Base(k.nodes, k.disk, k.fds)
    BY DEF Good
  <2>5. dir \in DOMAIN k.nodes
    BY <1>2, <2>3, <2>4, PathIs DEF Reached
  <2>6. kind \in {"fatfile", "fatdir"}
    OBVIOUS
  <2> HIDE DEF dir, fd, kind
  <2>7. Made(k, found, kind)
    BY <2>3, <2>5, <2>6, CreateGood
  <2> HIDE DEF found
  <2>8. found.node # Null => Described(found.k, found.node)
    BY <2>7 DEF Made, Described, kind
  <2>9. Kin(k, found.k)
    BY <2>7, KinNext DEF Made
  <2> QED
    BY <2>1, <2>2, <2>8, <2>9, WithDescGood
<1> QED
  BY <1>1, <1>2

LEMMA IoOpenGood ==
  ASSUME NEW k, Good(k), NEW o, Owns(k, o), NEW path \in Seq(Names), NEW flags, NEW room
  PROVE  Kin(k, io_open(k, o, path, flags, room).k)
<1> DEFINE r1 == FirstRead(k, o, path, flags)
           r2 == ThenCreate(r1, o, path, flags, room)
           r3 == ThenWrite(r2, o, path, flags)
<1>1. Kin(k, r1.k)
  <2>1. r1 = _open_file(k, o, path) \/ r1.k = k
    BY DEF FirstRead
  <2> HIDE DEF r1
  <2> QED
    BY <2>1, OpenFileGood, KinNext
<1>2. Good(r1.k) /\ Owns(r1.k, o)
  BY <1>1, KinNext DEF Kin
<1>3. Kin(k, r2.k)
  <2>1. r2 = _create_file(r1.k, o, path, room) \/ r2 = r1
    BY DEF ThenCreate
  <2> HIDE DEF r1, r2
  <2> QED
    BY <1>1, <1>2, <2>1, CreateFileGood, KinNext
<1>4. Good(r2.k) /\ Owns(r2.k, o)
  BY <1>3, KinNext DEF Kin
<1>5. Kin(k, r3.k)
  <2>1. r3 = _open_file(r2.k, o, path) \/ r3 = r2
    BY DEF ThenWrite
  <2> HIDE DEF r2, r3
  <2> QED
    BY <1>3, <1>4, <2>1, OpenFileGood, KinNext
<1> QED
  BY <1>5 DEF io_open

(* A process that has done what is not expected.                           *)
LEMMA MisuseGood ==
  ASSUME NEW k, Good(k)
  PROVE  /\ Good(Misused(k)) /\ Misused(k).misuse
         /\ Misused(k).nodes = k.nodes /\ Misused(k).fds = k.fds /\ Misused(k).log = k.log
<1>1. PICK ns, ds, f, l, m : k = Kern(ns, ds, f, l, m, Up) /\ Base(ns, ds, f) /\ LogOk(ns, f, l)
  BY GoodIs
<1>2. Misused(k) = MisuseSet(k, Up)
  BY DEF Misused, MisuseSet, Up
<1>3. Misused(k) = Kern(ns, ds, f, l, Up, Up)
  BY <1>1, <1>2, MisuseSetIs
<1> QED
  BY <1>1, <1>3, GoodKern DEF Kern, Up

(* io_close.  Nobody else has the node, so that nothing refers to it.      *)
LEMMA IoCloseGood ==
  ASSUME NEW k, Good(k), NEW o \in DOMAIN k.fds, o # Kernel, NEW fd \in 0 .. MaxFd - 1,
         NEW r, r = io_close(k, o, fd)
  PROVE  r.misuse \/ Kin(k, r)
<1> DEFINE n == k.fds[o][fd].node
           d == Desc(Null)
<1>0. Owns(k, o) /\ d \in DescT /\ DescOk(k.nodes, d) /\ \A t : DescOk(t, d)
  BY DEF Owns, Desc, DescT, DescOk, Null
<1>1. CASE k.fds[o][fd] = NoDesc
  <2>1. r = k
    BY <1>1 DEF io_close
  <2> QED
    BY <2>1, KinNext
<1>2. CASE k.fds[o][fd] # NoDesc /\ n = Null
  <2>1. r = Stop(Misused(k))
    BY <1>2 DEF io_close, Live
  <2>2. Good(Misused(k)) /\ Misused(k).misuse
    BY MisuseGood
  <2>3. r.misuse = Misused(k).misuse
    <3> DEFINE q == Misused(k)
    <3>1. Good(q)
      BY <2>2
    <3> HIDE DEF q
    <3>2. PICK ns, ds, f, l, m : q = Kern(ns, ds, f, l, m, Up)
      BY <3>1, GoodIs
    <3>3. Stop(q).misuse = q.misuse
      BY <3>2 DEF Stop, Kern
    <3> QED
      BY <2>1, <3>3 DEF q
  <2> QED
    BY <2>2, <2>3
<1>3. CASE k.fds[o][fd] # NoDesc /\ n # Null
  <2>1. /\ Descs(k.nodes, k.fds) /\ k.fds \in Fds /\ k.nodes \in Seq(NodeT)
    BY DEF Good, Base
  <2>2. n \in DOMAIN k.nodes
    BY <1>3, <2>1, DescLive
  <2>3. CASE Sharing(k, o, fd, n)
    <3> DEFINE q == Misused(k)
               c == fs_close(q, n)
    <3>1. r = DescSet(c, o, fd, d)
      BY <1>3, <2>3 DEF io_close, Live, DescSet
    <3>2. Good(q) /\ q.misuse /\ q.nodes = k.nodes
      BY MisuseGood
    <3>3. c.misuse = q.misuse
      <4> HIDE DEF q
      <4>1. Good(KLOG(q)) /\ LogsOnly(q, KLOG(q))
        BY <3>2, KlogGood
      <4>2. IsFile(q, n)
        BY <2>3, <3>2 DEF Sharing, IsFile
      <4>3. c = OpenSet(KLOG(q), n, Down)
        BY <4>2 DEF fs_close, OpenSet, Down
      <4> DEFINE j == KLOG(q)
      <4>4. LogsOnly(q, j)
        BY <4>1
      <4> HIDE DEF j, c
      <4>5. j.misuse = q.misuse
        BY ONLY <4>4 DEF LogsOnly
      <4>6. PICK ns, ds, f, l, m : j = Kern(ns, ds, f, l, m, Up)
        BY <4>1, GoodIs DEF j
      <4>7. c.misuse = j.misuse
        BY <4>3, <4>6, OpenSetIs DEF Kern, j
      <4> QED
        BY ONLY <4>5, <4>7
    <3>4. r.misuse = c.misuse
      BY <3>1 DEF DescSet
    <3> QED
      BY <3>2, <3>3, <3>4
  <2>4. CASE ~Sharing(k, o, fd, n)
    <3> DEFINE c == fs_close(k, n)
    <3>1. r = DescSet(c, o, fd, d)
      BY <1>3, <2>4 DEF io_close, Live, DescSet
    <3>2. CASE ~IsFile(k, n)
      <4>1. c = k
        BY <3>2 DEF fs_close
      <4> QED
        BY <1>0, <3>1, <4>1, DescGood
    <3>3. CASE IsFile(k, n)
      <4> DEFINE j == KLOG(k)
                 a == DescSet(j, o, fd, d)
      <4>1. Good(j) /\ LogsOnly(k, j)
        BY KlogGood
      <4>2. c = OpenSet(j, n, Down)
        BY <3>3 DEF fs_close, OpenSet, Down
      <4>3. d.node = Null
        BY DEF Desc
      <4> HIDE DEF j, c, d
      <4>4. o \in DOMAIN j.fds /\ Owns(j, o) /\ n \in DOMAIN j.nodes /\ DescOk(j.nodes, d) /\ Kin(k, j)
        BY <1>0, <2>2, <4>1 DEF LogsOnly, Owns, SameShape, Kin
      <4>5. Kin(j, a) /\ a.nodes = j.nodes /\ a.fds = Assigned(j.fds, o, fd, d)
        BY <1>0, <4>1, <4>4, DescGood
      <4> HIDE DEF a
      <4>6. Unused(a.nodes, a.fds, n)
        <5> SUFFICES ASSUME NEW p \in DOMAIN a.fds, NEW i \in 0 .. MaxFd - 1, a.fds[p][i] # NoDesc
                     PROVE  a.fds[p][i].node # n
          BY DEF Unused
        <5>1. /\ p \in DOMAIN j.fds /\ a.fds[o][fd] = d
              /\ <<p, i>> # <<o, fd>> => a.fds[p][i] = j.fds[p][i]
          <6>1. j.fds \in Fds /\ DOMAIN a.fds = DOMAIN j.fds
            BY <4>1, <4>5 DEF Good, Base, Kin
          <6> QED
            BY <1>0, <4>4, <4>5, <6>1, AssignedIs
        <5>2. CASE <<p, i>> = <<o, fd>>
          BY <1>3, <4>3, <5>1, <5>2
        <5>3. CASE <<p, i>> # <<o, fd>>
          <6>1. p \in DOMAIN k.fds /\ a.fds[p][i] = j.fds[p][i]
            BY <4>1, <5>1, <5>3 DEF LogsOnly
          <6>2. /\ j.fds[p][i].node = k.fds[p][i].node
                /\ j.fds[p][i] = NoDesc <=> k.fds[p][i] = NoDesc
            BY <4>1, <6>1 DEF LogsOnly
          <6>3. Users(k, n) = {<<o, fd>>}
            BY <2>4, <3>3 DEF Sharing
          <6>4. ~Refers(k.fds[p][i], n)
            <7>1. <<p, i>> \notin Users(k, n)
              BY <5>3, <6>3
            <7> QED
              BY <6>1, <7>1 DEF Users
          <6> QED
            BY <6>1, <6>2, <6>4 DEF Refers
        <5> QED
          BY <5>2, <5>3
      <4>7. r = OpenSet(a, n, Down)
        <5>1. PICK ns, ds, f, l, m : j = Kern(ns, ds, f, l, m, Up)
          BY <4>1, GoodIs
        <5> DEFINE n1 == [ns EXCEPT ![n].open = Down]
                   f1 == [f EXCEPT ![o][fd] = d]
        <5>2. c = Kern(n1, ds, f, l, m, Up) /\ a = Kern(ns, ds, f1, l, m, Up)
          BY <4>2, <5>1, OpenSetIs, DescSetIs DEF a
        <5> HIDE DEF n1
        <5>3. r = Kern(n1, ds, f1, l, m, Up)
          BY <3>1, <5>2, DescSetIs
        <5> HIDE DEF f1
        <5>4. OpenSet(a, n, Down) = Kern(n1, ds, f1, l, m, Up)
          BY <5>2, OpenSetIs DEF n1
        <5> QED
          BY <5>3, <5>4
      <4>8. Good(a) /\ n \in DOMAIN a.nodes
        BY <4>4, <4>5 DEF Kin
      <4>9. Good(r) /\ Same(a, r)
        BY <4>6, <4>7, <4>8, ShutGood
      <4> QED
        BY <4>4, <4>5, <4>9, KinNext
    <3> QED
      BY <3>2, <3>3
  <2> QED
    BY <2>3, <2>4
<1> QED
  BY <1>1, <1>2, <1>3
(* A live descriptor, and what it refers to.                               *)
LEMMA LiveIs ==
  ASSUME NEW k, Good(k), NEW o \in DOMAIN k.fds, NEW fd \in 0 .. MaxFd - 1, Live(k, o, fd)
  PROVE  /\ k.fds[o][fd] # NoDesc /\ k.fds[o][fd].node # Null
         /\ k.fds[o][fd].node \in DOMAIN k.nodes /\ k.fds[o][fd].off \in Nat
         /\ k.nodes[k.fds[o][fd].node] \in NodeT /\ k.nodes[k.fds[o][fd].node].len \in Nat
         /\ k.nodes \in Seq(NodeT) /\ k.fds \in Fds
         /\ IsFile(k, k.fds[o][fd].node) => FileOk(k.nodes, k.fds[o][fd].node, k.fds[o][fd].off)
<1>1. /\ k.nodes \in Seq(NodeT) /\ k.fds \in Fds /\ Descs(k.nodes, k.fds)
      /\ k.fds[o][fd] # NoDesc /\ k.fds[o][fd].node # Null
  BY DEF Good, Base, Live
<1>2. /\ k.fds[o][fd].node \in DOMAIN k.nodes /\ k.fds[o][fd].off \in Nat
      /\ IsFile(k, k.fds[o][fd].node) => FileOk(k.nodes, k.fds[o][fd].node, k.fds[o][fd].off)
  BY <1>1, DescLive DEF IsFile
<1> QED
  BY <1>1, <1>2, NodeIn

(* Its offset is moved, in a file to the end at most.                      *)
Within(k, o, fd, off) ==
  IsFile(k, k.fds[o][fd].node) => off <= k.nodes[k.fds[o][fd].node].len
LEMMA MoveGood ==
  ASSUME NEW k, Good(k), NEW o \in DOMAIN k.fds, o # Kernel, NEW fd \in 0 .. MaxFd - 1,
         Live(k, o, fd), NEW off \in Nat, Within(k, o, fd, off)
  PROVE  Kin(k, OffSet(k, o, fd, off))
<1>1. PICK ns, ds, f, l, m : k = Kern(ns, ds, f, l, m, Up) /\ Base(ns, ds, f) /\ LogOk(ns, f, l)
  BY GoodIs
<1>2. k.nodes = ns /\ k.disk = ds /\ k.fds = f /\ k.log = l /\ k.misuse = m
  BY <1>1 DEF Kern
<1> DEFINE d == [node |-> f[o][fd].node, off |-> off]
           n == f[o][fd].node
<1>3. /\ n \in DOMAIN ns /\ f \in Fds
      /\ ns[n].kind = "fatfile" => FileOk(ns, n, f[o][fd].off) /\ off <= ns[n].len
  BY <1>2, LiveIs DEF IsFile, Within
<1>4. d \in DescT /\ Moved(f, o, fd, off) = Assigned(f, o, fd, d) /\ d.node = n /\ d.off = off
  BY <1>2, <1>3, MovedIs
<1> HIDE DEF d
<1>5. DescOk(ns, d)
  BY <1>3, <1>4 DEF DescOk, FileOk
<1>6. OffSet(k, o, fd, off) = Kern(ns, ds, Moved(f, o, fd, off), l, m, Up)
  BY <1>1, OffSetIs DEF Moved
<1>7. DescSet(k, o, fd, d) = Kern(ns, ds, Assigned(f, o, fd, d), l, m, Up)
  BY <1>1, DescSetIs DEF Assigned
<1>8. Owns(k, o)
  BY DEF Owns
<1> QED
  BY <1>2, <1>4, <1>5, <1>6, <1>7, <1>8, DescGood

(* A misuse is not forgotten.                                              *)
Whole(k) == k = Kern(k.nodes, k.disk, k.fds, k.log, k.misuse, k.ok)
LEMMA WholeIs ==
  ASSUME NEW ns, NEW ds, NEW f, NEW l, NEW m, NEW b, NEW k, k = Kern(ns, ds, f, l, m, b)
  PROVE  Whole(k) /\ k.misuse = m
BY DEF Whole, Kern
LEMMA GoodWhole ==
  ASSUME NEW k, Good(k)
  PROVE  Whole(k)
<1>1. PICK ns, ds, f, l, m : k = Kern(ns, ds, f, l, m, Up)
  BY GoodIs
<1> QED
  BY <1>1, WholeIs

LEMMA StopMisused ==
  ASSUME NEW k, Whole(k)
  PROVE  Stop(Misused(k)).misuse /\ Stop(k).misuse = k.misuse
BY DEF Stop, Misused, Whole, Kern

(* io_read, to the end of a file at most.                                  *)
LEMMA IoReadGood ==
  ASSUME NEW k, Good(k), NEW o \in DOMAIN k.fds, o # Kernel, NEW fd \in 0 .. MaxFd - 1,
         NEW n \in Nat, NEW r, r = io_read(k, o, fd, n)
  PROVE  r.misuse \/ Kin(k, r)
<1>1. CASE k.fds[o][fd] = NoDesc
  <2>1. r = k
    BY <1>1 DEF io_read
  <2> QED
    BY <2>1, KinNext
<1>2. CASE k.fds[o][fd] # NoDesc /\ ~Live(k, o, fd)
  <2>1. r = Stop(Misused(k))
    BY <1>2 DEF io_read
  <2> QED
    BY <2>1, StopMisused, GoodWhole
<1>3. CASE k.fds[o][fd] # NoDesc /\ Live(k, o, fd)
  <2> DEFINE d == k.fds[o][fd]
             c == Count(k, d, n)
             y == k.nodes[d.node]
  <2>1. /\ d.node \in DOMAIN k.nodes /\ d.off \in Nat /\ y \in NodeT /\ y.len \in Nat
        /\ IsFile(k, d.node) => d.off <= y.len /\ y.kind = "fatfile"
    BY <1>3, LiveIs DEF FileOk, IsFile
  <2>2. r = OffSet(k, o, fd, d.off + c)
    BY <1>3 DEF io_read, OffSet
  <2> HIDE DEF d
  <2>3. c \in Nat /\ (IsFile(k, d.node) => d.off + c <= y.len)
    <3>1. CASE y.kind = "ramfile"
      <4>1. c = IF n < y.len THEN n ELSE y.len
        BY <3>1 DEF Count, IsFile
      <4> QED
        BY <2>1, <3>1, <4>1
    <3>2. CASE y.kind # "ramfile" /\ IsFile(k, d.node) /\ y.open /\ d.off < y.len
      <4>1. c = IF d.off + n > y.len THEN y.len - d.off ELSE n
        BY <3>2 DEF Count
      <4> QED
        BY <2>1, <3>2, <4>1
    <3>3. CASE y.kind # "ramfile" /\ ~(IsFile(k, d.node) /\ y.open /\ d.off < y.len)
      <4>1. c = 0
        BY <3>3 DEF Count
      <4> QED
        BY <2>1, <3>3, <4>1
    <3> QED
      BY <3>1, <3>2, <3>3
  <2> HIDE DEF c
  <2>4. d.off + c \in Nat /\ Within(k, o, fd, d.off + c)
    BY <2>1, <2>3 DEF Within, d
  <2> QED
    BY <1>3, <2>2, <2>4, MoveGood
<1> QED
  BY <1>1, <1>2, <1>3

(* io_write of a process, to anything but the log.                         *)
LEMMA WriteMisuse ==
  ASSUME NEW k, Whole(k), k.misuse, NEW o, NEW fd, NEW units
  PROVE  io_write(k, o, fd, units).misuse
<1>1. PICK ns, ds, f, l, m, b : k = Kern(ns, ds, f, l, m, b)
  BY DEF Whole
<1>2. CASE k.fds[o][fd] = NoDesc
  BY <1>2 DEF io_write
<1>3. CASE k.fds[o][fd] # NoDesc /\ ~Live(k, o, fd)
  <2>1. io_write(k, o, fd, units) = Stop(Misused(k))
    BY <1>3 DEF io_write
  <2> QED
    BY <2>1, StopMisused
<1>4. CASE k.fds[o][fd] # NoDesc /\ Live(k, o, fd)
  <2> DEFINE d == k.fds[o][fd]
             c == fs_write(k, d.node, d.off, units)
             x == IF IsFile(k, d.node) THEN c.fds[o][fd].off + Len(units) ELSE c.fds[o][fd].off
  <2>1. io_write(k, o, fd, units) = OffSet(c, o, fd, x)
    BY <1>4 DEF io_write, OffSet
  <2>2. "misuse" \in DOMAIN c /\ c.misuse
    BY <1>1 DEF fs_write, Kern, Stop
  <2> HIDE DEF c, x
  <2> QED
    BY <2>1, <2>2 DEF OffSet
<1> QED
  BY <1>2, <1>3, <1>4

OtherNode(k, o, fd) ==
  k.log.persistence # NoFd => k.fds[o][fd].node # k.fds[Kernel][k.log.persistence].node
LEMMA IoWriteGood ==
  ASSUME NEW k, Good(k), NEW o \in DOMAIN k.fds, o # Kernel, NEW fd \in 0 .. MaxFd - 1,
         NEW units \in Seq(Int), Live(k, o, fd) => OtherNode(k, o, fd),
         NEW r, r = io_write(k, o, fd, units)
  PROVE  r.misuse \/ Kin(k, r)
<1>1. CASE k.fds[o][fd] = NoDesc
  <2>1. r = k
    BY <1>1 DEF io_write
  <2> QED
    BY <2>1, KinNext
<1>2. CASE k.fds[o][fd] # NoDesc /\ ~Live(k, o, fd)
  <2>1. r = Stop(Misused(k))
    BY <1>2 DEF io_write
  <2> QED
    BY <2>1, StopMisused, GoodWhole
<1>3. CASE k.fds[o][fd] # NoDesc /\ Live(k, o, fd) /\ ~IsFile(k, k.fds[o][fd].node)
  <2> DEFINE d == k.fds[o][fd]
  <2>1. fs_write(k, d.node, d.off, units) = k
    BY <1>3 DEF fs_write
  <2>2. r = OffSet(k, o, fd, d.off)
    BY <1>3, <2>1 DEF io_write, OffSet
  <2>3. d.off \in Nat
    BY <1>3, LiveIs
  <2> HIDE DEF d
  <2>4. Within(k, o, fd, d.off)
    BY <1>3 DEF Within
  <2> QED
    BY <1>3, <2>2, <2>3, <2>4, MoveGood
<1>4. CASE k.fds[o][fd] # NoDesc /\ Live(k, o, fd) /\ IsFile(k, k.fds[o][fd].node)
  <2>1. PICK ns, ds, f, l, m : k = Kern(ns, ds, f, l, m, Up) /\ Base(ns, ds, f) /\ LogOk(ns, f, l)
    BY GoodIs
  <2>2. k.nodes = ns /\ k.disk = ds /\ k.fds = f /\ k.log = l /\ k.misuse = m
    BY <2>1 DEF Kern
  <2> DEFINE n == f[o][fd].node
             off == f[o][fd].off
             x == Longer(ns[n], off, units)
             n1 == [ns EXCEPT ![n] = x]
             d1 == Resized(ds, Key(ns, n), ns[n].len, x.len)
             f1 == Moved(f, o, fd, off + Len(units))
  <2> HIDE DEF n, off, x, n1, d1, f1
  <2>3. /\ n \in DOMAIN ns /\ f[o][fd] # NoDesc /\ n # Null /\ ns \in Seq(NodeT) /\ f \in Fds
        /\ ns[n].kind = "fatfile" /\ ns[n].open /\ off \in Nat
    BY <1>4, <2>2, LiveIs DEF n, off, IsFile, FileOk
  <2>4. Writes(ns, ds, f, o, fd, units, n, off, x, n1, d1, f1)
    BY <2>3 DEF Writes, n, off, x, n1, d1, f1
  <2>5. r = Kern(n1, d1, f1, l, m, Up)
    BY <2>1, <2>3, <2>4, WriteParts
  <2>6. o \in DOMAIN f
    BY <2>2
  <2>7. SameShape(ns, n1) /\ Base(n1, d1, f1)
    BY <2>1, <2>4, <2>6, WriteBase
  <2>8. LogStays(ns, f, l, n1, f1)
    <3>1. DOMAIN f1 = DOMAIN f /\ f1[Kernel] = f[Kernel]
      BY DEF f1, Moved
    <3>2. \A i \in DOMAIN ns : i # n => n1[i] = ns[i]
      BY DEF n1
    <3>3. l.persistence # NoFd => n1[f[Kernel][l.persistence].node] = ns[f[Kernel][l.persistence].node]
      <4> SUFFICES ASSUME l.persistence # NoFd
                   PROVE  n1[f[Kernel][l.persistence].node] = ns[f[Kernel][l.persistence].node]
        OBVIOUS
      <4>1. f[Kernel][l.persistence].node # n
        BY <1>4, <2>2 DEF OtherNode, n
      <4>2. LogAt(ns, f[Kernel][l.persistence])
        BY <2>1 DEF LogOk, LogFile
      <4>3. f[Kernel][l.persistence].node \in DOMAIN ns
        BY <2>3, <4>2 DEF LogAt, LogDir
      <4> QED
        BY <3>2, <4>1, <4>3
    <3>4. Len(n1) = Len(ns) /\ Len(ns) \in Nat
      BY <2>3, <2>7 DEF SameShape
    <3> QED
      BY <3>1, <3>3, <3>4 DEF LogStays
  <2>9. LogOk(n1, f1, l)
    BY <2>1, <2>8, LogElsewhere
  <2>10. Good(r)
    BY <2>5, <2>7, <2>9, GoodKern
  <2>11. r.nodes = n1 /\ r.disk = d1 /\ r.fds = f1 /\ r.log = l /\ r.misuse = m
    BY <2>5 DEF Kern
  <2>12. DOMAIN f1 = DOMAIN f
    BY DEF f1, Moved
  <2> QED
    BY <2>2, <2>10, <2>11, <2>12 DEF Kin
<1> QED
  BY <1>1, <1>2, <1>3, <1>4
-----------------------------------------------------------------------------
(* The list without the place p.                                           *)
DropAt(s, p, t) ==
  /\ Len(t) = Len(s) - 1
  /\ \A i \in 1 .. Len(t) : t[i] = IF i < p THEN s[i] ELSE s[i + 1]
LEMMA RemoveAtIs ==
  ASSUME NEW s \in Seq(Nat), NEW p \in 1 .. Len(s)
  PROVE  RemoveAt(s, p) \in Seq(Nat) /\ DropAt(s, p, RemoveAt(s, p))
<1> DEFINE n == Len(s)
           a == SubSeq(s, 1, p - 1)
           b == SubSeq(s, p + 1, n)
<1>1. n \in Nat /\ p \in Nat \ {0} /\ p <= n /\ \A i \in 1 .. n : s[i] \in Nat
  OBVIOUS
<1>2. a \in Seq(Nat) /\ Len(a) = p - 1 /\ \A i \in 1 .. p - 1 : a[i] = s[i]
  BY <1>1
<1>3. b \in Seq(Nat) /\ Len(b) = n - p /\ \A i \in 1 .. n - p : b[i] = s[i + p]
  BY <1>1
<1> HIDE DEF a, b
<1> DEFINE t == a \o b
<1>4. t \in Seq(Nat) /\ Len(t) = n - 1
  <2>0. a \in Seq(Nat) /\ b \in Seq(Nat)
    BY <1>2, <1>3
  <2>1. t \in Seq(Nat) /\ Len(t) = Len(a) + Len(b)
    BY <2>0
  <2> HIDE DEF t, n
  <2>2. (p - 1) + (n - p) = n - 1
    BY <1>1
  <2> QED
    BY <1>2, <1>3, <2>1, <2>2
<1>5. \A i \in 1 .. n - 1 : t[i] = IF i < p THEN a[i] ELSE b[i - (p - 1)]
  <2>1. a \in Seq(Nat) /\ b \in Seq(Nat) /\ Len(a) = p - 1 /\ Len(b) = n - p
    BY <1>2, <1>3
  <2>2. \A i \in 1 .. Len(a) + Len(b) : t[i] = IF i <= Len(a) THEN a[i] ELSE b[i - Len(a)]
    BY ONLY <2>1, ConcatProperties
  <2> HIDE DEF t, n
  <2>3. (p - 1) + (n - p) = n - 1 /\ \A i \in 1 .. n - 1 : i <= p - 1 <=> i < p
    BY <1>1
  <2> QED
    BY <2>1, <2>2, <2>3
<1>6. \A i \in 1 .. n - 1 : i < p => i \in 1 .. p - 1
  BY <1>1
<1>7. \A i \in 1 .. n - 1 : ~(i < p) => i - (p - 1) \in 1 .. n - p /\ (i - (p - 1)) + p = i + 1
  BY <1>1
<1> HIDE DEF t
<1>8. \A i \in 1 .. n - 1 : t[i] = IF i < p THEN s[i] ELSE s[i + 1]
  BY <1>2, <1>3, <1>5, <1>6, <1>7
<1>9. RemoveAt(s, p) = t
  BY DEF RemoveAt, t, a, b
<1> QED
  BY <1>4, <1>8, <1>9 DEF DropAt

LEMMA RemoveFirstIs ==
  ASSUME NEW s \in Seq(Nat), NEW e
  PROVE  /\ RemoveFirst(s, e) \in Seq(Nat)
         /\ RemoveFirst(s, e) = s \/ \E p \in 1 .. Len(s) : s[p] = e /\ DropAt(s, p, RemoveFirst(s, e))
         /\ (\E i \in 1 .. Len(s) : s[i] = e) =>
              \E p \in 1 .. Len(s) : s[p] = e /\ DropAt(s, p, RemoveFirst(s, e))
<1>1. CASE ~\E i \in 1 .. Len(s) : s[i] = e
  BY <1>1 DEF RemoveFirst
<1>2. CASE \E i \in 1 .. Len(s) : s[i] = e
  <2> DEFINE I == {i \in 1 .. Len(s) : s[i] = e}
             p == Min(I)
  <2>1. I \in SUBSET Nat /\ I # {}
    BY <1>2
  <2>2. p \in I
    <3> HIDE DEF I
    <3> QED
      BY <2>1, MinOf
  <2>3. RemoveFirst(s, e) = RemoveAt(s, p)
    <3>1. SelectInSeq(s, LAMBDA v : v = e) = p
      BY <2>1 DEF SelectInSeq
    <3> HIDE DEF p, I
    <3> QED
      BY <1>2, <3>1 DEF RemoveFirst
  <2>4. p \in 1 .. Len(s) /\ s[p] = e
    BY <2>2
  <2> HIDE DEF p
  <2>5. RemoveAt(s, p) \in Seq(Nat) /\ DropAt(s, p, RemoveAt(s, p))
    BY <2>4, RemoveAtIs
  <2> QED
    BY <2>3, <2>4, <2>5
<1> QED
  BY <1>1, <1>2

(* What is left in it, when no two places hold the same.                   *)
Left(s, e, t) ==
  /\ t \in Seq(Nat)
  /\ \A i \in DOMAIN t : t[i] # e /\ \E j \in DOMAIN s : s[j] = t[i]
  /\ \A j \in DOMAIN s : s[j] # e => \E i \in DOMAIN t : t[i] = s[j]
  /\ \A i, j \in DOMAIN t : t[i] = t[j] => i = j
LEMMA LeftIs ==
  ASSUME NEW s \in Seq(Nat), NEW e, \E i \in 1 .. Len(s) : s[i] = e,
         \A i, j \in DOMAIN s : s[i] = s[j] => i = j
  PROVE  Left(s, e, RemoveFirst(s, e))
<1> DEFINE t == RemoveFirst(s, e)
           n == Len(s)
<1>1. t \in Seq(Nat) /\ \E p \in 1 .. n : s[p] = e /\ DropAt(s, p, t)
  BY RemoveFirstIs
<1> HIDE DEF t
<1>2. PICK p \in 1 .. n : s[p] = e /\ DropAt(s, p, t)
  BY <1>1
<1>3. n \in Nat /\ DOMAIN s = 1 .. n /\ DOMAIN t = 1 .. n - 1
  BY <1>1, <1>2 DEF DropAt
<1> DEFINE q(i) == IF i < p THEN i ELSE i + 1
<1>4. \A i \in 1 .. n - 1 : q(i) \in 1 .. n /\ q(i) # p
  BY <1>3
<1>5. \A i \in 1 .. n - 1 : t[i] = s[q(i)]
  BY <1>2, <1>3 DEF DropAt
<1>6. \A i, j \in 1 .. n - 1 : q(i) = q(j) => i = j
  BY <1>3
<1>7. \A j \in 1 .. n : j # p => \E i \in 1 .. n - 1 : q(i) = j
  <2> SUFFICES ASSUME NEW j \in 1 .. n, j # p PROVE \E i \in 1 .. n - 1 : q(i) = j
    OBVIOUS
  <2>1. CASE j < p
    <3>1. j \in 1 .. n - 1 /\ q(j) = j
      BY <1>3, <2>1
    <3> QED
      BY <3>1
  <2>2. CASE ~(j < p)
    <3>1. j - 1 \in 1 .. n - 1 /\ q(j - 1) = j
      BY <1>3, <2>2
    <3> QED
      BY <3>1
  <2> QED
    BY <2>1, <2>2
<1> HIDE DEF q
<1>8. \A i \in 1 .. n - 1 : t[i] # e
  BY <1>2, <1>3, <1>4, <1>5
<1>9. \A j \in 1 .. n : s[j] # e => \E i \in 1 .. n - 1 : t[i] = s[j]
  BY <1>2, <1>5, <1>7
<1>10. \A i, j \in 1 .. n - 1 : t[i] = t[j] => i = j
  BY <1>3, <1>4, <1>5, <1>6
<1>11. Left(s, e, t)
  BY <1>1, <1>3, <1>4, <1>5, <1>8, <1>9, <1>10 DEF Left
<1> QED
  BY <1>11 DEF t
(* A node that nothing refers to is taken out of its directory, and its    *)
(* entry from the disk.                                                    *)
Unlinks(ns, ds, n, n1, d1) ==
  /\ n1 = [ns EXCEPT ![ns[n].dir].kids = RemoveFirst(ns[ns[n].dir].kids, n)]
  /\ d1 = [x \in DOMAIN ds \ {Key(ns, n)} |-> ds[x]]
LEMMA UnlinkedBase ==
  ASSUME NEW ns, NEW ds, NEW f, NEW l, Base(ns, ds, f), LogOk(ns, f, l), NEW n \in DOMAIN ns,
         n > LogDir, Attached(ns, n), Unused(ns, f, n), NEW n1, NEW d1, Unlinks(ns, ds, n, n1, d1)
  PROVE  Base(n1, d1, f) /\ LogOk(n1, f, l)
<1> DEFINE dir == ns[n].dir
           y == ns[dir]
           e == Key(ns, n)
           kk == RemoveFirst(y.kids, n)
           x == [y EXCEPT !.kids = kk]
<1>1. /\ ns \in Seq(NodeT) /\ ds \in Disks /\ f \in Fds
      /\ Fixed(ns) /\ Tree(ns, ds) /\ Lengths(ns, ds) /\ Descs(ns, f)
      /\ ns[LogDir].dir = Fat /\ Attached(ns, LogDir) /\ LogDir \in DOMAIN ns
      /\ Len(ns) \in Nat /\ Len(ns) >= LogDir /\ DOMAIN ns = 1 .. Len(ns)
  BY DEF Base, Fixed, LogDir
<1>2. dir \in DOMAIN ns /\ y.kind = "fatdir" /\ \E i \in DOMAIN y.kids : y.kids[i] = n
  BY DEF Attached
<1>3. y \in NodeT /\ y.kids \in Seq(Nat) /\ DOMAIN y.kids = 1 .. Len(y.kids) /\ KidsOk(ns, ds, dir)
  <2>1. y \in NodeT /\ y.kids \in Seq(Nat)
    BY <1>1, <1>2, NodeIn
  <2> QED
    BY <1>1, <1>2, <2>1 DEF Tree
<1>4. Left(y.kids, n, kk)
  <2>1. \A i, j \in DOMAIN y.kids : y.kids[i] = y.kids[j] => i = j
    BY <1>3 DEF KidsOk
  <2> DEFINE s == y.kids
  <2> HIDE DEF y, s
  <2>2. s \in Seq(Nat) /\ (\E i \in 1 .. Len(s) : s[i] = n) /\ \A i, j \in DOMAIN s : s[i] = s[j] => i = j
    BY <1>2, <1>3, <2>1 DEF s
  <2>3. Left(s, n, RemoveFirst(s, n))
    BY <2>2, LeftIs
  <2> QED
    BY <2>3 DEF s
<1>5. /\ kk \in Seq(Nat)
      /\ \A i \in DOMAIN kk : kk[i] # n /\ \E j \in DOMAIN y.kids : y.kids[j] = kk[i]
      /\ \A j \in DOMAIN y.kids : y.kids[j] # n => \E i \in DOMAIN kk : kk[i] = y.kids[j]
      /\ \A i, j \in DOMAIN kk : kk[i] = kk[j] => i = j
  BY <1>4 DEF Left
<1>6. n1 = [ns EXCEPT ![dir] = x] /\ d1 = [z \in DOMAIN ds \ {e} |-> ds[z]]
  BY DEF Unlinks
<1> HIDE DEF kk
<1>7. /\ x \in NodeT /\ x.kind = y.kind /\ x.name = y.name /\ x.dir = y.dir /\ x.len = y.len
      /\ x.open = y.open /\ x.text = y.text /\ x.kids = kk
  BY <1>3, <1>5 DEF NodeT
<1> HIDE DEF x, y, dir, e
<1>8. /\ n1 \in Seq(NodeT) /\ DOMAIN n1 = DOMAIN ns /\ Len(n1) = Len(ns) /\ n1[dir] = x
      /\ \A m \in DOMAIN ns : m # dir => n1[m] = ns[m]
  BY <1>1, <1>2, <1>6, <1>7
<1>9. \A m \in DOMAIN ns : /\ n1[m].kind = ns[m].kind /\ n1[m].name = ns[m].name
                           /\ n1[m].dir = ns[m].dir /\ n1[m].open = ns[m].open
                           /\ n1[m].len = ns[m].len /\ Key(n1, m) = Key(ns, m)
  BY <1>7, <1>8 DEF Key, y
<1>10. \A d \in DOMAIN ns : ns[d].kind = "fatdir" =>
         \A i \in DOMAIN ns[d].kids : IsKid(ns, ds, d, ns[d].kids[i])
  BY <1>1, KidIs
<1>11. \A m \in DOMAIN ns : Attached(ns, m) /\ m # n => Key(ns, m) # e /\ Key(ns, m) \in DOMAIN d1
  <2> SUFFICES ASSUME NEW m \in DOMAIN ns, Attached(ns, m), m # n
               PROVE  Key(ns, m) # e /\ Key(ns, m) \in DOMAIN d1
    OBVIOUS
  <2>1. Key(ns, m) \in DOMAIN ds /\ Key(ns, m) # e
    BY <1>1, KeyIsOwn DEF e
  <2> QED
    BY <1>6, <2>1
<1>12. d1 \in Disks /\ \A z \in DOMAIN d1 : d1[z] = ds[z]
  <2>1. DOMAIN ds \subseteq Nat \X Names /\ \A z \in DOMAIN ds : ds[z] \in Nat
    BY <1>1, DiskFun
  <2>2. d1 = [z \in DOMAIN d1 |-> d1[z]] /\ DOMAIN d1 \subseteq DOMAIN ds /\ \A z \in DOMAIN d1 : d1[z] = ds[z]
    BY <1>6
  <2>3. \A z \in DOMAIN d1 : d1[z] \in Nat
    BY <2>1, <2>2
  <2> QED
    BY <2>1, <2>2, <2>3, DiskFun
<1>13. Fixed(n1)
  <2>1. 1 \in DOMAIN ns /\ 2 \in DOMAIN ns /\ 3 \in DOMAIN ns /\ 4 \in DOMAIN ns /\ 5 \in DOMAIN ns /\ 6 \in DOMAIN ns
    BY <1>1 DEF LogDir
  <2>2. dir # 1 /\ dir # 2
    BY <1>1, <1>2 DEF Fixed, Root, Ram, y
  <2>3. n1[1] = ns[1] /\ n1[2] = ns[2]
    BY <1>8, <2>1, <2>2
  <2>4. \A m \in LogDir .. Len(ns) : m \in DOMAIN ns
    BY <1>1 DEF LogDir
  <2>5. \A m \in LogDir .. Len(n1) : n1[m].kind \in {"fatfile", "fatdir"}
    BY <1>1, <1>8, <1>9, <2>4 DEF Fixed
  <2> QED
    BY <1>1, <1>8, <1>9, <2>1, <2>3, <2>5 DEF Fixed, Root, Ram, Dev, Con, Fat, Program
<1>14. Tree(n1, d1)
  <2> SUFFICES ASSUME NEW d \in DOMAIN ns, ns[d].kind = "fatdir" PROVE KidsOk(n1, d1, d)
    BY <1>8, <1>9 DEF Tree
  <2>1. KidsOk(ns, ds, d)
    BY <1>1 DEF Tree
  <2>0. ASSUME NEW i \in DOMAIN ns[d].kids, ns[d].kids[i] # n
        PROVE  /\ ChildOk(n1, d1, d, ns[d].kids[i])
               /\ n1[ns[d].kids[i]].name = ns[ns[d].kids[i]].name
    <3> DEFINE c == ns[d].kids[i]
    <3>1. IsKid(ns, ds, d, c)
      BY <1>10
    <3> HIDE DEF c
    <3>2. c \in DOMAIN ns /\ c \in LogDir .. Len(ns) /\ ns[c].dir = d /\ Attached(ns, c) /\ c # n
      BY <2>0, <3>1 DEF IsKid, c
    <3>3. Key(ns, c) \in DOMAIN d1 /\ Key(ns, c) = <<d, ns[c].name>>
      BY <1>11, <3>2 DEF Key
    <3>4. ChildOk(n1, d1, d, c) /\ n1[c].name = ns[c].name
      BY <1>8, <1>9, <3>2, <3>3 DEF ChildOk
    <3> QED
      BY <3>4 DEF c
  <2>2. CASE d # dir
    <3>1. n1[d].kids = ns[d].kids
      BY <1>8, <2>2
    <3>2. \A i \in DOMAIN ns[d].kids : ns[d].kids[i] # n
      BY <1>10, <2>2 DEF IsKid, dir
    <3>3. \A i, j \in DOMAIN ns[d].kids : ns[ns[d].kids[i]].name = ns[ns[d].kids[j]].name => i = j
      BY <2>1 DEF KidsOk
    <3> QED
      BY <2>0, <3>1, <3>2, <3>3 DEF KidsOk
  <2>3. CASE d = dir
    <3>1. n1[d].kids = kk /\ y = ns[d]
      BY <1>7, <1>8, <2>3 DEF y
    <3>2. \A i, j \in DOMAIN y.kids : ns[y.kids[i]].name = ns[y.kids[j]].name => i = j
      BY <2>1, <3>1 DEF KidsOk
    <3>3. \A i \in DOMAIN kk : ChildOk(n1, d1, d, kk[i]) /\ n1[kk[i]].name = ns[kk[i]].name
      BY <1>5, <2>0, <3>1
    <3>4. ASSUME NEW i \in DOMAIN kk, NEW j \in DOMAIN kk, n1[kk[i]].name = n1[kk[j]].name PROVE i = j
      <4>1. ns[kk[i]].name = ns[kk[j]].name
        BY <3>3, <3>4
      <4>2. PICK a \in DOMAIN y.kids : y.kids[a] = kk[i]
        BY <1>5
      <4>3. PICK b \in DOMAIN y.kids : y.kids[b] = kk[j]
        BY <1>5
      <4>4. a = b
        BY <3>2, <4>1, <4>2, <4>3
      <4> QED
        BY <1>5, <4>2, <4>3, <4>4
    <3> QED
      BY <3>1, <3>3, <3>4 DEF KidsOk
  <2> QED
    BY <2>2, <2>3
<1>15. \A m \in DOMAIN ns : Attached(n1, m) <=> (Attached(ns, m) /\ m # n)
  <2> SUFFICES ASSUME NEW m \in DOMAIN ns PROVE Attached(n1, m) <=> (Attached(ns, m) /\ m # n)
    OBVIOUS
  <2>1. n1[m].dir = ns[m].dir
    BY <1>9
  <2>2. CASE ns[m].dir = dir
    <3>1. /\ Attached(n1, m) <=> \E i \in DOMAIN kk : kk[i] = m
          /\ Attached(ns, m) <=> \E i \in DOMAIN y.kids : y.kids[i] = m
      BY <1>2, <1>7, <1>8, <1>9, <2>1, <2>2 DEF Attached, y
    <3>2. ASSUME NEW i \in DOMAIN kk, kk[i] = m PROVE m # n /\ \E j \in DOMAIN y.kids : y.kids[j] = m
      BY <1>5, <3>2
    <3>3. ASSUME NEW i \in DOMAIN y.kids, y.kids[i] = m, m # n PROVE \E j \in DOMAIN kk : kk[j] = m
      BY <1>5, <3>3
    <3> QED
      BY <3>1, <3>2, <3>3
  <2>3. CASE ns[m].dir # dir
    BY <1>2, <1>8, <1>9, <2>1, <2>3 DEF Attached, dir
  <2> QED
    BY <2>2, <2>3
<1>16. n1[LogDir].dir = Fat /\ Attached(n1, LogDir)
  BY <1>1, <1>9, <1>15 DEF LogDir
<1>17. Lengths(n1, d1)
  <2> SUFFICES ASSUME NEW m \in DOMAIN ns, n1[m].kind = "fatfile", n1[m].open, Attached(n1, m)
               PROVE  n1[m].len = d1[Key(n1, m)]
    BY <1>8 DEF Lengths
  <2>1. ns[m].len = ds[Key(ns, m)]
    BY <1>1, <1>9, <1>15 DEF Lengths
  <2> QED
    BY <1>9, <1>11, <1>12, <1>15, <2>1
<1>18. Descs(n1, f)
  <2> SUFFICES ASSUME NEW o \in DOMAIN f, NEW fd \in 0 .. MaxFd - 1 PROVE DescOk(n1, f[o][fd])
    BY <1>1 DEF Descs
  <2>1. DescOk(ns, f[o][fd]) /\ (f[o][fd] # NoDesc => f[o][fd].node # n)
    BY <1>1 DEF Descs, Unused
  <2> QED
    BY <1>8, <1>9, <1>15, <2>1 DEF DescOk, FileOk
<1>19. LogOk(n1, f, l)
  <2>1. l.persistence # NoFd => n1[f[Kernel][l.persistence].node] = ns[f[Kernel][l.persistence].node]
    <3> SUFFICES ASSUME l.persistence # NoFd
                 PROVE  n1[f[Kernel][l.persistence].node] = ns[f[Kernel][l.persistence].node]
      OBVIOUS
    <3>1. LogAt(ns, f[Kernel][l.persistence])
      BY DEF LogOk, LogFile
    <3>2. f[Kernel][l.persistence].node \in DOMAIN ns /\ f[Kernel][l.persistence].node # dir
      BY <1>1, <1>2, <3>1 DEF LogAt, LogDir, y
    <3> QED
      BY <1>8, <3>2
  <2>2. Len(n1) >= Len(ns) /\ Len(n1) \in Nat
    BY <1>1, <1>8
  <2>3. LogStays(ns, f, l, n1, f)
    BY <1>1, <2>1, <2>2 DEF LogStays
  <2> QED
    BY <2>3, LogElsewhere
<1> QED
  BY <1>1, <1>8, <1>12, <1>13, <1>14, <1>16, <1>17, <1>18, <1>19 DEF Base
LEMMA UnlinkedGood ==
  ASSUME NEW k, Good(k), NEW n \in DOMAIN k.nodes, n > LogDir, Attached(k.nodes, n),
         Unused(k.nodes, k.fds, n), NEW r, r = _fs_remove(k, k.nodes[n].dir, n)
  PROVE  Kin(k, r)
<1>1. PICK ns, ds, f, l, m : k = Kern(ns, ds, f, l, m, Up) /\ Base(ns, ds, f) /\ LogOk(ns, f, l)
  BY GoodIs
<1>2. k.nodes = ns /\ k.disk = ds /\ k.fds = f /\ k.log = l /\ k.misuse = m
  BY <1>1 DEF Kern
<1>3. Key(ns, n) \in DOMAIN ds /\ ns[ns[n].dir].kind = "fatdir"
  <2>1. ns \in Seq(NodeT) /\ Tree(ns, ds)
    BY <1>1 DEF Base
  <2> QED
    BY <1>2, <2>1, KeyIsOwn DEF Attached
<1> DEFINE e == Key(ns, n)
           dir == ns[n].dir
           kk == RemoveFirst(ns[dir].kids, n)
           d1 == [x \in DOMAIN ds \ {e} |-> ds[x]]
           n1 == [ns EXCEPT ![dir].kids = kk]
           k1 == DiskSet(k, d1)
<1>4. r = KidsSet(k1, dir, kk)
  BY <1>2, <1>3 DEF _fs_remove, KidsSet, DiskSet, Key
<1> HIDE DEF kk, d1, dir
<1>5. k1 = Kern(ns, d1, f, l, m, Up)
  BY <1>1, DiskSetIs
<1> HIDE DEF k1
<1>6. r = Kern(n1, d1, f, l, m, Up)
  BY <1>4, <1>5, KidsSetIs
<1>7. Unlinks(ns, ds, n, n1, d1)
  BY DEF Unlinks, kk, d1, dir
<1> HIDE DEF n1
<1>8. Base(n1, d1, f) /\ LogOk(n1, f, l)
  BY <1>1, <1>2, <1>7, UnlinkedBase
<1>9. Good(r)
  BY <1>6, <1>8, GoodKern
<1>10. r.nodes = n1 /\ r.disk = d1 /\ r.fds = f /\ r.log = l /\ r.misuse = m
  BY <1>6 DEF Kern
<1> QED
  BY <1>2, <1>9, <1>10 DEF Kin

LEMMA RemoveMisuse ==
  ASSUME NEW k, Good(k), k.misuse, NEW parent, NEW n
  PROVE  _fs_remove(k, parent, n).misuse
<1>1. PICK ns, ds, f, l, m : k = Kern(ns, ds, f, l, m, Up)
  BY GoodIs
<1>2. Good(KLOG(k)) /\ LogsOnly(k, KLOG(k))
  BY KlogGood
<1>3. KLOG(k).misuse
  BY <1>2 DEF LogsOnly
<1>4. Stop(k).misuse
  BY <1>1 DEF Stop, Kern
<1>5. \A x, y : KidsSet(DiskSet(k, x), parent, y).misuse
  BY <1>1 DEF KidsSet, DiskSet, Kern
<1> DEFINE e == <<parent, k.nodes[n].name>>
           x == [z \in DOMAIN k.disk \ {e} |-> k.disk[z]]
           y == RemoveFirst(k.nodes[parent].kids, n)
           r == _fs_remove(k, parent, n)
<1>6. r = Stop(k) \/ r = KLOG(k) \/ r = KidsSet(DiskSet(k, x), parent, y)
  BY DEF _fs_remove, KidsSet, DiskSet
<1> QED
  BY <1>3, <1>4, <1>5, <1>6

(* The directory of the log is not removed, nor that of the file system:   *)
(* they are not empty.                                                     *)
LEMMA LogListed ==
  ASSUME NEW k, Good(k), k.log.persistence # NoFd
  PROVE  Listed(k.nodes, Fat) # <<>> /\ Listed(k.nodes, LogDir) # <<>>
<1> DEFINE ns == k.nodes
           d == k.fds[Kernel][k.log.persistence]
<1>1. /\ ns \in Seq(NodeT) /\ Fixed(ns) /\ Descs(ns, k.fds) /\ k.fds \in Fds /\ Kernel \in DOMAIN k.fds
      /\ ns[LogDir].dir = Fat /\ Attached(ns, LogDir) /\ LogOk(ns, k.fds, k.log)
      /\ Fat \in DOMAIN ns /\ LogDir \in DOMAIN ns
  BY DEF Good, Base, Descs, Fixed, LogDir, Fat
<1>2. k.log.persistence \in 0 .. MaxFd - 1 /\ LogAt(ns, d)
  BY <1>1, LogFd DEF LogOk, LogFile
<1> HIDE DEF d
<1>3. Attached(ns, d.node) /\ ns[d.node].dir = LogDir
  <2>1. d # NoDesc /\ d.node # Null /\ ns[d.node].kind = "fatfile"
    BY <1>2 DEF LogAt, LogDir, Null
  <2>2. FileOk(ns, d.node, d.off)
    BY <1>1, <1>2, <2>1, DescLive DEF d
  <2> QED
    BY <1>2, <2>2 DEF FileOk, LogAt
<1>4. (\E i \in DOMAIN ns[Fat].kids : TRUE) /\ \E i \in DOMAIN ns[LogDir].kids : TRUE
  BY <1>1, <1>3 DEF Attached
<1>5. ns[Fat].kind = "fatdir" /\ ns[LogDir].kind = "fatdir"
  BY <1>1 DEF Fixed
<1>6. ns[Fat].kids \in Seq(Nat) /\ ns[LogDir].kids \in Seq(Nat)
  BY <1>1, NodeIn
<1>7. ns[Fat].kids # <<>> /\ ns[LogDir].kids # <<>>
  BY <1>4, <1>6
<1> QED
  BY <1>5, <1>7 DEF Listed, IsDir, Dirs

LEMMA IoRemoveGood ==
  ASSUME NEW k, Good(k), k.log.persistence # NoFd, NEW at, Reached(k.nodes, at.node, at.parent),
         NEW r, r = io_remove(k, at)
  PROVE  r.misuse \/ Kin(k, r)
<1> DEFINE n == at.node
           no == Listed(k.nodes, n) # <<>> \/ k.nodes[n].kind \notin {"fatfile", "fatdir"}
<1>1. CASE no
  <2>1. r = k
    BY <1>1 DEF io_remove
  <2> QED
    BY <2>1, KinNext
<1>2. CASE ~no /\ Users(k, n) # {}
  <2> DEFINE q == Misused(k)
             j == KLOG(q)
  <2>1. r = _fs_remove(j, at.parent, n)
    BY <1>2 DEF io_remove
  <2>2. Good(q) /\ q.misuse
    BY MisuseGood
  <2> HIDE DEF q
  <2>3. Good(j) /\ LogsOnly(q, j)
    BY <2>2, KlogGood
  <2> HIDE DEF j
  <2>4. j.misuse
    BY <2>2, <2>3 DEF LogsOnly
  <2> QED
    BY <2>1, <2>3, <2>4, RemoveMisuse
<1>3. CASE ~no /\ Users(k, n) = {}
  <2> DEFINE j == KLOG(k)
  <2>1. r = _fs_remove(j, at.parent, n)
    BY <1>3 DEF io_remove
  <2>2. Good(j) /\ LogsOnly(k, j)
    BY KlogGood
  <2> HIDE DEF j
  <2>3. /\ k.nodes \in Seq(NodeT) /\ Fixed(k.nodes) /\ n \in DOMAIN k.nodes
        /\ n >= LogDir => Attached(k.nodes, n) /\ at.parent = k.nodes[n].dir
    BY DEF Good, Base, Reached
  <2>4. n > LogDir
    <3>1. n # Fat /\ n # LogDir
      BY <1>3, LogListed
    <3>2. n \notin {1, 2, 3, 4, 6}
      BY <1>3, <2>3 DEF Fixed, Root, Ram, Dev, Con, Program
    <3>3. n \in Nat \ {0}
      BY <2>3
    <3> QED
      BY <3>1, <3>2, <3>3 DEF Fat, LogDir
  <2>5. Attached(k.nodes, n) /\ at.parent = k.nodes[n].dir
    BY <2>3, <2>4 DEF LogDir
  <2>6. n \in DOMAIN j.nodes /\ Attached(j.nodes, n) /\ at.parent = j.nodes[n].dir
    BY <2>2, <2>3, <2>5, AttachedShape DEF LogsOnly, SameShape
  <2>7. Unused(k.nodes, k.fds, n)
    <3> SUFFICES ASSUME NEW o \in DOMAIN k.fds, NEW fd \in 0 .. MaxFd - 1, k.fds[o][fd] # NoDesc,
                        k.fds[o][fd].node = n
                 PROVE  FALSE
      BY DEF Unused
    <3>1. <<o, fd>> \in Users(k, n)
      BY DEF Users, Refers
    <3> QED
      BY <1>3, <3>1
  <2>8. Unused(j.nodes, j.fds, n)
    BY <2>2, <2>7 DEF LogsOnly, Unused
  <2>9. Kin(j, r)
    BY <2>1, <2>2, <2>4, <2>6, <2>8, UnlinkedGood
  <2>10. Kin(k, j)
    BY <2>2, LogsAlike, KinNext DEF Alike
  <2> QED
    BY <2>9, <2>10, KinNext
<1> QED
  BY <1>1, <1>2, <1>3
-----------------------------------------------------------------------------
(* Processes.  A line is logged and a file closed, after a misuse too.     *)
LEMMA KlogMisuse ==
  ASSUME NEW k, Whole(k), k.misuse
  PROVE  KLOG(k).misuse
<1>1. PICK ns, ds, f, l, m, b : k = Kern(ns, ds, f, l, m, b)
  BY DEF Whole
<1> DEFINE s == l.said + 1
           l0 == WithSaid(l, s)
           q == SaidSet(k, s)
<1>2. q = Kern(ns, ds, f, l0, m, b)
  BY <1>1, SaidSetIs
<1>3. KLOG(k) = IF k.ok THEN Said(q) ELSE k
  BY <1>1 DEF KLOG, SaidSet, Kern
<1> HIDE DEF q, l0
<1>4. Whole(q) /\ q.misuse
  <2>1. Whole(q)
    BY <1>2, WholeIs
  <2>2. q.misuse = m /\ k.misuse = m
    BY <1>1, <1>2 DEF Kern
  <2> QED
    BY <2>1, <2>2, Zenon
<1>5. Said(q).misuse
  <2>1. Line(q, q.log.said).misuse
    BY <1>4, WriteMisuse DEF Line
  <2>2. \A x : CacheSet(q, x).misuse /\ LostSet(q, x).misuse
    <3>1. \A x : CacheSet(q, x).misuse = m /\ LostSet(q, x).misuse = m /\ q.misuse = m
      BY <1>2, CacheSetIs, LostSetIs, WholeIs
    <3> QED
      BY <1>4, <3>1, Zenon
  <2>3. \/ Said(q) = Line(q, q.log.said)
        \/ Said(q) = CacheSet(q, Append(q.log.cache, q.log.said))
        \/ Said(q) = LostSet(q, q.log.lost \cup {q.log.said})
    BY DEF Said, CacheSet, LostSet
  <2> QED
    BY <2>1, <2>2, <2>3
<1> QED
  BY <1>3, <1>5

Past(k, r) == Whole(r) /\ (r.misuse \/ Kin(k, r))

LEMMA ReadImageGood ==
  ASSUME NEW k, Good(k), NEW n \in DOMAIN k.nodes, NEW opened, Good(opened.k), Alike(k, opened.k),
         opened.node \in {Null, n}, NEW r,
         r = ReadImage(opened, IsFile(k, n) /\ Users(k, n) # {})
  PROVE  Past(k, r.k)
<1> DEFINE j == opened.k
           shared == IsFile(k, n) /\ Users(k, n) # {}
<1>0. Kin(k, j)
  BY KinNext DEF Alike
<1>1. CASE opened.node = Null
  <2>1. r = opened
    BY <1>1 DEF ReadImage
  <2> QED
    BY <1>0, <2>1, GoodWhole DEF Past
<1>2. CASE opened.node # Null /\ shared
  <2> DEFINE q == Misused(j)
             c == KLOG(q)
  <2>1. r.k = fs_close(q, n)
    BY <1>2 DEF ReadImage, With
  <2>2. Good(q) /\ q.misuse
    BY MisuseGood
  <2> HIDE DEF q
  <2>3. Good(c) /\ LogsOnly(q, c)
    BY <2>2, KlogGood
  <2>4. r.k = c \/ r.k = OpenSet(c, n, Down) \/ r.k = q
    BY <2>1 DEF fs_close, OpenSet, Down
  <2> HIDE DEF c
  <2>5. PICK ns, ds, f, l, m : c = Kern(ns, ds, f, l, m, Up)
    BY <2>3, GoodIs
  <2>6. c.misuse = q.misuse /\ c.misuse = m
    BY <2>3, <2>5, WholeIs DEF LogsOnly
  <2>9. OpenSet(c, n, Down) = Kern([ns EXCEPT ![n].open = Down], ds, f, l, m, Up)
    BY <2>5, OpenSetIs
  <2>10. OpenSet(c, n, Down).misuse = m
    BY <2>9 DEF Kern
  <2>7. Whole(OpenSet(c, n, Down))
    BY <2>9, WholeIs
  <2>8. c.misuse /\ OpenSet(c, n, Down).misuse
    BY <2>2, <2>6, <2>10, Zenon
  <2> QED
    BY <2>2, <2>3, <2>4, <2>7, <2>8, GoodWhole DEF Past
<1>3. CASE opened.node # Null /\ ~shared
  <2>1. r.k = fs_close(j, n)
    BY <1>3 DEF ReadImage, With
  <2>2. n \in DOMAIN j.nodes /\ (IsFile(j, n) <=> IsFile(k, n))
    BY DEF Alike, SameShape, IsFile
  <2>3. CASE ~IsFile(k, n)
    <3>1. r.k = j
      BY <2>1, <2>2, <2>3 DEF fs_close
    <3> QED
      BY <1>0, <3>1, GoodWhole DEF Past
  <2>4. CASE IsFile(k, n)
    <3>1. Unused(j.nodes, j.fds, n)
      <4> SUFFICES ASSUME NEW o \in DOMAIN j.fds, NEW fd \in 0 .. MaxFd - 1, j.fds[o][fd] # NoDesc,
                          j.fds[o][fd].node = n
                   PROVE  FALSE
        BY DEF Unused
      <4>1. o \in DOMAIN k.fds /\ k.fds[o][fd] # NoDesc /\ k.fds[o][fd].node = n
        BY DEF Alike, Same
      <4>2. <<o, fd>> \in Users(k, n)
        BY <4>1 DEF Users, Refers
      <4> QED
        BY <1>3, <2>4, <4>2
    <3> HIDE DEF j
    <3>2. Good(j)
      BY DEF j
    <3>3. Good(r.k) /\ Same(j, r.k)
      BY <2>1, <2>2, <3>1, <3>2, FsCloseGood
    <3> QED
      BY <1>0, <3>3, KinNext, GoodWhole DEF Past
  <2> QED
    BY <2>3, <2>4
<1> QED
  BY <1>1, <1>2, <1>3

LEMMA ImageGood ==
  ASSUME Good(Now), NEW path \in Seq(Names), NEW r, r = Image(path)
  PROVE  Past(Now, r.k)
<1> DEFINE at == fs_get_abs_path(nodes, path)
           opened == fs_open(Now, at.parent, at.node)
<1>1. Now.nodes = nodes
  BY DEF Now
<1>2. CASE at.node = Null \/ at.parent = Null \/ nodes[at.node].len = 0
  <2>1. r.k = Now
    BY <1>2 DEF Image, With
  <2> QED
    BY <2>1, KinNext, GoodWhole DEF Past
<1>3. CASE ~(at.node = Null \/ at.parent = Null \/ nodes[at.node].len = 0)
  <2>1. r = ReadImage(opened, IsFile(Now, at.node) /\ Users(Now, at.node) # {})
    BY <1>3 DEF Image
  <2>2. Base(nodes, Now.disk, Now.fds)
    BY <1>1 DEF Good
  <2>3. Reached(nodes, at.node, at.parent)
    BY <1>3, <2>2, PathIs
  <2> HIDE DEF at
  <2>4. IsFile(Now, at.node) => at.parent = nodes[at.node].dir
    <3>1. at.node \in 1 .. Len(nodes) /\ Len(nodes) \in Nat
      BY <2>2, <2>3 DEF Base, Reached
    <3>2. nodes[at.node].kind = "fatfile" => at.node \notin 1 .. 6
      BY <2>2 DEF Base, Fixed, Root, Ram, Dev, Con, Fat, Program
    <3> QED
      BY <1>1, <2>3, <3>1, <3>2 DEF Reached, LogDir, IsFile
  <2>5. at.node \in DOMAIN Now.nodes
    BY <1>1, <2>3 DEF Reached
  <2> HIDE DEF opened
  <2>6. Good(opened.k) /\ Alike(Now, opened.k) /\ opened.node \in {Null, at.node}
    <3> DEFINE k == Now
    <3>1. Good(k) /\ at.node \in DOMAIN k.nodes /\ (IsFile(k, at.node) => at.parent = k.nodes[at.node].dir)
      BY <1>1, <2>4, <2>5
    <3>2. opened = fs_open(k, at.parent, at.node)
      BY DEF opened
    <3> HIDE DEF k
    <3>3. Good(opened.k) /\ Alike(k, opened.k) /\ opened.node \in {Null, at.node}
      BY <3>1, <3>2, FsOpenGood
    <3> QED
      BY <3>3 DEF k
  <2> QED
    BY <2>1, <2>5, <2>6, ReadImageGood
<1> QED
  BY <1>2, <1>3
(* The descriptors of a new process are there or taken over.               *)
LEMMA ProcStartIs ==
  ASSUME NEW k, Good(k), NEW o \in DOMAIN k.fds, NEW given \in Given, NEW fd \in 0 .. MaxFd - 1
  PROVE  io_proc_start(k, o, given)[fd] \in DescT /\ DescOk(k.nodes, io_proc_start(k, o, given)[fd])
<1> DEFINE d == io_proc_start(k, o, given)[fd]
           at == k.fds[o][given[fd]]
<1>1. d = IF fd >= Std THEN NoDesc
          ELSE IF given[fd] = NoFd THEN Desc(Con)
          ELSE IF at = NoDesc THEN NoDesc ELSE Desc(at.node)
  BY DEF io_proc_start
<1>2. /\ k.nodes \in Seq(NodeT) /\ k.fds \in Fds /\ Descs(k.nodes, k.fds) /\ Fixed(k.nodes)
      /\ Con \in DOMAIN k.nodes
  BY DEF Good, Base, Fixed, LogDir, Con
<1>3. NoDesc \in DescT /\ DescOk(k.nodes, NoDesc)
  BY DEF NoDesc, DescT, DescOk
<1>4. Desc(Con) \in DescT /\ DescOk(k.nodes, Desc(Con))
  <2>1. Described(k, Con)
    BY <1>2 DEF Described, IsFile, Fixed
  <2> QED
    BY <2>1, DescribedOk
<1>5. ASSUME ~(fd >= Std), given[fd] # NoFd, at # NoDesc
      PROVE  Desc(at.node) \in DescT /\ DescOk(k.nodes, Desc(at.node))
  <2>1. given[fd] \in 0 .. MaxFd - 1
    <3>1. MaxFd \in Nat /\ Std \in Nat /\ NoFd = MaxFd
      BY IoAssumption DEF NoFd
    <3>2. fd \in 0 .. Std - 1
      BY <1>5, <3>1
    <3>3. given[fd] \in 0 .. MaxFd
      BY <3>1, <3>2 DEF Given
    <3> QED
      BY <1>5, <3>1, <3>3
  <2>2. CASE at.node = Null
    BY <2>2 DEF Desc, DescT, DescOk, Null
  <2>3. CASE at.node # Null
    <3> DEFINE g == given[fd]
    <3>1. Live(k, o, g) /\ g \in 0 .. MaxFd - 1
      BY <1>5, <2>1, <2>3 DEF Live
    <3> HIDE DEF g
    <3> DEFINE n == k.fds[o][g].node
    <3>2. n \in DOMAIN k.nodes /\ (IsFile(k, n) => FileOk(k.nodes, n, k.fds[o][g].off))
      BY <3>1, LiveIs
    <3>3. k.nodes[n].len \in Nat
      BY <3>1, LiveIs
    <3> HIDE DEF n
    <3>4. Described(k, n)
      BY <3>2, <3>3 DEF Described, FileOk
    <3>5. Desc(n) \in DescT /\ DescOk(k.nodes, Desc(n))
      BY <3>4, DescribedOk
    <3> QED
      BY <3>5 DEF n, g
  <2> QED
    BY <2>2, <2>3
<1> QED
  BY <1>1, <1>3, <1>4, <1>5

AddFds(f, p, e) == [x \in DOMAIN f \cup {p} |-> IF x = p THEN e ELSE f[x]]
LEMMA ProcAdded ==
  ASSUME NEW k, Good(k), NEW o \in DOMAIN k.fds, NEW given \in Given, NEW p \in Nat \ {0}
  PROVE  /\ Good(FdsSet(k, AddFds(k.fds, p, io_proc_start(k, o, given))))
         /\ FdsSet(k, AddFds(k.fds, p, io_proc_start(k, o, given))).log = k.log
         /\ FdsSet(k, AddFds(k.fds, p, io_proc_start(k, o, given))).misuse = k.misuse
<1>1. PICK ns, ds, f, l, m : k = Kern(ns, ds, f, l, m, Up) /\ Base(ns, ds, f) /\ LogOk(ns, f, l)
  BY GoodIs
<1>2. k.nodes = ns /\ k.disk = ds /\ k.fds = f /\ k.log = l /\ k.misuse = m
  BY <1>1 DEF Kern
<1> DEFINE e == io_proc_start(k, o, given)
           f1 == AddFds(f, p, e)
           r == FdsSet(k, f1)
<1>3. \A fd \in 0 .. MaxFd - 1 : e[fd] \in DescT /\ DescOk(ns, e[fd])
  BY <1>2, ProcStartIs
<1>4. e \in FdT
  <2>1. e = [fd \in 0 .. MaxFd - 1 |-> e[fd]]
    BY DEF io_proc_start
  <2> HIDE DEF e
  <2> QED
    BY <1>3, <2>1 DEF FdT
<1> HIDE DEF e
<1>5. f \in Fds /\ Descs(ns, f) /\ Kernel \in DOMAIN f /\ p # Kernel /\ Len(ns) \in Nat
  BY <1>1 DEF Base, Descs, Kernel
<1>6. /\ DOMAIN f1 = DOMAIN f \cup {p} /\ f1 = [x \in DOMAIN f1 |-> f1[x]] /\ f1[p] = e
      /\ \A x \in DOMAIN f : x # p => f1[x] = f[x]
  BY DEF AddFds
<1> HIDE DEF f1
<1>7. f1 \in Fds
  <2>1. DOMAIN f \subseteq Nat /\ \A x \in DOMAIN f : f[x] \in FdT
    BY <1>5, FdsFun
  <2>2. DOMAIN f1 \subseteq Nat /\ \A x \in DOMAIN f1 : f1[x] \in FdT
    BY <1>4, <1>6, <2>1
  <2> QED
    BY <1>6, <2>2, FdsFun
<1>8. Descs(ns, f1)
  <2> SUFFICES ASSUME NEW x \in DOMAIN f1, NEW fd \in 0 .. MaxFd - 1 PROVE DescOk(ns, f1[x][fd])
    BY <1>5, <1>6 DEF Descs
  <2>1. CASE x = p
    BY <1>3, <1>6, <2>1
  <2>2. CASE x # p
    BY <1>5, <1>6, <2>2 DEF Descs
  <2> QED
    BY <2>1, <2>2
<1>9. LogOk(ns, f1, l)
  <2>1. LogStays(ns, f, l, ns, f1)
    BY <1>5, <1>6 DEF LogStays
  <2> QED
    BY <1>1, <2>1, LogElsewhere
<1>10. r = Kern(ns, ds, f1, l, m, Up)
  BY <1>1, FdsSetIs
<1>11. Good(r)
  <2>1. Base(ns, ds, f1)
    BY <1>1, <1>7, <1>8 DEF Base
  <2> HIDE DEF r
  <2> QED
    BY <1>9, <1>10, <2>1, GoodKern
<1>12. r.log = l /\ r.misuse = m
  BY <1>10 DEF Kern
<1> QED
  BY <1>2, <1>11, <1>12 DEF f1, e

(* The hash table.                                                         *)
LEMMA BucketIs ==
  ASSUME NEW key \in Nat
  PROVE  key % Buckets \in 0 .. Buckets - 1
<1>1. Buckets \in Nat \ {0}
  BY IoAssumption
<1> QED
  BY <1>1

LEMMA NotKnown ==
  ASSUME NEW n \in Nat, NEW t, Known(t, n)
  PROVE  ~hash_tbl_has(t, n)
<1> DEFINE b == n % Buckets
<1>1. b \in 0 .. Buckets - 1
  BY BucketIs
<1>2. hash_tbl_has(t, n) <=> \E i \in DOMAIN t[b] : t[b][i] = n
  BY DEF hash_tbl_has, Range
<1> HIDE DEF b
<1> QED
  BY <1>1, <1>2 DEF Known

LEMMA AddedKnown ==
  ASSUME NEW n \in Nat, NEW t, Known(t, n)
  PROVE  Known(hash_tbl_add(t, n), n + 1)
<1> DEFINE b == n % Buckets
           t1 == hash_tbl_add(t, n)
           s == <<n>> \o t[b]
<1>1. b \in 0 .. Buckets - 1
  BY BucketIs
<1>2. t1 = [t EXCEPT ![b] = s]
  BY DEF hash_tbl_add
<1>3. t[b] \in Seq(Nat) /\ \A i \in DOMAIN t[b] : t[b][i] < n
  BY <1>1 DEF Known
<1>4. s \in Seq(Nat) /\ \A i \in DOMAIN s : s[i] = n \/ \E j \in DOMAIN t[b] : s[i] = t[b][j]
  <2> DEFINE q == t[b]
  <2>1. q \in Seq(Nat) /\ Len(q) \in Nat /\ DOMAIN q = 1 .. Len(q)
    BY <1>3
  <2> HIDE DEF q, b
  <2> DEFINE p == <<n>> \o q
  <2>2. p \in Seq(Nat) /\ DOMAIN p = 1 .. Len(q) + 1 /\ p[1] = n
    BY <2>1
  <2>3. \A i \in 1 .. Len(q) : p[i + 1] = q[i]
    BY <2>1
  <2> HIDE DEF p
  <2>4. \A i \in 1 .. Len(q) + 1 : i = 1 \/ (i - 1 \in 1 .. Len(q) /\ (i - 1) + 1 = i)
    BY <2>1
  <2>5. \A i \in DOMAIN p : p[i] = n \/ \E j \in DOMAIN q : p[i] = q[j]
    <3> SUFFICES ASSUME NEW i \in DOMAIN p, i # 1 PROVE \E j \in DOMAIN q : p[i] = q[j]
      BY <2>2
    <3>1. i - 1 \in 1 .. Len(q) /\ (i - 1) + 1 = i
      BY <2>2, <2>4
    <3>2. p[i] = q[i - 1]
      BY <2>3, <3>1
    <3> QED
      BY <2>1, <3>1, <3>2
  <2> QED
    BY <2>2, <2>5 DEF p, q
<1> HIDE DEF b, s, t1
<1>5. \A i \in DOMAIN s : s[i] < n + 1
  <2> SUFFICES ASSUME NEW i \in DOMAIN s PROVE s[i] < n + 1
    OBVIOUS
  <2>1. CASE s[i] = n
    BY <2>1
  <2>2. CASE \E j \in DOMAIN t[b] : s[i] = t[b][j]
    <3>1. s[i] < n /\ s[i] \in Nat
      BY <1>3, <1>4, <2>2
    <3> QED
      BY <3>1
  <2> QED
    BY <1>4, <2>1, <2>2
<1>6. t1 \in [0 .. Buckets - 1 -> Seq(Nat)]
  BY <1>1, <1>2, <1>4 DEF Known
<1>7. ASSUME NEW c \in 0 .. Buckets - 1, NEW i \in DOMAIN t1[c] PROVE t1[c][i] < n + 1
  <2>1. CASE c = b
    BY <1>1, <1>2, <1>5, <2>1 DEF Known
  <2>2. CASE c # b
    <3>1. t1[c] = t[c] /\ t[c] \in Seq(Nat)
      BY <1>1, <1>2, <2>2 DEF Known
    <3>2. t[c][i] < n /\ t[c][i] \in Nat
      BY <1>7, <3>1 DEF Known
    <3> QED
      BY <3>1, <3>2
  <2> QED
    BY <2>1, <2>2
<1>8. Known(t1, n + 1)
  BY <1>6, <1>7 DEF Known
<1> QED
  BY <1>8 DEF t1

LEMMA DeletedKnown ==
  ASSUME NEW n \in Nat, NEW t, Known(t, n), NEW key \in Nat
  PROVE  Known(hash_tbl_delete(t, key), n)
<1> DEFINE b == key % Buckets
           t1 == hash_tbl_delete(t, key)
           s == RemoveFirst(t[b], key)
<1>1. b \in 0 .. Buckets - 1
  BY BucketIs
<1>2. t1 = [t EXCEPT ![b] = s]
  BY DEF hash_tbl_delete
<1>3. t[b] \in Seq(Nat) /\ \A i \in DOMAIN t[b] : t[b][i] < n
  BY <1>1 DEF Known
<1>4. s \in Seq(Nat) /\ \A i \in DOMAIN s : \E j \in DOMAIN t[b] : s[i] = t[b][j]
  <2> DEFINE q == t[b]
  <2>1. q \in Seq(Nat) /\ Len(q) \in Nat /\ DOMAIN q = 1 .. Len(q)
    BY <1>3
  <2> HIDE DEF q, b
  <2> DEFINE p == RemoveFirst(q, key)
  <2>2. p \in Seq(Nat) /\ (p = q \/ \E a \in 1 .. Len(q) : q[a] = key /\ DropAt(q, a, p))
    BY <2>1, RemoveFirstIs
  <2> HIDE DEF p
  <2>3. CASE p = q
    BY <2>1, <2>2, <2>3 DEF p, q
  <2>4. CASE \E a \in 1 .. Len(q) : q[a] = key /\ DropAt(q, a, p)
    <3>1. PICK a \in 1 .. Len(q) : DropAt(q, a, p)
      BY <2>4
    <3>2. Len(p) = Len(q) - 1 /\ \A i \in 1 .. Len(p) : p[i] = IF i < a THEN q[i] ELSE q[i + 1]
      BY <3>1 DEF DropAt
    <3>3. \A i \in 1 .. Len(p) : i \in 1 .. Len(q) /\ i + 1 \in 1 .. Len(q)
      BY <2>1, <3>2
    <3>4. \A i \in 1 .. Len(p) : \E j \in DOMAIN q : p[i] = q[j]
      BY <2>1, <3>2, <3>3
    <3>5. DOMAIN p = 1 .. Len(p)
      BY <2>2
    <3> QED
      BY <2>2, <3>4, <3>5 DEF p, q
  <2> QED
    BY <2>2, <2>3, <2>4
<1> HIDE DEF b, s, t1
<1>5. t1 \in [0 .. Buckets - 1 -> Seq(Nat)]
  BY <1>1, <1>2, <1>4 DEF Known
<1>6. ASSUME NEW c \in 0 .. Buckets - 1, NEW i \in DOMAIN t1[c] PROVE t1[c][i] < n
  <2>1. CASE c = b
    BY <1>1, <1>2, <1>3, <1>4, <1>6, <2>1 DEF Known
  <2>2. CASE c # b
    BY <1>1, <1>2, <1>6, <2>2 DEF Known
  <2> QED
    BY <2>1, <2>2
<1>7. Known(t1, n)
  BY <1>5, <1>6 DEF Known
<1> QED
  BY <1>7 DEF t1
(* A process that has ended leaves no descriptors.                         *)
LessFds(f, p) == [x \in DOMAIN f \ {p} |-> f[x]]
LEMMA ProcEnded ==
  ASSUME NEW k, Good(k), NEW p, p # Kernel
  PROVE  Good(FdsSet(k, LessFds(k.fds, p)))
<1>1. PICK ns, ds, f, l, m : k = Kern(ns, ds, f, l, m, Up) /\ Base(ns, ds, f) /\ LogOk(ns, f, l)
  BY GoodIs
<1>2. k.fds = f
  BY <1>1 DEF Kern
<1> DEFINE f1 == LessFds(f, p)
           r == FdsSet(k, f1)
<1>3. f \in Fds /\ Descs(ns, f) /\ Kernel \in DOMAIN f /\ Len(ns) \in Nat
  BY <1>1 DEF Base, Descs
<1>4. /\ DOMAIN f1 = DOMAIN f \ {p} /\ f1 = [x \in DOMAIN f1 |-> f1[x]]
      /\ \A x \in DOMAIN f1 : f1[x] = f[x]
  BY DEF LessFds
<1> HIDE DEF f1
<1>5. f1 \in Fds
  <2>1. DOMAIN f \subseteq Nat /\ \A x \in DOMAIN f : f[x] \in FdT
    BY <1>3, FdsFun
  <2>2. DOMAIN f1 \subseteq Nat /\ \A x \in DOMAIN f1 : f1[x] \in FdT
    BY <1>4, <2>1
  <2> QED
    BY <1>4, <2>2, FdsFun
<1>6. Descs(ns, f1)
  BY <1>3, <1>4 DEF Descs
<1>7. LogOk(ns, f1, l)
  <2>1. LogStays(ns, f, l, ns, f1)
    BY <1>3, <1>4 DEF LogStays
  <2> QED
    BY <1>1, <2>1, LogElsewhere
<1>8. r = Kern(ns, ds, f1, l, m, Up)
  BY <1>1, FdsSetIs
<1>9. Base(ns, ds, f1)
  BY <1>1, <1>5, <1>6 DEF Base
<1> HIDE DEF r
<1>10. Good(r)
  BY <1>7, <1>8, <1>9, GoodKern
<1> QED
  BY <1>2, <1>10 DEF r, f1
-----------------------------------------------------------------------------
(* Steps: what a call leaves becomes the state.                            *)
LEMMA PutKeeps ==
  ASSUME NEW r, Put(r), r.misuse \/ (Good(r) /\ r.log.persistence # NoFd), Pids'
  PROVE  IInv'
<1>1. /\ nodes' = r.nodes /\ disk' = r.disk /\ fds' = r.fds /\ log' = r.log
      /\ misuse' = r.misuse /\ halted' = ~r.ok
  BY DEF Put
<1>2. CASE r.misuse
  BY <1>1, <1>2, Zenon DEF IInv
<1>3. CASE Good(r) /\ r.log.persistence # NoFd
  <2>1. r = Kern(nodes', disk', fds', log', misuse', Up)
    BY <1>1, <1>3 DEF Good
  <2>2. r.ok = TRUE /\ Now' = r
    BY <2>1 DEF Kern, Now, Up
  <2>3. Good(Now') /\ log'.persistence # NoFd /\ ~halted'
    BY <1>1, <1>3, <2>2
  <2> QED
    BY <2>3 DEF IInv, Unopened
<1> QED
  BY <1>2, <1>3

LEMMA DoneKeeps ==
  ASSUME NEW r, Done(r), IInv, ~misuse, log.persistence # NoFd, r.misuse \/ Kin(Now, r)
  PROVE  IInv'
<1>1. Pids'
  BY DEF Done, IInv, Pids
<1>2. Kin(Now, r) => Good(r) /\ r.log.persistence # NoFd
  BY DEF Kin, Now
<1> QED
  BY <1>1, <1>2, PutKeeps DEF Done

(* What a call starts from.                                                *)
LEMMA CallsIs ==
  ASSUME IInv, NEW o, Calls(o)
  PROVE  /\ Good(Now) /\ Pids /\ ~misuse /\ log.persistence # NoFd
         /\ o \in DOMAIN Now.fds /\ o # Kernel /\ Owns(Now, o)
         /\ Now.nodes = nodes /\ Now.fds = fds /\ Now.log = log
<1>1. ~misuse /\ log.persistence # NoFd /\ o \in DOMAIN fds /\ o # Kernel
  BY DEF Calls, Running
<1>2. Now.nodes = nodes /\ Now.fds = fds /\ Now.log = log
  BY DEF Now
<1> QED
  BY <1>1, <1>2 DEF IInv, Owns

(* Any sequence of strings, and any size.                                  *)
LEMMA SeqWithin ==
  ASSUME NEW S, NEW T, S \subseteq T, NEW s \in Seq(S)
  PROVE  s \in Seq(T)
OBVIOUS

LEMMA StringsIn == STRING \subseteq Names
  BY Zenon DEF Names

LEMMA PathIn ==
  ASSUME NEW path \in Seq(STRING)
  PROVE  path \in Seq(Names)
<1> DEFINE S == STRING
<1>1. S \subseteq Names /\ path \in Seq(S)
  BY StringsIn
<1> HIDE DEF S
<1> QED
  BY <1>1, SeqWithin

LEMMA SizesIn == Sizes \subseteq Nat
  BY IoAssumption

LEMMA PathsIn == \A path \in Paths \cup Programs : path \in Seq(Names)
  BY PathIn, IoAssumption

LEMMA OpenKeeps ==
  ASSUME IInv, NEW o, Open(o)
  PROVE  IInv'
<1>1. Calls(o)
  BY DEF Open
<1>2. PICK path \in Paths, room \in BOOLEAN,
           flags \in {{"read"}, {"write"}, {"create"}, {"read", "write", "create"}} :
        Done(io_open(Now, o, path, flags, room).k)
  BY DEF Open
<1> DEFINE r == io_open(Now, o, path, flags, room).k
<1>3. Kin(Now, r)
  BY <1>1, CallsIs, PathsIn, IoOpenGood
<1> HIDE DEF r
<1> QED
  BY <1>1, <1>2, <1>3, CallsIs, DoneKeeps DEF r

LEMMA CloseKeeps ==
  ASSUME IInv, NEW o, Close(o)
  PROVE  IInv'
<1>1. Calls(o)
  BY DEF Close
<1>2. PICK fd \in 0 .. MaxFd - 1 : Done(io_close(Now, o, fd))
  BY DEF Close
<1> DEFINE r == io_close(Now, o, fd)
<1>3. r.misuse \/ Kin(Now, r)
  BY <1>1, CallsIs, IoCloseGood
<1> HIDE DEF r
<1> QED
  BY <1>1, <1>2, <1>3, CallsIs, DoneKeeps DEF r

LEMMA ReadKeeps ==
  ASSUME IInv, NEW o, Read(o)
  PROVE  IInv'
<1>1. Calls(o)
  BY DEF Read
<1>2. PICK fd \in 0 .. MaxFd - 1, n \in Sizes : Done(io_read(Now, o, fd, n))
  BY DEF Read
<1> DEFINE r == io_read(Now, o, fd, n)
<1>3. n \in Nat
  BY IoAssumption
<1>4. r.misuse \/ Kin(Now, r)
  BY <1>1, <1>3, CallsIs, IoReadGood
<1> HIDE DEF r
<1> QED
  BY <1>1, <1>2, <1>4, CallsIs, DoneKeeps DEF r

LEMMA WriteKeeps ==
  ASSUME IInv, NEW o, Write(o)
  PROVE  IInv'
<1>1. Calls(o)
  BY DEF Write
<1>2. PICK fd \in 0 .. MaxFd - 1, n \in Sizes :
        Done(io_write(IF Live(Now, o, fd) /\ IsLog(fds[o][fd].node) THEN Misused(Now) ELSE Now,
                      o, fd, [i \in 1 .. n |-> Byte]))
  BY DEF Write
<1> DEFINE units == [i \in 1 .. n |-> Byte]
           bad == Live(Now, o, fd) /\ IsLog(fds[o][fd].node)
           k == IF bad THEN Misused(Now) ELSE Now
           r == io_write(k, o, fd, units)
<1>3. units \in Seq(Int)
  <2>1. n \in Nat /\ Byte \in Int
    BY SizesIn DEF Byte
  <2> QED
    BY <2>1
<1> HIDE DEF units
<1>4. CASE bad
  <2>1. Good(Misused(Now)) /\ Misused(Now).misuse
    BY <1>1, CallsIs, MisuseGood
  <2>2. r = io_write(Misused(Now), o, fd, units)
    BY <1>4
  <2> HIDE DEF r
  <2>3. r.misuse
    BY <2>1, <2>2, GoodWhole, WriteMisuse
  <2> QED
    BY <1>1, <1>2, <2>3, CallsIs, DoneKeeps DEF r, units
<1>5. CASE ~bad
  <2>1. r = io_write(Now, o, fd, units)
    BY <1>5
  <2>2. Live(Now, o, fd) => OtherNode(Now, o, fd)
    BY <1>1, <1>5, CallsIs DEF OtherNode, IsLog
  <2> HIDE DEF r
  <2>3. r.misuse \/ Kin(Now, r)
    BY <1>1, <1>3, <2>1, <2>2, CallsIs, IoWriteGood
  <2> QED
    BY <1>1, <1>2, <2>3, CallsIs, DoneKeeps DEF r, units
<1> QED
  BY <1>4, <1>5

LEMMA SeekKeeps ==
  ASSUME IInv, NEW o, Seek(o)
  PROVE  IInv'
<1>1. Calls(o)
  BY DEF Seek
<1>2. PICK fd \in 0 .. MaxFd - 1, n \in Sizes \cup {0} :
        LET len == nodes[fds[o][fd].node].len
        IN  /\ Live(Now, o, fd)
            /\ Done([Now EXCEPT !.fds[o][fd].off = IF n > len THEN len ELSE n])
  BY DEF Seek
<1> DEFINE len == nodes[fds[o][fd].node].len
           off == IF n > len THEN len ELSE n
           r == OffSet(Now, o, fd, off)
<1>3. Live(Now, o, fd) /\ Done(r)
  BY <1>2 DEF OffSet
<1>4. n \in Nat
  BY SizesIn
<1>5. len \in Nat
  BY <1>1, <1>3, CallsIs, LiveIs
<1>6. off \in Nat /\ off <= len
  BY <1>4, <1>5
<1> HIDE DEF off
<1>7. Within(Now, o, fd, off)
  BY <1>1, <1>6, CallsIs DEF Within
<1>8. Kin(Now, r)
  BY <1>1, <1>3, <1>6, <1>7, CallsIs, MoveGood
<1> HIDE DEF r
<1> QED
  BY <1>1, <1>3, <1>8, CallsIs, DoneKeeps
LEMMA MkDirKeeps ==
  ASSUME IInv, NEW o, MkDir(o)
  PROVE  IInv'
<1>1. Calls(o)
  BY DEF MkDir
<1>2. PICK path \in Paths, room \in BOOLEAN :
        LET dir == fs_get_abs_path(nodes, LeafDir(path)).node
        IN  /\ HasLeaf(path) /\ dir # Null
            /\ Done(fs_create_child(Now, dir, Last(path), "fatdir", room).k)
  BY DEF MkDir
<1> DEFINE at == fs_get_abs_path(nodes, LeafDir(path))
           dir == at.node
           c == fs_create_child(Now, dir, Last(path), "fatdir", room)
           r == c.k
<1>3. HasLeaf(path) /\ dir # Null /\ Done(r)
  BY <1>2
<1>4. path \in Seq(Names) /\ path # <<>>
  BY <1>3, PathsIn DEF HasLeaf
<1>5. LeafDir(path) \in Seq(Names) /\ Last(path) \in Names
  BY <1>4, LeafIs
<1>6. Good(Now) /\ Now.nodes = nodes
  BY <1>1, CallsIs
<1>7. Base(nodes, Now.disk, Now.fds)
  BY <1>6 DEF Good
<1>8. dir \in DOMAIN Now.nodes
  <2>1. at.node = Null \/ Reached(nodes, at.node, at.parent)
    BY <1>5, <1>7, PathIs
  <2> QED
    BY <1>3, <1>6, <2>1 DEF Reached
<1> HIDE DEF dir
<1>9. Good(r) /\ Same(Now, r)
  <2> HIDE DEF c
  <2>1. c = fs_create_child(Now, dir, Last(path), "fatdir", room)
    BY DEF c
  <2>2. Made(Now, c, "fatdir")
    BY <1>5, <1>6, <1>8, <2>1, CreateGood
  <2> QED
    BY <2>2 DEF Made
<1> HIDE DEF r
<1>10. Kin(Now, r)
  BY <1>9, KinNext
<1> QED
  BY <1>1, <1>3, <1>10, CallsIs, DoneKeeps

LEMMA DeleteKeeps ==
  ASSUME IInv, NEW o, Delete(o)
  PROVE  IInv'
<1>1. Calls(o)
  BY DEF Delete
<1>2. PICK path \in Paths :
        LET at == fs_get_abs_path(nodes, path)
        IN  IF at.node = Null
            THEN Done(Misused(Now)) \/ Done(Stop(Misused(Now)))
            ELSE Done(io_remove(Now, at))
  BY DEF Delete
<1> DEFINE at == fs_get_abs_path(nodes, path)
<1>3. CASE at.node = Null
  <2>1. Misused(Now).misuse /\ Stop(Misused(Now)).misuse
    BY <1>1, CallsIs, MisuseGood, GoodWhole, StopMisused
  <2>2. PICK r \in {Misused(Now), Stop(Misused(Now))} : Done(r)
    BY <1>2, <1>3
  <2>3. r.misuse
    BY <2>1
  <2> QED
    BY <1>1, <2>2, <2>3, CallsIs, DoneKeeps
<1>4. CASE at.node # Null
  <2> DEFINE r == io_remove(Now, at)
  <2>1. Good(Now) /\ Now.nodes = nodes /\ Now.log.persistence # NoFd
    BY <1>1, CallsIs
  <2>2. Base(nodes, Now.disk, Now.fds)
    BY <2>1 DEF Good
  <2>3. Reached(Now.nodes, at.node, at.parent)
    BY <1>4, <2>1, <2>2, PathIs, PathsIn
  <2>4. Done(r)
    BY <1>2, <1>4
  <2> HIDE DEF at
  <2>5. r.misuse \/ Kin(Now, r)
    BY <2>1, <2>3, IoRemoveGood
  <2> HIDE DEF r
  <2> QED
    BY <1>1, <2>4, <2>5, CallsIs, DoneKeeps
<1> QED
  BY <1>3, <1>4

(* What a step leaves alone.                                               *)
LEMMA StreamsKeep ==
  ASSUME IInv, log.persistence # NoFd,
         UNCHANGED <<nodes, disk, table, fds, log, pids, misuse, halted>>
  PROVE  IInv'
<1>1. Now' = Now
  BY DEF Now
<1>2. Pids' <=> Pids
  BY DEF Pids
<1> QED
  BY <1>1, <1>2 DEF IInv, Unopened

LEMMA ExitKeeps ==
  ASSUME IInv, NEW o, Exit(o)
  PROVE  IInv'
<1>1. Calls(o) /\ table' = hash_tbl_delete(table, o) /\ fds' = LessFds(fds, o)
      /\ UNCHANGED <<nodes, disk, log, pids, misuse, halted>>
  BY DEF Exit, LessFds
<1>2. /\ Good(Now) /\ Pids /\ ~misuse /\ log.persistence # NoFd
      /\ o \in DOMAIN Now.fds /\ o # Kernel /\ Now.fds = fds
  BY <1>1, CallsIs
<1>3. ~halted
  BY <1>2 DEF IInv
<1>4. Now' = FdsSet(Now, LessFds(Now.fds, o))
  <2>1. Now = Kern(nodes, disk, fds, log, misuse, Up)
    BY DEF Now, Kern, Up
  <2>2. FdsSet(Now, LessFds(fds, o)) = Kern(nodes, disk, LessFds(fds, o), log, misuse, Up)
    BY <2>1, FdsSetIs
  <2>3. Now' = Kern(nodes', disk', fds', log', misuse', Up)
    BY DEF Now, Kern, Up
  <2> QED
    BY <1>1, <1>2, <2>2, <2>3
<1>5. Good(Now')
  BY <1>2, <1>4, ProcEnded
<1>6. o \in Nat
  <2>1. Now.fds \in Fds
    BY <1>2 DEF Good, Base
  <2> QED
    BY <1>2, <2>1, FdsFun
<1>7. Pids'
  <2>1. Known(hash_tbl_delete(table, o), pids)
    BY <1>2, <1>6, DeletedKnown DEF Pids
  <2> QED
    BY <1>1, <1>2, <2>1 DEF Pids
<1> QED
  BY <1>1, <1>2, <1>3, <1>5, <1>7 DEF IInv, Unopened

LEMMA StartKeeps ==
  ASSUME IInv, NEW o, Start(o)
  PROVE  IInv'
<1>1. /\ Good(Now) /\ Pids /\ ~misuse /\ log.persistence # NoFd /\ o \in DOMAIN Now.fds
  <2>1. CASE Calls(o)
    BY <2>1, CallsIs
  <2>2. CASE o = Kernel /\ ~misuse /\ log.persistence # NoFd
    BY <2>2 DEF IInv, Good, Base, Descs
  <2> QED
    BY <2>1, <2>2 DEF Start
<1>2. PICK path \in Programs, given \in Given, loads \in BOOLEAN :
        \E image \in {Image(path)} :
          IF image.node # Null /\ loads
          THEN /\ Put(IF hash_tbl_has(table, pids) THEN Stop(image.k)
                      ELSE FdsSet(image.k, AddFds(image.k.fds, pids, io_proc_start(image.k, o, given))))
               /\ table' = hash_tbl_add(table, pids) /\ pids' = pids + 1
          ELSE Done(IF image.node # Null THEN KLOG(image.k) ELSE image.k)
  BY DEF Start, FdsSet, AddFds
<1> DEFINE image == Image(path)
           k == image.k
<1>3. Past(Now, k)
  BY <1>1, ImageGood, PathsIn
<1> HIDE DEF image
<1>4. Whole(k) /\ (k.misuse \/ Kin(Now, k))
  BY <1>3 DEF Past
<1>5. CASE image.node # Null /\ loads
  <2> DEFINE r == FdsSet(k, AddFds(k.fds, pids, io_proc_start(k, o, given)))
  <2>1. ~hash_tbl_has(table, pids)
    BY <1>1, NotKnown DEF Pids
  <2>2. Put(r) /\ table' = hash_tbl_add(table, pids) /\ pids' = pids + 1
    BY <1>2, <1>5, <2>1 DEF image
  <2>3. Pids'
    <3>1. Known(hash_tbl_add(table, pids), pids + 1)
      BY <1>1, AddedKnown DEF Pids
    <3> QED
      BY <1>1, <2>2, <3>1 DEF Pids
  <2>4. r.misuse \/ (Good(r) /\ r.log.persistence # NoFd)
    <3>1. CASE k.misuse
      BY <1>4, <3>1 DEF Whole, Kern, FdsSet
    <3>2. CASE Kin(Now, k)
      <4>1. Good(k) /\ o \in DOMAIN k.fds /\ k.log.persistence # NoFd
        BY <1>1, <3>2 DEF Kin, Now
      <4> QED
        BY <1>1, <4>1, ProcAdded DEF Pids
    <3> QED
      BY <1>4, <3>1, <3>2
  <2> HIDE DEF r
  <2> QED
    BY <2>2, <2>3, <2>4, PutKeeps
<1>6. CASE ~(image.node # Null /\ loads)
  <2>1. PICK r \in {KLOG(k), k} : Done(r)
    BY <1>2, <1>6 DEF image
  <2>2. r.misuse \/ Kin(Now, r)
    <3>1. CASE k.misuse
      BY <1>4, <3>1, KlogMisuse
    <3>2. CASE Kin(Now, k)
      <4>1. Kin(Now, KLOG(k))
        <5>1. Good(k) /\ k.misuse = Now.misuse
          BY <3>2 DEF Kin
        <5>2. Good(KLOG(k)) /\ LogsOnly(k, KLOG(k))
          BY <5>1, KlogGood
        <5>3. Kin(k, KLOG(k))
          BY <5>2 DEF LogsOnly, Kin
        <5> QED
          BY <3>2, <5>3, KinNext
      <4> QED
        BY <3>2, <4>1
    <3> QED
      BY <1>4, <3>1, <3>2
  <2> QED
    BY <1>1, <2>1, <2>2, DoneKeeps
<1> QED
  BY <1>5, <1>6
-----------------------------------------------------------------------------
(* The lines that were kept are written into the file for the log, when    *)
(* there is one.                                                           *)
Fills(text, lines, n) ==
  Len(text) = 2 * n /\ \A j \in 1 .. n : text[2 * j - 1] = lines[j] /\ text[2 * j] = End

LEMMA FillsMore ==
  ASSUME NEW text, NEW lines, NEW i \in Nat \ {0}, Fills(text, lines, i - 1),
         NEW more, OneMore(text, lines[i], more)
  PROVE  Fills(more, lines, i)
<1>1. Len(text) = 2 * (i - 1) /\ Len(more) = Len(text) + 2
  BY DEF Fills, OneMore
<1>2. Len(more) = 2 * i /\ Len(text) + 1 = 2 * i - 1 /\ Len(text) + 2 = 2 * i
  BY <1>1
<1>3. ASSUME NEW j \in 1 .. i PROVE more[2 * j - 1] = lines[j] /\ more[2 * j] = End
  <2>1. CASE j = i
    BY <1>2, <2>1 DEF OneMore
  <2>2. CASE j # i
    <3>1. j \in 1 .. i - 1 /\ 2 * j - 1 \in 1 .. 2 * (i - 1) /\ 2 * j \in 1 .. 2 * (i - 1)
      BY <2>2
    <3>2. more[2 * j - 1] = text[2 * j - 1] /\ more[2 * j] = text[2 * j]
      BY <1>1, <3>1 DEF OneMore
    <3> QED
      BY <3>1, <3>2 DEF Fills
  <2> QED
    BY <2>1, <2>2
<1> QED
  BY <1>2, <1>3 DEF Fills

(* A kernel with a log that can be appended to.                            *)
Logger(ns, ds, f, D, p) == Base(ns, ds, f) /\ LogAt(ns, f[Kernel][p]) /\ DOMAIN f = D
TextAt(ns, f, p) == ns[f[Kernel][p].node].text
Loggers(l, m, D, p) ==
  {Kern(t[1], t[2], t[3], l, m, Up) :
     t \in {u \in Seq(NodeT) \X Disks \X Fds : Logger(u[1], u[2], u[3], D, p)}}

LEMMA LoggersAre ==
  ASSUME NEW l, NEW m, NEW D, NEW p, NEW k
  PROVE  k \in Loggers(l, m, D, p) <=>
           \E ns, ds, f : k = Kern(ns, ds, f, l, m, Up) /\ Logger(ns, ds, f, D, p)
<1>1. ASSUME k \in Loggers(l, m, D, p)
      PROVE  \E ns, ds, f : k = Kern(ns, ds, f, l, m, Up) /\ Logger(ns, ds, f, D, p)
  <2>1. PICK t \in {u \in Seq(NodeT) \X Disks \X Fds : Logger(u[1], u[2], u[3], D, p)} :
          k = Kern(t[1], t[2], t[3], l, m, Up)
    BY <1>1 DEF Loggers
  <2> QED
    BY <2>1
<1>2. ASSUME NEW ns, NEW ds, NEW f, k = Kern(ns, ds, f, l, m, Up), Logger(ns, ds, f, D, p)
      PROVE  k \in Loggers(l, m, D, p)
  <2> DEFINE t == <<ns, ds, f>>
  <2>1. t \in Seq(NodeT) \X Disks \X Fds
    BY <1>2 DEF Logger, Base
  <2>2. t[1] = ns /\ t[2] = ds /\ t[3] = f
    OBVIOUS
  <2> HIDE DEF t
  <2> QED
    BY <1>2, <2>1, <2>2 DEF Loggers
<1> QED
  BY <1>1, <1>2

Logging(k, ns, ds, f, l, m, D, p) ==
  k = Kern(ns, ds, f, l, m, Up) /\ l.persistence = p /\ Logger(ns, ds, f, D, p)
LineAdded(k, ns, f, l, m, D, p, v) ==
  \E n1, d1, f1 : /\ Line(k, v) = Kern(n1, d1, f1, l, m, Up) /\ Logger(n1, d1, f1, D, p)
                  /\ OneMore(TextAt(ns, f, p), v, TextAt(n1, f1, p))
LEMMA LoggerLine ==
  ASSUME NEW ns, NEW ds, NEW f, NEW l, NEW m, NEW D, NEW p \in 0 .. MaxFd - 1,
         NEW k, Logging(k, ns, ds, f, l, m, D, p), NEW v \in Nat
  PROVE  LineAdded(k, ns, f, l, m, D, p, v)
<1>1. Base(ns, ds, f) /\ LogAt(ns, f[Kernel][p]) /\ DOMAIN f = D
  BY DEF Logging, Logger
<1>2. k = Kern(ns, ds, f, l, m, Up) /\ l.persistence = p
  BY DEF Logging
<1>3. PICK n1, d1, f1 : Line(k, v) = Kern(n1, d1, f1, l, m, Up) /\ Lined(ns, ds, f, p, v, n1, d1, f1)
  BY <1>1, <1>2, LineWritten
<1>4. Logger(n1, d1, f1, D, p)
  BY <1>1, <1>3 DEF Lined, Logger
<1>5. TextAt(n1, f1, p) = Overlaid(TextAt(ns, f, p), Len(TextAt(ns, f, p)), <<v, End>>)
  BY <1>3 DEF Lined, TextAt
<1>6. TextAt(ns, f, p) \in Seq(Int)
  <2>1. ns \in Seq(NodeT) /\ f[Kernel][p].node \in DOMAIN ns
    BY <1>1 DEF Base, LogAt, LogDir
  <2> QED
    BY <2>1, NodeIn DEF TextAt
<1>7. OneMore(TextAt(ns, f, p), v, TextAt(n1, f1, p))
  BY <1>5, <1>6, Appended
<1> QED
  BY <1>3, <1>4, <1>7 DEF LineAdded
LEMMA WrittenIs ==
  ASSUME NEW ns, NEW ds, NEW f, NEW l, NEW m, NEW p \in 0 .. MaxFd - 1, l.persistence = p,
         Logger(ns, ds, f, DOMAIN f, p), TextAt(ns, f, p) = <<>>, NEW lines \in Seq(Nat)
  PROVE  \E n1, d1, f1 :
           /\ Written(Kern(ns, ds, f, l, m, Up), lines) = Kern(n1, d1, f1, l, m, Up)
           /\ Logger(n1, d1, f1, DOMAIN f, p)
           /\ Fills(TextAt(n1, f1, p), lines, Len(lines))
<1> DEFINE k == Kern(ns, ds, f, l, m, Up)
           n == Len(lines)
           D == DOMAIN f
           V == Loggers(l, m, D, p)
           It(h) == [i \in 0 .. n |-> IF i = 0 THEN k ELSE Line(h[i - 1], lines[i])]
           after == CHOOSE h : h = It(h)
           F == [i \in 1 .. n |-> [v \in V |-> Line(v, lines[i])]]
<1>1. Written(k, lines) = after[n]
  BY DEF Written
<1>2. n \in Nat /\ \A i \in 1 .. n : lines[i] \in Nat
  OBVIOUS
<1>3. Logger(ns, ds, f, D, p) /\ k = Kern(ns, ds, f, l, m, Up)
  OBVIOUS
<1> HIDE DEF k, D, V
<1>4. k \in V
  BY <1>3, LoggersAre DEF V
<1>5. ASSUME NEW i \in 1 .. n, NEW v \in V PROVE Line(v, lines[i]) \in V
  <2>1. PICK n0, d0, f0 : v = Kern(n0, d0, f0, l, m, Up) /\ Logger(n0, d0, f0, D, p)
    BY LoggersAre DEF V
  <2>2. Logging(v, n0, d0, f0, l, m, D, p) /\ lines[i] \in Nat
    BY <1>2, <2>1 DEF Logging
  <2>3. \E n1, d1, f1 : Line(v, lines[i]) = Kern(n1, d1, f1, l, m, Up) /\ Logger(n1, d1, f1, D, p)
    <3>1. LineAdded(v, n0, f0, l, m, D, p, lines[i])
      BY <2>2, LoggerLine
    <3> QED
      BY <3>1 DEF LineAdded
  <2> QED
    BY <2>3, LoggersAre DEF V
<1>6. \E g \in [0 .. n -> V] : Iterated(g, F, n, k)
  <2>1. Folds(F, V, n, k)
    BY <1>2, <1>4, <1>5 DEF Folds
  <2> HIDE DEF F
  <2> QED
    BY <2>1, Iteration
<1>7. PICK g \in [0 .. n -> V] : \A i \in 0 .. n : g[i] = IF i = 0 THEN k ELSE F[i][g[i - 1]]
  BY <1>6 DEF Iterated
<1>8. g = It(g)
  <2>1. \A i \in 0 .. n : i # 0 => i \in 1 .. n /\ i - 1 \in 0 .. n
    BY <1>2
  <2>2. \A i \in 0 .. n : i # 0 => F[i][g[i - 1]] = Line(g[i - 1], lines[i])
    BY <2>1
  <2> QED
    BY <1>7, <2>2
<1>9. after = It(after)
  <2> HIDE DEF It
  <2> QED
    BY <1>8
<1>10. 0 \in 0 .. n /\ \A i \in 1 .. n : i \in 0 .. n /\ i # 0 /\ i - 1 \in 0 .. n
  BY <1>2
<1> HIDE DEF after
<1>11. after[0] = k /\ \A i \in 1 .. n : after[i] = Line(after[i - 1], lines[i])
  BY <1>9, <1>10
<1> DEFINE Ok(i) == \E n1, d1, f1 :
             /\ after[i] = Kern(n1, d1, f1, l, m, Up) /\ Logger(n1, d1, f1, D, p)
             /\ Fills(TextAt(n1, f1, p), lines, i)
           T == {i \in 0 .. n : Ok(i)}
<1>12. Fills(TextAt(ns, f, p), lines, 0)
  BY DEF Fills
<1>13. 0 \in T
  BY <1>3, <1>10, <1>11, <1>12
<1>14. \A i \in 1 .. n : i - 1 \in T => i \in T
  <2> SUFFICES ASSUME NEW i \in 1 .. n, i - 1 \in T PROVE Ok(i)
    BY <1>10
  <2>1. PICK n0, d0, f0 :
          /\ after[i - 1] = Kern(n0, d0, f0, l, m, Up) /\ Logger(n0, d0, f0, D, p)
          /\ Fills(TextAt(n0, f0, p), lines, i - 1)
    OBVIOUS
  <2>2. PICK n1, d1, f1 :
          /\ Line(after[i - 1], lines[i]) = Kern(n1, d1, f1, l, m, Up)
          /\ Logger(n1, d1, f1, D, p)
          /\ OneMore(TextAt(n0, f0, p), lines[i], TextAt(n1, f1, p))
    <3>1. Logging(after[i - 1], n0, d0, f0, l, m, D, p) /\ lines[i] \in Nat
      BY <1>2, <2>1 DEF Logging
    <3>2. LineAdded(after[i - 1], n0, f0, l, m, D, p, lines[i])
      BY <3>1, LoggerLine
    <3> QED
      BY <3>2 DEF LineAdded
  <2>3. Fills(TextAt(n1, f1, p), lines, i)
    <3>1. i \in Nat \ {0}
      OBVIOUS
    <3> QED
      BY <2>1, <2>2, <3>1, FillsMore
  <2> QED
    BY <1>11, <2>1, <2>2, <2>3
<1> HIDE DEF T
<1>15. n \in T
  <2> HIDE DEF n
  <2>1. \A i \in 0 .. n : i \in T
    BY <1>2, <1>13, <1>14, InductionTo
  <2> QED
    BY <1>2, <2>1
<1>16. Ok(n)
  BY <1>15 DEF T
<1> QED
  BY <1>1, <1>16 DEF k, D

(* Lines that are counted are counted in the text that they fill.          *)
LEMMA FilledLines ==
  ASSUME NEW text, NEW lines \in Seq(Nat), NEW S, Counted(lines, Len(lines), S),
         Fills(text, lines, Len(lines))
  PROVE  \E n \in Nat : LinesOf(text, n, S)
<1> DEFINE n == Len(lines)
           line == [i \in 1 .. n |-> text[2 * i - 1]]
<1>1. n \in Nat
  OBVIOUS
<1>2. Len(text) = 2 * n /\ \A i \in 1 .. n : text[2 * i] = End /\ line[i] = lines[i]
  BY DEF Fills
<1> HIDE DEF line
<1>3. Counted(line, n, S)
  BY <1>2 DEF Counted
<1>4. LinesOf(text, n, S)
  BY <1>2, <1>3 DEF LinesOf, line
<1> QED
  BY <1>1, <1>4
-----------------------------------------------------------------------------
(* What the mount leaves is in order.  Nodes by their parts:               *)
Rec(kind, name, dir, kids, len) ==
  [kind |-> kind, name |-> name, dir |-> dir, kids |-> kids, len |-> len, open |-> Down,
   text |-> <<>>]
First == Head(LogNames)
InitNodes ==
  <<Rec("root", "", 0, <<Fat, Dev, Ram>>, 0), Rec("ramdir", "initrd", 0, <<Program>>, 0),
    Rec("dev", "dev", 0, <<>>, 0), Rec("con", "con1", 0, <<>>, 0),
    Rec("fatdir", "fatfs", 0, <<LogDir, File>>, 0), Rec("ramfile", "shell", Ram, <<>>, 2),
    Rec("fatdir", "log", Fat, <<8>>, 0), Rec("fatfile", First, LogDir, <<>>, 0),
    Rec("fatfile", "f", Fat, <<>>, 0)>>

LEMMA NodeRec ==
  ASSUME NEW kind, NEW name, NEW dir
  PROVE  Node(kind, name, dir) = Rec(kind, name, dir, <<>>, 0)
  BY DEF Node, Rec, Down

LEMMA NodeKids ==
  ASSUME NEW kind, NEW name, NEW dir, NEW s
  PROVE  [Node(kind, name, dir) EXCEPT !.kids = s] = Rec(kind, name, dir, s, 0)
<1>1. [Rec(kind, name, dir, <<>>, 0) EXCEPT !.kids = s] = Rec(kind, name, dir, s, 0)
  BY DEF Rec
<1> QED
  BY <1>1, NodeRec

LEMMA NodeLen ==
  ASSUME NEW kind, NEW name, NEW dir, NEW n
  PROVE  [Node(kind, name, dir) EXCEPT !.len = n] = Rec(kind, name, dir, <<>>, n)
<1>1. [Rec(kind, name, dir, <<>>, 0) EXCEPT !.len = n] = Rec(kind, name, dir, <<>>, n)
  BY DEF Rec
<1> QED
  BY <1>1, NodeRec

LEMMA RecIn ==
  ASSUME NEW kind \in Kinds, NEW name \in Names, NEW dir \in Nat, NEW kids \in Seq(Nat), NEW len \in Nat
  PROVE  Rec(kind, name, dir, kids, len) \in NodeT
<1>1. <<>> \in Seq(Int)
  OBVIOUS
<1> QED
  BY <1>1 DEF Rec, NodeT, Down

LEMMA InitNodesAre ==
  IoInit => nodes = InitNodes
<1> SUFFICES ASSUME IoInit PROVE nodes = InitNodes
  OBVIOUS
<1>1. nodes = <<[Node("root", "", 0) EXCEPT !.kids = <<Fat, Dev, Ram>>],
               [Node("ramdir", "initrd", 0) EXCEPT !.kids = <<Program>>],
               Node("dev", "dev", 0), Node("con", "con1", 0),
               [Node("fatdir", "fatfs", 0) EXCEPT !.kids = <<LogDir, File>>],
               [Node("ramfile", "shell", Ram) EXCEPT !.len = 2],
               [Node("fatdir", "log", Fat) EXCEPT !.kids = <<8>>],
               Node("fatfile", Head(LogNames), LogDir),
               Node("fatfile", "f", Fat)>>
  BY DEF IoInit
<1>2. [Node("root", "", 0) EXCEPT !.kids = <<Fat, Dev, Ram>>] = Rec("root", "", 0, <<Fat, Dev, Ram>>, 0)
  BY NodeKids, Zenon
<1>3. [Node("ramdir", "initrd", 0) EXCEPT !.kids = <<Program>>] = Rec("ramdir", "initrd", 0, <<Program>>, 0)
  BY NodeKids, Zenon
<1>4. [Node("fatdir", "fatfs", 0) EXCEPT !.kids = <<LogDir, File>>] = Rec("fatdir", "fatfs", 0, <<LogDir, File>>, 0)
  BY NodeKids, Zenon
<1>5. [Node("fatdir", "log", Fat) EXCEPT !.kids = <<8>>] = Rec("fatdir", "log", Fat, <<8>>, 0)
  BY NodeKids, Zenon
<1>6. [Node("ramfile", "shell", Ram) EXCEPT !.len = 2] = Rec("ramfile", "shell", Ram, <<>>, 2)
  BY NodeLen
<1>7. Node("dev", "dev", 0) = Rec("dev", "dev", 0, <<>>, 0)
  BY NodeRec, Zenon
<1>8. Node("con", "con1", 0) = Rec("con", "con1", 0, <<>>, 0)
  BY NodeRec, Zenon
<1>9. Node("fatfile", Head(LogNames), LogDir) = Rec("fatfile", Head(LogNames), LogDir, <<>>, 0)
  BY NodeRec, Zenon
<1>10. Node("fatfile", "f", Fat) = Rec("fatfile", "f", Fat, <<>>, 0)
  BY NodeRec, Zenon
<1> QED
  BY <1>1, <1>2, <1>3, <1>4, <1>5, <1>6, <1>7, <1>8, <1>9, <1>10, Zenon DEF InitNodes, First

LEMMA FirstIn == First \in Names /\ LogNames \in Seq(Names) /\ Len(LogNames) \in Nat \ {0}
<1>1. LogNames \in Seq(Names)
  BY PathIn, IoAssumption
<1>2. DOMAIN LogNames # {}
  BY IoAssumption, Zenon
<1>3. Len(LogNames) \in Nat \ {0} /\ LogNames # <<>>
  BY <1>1, <1>2
<1> QED
  BY <1>1, <1>3 DEF First

LEMMA InitNodesAt ==
  /\ InitNodes \in Seq(NodeT) /\ Len(InitNodes) = 9 /\ DOMAIN InitNodes = 1 .. 9
  /\ InitNodes[1] = Rec("root", "", 0, <<Fat, Dev, Ram>>, 0)
  /\ InitNodes[2] = Rec("ramdir", "initrd", 0, <<Program>>, 0)
  /\ InitNodes[3] = Rec("dev", "dev", 0, <<>>, 0) /\ InitNodes[4] = Rec("con", "con1", 0, <<>>, 0)
  /\ InitNodes[5] = Rec("fatdir", "fatfs", 0, <<LogDir, File>>, 0)
  /\ InitNodes[6] = Rec("ramfile", "shell", Ram, <<>>, 2)
  /\ InitNodes[7] = Rec("fatdir", "log", Fat, <<8>>, 0)
  /\ InitNodes[8] = Rec("fatfile", First, LogDir, <<>>, 0)
  /\ InitNodes[9] = Rec("fatfile", "f", Fat, <<>>, 0)
<1> DEFINE a == Rec("root", "", 0, <<Fat, Dev, Ram>>, 0)
           b == Rec("ramdir", "initrd", 0, <<Program>>, 0)
           c == Rec("dev", "dev", 0, <<>>, 0)
           d == Rec("con", "con1", 0, <<>>, 0)
           e == Rec("fatdir", "fatfs", 0, <<LogDir, File>>, 0)
           f == Rec("ramfile", "shell", Ram, <<>>, 2)
           g == Rec("fatdir", "log", Fat, <<8>>, 0)
           h == Rec("fatfile", First, LogDir, <<>>, 0)
           i == Rec("fatfile", "f", Fat, <<>>, 0)
<1>1. /\ {"root", "ramdir", "dev", "con", "fatdir", "ramfile", "fatfile"} \subseteq Kinds
      /\ {"", "initrd", "dev", "con1", "fatfs", "shell", "log", "f"} \subseteq Names
  BY Zenon DEF Kinds, Names
<1>2. /\ <<Fat, Dev, Ram>> \in Seq(Nat) /\ <<Program>> \in Seq(Nat) /\ <<LogDir, File>> \in Seq(Nat)
      /\ <<8>> \in Seq(Nat) /\ <<>> \in Seq(Nat) /\ 0 \in Nat /\ 2 \in Nat
      /\ Ram \in Nat /\ Fat \in Nat /\ LogDir \in Nat
  BY DEF Fat, Dev, Ram, Program, LogDir, File
<1>3. a \in NodeT /\ b \in NodeT /\ c \in NodeT /\ d \in NodeT /\ e \in NodeT
  BY <1>1, <1>2, RecIn
<1>4. f \in NodeT /\ g \in NodeT /\ h \in NodeT /\ i \in NodeT
  BY <1>1, <1>2, RecIn, FirstIn
<1>5. InitNodes = <<a, b, c, d, e, f, g, h, i>>
  BY Zenon DEF InitNodes
<1> HIDE DEF a, b, c, d, e, f, g, h, i
<1>6. /\ InitNodes \in Seq(NodeT) /\ Len(InitNodes) = 9
      /\ InitNodes[1] = a /\ InitNodes[2] = b /\ InitNodes[3] = c /\ InitNodes[4] = d
      /\ InitNodes[5] = e /\ InitNodes[6] = f /\ InitNodes[7] = g /\ InitNodes[8] = h
      /\ InitNodes[9] = i
  BY <1>3, <1>4, <1>5
<1>7. DOMAIN InitNodes = 1 .. 9
  BY <1>6
<1> QED
  BY <1>6, <1>7, Zenon DEF a, b, c, d, e, f, g, h, i
LEMMA InitNodesIn == InitNodes \in Seq(NodeT) /\ Len(InitNodes) = 9 /\ DOMAIN InitNodes = 1 .. 9
  BY InitNodesAt, Zenon

Is(x, kind, name, dir, kids) ==
  x.kind = kind /\ x.name = name /\ x.dir = dir /\ x.kids = kids /\ x.open = Down

LEMMA RecIs ==
  ASSUME NEW kind, NEW name, NEW dir, NEW kids, NEW len
  PROVE  Is(Rec(kind, name, dir, kids, len), kind, name, dir, kids)
  BY DEF Rec, Is, Down

LEMMA InitShape ==
  /\ Is(InitNodes[1], "root", "", 0, <<Fat, Dev, Ram>>)
  /\ Is(InitNodes[2], "ramdir", "initrd", 0, <<Program>>)
  /\ Is(InitNodes[3], "dev", "dev", 0, <<>>)
  /\ Is(InitNodes[4], "con", "con1", 0, <<>>)
  /\ Is(InitNodes[5], "fatdir", "fatfs", 0, <<LogDir, File>>)
  /\ Is(InitNodes[6], "ramfile", "shell", Ram, <<>>)
  /\ Is(InitNodes[7], "fatdir", "log", Fat, <<8>>)
  /\ Is(InitNodes[8], "fatfile", First, LogDir, <<>>)
  /\ Is(InitNodes[9], "fatfile", "f", Fat, <<>>)
<1>1. Is(InitNodes[1], "root", "", 0, <<Fat, Dev, Ram>>)
  BY InitNodesAt, RecIs
<1>2. Is(InitNodes[2], "ramdir", "initrd", 0, <<Program>>)
  BY InitNodesAt, RecIs
<1>3. Is(InitNodes[3], "dev", "dev", 0, <<>>)
  BY InitNodesAt, RecIs
<1>4. Is(InitNodes[4], "con", "con1", 0, <<>>)
  BY InitNodesAt, RecIs
<1>5. Is(InitNodes[5], "fatdir", "fatfs", 0, <<LogDir, File>>)
  BY InitNodesAt, RecIs
<1>6. Is(InitNodes[6], "ramfile", "shell", Ram, <<>>)
  BY InitNodesAt, RecIs
<1>7. Is(InitNodes[7], "fatdir", "log", Fat, <<8>>)
  BY InitNodesAt, RecIs
<1>8. Is(InitNodes[8], "fatfile", First, LogDir, <<>>)
  BY InitNodesAt, RecIs
<1>9. Is(InitNodes[9], "fatfile", "f", Fat, <<>>)
  BY InitNodesAt, RecIs
<1> QED
  BY <1>1, <1>2, <1>3, <1>4, <1>5, <1>6, <1>7, <1>8, <1>9

LEMMA InitKinds ==
  /\ InitNodes[1].kind = "root" /\ InitNodes[2].kind = "ramdir" /\ InitNodes[3].kind = "dev"
  /\ InitNodes[4].kind = "con" /\ InitNodes[5].kind = "fatdir" /\ InitNodes[6].kind = "ramfile"
  /\ InitNodes[7].kind = "fatdir" /\ InitNodes[8].kind = "fatfile" /\ InitNodes[9].kind = "fatfile"
  BY InitShape, Zenon DEF Is

LEMMA NineIs ==
  \A n \in 1 .. 9 : n = 1 \/ n = 2 \/ n = 3 \/ n = 4 \/ n = 5 \/ n = 6 \/ n = 7 \/ n = 8 \/ n = 9
OBVIOUS

InitDisk == [e \in {<<Fat, "log">>, <<Fat, "f">>, <<LogDir, First>>} |-> 0]
InitFds == [o \in {Kernel} |-> EmptyFds]

LEMMA InitFixed == Fixed(InitNodes)
<1>1. InitNodes[1].kids = <<Fat, Dev, Ram>> /\ InitNodes[2].kids = <<Program>>
  BY InitShape, Zenon DEF Is
<1>2. \A n \in LogDir .. 9 : InitNodes[n].kind \in {"fatfile", "fatdir"}
  <2>1. \A n \in LogDir .. 9 : n = 7 \/ n = 8 \/ n = 9
    BY DEF LogDir
  <2> QED
    BY <2>1, InitKinds
<1>3. Root = 1 /\ Ram = 2 /\ Dev = 3 /\ Con = 4 /\ Fat = 5 /\ Program = 6 /\ LogDir = 7 /\ 9 >= LogDir
  BY DEF Root, Ram, Dev, Con, Fat, Program, LogDir
<1> QED
  BY <1>1, <1>2, <1>3, InitKinds, InitNodesIn DEF Fixed

LEMMA InitTree == Tree(InitNodes, InitDisk)
<1> DEFINE ns == InitNodes
           ds == InitDisk
<1>1. \A n \in DOMAIN ns : ns[n].kind = "fatdir" => n = 5 \/ n = 7
  BY InitKinds, NineIs, InitNodesIn
<1>2. /\ <<Fat, "log">> \in DOMAIN ds /\ <<Fat, "f">> \in DOMAIN ds /\ <<LogDir, First>> \in DOMAIN ds
  BY DEF InitDisk
<1>3. /\ ns[7].dir = Fat /\ ns[7].name = "log" /\ ns[9].dir = Fat /\ ns[9].name = "f"
      /\ ns[8].dir = LogDir /\ ns[8].name = First
      /\ ns[5].kids = <<LogDir, File>> /\ ns[7].kids = <<8>>
  BY InitShape, Zenon DEF Is
<1>4. Len(ns) = 9
  BY InitNodesIn
<1> HIDE DEF ns, ds
<1>5. KidsOk(ns, ds, Fat)
  <2> DEFINE s == <<LogDir, File>>
  <2>1. DOMAIN s = 1 .. 2 /\ s[1] = 7 /\ s[2] = 9
    BY DEF LogDir, File
  <2>2. ns[Fat].kids = s
    BY <1>3 DEF Fat
  <2>3. ChildOk(ns, ds, Fat, 7) /\ ChildOk(ns, ds, Fat, 9)
    <3>1. 7 \in LogDir .. 9 /\ 9 \in LogDir .. 9
      BY DEF LogDir
    <3> QED
      BY <1>2, <1>3, <1>4, <3>1 DEF ChildOk
  <2>4. ns[7].name # ns[9].name
    BY <1>3
  <2> HIDE DEF s
  <2>5. \A i \in 1 .. 2 : i = 1 \/ i = 2
    OBVIOUS
  <2> QED
    BY <2>1, <2>2, <2>3, <2>4, <2>5 DEF KidsOk
<1>6. KidsOk(ns, ds, LogDir)
  <2> DEFINE s == <<8>>
  <2>1. DOMAIN s = {1} /\ s[1] = 8
    OBVIOUS
  <2>2. ns[LogDir].kids = s
    BY <1>3 DEF LogDir
  <2>3. ChildOk(ns, ds, LogDir, 8)
    <3>1. 8 \in LogDir .. 9
      BY DEF LogDir
    <3> QED
      BY <1>2, <1>3, <1>4, <3>1 DEF ChildOk
  <2> HIDE DEF s
  <2> QED
    BY <2>1, <2>2, <2>3 DEF KidsOk
<1>7. Tree(ns, ds)
  BY <1>1, <1>5, <1>6 DEF Tree, Fat, LogDir
<1> QED
  BY <1>7 DEF ns, ds

LEMMA ConstantsIn ==
  MaxFd \in Nat \ {0} /\ NoFd \in 0 .. MaxFd /\ EarlyLines \in Nat /\ Buckets \in Nat \ {0}
<1>1. MaxFd \in Nat \ {0} /\ CacheSize \in Nat /\ EarlyLines \in 0 .. CacheSize /\ Buckets \in Nat \ {0}
  BY IoAssumption, Zenon
<1> QED
  BY <1>1 DEF NoFd

LEMMA InitBase == Base(InitNodes, InitDisk, InitFds)
<1>1. InitDisk \in Disks
  <2>1. {<<Fat, "log">>, <<Fat, "f">>, <<LogDir, First>>} \in SUBSET (Nat \X Names)
    <3>1. "log" \in Names /\ "f" \in Names
      BY Zenon DEF Names
    <3> QED
      BY <3>1, FirstIn DEF Fat, LogDir
  <2> DEFINE S == {<<Fat, "log">>, <<Fat, "f">>, <<LogDir, First>>}
             d == [e \in S |-> 0]
  <2> HIDE DEF S
  <2>2. DOMAIN d \subseteq Nat \X Names
    BY <2>1 DEF S
  <2>3. d \in Disks
    BY <2>2, DiskFun
  <2> QED
    BY <2>3 DEF InitDisk, S
<1>2. EmptyFds \in FdT /\ \A fd \in 0 .. MaxFd - 1 : EmptyFds[fd] = NoDesc
  BY DEF EmptyFds, FdT, DescT, NoDesc
<1>3. InitFds \in Fds /\ DOMAIN InitFds = {Kernel} /\ InitFds[Kernel] = EmptyFds
  <2>1. DOMAIN InitFds = {Kernel} /\ InitFds[Kernel] = EmptyFds
        /\ InitFds = [o \in DOMAIN InitFds |-> InitFds[o]]
    BY DEF InitFds
  <2>2. Kernel \in Nat
    BY DEF Kernel
  <2> QED
    BY <1>2, <2>1, <2>2, FdsFun
<1>4. Descs(InitNodes, InitFds)
  BY <1>2, <1>3 DEF Descs, DescOk
<1>5. Lengths(InitNodes, InitDisk)
  <2>1. \A n \in 1 .. 9 : InitNodes[n].open = Down
    <3>1. /\ InitNodes[1].open = Down /\ InitNodes[2].open = Down /\ InitNodes[3].open = Down
          /\ InitNodes[4].open = Down /\ InitNodes[5].open = Down /\ InitNodes[6].open = Down
          /\ InitNodes[7].open = Down /\ InitNodes[8].open = Down /\ InitNodes[9].open = Down
      BY InitShape, Zenon DEF Is
    <3> QED
      BY <3>1, NineIs
  <2> QED
    BY <2>1, InitNodesIn DEF Lengths, Down
<1>6. InitNodes[LogDir].dir = Fat /\ Attached(InitNodes, LogDir)
  <2>1. DOMAIN <<LogDir, File>> = 1 .. 2 /\ <<LogDir, File>>[1] = LogDir /\ 1 \in 1 .. 2
    OBVIOUS
  <2>2. InitNodes[7].dir = Fat /\ InitNodes[5].kids = <<LogDir, File>> /\ InitNodes[5].kind = "fatdir"
    BY InitShape, Zenon DEF Is
  <2>3. LogDir = 7 /\ Fat = 5 /\ Fat \in 1 .. 9
    BY DEF LogDir, Fat
  <2>4. \E i \in DOMAIN InitNodes[Fat].kids : InitNodes[Fat].kids[i] = LogDir
    BY <2>1, <2>2, <2>3
  <2> QED
    BY <2>2, <2>3, <2>4, InitNodesIn DEF Attached
<1> QED
  BY <1>1, <1>3, <1>4, <1>5, <1>6, InitFixed, InitTree, InitNodesIn DEF Base

LEMMA InitGood ==
  IoInit => Good(Now)
<1> SUFFICES ASSUME IoInit PROVE Good(Now)
  OBVIOUS
<1>1. nodes = InitNodes /\ disk = InitDisk /\ fds = InitFds
  BY InitNodesAre DEF IoInit, InitDisk, InitFds, First
<1> DEFINE c == [i \in 1 .. EarlyLines |-> i]
<1>2. /\ log.cache = c /\ log.persistence = NoFd /\ log.said = EarlyLines /\ log.lost = {}
      /\ log = [cache |-> c, persistence |-> NoFd, said |-> EarlyLines, lost |-> {}]
  BY DEF IoInit
<1>3. EarlyLines \in Nat /\ NoFd \in 0 .. MaxFd
  BY ConstantsIn
<1>4. c \in Seq(Nat) /\ Len(c) = EarlyLines /\ \A i \in 1 .. EarlyLines : c[i] = i
  BY <1>3
<1> HIDE DEF c
<1>5. log \in LogT /\ log.lost \subseteq 1 .. log.said
  BY <1>2, <1>3, <1>4 DEF LogT
<1>6. Logged(log) = 1 .. EarlyLines
  BY <1>2 DEF Logged
<1>7. Counted(c, EarlyLines, 1 .. EarlyLines)
  BY <1>4 DEF Counted
<1>8. LogOk(nodes, fds, log)
  BY <1>2, <1>4, <1>5, <1>6, <1>7 DEF LogOk
<1>9. Base(nodes, disk, fds)
  BY <1>1, InitBase
<1>10. Now = Kern(nodes, disk, fds, log, misuse, Up)
  BY DEF Now, Kern, Up
<1> QED
  BY <1>8, <1>9, <1>10, GoodKern
-----------------------------------------------------------------------------
(* The first file for the log.  What a directory has by a name:            *)
LEMMA FoundAt ==
  ASSUME NEW ns \in Seq(NodeT), NEW u \in DOMAIN ns, IsDir(ns, u), NEW name
  PROVE  /\ (\A i \in DOMAIN ns[u].kids : ns[ns[u].kids[i]].name # name) =>
              FindChild(ns, u, name) = Null
         /\ \A i \in DOMAIN ns[u].kids :
              (/\ ns[ns[u].kids[i]].name = name
               /\ \A j \in DOMAIN ns[u].kids : ns[ns[u].kids[j]].name = name => j = i) =>
                FindChild(ns, u, name) = ns[u].kids[i]
<1> DEFINE kids == ns[u].kids
           I == {i \in 1 .. Len(kids) : ns[kids[i]].name = name}
           found == IF I # {} THEN Min(I) ELSE 0
<1>1. kids \in Seq(Nat) /\ Len(kids) \in Nat /\ DOMAIN kids = 1 .. Len(kids)
  <2>1. kids \in Seq(Nat)
    BY NodeIn
  <2> QED
    BY <2>1
<1>2. FindChild(ns, u, name) = IF found = 0 THEN Null ELSE kids[found]
  BY DEF FindChild, SelectInSeq
<1> HIDE DEF kids
<1>3. I # {} => Min(I) \in I
  <2>1. I \in SUBSET Nat
    BY <1>1
  <2> HIDE DEF I
  <2> QED
    BY <2>1, MinOf
<1>4. (\A i \in DOMAIN kids : ns[kids[i]].name # name) => FindChild(ns, u, name) = Null
  BY <1>1, <1>2
<1>5. ASSUME NEW i \in DOMAIN kids, ns[kids[i]].name = name,
             \A j \in DOMAIN kids : ns[kids[j]].name = name => j = i
      PROVE  FindChild(ns, u, name) = kids[i]
  <2>1. i \in I /\ \A j \in I : j = i
    BY <1>1, <1>5
  <2>2. found = i /\ i # 0
    <3>1. Min(I) = i
      BY <1>3, <2>1, Zenon
    <3> QED
      BY <1>1, <2>1, <3>1
  <2> QED
    BY <1>2, <2>2
<1> QED
  BY <1>4, <1>5 DEF kids

LEMMA InitChildren ==
  /\ Child(InitNodes, Root, "fatfs") = Fat
  /\ Child(InitNodes, Fat, "log") = LogDir
  /\ \A x : Child(InitNodes, LogDir, x) = IF x = First THEN 8 ELSE Null
<1> DEFINE ns == InitNodes
<1>1. ns \in Seq(NodeT) /\ DOMAIN ns = 1 .. 9
  BY InitNodesIn
<1>2. /\ ns[1].kids = <<Fat, Dev, Ram>> /\ ns[1].kind = "root" /\ ns[5].kind = "fatdir"
      /\ ns[2].name = "initrd" /\ ns[3].name = "dev" /\ ns[5].name = "fatfs"
      /\ ns[5].kids = <<LogDir, File>> /\ ns[7].name = "log" /\ ns[9].name = "f"
      /\ ns[7].kind = "fatdir" /\ ns[7].kids = <<8>> /\ ns[8].name = First
  BY InitShape, Zenon DEF Is
<1>3. IsDir(ns, 1) /\ IsDir(ns, 5) /\ IsDir(ns, 7)
  BY <1>2 DEF IsDir, Dirs
<1>4. \A x : /\ Child(ns, 1, x) = FindChild(ns, 1, x) /\ Child(ns, 5, x) = FindChild(ns, 5, x)
             /\ Child(ns, 7, x) = FindChild(ns, 7, x)
  BY <1>2 DEF Child
<1> HIDE DEF ns
<1>5. FindChild(ns, 1, "fatfs") = 5
  <2>1. DOMAIN ns[1].kids = 1 .. 3 /\ ns[1].kids[1] = 5 /\ ns[1].kids[2] = 3 /\ ns[1].kids[3] = 2
    BY <1>2 DEF Fat, Dev, Ram
  <2>2. \A j \in 1 .. 3 : j = 1 \/ j = 2 \/ j = 3
    OBVIOUS
  <2>3. 1 \in 1 .. 3 /\ \A j \in 1 .. 3 : ns[ns[1].kids[j]].name = "fatfs" => j = 1
    BY <1>2, <2>1, <2>2
  <2> QED
    BY <1>1, <1>2, <1>3, <2>1, <2>3, FoundAt
<1>6. FindChild(ns, 5, "log") = 7
  <2>1. DOMAIN ns[5].kids = 1 .. 2 /\ ns[5].kids[1] = 7 /\ ns[5].kids[2] = 9
    BY <1>2 DEF LogDir, File
  <2>2. \A j \in 1 .. 2 : j = 1 \/ j = 2
    OBVIOUS
  <2>3. 1 \in 1 .. 2 /\ \A j \in 1 .. 2 : ns[ns[5].kids[j]].name = "log" => j = 1
    BY <1>2, <2>1, <2>2
  <2> QED
    BY <1>1, <1>2, <1>3, <2>1, <2>3, FoundAt
<1>7. ASSUME NEW x PROVE FindChild(ns, 7, x) = IF x = First THEN 8 ELSE Null
  <2>1. DOMAIN ns[7].kids = {1} /\ ns[7].kids[1] = 8
    BY <1>2
  <2>2. CASE x = First
    <3>1. /\ 1 \in DOMAIN ns[7].kids /\ ns[ns[7].kids[1]].name = x
          /\ \A j \in DOMAIN ns[7].kids : ns[ns[7].kids[j]].name = x => j = 1
      BY <1>2, <2>1, <2>2
    <3>2. FindChild(ns, 7, x) = ns[7].kids[1]
      <4>1. ns \in Seq(NodeT) /\ 7 \in DOMAIN ns /\ IsDir(ns, 7)
        BY <1>1, <1>3
      <4> QED
        BY <3>1, <4>1, FoundAt
    <3> QED
      BY <2>1, <2>2, <3>2
  <2>3. CASE x # First
    <3>1. \A j \in DOMAIN ns[7].kids : ns[ns[7].kids[j]].name # x
      BY <1>2, <2>1, <2>3
    <3> QED
      BY <1>1, <1>3, <2>3, <3>1, FoundAt
  <2> QED
    BY <2>2, <2>3
<1> QED
  BY <1>4, <1>5, <1>6, <1>7 DEF ns, Root, Fat, LogDir

LEMMA InitWalk ==
  ASSUME NEW path \in Seq(Names), Len(path) >= 2, path[1] = "fatfs", path[2] = "log",
         NEW at, at = Walked(InitNodes, path)
  PROVE  /\ at[2] = LogDir
         /\ (Len(path) = 3 /\ path[3] # "") => at[3] = IF path[3] = First THEN 8 ELSE Null
<1>1. /\ at[0] = Root
      /\ \A i \in 1 .. Len(path) :
           at[i] = IF at[i - 1] = Null \/ Ends(path, i) THEN at[i - 1]
                   ELSE Child(InitNodes, at[i - 1], path[i])
  BY InitBase, WalkIs
<1>2. Len(path) \in Nat
  OBVIOUS
<1>3. ~Ends(path, 1) /\ ~Ends(path, 2) /\ (path[3] # "" => ~Ends(path, 3))
  BY DEF Ends
<1>4. Root # Null /\ Fat # Null /\ LogDir # Null
  BY DEF Root, Fat, LogDir, Null
<1>5. at[1] = Fat
  <2>1. 1 \in 1 .. Len(path) /\ 1 - 1 = 0
    BY <1>2
  <2> QED
    BY <1>1, <1>3, <1>4, <2>1, InitChildren
<1>6. at[2] = LogDir
  <2>1. 2 \in 1 .. Len(path) /\ 2 - 1 = 1
    BY <1>2
  <2> QED
    BY <1>1, <1>3, <1>4, <1>5, <2>1, InitChildren
<1>7. ASSUME Len(path) = 3, path[3] # "" PROVE at[3] = IF path[3] = First THEN 8 ELSE Null
  <2>1. 3 \in 1 .. Len(path) /\ 3 - 1 = 2
    <3>1. Len(path) = 3
      BY <1>7, Zenon
    <3> QED
      BY <3>1
  <2>2. at[3] = Child(InitNodes, LogDir, path[3])
    BY <1>1, <1>3, <1>4, <1>6, <1>7, <2>1
  <2> QED
    BY <2>2, InitChildren
<1> QED
  BY <1>6, <1>7
(* The name that is tried is free, as one of the names is.                 *)
LEMMA LogPathIs ==
  ASSUME NEW i \in 1 .. Len(LogNames)
  PROVE  /\ LogPath(i) \in Seq(Names) /\ Len(LogPath(i)) = 3 /\ LogPath(i) # <<>>
         /\ LogPath(i)[1] = "fatfs" /\ LogPath(i)[2] = "log" /\ LogPath(i)[3] = LogNames[i]
         /\ LogNames[i] # "" /\ LogNames[i] \in Names
<1> DEFINE x == LogNames[i]
<1>1. x \in Names /\ i \in DOMAIN LogNames
  <2>1. LogNames \in Seq(Names)
    BY FirstIn
  <2> QED
    BY <2>1
<1>2. x # ""
  <2>1. x \in Range(LogNames)
    BY <1>1 DEF Range
  <2> QED
    BY <2>1, IoAssumption, Zenon
<1>3. "fatfs" \in Names /\ "log" \in Names
  BY Zenon DEF Names
<1>4. LogPath(i) = <<"fatfs", "log", x>>
  BY DEF LogPath
<1> HIDE DEF x
<1>5. /\ LogPath(i) \in Seq(Names) /\ Len(LogPath(i)) = 3 /\ LogPath(i) # <<>>
      /\ LogPath(i)[1] = "fatfs" /\ LogPath(i)[2] = "log" /\ LogPath(i)[3] = x
  BY <1>1, <1>3, <1>4
<1> QED
  BY <1>1, <1>2, <1>5 DEF x

LEMMA LogPathAt ==
  ASSUME nodes = InitNodes, NEW i \in 1 .. Len(LogNames)
  PROVE  fs_get_abs_path(nodes, LogPath(i)).node = IF LogNames[i] = First THEN 8 ELSE Null
<1> DEFINE path == LogPath(i)
           at == Walked(InitNodes, path)
<1>1. /\ path \in Seq(Names) /\ Len(path) = 3 /\ path # <<>>
      /\ path[1] = "fatfs" /\ path[2] = "log" /\ path[3] = LogNames[i] /\ LogNames[i] # ""
  BY LogPathIs
<1> HIDE DEF path
<1>2. Len(path) >= 2
  <2>1. Len(path) = 3
    BY <1>1, Zenon
  <2> QED
    BY <2>1
<1>3. at[3] = IF LogNames[i] = First THEN 8 ELSE Null
  BY <1>1, <1>2, InitWalk
<1>4. fs_get_abs_path(InitNodes, path).node = at[Len(path)]
  BY <1>1 DEF fs_get_abs_path
<1> QED
  BY <1>1, <1>3, <1>4 DEF path

LEMMA TryIs ==
  ASSUME nodes = InitNodes
  PROVE  Try \in 1 .. Len(LogNames) /\ LogNames[Try] # First
<1> DEFINE n == Len(LogNames)
           free == {i \in 1 .. n : LogPathFree(i)}
           S == free \cup {n}
<1>1. n \in Nat \ {0} /\ DOMAIN LogNames = 1 .. n /\ First = LogNames[1]
  <2>1. LogNames \in Seq(Names) /\ n \in Nat \ {0}
    BY FirstIn
  <2> QED
    BY <2>1 DEF First
<1>2. Try = Min(S)
  BY DEF Try
<1>3. \A i \in 1 .. n : i \in free <=> LogNames[i] # First
  BY LogPathAt DEF LogPathFree, Null
<1> HIDE DEF n, free
<1>4. PICK i \in 1 .. n : LogNames[i] # First
  BY <1>1, IoAssumption, Zenon
<1>5. free \subseteq 1 .. n
  BY DEF free
<1>6. Min(S) \in S /\ \A y \in S : Min(S) <= y
  <2>1. S \in SUBSET Nat /\ S # {}
    BY <1>1, <1>5
  <2> HIDE DEF S
  <2> QED
    BY <2>1, MinOf
<1>7. i \in free
  BY <1>3, <1>4
<1>8. Try \in free
  <2>1. CASE Min(S) \in free
    BY <1>2, <2>1
  <2>2. CASE Min(S) = n
    <3>1. n <= i
      BY <1>6, <1>7, <2>2
    <3>2. i = n
      BY <1>1, <1>4, <3>1
    <3> QED
      BY <1>2, <1>7, <2>2, <3>2
  <2> QED
    BY <1>6, <2>1, <2>2
<1>9. Try \in 1 .. n /\ LogNames[Try] # First
  BY <1>3, <1>5, <1>8
<1> QED
  BY <1>9 DEF n

(* The directory that the name is made in.                                 *)
LEMMA FrontOfThree ==
  ASSUME NEW S, NEW path \in Seq(S), Len(path) = 3
  PROVE  /\ LeafDir(path) \in Seq(S) /\ Len(LeafDir(path)) >= 2 /\ Len(LeafDir(path)) = 2
         /\ LeafDir(path) # <<>>
         /\ LeafDir(path)[1] = path[1] /\ LeafDir(path)[2] = path[2]
<1> DEFINE q == SubSeq(path, 1, 2)
<1>1. LeafDir(path) = q
  <2>1. Len(path) # 1 /\ Len(path) - 1 = 2
    OBVIOUS
  <2> QED
    BY <2>1 DEF LeafDir, Front
<1>2. q \in Seq(S) /\ Len(q) = 2 /\ q[1] = path[1] /\ q[2] = path[2]
  OBVIOUS
<1> HIDE DEF q
<1>3. q \in Seq(S) /\ Len(q) = 2
  BY <1>2, Zenon
<1>4. Len(q) >= 2
  BY <1>3
<1>5. q # <<>>
  <2>1. Len(<<>>) = 0 /\ Len(q) # 0
    BY <1>3
  <2> QED
    BY <2>1, Zenon
<1> QED
  BY <1>1, <1>2, <1>4, <1>5, Zenon

LEMMA LogDirAt ==
  ASSUME nodes = InitNodes, NEW i \in 1 .. Len(LogNames)
  PROVE  /\ fs_get_abs_path(nodes, LeafDir(LogPath(i))).node = LogDir
         /\ HasLeaf(LogPath(i)) /\ Last(LogPath(i)) = LogNames[i]
<1> DEFINE path == LogPath(i)
           q == LeafDir(path)
           at == Walked(InitNodes, q)
<1>1. /\ path \in Seq(Names) /\ Len(path) = 3 /\ path # <<>>
      /\ path[1] = "fatfs" /\ path[2] = "log" /\ path[3] = LogNames[i] /\ LogNames[i] # ""
  BY LogPathIs
<1> HIDE DEF path
<1>2. Last(path) = LogNames[i] /\ HasLeaf(path)
  BY <1>1 DEF Last, HasLeaf
<1>3. path \in Seq(Names) /\ Len(path) = 3
  BY <1>1, Zenon
<1>4. q \in Seq(Names) /\ Len(q) >= 2 /\ Len(q) = 2 /\ q # <<>> /\ q[1] = path[1] /\ q[2] = path[2]
  BY <1>3, FrontOfThree
<1> HIDE DEF q
<1>5. at[2] = LogDir
  <2>1. Len(q) >= 2 /\ q[1] = "fatfs" /\ q[2] = "log"
    BY <1>1, <1>4, Zenon
  <2> QED
    BY <1>4, <2>1, InitWalk
<1>6. fs_get_abs_path(InitNodes, q).node = at[2]
  BY <1>4 DEF fs_get_abs_path
<1> QED
  BY <1>2, <1>5, <1>6 DEF q, path
(* At the start every descriptor of the kernel is free.                    *)
LEMMA InitFree ==
  ASSUME Now.fds = InitFds
  PROVE  _find_free_fd(Now, Kernel) \in 0 .. MaxFd - 1
<1>1. \A fd \in 0 .. MaxFd - 1 : Now.fds[Kernel][fd] = NoDesc
  BY DEF InitFds, EmptyFds
<1>2. \A fd \in 0 .. MaxFd - 1 : ~Live(Now, Kernel, fd)
  BY <1>1 DEF Live
<1>3. FreeFds(Now, Kernel) = 0 .. MaxFd - 1
  BY <1>2 DEF FreeFds
<1> DEFINE S == FreeFds(Now, Kernel)
<1>4. S # {} /\ S \in SUBSET Nat
  BY <1>3, ConstantsIn
<1> HIDE DEF S
<1>5. Min(S) \in S
  BY <1>4, MinOf
<1> QED
  BY <1>3, <1>4, <1>5 DEF _find_free_fd, S

(* The file is made, and a descriptor of the kernel refers to it.          *)
Opening(r) ==
  /\ Kin(Now, r.k) /\ r.fd \in 0 .. MaxFd - 1
  /\ LogAt(r.k.nodes, r.k.fds[Kernel][r.fd])
  /\ TextAt(r.k.nodes, r.k.fds, r.fd) = <<>>

LEMMA LogCreated ==
  ASSUME IoInit, Good(Now), NEW r, r = _create_file(Now, Kernel, LogPath(Try), Up)
  PROVE  Opening(r)
<1> DEFINE path == LogPath(Try)
           name == LogNames[Try]
           fd == _find_free_fd(Now, Kernel)
           c == fs_create_child(Now, LogDir, name, "fatfile", Up)
<1>1. /\ nodes = InitNodes /\ disk = InitDisk /\ fds = InitFds
      /\ Now.nodes = nodes /\ Now.fds = fds /\ Now.disk = disk /\ Now.log.persistence = NoFd
  BY InitNodesAre DEF IoInit, InitDisk, InitFds, First, Now
<1>2. Try \in 1 .. Len(LogNames) /\ name # First
  BY <1>1, TryIs
<1>3. name \in Names
  BY <1>2, LogPathIs
<1>4. fd \in 0 .. MaxFd - 1 /\ fd # NoFd
  BY <1>1, InitFree, ConstantsIn DEF NoFd
<1>5. r = WithDesc(c, Kernel, fd)
  <2>1. fs_get_abs_path(nodes, path).node = Null
    BY <1>1, <1>2, LogPathAt
  <2>2. fs_get_abs_path(nodes, LeafDir(path)).node = LogDir /\ HasLeaf(path) /\ Last(path) = name
    BY <1>1, <1>2, LogDirAt
  <2>3. LogDir # Null
    BY DEF LogDir, Null
  <2> QED
    BY <1>1, <1>4, <2>1, <2>2, <2>3 DEF _create_file
<1> HIDE DEF fd, c, name
<1>6. Made(Now, c, "fatfile") /\ LogMade(Now, c, LogDir)
  <2>1. LogDir \in DOMAIN Now.nodes /\ Now.nodes[LogDir].kind = "fatdir"
    BY <1>1, InitNodesIn, InitKinds DEF LogDir
  <2>2. <<LogDir, name>> \notin DOMAIN Now.disk
    <3>1. DOMAIN Now.disk = {<<Fat, "log">>, <<Fat, "f">>, <<LogDir, First>>}
      BY <1>1 DEF InitDisk
    <3>2. LogDir # Fat
      BY DEF LogDir, Fat
    <3> QED
      BY <1>2, <3>1, <3>2
  <2>3. c = fs_create_child(Now, LogDir, name, "fatfile", Up)
    BY DEF c
  <2>4. Made(Now, c, "fatfile")
    BY <1>3, <2>1, <2>3, CreateGood
  <2>5. LogMade(Now, c, LogDir)
    <3>1. Up
      BY DEF Up
    <3> QED
      BY <1>1, <1>3, <2>1, <2>2, <2>3, <3>1, CreateGood
  <2> QED
    BY <2>4, <2>5
<1> DEFINE n == c.node
<1>7. /\ Good(c.k) /\ Same(Now, c.k) /\ n # Null /\ n \in DOMAIN c.k.nodes /\ n > LogDir
      /\ FileOk(c.k.nodes, n, 0)
  BY <1>6 DEF Made, LogMade
<1>8. /\ c.k.nodes[n].kind = "fatfile" /\ c.k.nodes[n].dir = LogDir
      /\ c.k.nodes[n].len = 0 /\ c.k.nodes[n].text = <<>> /\ c.k.fds = fds
  BY <1>1, <1>6 DEF LogMade
<1>9. Kin(Now, c.k) /\ Owns(Now, Kernel)
  BY <1>1, <1>7, KinNext DEF Owns, InitFds, Kernel
<1>10. Kin(Now, r.k)
  <2>1. n # Null => Described(c.k, n)
    BY <1>7 DEF Described
  <2> QED
    BY <1>4, <1>5, <1>9, <2>1, WithDescGood
<1>11. r.fd = fd /\ r.k = DescSet(c.k, Kernel, fd, Desc(n))
  BY <1>5, <1>7 DEF WithDesc, DescSet
<1>12. r.k.nodes = c.k.nodes /\ r.k.fds = Assigned(fds, Kernel, fd, Desc(n))
  <2>1. PICK ns, ds, f, l, m : c.k = Kern(ns, ds, f, l, m, Up)
    BY <1>7, GoodIs
  <2>2. DescSet(c.k, Kernel, fd, Desc(n)) = Kern(ns, ds, Assigned(f, Kernel, fd, Desc(n)), l, m, Up)
    BY <2>1, DescSetIs DEF Assigned
  <2>3. c.k.fds = f /\ c.k.nodes = ns
    BY <2>1 DEF Kern
  <2> QED
    BY <1>8, <1>11, <2>2, <2>3 DEF Kern
<1>13. r.k.fds[Kernel][fd] = Desc(n)
  <2>1. fds \in Fds /\ Kernel \in DOMAIN fds
    BY <1>1, InitBase DEF Base, Descs
  <2>2. Desc(n) \in DescT
    BY <1>7 DEF Desc, DescT, Good, Base
  <2> QED
    BY <1>4, <1>12, <2>1, <2>2, AssignedIs
<1>14. Desc(n) # NoDesc /\ Desc(n).node = n /\ Desc(n).off = 0
  <2>1. n \in Nat
    BY <1>7 DEF Good, Base
  <2> QED
    BY <2>1 DEF Desc, NoDesc
<1>15. LogAt(c.k.nodes, Desc(n))
  <2>1. c.k.nodes \in Seq(NodeT)
    BY <1>7 DEF Good, Base
  <2>2. n \in LogDir .. Len(c.k.nodes) /\ Len(<<>>) = 0
    BY <1>7, <2>1 DEF LogDir
  <2> QED
    BY <1>8, <1>14, <2>2 DEF LogAt
<1> QED
  BY <1>4, <1>8, <1>10, <1>11, <1>12, <1>13, <1>14, <1>15 DEF Opening, TextAt
(* The kernel with the file for its log, and nothing kept.                 *)
LogOpened(k, fd) == [k EXCEPT !.log.persistence = fd, !.log.cache = <<>>]
LEMMA LogOpenedIs ==
  ASSUME NEW ns, NEW ds, NEW f, NEW l, NEW m, NEW k, k = Kern(ns, ds, f, l, m, Up), NEW fd
  PROVE  LogOpened(k, fd) = Kern(ns, ds, f, WithCache(WithPersistence(l, fd), <<>>), m, Up)
<1> DEFINE k1 == PersistenceSet(k, fd)
<1>1. LogOpened(k, fd) = CacheSet(k1, <<>>)
  BY DEF LogOpened, CacheSet, PersistenceSet, Kern
<1>2. k1 = Kern(ns, ds, f, WithPersistence(l, fd), m, Up)
  BY PersistenceSetIs
<1> HIDE DEF k1
<1> QED
  BY <1>1, <1>2, CacheSetIs

LEMMA PersistedGood ==
  ASSUME NEW k, k.log.persistence = NoFd, NEW r, Opening(r), Kin(k, r.k)
  PROVE  Good(Persisted(r)) /\ Persisted(r).log.persistence # NoFd
<1> DEFINE fd == r.fd
<1>1. PICK ns, ds, f, l, m : r.k = Kern(ns, ds, f, l, m, Up) /\ Base(ns, ds, f) /\ LogOk(ns, f, l)
  BY GoodIs DEF Kin
<1>2. /\ r.k.nodes = ns /\ r.k.fds = f /\ r.k.log = l
  BY <1>1 DEF Kern
<1>3. fd \in 0 .. MaxFd - 1 /\ LogAt(ns, f[Kernel][fd]) /\ TextAt(ns, f, fd) = <<>> /\ l.persistence = NoFd
  BY <1>2 DEF Opening, Kin
<1>4. fd # NoFd /\ fd \in 0 .. MaxFd
  BY <1>3, ConstantsIn DEF NoFd
<1>5. l \in LogT /\ l.lost \subseteq 1 .. l.said /\ Counted(l.cache, Len(l.cache), Logged(l))
  BY <1>1, <1>3 DEF LogOk
<1> DEFINE l1 == WithPersistence(l, fd)
           l2 == WithCache(l1, <<>>)
           k2 == LogOpened(r.k, fd)
<1>6. l2 \in LogT /\ l2.persistence = fd /\ l2.said = l.said /\ l2.lost = l.lost
  <2>1. l1 \in LogT /\ l1.persistence = fd /\ l1.said = l.said /\ l1.lost = l.lost
    BY <1>4, <1>5, WithPersistenceIs
  <2> HIDE DEF l1
  <2>2. <<>> \in Seq(Nat)
    OBVIOUS
  <2> QED
    BY <2>1, <2>2, WithCacheIs
<1>7. k2 = Kern(ns, ds, f, l2, m, Up)
  BY <1>1, LogOpenedIs
<1>8. Persisted(r) = Written(k2, l.cache)
  BY <1>2, <1>4 DEF Persisted, LogOpened
<1> HIDE DEF l1, l2, k2, fd
<1>9. l.cache \in Seq(Nat)
  BY <1>5 DEF LogT
<1>10. Logger(ns, ds, f, DOMAIN f, fd)
  BY <1>1, <1>3 DEF Logger
<1>11. PICK n1, d1, f1 :
         /\ Written(k2, l.cache) = Kern(n1, d1, f1, l2, m, Up)
         /\ Logger(n1, d1, f1, DOMAIN f, fd)
         /\ Fills(TextAt(n1, f1, fd), l.cache, Len(l.cache))
  BY <1>3, <1>6, <1>7, <1>9, <1>10, WrittenIs
<1>12. Base(n1, d1, f1) /\ LogAt(n1, f1[Kernel][fd])
  BY <1>11 DEF Logger
<1>13. LogOk(n1, f1, l2)
  <2>1. Logged(l2) = Logged(l)
    BY <1>6 DEF Logged
  <2>2. \E n \in Nat : LinesOf(TextAt(n1, f1, fd), n, Logged(l))
    BY <1>5, <1>9, <1>11, FilledLines
  <2>3. LogFile(n1, f1[Kernel][fd], Logged(l2))
    BY <1>12, <2>1, <2>2 DEF LogFile, TextAt
  <2> QED
    BY <1>4, <1>5, <1>6, <2>3 DEF LogOk
<1>14. Good(Kern(n1, d1, f1, l2, m, Up))
  BY <1>12, <1>13, GoodKern
<1>15. Kern(n1, d1, f1, l2, m, Up).log = l2
  BY DEF Kern
<1> QED
  BY <1>4, <1>6, <1>8, <1>11, <1>14, <1>15

LEMMA PersistenceKeeps ==
  ASSUME IInv, klog_init_persistence
  PROVE  IInv'
<1> DEFINE path == LogPath(Try)
           r == io_open(Now, Kernel, path, {"create"}, Up)
<1>1. ~misuse /\ log.persistence = NoFd /\ Put(Persisted(r)) /\ UNCHANGED <<table, pids>>
  BY DEF klog_init_persistence, Up
<1>2. IoInit /\ Good(Now) /\ Pids /\ Now.log.persistence = NoFd
  BY <1>1 DEF IInv, Unopened, Now
<1>3. r = _create_file(Now, Kernel, path, Up)
  <2>1. FirstRead(Now, Kernel, path, {"create"}) = [k |-> Now, fd |-> NoFd]
    BY DEF FirstRead
  <2> DEFINE a == [k |-> Now, fd |-> NoFd]
             b == _create_file(Now, Kernel, path, Up)
  <2>2. ThenCreate(a, Kernel, path, {"create"}, Up) = b
    BY DEF ThenCreate
  <2>3. ThenWrite(b, Kernel, path, {"create"}) = b
    BY DEF ThenWrite
  <2> QED
    BY <2>1, <2>2, <2>3 DEF io_open
<1> HIDE DEF r, path
<1>4. Opening(r)
  BY <1>2, <1>3, LogCreated DEF path
<1>5. Good(Persisted(r)) /\ Persisted(r).log.persistence # NoFd
  BY <1>2, <1>4, PersistedGood DEF Opening
<1>6. Pids'
  BY <1>1, <1>2 DEF Pids
<1> QED
  BY <1>1, <1>5, <1>6, PutKeeps

-----------------------------------------------------------------------------
(* The invariant holds at the start, and every step keeps it.              *)
LEMMA IInvInit == IoInit => IInv
<1> SUFFICES ASSUME IoInit PROVE IInv
  OBVIOUS
<1>1. ~halted /\ Unopened
  BY DEF IoInit, Unopened
<1>2. Pids
  <2>1. pids = 1 /\ table = [b \in 0 .. Buckets - 1 |-> <<>>]
    BY DEF IoInit
  <2>2. Known(table, 1)
    BY <2>1 DEF Known
  <2> QED
    BY <2>1, <2>2 DEF Pids
<1> QED
  BY <1>1, <1>2, InitGood DEF IInv

LEMMA IInvStep == IInv /\ [IoNext]_ioVars => IInv'
<1> SUFFICES ASSUME IInv, [IoNext]_ioVars PROVE IInv'
  OBVIOUS
<1>1. CASE klog_init_persistence
  BY <1>1, PersistenceKeeps
<1>2. CASE \E o : Start(o)
  BY <1>2, StartKeeps
<1>3. CASE \E o \in Running :
             \/ Open(o) \/ Close(o) \/ Read(o) \/ Write(o) \/ Seek(o) \/ MkDir(o) \/ Delete(o)
             \/ Exit(o)
  BY <1>3, OpenKeeps, CloseKeeps, ReadKeeps, WriteKeeps, SeekKeeps, MkDirKeeps, DeleteKeeps,
     ExitKeeps
<1>4. CASE \E o \in Running : OpenDir(o) \/ ReadDir(o) \/ CloseDir(o)
  <2>1. PICK o \in Running : OpenDir(o) \/ ReadDir(o) \/ CloseDir(o)
    BY <1>4
  <2>2. log.persistence # NoFd /\ UNCHANGED <<nodes, disk, table, fds, log, pids, misuse, halted>>
    BY <2>1 DEF OpenDir, ReadDir, CloseDir, Calls
  <2> QED
    BY <2>2, StreamsKeep
<1>5. CASE UNCHANGED ioVars
  <2>1. UNCHANGED <<nodes, disk, table, fds, streams, log, pids, misuse, halted>>
    BY <1>5 DEF ioVars
  <2>2. Now' = Now
    BY <2>1 DEF Now
  <2>3. (Pids' <=> Pids) /\ (IoInit' <=> IoInit)
    BY <2>1 DEF Pids, IoInit
  <2> QED
    BY <2>1, <2>2, <2>3 DEF IInv, Unopened
<1> QED
  BY <1>1, <1>2, <1>3, <1>4, <1>5 DEF IoNext

LEMMA IInvHolds == IoSpec => []IInv
  BY IInvInit, IInvStep, PTL DEF IoSpec

(* No call stops the kernel before a process has used a descriptor that it *)
(* closed, closed or removed what another one refers to, removed what is   *)
(* not there, or written into the kernel's log.                            *)
THEOREM OnlyMisuseStops == IoSpec => []OnlyMisuseHalts
<1>1. IInv => OnlyMisuseHalts
  BY DEF IInv, OnlyMisuseHalts
<1> QED
  BY <1>1, IInvHolds, PTL

(* Every offset is within its file, and every file that a descriptor       *)
(* refers to has an entry, with its length.                                *)
THEOREM OffsetsWithin == IoSpec => []OffsetsInFile
<1>1. ASSUME IInv, ~misuse, NEW o \in DOMAIN fds, NEW fd \in 0 .. MaxFd - 1,
             Live(Now, o, fd), IsFile(Now, fds[o][fd].node)
      PROVE  /\ fds[o][fd].off <= nodes[fds[o][fd].node].len
             /\ EntryOf(Now, fds[o][fd].node) \in DOMAIN disk
             /\ nodes[fds[o][fd].node].len = disk[EntryOf(Now, fds[o][fd].node)]
  <2> DEFINE n == fds[o][fd].node
             off == fds[o][fd].off
  <2>1. Good(Now) /\ Now.nodes = nodes /\ Now.disk = disk /\ Now.fds = fds
    BY <1>1 DEF IInv, Now
  <2>2. Base(nodes, disk, fds)
    BY <2>1 DEF Good
  <2>3. nodes \in Seq(NodeT) /\ Descs(nodes, fds) /\ Lengths(nodes, disk) /\ Tree(nodes, disk)
    BY <2>2 DEF Base
  <2>4. DescOk(nodes, fds[o][fd])
    BY <2>3 DEF Descs
  <2>5. fds[o][fd] # NoDesc /\ n # Null /\ nodes[n].kind = "fatfile"
    BY <1>1, <2>1 DEF Live, IsFile
  <2>6. n \in DOMAIN nodes /\ FileOk(nodes, n, off)
    BY <2>4, <2>5 DEF DescOk
  <2> HIDE DEF n, off
  <2>7. EntryOf(Now, n) = Key(nodes, n)
    BY <2>1 DEF EntryOf, Key
  <2>8. off <= nodes[n].len /\ Attached(nodes, n) /\ nodes[n].open
    BY <2>6 DEF FileOk
  <2>9. nodes[n].len = disk[Key(nodes, n)]
    BY <2>3, <2>5, <2>6, <2>8 DEF Lengths
  <2>10. Key(nodes, n) \in DOMAIN disk
    <3>1. PICK i \in DOMAIN nodes[nodes[n].dir].kids : nodes[nodes[n].dir].kids[i] = n
      BY <2>8 DEF Attached
    <3>2. ChildOk(nodes, disk, nodes[n].dir, n)
      BY <2>3, <2>8, <3>1 DEF Attached, Tree, KidsOk
    <3> QED
      BY <3>2 DEF ChildOk, Key
  <2> QED
    BY <2>7, <2>8, <2>9, <2>10 DEF n, off
<1>2. IInv => OffsetsInFile
  BY <1>1 DEF OffsetsInFile
<1> QED
  BY <1>2, IInvHolds, PTL

(* The log holds each line that was logged once, in order, with its end.   *)
THEOREM LogIsKept == IoSpec => []LogKept
<1>1. ASSUME IInv, log.persistence # NoFd, ~misuse,
             NEW text, text = nodes[fds[Kernel][log.persistence].node].text
      PROVE  \E n \in 0 .. Len(text) :
               /\ Len(text) = 2 * n /\ \A i \in 1 .. n : text[2 * i] = End
               /\ \A i, j \in 1 .. n : i < j => text[2 * i - 1] < text[2 * j - 1]
               /\ {text[2 * i - 1] : i \in 1 .. n} = (1 .. log.said) \ log.lost
  <2>1. Good(Now) /\ Now.nodes = nodes /\ Now.fds = fds /\ Now.log = log
    BY <1>1 DEF IInv, Now
  <2>2. LogOk(nodes, fds, log)
    BY <2>1 DEF Good
  <2>3. PICK n \in Nat : LinesOf(text, n, Logged(log))
    BY <1>1, <2>2 DEF LogOk, LogFile
  <2> DEFINE line == [i \in 1 .. n |-> text[2 * i - 1]]
  <2>4. /\ Len(text) = 2 * n /\ \A i \in 1 .. n : text[2 * i] = End
        /\ Counted(line, n, Logged(log))
    BY <2>3 DEF LinesOf
  <2>5. n \in 0 .. Len(text)
    BY <2>4
  <2>6. \A i \in 1 .. n : line[i] = text[2 * i - 1]
    OBVIOUS
  <2> HIDE DEF line
  <2>7. \A i, j \in 1 .. n : i < j => text[2 * i - 1] < text[2 * j - 1]
    BY <2>4, <2>6 DEF Counted
  <2>8. {text[2 * i - 1] : i \in 1 .. n} = Logged(log)
    <3> DEFINE S == Logged(log)
    <3>1. /\ \A i \in 1 .. n : text[2 * i - 1] \in S
          /\ \A x \in S : \E i \in 1 .. n : x = text[2 * i - 1]
      BY <2>4, <2>6 DEF Counted
    <3> HIDE DEF S
    <3>2. {text[2 * i - 1] : i \in 1 .. n} = S
      BY <3>1, Zenon
    <3> QED
      BY <3>2 DEF S
  <2> QED
    BY <2>4, <2>5, <2>7, <2>8 DEF Logged
<1>2. IInv => LogKept
  BY <1>1 DEF LogKept
<1> QED
  BY <1>2, IInvHolds, PTL
=============================================================================
