---------------------------- MODULE FatFileProof ----------------------------
(***************************************************************************)
(* Proofs about FatFile, for sectors and clusters of any size, any number  *)
(* of files and any disk: files are the sequences of bytes that were       *)
(* written.  The recursive functions of the model are reasoned about       *)
(* through their solutions.                                                *)
(***************************************************************************)
EXTENDS FatFile, Induction, FiniteSetTheorems, SequenceTheorems

(***************************************************************************)
(* Places in a file: the byte j is in the sector SecOf(j), which begins    *)
(* with the byte Start(SecOf(j)); the sector x is in the cluster ClOf(x).  *)
(***************************************************************************)
SecOf(j) == j \div SectorSize
In(j) == j % SectorSize
Start(x) == x * SectorSize
ClOf(x) == x \div PerCluster
InCl(x) == x % PerCluster
First(i) == i * PerCluster

LEMMA SizeFacts == SectorSize \in Nat \ {0} /\ PerCluster \in Nat \ {0}
  BY FileAssumption

(* Where sectors begin, where clusters begin, and the sector and cluster   *)
(* that a place is in.                                                     *)
LEMMA StartFacts ==
  ASSUME NEW x \in Nat, NEW y \in Nat
  PROVE  /\ Start(x) \in Nat /\ Start(x + 1) = Start(x) + SectorSize
         /\ Start(x + y) = Start(x) + Start(y)
         /\ x <= y => Start(x) <= Start(y)
         /\ x < y => Start(x) + SectorSize <= Start(y)
  BY Times, SizeFacts DEF Start

LEMMA FirstFacts ==
  ASSUME NEW x \in Nat, NEW y \in Nat
  PROVE  /\ First(x) \in Nat /\ First(x + 1) = First(x) + PerCluster
         /\ x <= y => First(x) <= First(y)
         /\ x < y => First(x) + PerCluster <= First(y)
  BY Times, SizeFacts DEF First

LEMMA ByteFacts ==
  ASSUME NEW j \in Nat
  PROVE  SecOf(j) \in Nat /\ In(j) \in 0 .. SectorSize - 1 /\ j = Start(SecOf(j)) + In(j)
  BY DivMod, SizeFacts DEF SecOf, In, Start

LEMMA ByteIn ==
  ASSUME NEW x \in Nat, NEW r \in 0 .. SectorSize - 1
  PROVE  SecOf(Start(x) + r) = x /\ In(Start(x) + r) = r
  BY DivUnique, SizeFacts DEF SecOf, In, Start

LEMMA SectorFacts ==
  ASSUME NEW x \in Nat
  PROVE  ClOf(x) \in Nat /\ InCl(x) \in 0 .. PerCluster - 1 /\ x = First(ClOf(x)) + InCl(x)
  BY DivMod, SizeFacts DEF ClOf, InCl, First

LEMMA SectorIn ==
  ASSUME NEW i \in Nat, NEW r \in 0 .. PerCluster - 1
  PROVE  ClOf(First(i) + r) = i /\ InCl(First(i) + r) = r
  BY DivUnique, SizeFacts DEF ClOf, InCl, First

(* Which bytes lie before a sector, and which sectors before a cluster.    *)
LEMMA BytesBefore ==
  ASSUME NEW j \in Nat, NEW x \in Nat
  PROVE  j < Start(x) <=> SecOf(j) < x
<1>1. SecOf(j) \in Nat /\ In(j) \in 0 .. SectorSize - 1 /\ j = Start(SecOf(j)) + In(j)
  BY ByteFacts
<1>2. /\ Start(SecOf(j)) \in Nat /\ Start(x) \in Nat
      /\ SecOf(j) < x => Start(SecOf(j)) + SectorSize <= Start(x)
      /\ x <= SecOf(j) => Start(x) <= Start(SecOf(j))
  BY <1>1, StartFacts
<1> QED
  BY <1>1, <1>2, SizeFacts

LEMMA SectorsBefore ==
  ASSUME NEW x \in Nat, NEW i \in Nat
  PROVE  x < First(i) <=> ClOf(x) < i
<1>1. ClOf(x) \in Nat /\ InCl(x) \in 0 .. PerCluster - 1 /\ x = First(ClOf(x)) + InCl(x)
  BY SectorFacts
<1>2. /\ First(ClOf(x)) \in Nat /\ First(i) \in Nat
      /\ ClOf(x) < i => First(ClOf(x)) + PerCluster <= First(i)
      /\ i <= ClOf(x) => First(i) <= First(ClOf(x))
  BY <1>1, FirstFacts
<1> QED
  BY <1>1, <1>2, SizeFacts

(* The cluster of a byte.                                                  *)
LEMMA ClusterOfByte ==
  ASSUME NEW j \in Nat
  PROVE  j \div (SectorSize * PerCluster) = ClOf(SecOf(j))
<1> DEFINE x == SecOf(j)
           i == ClOf(x)
           b == SectorSize * PerCluster
           r == Start(InCl(x)) + In(j)
<1>1. x \in Nat /\ In(j) \in 0 .. SectorSize - 1 /\ j = Start(x) + In(j)
  BY ByteFacts
<1>2. i \in Nat /\ InCl(x) \in 0 .. PerCluster - 1 /\ x = First(i) + InCl(x)
  BY <1>1, SectorFacts
<1> HIDE DEF x, i
<1>3. First(i) \in Nat /\ Start(First(i)) \in Nat /\ Start(InCl(x)) \in Nat
      /\ Start(x) = Start(First(i)) + Start(InCl(x))
  <2>1. First(i) \in Nat
    BY <1>2, FirstFacts
  <2>2. InCl(x) \in Nat
    BY <1>2, SizeFacts
  <2> QED
    BY ONLY <1>2, <2>1, <2>2, StartFacts
<1>4. b \in Nat \ {0} /\ Start(PerCluster) = b
  BY SizeFacts, Z3 DEF Start
<1>5. Start(InCl(x)) + SectorSize <= b
  BY <1>2, <1>4, StartFacts, SizeFacts
<1>6. r \in 0 .. b - 1
  BY <1>1, <1>3, <1>4, <1>5, SizeFacts
<1>7. Start(First(i)) = i * b
  BY <1>2, SizeFacts, Z3 DEF Start, First
<1>8. j = i * b + r
  BY <1>1, <1>3, <1>7, <1>4
<1> HIDE DEF b, r
<1>9. j \div b = i
  BY <1>2, <1>4, <1>6, <1>8, DivUnique
<1> QED
  BY <1>9 DEF b, i, x

(***************************************************************************)
(* Chains of clusters: what a walk along one returns.                      *)
(***************************************************************************)
Table == [Cluster -> Cluster \cup {0, LAST}]
IsChain(t, s) ==
  /\ s \in Seq(Cluster) /\ Len(s) # 0
  /\ \A i, j \in 1 .. Len(s) : s[i] = s[j] => i = j
  /\ \A i \in 1 .. Len(s) : t[s[i]] = IF i = Len(s) THEN LAST ELSE s[i + 1]
Clusters(s) == {s[i] : i \in 1 .. Len(s)}

LEMMA ClusterFacts ==
  /\ Cluster \subseteq Nat /\ LAST \notin Cluster /\ LAST # 0 /\ None \notin Cluster /\ 0 \notin Cluster
  /\ MaxCluster \in Nat
  BY FileAssumption DEF Cluster

LEMMA ChainFacts ==
  ASSUME NEW t \in Table, NEW s, IsChain(t, s)
  PROVE  /\ Len(s) \in Nat /\ Len(s) >= 1 /\ DOMAIN s = 1 .. Len(s)
         /\ s \in [1 .. Len(s) -> Cluster] /\ s = [i \in 1 .. Len(s) |-> s[i]]
         /\ \A i \in 1 .. Len(s) : s[i] \in Cluster
         /\ Range(s) = Clusters(s) /\ Clusters(s) \subseteq Cluster
         /\ \A c \in Clusters(s) : t[c] # 0
         /\ t[s[Len(s)]] = LAST
         /\ \A i \in 1 .. Len(s) : i < Len(s) => t[s[i]] = s[i + 1]
<1> DEFINE n == Len(s)
<1>1. s \in Seq(Cluster) /\ n # 0
  BY DEF IsChain
<1>2. n \in Nat /\ n >= 1 /\ DOMAIN s = 1 .. n /\ \A i \in 1 .. n : s[i] \in Cluster
  BY <1>1
<1>3. \A i \in 1 .. n : t[s[i]] = IF i = n THEN LAST ELSE s[i + 1]
  BY DEF IsChain
<1>4. s \in [1 .. n -> Cluster]
  BY <1>1
<1>5. s = [i \in 1 .. n |-> s[i]]
  BY <1>4
<1> HIDE DEF n
<1>6. Range(s) = {s[i] : i \in 1 .. n}
  BY <1>2 DEF Range
<1>7. ASSUME NEW i \in 1 .. n PROVE t[s[i]] # 0
  <2>1. CASE i = n
    BY <1>3, <2>1, ClusterFacts
  <2>2. CASE i # n
    <3>1. i + 1 \in 1 .. n
      BY <1>2, <2>2
    <3>2. s[i + 1] \in Cluster
      BY <1>2, <3>1
    <3>3. t[s[i]] = s[i + 1]
      BY <1>3, <2>2
    <3> QED
      BY <3>2, <3>3, ClusterFacts
  <2> QED
    BY <2>1, <2>2
<1>8. t[s[n]] = LAST
  BY <1>2, <1>3
<1>9. \A i \in 1 .. n : i < n => t[s[i]] = s[i + 1]
  <2>1. \A i \in 1 .. n : i < n => i # n
    BY <1>2
  <2> QED
    BY <1>3, <2>1
<1>10. {s[i] : i \in 1 .. n} \subseteq Cluster /\ \A c \in {s[i] : i \in 1 .. n} : t[c] # 0
  BY <1>2, <1>7
<1> QED
  BY <1>2, <1>4, <1>5, <1>6, <1>8, <1>9, <1>10 DEF n, Clusters

(* A chain does not meet a cluster twice, so the table bounds its length.  *)
LEMMA ChainLength ==
  ASSUME NEW t \in Table, NEW s, IsChain(t, s)
  PROVE  Len(s) <= MaxCluster - 1
<1> DEFINE S == 1 .. Len(s)
<1>1. Len(s) \in Nat /\ Len(s) >= 1 /\ DOMAIN s = S /\ \A i \in S : s[i] \in Cluster
  BY ChainFacts
<1>2. s \in [S -> Cluster]
  BY ChainFacts
<1>3. s \in Injection(S, Cluster)
  BY <1>1, <1>2 DEF Injection, IsInjective, IsChain
<1>4. MaxCluster \in Nat /\ MaxCluster >= 2
  BY <1>1, ClusterFacts DEF Cluster
<1>5. IsFiniteSet(Cluster) /\ Cardinality(Cluster) = MaxCluster - 1
  BY <1>4, FS_Interval DEF Cluster
<1>6. Cardinality(S) = Len(s)
  BY <1>1, FS_Interval
<1> QED
  BY <1>3, <1>5, <1>6, FS_Injection

(* fatfs_free_cluster_chain walks along the whole chain                    *)
(* (fat_table.c:389-407).                                                  *)
LEMMA ChainOfIs ==
  ASSUME NEW t \in Table, NEW s, IsChain(t, s)
  PROVE  ChainOf(t, s[1]) = s
<1> DEFINE n == Len(s)
           m == MaxCluster - 2
           c == s[1]
           It(h) == [k \in 0 .. m |->
                       IF k = 0 THEN <<c>>
                       ELSE IF t[Last(h[k - 1])] \in Cluster
                            THEN Append(h[k - 1], t[Last(h[k - 1])]) ELSE h[k - 1]]
           pre(k) == [j \in 1 .. Least(k + 1, n) |-> s[j]]
           to == CHOOSE h : h = It(h)
           g == [k \in 0 .. m |-> pre(k)]
<1>1. /\ n \in Nat /\ n >= 1 /\ \A i \in 1 .. n : s[i] \in Cluster
      /\ t[s[n]] = LAST /\ \A i \in 1 .. n : i < n => t[s[i]] = s[i + 1]
      /\ s = [j \in 1 .. n |-> s[j]]
  BY ChainFacts
<1>2. n <= m + 1 /\ m \in Nat
  BY <1>1, ChainLength, ClusterFacts
<1>3. ChainOf(t, s[1]) = to[m]
  BY DEF ChainOf
<1> HIDE DEF n, m
<1>4. pre(0) = <<c>>
  BY <1>1 DEF Least
<1>5. ASSUME NEW k \in 1 .. m
      PROVE  pre(k) = IF t[Last(pre(k - 1))] \in Cluster
                      THEN Append(pre(k - 1), t[Last(pre(k - 1))]) ELSE pre(k - 1)
  <2> DEFINE p == pre(k - 1)
  <2>1. CASE k < n
    <3>1. p = [j \in 1 .. k |-> s[j]]
      BY <1>1, <2>1 DEF Least
    <3>2. p \in Seq(Cluster) /\ Len(p) = k /\ Last(p) = s[k]
      <4>0. k \in Nat /\ k \in 1 .. k /\ \A j \in 1 .. k : s[j] \in Cluster
        BY <1>1, <2>1
      <4> HIDE DEF p
      <4>1. p \in [1 .. k -> Cluster] /\ k \in Nat /\ p[k] = s[k]
        BY <3>1, <4>0
      <4>2. p \in Seq(Cluster) /\ Len(p) = k
        BY <4>1
      <4> QED
        BY <4>1, <4>2 DEF Last
    <3>3. t[s[k]] = s[k + 1] /\ s[k + 1] \in Cluster
      <4>1. k \in 1 .. n /\ k + 1 \in 1 .. n
        BY <1>1, <2>1
      <4> QED
        BY <1>1, <2>1, <4>1
    <3>4. pre(k) = [j \in 1 .. k + 1 |-> s[j]]
      BY <1>1, <2>1 DEF Least
    <3> HIDE DEF p
    <3>5. Append(p, s[k + 1]) = [j \in 1 .. k + 1 |-> s[j]]
      BY <1>1, <2>1, <3>1, <3>2, <3>3
    <3> QED
      BY <3>2, <3>3, <3>4, <3>5 DEF p
  <2>2. CASE ~(k < n)
    <3>1. p = [j \in 1 .. n |-> s[j]] /\ pre(k) = p
      BY <1>1, <2>2 DEF Least
    <3>2. Len(p) = n /\ Last(p) = s[n]
      <4> HIDE DEF p
      <4> QED
        BY <1>1, <3>1 DEF Last
    <3>3. t[s[n]] = LAST
      BY <1>1
    <3> QED
      BY <3>1, <3>2, <3>3, ClusterFacts
  <2> QED
    BY <2>1, <2>2
<1> HIDE DEF pre
<1>6. g = It(g)
  <2>1. \A k \in 1 .. m : k - 1 \in 0 .. m /\ g[k - 1] = pre(k - 1)
    BY <1>2
  <2>2. \A k \in 0 .. m : k # 0 => k \in 1 .. m
    BY <1>2
  <2> QED
    BY <1>4, <1>5, <2>1, <2>2
<1>7. to = It(to)
  <2> HIDE DEF g, It
  <2> QED
    BY <1>6
<1> HIDE DEF to
<1> DEFINE T == {k \in 0 .. m : to[k] = pre(k)}
<1>8. 0 \in T
  BY <1>2, <1>4, <1>7
<1>9. ASSUME NEW k \in 1 .. m, k - 1 \in T PROVE k \in T
  <2>1. k \in 0 .. m /\ k # 0
    BY <1>2
  <2>2. to[k] = IF t[Last(to[k - 1])] \in Cluster
                THEN Append(to[k - 1], t[Last(to[k - 1])]) ELSE to[k - 1]
    BY <1>7, <2>1
  <2> QED
    BY <1>5, <1>9, <2>1, <2>2
<1>10. \A k \in 0 .. m : k \in T
  <2> HIDE DEF T
  <2> QED
    BY <1>2, <1>8, <1>9, InductionTo
<1>11. to[m] = pre(m)
  BY <1>2, <1>10
<1>12. pre(m) = s
  BY <1>1, <1>2 DEF pre, Least
<1> QED
  BY <1>3, <1>11, <1>12

(* The last place of an access lies on the chain of the file.              *)
LookOk(info, s) ==
  /\ info.first = s[1]
  /\ info.look.index # None =>
       /\ info.look.index \in Nat /\ info.look.index < Len(s)
       /\ info.look.cluster = s[info.look.index + 1]

Found(l, s, i) ==
  IF i < Len(s) THEN l.cluster = s[i + 1]
  ELSE l.cluster = LAST /\ l.prev = s[Len(s)]

(* A walk from the start or behind the last place finds the cluster with   *)
(* the index asked for, or the end and the last cluster before it          *)
(* (fatfs.c:94-126).                                                       *)
LEMMA WalkIs ==
  ASSUME NEW t \in Table, NEW s, IsChain(t, s), NEW info, LookOk(info, s), NEW i \in Nat,
         i # info.look.index
  PROVE  Found(Walk(t, info, i), s, i)
<1> DEFINE n == Len(s)
           a == From(info, i).index
           It(h) == [k \in a .. i |->
                       IF k = a THEN [prev |-> LAST, cluster |-> From(info, i).cluster]
                       ELSE IF h[k - 1].cluster = LAST THEN h[k - 1]
                            ELSE [prev |-> h[k - 1].cluster,
                                  cluster |-> NextOf(t, h[k - 1].cluster)]]
           spot(k) == IF k = a THEN [prev |-> LAST, cluster |-> s[a + 1]]
                      ELSE [prev |-> s[Least(k, n)], cluster |-> IF k < n THEN s[k + 1] ELSE LAST]
           at == CHOOSE h : h = It(h)
           g == [k \in a .. i |-> spot(k)]
<1>1. /\ n \in Nat /\ n >= 1 /\ \A j \in 1 .. n : s[j] \in Cluster
      /\ t[s[n]] = LAST /\ \A j \in 1 .. n : j < n => t[s[j]] = s[j + 1]
  BY ChainFacts
<1>2. a \in Nat /\ a <= i /\ a < n /\ From(info, i).cluster = s[a + 1]
  BY <1>1, FileAssumption DEF From, LookOk
<1>3. Walk(t, info, i) = at[i]
  BY DEF Walk
<1> HIDE DEF n, a
<1>4. ASSUME NEW k \in a .. i, k # a
      PROVE  /\ k - 1 \in a .. i
             /\ spot(k) = IF spot(k - 1).cluster = LAST THEN spot(k - 1)
                       ELSE [prev |-> spot(k - 1).cluster,
                             cluster |-> NextOf(t, spot(k - 1).cluster)]
  <2>1. k - 1 \in a .. i /\ k \in Nat /\ k - 1 \in Nat
    BY <1>2, <1>4
  <2>2. spot(k).prev = s[Least(k, n)] /\ spot(k).cluster = (IF k < n THEN s[k + 1] ELSE LAST)
    BY <1>4
  <2>3. spot(k - 1).cluster = (IF k - 1 < n THEN s[k] ELSE LAST)
    BY <1>2, <2>1
  <2>4. CASE k <= n
    <3>1. spot(k - 1).cluster = s[k] /\ s[k] \in Cluster
      BY <1>1, <2>1, <2>3, <2>4, <1>2
    <3>2. NextOf(t, s[k]) = IF k < n THEN s[k + 1] ELSE LAST
      BY <1>1, <1>2, <2>1, <2>4, <3>1, ClusterFacts DEF NextOf
    <3>3. s[Least(k, n)] = s[k]
      BY <1>1, <2>4 DEF Least
    <3> QED
      BY <2>1, <1>4, <3>1, <3>2, <3>3, ClusterFacts
  <2>5. CASE ~(k <= n)
    <3>1. k - 1 # a /\ spot(k - 1).cluster = LAST
      BY <1>1, <1>2, <2>1, <2>3, <2>5
    <3>2. spot(k - 1) = [prev |-> s[Least(k - 1, n)], cluster |-> LAST]
      BY <1>1, <1>2, <2>1, <2>5, <3>1
    <3>3. spot(k) = [prev |-> s[Least(k, n)], cluster |-> LAST]
      BY <1>1, <1>2, <1>4, <2>1, <2>5
    <3>4. Least(k, n) = n /\ Least(k - 1, n) = n
      BY <1>1, <2>1, <2>5 DEF Least
    <3> QED
      BY <2>1, <3>1, <3>2, <3>3, <3>4
  <2> QED
    BY <1>1, <2>1, <2>4, <2>5
<1>5. spot(a) = [prev |-> LAST, cluster |-> From(info, i).cluster]
  BY <1>2
<1>6. spot(i).cluster = (IF i < n THEN s[i + 1] ELSE LAST) /\ (i >= n => spot(i).prev = s[n])
  BY <1>1, <1>2 DEF Least
<1> HIDE DEF spot
<1>7. g = It(g)
  BY <1>4, <1>5
<1>8. at = It(at)
  <2> HIDE DEF g, It
  <2> QED
    BY <1>7
<1> HIDE DEF at
<1> DEFINE T == {k \in 0 .. i : k < a \/ at[k] = spot(k)}
<1>9. \A k \in a .. i : k = a => at[k] = spot(k)
  BY <1>5, <1>8
<1>10. 0 \in T
  BY <1>2, <1>9
<1>11. ASSUME NEW k \in 1 .. i, k - 1 \in T PROVE k \in T
  <2>1. CASE k < a
    BY <2>1
  <2>2. CASE k = a
    BY <1>2, <1>9, <2>2
  <2>3. CASE k > a
    <3>1. k \in a .. i /\ k # a /\ at[k - 1] = spot(k - 1)
      BY <1>2, <1>11, <2>3
    <3>2. at[k] = IF at[k - 1].cluster = LAST THEN at[k - 1]
                  ELSE [prev |-> at[k - 1].cluster, cluster |-> NextOf(t, at[k - 1].cluster)]
      BY <1>8, <3>1
    <3> QED
      BY <1>4, <3>1, <3>2
  <2> QED
    BY <1>2, <2>1, <2>2, <2>3
<1>12. \A k \in 0 .. i : k \in T
  <2> HIDE DEF T
  <2> QED
    BY <1>10, <1>11, InductionTo
<1>13. at[i] = spot(i)
  BY <1>2, <1>12
<1> QED
  BY <1>1, <1>3, <1>6, <1>13 DEF Found, n

(* The same when the last place is the one asked for (fatfs.c:87-126).     *)
LEMMA LookIs ==
  ASSUME NEW t \in Table, NEW s, IsChain(t, s), NEW info, LookOk(info, s), NEW i \in Nat
  PROVE  Found(Look(t, info, i), s, i)
<1>1. CASE i = info.look.index
  BY <1>1, FileAssumption DEF Look, LookOk, Found
<1>2. CASE i # info.look.index
  BY <1>2, WalkIs DEF Look
<1> QED
  BY <1>1, <1>2

(***************************************************************************)
(* A chain that has grown at its end by free clusters.                     *)
(***************************************************************************)
Grown(t, s, t2, s2) ==
  /\ t2 \in Table /\ IsChain(t2, s2)
  /\ Len(s) <= Len(s2) /\ \A i \in 1 .. Len(s) : s2[i] = s[i]
  /\ \A c \in Clusters(s2) : c \in Clusters(s) \/ t[c] = 0
  /\ \A c \in Cluster : c \notin Clusters(s2) => t2[c] = t[c]

(* Growing is reflexive and transitive, and a blank cluster may be put at  *)
(* the end.                                                                *)
LEMMA GrownNot ==
  ASSUME NEW t \in Table, NEW s, IsChain(t, s)
  PROVE  Grown(t, s, t, s)
  BY ChainFacts DEF Grown

LEMMA GrownTwice ==
  ASSUME NEW t \in Table, NEW s, IsChain(t, s), NEW t2, NEW s2, Grown(t, s, t2, s2),
         NEW t3, NEW s3, Grown(t2, s2, t3, s3)
  PROVE  Grown(t, s, t3, s3)
<1>1. /\ t2 \in Table /\ IsChain(t2, s2) /\ t3 \in Table /\ IsChain(t3, s3)
      /\ Len(s) <= Len(s2) /\ \A i \in 1 .. Len(s) : s2[i] = s[i]
      /\ Len(s2) <= Len(s3) /\ \A i \in 1 .. Len(s2) : s3[i] = s2[i]
      /\ \A c \in Clusters(s2) : c \in Clusters(s) \/ t[c] = 0
      /\ \A c \in Clusters(s3) : c \in Clusters(s2) \/ t2[c] = 0
      /\ \A c \in Cluster : c \notin Clusters(s2) => t2[c] = t[c]
      /\ \A c \in Cluster : c \notin Clusters(s3) => t3[c] = t2[c]
  BY DEF Grown
<1>2. Len(s) \in Nat /\ Len(s2) \in Nat /\ Len(s3) \in Nat
  BY <1>1, ChainFacts
<1>3. Len(s) <= Len(s3) /\ \A i \in 1 .. Len(s) : s3[i] = s[i]
  BY <1>1, <1>2
<1>4. /\ Clusters(s2) \subseteq Cluster /\ Clusters(s3) \subseteq Cluster
      /\ \A c \in Clusters(s2) : t2[c] # 0
  BY <1>1, ChainFacts
<1>5. Clusters(s2) \subseteq Clusters(s3)
  BY <1>1, <1>2 DEF Clusters
<1>6. \A c \in Clusters(s3) : c \in Clusters(s) \/ t[c] = 0
  BY <1>1, <1>4
<1>7. \A c \in Cluster : c \notin Clusters(s3) => t3[c] = t[c]
  BY <1>1, <1>5
<1> QED
  BY <1>1, <1>3, <1>6, <1>7 DEF Grown

LEMMA GrownByOne ==
  ASSUME NEW t \in Table, NEW s, IsChain(t, s), NEW c \in Cluster, t[c] = 0
  PROVE  LET t2 == [t EXCEPT ![s[Len(s)]] = c, ![c] = LAST]
         IN  Grown(t, s, t2, Append(s, c))
<1> DEFINE n == Len(s)
           t2 == [t EXCEPT ![s[n]] = c, ![c] = LAST]
           s2 == Append(s, c)
<1>1. /\ n \in Nat /\ n >= 1 /\ \A i \in 1 .. n : s[i] \in Cluster
      /\ t[s[n]] = LAST /\ \A i \in 1 .. n : i < n => t[s[i]] = s[i + 1]
      /\ Clusters(s) = {s[i] : i \in 1 .. n} /\ \A d \in Clusters(s) : t[d] # 0
  BY ChainFacts DEF Clusters
<1>2. s \in Seq(Cluster) /\ \A i, j \in 1 .. n : s[i] = s[j] => i = j
  BY DEF IsChain
<1>3. /\ s2 \in Seq(Cluster) /\ Len(s2) = n + 1
      /\ \A i \in 1 .. n : s2[i] = s[i]
      /\ s2[n + 1] = c
  BY <1>2
<1> HIDE DEF n, s2
<1>4. \A i \in 1 .. n : s[i] # c
  BY <1>1
<1>5. s[n] \in Cluster /\ n \in 1 .. n
  BY <1>1
<1>6. t2 \in Table
  BY <1>5 DEF Table
<1>7. /\ t2[c] = LAST /\ t2[s[n]] = c
      /\ \A d \in Cluster : d # c /\ d # s[n] => t2[d] = t[d]
  BY <1>4, <1>5 DEF Table
<1> HIDE DEF t2
<1>8. \A i \in 1 .. n + 1 : i = n + 1 \/ i \in 1 .. n
  BY <1>1
<1>9. \A i, j \in 1 .. n + 1 : s2[i] = s2[j] => i = j
  BY <1>2, <1>3, <1>4, <1>8
<1>10. ASSUME NEW i \in 1 .. n + 1 PROVE t2[s2[i]] = IF i = n + 1 THEN LAST ELSE s2[i + 1]
  <2>1. CASE i = n + 1
    BY <1>3, <1>7, <2>1
  <2>2. CASE i = n
    BY <1>1, <1>3, <1>5, <1>7, <2>2
  <2>3. CASE i < n
    <3>1. i \in 1 .. n /\ i + 1 \in 1 .. n /\ i # n + 1 /\ i # n
      BY <1>1, <2>3
    <3>2. s[i] # c /\ s[i] # s[n] /\ s[i] \in Cluster
      BY <1>1, <1>2, <1>4, <1>5, <3>1
    <3>3. t2[s[i]] = s[i + 1]
      BY <1>1, <1>7, <2>3, <3>1, <3>2
    <3> QED
      BY <1>3, <3>1, <3>3
  <2> QED
    BY <1>1, <2>1, <2>2, <2>3
<1>11. n + 1 # 0
  BY <1>1
<1>12. IsChain(t2, s2)
  BY <1>3, <1>9, <1>10, <1>11 DEF IsChain
<1>13. Clusters(s2) = Clusters(s) \cup {c}
  <2> DEFINE m == n + 1
  <2>1. m \in 1 .. m /\ \A i \in 1 .. n : i \in 1 .. m
    BY <1>1
  <2>2. Len(s2) = m /\ s2[m] = c /\ \A i \in 1 .. m : i = m \/ i \in 1 .. n
    BY <1>3, <1>8
  <2> HIDE DEF m
  <2>3. Clusters(s2) = {s2[i] : i \in 1 .. m}
    BY <2>2 DEF Clusters
  <2>4. \A i \in 1 .. n : s2[i] = s[i]
    BY <1>3
  <2>5. \A d \in Clusters(s2) : d \in Clusters(s) \cup {c}
    BY <1>1, <2>2, <2>3, <2>4
  <2>6. \A d \in Clusters(s) \cup {c} : d \in Clusters(s2)
    BY <1>1, <2>1, <2>2, <2>3, <2>4
  <2> QED
    BY <2>5, <2>6
<1>14. s[n] \in Clusters(s)
  BY <1>1, <1>5
<1>15. n <= Len(s2)
  BY <1>1, <1>3
<1>16. \A d \in Clusters(s2) : d \in Clusters(s) \/ t[d] = 0
  BY <1>13
<1>17. \A d \in Cluster : d \notin Clusters(s2) => t2[d] = t[d]
  BY <1>7, <1>13, <1>14
<1>18. Grown(t, s, t2, s2)
  BY <1>3, <1>6, <1>12, <1>15, <1>16, <1>17 DEF Grown, n
<1> QED
  BY <1>18 DEF n, t2, s2

(* The cluster that is found blank is blank.                               *)
LEMMA MinOfBlank ==
  ASSUME NEW t, BlankIn(t) # {}
  PROVE  Min(BlankIn(t)) \in Cluster /\ t[Min(BlankIn(t))] = 0
<1>1. BlankIn(t) \in SUBSET Nat
  BY ClusterFacts DEF BlankIn
<1>2. \E x \in BlankIn(t) : \A y \in BlankIn(t) : x <= y
  BY <1>1, LeastElement
<1>3. Min(BlankIn(t)) \in BlankIn(t)
  BY <1>2 DEF Min
<1> QED
  BY <1>3 DEF BlankIn

(* What fatfs_add_free_space makes of a chain, also when the disk is full. *)
AddedTo(t, s, r) ==
  /\ r.ok \in BOOLEAN
  /\ \E s2 : /\ Grown(t, s, r.fat, s2)
             /\ r.ok => Len(s2) > Len(s) /\ r.first = s2[Len(s) + 1]

(* fatfs_add_free_space makes the chain longer by what it could get, also  *)
(* when it runs out of blank clusters (fat_write.c:45-76).                 *)
LEMMA AddFreeGrows ==
  ASSUME NEW t \in Table, NEW s, IsChain(t, s), NEW n \in Nat \ {0}
  PROVE  AddedTo(t, s, AddFree(t, s[Len(s)], n))
<1> DEFINE V == [fat : Table, last : Cluster, first : Cluster \cup {None}, ok : BOOLEAN]
           v0 == [fat |-> t, last |-> s[Len(s)], first |-> None, ok |-> TRUE]
           step(k, r) ==
             IF ~r.ok \/ BlankIn(r.fat) = {} THEN [r EXCEPT !.ok = FALSE]
             ELSE [fat |-> [r.fat EXCEPT ![r.last] = Min(BlankIn(r.fat)),
                                         ![Min(BlankIn(r.fat))] = LAST],
                   last |-> Min(BlankIn(r.fat)),
                   first |-> IF k = 1 THEN Min(BlankIn(r.fat)) ELSE r.first, ok |-> TRUE]
           It(h) == [k \in 0 .. n |-> IF k = 0 THEN v0 ELSE step(k, h[k - 1])]
           F == [k \in 1 .. n |-> [r \in V |-> step(k, r)]]
           add == CHOOSE h : h = It(h)
<1>1. AddFree(t, s[Len(s)], n) = add[n]
  BY DEF AddFree
<1>2. Len(s) \in Nat /\ Len(s) >= 1 /\ s[Len(s)] \in Cluster
  BY ChainFacts
<1>3. v0 \in V
  BY <1>2
<1>4. ASSUME NEW k \in 1 .. n, NEW r \in V PROVE step(k, r) \in V
  <2>1. CASE ~r.ok \/ BlankIn(r.fat) = {}
    BY <2>1
  <2>2. CASE ~(~r.ok \/ BlankIn(r.fat) = {})
    <3> DEFINE c == Min(BlankIn(r.fat))
    <3>1. c \in Cluster
      BY <2>2, MinOfBlank
    <3>2. step(k, r) = [fat |-> [r.fat EXCEPT ![r.last] = c, ![c] = LAST], last |-> c,
                        first |-> IF k = 1 THEN c ELSE r.first, ok |-> TRUE]
      BY <2>2
    <3> HIDE DEF c, step
    <3>3. [r.fat EXCEPT ![r.last] = c, ![c] = LAST] \in Table
      BY <3>1 DEF Table
    <3> QED
      BY <3>1, <3>2, <3>3
  <2> QED
    BY <2>1, <2>2
<1> HIDE DEF V, v0, step
<1>5. \E g \in [0 .. n -> V] : Iterated(g, F, n, v0)
  <2>1. Folds(F, V, n, v0)
    BY <1>3, <1>4 DEF Folds
  <2> HIDE DEF F
  <2> QED
    BY <2>1, Iteration
<1>6. PICK g \in [0 .. n -> V] : \A k \in 0 .. n : g[k] = IF k = 0 THEN v0 ELSE F[k][g[k - 1]]
  BY <1>5 DEF Iterated
<1>7. g = It(g)
  <2>1. \A k \in 0 .. n : k # 0 => k \in 1 .. n /\ k - 1 \in 0 .. n
    OBVIOUS
  <2>2. \A k \in 0 .. n : k # 0 => F[k][g[k - 1]] = step(k, g[k - 1])
    BY <2>1
  <2> QED
    BY <1>6, <2>2
<1>8. add = It(add)
  <2> HIDE DEF It
  <2> QED
    BY <1>7
<1> HIDE DEF add
<1> DEFINE Good(k, r) ==
             /\ r \in V
             /\ \E s2 : /\ Grown(t, s, r.fat, s2) /\ r.last = s2[Len(s2)]
                        /\ k # 0 /\ r.ok => Len(s2) > Len(s) /\ r.first = s2[Len(s) + 1]
                        /\ k = 0 => s2 = s
           T == {k \in 0 .. n : Good(k, add[k])}
<1>9. 0 \in T
  <2>1. add[0] = v0 /\ 0 \in 0 .. n
    BY <1>8
  <2>2. Grown(t, s, v0.fat, s) /\ v0.last = s[Len(s)]
    BY GrownNot DEF v0
  <2> QED
    BY <1>3, <2>1, <2>2
<1>10. ASSUME NEW k \in 1 .. n, k - 1 \in T PROVE k \in T
  <2> DEFINE r == add[k - 1]
  <2>1. add[k] = step(k, r) /\ k \in 0 .. n /\ k # 0
    BY <1>8
  <2>2. Good(k - 1, r)
    BY <1>10
  <2>3. PICK s1 : /\ Grown(t, s, r.fat, s1) /\ r.last = s1[Len(s1)]
                  /\ k - 1 # 0 /\ r.ok => Len(s1) > Len(s) /\ r.first = s1[Len(s) + 1]
                  /\ k - 1 = 0 => s1 = s
    BY <2>2
  <2>4. r \in V /\ step(k, r) \in V
    BY <1>4, <2>2
  <2> HIDE DEF r
  <2>5. CASE ~r.ok \/ BlankIn(r.fat) = {}
    <3>1. step(k, r) = [r EXCEPT !.ok = FALSE]
      BY <2>5 DEF step
    <3>2. step(k, r).fat = r.fat /\ step(k, r).last = r.last /\ step(k, r).ok = FALSE
      BY <2>4, <3>1 DEF V
    <3>3. Good(k, step(k, r))
      BY <2>1, <2>3, <2>4, <3>2
    <3> QED
      BY <2>1, <3>3
  <2>6. CASE r.ok /\ BlankIn(r.fat) # {}
    <3> DEFINE c == Min(BlankIn(r.fat))
               s2 == Append(s1, c)
               t2 == [r.fat EXCEPT ![s1[Len(s1)]] = c, ![c] = LAST]
    <3>1. c \in Cluster /\ r.fat[c] = 0
      BY <2>6, MinOfBlank
    <3>2. step(k, r) = [fat |-> t2, last |-> c, first |-> IF k = 1 THEN c ELSE r.first, ok |-> TRUE]
      BY <2>3, <2>6 DEF step
    <3>3. r.fat \in Table /\ IsChain(r.fat, s1)
      BY <2>3 DEF Grown
    <3> HIDE DEF c
    <3>4. Grown(r.fat, s1, t2, s2)
      BY <3>1, <3>3, GrownByOne
    <3>5. Grown(t, s, t2, s2)
      <4> HIDE DEF t2, s2
      <4> QED
        BY <2>3, <3>4, GrownTwice
    <3>6. /\ Len(s1) \in Nat /\ Len(s1) >= 1 /\ Len(s2) = Len(s1) + 1 /\ s2[Len(s2)] = c
          /\ \A i \in 1 .. Len(s1) : s2[i] = s1[i]
      <4>1. s1 \in Seq(Cluster) /\ Len(s1) \in Nat /\ Len(s1) >= 1
        BY <3>3, ChainFacts DEF IsChain
      <4> QED
        BY <3>1, <4>1
    <3>7. Len(s1) >= Len(s)
      BY <2>3 DEF Grown
    <3> HIDE DEF t2, s2
    <3>8. Len(s2) > Len(s) /\ step(k, r).first = s2[Len(s) + 1]
      <4>1. CASE k = 1
        BY <1>2, <2>3, <3>2, <3>6, <4>1
      <4>2. CASE k # 1
        <5>1. k - 1 # 0
          BY <4>2
        <5>2. Len(s1) > Len(s) /\ r.first = s1[Len(s) + 1]
          BY <2>3, <2>6, <5>1
        <5>3. Len(s) + 1 \in 1 .. Len(s1)
          BY <1>2, <3>6, <5>2
        <5> QED
          BY <1>2, <3>2, <3>6, <4>2, <5>2, <5>3
      <4> QED
        BY <4>1, <4>2
    <3>9. step(k, r).fat = t2 /\ step(k, r).last = s2[Len(s2)]
      BY <3>2, <3>6
    <3>10. Good(k, step(k, r))
      BY <2>1, <2>4, <3>5, <3>8, <3>9
    <3> QED
      BY <2>1, <3>10
  <2>7. r.ok \in BOOLEAN
    BY <2>4 DEF V
  <2> QED
    BY <2>5, <2>6, <2>7
<1>11. \A k \in 0 .. n : k \in T
  <2> HIDE DEF T
  <2> QED
    BY <1>9, <1>10, InductionTo
<1>12. Good(n, add[n])
  BY <1>11
<1>13. add[n].ok \in BOOLEAN
  BY <1>12 DEF V
<1> QED
  BY <1>1, <1>12, <1>13 DEF AddedTo

(***************************************************************************)
(* Sectors of a chain, and the accesses to what is left of one cluster.    *)
(***************************************************************************)
Disk == [Cluster -> [0 .. PerCluster - 1 -> Sector]]
SecAt(d, s, x) == d[s[ClOf(x) + 1]][InCl(x)]
Infos == [first : Cluster, look : [index : Nat \cup {None}, cluster : Cluster \cup {None}],
          addr : Nat \cup {None}, sector : Sector]

Works == [fat : Table, data : Disk, info : Infos, done : Nat, bytes : Seq(Byte), n : Nat,
          go : BOOLEAN, halted : BOOLEAN]

(* The sectors of a chain lie in its clusters, on the disk.                *)
LEMMA ClusterOfSector ==
  ASSUME NEW t \in Table, NEW s, IsChain(t, s), NEW x \in Nat, x < First(Len(s))
  PROVE  ClOf(x) \in Nat /\ ClOf(x) < Len(s) /\ ClOf(x) + 1 \in 1 .. Len(s)
         /\ InCl(x) \in 0 .. PerCluster - 1
         /\ s[ClOf(x) + 1] \in Clusters(s) /\ s[ClOf(x) + 1] \in Cluster
<1>1. Len(s) \in Nat /\ \A i \in 1 .. Len(s) : s[i] \in Cluster
  BY ChainFacts
<1>2. ClOf(x) \in Nat /\ InCl(x) \in 0 .. PerCluster - 1 /\ ClOf(x) < Len(s)
  BY <1>1, SectorFacts, SectorsBefore
<1>3. ClOf(x) + 1 \in 1 .. Len(s)
  BY <1>1, <1>2
<1> QED
  BY <1>1, <1>2, <1>3 DEF Clusters

LEMMA SectorOnDisk ==
  ASSUME NEW t \in Table, NEW s, IsChain(t, s), NEW d \in Disk,
         NEW x \in Nat, x < First(Len(s))
  PROVE  SecAt(d, s, x) \in Sector
  BY ClusterOfSector DEF SecAt, Disk

(* The sectors from at on that lie in its cluster, up to n of them.        *)
LEMMA SectorsTogether ==
  ASSUME NEW at \in Nat, NEW n \in Nat \ {0}, NEW x \in Nat
  PROVE  LET m == InCluster(at, n)
         IN  /\ m \in 1 .. n /\ InCl(at) + m <= PerCluster /\ at + m <= First(ClOf(at) + 1)
             /\ at <= x /\ x < at + m <=>
                  ClOf(x) = ClOf(at) /\ InCl(at) <= InCl(x) /\ InCl(x) < InCl(at) + m
             /\ ClOf(x) = ClOf(at) => x - at = InCl(x) - InCl(at)
<1> DEFINE m == InCluster(at, n)
<1>1. ClOf(at) \in Nat /\ InCl(at) \in 0 .. PerCluster - 1 /\ at = First(ClOf(at)) + InCl(at)
  BY SectorFacts
<1>2. ClOf(x) \in Nat /\ InCl(x) \in 0 .. PerCluster - 1 /\ x = First(ClOf(x)) + InCl(x)
  BY SectorFacts
<1>3. /\ First(ClOf(at)) \in Nat /\ First(ClOf(x)) \in Nat
      /\ First(ClOf(at) + 1) = First(ClOf(at)) + PerCluster
  BY <1>1, <1>2, FirstFacts
<1>4. m = Least(n, PerCluster - InCl(at))
  BY DEF InCluster, InCl
<1>5. m \in 1 .. n /\ InCl(at) + m <= PerCluster
  BY <1>1, <1>4, SizeFacts DEF Least
<1> HIDE DEF m
<1>6. ClOf(x) = ClOf(at) => x - at = InCl(x) - InCl(at)
  BY <1>1, <1>2, <1>3, SizeFacts
<1>7. ASSUME at <= x, x < at + m PROVE ClOf(x) = ClOf(at)
  <2>1. InCl(at) + (x - at) \in 0 .. PerCluster - 1
    BY <1>1, <1>5, <1>7, SizeFacts
  <2>2. x = First(ClOf(at)) + (InCl(at) + (x - at))
    BY <1>1, <1>3, SizeFacts
  <2> QED
    BY <1>1, <2>1, <2>2, SectorIn
<1>8. at + m <= First(ClOf(at) + 1)
  BY <1>1, <1>3, <1>5, SizeFacts
<1>9. at <= x /\ x < at + m <=>
        ClOf(x) = ClOf(at) /\ InCl(at) <= InCl(x) /\ InCl(x) < InCl(at) + m
  BY <1>1, <1>2, <1>3, <1>5, <1>6, <1>7, SizeFacts
<1> QED
  BY <1>5, <1>6, <1>8, <1>9 DEF m

(* A longer chain has the sectors of a shorter one, and its places.        *)
LEMMA GrownSectors ==
  ASSUME NEW t \in Table, NEW s, IsChain(t, s), NEW t2, NEW s2, Grown(t, s, t2, s2)
  PROVE  /\ First(Len(s)) <= First(Len(s2)) /\ First(Len(s)) \in Nat /\ First(Len(s2)) \in Nat
         /\ \A d, x : x \in Nat /\ x < First(Len(s)) => SecAt(d, s2, x) = SecAt(d, s, x)
         /\ \A info : LookOk(info, s) => LookOk(info, s2)
         /\ Clusters(s) \subseteq Clusters(s2)
         /\ s2[1] = s[1]
<1>1. /\ t2 \in Table /\ IsChain(t2, s2)
      /\ Len(s) <= Len(s2) /\ \A i \in 1 .. Len(s) : s2[i] = s[i]
  BY DEF Grown
<1>2. Len(s) \in Nat /\ Len(s) >= 1 /\ Len(s2) \in Nat
  BY <1>1, ChainFacts
<1>3. First(Len(s)) <= First(Len(s2)) /\ First(Len(s)) \in Nat /\ First(Len(s2)) \in Nat
  BY <1>1, <1>2, FirstFacts
<1>4. ASSUME NEW d, NEW x \in Nat, x < First(Len(s)) PROVE SecAt(d, s2, x) = SecAt(d, s, x)
  BY <1>1, <1>4, ClusterOfSector DEF SecAt
<1>5. s2[1] = s[1]
  BY <1>1, <1>2
<1>6. ASSUME NEW info, LookOk(info, s) PROVE LookOk(info, s2)
  <2>1. CASE info.look.index = None
    BY <1>5, <1>6, <2>1 DEF LookOk
  <2>2. CASE info.look.index # None
    <3>1. /\ info.look.index \in Nat /\ info.look.index < Len(s) /\ info.first = s[1]
          /\ info.look.cluster = s[info.look.index + 1]
      BY <1>6, <2>2 DEF LookOk
    <3>2. info.look.index + 1 \in 1 .. Len(s) /\ info.look.index < Len(s2)
      BY <1>1, <1>2, <3>1
    <3> QED
      BY <1>1, <1>5, <3>1, <3>2 DEF LookOk
  <2> QED
    BY <2>1, <2>2
<1>7. Clusters(s) \subseteq Clusters(s2)
  BY <1>1, <1>2 DEF Clusters
<1> QED
  BY <1>3, <1>4, <1>5, <1>6, <1>7

(* A place that a walk has found is one on the chain.                      *)
LEMMA PlacedOk ==
  ASSUME NEW s, NEW info \in Infos, LookOk(info, s), NEW i \in Nat, i < Len(s),
         NEW c \in Cluster, c = s[i + 1]
  PROVE  /\ Placed(info, i, c) \in Infos /\ LookOk(Placed(info, i, c), s)
         /\ Placed(info, i, c).addr = info.addr /\ Placed(info, i, c).sector = info.sector
         /\ Placed(info, i, c).first = info.first
<1> DEFINE p == Placed(info, i, c)
<1>1. p = [first |-> info.first, look |-> [index |-> i, cluster |-> c], addr |-> info.addr,
           sector |-> info.sector]
  BY DEF Placed, Infos
<1>2. p \in Infos
  BY <1>1 DEF Infos
<1> HIDE DEF p
<1>3. LookOk(p, s)
  BY <1>1 DEF LookOk
<1> QED
  BY <1>1, <1>2, <1>3 DEF p

(* What _write_sectors makes of an access: the chain has grown and some    *)
(* sectors are written, or it cannot grow.                                 *)
Kept(w, r) == r \in Works /\ r.done = w.done /\ r.halted = w.halted
NoneWritten(w, s, at, r) ==
  Kept(w, r) /\ r.data = w.data /\ r.info = w.info /\ r.n = 0 /\ at = First(Len(s))
SomeWritten(w, s2, at, secs, r) ==
  /\ Kept(w, r)
  /\ r.n \in 1 .. Len(secs) /\ at + r.n <= First(Len(s2))
  /\ LookOk(r.info, s2) /\ r.info.addr = w.info.addr /\ r.info.sector = w.info.sector
  /\ \A x \in Nat : x < First(Len(s2)) =>
       SecAt(r.data, s2, x) = IF at <= x /\ x < at + r.n THEN secs[x - at + 1]
                              ELSE SecAt(w.data, s2, x)
  /\ \A c \in Cluster : c \notin Clusters(s2) => r.data[c] = w.data[c]
SectorsWritten(w, s, at, secs, r) ==
  \E s2 : /\ Grown(w.fat, s, r.fat, s2)
          /\ NoneWritten(w, s, at, r) \/ SomeWritten(w, s2, at, secs, r)

SectorWrite(w, t, at, secs, c) ==
  [w EXCEPT !.fat = t, !.info = Placed(w.info, ClOf(at), c), !.n = InCluster(at, Len(secs)),
     !.data[c] = [k \in 0 .. PerCluster - 1 |->
       IF k \in InCl(at) .. InCl(at) + InCluster(at, Len(secs)) - 1
       THEN secs[k - InCl(at) + 1] ELSE @[k]]]

CanWrite(w, s, at, secs) ==
  /\ w \in Works /\ IsChain(w.fat, s) /\ LookOk(w.info, s)
  /\ at \in Nat /\ secs \in Seq(Sector) /\ Len(secs) # 0

(* What is left of one cluster is written, and no other sector of the      *)
(* chain changes.                                                          *)
LEMMA InSector ==
  ASSUME NEW w, NEW s, NEW at, NEW secs, CanWrite(w, s, at, secs),
         NEW t2, NEW s2, Grown(w.fat, s, t2, s2), ClOf(at) < Len(s2),
         NEW r, r = SectorWrite(w, t2, at, secs, s2[ClOf(at) + 1])
  PROVE  r.fat = t2 /\ SomeWritten(w, s2, at, secs, r)
<1> USE DEF CanWrite
<1> DEFINE c == s2[ClOf(at) + 1]
           i == ClOf(at)
           n == Len(secs)
           m == InCluster(at, n)
           in == InCl(at)
           new == [k \in 0 .. PerCluster - 1 |->
                     IF k \in in .. in + m - 1 THEN secs[k - in + 1] ELSE w.data[c][k]]
<1>1. t2 \in Table /\ IsChain(t2, s2)
  BY DEF Grown
<1>2. Len(s2) \in Nat /\ i \in Nat /\ i + 1 \in 1 .. Len(s2) /\ c \in Cluster /\ c \in Clusters(s2)
  <2>1. Len(s2) \in Nat /\ i \in Nat
    BY <1>1, ChainFacts, SectorFacts
  <2>2. i + 1 \in 1 .. Len(s2)
    BY <2>1
  <2> QED
    BY <1>1, <2>1, <2>2, ChainFacts DEF Clusters
<1>3. n \in Nat \ {0} /\ \A k \in 1 .. n : secs[k] \in Sector
  OBVIOUS
<1>4. in \in 0 .. PerCluster - 1 /\ m \in 1 .. n /\ in + m <= PerCluster
      /\ at + m <= First(i + 1)
  BY <1>3, SectorsTogether, SectorFacts
<1>5. r = [fat |-> t2, data |-> [w.data EXCEPT ![c] = new], info |-> Placed(w.info, i, c),
           done |-> w.done, bytes |-> w.bytes, n |-> m, go |-> w.go, halted |-> w.halted]
  BY DEF Works, SectorWrite
<1>6. w.data \in Disk /\ w.info \in Infos
  BY DEF Works
<1>7. new \in [0 .. PerCluster - 1 -> Sector]
  <2>1. ASSUME NEW k \in 0 .. PerCluster - 1 PROVE new[k] \in Sector
    <3>1. CASE k \in in .. in + m - 1
      <4>1. k - in + 1 \in 1 .. n
        BY <1>3, <1>4, <3>1, SizeFacts
      <4> QED
        BY <1>3, <3>1, <4>1
    <3>2. CASE k \notin in .. in + m - 1
      BY <1>2, <1>6, <3>2 DEF Disk
    <3> QED
      BY <3>1, <3>2
  <2>2. new = [k \in 0 .. PerCluster - 1 |-> new[k]]
    OBVIOUS
  <2> HIDE DEF new
  <2> QED
    BY <2>1, <2>2
<1>8. \A k \in 0 .. PerCluster - 1 :
        new[k] = IF in <= k /\ k < in + m THEN secs[k - in + 1] ELSE w.data[c][k]
  BY <1>4, SizeFacts
<1> HIDE DEF new, m, in, n
<1>9. r.data \in Disk /\ r.data[c] = new /\ \A d \in Cluster : d # c => r.data[d] = w.data[d]
  BY <1>2, <1>5, <1>6, <1>7 DEF Disk
<1>10. LookOk(w.info, s2)
  <2>1. w.fat \in Table
    BY DEF Works
  <2> QED
    BY <2>1, GrownSectors
<1>11. /\ r.info \in Infos /\ LookOk(r.info, s2)
       /\ r.info.addr = w.info.addr /\ r.info.sector = w.info.sector
  <2>1. r.info = Placed(w.info, i, c)
    BY <1>5
  <2>2. i < Len(s2)
    BY <1>2
  <2> HIDE DEF i
  <2> QED
    BY <1>2, <1>6, <1>10, <2>1, <2>2, PlacedOk DEF i
<1>12. r.n \in 1 .. n /\ at + r.n <= First(Len(s2))
  <2>1. First(i + 1) <= First(Len(s2)) /\ First(i + 1) \in Nat /\ First(Len(s2)) \in Nat
    BY <1>2, FirstFacts
  <2> QED
    BY <1>3, <1>4, <1>5, <2>1
<1>13. ASSUME NEW x \in Nat, x < First(Len(s2))
       PROVE  SecAt(r.data, s2, x) = IF at <= x /\ x < at + r.n THEN secs[x - at + 1]
                                     ELSE SecAt(w.data, s2, x)
  <2>1. /\ at <= x /\ x < at + m <=> ClOf(x) = i /\ in <= InCl(x) /\ InCl(x) < in + m
        /\ ClOf(x) = i => x - at = InCl(x) - in
    BY <1>3, SectorsTogether DEF m, in
  <2>2. /\ ClOf(x) \in Nat /\ ClOf(x) + 1 \in 1 .. Len(s2) /\ InCl(x) \in 0 .. PerCluster - 1
        /\ s2[ClOf(x) + 1] \in Cluster
    BY <1>1, <1>13, ClusterOfSector
  <2>3. r.n = m
    BY <1>5
  <2>4. CASE ClOf(x) = i
    <3>1. SecAt(r.data, s2, x) = new[InCl(x)] /\ SecAt(w.data, s2, x) = w.data[c][InCl(x)]
      BY <1>9, <2>4 DEF SecAt, i
    <3>2. new[InCl(x)] = IF in <= InCl(x) /\ InCl(x) < in + m THEN secs[InCl(x) - in + 1]
                         ELSE w.data[c][InCl(x)]
      BY <1>8, <2>2
    <3> QED
      BY <2>1, <2>3, <2>4, <3>1, <3>2
  <2>5. CASE ClOf(x) # i
    <3>1. s2[ClOf(x) + 1] # s2[i + 1]
      <4>1. ClOf(x) + 1 # i + 1
        BY <1>2, <2>2, <2>5
      <4> QED
        BY <1>1, <1>2, <2>2, <4>1 DEF IsChain
    <3>2. SecAt(r.data, s2, x) = SecAt(w.data, s2, x)
      BY <1>9, <2>2, <3>1 DEF SecAt, i
    <3> QED
      BY <2>1, <2>3, <2>5, <3>2
  <2> QED
    BY <2>4, <2>5
<1>14. \A d \in Cluster : d \notin Clusters(s2) => r.data[d] = w.data[d]
  BY <1>2, <1>9
<1>15. Kept(w, r)
  <2>1. m \in Nat
    BY <1>3, <1>4
  <2>2. r = [fat |-> r.fat, data |-> r.data, info |-> r.info, done |-> w.done,
             bytes |-> w.bytes, n |-> m, go |-> w.go, halted |-> w.halted]
    BY <1>5
  <2>3. r.fat \in Table
    BY <1>1, <1>5
  <2>4. r \in Works
    BY <1>9, <1>11, <2>1, <2>2, <2>3 DEF Works
  <2> QED
    BY <1>5, <2>4 DEF Kept
<1>16. r.fat = t2
  BY <1>5
<1> QED
  BY <1>9, <1>11, <1>12, <1>13, <1>14, <1>15, <1>16 DEF SomeWritten, n

(* _write_sectors with room behind the chain writes what is left of one    *)
(* cluster; without room it writes nothing, and the chain may have grown   *)
(* (fatfs.c:267-348).                                                      *)
LEMMA WriteSectorsIs ==
  ASSUME NEW w, NEW s, NEW at, NEW secs, CanWrite(w, s, at, secs), at <= First(Len(s))
  PROVE  SectorsWritten(w, s, at, secs, WriteSectors(w, at, secs))
<1> DEFINE i == at \div PerCluster
           n == Len(secs)
           l == Look(w.fat, w.info, i)
           q == (n + PerCluster - 1) \div PerCluster
           more == AddFree(w.fat, l.prev, q)
           t2 == IF l.cluster = LAST THEN more.fat ELSE w.fat
           c == IF l.cluster = LAST THEN more.first ELSE l.cluster
           r == WriteSectors(w, at, secs)
<1>0. /\ w \in Works /\ IsChain(w.fat, s) /\ LookOk(w.info, s)
      /\ at \in Nat /\ secs \in Seq(Sector) /\ Len(secs) # 0
  BY DEF CanWrite
<1>1. w.fat \in Table /\ at \in Nat
  BY <1>0 DEF Works
<1>2. Len(s) \in Nat /\ Len(s) >= 1 /\ i \in Nat /\ i = ClOf(at)
  BY <1>0, <1>1, ChainFacts, SectorFacts DEF ClOf
<1>3. IF i < Len(s) THEN l.cluster = s[i + 1] ELSE l.cluster = LAST /\ l.prev = s[Len(s)]
  BY <1>0, <1>1, <1>2, LookIs DEF Found
<1>4. n \in Nat \ {0}
  BY <1>0
<1>5. q \in Nat \ {0}
  <2> DEFINE y == n + PerCluster - 1
  <2>1. y \in Nat /\ y >= PerCluster
    BY <1>4, SizeFacts
  <2> HIDE DEF y, n
  <2>2. First(1) = PerCluster
    BY SizeFacts DEF First
  <2>3. ClOf(y) \in Nat /\ ~(ClOf(y) < 1)
    <3>1. ClOf(y) \in Nat
      BY <2>1, SectorFacts
    <3>2. y < First(1) <=> ClOf(y) < 1
      BY <2>1, SectorsBefore
    <3> QED
      BY <2>1, <2>2, <3>1, <3>2, SizeFacts
  <2> QED
    BY <2>3 DEF ClOf, y
<1>6. r = IF l.cluster = LAST /\ ~more.ok THEN [w EXCEPT !.fat = t2, !.n = 0]
          ELSE SectorWrite(w, t2, at, secs, c)
  BY DEF WriteSectors, SectorWrite, ClOf, InCl
<1>7. CASE i < Len(s)
  <2>1. l.cluster = s[i + 1] /\ s[i + 1] \in Cluster /\ i + 1 \in 1 .. Len(s)
    <3>1. i + 1 \in 1 .. Len(s)
      BY <1>2, <1>7
    <3> QED
      BY <1>0, <1>1, <1>3, <1>7, <3>1, ChainFacts
  <2>2. l.cluster # LAST /\ t2 = w.fat /\ c = s[i + 1]
    BY <2>1, ClusterFacts
  <2>3. Grown(w.fat, s, w.fat, s)
    BY <1>0, <1>1, GrownNot
  <2>4. r = SectorWrite(w, w.fat, at, secs, c)
    BY <1>6, <2>2
  <2> HIDE DEF i, l, c, r, n
  <2>5. ClOf(at) < Len(s) /\ c = s[ClOf(at) + 1]
    BY <1>2, <1>7, <2>2
  <2>6. SomeWritten(w, s, at, secs, r) /\ r.fat = w.fat
    BY <2>3, <2>4, <2>5, InSector
  <2> QED
    BY <2>3, <2>6 DEF SectorsWritten, r
<1>8. CASE ~(i < Len(s))
  <2>1. l.cluster = LAST /\ l.prev = s[Len(s)]
    BY <1>3, <1>8
  <2>2. AddedTo(w.fat, s, more)
    <3> HIDE DEF q
    <3> QED
      BY <1>0, <1>1, <1>5, <2>1, AddFreeGrows
  <2>3. PICK s2 : /\ Grown(w.fat, s, more.fat, s2)
                  /\ more.ok => Len(s2) > Len(s) /\ more.first = s2[Len(s) + 1]
    BY <2>2 DEF AddedTo
  <2>4. t2 = more.fat /\ c = more.first
    BY <2>1
  <2>5. i = Len(s) /\ at = First(Len(s))
    <3>1. First(i) <= at
      <4> HIDE DEF i
      <4>1. ~(at < First(i))
        BY <1>1, <1>2, SectorsBefore
      <4>2. First(i) \in Nat
        BY <1>2, FirstFacts
      <4> QED
        BY <1>1, <4>1, <4>2
    <3>2. First(Len(s)) \in Nat /\ First(i) \in Nat /\ (Len(s) < i => First(Len(s)) + PerCluster <= First(i))
      BY <1>2, FirstFacts
    <3>3. i = Len(s)
      BY <1>1, <1>2, <1>8, <3>1, <3>2, SizeFacts
    <3> QED
      BY <1>1, <3>1, <3>2, <3>3
  <2>6. CASE more.ok
    <3>1. r = SectorWrite(w, more.fat, at, secs, c)
      BY <1>6, <2>4, <2>6
    <3>2. c = s2[ClOf(at) + 1] /\ ClOf(at) < Len(s2)
      BY <1>2, <2>3, <2>4, <2>5, <2>6
    <3> HIDE DEF i, l, c, r, n, more
    <3>3. SomeWritten(w, s2, at, secs, r) /\ r.fat = more.fat
      BY <2>3, <3>1, <3>2, InSector
    <3> QED
      BY <2>3, <3>3 DEF SectorsWritten, r
  <2>7. CASE ~more.ok
    <3>1. r = [w EXCEPT !.fat = more.fat, !.n = 0]
      BY <1>6, <2>1, <2>4, <2>7
    <3> HIDE DEF r, more
    <3>2. more.fat \in Table
      BY <2>3 DEF Grown
    <3>3. r = [fat |-> more.fat, data |-> w.data, info |-> w.info, done |-> w.done,
               bytes |-> w.bytes, n |-> 0, go |-> w.go, halted |-> w.halted]
      BY <1>0, <3>1 DEF Works
    <3>4. r \in Works
      BY <1>0, <3>2, <3>3 DEF Works
    <3>5. NoneWritten(w, s, at, r)
      BY <2>5, <3>3, <3>4 DEF NoneWritten, Kept
    <3> QED
      BY <2>3, <3>3, <3>5 DEF SectorsWritten, r
  <2> QED
    BY <2>6, <2>7
<1> QED
  BY <1>7, <1>8

(* Sectors one after the other are the sequence of their bytes.            *)
Bytes(secs, n) == [j \in 1 .. Start(n) |-> secs[SecOf(j - 1) + 1][In(j - 1) + 1]]

(* The bytes of a sequence of sectors.                                     *)
LEMMA BytesAre ==
  ASSUME NEW n \in Nat, NEW secs \in [1 .. n -> Sector], NEW m \in 0 .. n
  PROVE  Bytes(secs, m) \in Seq(Byte) /\ Len(Bytes(secs, m)) = Start(m)
<1>1. Start(m) \in Nat
  <2>1. m \in Nat
    OBVIOUS
  <2> QED
    BY <2>1, StartFacts
<1>2. ASSUME NEW j \in 1 .. Start(m) PROVE secs[SecOf(j - 1) + 1][In(j - 1) + 1] \in Byte
  <2>1. j - 1 \in Nat /\ j - 1 < Start(m)
    BY <1>1
  <2>2. SecOf(j - 1) \in Nat /\ SecOf(j - 1) < m /\ In(j - 1) \in 0 .. SectorSize - 1
    <3> HIDE DEF SecOf, In
    <3> QED
      BY <2>1, ByteFacts, BytesBefore
  <2>3. SecOf(j - 1) + 1 \in 1 .. n /\ In(j - 1) + 1 \in 1 .. SectorSize
    BY <2>2, SizeFacts
  <2>4. secs[SecOf(j - 1) + 1] \in Sector
    BY <2>3
  <2> QED
    BY <2>3, <2>4 DEF Sector
<1> DEFINE k == Start(m)
           b == Bytes(secs, m)
<1>3. b \in [1 .. k -> Byte]
  BY <1>2 DEF Bytes
<1> HIDE DEF b, k
<1>4. k \in Nat
  BY <1>1 DEF k
<1>5. b \in Seq(Byte) /\ Len(b) = k
  BY <1>3, <1>4
<1> QED
  BY <1>5 DEF b, k

LEMMA BytesAppend ==
  ASSUME NEW n \in Nat, NEW secs \in [1 .. n -> Sector], NEW i \in 1 .. n
  PROVE  Bytes(secs, i) = Bytes(secs, i - 1) \o secs[i]
<1> DEFINE a == Bytes(secs, i - 1)
           b == Bytes(secs, i)
           c == secs[i]
           k == Start(i - 1)
<1>1. i - 1 \in 0 .. n /\ i \in 0 .. n /\ i - 1 \in Nat /\ (i - 1) + 1 = i
  OBVIOUS
<1>2. a \in Seq(Byte) /\ Len(a) = k /\ b \in Seq(Byte) /\ Len(b) = Start(i)
  BY <1>1, BytesAre
<1>3. k \in Nat /\ Start(i) = k + SectorSize
  <2>1. Start((i - 1) + 1) = k + SectorSize /\ k \in Nat
    BY <1>1, StartFacts
  <2> QED
    BY <1>1, <2>1
<1>4. c \in [1 .. SectorSize -> Byte]
  BY DEF Sector
<1>5. c \in Seq(Byte) /\ Len(c) = SectorSize
  <2> HIDE DEF c
  <2> QED
    BY <1>4, SizeFacts
<1>6. ASSUME NEW j \in 1 .. k PROVE b[j] = a[j]
  <2>1. j \in 1 .. Start(i)
    BY <1>3, SizeFacts
  <2> QED
    BY <2>1 DEF Bytes
<1>7. ASSUME NEW j \in 1 .. SectorSize PROVE b[k + j] = c[j]
  <2>1. k + j \in 1 .. Start(i) /\ j - 1 \in 0 .. SectorSize - 1 /\ (k + j) - 1 = k + (j - 1)
    BY <1>3, SizeFacts
  <2>2. SecOf(k + (j - 1)) = i - 1 /\ In(k + (j - 1)) = j - 1
    BY <1>1, <2>1, ByteIn
  <2>3. SecOf((k + j) - 1) + 1 = i /\ In((k + j) - 1) + 1 = j
    BY <2>1, <2>2
  <2>4. b[k + j] = secs[SecOf((k + j) - 1) + 1][In((k + j) - 1) + 1]
    BY <2>1 DEF Bytes
  <2> QED
    BY <2>3, <2>4
<1> HIDE DEF a, b, c, k
<1>8. /\ a \o c \in Seq(Byte) /\ Len(a \o c) = k + SectorSize
      /\ \A j \in 1 .. k : (a \o c)[j] = a[j]
      /\ \A j \in 1 .. SectorSize : (a \o c)[k + j] = c[j]
  <2>1. /\ a \o c \in Seq(Byte) /\ Len(a \o c) = Len(a) + Len(c)
        /\ \A j \in 1 .. Len(a) + Len(c) :
             (a \o c)[j] = IF j <= Len(a) THEN a[j] ELSE c[j - Len(a)]
    BY <1>2, <1>5, ConcatProperties
  <2> DEFINE e == a \o c
  <2> HIDE DEF e
  <2>2. \A j \in 1 .. k + SectorSize : e[j] = IF j <= k THEN a[j] ELSE c[j - k]
    BY <1>2, <1>5, <2>1 DEF e
  <2>3. \A j \in 1 .. k : e[j] = a[j]
    BY <1>3, <2>2, SizeFacts
  <2>4. ASSUME NEW j \in 1 .. SectorSize PROVE e[k + j] = c[j]
    <3>1. k + j \in 1 .. k + SectorSize /\ ~(k + j <= k) /\ (k + j) - k = j
      BY <1>3, SizeFacts
    <3> QED
      BY <2>2, <3>1
  <2> QED
    BY <1>2, <1>5, <2>1, <2>3, <2>4 DEF e
<1>9. ASSUME NEW j \in 1 .. k + SectorSize PROVE (a \o c)[j] = b[j]
  <2>1. CASE j <= k
    BY <1>3, <1>6, <1>8, <2>1
  <2>2. CASE ~(j <= k)
    <3>1. j - k \in 1 .. SectorSize /\ k + (j - k) = j
      BY <1>3, <2>2, SizeFacts
    <3>2. (a \o c)[k + (j - k)] = c[j - k] /\ b[k + (j - k)] = c[j - k]
      BY <1>7, <1>8, <3>1
    <3> QED
      BY <3>1, <3>2
  <2> QED
    BY <2>1, <2>2
<1>10. a \o c = b
  <2> DEFINE e == a \o c
             q == k + SectorSize
  <2>1. e \in Seq(Byte) /\ Len(e) = q /\ b \in Seq(Byte) /\ Len(b) = q
    BY <1>2, <1>3, <1>8
  <2>2. \A j \in 1 .. q : e[j] = b[j]
    BY <1>9
  <2> HIDE DEF e, q
  <2>3. e = b
    BY <2>1, <2>2
  <2> QED
    BY <2>3 DEF e
<1> QED
  BY <1>10 DEF a, b, c

(* Sectors put one after the other are their bytes.                        *)
LEMMA FlattenIs ==
  ASSUME NEW n \in Nat \ {0}, NEW secs \in [1 .. n -> Sector]
  PROVE  FlattenSeq(secs) = Bytes(secs, n)
<1> DEFINE It(h) == [i \in 1 .. Len(secs) |-> IF i = 1 THEN secs[i] ELSE h[i - 1] \o secs[i]]
           flat == CHOOSE h : h = It(h)
           g == [i \in 1 .. n |-> Bytes(secs, i)]
<1>1. Len(secs) = n
  <2>1. secs \in Seq(Sector)
    OBVIOUS
  <2> QED
    BY <2>1
<1>2. FlattenSeq(secs) = flat[n]
  BY <1>1 DEF FlattenSeq
<1>3. Bytes(secs, 1) = secs[1]
  <2>1. Start(1) = SectorSize
    BY SizeFacts DEF Start
  <2>2. 1 \in 1 .. n /\ secs[1] \in [1 .. SectorSize -> Byte]
    BY DEF Sector
  <2>3. ASSUME NEW j \in 1 .. SectorSize PROVE SecOf(j - 1) + 1 = 1 /\ In(j - 1) + 1 = j
    <3>1. j - 1 \in 0 .. SectorSize - 1 /\ 0 \in Nat
      BY SizeFacts
    <3>2. SecOf(Start(0) + (j - 1)) = 0 /\ In(Start(0) + (j - 1)) = j - 1
      BY <3>1, ByteIn
    <3>3. Start(0) + (j - 1) = j - 1
      BY SizeFacts DEF Start
    <3> QED
      BY <3>2, <3>3
  <2>4. Bytes(secs, 1) = [j \in 1 .. SectorSize |-> secs[1][j]]
    BY <2>1, <2>3 DEF Bytes
  <2> QED
    BY <2>2, <2>4
<1>4. g = It(g)
  <2>1. ASSUME NEW i \in 1 .. n, i # 1 PROVE g[i] = g[i - 1] \o secs[i]
    <3>1. i - 1 \in 1 .. n
      BY <2>1
    <3>2. g[i - 1] = Bytes(secs, i - 1) /\ g[i] = Bytes(secs, i)
      BY <3>1
    <3> HIDE DEF g
    <3> QED
      BY <3>2, BytesAppend
  <2>2. ASSUME NEW i \in 1 .. n PROVE g[i] = IF i = 1 THEN secs[i] ELSE g[i - 1] \o secs[i]
    BY <1>3, <2>1
  <2> QED
    BY <1>1, <2>2
<1>5. flat = It(flat)
  <2> HIDE DEF g, It
  <2> QED
    BY <1>4
<1> HIDE DEF flat
<1> DEFINE T == {k \in 0 .. n : k = 0 \/ flat[k] = Bytes(secs, k)}
<1>6. 0 \in T
  OBVIOUS
<1>7. ASSUME NEW k \in 1 .. n, k - 1 \in T PROVE k \in T
  <2>1. flat[k] = IF k = 1 THEN secs[k] ELSE flat[k - 1] \o secs[k]
    BY <1>1, <1>5
  <2>2. CASE k = 1
    BY <1>3, <2>1, <2>2
  <2>3. CASE k # 1
    <3>1. flat[k - 1] = Bytes(secs, k - 1)
      BY <1>7, <2>3
    <3>2. Bytes(secs, k) = Bytes(secs, k - 1) \o secs[k]
      BY BytesAppend
    <3>3. flat[k] = flat[k - 1] \o secs[k]
      BY <2>1, <2>3
    <3>4. flat[k] = Bytes(secs, k)
      BY <3>1, <3>2, <3>3
    <3> QED
      BY <3>4
  <2> QED
    BY <2>2, <2>3
<1>8. \A k \in 0 .. n : k \in T
  <2> HIDE DEF T
  <2> QED
    BY <1>6, <1>7, InductionTo
<1> QED
  BY <1>2, <1>8

(* What _read_sectors makes of an access.                                  *)
SectorsRead(w, s, at, n, r) ==
  /\ r.fat = w.fat /\ r.data = w.data /\ Kept(w, r)
  /\ r.info.addr = w.info.addr /\ r.info.sector = w.info.sector
  /\ LookOk(r.info, s) /\ Len(r.bytes) = Start(r.n)
  /\ IF at < First(Len(s)) THEN r.n \in 1 .. n /\ at + r.n <= First(Len(s)) ELSE r.n = 0
  /\ \A j \in 1 .. Start(r.n) : r.bytes[j] = SecAt(w.data, s, at + SecOf(j - 1))[In(j - 1) + 1]

(* _read_sectors returns the bytes of the sectors asked for up to the end  *)
(* of a cluster, or nothing behind the end of the chain (fatfs.c:74-145).  *)
LEMMA ReadSectorsIs ==
  ASSUME NEW w \in Works, NEW s, IsChain(w.fat, s), LookOk(w.info, s),
         NEW at \in Nat, NEW n \in Nat \ {0}
  PROVE  SectorsRead(w, s, at, n, ReadSectors(w, at, n))
<1> DEFINE i == ClOf(at)
           in == InCl(at)
           c == Look(w.fat, w.info, i).cluster
           m == InCluster(at, n)
           secs == [k \in 1 .. m |-> w.data[c][in + k - 1]]
           r == ReadSectors(w, at, n)
<1>1. w.fat \in Table /\ w.data \in Disk /\ w.info \in Infos
  BY DEF Works
<1>2. Len(s) \in Nat /\ Len(s) >= 1 /\ i \in Nat /\ in \in 0 .. PerCluster - 1
  BY <1>1, ChainFacts, SectorFacts
<1>3. Found(Look(w.fat, w.info, i), s, i)
  BY <1>1, <1>2, LookIs
<1>4. at < First(Len(s)) <=> i < Len(s)
  BY <1>2, SectorsBefore
<1>5. r = IF c = LAST THEN [w EXCEPT !.n = 0, !.bytes = <<>>]
          ELSE [w EXCEPT !.info = Placed(w.info, i, c), !.n = m, !.bytes = FlattenSeq(secs)]
  BY DEF ReadSectors, ClOf, InCl
<1> HIDE DEF i, in, r
<1>6. CASE i < Len(s)
  <2>1. i + 1 \in 1 .. Len(s)
    BY <1>2, <1>6
  <2>2. c = s[i + 1] /\ c \in Cluster
    BY <1>1, <1>3, <1>6, <2>1, ChainFacts DEF Found
  <2> HIDE DEF c
  <2>3. m \in 1 .. n /\ in + m <= PerCluster /\ at + m <= First(i + 1)
    BY SectorsTogether DEF i, in
  <2> HIDE DEF m
  <2>4. m \in Nat \ {0}
    BY <2>3
  <2>5. \A k \in 1 .. m : in + k - 1 \in 0 .. PerCluster - 1
    BY <1>2, <2>3, <2>4, SizeFacts
  <2>6. secs \in [1 .. m -> Sector]
    BY <1>1, <2>2, <2>5 DEF Disk
  <2>7. FlattenSeq(secs) = Bytes(secs, m) /\ Bytes(secs, m) \in Seq(Byte)
        /\ Len(Bytes(secs, m)) = Start(m)
    <3>1. m \in 0 .. m
      BY <2>4
    <3> HIDE DEF secs
    <3> QED
      BY <2>4, <2>6, <3>1, FlattenIs, BytesAre
  <2>8. c # LAST
    BY <2>2, ClusterFacts
  <2>9. r = [fat |-> w.fat, data |-> w.data, info |-> Placed(w.info, i, c), done |-> w.done,
             bytes |-> Bytes(secs, m), n |-> m, go |-> w.go, halted |-> w.halted]
    <3> HIDE DEF secs
    <3> QED
      BY <1>5, <2>7, <2>8 DEF Works
  <2>10. /\ Placed(w.info, i, c) \in Infos /\ LookOk(Placed(w.info, i, c), s)
         /\ Placed(w.info, i, c).addr = w.info.addr
         /\ Placed(w.info, i, c).sector = w.info.sector
    BY <1>1, <1>2, <1>6, <2>2, PlacedOk
  <2>11. Kept(w, r)
    <3> HIDE DEF secs
    <3>1. r \in Works
      BY <1>1, <2>4, <2>7, <2>9, <2>10 DEF Works
    <3> QED
      BY <2>9, <3>1 DEF Kept
  <2>12. at + m <= First(Len(s))
    <3>1. First(i + 1) <= First(Len(s)) /\ First(i + 1) \in Nat /\ First(Len(s)) \in Nat
      BY <1>2, <2>1, FirstFacts
    <3> QED
      BY <2>3, <2>4, <3>1
  <2>13. ASSUME NEW j \in 1 .. Start(m)
         PROVE  r.bytes[j] = SecAt(w.data, s, at + SecOf(j - 1))[In(j - 1) + 1]
    <3> DEFINE x == SecOf(j - 1)
    <3>1. j - 1 \in Nat /\ j - 1 < Start(m) /\ Start(m) \in Nat
      BY <2>4, StartFacts
    <3>2. x \in Nat /\ x < m
      BY <2>4, <3>1, ByteFacts, BytesBefore
    <3>3. r.bytes[j] = secs[x + 1][In(j - 1) + 1]
      <4>1. r.bytes = Bytes(secs, m)
        BY <2>9
      <4> HIDE DEF secs
      <4> QED
        BY <4>1 DEF Bytes
    <3> HIDE DEF x
    <3>4. x + 1 \in 1 .. m /\ in + (x + 1) - 1 = in + x
      BY <1>2, <2>4, <3>2
    <3>5. secs[x + 1] = w.data[c][in + x]
      BY <3>4
    <3>6. at <= at + x /\ at + x < at + m /\ at + x \in Nat /\ (at + x) - at = x
      BY <2>4, <3>2
    <3>7. ClOf(at + x) = i /\ (at + x) - at = InCl(at + x) - in
      <4> DEFINE y == at + x
      <4> HIDE DEF y
      <4>1. y \in Nat /\ at <= y /\ y < at + m
        BY <3>6 DEF y
      <4>2. /\ at <= y /\ y < at + m <=> ClOf(y) = i /\ in <= InCl(y) /\ InCl(y) < in + m
            /\ ClOf(y) = i => y - at = InCl(y) - in
        BY <4>1, SectorsTogether DEF i, in, m
      <4> QED
        BY <4>1, <4>2 DEF y
    <3>8. InCl(at + x) = in + x
      <4>1. InCl(at + x) \in 0 .. PerCluster - 1
        BY <3>6, SectorFacts
      <4> QED
        BY <1>2, <3>2, <3>6, <3>7, <4>1
    <3>9. SecAt(w.data, s, at + x) = w.data[c][in + x]
      BY <2>2, <3>7, <3>8 DEF SecAt
    <3> QED
      BY <3>3, <3>5, <3>9 DEF x
  <2>14. r.n = m /\ r.fat = w.fat /\ r.data = w.data /\ r.info = Placed(w.info, i, c)
         /\ r.bytes = Bytes(secs, m)
    BY <2>9
  <2> HIDE DEF secs
  <2>15. SectorsRead(w, s, at, n, r)
    BY <1>4, <1>6, <2>3, <2>7, <2>10, <2>11, <2>12, <2>13, <2>14 DEF SectorsRead
  <2> QED
    BY <2>15 DEF r
<1>7. CASE ~(i < Len(s))
  <2>1. c = LAST
    BY <1>3, <1>7 DEF Found
  <2>2. r = [fat |-> w.fat, data |-> w.data, info |-> w.info, done |-> w.done,
             bytes |-> <<>>, n |-> 0, go |-> w.go, halted |-> w.halted]
    BY <1>5, <2>1 DEF Works
  <2>3. r \in Works
    <3>1. <<>> \in Seq(Byte)
      OBVIOUS
    <3> QED
      BY <1>1, <2>2, <3>1 DEF Works
  <2>4. Start(0) = 0 /\ Len(<<>>) = 0
    BY SizeFacts DEF Start
  <2>5. SectorsRead(w, s, at, n, r)
    BY <1>4, <1>7, <2>2, <2>3, <2>4 DEF SectorsRead, Kept
  <2> QED
    BY <2>5 DEF r
<1> QED
  BY <1>6, <1>7

(***************************************************************************)
(* The bytes of a file, and a write of a text over them.                   *)
(***************************************************************************)
Cap(s) == Start(First(Len(s)))
ByteAt(d, s, j) == SecAt(d, s, SecOf(j))[In(j) + 1]

(* The bytes that a chain has room for, also when it has grown.            *)
LEMMA CapFacts ==
  ASSUME NEW t \in Table, NEW s, IsChain(t, s)
  PROVE  /\ Len(s) \in Nat /\ First(Len(s)) \in Nat /\ Cap(s) \in Nat
         /\ \A j \in Nat : j < Cap(s) <=> SecOf(j) < First(Len(s))
<1>1. Len(s) \in Nat /\ First(Len(s)) \in Nat
  BY ChainFacts, FirstFacts
<1> QED
  BY <1>1, StartFacts, BytesBefore DEF Cap

LEMMA GrownBytes ==
  ASSUME NEW t \in Table, NEW s, IsChain(t, s), NEW t2, NEW s2, Grown(t, s, t2, s2)
  PROVE  /\ Cap(s) <= Cap(s2) /\ Cap(s) \in Nat /\ Cap(s2) \in Nat
         /\ \A d, j : j \in Nat /\ j < Cap(s) => ByteAt(d, s2, j) = ByteAt(d, s, j)
<1>1. t2 \in Table /\ IsChain(t2, s2)
  BY DEF Grown
<1>2. Cap(s) \in Nat /\ Cap(s2) \in Nat
  BY <1>1, CapFacts
<1>3. /\ First(Len(s)) <= First(Len(s2)) /\ First(Len(s)) \in Nat /\ First(Len(s2)) \in Nat
      /\ \A d, x : x \in Nat /\ x < First(Len(s)) => SecAt(d, s2, x) = SecAt(d, s, x)
  BY GrownSectors
<1>4. Cap(s) <= Cap(s2)
  BY <1>3, StartFacts DEF Cap
<1>5. ASSUME NEW d, NEW j \in Nat, j < Cap(s) PROVE ByteAt(d, s2, j) = ByteAt(d, s, j)
  <2>1. SecOf(j) \in Nat /\ SecOf(j) < First(Len(s))
    BY <1>5, ByteFacts, CapFacts
  <2> QED
    BY <1>3, <2>1 DEF ByteAt
<1> QED
  BY <1>2, <1>4, <1>5

(* The job a: at a.off of a file with the chain a.chain of the table a.fat,*)
(* the disk a.data and the length a.len, the text a.text is written.       *)
JobOk(a) ==
  /\ a.off \in Nat /\ a.text \in Seq(Byte) /\ a.len \in Nat
  /\ a.fat \in Table /\ a.data \in Disk /\ IsChain(a.fat, a.chain)
  /\ a.off <= a.len /\ a.len <= Cap(a.chain)

(* The first q bytes of the text are written, and up to hi no others.      *)
Shows(a, d, s, q, hi) ==
  \A j \in Nat : j < hi =>
    /\ a.off <= j /\ j < a.off + q => ByteAt(d, s, j) = a.text[j - a.off + 1]
    /\ j < a.off \/ a.off + q <= j =>
         (j < Cap(a.chain) => ByteAt(d, s, j) = ByteAt(a.data, a.chain, j))

(* A file that shows the bytes written so far shows them when its chain    *)
(* grows.                                                                  *)
LEMMA ShowsGrown ==
  ASSUME NEW a, JobOk(a), NEW t, NEW s, Grown(a.fat, a.chain, t, s), NEW t2, NEW s2, Grown(t, s, t2, s2),
         NEW q \in Nat, a.off + q <= Cap(s), NEW d, Shows(a, d, s, q, Cap(s))
  PROVE  Shows(a, d, s2, q, Cap(s2))
<1>1. t \in Table /\ IsChain(t, s) /\ a.fat \in Table /\ IsChain(a.fat, a.chain) /\ a.off \in Nat
  BY DEF Grown, JobOk
<1>2. /\ Cap(s) <= Cap(s2) /\ Cap(s) \in Nat /\ Cap(s2) \in Nat
      /\ \A e, j : j \in Nat /\ j < Cap(s) => ByteAt(e, s2, j) = ByteAt(e, s, j)
  BY <1>1, GrownBytes
<1>3. Cap(a.chain) <= Cap(s) /\ Cap(a.chain) \in Nat
  BY <1>1, GrownBytes
<1> SUFFICES ASSUME NEW j \in Nat, j < Cap(s2)
             PROVE  /\ a.off <= j /\ j < a.off + q => ByteAt(d, s2, j) = a.text[j - a.off + 1]
                    /\ j < a.off \/ a.off + q <= j =>
                         (j < Cap(a.chain) => ByteAt(d, s2, j) = ByteAt(a.data, a.chain, j))
  BY DEF Shows
<1>4. CASE j < Cap(s)
  <2>1. ByteAt(d, s2, j) = ByteAt(d, s, j)
    BY <1>2, <1>4
  <2> QED
    BY <1>4, <2>1 DEF Shows
<1>5. CASE ~(j < Cap(s))
  BY <1>1, <1>2, <1>3, <1>5
<1> QED
  BY <1>4, <1>5

(* Sectors that show q more bytes of the text.                             *)
Lays(a, d, s, p, q, at, n, secs) ==
  /\ \A j \in Nat : p <= j /\ j < p + q => at <= SecOf(j) /\ SecOf(j) < at + n
  /\ \A j \in Nat : at <= SecOf(j) /\ SecOf(j) < at + n =>
       /\ p <= j /\ j < p + q =>
            secs[SecOf(j) - at + 1][In(j) + 1] = a.text[j - a.off + 1]
       /\ j < p \/ p + q <= j =>
            (j < Cap(s) => secs[SecOf(j) - at + 1][In(j) + 1] = ByteAt(d, s, j))

(* It shows more of them when the sectors written lay the next ones.       *)
LEMMA ShowsWritten ==
  ASSUME NEW a, JobOk(a), NEW t, NEW s, Grown(a.fat, a.chain, t, s),
         NEW t2, NEW s2, Grown(t, s, t2, s2), NEW w, NEW r,
         NEW q \in Nat, NEW m \in Nat, a.off + q <= Cap(s), Shows(a, w.data, s, q, Cap(s)),
         NEW at \in Nat, NEW secs, SomeWritten(w, s2, at, secs, r),
         Lays(a, w.data, s, a.off + q, m, at, r.n, secs)
  PROVE  Shows(a, r.data, s2, q + m, Cap(s2))
<1>1. /\ t \in Table /\ IsChain(t, s) /\ a.fat \in Table /\ IsChain(a.fat, a.chain) /\ a.off \in Nat
      /\ t2 \in Table /\ IsChain(t2, s2)
  BY DEF Grown, JobOk
<1>2. /\ Cap(s) <= Cap(s2) /\ Cap(s) \in Nat /\ Cap(s2) \in Nat
      /\ \A e, j : j \in Nat /\ j < Cap(s) => ByteAt(e, s2, j) = ByteAt(e, s, j)
  BY <1>1, GrownBytes
<1>3. Cap(a.chain) <= Cap(s) /\ Cap(a.chain) \in Nat
  BY <1>1, GrownBytes
<1>4. Shows(a, w.data, s2, q, Cap(s2))
  BY <1>1, ShowsGrown
<1> SUFFICES ASSUME NEW j \in Nat, j < Cap(s2)
             PROVE  /\ a.off <= j /\ j < a.off + (q + m) =>
                         ByteAt(r.data, s2, j) = a.text[j - a.off + 1]
                    /\ j < a.off \/ a.off + (q + m) <= j =>
                         (j < Cap(a.chain) => ByteAt(r.data, s2, j) = ByteAt(a.data, a.chain, j))
  BY DEF Shows
<1> DEFINE x == SecOf(j)
           p == a.off + q
           b == ByteAt(r.data, s2, j)
<1>5. x \in Nat /\ x < First(Len(s2))
  BY <1>1, ByteFacts, CapFacts
<1>6. SecAt(r.data, s2, x) = IF at <= x /\ x < at + r.n THEN secs[x - at + 1]
                             ELSE SecAt(w.data, s2, x)
  <2> HIDE DEF x
  <2> QED
    BY <1>5 DEF SomeWritten
<1>7. p \in Nat /\ p <= Cap(s)
  BY <1>1
<1>8. /\ a.off <= j /\ j < p => ByteAt(w.data, s2, j) = a.text[j - a.off + 1]
      /\ j < a.off \/ p <= j =>
           (j < Cap(a.chain) => ByteAt(w.data, s2, j) = ByteAt(a.data, a.chain, j))
  BY <1>4 DEF Shows
<1>9. j < a.off + (q + m) <=> j < p + m
  BY <1>1
<1>10. CASE at <= x /\ x < at + r.n
  <2>1. b = secs[x - at + 1][In(j) + 1]
    BY <1>6, <1>10 DEF ByteAt
  <2>2. /\ p <= j /\ j < p + m => b = a.text[j - a.off + 1]
        /\ j < p \/ p + m <= j => (j < Cap(s) => b = ByteAt(w.data, s, j))
    <3> HIDE DEF b, p
    <3> QED
      BY <1>10, <2>1 DEF Lays, p
  <2>3. j < Cap(s) => ByteAt(w.data, s2, j) = ByteAt(w.data, s, j)
    BY <1>2
  <2> HIDE DEF b, x, p
  <2>4. a.off <= j /\ j < p + m => b = a.text[j - a.off + 1]
    <3>1. CASE j < p
      BY <1>2, <1>7, <1>8, <2>2, <2>3, <3>1
    <3>2. CASE ~(j < p)
      BY <1>7, <2>2, <3>2
    <3> QED
      BY <3>1, <3>2
  <2>5. (j < a.off \/ ~(j < p + m)) /\ j < Cap(a.chain) => b = ByteAt(a.data, a.chain, j)
    <3>1. SUFFICES ASSUME j < a.off \/ ~(j < p + m), j < Cap(a.chain)
                   PROVE  b = ByteAt(a.data, a.chain, j)
      OBVIOUS
    <3>2. j < Cap(s) /\ (j < p \/ p + m <= j) /\ (j < a.off \/ p <= j)
      BY <1>1, <1>2, <1>3, <1>7, <3>1 DEF p
    <3> QED
      BY <1>8, <2>2, <2>3, <3>1, <3>2
  <2>6. a.off + (q + m) <= j => ~(j < p + m)
    BY <1>1 DEF p
  <2> QED
    BY <1>9, <2>4, <2>5, <2>6 DEF b
<1>11. CASE ~(at <= x /\ x < at + r.n)
  <2>1. b = ByteAt(w.data, s2, j)
    BY <1>6, <1>11 DEF ByteAt
  <2>2. ~(p <= j /\ j < p + m)
    <3> HIDE DEF p
    <3> QED
      BY <1>11 DEF Lays, p
  <2> HIDE DEF b, x
  <2> QED
    BY <1>1, <1>8, <2>1, <2>2 DEF b
<1> QED
  BY <1>10, <1>11

(* The sector buffer is the sector on the disk.                            *)
BufferOk(info, d, s) ==
  info.addr # None =>
    /\ info.addr \in Nat /\ info.addr < First(Len(s)) /\ info.sector = SecAt(d, s, info.addr)

(* An access in the middle of a write.                                     *)
WriteOk(a, w, s) ==
  /\ w \in Works /\ Grown(a.fat, a.chain, w.fat, s) /\ LookOk(w.info, s)
  /\ w.done <= Len(a.text) /\ (w.go => ~w.halted)
  /\ \A c \in Cluster : c \notin Clusters(s) => w.data[c] = a.data[c]
  /\ ~w.halted => /\ a.off + w.done <= Cap(s) /\ BufferOk(w.info, w.data, s)
                  /\ Shows(a, w.data, s, w.done, Cap(s))
  /\ w.halted => a.len <= a.off + w.done /\ Shows(a, w.data, s, w.done, a.len)

HasBuffer(w, x, b, r) ==
  /\ r \in Works /\ r.info.addr = x /\ r.info.sector = b
  /\ r.info.first = w.info.first /\ r.info.look = w.info.look
  /\ r.fat = w.fat /\ r.data = w.data /\ r.done = w.done /\ r.halted = w.halted
  /\ r.bytes = w.bytes /\ r.n = w.n /\ r.go = w.go
  /\ \A s : LookOk(w.info, s) => LookOk(r.info, s)

(* The buffer of a file_info holds the sector put there.                   *)
LEMMA BufferedIs ==
  ASSUME NEW w \in Works, NEW x \in Nat \cup {None}, NEW b \in Sector
  PROVE  HasBuffer(w, x, b, Buffered(w, x, b))
<1> DEFINE r == Buffered(w, x, b)
           i == [first |-> w.info.first, look |-> w.info.look, addr |-> x, sector |-> b]
<1>1. w.info \in Infos
  BY DEF Works
<1>2. i \in Infos
  BY <1>1 DEF Infos
<1>3. [[w.info EXCEPT !.addr = x] EXCEPT !.sector = b] = i
  <2> DEFINE e == [first |-> w.info.first, look |-> w.info.look, addr |-> x,
                   sector |-> w.info.sector]
  <2>1. [w.info EXCEPT !.addr = x] = e
    BY <1>1 DEF Infos
  <2>2. [e EXCEPT !.sector = b] = i
    OBVIOUS
  <2> HIDE DEF e
  <2> QED
    BY <2>1, <2>2
<1>4. r = [w EXCEPT !.info = i]
  <2>1. r = [[w EXCEPT !.info.addr = x] EXCEPT !.info.sector = b]
    BY DEF Buffered
  <2>2. [w EXCEPT !.info.addr = x] = [w EXCEPT !.info = [w.info EXCEPT !.addr = x]]
    BY DEF Works
  <2> DEFINE v == [w EXCEPT !.info = [w.info EXCEPT !.addr = x]]
  <2>3. v.info = [w.info EXCEPT !.addr = x]
    BY DEF Works
  <2>4. [v EXCEPT !.info.sector = b] = [v EXCEPT !.info = [v.info EXCEPT !.sector = b]]
    BY DEF Works
  <2>5. [v EXCEPT !.info = i] = [w EXCEPT !.info = i]
    BY DEF Works
  <2> HIDE DEF v, i
  <2> QED
    BY <1>3, <2>1, <2>2, <2>3, <2>4, <2>5 DEF v
<1>5. r = [fat |-> w.fat, data |-> w.data, info |-> i, done |-> w.done, bytes |-> w.bytes,
           n |-> w.n, go |-> w.go, halted |-> w.halted]
  <2> HIDE DEF i, r
  <2> QED
    BY <1>4 DEF Works
<1> HIDE DEF r
<1>6. r \in Works
  <2> HIDE DEF i
  <2> QED
    BY <1>2, <1>5 DEF Works
<1>7. \A s : LookOk(w.info, s) => LookOk(i, s)
  BY DEF LookOk
<1>8. r.info = i /\ i.addr = x /\ i.sector = b /\ i.first = w.info.first /\ i.look = w.info.look
  BY <1>5
<1> HIDE DEF i
<1>9. /\ r.fat = w.fat /\ r.data = w.data /\ r.done = w.done /\ r.halted = w.halted
      /\ r.bytes = w.bytes /\ r.n = w.n /\ r.go = w.go
  BY <1>5
<1>10. HasBuffer(w, x, b, r)
  BY <1>6, <1>7, <1>8, <1>9 DEF HasBuffer
<1> QED
  BY <1>10 DEF r

(* The step of an access that has been written to the disk.                *)
Stepped(r, m, go, halt) ==
  [fat |-> r.fat, data |-> r.data, info |-> r.info, done |-> r.done + m, bytes |-> r.bytes,
   n |-> r.n, go |-> go, halted |-> halt]

(* Accesses in progress with equal fields are equal; what a turn of the    *)
(* loop of a write changes in them.                                        *)
LEMMA WorksEqual ==
  ASSUME NEW r \in Works, NEW e \in Works, r.fat = e.fat, r.data = e.data, r.info = e.info,
         r.done = e.done, r.bytes = e.bytes, r.n = e.n, r.go = e.go, r.halted = e.halted
  PROVE  r = e
  BY DEF Works

LEMMA SteppedIs ==
  ASSUME NEW r \in Works, NEW m \in Nat, NEW go \in BOOLEAN, NEW halt \in BOOLEAN
  PROVE  /\ Stepped(r, m, go, halt) \in Works
         /\ [r EXCEPT !.done = @ + m, !.go = go, !.halted = halt] = Stepped(r, m, go, halt)
         /\ [r EXCEPT !.done = @ + m, !.go = go] = Stepped(r, m, go, r.halted)
<1> DEFINE d == r.done + m
           e(h) == [fat |-> r.fat, data |-> r.data, info |-> r.info, done |-> d,
                    bytes |-> r.bytes, n |-> r.n, go |-> go, halted |-> h]
           u == [r EXCEPT !.done = d, !.go = go, !.halted = halt]
           v == [r EXCEPT !.done = d, !.go = go]
<1>1. d \in Nat
  BY DEF Works
<1>2. e(halt) = Stepped(r, m, go, halt) /\ e(r.halted) = Stepped(r, m, go, r.halted)
  BY DEF Stepped
<1> HIDE DEF d
<1>3. e(halt) \in Works /\ e(r.halted) \in Works
  BY <1>1 DEF Works
<1>4. u \in Works /\ v \in Works
  BY <1>1 DEF Works
<1>5. /\ u.fat = r.fat /\ u.data = r.data /\ u.info = r.info /\ u.done = d /\ u.bytes = r.bytes
      /\ u.n = r.n /\ u.go = go /\ u.halted = halt
  BY DEF Works
<1>6. /\ v.fat = r.fat /\ v.data = r.data /\ v.info = r.info /\ v.done = d /\ v.bytes = r.bytes
      /\ v.n = r.n /\ v.go = go /\ v.halted = r.halted
  BY DEF Works
<1> HIDE DEF u, v
<1>7. u = e(halt)
  BY <1>3, <1>4, <1>5, WorksEqual
<1>8. v = e(r.halted)
  BY <1>3, <1>4, <1>6, WorksEqual
<1> QED
  BY <1>2, <1>3, <1>7, <1>8 DEF u, v, d

Stops(a, w, s, at, v, r, s2) ==
  /\ JobOk(a) /\ WriteOk(a, w, s) /\ ~w.halted /\ at \in Nat
  /\ v.data = w.data /\ v.done = w.done /\ ~v.halted /\ LookOk(v.info, s)
  /\ NoneWritten(v, s, at, r) /\ Grown(w.fat, s, r.fat, s2)

(* A write that finds no room keeps what it has done.                      *)
LEMMA WriteStops ==
  ASSUME NEW a, NEW w, NEW s, NEW at, NEW v, NEW r, NEW s2, Stops(a, w, s, at, v, r, s2)
  PROVE  /\ BufferOk(v.info, v.data, s) => WriteOk(a, Stepped(r, 0, FALSE, FALSE), s2)
         /\ \A m \in Nat : at = SecOf(a.off + w.done) /\ w.done + m <= Len(a.text) =>
              WriteOk(a, Stepped(r, m, FALSE, TRUE), s2)
<1> USE DEF Stops
<1>1. /\ w \in Works /\ Grown(a.fat, a.chain, w.fat, s) /\ LookOk(w.info, s)
      /\ w.done <= Len(a.text) /\ \A c \in Cluster : c \notin Clusters(s) => w.data[c] = a.data[c]
      /\ a.off + w.done <= Cap(s) /\ Shows(a, w.data, s, w.done, Cap(s))
  BY DEF WriteOk
<1>2. /\ a.off \in Nat /\ a.text \in Seq(Byte) /\ a.len \in Nat
      /\ a.fat \in Table /\ a.data \in Disk /\ IsChain(a.fat, a.chain)
      /\ a.off <= a.len /\ a.len <= Cap(a.chain)
  BY DEF JobOk
<1>3. /\ r \in Works /\ r.done = w.done /\ r.halted = FALSE /\ r.data = w.data
      /\ r.info = v.info /\ at = First(Len(s)) /\ w.done \in Nat
  BY <1>1 DEF NoneWritten, Kept, Works
<1>4. w.fat \in Table /\ IsChain(w.fat, s)
  BY <1>1 DEF Grown
<1>5. Grown(a.fat, a.chain, r.fat, s2)
  BY <1>1, <1>2, GrownTwice
<1>6. LookOk(r.info, s2) /\ Clusters(s) \subseteq Clusters(s2)
      /\ First(Len(s)) <= First(Len(s2)) /\ First(Len(s)) \in Nat /\ First(Len(s2)) \in Nat
      /\ \A d, x : x \in Nat /\ x < First(Len(s)) => SecAt(d, s2, x) = SecAt(d, s, x)
  BY <1>3, <1>4, GrownSectors
<1>7. \A c \in Cluster : c \notin Clusters(s2) => r.data[c] = a.data[c]
  BY <1>1, <1>3, <1>6
<1>8. Shows(a, r.data, s2, w.done, Cap(s2))
  BY <1>1, <1>3, ShowsGrown
<1>9. /\ Cap(s) <= Cap(s2) /\ Cap(s) \in Nat /\ Cap(s2) \in Nat
      /\ Cap(a.chain) <= Cap(s) /\ Cap(a.chain) \in Nat
  BY <1>1, <1>2, <1>4, GrownBytes
<1>10. ASSUME BufferOk(v.info, v.data, s) PROVE WriteOk(a, Stepped(r, 0, FALSE, FALSE), s2)
  <2> DEFINE u == Stepped(r, 0, FALSE, FALSE)
  <2>1. /\ u \in Works /\ u.fat = r.fat /\ u.data = r.data /\ u.info = r.info
        /\ u.done = w.done /\ u.go = FALSE /\ u.halted = FALSE
    <3>1. r.done + 0 = w.done
      BY <1>3
    <3> QED
      BY <1>3, <3>1, SteppedIs DEF Stepped
  <2> HIDE DEF u
  <2>2. BufferOk(r.info, r.data, s2)
    BY <1>3, <1>6, <1>10 DEF BufferOk
  <2>3. a.off + w.done <= Cap(s2)
    BY <1>1, <1>2, <1>3, <1>9
  <2>4. WriteOk(a, u, s2)
    BY <1>1, <1>5, <1>6, <1>7, <1>8, <2>1, <2>2, <2>3 DEF WriteOk
  <2> QED
    BY <2>4 DEF u
<1>11. ASSUME NEW m \in Nat, at = SecOf(a.off + w.done), w.done + m <= Len(a.text)
       PROVE  WriteOk(a, Stepped(r, m, FALSE, TRUE), s2)
  <2> DEFINE u == Stepped(r, m, FALSE, TRUE)
             p == a.off + w.done
  <2>1. /\ u \in Works /\ u.fat = r.fat /\ u.data = r.data /\ u.info = r.info
        /\ u.done = w.done + m /\ u.go = FALSE /\ u.halted = TRUE
    BY <1>3, SteppedIs DEF Stepped
  <2> HIDE DEF u
  <2>2. p \in Nat /\ ~(p < Cap(s))
    <3>1. p \in Nat
      BY <1>2, <1>3
    <3> HIDE DEF p
    <3>2. p < Cap(s) <=> SecOf(p) < First(Len(s))
      BY <1>4, <3>1, CapFacts
    <3>3. SecOf(p) = First(Len(s))
      BY <1>3, <1>11 DEF p
    <3> QED
      BY <1>6, <3>1, <3>2, <3>3
  <2>3. a.len <= p
    BY <1>2, <1>9, <2>2
  <2>4. a.len <= a.off + (w.done + m)
    BY <1>2, <1>3, <2>3
  <2>5. Shows(a, r.data, s2, w.done + m, a.len)
    <3> SUFFICES ASSUME NEW j \in Nat, j < a.len
                 PROVE  /\ a.off <= j /\ j < a.off + (w.done + m) =>
                             ByteAt(r.data, s2, j) = a.text[j - a.off + 1]
                        /\ j < a.off \/ a.off + (w.done + m) <= j =>
                             (j < Cap(a.chain) => ByteAt(r.data, s2, j) = ByteAt(a.data, a.chain, j))
      BY DEF Shows
    <3>1. j < Cap(s2) /\ j < p
      BY <1>2, <1>9, <2>2, <2>3
    <3>2. /\ a.off <= j /\ j < p => ByteAt(r.data, s2, j) = a.text[j - a.off + 1]
          /\ j < a.off \/ p <= j =>
               (j < Cap(a.chain) => ByteAt(r.data, s2, j) = ByteAt(a.data, a.chain, j))
      BY <1>8, <3>1 DEF Shows
    <3>3. ~(a.off + (w.done + m) <= j)
      BY <1>2, <1>3, <2>4
    <3> QED
      BY <3>1, <3>2, <3>3
  <2>6. WriteOk(a, u, s2)
    BY <1>5, <1>6, <1>7, <1>11, <2>1, <2>4, <2>5 DEF WriteOk
  <2> QED
    BY <2>6 DEF u
<1> QED
  BY <1>10, <1>11

Advances(a, w, s, at, v, secs, r, s2, m) ==
  /\ JobOk(a) /\ WriteOk(a, w, s) /\ ~w.halted /\ at \in Nat
  /\ v.data = w.data /\ v.done = w.done /\ ~v.halted
  /\ SomeWritten(v, s2, at, secs, r) /\ Grown(w.fat, s, r.fat, s2)
  /\ BufferOk(r.info, r.data, s2)
  /\ m \in Nat /\ w.done + m <= Len(a.text) /\ Len(secs) \in Nat
  /\ Lays(a, w.data, s, a.off + w.done, m, at, r.n, secs)

(* A write that has written sectors goes on with more done.                *)
LEMMA WriteGoes ==
  ASSUME NEW a, NEW w, NEW s, NEW at, NEW v, NEW secs, NEW r, NEW s2, NEW m,
         Advances(a, w, s, at, v, secs, r, s2, m)
  PROVE  WriteOk(a, Stepped(r, m, TRUE, FALSE), s2)
<1> USE DEF Advances
<1> DEFINE u == Stepped(r, m, TRUE, FALSE)
<1>1. /\ w \in Works /\ Grown(a.fat, a.chain, w.fat, s) /\ LookOk(w.info, s)
      /\ w.done <= Len(a.text) /\ \A c \in Cluster : c \notin Clusters(s) => w.data[c] = a.data[c]
      /\ a.off + w.done <= Cap(s) /\ Shows(a, w.data, s, w.done, Cap(s))
  BY DEF WriteOk
<1>2. a.off \in Nat /\ a.fat \in Table /\ IsChain(a.fat, a.chain)
  BY DEF JobOk
<1>3. /\ r \in Works /\ r.done = w.done /\ LookOk(r.info, s2) /\ w.done \in Nat
      /\ r.n \in 1 .. Len(secs) /\ at + r.n <= First(Len(s2))
      /\ \A c \in Cluster : c \notin Clusters(s2) => r.data[c] = w.data[c]
  BY <1>1 DEF SomeWritten, Kept, Works
<1>4. w.fat \in Table /\ IsChain(w.fat, s) /\ r.fat \in Table /\ IsChain(r.fat, s2)
  BY <1>1 DEF Grown
<1>5. Grown(a.fat, a.chain, r.fat, s2)
  BY <1>1, <1>2, GrownTwice
<1>6. Clusters(s) \subseteq Clusters(s2)
  BY <1>4, GrownSectors
<1>7. \A c \in Cluster : c \notin Clusters(s2) => r.data[c] = a.data[c]
  BY <1>1, <1>3, <1>6
<1>8. Shows(a, r.data, s2, w.done + m, Cap(s2))
  <2>1. Shows(a, v.data, s, w.done, Cap(s)) /\ Lays(a, v.data, s, a.off + w.done, m, at, r.n, secs)
    BY <1>1
  <2> QED
    BY <1>1, <1>3, <2>1, ShowsWritten
<1>9. a.off + (w.done + m) <= Cap(s2)
  <2>1. Cap(s) <= Cap(s2) /\ Cap(s) \in Nat /\ Cap(s2) \in Nat
    BY <1>4, GrownBytes
  <2>2. CASE m = 0
    BY <1>1, <1>2, <1>3, <2>1, <2>2
  <2>3. CASE m # 0
    <3> DEFINE p == a.off + w.done
               j == p + (m - 1)
    <3>1. p \in Nat /\ j \in Nat /\ p <= j /\ j < p + m
      BY <1>2, <1>3, <2>3
    <3> HIDE DEF j
    <3>2. SecOf(j) < at + r.n
      BY <3>1 DEF Lays
    <3>3. SecOf(j) \in Nat /\ First(Len(s2)) \in Nat
      BY <1>4, <3>1, ByteFacts, CapFacts
    <3>4. SecOf(j) < First(Len(s2))
      BY <1>3, <3>2, <3>3
    <3>5. j < Cap(s2)
      BY <1>4, <3>1, <3>4, CapFacts
    <3> QED
      BY <1>2, <1>3, <2>1, <3>5 DEF j
  <2> QED
    BY <2>2, <2>3
<1>10. /\ u \in Works /\ u.fat = r.fat /\ u.data = r.data /\ u.info = r.info
       /\ u.done = w.done + m /\ u.go = TRUE /\ u.halted = FALSE
  BY <1>3, SteppedIs DEF Stepped
<1> HIDE DEF u
<1>11. WriteOk(a, u, s2)
  BY <1>3, <1>5, <1>7, <1>8, <1>9, <1>10 DEF WriteOk
<1> QED
  BY <1>11 DEF u

(* The sectors of a text from done on.                                     *)
TextIn(text, done, n, secs) ==
  /\ secs \in Seq(Sector) /\ Len(secs) = n /\ n \in Nat \ {0}
  /\ \A k \in 1 .. n, i \in 1 .. SectorSize :
       /\ done + Start(k - 1) + i \in 1 .. Len(text)
       /\ secs[k][i] = text[done + Start(k - 1) + i]

(* The whole sectors of a text.                                            *)
LEMMA SectorsOfText ==
  ASSUME NEW text \in Seq(Byte), NEW done \in Nat, NEW left, left = Len(text) - done,
         left >= SectorSize
  PROVE  TextIn(text, done, SecOf(left), SectorsOf(text, done, left))
<1> DEFINE n == SecOf(left)
           secs == SectorsOf(text, done, left)
           one(k) == SubSeq(text, done + (k - 1) * SectorSize + 1, done + k * SectorSize)
<1>1. left \in Nat /\ Len(text) \in Nat /\ done + left = Len(text)
  BY SizeFacts
<1>2. n \in Nat /\ Start(n) + In(left) = left /\ In(left) \in 0 .. SectorSize - 1 /\ Start(n) \in Nat
  BY <1>1, ByteFacts, StartFacts
<1>3. n # 0
  <2>1. Start(0) = 0
    BY SizeFacts DEF Start
  <2> QED
    BY <1>2, <2>1, SizeFacts
<1>4. secs = [k \in 1 .. n |-> one(k)]
  BY DEF SectorsOf, SecOf
<1> HIDE DEF n, secs
<1>5. ASSUME NEW k \in 1 .. n
      PROVE  /\ one(k) \in Sector
             /\ \A i \in 1 .. SectorSize : /\ done + Start(k - 1) + i \in 1 .. Len(text)
                                           /\ one(k)[i] = text[done + Start(k - 1) + i]
  <2> DEFINE b == Start(k - 1)
             lo == done + b + 1
             hi == done + b + SectorSize
             f == SubSeq(text, lo, hi)
  <2>1. k - 1 \in Nat /\ k \in Nat /\ (k - 1) + 1 = k /\ k <= n
    BY <1>2
  <2>2. b \in Nat /\ Start(k) = b + SectorSize /\ Start(k) <= Start(n)
    <3>1. b \in Nat /\ Start((k - 1) + 1) = b + SectorSize /\ Start(k) <= Start(n)
      BY <1>2, <2>1, StartFacts
    <3> QED
      BY <2>1, <3>1
  <2>3. one(k) = f
    <3>1. (k - 1) * SectorSize = b /\ k * SectorSize = Start(k)
      BY DEF Start
    <3>2. one(k) = SubSeq(text, done + b + 1, done + Start(k))
      BY <3>1
    <3> HIDE DEF b
    <3>3. done + Start(k) = hi
      BY <2>2, SizeFacts
    <3> QED
      BY <3>2, <3>3
  <2> HIDE DEF b
  <2>4. lo \in Nat /\ hi \in Nat /\ 1 <= lo /\ hi <= Len(text) /\ hi - lo + 1 = SectorSize
        /\ lo <= hi
    BY <1>1, <1>2, <2>2, SizeFacts
  <2>5. /\ \A i \in 1 .. SectorSize : /\ done + b + i \in 1 .. Len(text)
                                      /\ lo + i - 1 = done + b + i
    BY <1>1, <1>2, <2>2, SizeFacts
  <2> HIDE DEF lo, hi
  <2>6. \A i \in lo .. hi : text[i] \in Byte
    BY <2>4
  <2>7. /\ f \in Seq(Byte) /\ Len(f) = SectorSize
        /\ \A i \in 1 .. hi - lo + 1 : f[i] = text[lo + i - 1]
    <3>1. lo \in Int /\ hi \in Int
      BY <2>4
    <3>2. /\ SubSeq(text, lo, hi) \in Seq(Byte)
          /\ Len(SubSeq(text, lo, hi)) = IF lo <= hi THEN hi - lo + 1 ELSE 0
          /\ \A i \in 1 .. hi - lo + 1 : SubSeq(text, lo, hi)[i] = text[lo + i - 1]
      BY <2>6, <3>1, SubSeqProperties
    <3> QED
      BY <2>4, <3>2
  <2> HIDE DEF f, one
  <2>8. f \in Sector
    BY <2>7, SizeFacts DEF Sector
  <2>9. ASSUME NEW i \in 1 .. SectorSize
        PROVE  done + b + i \in 1 .. Len(text) /\ f[i] = text[done + b + i]
    <3>1. f[i] = text[lo + i - 1]
      BY <2>4, <2>7
    <3> QED
      BY <2>5, <3>1
  <2> QED
    BY <2>3, <2>8, <2>9 DEF b
<1> HIDE DEF one
<1>6. secs \in [1 .. n -> Sector]
  BY <1>4, <1>5
<1>7. secs \in Seq(Sector) /\ Len(secs) = n
  BY <1>2, <1>6
<1>8. \A k \in 1 .. n, i \in 1 .. SectorSize :
        /\ done + Start(k - 1) + i \in 1 .. Len(text)
        /\ secs[k][i] = text[done + Start(k - 1) + i]
  BY <1>4, <1>5
<1>9. TextIn(text, done, n, secs)
  BY <1>2, <1>3, <1>7, <1>8 DEF TextIn
<1> QED
  BY <1>9 DEF n, secs

(* Where an access that is not over has come to.                           *)
LEMMA WriteAt ==
  ASSUME NEW a, JobOk(a), NEW w, NEW s, WriteOk(a, w, s), ~w.halted
  PROVE  LET p == a.off + w.done
         IN  /\ w \in Works /\ w.done \in Nat /\ p \in Nat /\ p <= Cap(s)
             /\ w.fat \in Table /\ w.data \in Disk /\ w.info \in Infos
             /\ IsChain(w.fat, s) /\ LookOk(w.info, s) /\ BufferOk(w.info, w.data, s)
             /\ SecOf(p) \in Nat /\ In(p) \in 0 .. SectorSize - 1
             /\ p = Start(SecOf(p)) + In(p) /\ Start(SecOf(p)) \in Nat
             /\ SecOf(p) <= First(Len(s)) /\ First(Len(s)) \in Nat
             /\ w.done <= Len(a.text) /\ Len(a.text) \in Nat
<1> DEFINE p == a.off + w.done
           at == SecOf(p)
<1>1. /\ w \in Works /\ Grown(a.fat, a.chain, w.fat, s) /\ LookOk(w.info, s)
      /\ w.done <= Len(a.text) /\ p <= Cap(s) /\ BufferOk(w.info, w.data, s)
  BY DEF WriteOk
<1>2. w.done \in Nat /\ w.fat \in Table /\ w.data \in Disk /\ w.info \in Infos
  BY <1>1 DEF Works
<1>3. a.off \in Nat /\ a.text \in Seq(Byte) /\ Len(a.text) \in Nat
  BY DEF JobOk
<1>4. IsChain(w.fat, s)
  BY <1>1 DEF Grown
<1>5. p \in Nat
  BY <1>2, <1>3
<1> HIDE DEF p
<1>6. at \in Nat /\ In(p) \in 0 .. SectorSize - 1 /\ p = Start(at) + In(p)
  BY <1>5, ByteFacts
<1> HIDE DEF at
<1>7. Start(at) \in Nat /\ First(Len(s)) \in Nat /\ Cap(s) \in Nat
  BY <1>2, <1>4, <1>6, StartFacts, CapFacts
<1>8. at <= First(Len(s))
  <2>1. First(Len(s)) < at => Start(First(Len(s))) + SectorSize <= Start(at)
    BY <1>6, <1>7, StartFacts
  <2> QED
    BY <1>1, <1>5, <1>6, <1>7, <2>1, SizeFacts DEF Cap
<1> QED
  BY <1>1, <1>2, <1>3, <1>4, <1>5, <1>6, <1>7, <1>8 DEF p, at

(* Whole sectors of the text, past the buffer.                             *)
LEMMA WholeLays ==
  ASSUME NEW a, JobOk(a), NEW d, NEW s, NEW done \in Nat, NEW at \in Nat,
         a.off + done = Start(at), NEW n, NEW m \in 1 .. n, NEW secs,
         TextIn(a.text, done, n, secs)
  PROVE  Lays(a, d, s, a.off + done, Start(m), at, m, secs)
<1> DEFINE p == a.off + done
           q == Start(m)
<1>1. p = Start(at) /\ m \in Nat /\ a.off \in Nat /\ n \in Nat
  BY DEF JobOk, TextIn
<1>2. Start(at + m) = Start(at) + Start(m) /\ Start(at) \in Nat /\ Start(m) \in Nat
  BY <1>1, StartFacts
<1>3. p + q = Start(at + m) /\ at + m \in Nat
  BY <1>1, <1>2
<1> HIDE DEF q
<1>4. ASSUME NEW j \in Nat PROVE p <= j /\ j < p + q <=> at <= SecOf(j) /\ SecOf(j) < at + m
  <2>1. SecOf(j) \in Nat
    BY ByteFacts
  <2>2. j < Start(at) <=> SecOf(j) < at
    BY BytesBefore
  <2>3. j < Start(at + m) <=> SecOf(j) < at + m
    BY <1>3, BytesBefore
  <2> HIDE DEF p
  <2> QED
    BY <1>1, <1>2, <1>3, <2>1, <2>2, <2>3
<1>5. ASSUME NEW j \in Nat, at <= SecOf(j), SecOf(j) < at + m
      PROVE  secs[SecOf(j) - at + 1][In(j) + 1] = a.text[j - a.off + 1]
  <2> DEFINE x == SecOf(j)
             e == In(j)
             k == x - at + 1
             i == e + 1
  <2>1. x \in Nat /\ e \in 0 .. SectorSize - 1 /\ j = Start(x) + e
    BY ByteFacts
  <2>2. at <= x /\ x < at + m
    BY <1>5
  <2> HIDE DEF x, e
  <2>3. k \in 1 .. n /\ i \in 1 .. SectorSize /\ k - 1 \in Nat /\ at + (k - 1) = x
    BY <1>1, <2>1, <2>2, SizeFacts
  <2> HIDE DEF k, i
  <2>4. secs[k][i] = a.text[done + Start(k - 1) + i]
    BY <2>3 DEF TextIn
  <2>5. Start(at + (k - 1)) = Start(at) + Start(k - 1) /\ Start(k - 1) \in Nat
    BY <2>3, StartFacts
  <2>6. done + Start(k - 1) + i = j - a.off + 1
    <3> DEFINE b == Start(at)
               c == Start(k - 1)
    <3>1. j = (b + c) + e /\ b \in Nat /\ c \in Nat /\ a.off + done = b
      BY <1>1, <1>2, <2>1, <2>3, <2>5
    <3> HIDE DEF b, c
    <3>2. done + c + i = j - a.off + 1
      BY <1>1, <2>1, <3>1, SizeFacts DEF i
    <3> QED
      BY <3>2 DEF c
  <2>7. secs[k][i] = a.text[j - a.off + 1]
    BY <2>4, <2>6
  <2> QED
    BY <2>7 DEF k, i, x, e
<1> HIDE DEF p
<1>6. \A j \in Nat : p <= j /\ j < p + q => at <= SecOf(j) /\ SecOf(j) < at + m
  BY <1>4
<1>7. \A j \in Nat : at <= SecOf(j) /\ SecOf(j) < at + m =>
        /\ p <= j /\ j < p + q
        /\ secs[SecOf(j) - at + 1][In(j) + 1] = a.text[j - a.off + 1]
  BY <1>4, <1>5
<1>8. p \in Nat /\ q \in Nat
  BY <1>1, <1>2 DEF q
<1>9. \A j \in Nat : p <= j /\ j < p + q => ~(j < p) /\ ~(p + q <= j)
  BY <1>8
<1>10. Lays(a, d, s, p, q, at, m, secs)
  BY <1>6, <1>7, <1>9 DEF Lays
<1> QED
  BY <1>10 DEF p, q

(* Whole sectors written past the buffer keep the write correct            *)
(* (fatfs.c:384-415).                                                      *)
LEMMA WholeOk ==
  ASSUME NEW a, JobOk(a), NEW w, NEW s, WriteOk(a, w, s), ~w.halted,
         NEW at, at = SecOf(a.off + w.done), In(a.off + w.done) = 0,
         NEW left, left = Len(a.text) - w.done, left >= SectorSize
  PROVE  \E s2 : WriteOk(a, Whole(w, at, left, a.text), s2)
<1> DEFINE p == a.off + w.done
           v == [w EXCEPT !.info.addr = None]
           secs == SectorsOf(a.text, w.done, left)
           r == WriteSectors(v, at, secs)
           n == SecOf(left)
<1>1. /\ w \in Works /\ w.done \in Nat /\ p \in Nat /\ p <= Cap(s)
      /\ w.fat \in Table /\ w.data \in Disk /\ w.info \in Infos
      /\ IsChain(w.fat, s) /\ LookOk(w.info, s)
      /\ at \in Nat /\ p = Start(at) + In(p) /\ Start(at) \in Nat
      /\ at <= First(Len(s)) /\ First(Len(s)) \in Nat
      /\ w.done <= Len(a.text) /\ Len(a.text) \in Nat
  BY WriteAt
<1>2. p = Start(at)
  BY <1>1
<1>3. a.off \in Nat /\ a.text \in Seq(Byte)
  BY DEF JobOk
<1>4. /\ v = Buffered(w, None, w.info.sector)
      /\ v \in Works /\ v.fat = w.fat /\ v.data = w.data /\ v.done = w.done
      /\ v.halted = w.halted /\ v.info.addr = None /\ LookOk(v.info, s)
  <2> DEFINE e == [first |-> w.info.first, look |-> w.info.look, addr |-> None,
                   sector |-> w.info.sector]
  <2>1. e \in Infos /\ [w.info EXCEPT !.addr = None] = e
    BY <1>1 DEF Infos
  <2>2. v = [w EXCEPT !.info = [w.info EXCEPT !.addr = None]]
    BY <1>1 DEF Works
  <2> HIDE DEF e
  <2>3. v = [w EXCEPT !.info = e]
    BY <2>1, <2>2
  <2>4. w.info.sector \in Sector
    BY <1>1 DEF Infos
  <2> DEFINE u == Buffered(w, None, w.info.sector)
  <2> HIDE DEF v, r, secs
  <2>5. HasBuffer(w, None, w.info.sector, u)
    <3>1. None \in Nat \cup {None}
      OBVIOUS
    <3> QED
      BY <1>1, <2>4, <3>1, BufferedIs
  <2> HIDE DEF u
  <2>6. u.info = e
    <3>1. u.info \in Infos
      BY <2>5 DEF HasBuffer, Works
    <3>2. u.info = [first |-> u.info.first, look |-> u.info.look, addr |-> u.info.addr,
                    sector |-> u.info.sector]
      BY <3>1 DEF Infos
    <3> QED
      BY <2>5, <3>2 DEF e, HasBuffer
  <2>7. /\ v \in Works /\ v.fat = w.fat /\ v.data = w.data /\ v.info = e /\ v.done = w.done
        /\ v.bytes = w.bytes /\ v.n = w.n /\ v.go = w.go /\ v.halted = w.halted
    BY <1>1, <2>1, <2>3 DEF Works
  <2>8. v = u
    BY <2>5, <2>6, <2>7, WorksEqual DEF HasBuffer
  <2> QED
    BY <1>1, <2>5, <2>8 DEF HasBuffer, u
<1> HIDE DEF v
<1>5. /\ secs \in Seq(Sector) /\ Len(secs) = n /\ n \in Nat \ {0}
      /\ \A k \in 1 .. n, i \in 1 .. SectorSize :
           /\ w.done + Start(k - 1) + i \in 1 .. Len(a.text)
           /\ secs[k][i] = a.text[w.done + Start(k - 1) + i]
  <2> HIDE DEF r
  <2>1. TextIn(a.text, w.done, n, secs)
    BY <1>1, <1>3, SectorsOfText
  <2> HIDE DEF secs
  <2> QED
    BY <2>1 DEF TextIn
<1> HIDE DEF secs
<1>6. SectorsWritten(v, s, at, secs, r)
  <2>1. CanWrite(v, s, at, secs)
    BY <1>1, <1>4, <1>5 DEF CanWrite
  <2> QED
    BY <1>1, <2>1, WriteSectorsIs
<1>7. PICK s2 : Grown(w.fat, s, r.fat, s2) /\ (NoneWritten(v, s, at, r) \/ SomeWritten(v, s2, at, secs, r))
  BY <1>4, <1>6 DEF SectorsWritten
<1>8. Whole(w, at, left, a.text) = [r EXCEPT !.done = @ + SectorSize * r.n, !.go = r.n > 0]
  BY DEF Whole, v, secs
<1> HIDE DEF r
<1>9. r \in Works /\ r.done = w.done /\ r.halted = FALSE /\ r.n \in Nat
  BY <1>4, <1>5, <1>7 DEF NoneWritten, SomeWritten, Kept, Works
<1>10. SectorSize * r.n = Start(r.n) /\ Start(r.n) \in Nat
  <2>1. SectorSize * r.n = r.n * SectorSize
    BY <1>9, SizeFacts, Z3
  <2> QED
    BY <1>9, <2>1, StartFacts DEF Start
<1>11. BufferOk(v.info, v.data, s)
  BY <1>4 DEF BufferOk
<1>12. CASE NoneWritten(v, s, at, r)
  <2> DEFINE z == 0
  <2>0. z \in Nat
    OBVIOUS
  <2>1. r.n = 0 /\ SectorSize * r.n = z /\ (r.n > 0) = FALSE
    BY <1>12, SizeFacts DEF NoneWritten
  <2> HIDE DEF z
  <2>2. [r EXCEPT !.done = @ + SectorSize * r.n, !.go = r.n > 0]
          = [r EXCEPT !.done = @ + z, !.go = FALSE]
    BY <2>1, Zenon
  <2>3. [r EXCEPT !.done = @ + z, !.go = FALSE] = Stepped(r, z, FALSE, r.halted)
    BY <1>9, <2>0, SteppedIs
  <2>4. Whole(w, at, left, a.text) = Stepped(r, 0, FALSE, FALSE)
    BY <1>8, <1>9, <2>2, <2>3 DEF z
  <2>5. Stops(a, w, s, at, v, r, s2)
    BY <1>1, <1>4, <1>7, <1>12 DEF Stops
  <2>6. WriteOk(a, Stepped(r, 0, FALSE, FALSE), s2)
    BY <1>11, <2>5, WriteStops
  <2> QED
    BY <2>4, <2>6
<1>13. CASE SomeWritten(v, s2, at, secs, r)
  <2> DEFINE m == Start(r.n)
  <2>1. r.n \in 1 .. n
    BY <1>5, <1>13 DEF SomeWritten
  <2>2. (r.n > 0) = TRUE
    BY <2>1
  <2>3. [r EXCEPT !.done = @ + SectorSize * r.n, !.go = r.n > 0]
          = [r EXCEPT !.done = @ + m, !.go = TRUE]
    BY <1>10, <2>2, Zenon
  <2>4. [r EXCEPT !.done = @ + m, !.go = TRUE] = Stepped(r, m, TRUE, r.halted)
    <3> HIDE DEF m
    <3> QED
      BY <1>9, <1>10, SteppedIs DEF m
  <2>5. Whole(w, at, left, a.text) = Stepped(r, m, TRUE, FALSE)
    BY <1>8, <1>9, <2>3, <2>4
  <2>6. BufferOk(r.info, r.data, s2)
    BY <1>4, <1>13 DEF BufferOk, SomeWritten
  <2>7. w.done + m <= Len(a.text)
    <3>1. w.done + Start(r.n - 1) + SectorSize \in 1 .. Len(a.text)
      <4>1. SectorSize \in 1 .. SectorSize
        BY SizeFacts
      <4> QED
        BY <1>5, <2>1, <4>1
    <3>2. r.n - 1 \in Nat /\ (r.n - 1) + 1 = r.n
      BY <2>1
    <3>3. m = Start(r.n - 1) + SectorSize /\ Start(r.n - 1) \in Nat
      <4>1. Start((r.n - 1) + 1) = Start(r.n - 1) + SectorSize /\ Start(r.n - 1) \in Nat
        BY <3>2, StartFacts
      <4> QED
        BY <3>2, <4>1
    <3> HIDE DEF m
    <3> QED
      BY <1>1, <3>1, <3>3, SizeFacts
  <2>8. Lays(a, w.data, s, p, m, at, r.n, secs)
    <3>1. TextIn(a.text, w.done, n, secs)
      BY <1>5 DEF TextIn
    <3>2. a.off + w.done = Start(at)
      BY <1>2
    <3> HIDE DEF p, n, m
    <3>3. Lays(a, w.data, s, a.off + w.done, Start(r.n), at, r.n, secs)
      BY <1>1, <2>1, <3>1, <3>2, WholeLays
    <3> QED
      BY <3>3 DEF p, m
  <2>9. m \in Nat
    BY <1>10
  <2> HIDE DEF m
  <2>10. WriteOk(a, Stepped(r, m, TRUE, FALSE), s2)
    <3>1. Advances(a, w, s, at, v, secs, r, s2, m)
      BY <1>1, <1>4, <1>5, <1>7, <1>13, <2>6, <2>7, <2>8, <2>9 DEF Advances
    <3> QED
      BY <3>1, WriteGoes
  <2> QED
    BY <2>5, <2>10 DEF m
<1> QED
  BY <1>7, <1>12, <1>13

(* A piece of a sector, through the buffer.                                *)
PieceAt(a, w, s, at, in, left) ==
  /\ JobOk(a) /\ WriteOk(a, w, s) /\ ~w.halted
  /\ at = SecOf(a.off + w.done) /\ in = In(a.off + w.done)
  /\ left = Len(a.text) - w.done /\ left \in Nat \ {0}
PieceBuffer(w, at, part) ==
  IF w.info.addr = at \/ part = SectorSize THEN w
  ELSE Buffered(ReadSectors(w, at, 1), at,
                IF ReadSectors(w, at, 1).n = 0 THEN ZeroSector ELSE ReadSectors(w, at, 1).bytes)

PieceSector(old, in, part, text, done) ==
  [i \in 1 .. SectorSize |->
     IF i \in in + 1 .. in + part THEN text[done + i - in] ELSE old[i]]
HasSector(w, s, at, part, b) ==
  /\ b \in Works /\ b.fat = w.fat /\ b.data = w.data /\ b.done = w.done /\ b.halted = w.halted
  /\ LookOk(b.info, s) /\ b.info.sector \in Sector
  /\ part # SectorSize /\ at < First(Len(s)) => b.info.sector = SecAt(w.data, s, at)

(* The bytes of a sector that an access takes part of.                     *)
LEMMA PartFacts ==
  ASSUME NEW in \in 0 .. SectorSize - 1, NEW left \in Nat \ {0}
  PROVE  /\ Part(in, left) \in 1 .. SectorSize /\ Part(in, left) <= left
         /\ in + Part(in, left) <= SectorSize
  BY SizeFacts DEF Part, Least

LEMMA SameSector ==
  ASSUME NEW f \in Sector, NEW g \in Sector, \A j \in 1 .. SectorSize : f[j] = g[j]
  PROVE  f = g
<1> DEFINE D == 1 .. SectorSize
<1>1. f \in [D -> Byte] /\ g \in [D -> Byte] /\ \A j \in D : f[j] = g[j]
  BY DEF Sector
<1> HIDE DEF D
<1>2. f = [j \in D |-> f[j]] /\ g = [j \in D |-> g[j]]
  BY <1>1
<1> QED
  BY <1>1, <1>2

(* A read of one sector returns the sector on the disk, or fails.          *)
LEMMA OneSectorRead ==
  ASSUME NEW w, NEW s, NEW at \in Nat, NEW r, w \in Works, IsChain(w.fat, s),
         SectorsRead(w, s, at, 1, r), r.n # 0
  PROVE  at < First(Len(s)) /\ r.n = 1 /\ r.bytes \in Sector /\ r.bytes = SecAt(w.data, s, at)
<1>1. r \in Works /\ at < First(Len(s)) /\ r.n = 1 /\ Len(r.bytes) = Start(1)
      /\ \A j \in 1 .. Start(1) : r.bytes[j] = SecAt(w.data, s, at + SecOf(j - 1))[In(j - 1) + 1]
  BY DEF SectorsRead, Kept
<1>2. Start(1) = SectorSize /\ Start(0) = 0
  BY SizeFacts DEF Start
<1>3. SecAt(w.data, s, at) \in [1 .. SectorSize -> Byte]
  BY <1>1, SectorOnDisk DEF Works, Sector
<1>4. r.bytes \in Seq(Byte)
  BY <1>1 DEF Works
<1>5. r.bytes \in [1 .. SectorSize -> Byte]
  BY <1>1, <1>2, <1>4, SizeFacts
<1>6. ASSUME NEW j \in 1 .. SectorSize PROVE r.bytes[j] = SecAt(w.data, s, at)[j]
  <2> DEFINE i == j - 1
  <2>1. i \in 0 .. SectorSize - 1 /\ i + 1 = j /\ 0 \in Nat
    BY SizeFacts
  <2>2. r.bytes[j] = SecAt(w.data, s, at + SecOf(i))[In(i) + 1]
    BY <1>1, <1>2
  <2> HIDE DEF i
  <2>3. SecOf(Start(0) + i) = 0 /\ In(Start(0) + i) = i
    BY <2>1, ByteIn
  <2>4. Start(0) + i = i
    BY <1>2, <2>1
  <2>5. SecOf(i) = 0 /\ In(i) = i
    BY <2>3, <2>4
  <2>6. at + SecOf(i) = at
    BY <2>5
  <2> QED
    BY <2>1, <2>2, <2>5, <2>6
<1>7. r.bytes = SecAt(w.data, s, at)
  <2>1. r.bytes \in Sector /\ SecAt(w.data, s, at) \in Sector
    BY <1>3, <1>5 DEF Sector
  <2> QED
    BY <1>6, <2>1, SameSector
<1> QED
  BY <1>1, <1>5, <1>7 DEF Sector

(* The buffer in which part of a sector is changed has the rest of the     *)
(* sector, unless all of it is changed or it is new (fatfs.c:417-442).     *)
LEMMA PieceBufferIs ==
  ASSUME NEW w, NEW s, NEW at \in Nat, NEW part, w \in Works, IsChain(w.fat, s),
         LookOk(w.info, s), BufferOk(w.info, w.data, s)
  PROVE  HasSector(w, s, at, part, PieceBuffer(w, at, part))
<1> DEFINE r == ReadSectors(w, at, 1)
           c == IF r.n = 0 THEN ZeroSector ELSE r.bytes
           b == PieceBuffer(w, at, part)
<1>1. w.info.sector \in Sector
  BY DEF Works, Infos
<1>2. CASE w.info.addr = at \/ part = SectorSize
  <2>1. b = w
    BY <1>2 DEF PieceBuffer
  <2>2. w.info.addr = at => w.info.sector = SecAt(w.data, s, at)
    BY FileAssumption DEF BufferOk
  <2> HIDE DEF b
  <2>3. HasSector(w, s, at, part, b)
    BY <1>1, <1>2, <2>1, <2>2 DEF HasSector
  <2> QED
    BY <2>3 DEF b
<1>3. CASE ~(w.info.addr = at \/ part = SectorSize)
  <2>1. b = Buffered(r, at, c)
    BY <1>3 DEF PieceBuffer
  <2>2. SectorsRead(w, s, at, 1, r)
    BY ReadSectorsIs
  <2> HIDE DEF b, r
  <2>3. /\ r \in Works /\ r.fat = w.fat /\ r.data = w.data /\ r.done = w.done /\ r.halted = w.halted
        /\ LookOk(r.info, s) /\ (at < First(Len(s)) => r.n # 0)
    BY <2>2 DEF SectorsRead, Kept
  <2>4. c \in Sector /\ (at < First(Len(s)) => c = SecAt(w.data, s, at))
    <3>1. ZeroSector \in Sector
      BY FileAssumption DEF ZeroSector, Sector
    <3>2. r.n # 0 => r.bytes \in Sector /\ r.bytes = SecAt(w.data, s, at)
      BY <2>2, OneSectorRead
    <3> QED
      BY <2>3, <3>1, <3>2
  <2> HIDE DEF c
  <2>5. HasBuffer(r, at, c, b)
    <3>1. at \in Nat \cup {None}
      OBVIOUS
    <3> QED
      BY <2>1, <2>3, <2>4, <3>1, BufferedIs
  <2>6. HasSector(w, s, at, part, b)
    BY <2>3, <2>4, <2>5 DEF HasBuffer, HasSector
  <2> QED
    BY <2>6 DEF b
<1> QED
  BY <1>2, <1>3

(* The bytes of the sector at that a piece of it changes.                  *)
BytesOfPiece(h, in, part, off, done, e) ==
  /\ off + done <= h + e /\ h + e < (off + done) + part <=> e + 1 \in in + 1 .. in + part
  /\ h + e < off + done \/ (off + done) + part <= h + e => e + 1 \notin in + 1 .. in + part
  /\ e + 1 \in in + 1 .. in + part => done + ((e + 1) - in) = ((h + e) - off) + 1

(* Where the bytes of the text go in a sector.                             *)
LEMMA PieceBytes ==
  ASSUME NEW h \in Nat, NEW in \in Nat, NEW part \in Nat, NEW off \in Nat, NEW done \in Nat,
         off + done = h + in, NEW e \in Nat
  PROVE  BytesOfPiece(h, in, part, off, done, e)
  BY DEF BytesOfPiece

LEMMA PieceIn ==
  ASSUME NEW at \in Nat, NEW in \in Nat, NEW part \in Nat, in + part <= SectorSize,
         NEW p, p = Start(at) + in, NEW j \in Nat, p <= j, j < p + part
  PROVE  SecOf(j) = at
<1>1. Start(at) \in Nat /\ Start(at + 1) = Start(at) + SectorSize
  BY StartFacts
<1>2. ~(j < Start(at)) /\ j < Start(at + 1)
  BY <1>1, SizeFacts
<1>3. ~(SecOf(j) < at) /\ SecOf(j) < at + 1 /\ SecOf(j) \in Nat
  BY <1>2, BytesBefore, ByteFacts
<1> QED
  BY <1>3

LEMMA PieceText ==
  ASSUME NEW len \in Nat, NEW done \in Nat, NEW in \in Nat, NEW part \in Nat, done + part <= len,
         NEW i \in in + 1 .. in + part
  PROVE  done + (i - in) \in 1 .. len
  OBVIOUS

(* The sector to be written has the next bytes of the text and what was in *)
(* the file around them.                                                   *)
LEMMA PieceSectorIs ==
  ASSUME NEW a, NEW w, NEW s, NEW at, NEW in, NEW left, PieceAt(a, w, s, at, in, left),
         NEW part, part = Part(in, left), NEW b, HasSector(w, s, at, part, b),
         NEW f, f = PieceSector(b.info.sector, in, part, a.text, w.done)
  PROVE  /\ f \in Sector /\ w.done + part <= Len(a.text) /\ part \in Nat \ {0}
         /\ Lays(a, w.data, s, a.off + w.done, part, at, 1, <<f>>)
<1> DEFINE p == a.off + w.done
<1>1. /\ w.done \in Nat /\ p \in Nat /\ at \in Nat /\ in \in 0 .. SectorSize - 1
      /\ p = Start(at) + in /\ Start(at) \in Nat /\ Len(a.text) \in Nat
      /\ IsChain(w.fat, s) /\ w.fat \in Table
  BY WriteAt DEF PieceAt
<1>2. /\ part \in 1 .. SectorSize /\ part <= left /\ in + part <= SectorSize
      /\ left = Len(a.text) - w.done /\ left \in Nat \ {0} /\ part \in Nat \ {0}
  <2>1. left \in Nat \ {0} /\ left = Len(a.text) - w.done /\ in \in 0 .. SectorSize - 1
    BY <1>1 DEF PieceAt
  <2>2. part \in 1 .. SectorSize /\ part <= left /\ in + part <= SectorSize
    BY <2>1, PartFacts
  <2> QED
    BY <2>1, <2>2, SizeFacts
<1>3. a.text \in Seq(Byte) /\ a.off \in Nat
  BY DEF PieceAt, JobOk
<1>4. b.info.sector \in [1 .. SectorSize -> Byte]
  BY DEF HasSector, Sector
<1>5. w.done + part <= Len(a.text)
  BY <1>1, <1>2
<1>6. ASSUME NEW i \in in + 1 .. in + part PROVE w.done + (i - in) \in 1 .. Len(a.text)
  <2>1. in \in Nat /\ part \in Nat
    BY <1>1, <1>2, SizeFacts
  <2> QED
    BY <1>1, <1>5, <2>1, PieceText
<1>7. f \in Sector
  <2>1. \A i \in in + 1 .. in + part : a.text[w.done + i - in] \in Byte
    BY <1>3, <1>6
  <2>2. f = [i \in 1 .. SectorSize |->
               IF i \in in + 1 .. in + part THEN a.text[w.done + i - in] ELSE b.info.sector[i]]
    BY DEF PieceSector
  <2> QED
    BY <1>4, <2>1, <2>2 DEF Sector
<1>8. ASSUME NEW j \in Nat
      PROVE  /\ p <= j /\ j < p + part => at <= SecOf(j) /\ SecOf(j) < at + 1
             /\ at <= SecOf(j) /\ SecOf(j) < at + 1 =>
                  /\ p <= j /\ j < p + part =>
                       <<f>>[SecOf(j) - at + 1][In(j) + 1] = a.text[j - a.off + 1]
                  /\ j < p \/ p + part <= j =>
                       (j < Cap(s) => <<f>>[SecOf(j) - at + 1][In(j) + 1] = ByteAt(w.data, s, j))
  <2> DEFINE x == SecOf(j)
             e == In(j)
             h == Start(at)
  <2>1. x \in Nat /\ e \in 0 .. SectorSize - 1 /\ j = Start(x) + e /\ Start(x) \in Nat
    BY ByteFacts, StartFacts
  <2>3. ByteAt(w.data, s, j) = SecAt(w.data, s, x)[e + 1] /\ (j < Cap(s) => x < First(Len(s)))
    BY <1>1, CapFacts DEF ByteAt
  <2> HIDE DEF x, e, h, p
  <2>4. p = h + in /\ h \in Nat /\ p = a.off + w.done
    BY <1>1 DEF h, p
  <2>5. ASSUME p <= j, j < p + part PROVE x = at
    <3>1. in \in Nat /\ part \in Nat /\ in + part <= SectorSize /\ p = Start(at) + in
      BY <1>1, <1>2, <2>4, SizeFacts DEF h
    <3> QED
      BY <1>1, <2>5, <3>1, PieceIn DEF x
  <2>6. ASSUME x = at
        PROVE  /\ p <= j /\ j < p + part => f[e + 1] = a.text[j - a.off + 1]
               /\ j < p \/ p + part <= j => (j < Cap(s) => f[e + 1] = SecAt(w.data, s, at)[e + 1])
    <3>1. j = h + e
      BY <2>1, <2>6 DEF h
    <3>2. e + 1 \in 1 .. SectorSize
      BY <2>1, SizeFacts
    <3>3. /\ p <= j /\ j < p + part <=> e + 1 \in in + 1 .. in + part
          /\ j < p \/ p + part <= j => e + 1 \notin in + 1 .. in + part
          /\ e + 1 \in in + 1 .. in + part => w.done + ((e + 1) - in) = (j - a.off) + 1
      <4>1. in \in Nat /\ part \in Nat /\ e \in Nat
        BY <1>1, <1>2, <2>1, SizeFacts
      <4>2. a.off + w.done = h + in
        BY <2>4
      <4>3. BytesOfPiece(h, in, part, a.off, w.done, e)
        BY <1>1, <1>3, <2>4, <4>1, <4>2, PieceBytes
      <4> QED
        BY <2>4, <3>1, <4>3 DEF BytesOfPiece
    <3>4. f[e + 1] = IF e + 1 \in in + 1 .. in + part THEN a.text[w.done + ((e + 1) - in)]
                     ELSE b.info.sector[e + 1]
      BY <3>2 DEF PieceSector
    <3>6. ASSUME e + 1 \notin in + 1 .. in + part, j < Cap(s)
          PROVE  b.info.sector[e + 1] = SecAt(w.data, s, at)[e + 1]
      <4>1. part # SectorSize
        BY <1>1, <1>2, <2>1, <3>6, SizeFacts
      <4> QED
        BY <2>3, <2>6, <3>6, <4>1 DEF HasSector
    <3> QED
      BY <3>3, <3>4, <3>6
  <2>7. at <= x /\ x < at + 1 => x = at /\ x - at + 1 = 1
    BY <1>1, <2>1
  <2>8. <<f>>[1] = f
    OBVIOUS
  <2>9. at <= at /\ at < at + 1
    BY <1>1
  <2>10. p <= j /\ j < p + part => at <= x /\ x < at + 1
    BY <2>5, <2>9
  <2>11. at <= x /\ x < at + 1 =>
                  /\ p <= j /\ j < p + part =>
                       <<f>>[x - at + 1][e + 1] = a.text[j - a.off + 1]
                  /\ j < p \/ p + part <= j =>
                       (j < Cap(s) => <<f>>[x - at + 1][e + 1] = ByteAt(w.data, s, j))
    <3> SUFFICES ASSUME at <= x, x < at + 1
                 PROVE  /\ p <= j /\ j < p + part =>
                            <<f>>[x - at + 1][e + 1] = a.text[j - a.off + 1]
                        /\ j < p \/ p + part <= j =>
                            (j < Cap(s) => <<f>>[x - at + 1][e + 1] = ByteAt(w.data, s, j))
      OBVIOUS
    <3>1. x = at /\ <<f>>[x - at + 1] = f
      BY <2>7, <2>8
    <3> QED
      BY <2>3, <2>6, <3>1
  <2> QED
    BY <2>10, <2>11 DEF x, e
<1> HIDE DEF p
<1>9. Lays(a, w.data, s, p, part, at, 1, <<f>>)
  BY <1>8 DEF Lays
<1> QED
  BY <1>2, <1>5, <1>7, <1>9 DEF p

(* Part of a sector written through the buffer keeps the write correct     *)
(* (fatfs.c:417-470).                                                      *)
LEMMA PieceOk ==
  ASSUME NEW a, NEW w, NEW s, NEW at, NEW in, NEW left, PieceAt(a, w, s, at, in, left)
  PROVE  \E s2 : WriteOk(a, Piece(w, at, in, left, a.text), s2)
<1> DEFINE part == Part(in, left)
           b == PieceBuffer(w, at, part)
           f == PieceSector(b.info.sector, in, part, a.text, w.done)
           v == Buffered(b, at, f)
           secs == <<f>>
           r == WriteSectors(v, at, secs)
<1>1. /\ w \in Works /\ w.done \in Nat /\ at \in Nat /\ w.fat \in Table
      /\ IsChain(w.fat, s) /\ LookOk(w.info, s) /\ BufferOk(w.info, w.data, s)
      /\ at <= First(Len(s)) /\ First(Len(s)) \in Nat /\ ~w.halted /\ JobOk(a) /\ WriteOk(a, w, s)
      /\ at = SecOf(a.off + w.done)
  BY WriteAt DEF PieceAt
<1>2. Piece(w, at, in, left, a.text) = [r EXCEPT !.done = @ + part, !.go = r.n = 1, !.halted = r.n # 1]
  BY DEF Piece, PieceBuffer, PieceSector
<1> HIDE DEF part
<1>3. HasSector(w, s, at, part, b)
  BY <1>1, PieceBufferIs
<1> HIDE DEF b
<1>4. /\ f \in Sector /\ w.done + part <= Len(a.text) /\ part \in Nat \ {0}
      /\ Lays(a, w.data, s, a.off + w.done, part, at, 1, secs)
  <2>1. part = Part(in, left)
    BY DEF part
  <2> HIDE DEF r, v
  <2> QED
    BY <1>3, <2>1, PieceSectorIs
<1> HIDE DEF f
<1>5. HasBuffer(b, at, f, v)
  <2>1. b \in Works /\ at \in Nat \cup {None}
    BY <1>1, <1>3 DEF HasSector
  <2> QED
    BY <1>4, <2>1, BufferedIs
<1> HIDE DEF v
<1>6. /\ v \in Works /\ v.fat = w.fat /\ v.data = w.data /\ v.done = w.done /\ v.halted = w.halted
      /\ LookOk(v.info, s) /\ v.info.addr = at /\ v.info.sector = f
  BY <1>3, <1>5 DEF HasBuffer, HasSector
<1>7. secs \in Seq(Sector) /\ Len(secs) = 1 /\ secs[1] = f
  BY <1>4
<1> HIDE DEF secs
<1>8. SectorsWritten(v, s, at, secs, r)
  <2>1. CanWrite(v, s, at, secs)
    BY <1>1, <1>6, <1>7 DEF CanWrite
  <2> QED
    BY <1>1, <2>1, WriteSectorsIs
<1>9. PICK s2 : Grown(w.fat, s, r.fat, s2) /\ (NoneWritten(v, s, at, r) \/ SomeWritten(v, s2, at, secs, r))
  BY <1>6, <1>8 DEF SectorsWritten
<1> HIDE DEF r
<1>10. r \in Works /\ part \in Nat
  BY <1>4, <1>9 DEF NoneWritten, SomeWritten, Kept
<1>11. CASE NoneWritten(v, s, at, r)
  <2>1. (r.n = 1) = FALSE /\ (r.n # 1) = TRUE
    BY <1>11 DEF NoneWritten
  <2>2. Piece(w, at, in, left, a.text) = [r EXCEPT !.done = @ + part, !.go = FALSE, !.halted = TRUE]
    BY <1>2, <2>1, Zenon
  <2>3. Piece(w, at, in, left, a.text) = Stepped(r, part, FALSE, TRUE)
    BY <1>10, <2>2, SteppedIs
  <2>4. Stops(a, w, s, at, v, r, s2)
    BY <1>1, <1>6, <1>9, <1>11 DEF Stops
  <2>5. WriteOk(a, Stepped(r, part, FALSE, TRUE), s2)
    BY <1>1, <1>4, <1>10, <2>4, WriteStops
  <2> QED
    BY <2>3, <2>5
<1>12. CASE SomeWritten(v, s2, at, secs, r)
  <2>0. r.n = 1
    BY <1>7, <1>12 DEF SomeWritten
  <2>1. (r.n = 1) = TRUE /\ (r.n # 1) = FALSE
    BY <2>0
  <2>2. Piece(w, at, in, left, a.text) = [r EXCEPT !.done = @ + part, !.go = TRUE, !.halted = FALSE]
    BY <1>2, <2>1, Zenon
  <2>3. Piece(w, at, in, left, a.text) = Stepped(r, part, TRUE, FALSE)
    BY <1>10, <2>2, SteppedIs
  <2>4. BufferOk(r.info, r.data, s2)
    <3>1. r.info.addr = at /\ r.info.sector = f
      BY <1>6, <1>12 DEF SomeWritten
    <3>2. at < First(Len(s2)) /\ SecAt(r.data, s2, at) = secs[at - at + 1]
      <4>1. First(Len(s2)) \in Nat
        BY <1>1, <1>9, GrownSectors
      <4>2. at < First(Len(s2))
        BY <1>1, <1>12, <2>0, <4>1 DEF SomeWritten
      <4>3. at <= at /\ at < at + r.n
        BY <1>1, <2>0
      <4> QED
        BY <1>1, <1>12, <4>2, <4>3 DEF SomeWritten
    <3>3. at - at + 1 = 1
      BY <1>1
    <3> QED
      BY <1>1, <1>7, <3>1, <3>2, <3>3 DEF BufferOk
  <2>5. Advances(a, w, s, at, v, secs, r, s2, part)
    BY <1>1, <1>4, <1>6, <1>7, <1>9, <1>10, <1>12, <2>0, <2>4 DEF Advances
  <2>6. WriteOk(a, Stepped(r, part, TRUE, FALSE), s2)
    BY <2>5, WriteGoes
  <2> QED
    BY <2>3, <2>6
<1> QED
  BY <1>9, <1>11, <1>12

(* A write as a whole: its step, and the access it ends with.              *)
LEMMA WriteStepOk ==
  ASSUME NEW a, JobOk(a), NEW w, NEW s, WriteOk(a, w, s), w.go, w.done < Len(a.text)
  PROVE  \E s2 : WriteOk(a, WriteStep(w, a.off, a.text), s2)
<1> DEFINE p == a.off + w.done
           at == SecOf(p)
           in == In(p)
           left == Len(a.text) - w.done
<1>1. ~w.halted
  BY DEF WriteOk
<1>2. w.done \in Nat /\ Len(a.text) \in Nat
  BY <1>1, WriteAt
<1>3. left \in Nat \ {0}
  BY <1>2
<1>4. WriteStep(w, a.off, a.text) = IF in = 0 /\ left >= SectorSize THEN Whole(w, at, left, a.text)
                                    ELSE Piece(w, at, in, left, a.text)
  BY DEF WriteStep, SecOf, In
<1>5. CASE in = 0 /\ left >= SectorSize
  <2>1. \E s2 : WriteOk(a, Whole(w, at, left, a.text), s2)
    BY <1>1, <1>5, WholeOk
  <2> QED
    BY <1>4, <1>5, <2>1
<1>6. CASE ~(in = 0 /\ left >= SectorSize)
  <2>1. PieceAt(a, w, s, at, in, left)
    BY <1>1, <1>3 DEF PieceAt
  <2>2. \E s2 : WriteOk(a, Piece(w, at, in, left, a.text), s2)
    BY <2>1, PieceOk
  <2> QED
    BY <1>4, <1>6, <2>2
<1> QED
  BY <1>5, <1>6

StartOk(a, f) ==
  /\ JobOk(a) /\ a.fat = fat /\ a.data = data /\ node[f].info \in Infos
  /\ LookOk(node[f].info, a.chain) /\ BufferOk(node[f].info, data, a.chain)

(* A write begins with nothing done.                                       *)
LEMMA WorkOk ==
  ASSUME NEW a, NEW f, StartOk(a, f)
  PROVE  WriteOk(a, Work(f), a.chain) /\ Work(f) \in Works
<1> DEFINE w == Work(f)
<1>1. /\ a.off \in Nat /\ a.text \in Seq(Byte) /\ a.len \in Nat /\ Len(a.text) \in Nat
      /\ a.fat \in Table /\ a.data \in Disk /\ IsChain(a.fat, a.chain)
      /\ a.off <= a.len /\ a.len <= Cap(a.chain)
  BY DEF StartOk, JobOk
<1>2. /\ w.fat = a.fat /\ w.data = a.data /\ w.info = node[f].info /\ w.done = 0 /\ w.go = TRUE
      /\ w.halted = FALSE
  BY DEF Work, StartOk
<1>3. w \in Works
  BY <1>1 DEF Work, StartOk, Works
<1> HIDE DEF w
<1>4. Grown(a.fat, a.chain, w.fat, a.chain)
  BY <1>1, <1>2, GrownNot
<1>5. Cap(a.chain) \in Nat /\ a.off + 0 = a.off /\ a.off <= Cap(a.chain)
  BY <1>1, CapFacts
<1>6. Shows(a, w.data, a.chain, 0, Cap(a.chain))
  <2>1. \A j \in Nat : ~(a.off <= j /\ j < a.off + 0)
    BY <1>1
  <2> QED
    BY <1>2, <2>1 DEF Shows
<1>7. WriteOk(a, w, a.chain)
  <2>1. 0 <= Len(a.text)
    BY <1>1
  <2>2. LookOk(w.info, a.chain) /\ BufferOk(w.info, w.data, a.chain)
    BY <1>2 DEF StartOk
  <2> QED
    BY <1>2, <1>3, <1>4, <1>5, <1>6, <2>1, <2>2 DEF WriteOk
<1> QED
  BY <1>3, <1>7 DEF w

(* After the loop of _fs_write_file the file shows the bytes done          *)
(* (fatfs.c:350-494).                                                      *)
LEMMA WriteFileOk ==
  ASSUME NEW a, NEW f, StartOk(a, f)
  PROVE  \E s : WriteOk(a, WriteFile(f, a.off, a.text), s)
<1> DEFINE V == {w \in Works : \E s : WriteOk(a, w, s)}
           w0 == Work(f)
           step(w) == IF w.go /\ w.done < Len(a.text) THEN WriteStep(w, a.off, a.text) ELSE w
           n == MaxSize
           It(h) == [k \in 0 .. n |-> IF k = 0 THEN w0 ELSE step(h[k - 1])]
           F == [k \in 1 .. n |-> [w \in V |-> step(w)]]
           after == CHOOSE h : h = It(h)
<1>1. WriteFile(f, a.off, a.text) = after[n]
  BY DEF WriteFile
<1>2. w0 \in V
  BY WorkOk
<1>3. ASSUME NEW w \in V PROVE step(w) \in V
  <2>1. PICK s : WriteOk(a, w, s)
    OBVIOUS
  <2>2. CASE w.go /\ w.done < Len(a.text)
    <3>1. PICK s2 : WriteOk(a, WriteStep(w, a.off, a.text), s2)
      BY <2>1, <2>2, WriteStepOk DEF StartOk
    <3>2. WriteStep(w, a.off, a.text) \in Works
      BY <3>1 DEF WriteOk
    <3> QED
      BY <2>2, <3>1, <3>2
  <2>3. CASE ~(w.go /\ w.done < Len(a.text))
    BY <2>3
  <2> QED
    BY <2>2, <2>3
<1> HIDE DEF V, w0, step
<1>4. n \in Nat
  BY FileAssumption
<1> HIDE DEF n
<1>5. \E g \in [0 .. n -> V] : Iterated(g, F, n, w0)
  <2>1. Folds(F, V, n, w0)
    BY <1>2, <1>3, <1>4 DEF Folds
  <2> HIDE DEF F
  <2> QED
    BY <2>1, Iteration
<1>6. PICK g \in [0 .. n -> V] : \A k \in 0 .. n : g[k] = IF k = 0 THEN w0 ELSE F[k][g[k - 1]]
  BY <1>5 DEF Iterated
<1>7. g = It(g)
  <2>1. \A k \in 0 .. n : k # 0 => k \in 1 .. n /\ k - 1 \in 0 .. n
    BY <1>4
  <2>2. \A k \in 0 .. n : k # 0 => F[k][g[k - 1]] = step(g[k - 1])
    BY <2>1
  <2> QED
    BY <1>6, <2>2
<1>8. after = It(after)
  <2> HIDE DEF It
  <2> QED
    BY <1>7
<1> HIDE DEF after
<1> DEFINE T == {k \in 0 .. n : after[k] \in V}
<1>9. 0 \in T
  BY <1>2, <1>4, <1>8
<1>10. ASSUME NEW k \in 1 .. n, k - 1 \in T PROVE k \in T
  <2>1. k \in 0 .. n /\ k # 0
    BY <1>4
  <2> QED
    BY <1>3, <1>8, <1>10, <2>1
<1>11. after[n] \in V
  <2> HIDE DEF T
  <2>1. \A k \in 0 .. n : k \in T
    BY <1>4, <1>9, <1>10, InductionTo
  <2>2. n \in 0 .. n
    BY <1>4
  <2> QED
    BY <2>1, <2>2 DEF T
<1> QED
  BY <1>1, <1>11 DEF V

(***************************************************************************)
(* A read: the bytes it has returned so far are those of the file.         *)
(***************************************************************************)
Shown(d, s, p, m, bytes) ==
  /\ bytes \in Seq(Byte) /\ m \in Nat /\ Len(bytes) = m
  /\ \A i \in 1 .. m : bytes[i] = ByteAt(d, s, p + (i - 1))
ReadOk(s, off, count, w) ==
  /\ w \in Works /\ w.fat = fat /\ w.data = data /\ ~w.halted
  /\ LookOk(w.info, s) /\ BufferOk(w.info, data, s)
  /\ w.done <= count /\ Shown(data, s, off, w.done, w.bytes)
CanRead(s, off, count) ==
  /\ fat \in Table /\ data \in Disk /\ IsChain(fat, s)
  /\ off \in Nat /\ count \in Nat /\ off + count <= Cap(s)

(* Bytes read one after the other are bytes of the file.                   *)
LEMMA ShownTogether ==
  ASSUME NEW d, NEW s, NEW p \in Nat, NEW m, NEW x, Shown(d, s, p, m, x),
         NEW k, NEW y, Shown(d, s, p + m, k, y)
  PROVE  Shown(d, s, p, m + k, x \o y)
<1>1. /\ x \in Seq(Byte) /\ m \in Nat /\ Len(x) = m /\ y \in Seq(Byte) /\ k \in Nat /\ Len(y) = k
      /\ \A i \in 1 .. m : x[i] = ByteAt(d, s, p + (i - 1))
      /\ \A i \in 1 .. k : y[i] = ByteAt(d, s, (p + m) + (i - 1))
  BY DEF Shown
<1>2. /\ x \o y \in Seq(Byte) /\ Len(x \o y) = m + k
      /\ \A i \in 1 .. m + k : (x \o y)[i] = IF i <= m THEN x[i] ELSE y[i - m]
  BY <1>1, ConcatProperties
<1>3. ASSUME NEW i \in 1 .. m + k PROVE (x \o y)[i] = ByteAt(d, s, p + (i - 1))
  <2>1. CASE i <= m
    <3>1. i \in 1 .. m
      BY <1>1, <2>1
    <3> QED
      BY <1>1, <1>2, <2>1, <3>1
  <2>2. CASE ~(i <= m)
    <3>1. i - m \in 1 .. k /\ (p + m) + ((i - m) - 1) = p + (i - 1)
      BY <1>1, <2>2
    <3> QED
      BY <1>1, <1>2, <2>2, <3>1
  <2> QED
    BY <2>1, <2>2
<1> QED
  BY <1>1, <1>2, <1>3 DEF Shown

Returned(r, m, bytes, go) ==
  [fat |-> r.fat, data |-> r.data, info |-> r.info, done |-> r.done + m, bytes |-> bytes,
   n |-> r.n, go |-> go, halted |-> r.halted]

(* What a turn of the loop of a read changes.                              *)
LEMMA ReturnedIs ==
  ASSUME NEW r \in Works, NEW m \in Nat, NEW bytes \in Seq(Byte), NEW go \in BOOLEAN
  PROVE  /\ Returned(r, m, bytes, go) \in Works
         /\ [r EXCEPT !.bytes = bytes, !.done = @ + m, !.go = go] = Returned(r, m, bytes, go)
         /\ [r EXCEPT !.done = @ + m, !.bytes = bytes] = Returned(r, m, bytes, r.go)
<1> DEFINE d == r.done + m
           e(g) == [fat |-> r.fat, data |-> r.data, info |-> r.info, done |-> d,
                    bytes |-> bytes, n |-> r.n, go |-> g, halted |-> r.halted]
           u == [r EXCEPT !.bytes = bytes, !.done = d, !.go = go]
           v == [r EXCEPT !.done = d, !.bytes = bytes]
<1>1. d \in Nat
  BY DEF Works
<1>2. e(go) = Returned(r, m, bytes, go) /\ e(r.go) = Returned(r, m, bytes, r.go)
  BY DEF Returned
<1> HIDE DEF d
<1>3. e(go) \in Works /\ e(r.go) \in Works
  BY <1>1 DEF Works
<1>4. u \in Works /\ v \in Works
  BY <1>1 DEF Works
<1>5. /\ u.fat = r.fat /\ u.data = r.data /\ u.info = r.info /\ u.done = d /\ u.bytes = bytes
      /\ u.n = r.n /\ u.go = go /\ u.halted = r.halted
  BY DEF Works
<1>6. /\ v.fat = r.fat /\ v.data = r.data /\ v.info = r.info /\ v.done = d /\ v.bytes = bytes
      /\ v.n = r.n /\ v.go = r.go /\ v.halted = r.halted
  BY DEF Works
<1> HIDE DEF u, v
<1>7. u = e(go)
  BY <1>3, <1>4, <1>5, WorksEqual
<1>8. v = e(r.go)
  BY <1>3, <1>4, <1>6, WorksEqual
<1> QED
  BY <1>2, <1>3, <1>7, <1>8 DEF u, v, d

Reads(s, off, count, w, r, m, bytes, go) ==
  /\ CanRead(s, off, count) /\ ReadOk(s, off, count, w)
  /\ r \in Works /\ r.fat = w.fat /\ r.data = w.data /\ r.done = w.done /\ r.halted = w.halted
  /\ LookOk(r.info, s) /\ BufferOk(r.info, data, s)
  /\ w.done + m <= count /\ go \in BOOLEAN
  /\ Shown(data, s, off + w.done, m, bytes)

(* A turn that returns the next bytes of the file keeps the read correct.  *)
LEMMA ReadGoes ==
  ASSUME NEW s, NEW off, NEW count, NEW w, NEW r, NEW m, NEW bytes, NEW go,
         Reads(s, off, count, w, r, m, bytes, go)
  PROVE  /\ ReadOk(s, off, count, Returned(r, m, w.bytes \o bytes, go))
         /\ m \in Nat /\ w.bytes \o bytes \in Seq(Byte)
<1> DEFINE u == Returned(r, m, w.bytes \o bytes, go)
<1>1. /\ off \in Nat /\ w.done \in Nat /\ r \in Works /\ r.done = w.done /\ go \in BOOLEAN
      /\ r.fat = fat /\ r.data = data /\ ~r.halted /\ w.done + m <= count
      /\ LookOk(r.info, s) /\ BufferOk(r.info, data, s)
  BY DEF Reads, CanRead, ReadOk, Works
<1>2. Shown(data, s, off, w.done + m, w.bytes \o bytes)
  BY <1>1, ShownTogether DEF Reads, ReadOk
<1>3. m \in Nat /\ w.bytes \o bytes \in Seq(Byte)
  BY <1>2 DEF Reads, Shown
<1>4. /\ u \in Works /\ u.fat = fat /\ u.data = data /\ u.info = r.info /\ u.done = w.done + m
      /\ u.bytes = w.bytes \o bytes /\ ~u.halted
  BY <1>1, <1>3, ReturnedIs DEF Returned
<1> HIDE DEF u
<1>5. ReadOk(s, off, count, u)
  BY <1>1, <1>2, <1>4 DEF ReadOk
<1> QED
  BY <1>3, <1>5 DEF u

(* The sectors behind one that begins.                                     *)
LEMMA SectorsOn ==
  ASSUME NEW at \in Nat, NEW i \in Nat
  PROVE  SecOf(Start(at) + i) = at + SecOf(i) /\ In(Start(at) + i) = In(i)
<1> DEFINE x == SecOf(i)
           e == In(i)
<1>1. x \in Nat /\ e \in 0 .. SectorSize - 1 /\ i = Start(x) + e
  BY ByteFacts
<1> HIDE DEF x, e
<1>2. Start(at + x) = Start(at) + Start(x) /\ Start(at) \in Nat /\ Start(x) \in Nat
  BY <1>1, StartFacts
<1>3. Start(at) + i = Start(at + x) + e
  BY <1>1, <1>2, SizeFacts
<1>4. SecOf(Start(at + x) + e) = at + x /\ In(Start(at + x) + e) = e
  BY <1>1, ByteIn
<1> QED
  BY <1>3, <1>4 DEF x, e

(* Where a read that is not over has come to.                              *)
ReadAt(s, off, count, w, at, in, left) ==
  /\ CanRead(s, off, count) /\ ReadOk(s, off, count, w) /\ w.done < count
  /\ at = SecOf(off + w.done) /\ in = In(off + w.done) /\ left = count - w.done

(* What is known at the beginning of a turn.                               *)
LEMMA ReadAtIs ==
  ASSUME NEW s, NEW off, NEW count, NEW w, NEW at, NEW in, NEW left,
         ReadAt(s, off, count, w, at, in, left)
  PROVE  /\ w \in Works /\ w.fat = fat /\ w.data = data /\ ~w.halted /\ w.done \in Nat
         /\ fat \in Table /\ IsChain(fat, s) /\ LookOk(w.info, s) /\ BufferOk(w.info, data, s)
         /\ off \in Nat /\ count \in Nat /\ left \in Nat \ {0} /\ w.done + left = count
         /\ at \in Nat /\ in \in 0 .. SectorSize - 1 /\ off + w.done = Start(at) + in
         /\ Start(at) \in Nat /\ w.bytes \in Seq(Byte)
<1>1. /\ w \in Works /\ w.fat = fat /\ w.data = data /\ ~w.halted /\ w.done \in Nat
      /\ fat \in Table /\ IsChain(fat, s) /\ LookOk(w.info, s) /\ BufferOk(w.info, data, s)
      /\ off \in Nat /\ count \in Nat /\ w.done < count /\ w.bytes \in Seq(Byte)
  BY DEF ReadAt, CanRead, ReadOk, Works
<1>2. left \in Nat \ {0} /\ w.done + left = count
  BY <1>1 DEF ReadAt
<1> DEFINE p == off + w.done
<1>3. p \in Nat /\ at = SecOf(p) /\ in = In(p)
  BY <1>1 DEF ReadAt
<1> HIDE DEF p
<1>4. at \in Nat /\ in \in 0 .. SectorSize - 1 /\ p = Start(at) + in /\ Start(at) \in Nat
  BY <1>3, ByteFacts, StartFacts
<1> QED
  BY <1>1, <1>2, <1>4 DEF p

(* Whole sectors.                                                          *)
LEMMA ReadWhole ==
  ASSUME NEW s, NEW off, NEW count, NEW w, NEW at, NEW in, NEW left,
         ReadAt(s, off, count, w, at, in, left), in = 0, left >= SectorSize,
         NEW r, r = ReadSectors(w, at, SecOf(left))
  PROVE  ReadOk(s, off, count, [r EXCEPT !.bytes = w.bytes \o @, !.done = @ + SectorSize * r.n,
                                         !.go = r.n > 0])
<1> DEFINE n == SecOf(left)
           m == Start(r.n)
           go == r.n > 0
           bytes == r.bytes
<1>1. /\ w \in Works /\ w.fat = fat /\ w.data = data /\ ~w.halted /\ w.done \in Nat
      /\ fat \in Table /\ IsChain(fat, s) /\ LookOk(w.info, s) /\ BufferOk(w.info, data, s)
      /\ off \in Nat /\ count \in Nat /\ left \in Nat \ {0} /\ w.done + left = count
      /\ at \in Nat /\ in \in 0 .. SectorSize - 1 /\ off + w.done = Start(at) + in
      /\ Start(at) \in Nat /\ w.bytes \in Seq(Byte)
  BY ReadAtIs
<1>2. n \in Nat /\ Start(n) \in Nat /\ Start(n) <= left /\ n # 0
  <2>1. n \in Nat /\ In(left) \in 0 .. SectorSize - 1 /\ left = Start(n) + In(left)
        /\ Start(n) \in Nat
    BY <1>1, ByteFacts, StartFacts
  <2>2. Start(0) = 0
    BY SizeFacts DEF Start
  <2> HIDE DEF n
  <2> QED
    BY <2>1, <2>2, SizeFacts
<1>3. SectorsRead(w, s, at, n, r)
  <2> HIDE DEF n
  <2>1. r = ReadSectors(w, at, n)
    BY DEF n
  <2>2. SectorsRead(w, s, at, n, ReadSectors(w, at, n))
    BY <1>1, <1>2, ReadSectorsIs
  <2> QED
    BY <2>1, <2>2
<1> HIDE DEF n
<1>4. /\ r \in Works /\ r.fat = w.fat /\ r.data = w.data /\ r.done = w.done /\ r.halted = w.halted
      /\ LookOk(r.info, s) /\ r.info.addr = w.info.addr /\ r.info.sector = w.info.sector
      /\ r.n \in Nat /\ r.n <= n /\ Len(bytes) = m /\ bytes \in Seq(Byte)
  BY <1>2, <1>3 DEF SectorsRead, Kept, Works
<1>5. m \in Nat /\ m <= Start(n) /\ SectorSize * r.n = m
  <2>1. SectorSize * r.n = r.n * SectorSize
    BY <1>4, SizeFacts, Z3
  <2> QED
    BY <1>2, <1>4, <2>1, StartFacts DEF Start
<1>6. Shown(data, s, off + w.done, m, bytes)
  <2>1. off + w.done = Start(at)
    BY <1>1
  <2>2. ASSUME NEW j \in 1 .. m PROVE bytes[j] = ByteAt(data, s, Start(at) + (j - 1))
    <3>1. j - 1 \in Nat
      BY <1>5
    <3>2. bytes[j] = SecAt(data, s, at + SecOf(j - 1))[In(j - 1) + 1]
      BY <1>1, <1>3 DEF SectorsRead
    <3>3. SecOf(Start(at) + (j - 1)) = at + SecOf(j - 1) /\ In(Start(at) + (j - 1)) = In(j - 1)
      BY <1>1, <3>1, SectorsOn
    <3> QED
      BY <3>2, <3>3 DEF ByteAt
  <2> HIDE DEF bytes, m
  <2> QED
    BY <1>4, <1>5, <2>1, <2>2 DEF Shown
<1>7. w.done + m <= count
  <2> HIDE DEF m
  <2> QED
    BY <1>1, <1>2, <1>5
<1> HIDE DEF m
<1>8. go \in BOOLEAN
  OBVIOUS
<1>9. BufferOk(r.info, data, s)
  BY <1>1, <1>4 DEF BufferOk
<1>10. [r EXCEPT !.bytes = w.bytes \o @, !.done = @ + SectorSize * r.n, !.go = r.n > 0]
         = [r EXCEPT !.bytes = w.bytes \o bytes, !.done = @ + m, !.go = go]
  BY <1>4, <1>5 DEF Works
<1> HIDE DEF go, bytes
<1>11. Reads(s, off, count, w, r, m, bytes, go)
  BY <1>4, <1>6, <1>7, <1>8, <1>9 DEF Reads, ReadAt
<1>12. /\ ReadOk(s, off, count, Returned(r, m, w.bytes \o bytes, go))
       /\ m \in Nat /\ w.bytes \o bytes \in Seq(Byte)
  BY <1>11, ReadGoes
<1>13. [r EXCEPT !.bytes = w.bytes \o bytes, !.done = @ + m, !.go = go]
         = Returned(r, m, w.bytes \o bytes, go)
  <2> DEFINE all == w.bytes \o bytes
  <2>1. all \in Seq(Byte)
    BY <1>12
  <2> HIDE DEF all
  <2>2. [r EXCEPT !.bytes = all, !.done = @ + m, !.go = go] = Returned(r, m, all, go)
    <3>1. r \in Works /\ m \in Nat
      BY <1>4, <1>12
    <3>2. CASE go = TRUE
      <4>1. [r EXCEPT !.bytes = all, !.done = @ + m, !.go = TRUE] = Returned(r, m, all, TRUE)
        BY <2>1, <3>1, ReturnedIs
      <4> QED
        BY <3>2, <4>1, Zenon
    <3>3. CASE go = FALSE
      <4>1. [r EXCEPT !.bytes = all, !.done = @ + m, !.go = FALSE] = Returned(r, m, all, FALSE)
        BY <2>1, <3>1, ReturnedIs
      <4> QED
        BY <3>3, <4>1, Zenon
    <3> QED
      BY <1>8, <3>2, <3>3
  <2> QED
    BY <2>2 DEF all
<1> QED
  BY <1>10, <1>12, <1>13

(* A piece of a sector, from the buffer.                                   *)
LEMMA SectorPiece ==
  ASSUME NEW f \in Sector, NEW in \in Nat, NEW part \in Nat \ {0}, in + part <= SectorSize
  PROVE  LET g == SubSeq(f, in + 1, in + part)
         IN  g \in Seq(Byte) /\ Len(g) = part /\ \A i \in 1 .. part : g[i] = f[in + i]
<1> DEFINE lo == in + 1
           hi == in + part
<1>1. /\ lo \in Nat /\ hi \in Nat /\ lo <= hi /\ hi - lo + 1 = part /\ hi <= SectorSize
      /\ \A i \in 1 .. part : lo + i - 1 = in + i
      /\ \A i \in lo .. hi : i \in 1 .. SectorSize
  BY SizeFacts
<1> HIDE DEF lo, hi
<1>2. f \in Seq(Byte) /\ Len(f) = SectorSize
  BY SizeFacts DEF Sector
<1>3. \A i \in lo .. hi : f[i] \in Byte
  BY <1>1 DEF Sector
<1>4. lo \in Int /\ hi \in Int
  BY <1>1
<1>5. /\ SubSeq(f, lo, hi) \in Seq(Byte)
      /\ Len(SubSeq(f, lo, hi)) = IF lo <= hi THEN hi - lo + 1 ELSE 0
      /\ \A i \in 1 .. hi - lo + 1 : SubSeq(f, lo, hi)[i] = f[lo + i - 1]
  BY <1>3, <1>4, SubSeqProperties
<1> DEFINE g == SubSeq(f, lo, hi)
<1> HIDE DEF g
<1>6. g \in Seq(Byte) /\ Len(g) = part /\ \A i \in 1 .. part : g[i] = f[in + i]
  <2>1. g \in Seq(Byte) /\ Len(g) = part /\ \A i \in 1 .. part : g[i] = f[lo + i - 1]
    BY <1>1, <1>5 DEF g
  <2> QED
    BY <1>1, <2>1
<1> QED
  BY <1>6 DEF g, lo, hi

(* Part of a sector is part of the file.                                   *)
LEMMA PieceShown ==
  ASSUME NEW d, NEW s, NEW at \in Nat, NEW in \in 0 .. SectorSize - 1, NEW part \in Nat \ {0},
         in + part <= SectorSize, NEW f, f \in Sector, f = SecAt(d, s, at)
  PROVE  Shown(d, s, Start(at) + in, part, SubSeq(f, in + 1, in + part))
<1> DEFINE g == SubSeq(f, in + 1, in + part)
<1>1. g \in Seq(Byte) /\ Len(g) = part /\ \A i \in 1 .. part : g[i] = f[in + i]
  <2>1. in \in Nat
    BY SizeFacts
  <2> QED
    BY <2>1, SectorPiece
<1> HIDE DEF g
<1>2. Start(at) \in Nat
  BY StartFacts
<1>3. ASSUME NEW i \in 1 .. part PROVE g[i] = ByteAt(d, s, (Start(at) + in) + (i - 1))
  <2> DEFINE e == in + (i - 1)
  <2>1. e \in 0 .. SectorSize - 1 /\ e + 1 = in + i
    BY SizeFacts
  <2>2. (Start(at) + in) + (i - 1) = Start(at) + e
    BY <1>2
  <2> HIDE DEF e
  <2>3. SecOf(Start(at) + e) = at /\ In(Start(at) + e) = e
    BY <2>1, ByteIn
  <2>4. g[i] = SecAt(d, s, at)[e + 1]
    BY <1>1, <2>1
  <2> QED
    BY <2>2, <2>3, <2>4 DEF ByteAt
<1>4. Shown(d, s, Start(at) + in, part, g)
  BY <1>1, <1>3 DEF Shown
<1> QED
  BY <1>4 DEF g

HoldsSector(s, w, at, b) ==
  /\ b \in Works /\ b.fat = w.fat /\ b.data = w.data /\ b.done = w.done /\ b.halted = w.halted
  /\ LookOk(b.info, s) /\ b.info.addr = at /\ at < First(Len(s))
  /\ b.info.sector \in Sector /\ b.info.sector = SecAt(w.data, s, at)

(* Part of a sector read from the buffer keeps the read correct.           *)
LEMMA ReadPiece ==
  ASSUME NEW s, NEW off, NEW count, NEW w, NEW at, NEW in, NEW left,
         ReadAt(s, off, count, w, at, in, left), NEW part, part = Part(in, left),
         NEW b, HoldsSector(s, w, at, b)
  PROVE  ReadOk(s, off, count, [b EXCEPT !.done = @ + part,
                     !.bytes = w.bytes \o SubSeq(b.info.sector, in + 1, in + part)])
<1> DEFINE bytes == SubSeq(b.info.sector, in + 1, in + part)
           all == w.bytes \o bytes
<1>1. /\ w \in Works /\ w.fat = fat /\ w.data = data /\ ~w.halted /\ w.done \in Nat
      /\ off \in Nat /\ count \in Nat /\ left \in Nat \ {0} /\ w.done + left = count
      /\ at \in Nat /\ in \in 0 .. SectorSize - 1 /\ off + w.done = Start(at) + in
  BY ReadAtIs
<1>2. part \in Nat \ {0} /\ part <= left /\ in + part <= SectorSize
  <2>1. part \in 1 .. SectorSize /\ part <= left /\ in + part <= SectorSize
    BY <1>1, PartFacts
  <2> QED
    BY <2>1, SizeFacts
<1>3. /\ b \in Works /\ b.fat = w.fat /\ b.data = w.data /\ b.done = w.done /\ b.halted = w.halted
      /\ LookOk(b.info, s) /\ b.info.addr = at /\ at < First(Len(s))
      /\ b.info.sector \in Sector /\ b.info.sector = SecAt(data, s, at) /\ b.go \in BOOLEAN
  BY <1>1 DEF HoldsSector, Works
<1>4. Shown(data, s, off + w.done, part, bytes)
  <2>1. Shown(data, s, Start(at) + in, part, bytes)
    BY <1>1, <1>2, <1>3, PieceShown
  <2> QED
    BY <1>1, <2>1
<1> HIDE DEF bytes
<1>5. BufferOk(b.info, data, s)
  BY <1>1, <1>3 DEF BufferOk
<1>6. w.done + part <= count
  BY <1>1, <1>2
<1>7. Reads(s, off, count, w, b, part, bytes, b.go)
  BY <1>3, <1>4, <1>5, <1>6 DEF Reads, ReadAt
<1>8. ReadOk(s, off, count, Returned(b, part, all, b.go)) /\ part \in Nat /\ all \in Seq(Byte)
  BY <1>7, ReadGoes
<1> HIDE DEF all
<1>9. [b EXCEPT !.done = @ + part, !.bytes = all] = Returned(b, part, all, b.go)
  BY <1>3, <1>8, ReturnedIs
<1> QED
  BY <1>8, <1>9 DEF all, bytes

(* A turn of the loop of _fs_read_file (fatfs.c:174-228).                  *)
LEMMA ReadStepOk ==
  ASSUME NEW s, NEW off, NEW count, NEW w, CanRead(s, off, count), ReadOk(s, off, count, w),
         w.done < count
  PROVE  ReadOk(s, off, count, ReadStep(w, off, count))
<1> DEFINE at == SecOf(off + w.done)
           in == In(off + w.done)
           left == count - w.done
           part == Part(in, left)
           whole == ReadSectors(w, at, SecOf(left))
           one == ReadSectors(w, at, 1)
           b == IF w.info.addr = at THEN w ELSE Buffered(one, at, one.bytes)
           u == ReadStep(w, off, count)
<1>1. ReadAt(s, off, count, w, at, in, left)
  BY DEF ReadAt
<1>2. u = IF in = 0 /\ left >= SectorSize
          THEN [whole EXCEPT !.bytes = w.bytes \o @, !.done = @ + SectorSize * whole.n,
                             !.go = whole.n > 0]
          ELSE IF w.info.addr # at /\ one.n = 0 THEN [w EXCEPT !.go = FALSE]
          ELSE [b EXCEPT !.done = @ + part,
                  !.bytes = w.bytes \o SubSeq(b.info.sector, in + 1, in + part)]
  BY DEF ReadStep, SecOf, In
<1> HIDE DEF u
<1>3. CASE in = 0 /\ left >= SectorSize
  <2> HIDE DEF at, in, left
  <2>1. ReadOk(s, off, count, [whole EXCEPT !.bytes = w.bytes \o @,
                 !.done = @ + SectorSize * whole.n, !.go = whole.n > 0])
    BY <1>1, <1>3, ReadWhole
  <2>2. ReadOk(s, off, count, u)
    BY <1>2, <1>3, <2>1
  <2> QED
    BY <2>2 DEF u
<1>4. CASE ~(in = 0 /\ left >= SectorSize) /\ w.info.addr # at /\ one.n = 0
  <2>1. u = [w EXCEPT !.go = FALSE]
    BY <1>2, <1>4
  <2>2. /\ u \in Works /\ u.fat = w.fat /\ u.data = w.data /\ u.info = w.info /\ u.done = w.done
        /\ u.bytes = w.bytes /\ u.halted = w.halted
    BY <2>1 DEF ReadOk, Works
  <2>3. ReadOk(s, off, count, u)
    BY <2>2 DEF ReadOk
  <2> QED
    BY <2>3 DEF u
<1>5. CASE ~(in = 0 /\ left >= SectorSize) /\ ~(w.info.addr # at /\ one.n = 0)
  <2> HIDE DEF at, in, left
  <2>1. u = [b EXCEPT !.done = @ + part,
                  !.bytes = w.bytes \o SubSeq(b.info.sector, in + 1, in + part)]
    BY <1>2, <1>5
  <2>2. /\ w \in Works /\ fat \in Table /\ IsChain(fat, s) /\ LookOk(w.info, s) /\ at \in Nat
        /\ w.fat = fat /\ w.data = data /\ BufferOk(w.info, data, s)
    BY <1>1, ReadAtIs
  <2>3. HoldsSector(s, w, at, b)
    <3>1. CASE w.info.addr = at
      <4>1. b = w
        BY <3>1
      <4>2. at < First(Len(s)) /\ w.info.sector = SecAt(w.data, s, at)
        BY <2>2, <3>1, FileAssumption DEF BufferOk
      <4>3. w.info.sector \in Sector
        BY <2>2 DEF Works, Infos
      <4> HIDE DEF b
      <4> QED
        BY <2>2, <3>1, <4>1, <4>2, <4>3 DEF HoldsSector
    <3>2. CASE w.info.addr # at
      <4>1. b = Buffered(one, at, one.bytes)
        BY <3>2
      <4>2. SectorsRead(w, s, at, 1, one)
        BY <2>2, ReadSectorsIs
      <4> HIDE DEF b, one
      <4>3. one.n # 0
        BY <1>5, <3>2
      <4>4. at < First(Len(s)) /\ one.bytes \in Sector /\ one.bytes = SecAt(w.data, s, at)
        BY <2>2, <4>2, <4>3, OneSectorRead
      <4>5. /\ one \in Works /\ one.fat = w.fat /\ one.data = w.data /\ one.done = w.done
            /\ one.halted = w.halted /\ LookOk(one.info, s)
        BY <4>2 DEF SectorsRead, Kept
      <4>6. HasBuffer(one, at, one.bytes, b)
        <5>1. at \in Nat \cup {None}
          BY <2>2
        <5> QED
          BY <4>1, <4>4, <4>5, <5>1, BufferedIs
      <4> QED
        BY <4>4, <4>5, <4>6 DEF HoldsSector, HasBuffer
    <3> QED
      BY <3>1, <3>2
  <2> HIDE DEF b
  <2>4. ReadOk(s, off, count, [b EXCEPT !.done = @ + part,
                     !.bytes = w.bytes \o SubSeq(b.info.sector, in + 1, in + part)])
    <3>1. part = Part(in, left)
      OBVIOUS
    <3> HIDE DEF part
    <3> QED
      BY <1>1, <2>3, <3>1, ReadPiece
  <2>5. ReadOk(s, off, count, u)
    BY <2>1, <2>4
  <2> QED
    BY <2>5 DEF u
<1> QED
  BY <1>3, <1>4, <1>5

Asked(f, off, n) == IF off >= node[f].len THEN 0 ELSE Least(n, node[f].len - off)

(* After the loop the bytes returned are those of the file                 *)
(* (fatfs.c:147-232).                                                      *)
LEMMA ReadFileOk ==
  ASSUME NEW f, NEW s, NEW off, NEW n, CanRead(s, off, Asked(f, off, n)),
         node[f].info \in Infos, LookOk(node[f].info, s), BufferOk(node[f].info, data, s)
  PROVE  ReadOk(s, off, Asked(f, off, n), ReadFile(f, off, n))
<1> DEFINE count == Asked(f, off, n)
           V == {w \in Works : ReadOk(s, off, count, w)}
           w0 == Work(f)
           step(w) == IF w.go /\ w.done < count THEN ReadStep(w, off, count) ELSE w
           m == MaxSize
           It(h) == [k \in 0 .. m |-> IF k = 0 THEN w0 ELSE step(h[k - 1])]
           F == [k \in 1 .. m |-> [w \in V |-> step(w)]]
           after == CHOOSE h : h = It(h)
<1>1. ReadFile(f, off, n) = after[m]
  BY DEF ReadFile, Asked
<1> HIDE DEF count
<1>2. w0 \in V
  <2>1. /\ w0.fat = fat /\ w0.data = data /\ w0.info = node[f].info /\ w0.done = 0
        /\ w0.bytes = <<>> /\ w0.halted = FALSE
    BY DEF Work
  <2>2. w0 \in Works
    BY DEF Work, CanRead, Works
  <2> HIDE DEF w0
  <2>3. Shown(data, s, off, w0.done, w0.bytes)
    <3>1. <<>> \in Seq(Byte) /\ Len(<<>>) = 0 /\ 1 .. 0 = {}
      OBVIOUS
    <3> QED
      BY <2>1, <3>1 DEF Shown
  <2>4. w0.done <= count
    BY <2>1 DEF CanRead, count
  <2> QED
    BY <2>1, <2>2, <2>3, <2>4 DEF ReadOk
<1>3. ASSUME NEW w \in V PROVE step(w) \in V
  <2>1. CASE w.go /\ w.done < count
    <3>1. ReadOk(s, off, count, ReadStep(w, off, count))
      BY <2>1, ReadStepOk DEF count
    <3>2. ReadStep(w, off, count) \in Works
      BY <3>1 DEF ReadOk
    <3> QED
      BY <2>1, <3>1, <3>2
  <2>2. CASE ~(w.go /\ w.done < count)
    BY <2>2
  <2> QED
    BY <2>1, <2>2
<1> HIDE DEF V, w0, step
<1>4. m \in Nat
  BY FileAssumption
<1> HIDE DEF m
<1>5. \E g \in [0 .. m -> V] : Iterated(g, F, m, w0)
  <2>1. Folds(F, V, m, w0)
    BY <1>2, <1>3, <1>4 DEF Folds
  <2> HIDE DEF F
  <2> QED
    BY <2>1, Iteration
<1>6. PICK g \in [0 .. m -> V] : \A k \in 0 .. m : g[k] = IF k = 0 THEN w0 ELSE F[k][g[k - 1]]
  BY <1>5 DEF Iterated
<1>7. g = It(g)
  <2>1. \A k \in 0 .. m : k # 0 => k \in 1 .. m /\ k - 1 \in 0 .. m
    BY <1>4
  <2>2. \A k \in 0 .. m : k # 0 => F[k][g[k - 1]] = step(g[k - 1])
    BY <2>1
  <2> QED
    BY <1>6, <2>2
<1>8. after = It(after)
  <2> HIDE DEF It
  <2> QED
    BY <1>7
<1> HIDE DEF after
<1> DEFINE T == {k \in 0 .. m : after[k] \in V}
<1>9. 0 \in T
  BY <1>2, <1>4, <1>8
<1>10. ASSUME NEW k \in 1 .. m, k - 1 \in T PROVE k \in T
  <2>1. k \in 0 .. m /\ k # 0
    BY <1>4
  <2> QED
    BY <1>3, <1>8, <1>10, <2>1
<1>11. after[m] \in V
  <2> HIDE DEF T
  <2>1. \A k \in 0 .. m : k \in T
    BY <1>4, <1>9, <1>10, InductionTo
  <2>2. m \in 0 .. m
    BY <1>4
  <2> QED
    BY <2>1, <2>2 DEF T
<1> QED
  BY <1>1, <1>11 DEF V, count

(***************************************************************************)
(* The bytes of a file, and what an access to another one leaves of it.    *)
(***************************************************************************)
Contents(d, s, n) == [i \in 1 .. n |-> ByteAt(d, s, i - 1)]
ContentOf(t, d, e) == IF e = None THEN None ELSE Contents(d, ChainOf(t, e.first), e.len)
Entries == [first : Cluster, len : Nat]
Nodes == [len : Nat, info : {None} \cup Infos]

(* A directory entry is not None.                                          *)
LEMMA EntryIs == \A e \in Entries : e # None /\ e.first \in Cluster /\ e.len \in Nat
<1> SUFFICES ASSUME NEW e \in Entries PROVE e # None /\ e.first \in Cluster /\ e.len \in Nat
  OBVIOUS
<1>1. e \in [first : Nat, len : Nat] /\ e.first \in Cluster /\ e.len \in Nat
  BY ClusterFacts DEF Entries
<1> QED
  BY <1>1, FileAssumption

(* The bytes as FatFile states them are those of the chain.                *)
LEMMA ContentsAre ==
  ASSUME NEW d, NEW c, NEW n \in Nat,
         NEW b, b = [i \in 1 .. n |->
           d[c[(i - 1) \div (SectorSize * PerCluster) + 1]]
            [((i - 1) \div SectorSize) % PerCluster][((i - 1) % SectorSize) + 1]]
  PROVE  b = Contents(d, c, n)
<1>1. ASSUME NEW i \in 1 .. n
      PROVE  d[c[(i - 1) \div (SectorSize * PerCluster) + 1]]
              [((i - 1) \div SectorSize) % PerCluster][((i - 1) % SectorSize) + 1]
               = ByteAt(d, c, i - 1)
  <2> DEFINE j == i - 1
  <2>1. j \in Nat
    OBVIOUS
  <2> HIDE DEF j
  <2>2. j \div (SectorSize * PerCluster) = ClOf(SecOf(j))
    BY <2>1, ClusterOfByte
  <2>3. d[c[j \div (SectorSize * PerCluster) + 1]]
         [(j \div SectorSize) % PerCluster][(j % SectorSize) + 1] = ByteAt(d, c, j)
    BY <2>2 DEF ByteAt, SecAt, InCl, SecOf, In
  <2> QED
    BY <2>3 DEF j
<1> QED
  BY <1>1 DEF Contents

(* The bytes within the length lie in the sectors of the chain.            *)
LEMMA ByteWithin ==
  ASSUME NEW t \in Table, NEW s, IsChain(t, s), NEW n \in Nat, n <= Cap(s), NEW i \in 1 .. n
  PROVE  /\ SecOf(i - 1) \in Nat /\ SecOf(i - 1) < First(Len(s))
         /\ In(i - 1) + 1 \in 1 .. SectorSize /\ i - 1 \in Nat /\ i - 1 < Cap(s)
<1> DEFINE j == i - 1
<1>1. Cap(s) \in Nat
  BY CapFacts
<1>2. j \in Nat /\ j < Cap(s)
  BY <1>1
<1> HIDE DEF j
<1>3. SecOf(j) < First(Len(s))
  BY <1>2, CapFacts
<1>4. SecOf(j) \in Nat /\ In(j) \in 0 .. SectorSize - 1
  BY <1>2, ByteFacts
<1>5. In(j) + 1 \in 1 .. SectorSize
  BY <1>4, SizeFacts
<1> QED
  BY <1>2, <1>3, <1>4, <1>5 DEF j

(* The content of a file is a sequence of bytes.                           *)
LEMMA ContentsFacts ==
  ASSUME NEW t \in Table, NEW s, IsChain(t, s), NEW d \in Disk, NEW n \in Nat, n <= Cap(s)
  PROVE  /\ Contents(d, s, n) \in Seq(Byte) /\ Len(Contents(d, s, n)) = n
         /\ Contents(d, s, n) # None
         /\ \A i \in 1 .. n : Contents(d, s, n)[i] = ByteAt(d, s, i - 1)
<1> DEFINE b == Contents(d, s, n)
<1>1. ASSUME NEW i \in 1 .. n PROVE ByteAt(d, s, i - 1) \in Byte
  <2>1. /\ SecOf(i - 1) \in Nat /\ SecOf(i - 1) < First(Len(s))
        /\ In(i - 1) + 1 \in 1 .. SectorSize
    BY ByteWithin
  <2>2. SecAt(d, s, SecOf(i - 1)) \in Sector
    BY <2>1, SectorOnDisk
  <2> QED
    BY <2>1, <2>2 DEF ByteAt, Sector
<1>2. b = [i \in 1 .. n |-> ByteAt(d, s, i - 1)]
  BY DEF Contents
<1> HIDE DEF b
<1>3. b \in [1 .. n -> Byte] /\ \A i \in 1 .. n : b[i] = ByteAt(d, s, i - 1)
  BY <1>1, <1>2
<1>4. b \in Seq(Byte) /\ Len(b) = n
  BY <1>3
<1> QED
  BY <1>3, <1>4, FileAssumption DEF b

(* What the invariant says of one file: its directory entry e and its node *)
(* n, with the table t and the disk d, unless an assertion has failed.     *)
FileOk(t, d, h, e, n) ==
  /\ e \in {None} \cup Entries /\ n \in Nodes
  /\ e # None => LET s == ChainOf(t, e.first)
                 IN  IsChain(t, s) /\ s[1] = e.first /\ e.len <= Cap(s) /\ n.len = e.len
  /\ n.info # None => /\ e # None /\ LookOk(n.info, ChainOf(t, e.first))
                      /\ ~h => BufferOk(n.info, d, ChainOf(t, e.first))

(* A chain that an access to another file leaves alone.                    *)
Spares(s, t, d, t2, d2) == \A c \in Clusters(s) : t2[c] = t[c] /\ d2[c] = d[c]

(* A file whose clusters are left alone keeps its content.                 *)
LEMMA SparedFile ==
  ASSUME NEW t \in Table, NEW t2 \in Table, NEW d, NEW d2, NEW h, NEW h2, h => h2,
         NEW e, NEW n, FileOk(t, d, h, e, n),
         e # None => Spares(ChainOf(t, e.first), t, d, t2, d2)
  PROVE  /\ FileOk(t2, d2, h2, e, n) /\ ContentOf(t2, d2, e) = ContentOf(t, d, e)
         /\ e # None => ChainOf(t2, e.first) = ChainOf(t, e.first)
<1>1. CASE e = None
  BY <1>1 DEF FileOk, ContentOf
<1>2. CASE e # None
  <2> DEFINE s == ChainOf(t, e.first)
  <2>1. /\ e \in Entries /\ n \in Nodes /\ IsChain(t, s) /\ s[1] = e.first /\ e.len <= Cap(s)
        /\ n.len = e.len /\ e.len \in Nat
        /\ n.info # None => LookOk(n.info, s) /\ (~h => BufferOk(n.info, d, s))
    BY <1>2, EntryIs DEF FileOk
  <2>2. \A c \in Clusters(s) : t2[c] = t[c] /\ d2[c] = d[c]
    BY <1>2 DEF Spares
  <2> HIDE DEF s
  <2>3. \A i \in 1 .. Len(s) : s[i] \in Clusters(s)
    BY DEF Clusters
  <2>4. IsChain(t2, s)
    BY <2>1, <2>2, <2>3 DEF IsChain
  <2>5. ChainOf(t2, e.first) = s
    BY <2>1, <2>4, ChainOfIs
  <2>6. ASSUME NEW x \in Nat, x < First(Len(s)) PROVE SecAt(d2, s, x) = SecAt(d, s, x)
    <3>1. s[ClOf(x) + 1] \in Clusters(s)
      BY <2>1, <2>6, ClusterOfSector
    <3> QED
      BY <2>2, <3>1 DEF SecAt
  <2>7. \A info : BufferOk(info, d, s) => BufferOk(info, d2, s)
    BY <2>6 DEF BufferOk
  <2>8. FileOk(t2, d2, h2, e, n)
    BY <1>2, <2>1, <2>4, <2>5, <2>7 DEF FileOk
  <2>9. Contents(d2, s, e.len) = Contents(d, s, e.len)
    <3>1. ASSUME NEW i \in 1 .. e.len PROVE ByteAt(d2, s, i - 1) = ByteAt(d, s, i - 1)
      <4>1. SecOf(i - 1) < First(Len(s)) /\ SecOf(i - 1) \in Nat
        BY <2>1, ByteWithin
      <4> QED
        BY <2>6, <4>1 DEF ByteAt
    <3> QED
      BY <3>1 DEF Contents
  <2> QED
    BY <1>2, <2>5, <2>8, <2>9 DEF ContentOf, s
<1> QED
  BY <1>1, <1>2

(***************************************************************************)
(* The inductive invariant: the clusters of a file are a chain of its own, *)
(* which is long enough, and the place and the buffer of an open file are  *)
(* of that chain.                                                          *)
(***************************************************************************)
InvOf(t, d, h, e, n) ==
  /\ t \in Table /\ d \in Disk /\ h \in BOOLEAN
  /\ e \in [File -> {None} \cup Entries] /\ n \in [File -> Nodes]
  /\ \A f \in File : FileOk(t, d, h, e[f], n[f])
  /\ \A f, g \in File : f # g /\ e[f] # None /\ e[g] # None =>
       \A c \in Clusters(ChainOf(t, e[f].first)) : c \notin Clusters(ChainOf(t, e[g].first))

IInv == InvOf(fat, data, halted, entry, node)
ContentMap(t, d, e) == [g \in File |-> ContentOf(t, d, e[g])]

(* A step that spares the other files.                                     *)
Others(t, d, e, t2, d2, e2, f) ==
  \A g \in File : g # f /\ e[g] # None =>
    /\ Spares(ChainOf(t, e[g].first), t, d, t2, d2)
    /\ e2 # None => \A c \in Clusters(ChainOf(t2, e2.first)) : c \notin Clusters(ChainOf(t, e[g].first))
FileStep(t, d, h, e, n, t2, d2, h2, e2, n2, f) ==
  /\ InvOf(t, d, h, e, n) /\ t2 \in Table /\ d2 \in Disk /\ h2 \in BOOLEAN /\ (h => h2)
  /\ f \in File /\ FileOk(t2, d2, h2, e2, n2) /\ Others(t, d, e, t2, d2, e2, f)

FileDone(t, d, e, n, t2, d2, h2, e2, n2, f) ==
  /\ InvOf(t2, d2, h2, [e EXCEPT ![f] = e2], [n EXCEPT ![f] = n2])
  /\ ContentMap(t2, d2, [e EXCEPT ![f] = e2])
       = [ContentMap(t, d, e) EXCEPT ![f] = ContentOf(t2, d2, e2)]

(* A step of one file that spares the others keeps the invariant, and      *)
(* changes at most the content of that one.                                *)
LEMMA FileStepOk ==
  ASSUME NEW t, NEW d, NEW h, NEW e, NEW n, NEW t2, NEW d2, NEW h2, NEW e2, NEW n2, NEW f,
         FileStep(t, d, h, e, n, t2, d2, h2, e2, n2, f)
  PROVE  FileDone(t, d, e, n, t2, d2, h2, e2, n2, f)
<1> DEFINE ee == [e EXCEPT ![f] = e2]
           nn == [n EXCEPT ![f] = n2]
<1>1. /\ t \in Table /\ t2 \in Table /\ d2 \in Disk /\ h2 \in BOOLEAN /\ (h => h2) /\ f \in File
      /\ e \in [File -> {None} \cup Entries] /\ n \in [File -> Nodes]
      /\ \A g \in File : FileOk(t, d, h, e[g], n[g])
      /\ FileOk(t2, d2, h2, e2, n2) /\ Others(t, d, e, t2, d2, e2, f)
      /\ \A g, k \in File : g # k /\ e[g] # None /\ e[k] # None =>
           \A c \in Clusters(ChainOf(t, e[g].first)) : c \notin Clusters(ChainOf(t, e[k].first))
  BY DEF FileStep, InvOf
<1>2. e2 \in {None} \cup Entries /\ n2 \in Nodes
  BY <1>1 DEF FileOk
<1>3. /\ ee \in [File -> {None} \cup Entries] /\ nn \in [File -> Nodes]
      /\ ee[f] = e2 /\ nn[f] = n2 /\ \A g \in File : g # f => ee[g] = e[g] /\ nn[g] = n[g]
  BY <1>1, <1>2
<1> HIDE DEF ee, nn
<1>4. ASSUME NEW g \in File, g # f
      PROVE  /\ FileOk(t2, d2, h2, e[g], n[g]) /\ ContentOf(t2, d2, e[g]) = ContentOf(t, d, e[g])
             /\ e[g] # None => ChainOf(t2, e[g].first) = ChainOf(t, e[g].first)
  <2> DEFINE eg == e[g]
             ng == n[g]
  <2>1. FileOk(t, d, h, eg, ng)
    BY <1>1
  <2>2. eg # None => Spares(ChainOf(t, eg.first), t, d, t2, d2)
    BY <1>1, <1>4 DEF Others
  <2> HIDE DEF eg, ng
  <2>3. /\ FileOk(t2, d2, h2, eg, ng) /\ ContentOf(t2, d2, eg) = ContentOf(t, d, eg)
        /\ eg # None => ChainOf(t2, eg.first) = ChainOf(t, eg.first)
    BY <1>1, <2>1, <2>2, SparedFile
  <2> QED
    BY <2>3 DEF eg, ng
<1>5. ASSUME NEW g \in File PROVE FileOk(t2, d2, h2, ee[g], nn[g])
  BY <1>1, <1>3, <1>4
<1>6. ASSUME NEW g \in File, NEW k \in File, g # k, ee[g] # None, ee[k] # None,
             NEW c \in Clusters(ChainOf(t2, ee[g].first))
      PROVE  c \notin Clusters(ChainOf(t2, ee[k].first))
  <2>1. CASE g = f
    <3>1. k # f /\ ee[k] = e[k] /\ ee[g] = e2
      BY <1>3, <1>6, <2>1
    <3>2. ChainOf(t2, e[k].first) = ChainOf(t, e[k].first)
      BY <1>4, <1>6, <3>1
    <3>3. c \notin Clusters(ChainOf(t, e[k].first))
      BY <1>1, <1>6, <3>1 DEF Others
    <3> QED
      BY <3>1, <3>2, <3>3
  <2>2. CASE k = f
    <3>1. g # f /\ ee[g] = e[g] /\ ee[k] = e2
      BY <1>3, <1>6, <2>2
    <3>2. ChainOf(t2, e[g].first) = ChainOf(t, e[g].first)
      BY <1>4, <1>6, <3>1
    <3>3. c \in Clusters(ChainOf(t, e[g].first))
      BY <1>6, <3>1, <3>2
    <3> QED
      BY <1>1, <1>6, <3>1, <3>3 DEF Others
  <2>3. CASE g # f /\ k # f
    <3>1. ee[g] = e[g] /\ ee[k] = e[k]
      BY <1>3, <2>3
    <3>2. /\ ChainOf(t2, e[g].first) = ChainOf(t, e[g].first)
          /\ ChainOf(t2, e[k].first) = ChainOf(t, e[k].first)
      BY <1>4, <1>6, <2>3, <3>1
    <3> QED
      BY <1>1, <1>6, <3>1, <3>2
  <2> QED
    BY <2>1, <2>2, <2>3
<1>7. InvOf(t2, d2, h2, ee, nn)
  BY <1>1, <1>3, <1>5, <1>6 DEF InvOf
<1>8. ContentMap(t2, d2, ee) = [ContentMap(t, d, e) EXCEPT ![f] = ContentOf(t2, d2, e2)]
  BY <1>1, <1>3, <1>4 DEF ContentMap
<1> QED
  BY <1>7, <1>8 DEF ee, nn, FileDone

(* The content that the abstract files have, now and after a step.         *)
LEMMA ContentIs ==
  ASSUME InvOf(fat, data, halted, entry, node)
  PROVE  [f \in File |-> Content(f)] = ContentMap(fat, data, entry)
<1>1. ASSUME NEW f \in File PROVE Content(f) = ContentOf(fat, data, entry[f])
  <2>1. CASE entry[f] = None
    BY <2>1 DEF Content, ContentOf
  <2>2. CASE entry[f] # None
    <3> DEFINE c == ChainOf(fat, entry[f].first)
               n == entry[f].len
               b == BytesOf(c, n)
    <3>1. n \in Nat
      BY <2>2, EntryIs DEF InvOf
    <3>2. Content(f) = CHOOSE s \in {BytesOf(x, n) : x \in {c}} : TRUE
      BY <2>2 DEF Content
    <3>3. {BytesOf(x, n) : x \in {c}} = {b}
      OBVIOUS
    <3> HIDE DEF c, n
    <3>4. b = Contents(data, c, n)
      <4>1. b = [i \in 1 .. n |->
           data[c[(i - 1) \div (SectorSize * PerCluster) + 1]]
            [((i - 1) \div SectorSize) % PerCluster][((i - 1) % SectorSize) + 1]]
        BY DEF BytesOf
      <4> HIDE DEF b
      <4> QED
        BY <3>1, <4>1, ContentsAre
    <3> HIDE DEF b
    <3>5. (CHOOSE s \in {b} : TRUE) = b
      OBVIOUS
    <3>6. Content(f) = b
      BY <3>2, <3>3, <3>5
    <3> QED
      BY <2>2, <3>4, <3>6 DEF ContentOf, c, n
  <2> QED
    BY <2>1, <2>2
<1> QED
  BY <1>1 DEF ContentMap

LEMMA ContentIsNext ==
  ASSUME InvOf(fat', data', halted', entry', node')
  PROVE  [f \in File |-> Content(f)]' = ContentMap(fat', data', entry')
<1>1. ASSUME NEW f \in File PROVE Content(f)' = ContentOf(fat', data', entry'[f])
  <2>1. CASE entry'[f] = None
    BY <2>1 DEF Content, ContentOf
  <2>2. CASE entry'[f] # None
    <3> DEFINE c == ChainOf(fat', entry'[f].first)
               n == entry'[f].len
               b(x) == [i \in 1 .. n |->
                 data'[x[(i - 1) \div (SectorSize * PerCluster) + 1]]
                  [((i - 1) \div SectorSize) % PerCluster][((i - 1) % SectorSize) + 1]]
    <3>1. n \in Nat
      BY <2>2, EntryIs DEF InvOf
    <3>2. Content(f)' = CHOOSE s \in {b(x) : x \in {c}} : TRUE
      BY <2>2 DEF Content, BytesOf
    <3>3. {b(x) : x \in {c}} = {b(c)}
      OBVIOUS
    <3> HIDE DEF c, n
    <3>4. b(c) = Contents(data', c, n)
      BY <3>1, ContentsAre
    <3> HIDE DEF b
    <3>5. (CHOOSE s \in {b(c)} : TRUE) = b(c)
      OBVIOUS
    <3>6. Content(f)' = b(c)
      BY <3>2, <3>3, <3>5
    <3> QED
      BY <2>2, <3>4, <3>6 DEF ContentOf, c, n
  <2> QED
    BY <2>1, <2>2
<1> QED
  BY <1>1 DEF ContentMap

(* What a step must be for the abstract files.                             *)
StoreStep(old, new, g) ==
  \/ g = <<>> /\ (new = old \/ Store!Changed(old, new))
  \/ new = old /\ \E f \in File : old[f] # None /\ g \in Store!Readable(old[f])

(* A step of the contents is one of the abstract files.                    *)
LEMMA StoreStepOk ==
  ASSUME IInv, InvOf(fat', data', halted', entry', node'),
         StoreStep(ContentMap(fat, data, entry), ContentMap(fat', data', entry'), got')
  PROVE  Store!StoreNext
<1>1. [f \in File |-> Content(f)] = ContentMap(fat, data, entry)
  BY ContentIs DEF IInv
<1>2. [f \in File |-> Content(f)]' = ContentMap(fat', data', entry')
  BY ContentIsNext
<1> QED
  BY <1>1, <1>2 DEF StoreStep, Store!StoreNext

(* An access to f that makes the bytes e2 of the bytes e1.                 *)
LEMMA ChangedOne ==
  ASSUME NEW m, NEW f \in File, DOMAIN m = File, m = [g \in File |-> m[g]], NEW x,
         \/ m[f] = None /\ x = <<>>
         \/ m[f] # None /\ x = None
         \/ m[f] # None /\ x # None /\ x \in Store!Written(m[f])
  PROVE  Store!Changed(m, [m EXCEPT ![f] = x])
<1> DEFINE new == [m EXCEPT ![f] = x]
<1>1. new[f] = x /\ \A g \in File \ {f} : new[g] = m[g]
  OBVIOUS
<1> HIDE DEF new
<1>2. Store!Changed(m, new)
  BY <1>1 DEF Store!Changed
<1> QED
  BY <1>2 DEF new

Changes(old, x) ==
  \/ x = old
  \/ old = None /\ x = <<>>
  \/ old # None /\ x = None
  \/ old # None /\ x # None /\ x \in Store!Written(old)

(* A step of one file that changes its content as FileStore allows.        *)
LEMMA AccessOk ==
  ASSUME IInv, NEW f, NEW e2, NEW n2,
         FileStep(fat, data, halted, entry, node, fat', data', halted', e2, n2, f),
         entry' = [entry EXCEPT ![f] = e2], node' = [node EXCEPT ![f] = n2], got' = <<>>,
         Changes(ContentOf(fat, data, entry[f]), ContentOf(fat', data', e2))
  PROVE  IInv' /\ Store!StoreNext
<1> DEFINE m == ContentMap(fat, data, entry)
           x == ContentOf(fat', data', e2)
           new == [m EXCEPT ![f] = x]
<1>1. InvOf(fat', data', halted', entry', node') /\ ContentMap(fat', data', entry') = new
  <2>1. FileDone(fat, data, entry, node, fat', data', halted', e2, n2, f)
    BY FileStepOk
  <2> QED
    BY <2>1 DEF FileDone
<1>2. f \in File
  BY DEF FileStep
<1>3. /\ DOMAIN m = File /\ m = [g \in File |-> m[g]] /\ m[f] = ContentOf(fat, data, entry[f])
  BY <1>2 DEF ContentMap
<1>4. StoreStep(m, new, got')
  <2>1. CASE x = m[f]
    <3>1. new = m
      BY <1>2, <1>3, <2>1
    <3> QED
      BY <3>1 DEF StoreStep
  <2>2. CASE x # m[f]
    <3>1. \/ m[f] = None /\ x = <<>>
          \/ m[f] # None /\ x = None
          \/ m[f] # None /\ x # None /\ x \in Store!Written(m[f])
      BY <1>3, <2>2 DEF Changes
    <3> HIDE DEF x, m
    <3>2. Store!Changed(m, new)
      BY <1>2, <1>3, <3>1, ChangedOne
    <3> QED
      BY <3>2 DEF StoreStep
  <2> QED
    BY <2>1, <2>2
<1>5. Store!StoreNext
  BY <1>1, <1>4, StoreStepOk
<1> QED
  BY <1>1, <1>5 DEF IInv

(***************************************************************************)
(* The actions.                                                            *)
(***************************************************************************)
HoldsNew(t2, c, d, h, e2, n2) ==
  /\ t2 \in Table /\ ChainOf(t2, c) = <<c>> /\ Clusters(<<c>>) = {c}
  /\ FileOk(t2, d, h, e2, n2) /\ ContentOf(t2, d, e2) = <<>>

(* A file that has just been created is empty (fatfs.c:639-682).           *)
LEMMA NewFile ==
  ASSUME NEW c \in Cluster, NEW d, NEW h, NEW t2 \in Table, t2[c] = LAST,
         NEW e2, e2 = [first |-> c, len |-> 0], NEW n2, n2 = [len |-> 0, info |-> Info(c)]
  PROVE  HoldsNew(t2, c, d, h, e2, n2)
<1> DEFINE s == <<c>>
<1>1. t2 \in Table /\ t2[c] = LAST
  OBVIOUS
<1>2. s \in Seq(Cluster) /\ Len(s) = 1 /\ s[1] = c
  OBVIOUS
<1> HIDE DEF s
<1>3. IsChain(t2, s)
  BY <1>1, <1>2 DEF IsChain
<1>4. ChainOf(t2, c) = s
  BY <1>1, <1>2, <1>3, ChainOfIs
<1>5. Clusters(s) = {c}
  BY <1>2 DEF Clusters
<1>6. Info(c) \in Infos
  <2>1. ZeroSector \in Sector
    BY FileAssumption DEF ZeroSector, Sector
  <2> QED
    BY <2>1 DEF Info, Infos, NoPlace
<1>7. LookOk(Info(c), s) /\ Info(c).addr = None
  BY <1>2 DEF LookOk, Info, NoPlace
<1>8. e2 \in Entries /\ e2 # None /\ e2.first = c /\ e2.len = 0
  <2>1. e2 \in Entries
    BY DEF Entries
  <2> QED
    BY <2>1, EntryIs
<1>9. n2 \in Nodes /\ n2.info = Info(c) /\ n2.len = 0
  BY <1>6 DEF Nodes
<1>10. 0 <= Cap(s)
  BY <1>1, <1>3, CapFacts
<1>11. BufferOk(n2.info, d, s)
  BY <1>7, <1>9 DEF BufferOk
<1>12. FileOk(t2, d, h, e2, n2)
  BY <1>2, <1>3, <1>4, <1>7, <1>8, <1>9, <1>10, <1>11 DEF FileOk
<1>13. ContentOf(t2, d, e2) = <<>>
  BY <1>4, <1>8 DEF ContentOf, Contents
<1> QED
  BY <1>1, <1>4, <1>5, <1>12, <1>13 DEF s, HoldsNew

(* Creation takes a cluster that no other file has.                        *)
LEMMA CreateOk ==
  ASSUME IInv, NEW f \in File, Create(f)
  PROVE  IInv' /\ Store!StoreNext
<1> DEFINE c == Min(BlankIn(fat))
           e2 == [first |-> c, len |-> 0]
           n2 == [len |-> 0, info |-> Info(c)]
<1>1. /\ entry[f] = None /\ BlankIn(fat) # {} /\ fat' = [fat EXCEPT ![c] = LAST]
      /\ entry' = [entry EXCEPT ![f] = e2] /\ node' = [node EXCEPT ![f] = n2]
      /\ got' = <<>> /\ data' = data /\ halted' = halted
  BY DEF Create
<1>2. c \in Cluster /\ fat[c] = 0
  BY <1>1, MinOfBlank
<1> HIDE DEF c
<1>3. /\ fat \in Table /\ data \in Disk /\ halted \in BOOLEAN
      /\ \A g \in File : FileOk(fat, data, halted, entry[g], node[g])
  BY DEF IInv, InvOf
<1> HIDE DEF e2, n2
<1>4. /\ fat' \in Table /\ ChainOf(fat', c) = <<c>> /\ Clusters(<<c>>) = {c}
      /\ FileOk(fat', data, halted, e2, n2) /\ ContentOf(fat', data, e2) = <<>>
  <2>1. fat' \in Table /\ fat'[c] = LAST
    BY <1>1, <1>2, <1>3 DEF Table
  <2>2. e2 = [first |-> c, len |-> 0] /\ n2 = [len |-> 0, info |-> Info(c)]
    BY DEF e2, n2
  <2>3. HoldsNew(fat', c, data, halted, e2, n2)
    BY <1>2, <2>1, <2>2, NewFile
  <2> QED
    BY <2>3 DEF HoldsNew
<1>5. e2.first = c
  BY DEF e2
<1>6. Others(fat, data, entry, fat', data', e2, f)
  <2> SUFFICES ASSUME NEW g \in File, g # f, entry[g] # None
               PROVE  /\ Spares(ChainOf(fat, entry[g].first), fat, data, fat', data')
                      /\ \A x \in Clusters(ChainOf(fat', e2.first)) :
                           x \notin Clusters(ChainOf(fat, entry[g].first))
    BY DEF Others
  <2> DEFINE s == ChainOf(fat, entry[g].first)
  <2>1. IsChain(fat, s)
    BY <1>3 DEF FileOk
  <2> HIDE DEF s
  <2>2. Clusters(s) \subseteq Cluster /\ \A x \in Clusters(s) : fat[x] # 0
    BY <1>3, <2>1, ChainFacts
  <2>3. c \notin Clusters(s)
    BY <1>2, <2>2
  <2>4. \A x \in Clusters(s) : fat'[x] = fat[x]
    BY <1>1, <1>3, <2>2, <2>3 DEF Table
  <2> QED
    BY <1>1, <1>4, <1>5, <2>3, <2>4 DEF Spares, s
<1>7. FileStep(fat, data, halted, entry, node, fat', data', halted', e2, n2, f)
  BY <1>1, <1>3, <1>4, <1>6 DEF FileStep, IInv
<1>8. Changes(ContentOf(fat, data, entry[f]), ContentOf(fat', data', e2))
  BY <1>1, <1>4 DEF Changes, ContentOf
<1> QED
  BY <1>1, <1>7, <1>8, AccessOk

(* Only the node of f changes.                                             *)
NodeStep(f, n2) ==
  /\ f \in File /\ FileOk(fat, data, halted, entry[f], n2)
  /\ fat' = fat /\ data' = data /\ halted' = halted /\ entry' = entry
  /\ node' = [node EXCEPT ![f] = n2]

(* It changes no content.                                                  *)
LEMMA NodeStepOk ==
  ASSUME IInv, NEW f, NEW n2, NodeStep(f, n2)
  PROVE  IInv' /\ ContentMap(fat', data', entry') = ContentMap(fat, data, entry)
<1> DEFINE e2 == entry[f]
<1>1. /\ fat \in Table /\ data \in Disk /\ halted \in BOOLEAN /\ f \in File
      /\ entry \in [File -> {None} \cup Entries]
      /\ \A g, k \in File : g # k /\ entry[g] # None /\ entry[k] # None =>
           \A c \in Clusters(ChainOf(fat, entry[g].first)) :
             c \notin Clusters(ChainOf(fat, entry[k].first))
  BY DEF IInv, InvOf, NodeStep
<1>2. Others(fat, data, entry, fat, data, e2, f)
  BY <1>1 DEF Others, Spares
<1>3. FileStep(fat, data, halted, entry, node, fat, data, halted, e2, n2, f)
  BY <1>1, <1>2 DEF FileStep, IInv, NodeStep
<1>4. FileDone(fat, data, entry, node, fat, data, halted, e2, n2, f)
  BY <1>3, FileStepOk
<1>5. [entry EXCEPT ![f] = e2] = entry
  BY <1>1
<1>6. InvOf(fat, data, halted, entry, [node EXCEPT ![f] = n2])
  BY <1>4, <1>5 DEF FileDone
<1> QED
  BY <1>6 DEF IInv, NodeStep

LEMMA SameFiles ==
  ASSUME IInv, NEW f, NEW n2, NodeStep(f, n2), got' = <<>>
  PROVE  IInv' /\ Store!StoreNext
<1>1. IInv' /\ ContentMap(fat', data', entry') = ContentMap(fat, data, entry)
  BY NodeStepOk
<1>2. StoreStep(ContentMap(fat, data, entry), ContentMap(fat', data', entry'), got')
  BY <1>1 DEF StoreStep
<1> QED
  BY <1>1, <1>2, StoreStepOk DEF IInv

(* _fs_open_file and _fs_close_file (fatfs.c:501-548).                     *)
LEMMA OpenOk ==
  ASSUME IInv, NEW f \in File, Open(f)
  PROVE  IInv' /\ Store!StoreNext
<1> DEFINE n == node[f]
           e == entry[f]
           s == ChainOf(fat, e.first)
           n2 == [len |-> n.len, info |-> Info(e.first)]
<1>1. FileOk(fat, data, halted, e, n) /\ n \in Nodes /\ e # None /\ node \in [File -> Nodes]
  BY DEF IInv, InvOf, Open
<1>2. e \in Entries /\ e.first \in Cluster /\ n.len \in Nat
  BY <1>1, EntryIs DEF FileOk, Nodes
<1>3. node' = [node EXCEPT ![f] = n2]
  <2>1. [n EXCEPT !.info = Info(e.first)] = n2
    BY <1>1 DEF Nodes
  <2> QED
    BY <1>1, <2>1 DEF Open
<1>4. Info(e.first) \in Infos /\ LookOk(Info(e.first), s) /\ Info(e.first).addr = None
  <2>1. ZeroSector \in Sector
    BY FileAssumption DEF ZeroSector, Sector
  <2>2. s[1] = e.first
    BY <1>1 DEF FileOk
  <2> HIDE DEF s
  <2> QED
    BY <1>2, <2>1, <2>2 DEF Info, Infos, NoPlace, LookOk
<1>5. n2 \in Nodes /\ n2.info = Info(e.first) /\ n2.len = n.len
  BY <1>2, <1>4 DEF Nodes
<1> HIDE DEF n2
<1>6. FileOk(fat, data, halted, e, n2)
  BY <1>1, <1>4, <1>5 DEF FileOk, BufferOk
<1>7. NodeStep(f, n2) /\ got' = <<>>
  BY <1>3, <1>6 DEF NodeStep, Open
<1> QED
  BY <1>7, SameFiles

LEMMA CloseOk ==
  ASSUME IInv, NEW f \in File, Close(f)
  PROVE  IInv' /\ Store!StoreNext
<1> DEFINE n == node[f]
           n2 == [len |-> n.len, info |-> None]
<1>1. FileOk(fat, data, halted, entry[f], n) /\ n \in Nodes /\ node \in [File -> Nodes]
  BY DEF IInv, InvOf
<1>2. node' = [node EXCEPT ![f] = n2]
  <2>1. [n EXCEPT !.info = None] = n2
    BY <1>1 DEF Nodes
  <2> QED
    BY <1>1, <2>1 DEF Close
<1>3. n2 \in Nodes /\ n2.info = None /\ n2.len = n.len
  BY <1>1 DEF Nodes
<1> HIDE DEF n2
<1>4. FileOk(fat, data, halted, entry[f], n2)
  BY <1>1, <1>3 DEF FileOk
<1>5. NodeStep(f, n2) /\ got' = <<>>
  BY <1>2, <1>4 DEF NodeStep, Close
<1> QED
  BY <1>5, SameFiles

(* A removal frees clusters that no other file has (fatfs.c:550-582).      *)
LEMMA DeleteOk ==
  ASSUME IInv, NEW f \in File, Delete(f)
  PROVE  IInv' /\ Store!StoreNext
<1> DEFINE s == ChainOf(fat, entry[f].first)
           t2 == [c \in Cluster |-> IF c \in Range(s) THEN 0 ELSE fat[c]]
<1>1. /\ entry[f] # None /\ fat' = t2 /\ entry' = [entry EXCEPT ![f] = None]
      /\ node' = [node EXCEPT ![f] = NoNode] /\ got' = <<>> /\ data' = data /\ halted' = halted
  BY DEF Delete
<1>2. /\ fat \in Table /\ data \in Disk /\ halted \in BOOLEAN
      /\ \A g \in File : FileOk(fat, data, halted, entry[g], node[g])
      /\ \A g, k \in File : g # k /\ entry[g] # None /\ entry[k] # None =>
           \A c \in Clusters(ChainOf(fat, entry[g].first)) :
             c \notin Clusters(ChainOf(fat, entry[k].first))
  BY DEF IInv, InvOf
<1>3. IsChain(fat, s)
  BY <1>1, <1>2 DEF FileOk
<1> HIDE DEF s
<1>4. Range(s) = Clusters(s)
  BY <1>2, <1>3, ChainFacts
<1>5. t2 \in Table
  BY <1>2 DEF Table
<1>6. FileOk(t2, data, halted, None, NoNode)
  BY DEF FileOk, NoNode, Nodes
<1>7. Others(fat, data, entry, t2, data, None, f)
  <2> SUFFICES ASSUME NEW g \in File, g # f, entry[g] # None
               PROVE  Spares(ChainOf(fat, entry[g].first), fat, data, t2, data)
    BY DEF Others
  <2> DEFINE q == ChainOf(fat, entry[g].first)
  <2>1. IsChain(fat, q)
    BY <1>2 DEF FileOk
  <2>2. \A c \in Clusters(q) : c \notin Clusters(s)
    BY <1>1, <1>2 DEF s
  <2> HIDE DEF q
  <2>3. Clusters(q) \subseteq Cluster
    BY <1>2, <2>1, ChainFacts
  <2>4. Spares(q, fat, data, t2, data)
    BY <1>4, <2>2, <2>3 DEF Spares
  <2> QED
    BY <2>4 DEF q
<1> HIDE DEF t2
<1>8. FileStep(fat, data, halted, entry, node, fat', data', halted', None, NoNode, f)
  BY <1>1, <1>2, <1>5, <1>6, <1>7 DEF FileStep, IInv
<1>9. Changes(ContentOf(fat, data, entry[f]), ContentOf(fat', data', None))
  <2> DEFINE e == entry[f]
             n == e.len
  <2>1. IsChain(fat, s) /\ n <= Cap(s) /\ n \in Nat
    <3>1. e # None /\ e \in {None} \cup Entries /\ FileOk(fat, data, halted, e, node[f])
      BY <1>1, <1>2 DEF IInv, InvOf
    <3>2. n \in Nat
      BY <3>1, EntryIs
    <3> QED
      BY <1>3, <3>1, <3>2 DEF FileOk, s
  <2> HIDE DEF n
  <2>2. Contents(data, s, n) # None
    BY <1>2, <2>1, ContentsFacts
  <2>3. ContentOf(fat, data, e) = Contents(data, s, n)
    BY <1>1 DEF ContentOf, s, n
  <2>4. ContentOf(fat', data', None) = None
    BY DEF ContentOf
  <2> QED
    BY <2>2, <2>3, <2>4 DEF Changes
<1> QED
  BY <1>1, <1>8, <1>9, AccessOk

(* A file as an access meets it.                                           *)
LEMMA OpenFile ==
  ASSUME IInv, NEW f \in File, node[f].info # None
  PROVE  LET s == ChainOf(fat, entry[f].first)
         IN  /\ fat \in Table /\ data \in Disk /\ halted \in BOOLEAN
             /\ entry[f] \in Entries /\ entry[f] # None /\ entry[f].len \in Nat
             /\ node[f] \in Nodes /\ node[f].len = entry[f].len /\ node[f].info \in Infos
             /\ IsChain(fat, s) /\ s[1] = entry[f].first /\ entry[f].len <= Cap(s)
             /\ LookOk(node[f].info, s) /\ (~halted => BufferOk(node[f].info, data, s))
             /\ entry \in [File -> {None} \cup Entries] /\ node \in [File -> Nodes]
<1> DEFINE e == entry[f]
           n == node[f]
<1>1. /\ fat \in Table /\ data \in Disk /\ halted \in BOOLEAN
      /\ entry \in [File -> {None} \cup Entries] /\ node \in [File -> Nodes]
      /\ FileOk(fat, data, halted, e, n)
  BY DEF IInv, InvOf
<1>2. e \in Entries /\ e # None /\ n \in Nodes /\ n.info \in Infos
  BY <1>1 DEF FileOk, Nodes
<1>3. e.len \in Nat
  BY <1>2, EntryIs
<1> QED
  BY <1>1, <1>2, <1>3 DEF FileOk

(* Bytes of a file are what a read of FileStore may return.                *)
LEMMA InReadable ==
  ASSUME NEW old, NEW o \in 0 .. Len(old), NEW k \in 1 .. MaxSize
  PROVE  SubSeq(old, o + 1, Store!Lower(o + k, Len(old))) \in Store!Readable(old)
  BY DEF Store!Readable, Store!Lower

LEMMA ReadableIs ==
  ASSUME NEW t \in Table, NEW s, IsChain(t, s), NEW d \in Disk, NEW len \in Nat, len <= Cap(s),
         NEW off \in Nat, NEW m \in 1 .. MaxSize, off + m <= len,
         NEW bytes, Shown(d, s, off, m, bytes)
  PROVE  bytes \in Store!Readable(Contents(d, s, len))
<1> DEFINE old == Contents(d, s, len)
           lo == off + 1
           hi == off + m
           g == SubSeq(old, lo, hi)
<1>0. MaxSize \in Nat
  BY FileAssumption
<1>1. old \in Seq(Byte) /\ Len(old) = len /\ \A i \in 1 .. len : old[i] = ByteAt(d, s, i - 1)
  BY ContentsFacts
<1> HIDE DEF old
<1>2. /\ bytes \in Seq(Byte) /\ Len(bytes) = m /\ m \in Nat
      /\ \A i \in 1 .. m : bytes[i] = ByteAt(d, s, off + (i - 1))
  BY DEF Shown
<1>3. /\ lo \in Int /\ hi \in Int /\ lo <= hi /\ hi - lo + 1 = m
      /\ \A i \in lo .. hi : i \in 1 .. len
      /\ \A i \in 1 .. m : lo + i - 1 = off + i /\ off + i \in 1 .. len /\ (off + i) - 1 = off + (i - 1)
  BY <1>0, <1>2
<1> HIDE DEF lo, hi
<1>4. \A i \in lo .. hi : old[i] \in Byte
  BY <1>1, <1>3
<1>5. /\ SubSeq(old, lo, hi) \in Seq(Byte)
      /\ Len(SubSeq(old, lo, hi)) = IF lo <= hi THEN hi - lo + 1 ELSE 0
      /\ \A i \in 1 .. hi - lo + 1 : SubSeq(old, lo, hi)[i] = old[lo + i - 1]
  BY <1>3, <1>4, SubSeqProperties
<1> HIDE DEF g
<1>6. g \in Seq(Byte) /\ Len(g) = m /\ \A i \in 1 .. m : g[i] = old[lo + i - 1]
  BY <1>3, <1>5 DEF g
<1>7. \A i \in 1 .. m : g[i] = bytes[i]
  BY <1>1, <1>2, <1>3, <1>6
<1>8. g = bytes
  <2>1. Len(g) = Len(bytes) /\ \A i \in 1 .. Len(g) : g[i] = bytes[i]
    BY <1>2, <1>6, <1>7
  <2> QED
    BY <1>2, <1>6, <2>1, SeqEqual
<1>9. Store!Lower(off + m, Len(old)) = hi /\ off \in 0 .. Len(old)
  BY <1>0, <1>1 DEF Store!Lower, hi
<1>10. g \in Store!Readable(old)
  <2>1. g = SubSeq(old, off + 1, Store!Lower(off + m, Len(old)))
    BY <1>9 DEF g, lo
  <2> HIDE DEF g
  <2>2. SubSeq(old, off + 1, Store!Lower(off + m, Len(old))) \in Store!Readable(old)
    BY <1>9, InReadable
  <2> QED
    BY <2>1, <2>2
<1> QED
  BY <1>8, <1>10 DEF old

(* A read of an open file returns bytes within its length.                 *)
LEMMA ReadOffered ==
  ASSUME IInv, NEW f \in File, NEW off \in Nat, NEW n \in Nat, node[f].info # None, ~halted,
         off <= node[f].len
  PROVE  LET s == ChainOf(fat, entry[f].first)
             count == Asked(f, off, n)
         IN  /\ ReadOk(s, off, count, ReadFile(f, off, n))
             /\ count \in Nat /\ off + count <= entry[f].len /\ count <= n
<1> DEFINE s == ChainOf(fat, entry[f].first)
           count == Asked(f, off, n)
           len == entry[f].len
<1>1. /\ fat \in Table /\ data \in Disk /\ len \in Nat /\ node[f].len = len /\ node[f].info \in Infos
      /\ IsChain(fat, s) /\ len <= Cap(s) /\ LookOk(node[f].info, s) /\ BufferOk(node[f].info, data, s)
  BY OpenFile
<1> HIDE DEF s, len
<1>2. count \in Nat /\ off + count <= len /\ count <= n
  <2>1. count = IF off >= len THEN 0 ELSE Least(n, len - off)
    BY <1>1 DEF Asked
  <2> HIDE DEF count
  <2>2. off <= len
    BY <1>1
  <2> QED
    BY <1>1, <2>1, <2>2 DEF Least
<1>3. off + count <= Cap(s)
  <2>1. Cap(s) \in Nat
    BY <1>1, CapFacts
  <2> HIDE DEF count
  <2> QED
    BY <1>1, <1>2, <2>1
<1>4. CanRead(s, off, count)
  BY <1>1, <1>2, <1>3 DEF CanRead
<1>5. ReadOk(s, off, count, ReadFile(f, off, n))
  BY <1>1, <1>4, ReadFileOk
<1> QED
  BY <1>2, <1>5 DEF s, len

(* A read is one of FileStore (fatfs.c:147-232).                           *)
LEMMA ReadActionOk ==
  ASSUME IInv, ~halted, NEW f \in File, NEW off \in 0 .. MaxSize, NEW n \in 1 .. MaxSize,
         Read(f, off, n)
  PROVE  IInv' /\ Store!StoreNext
<1> DEFINE s == ChainOf(fat, entry[f].first)
           count == Asked(f, off, n)
           len == entry[f].len
           w == ReadFile(f, off, n)
           n2 == [len |-> node[f].len, info |-> w.info]
<1>0. MaxSize \in Nat /\ off \in Nat /\ n \in Nat /\ n <= MaxSize
  BY FileAssumption
<1>1. /\ node[f].info # None /\ off <= node[f].len /\ got' = w.bytes
      /\ node' = [node EXCEPT ![f].info = w.info]
      /\ fat' = fat /\ data' = data /\ entry' = entry /\ halted' = halted
  BY DEF Read
<1>2. /\ fat \in Table /\ data \in Disk /\ len \in Nat /\ node[f].len = len
      /\ entry[f] # None /\ entry[f] \in Entries /\ node[f] \in Nodes
      /\ IsChain(fat, s) /\ s[1] = entry[f].first /\ len <= Cap(s) /\ node \in [File -> Nodes]
  BY <1>1, OpenFile
<1>3. ReadOk(s, off, count, w) /\ count \in Nat /\ off + count <= len /\ count <= n
  BY <1>0, <1>1, ReadOffered
<1> HIDE DEF w, count
<1>4. /\ w.info \in Infos /\ w.done \in Nat /\ LookOk(w.info, s) /\ BufferOk(w.info, data, s)
      /\ w.done <= count /\ Shown(data, s, off, w.done, w.bytes)
  BY <1>3 DEF ReadOk, Works
<1>5. node' = [node EXCEPT ![f] = n2]
  <2>1. [node[f] EXCEPT !.info = w.info] = n2
    BY <1>2 DEF Nodes
  <2> HIDE DEF n2
  <2> QED
    BY <1>1, <1>2, <2>1
<1>6. n2 \in Nodes /\ n2.info = w.info /\ n2.len = len
  BY <1>2, <1>4 DEF Nodes
<1> HIDE DEF n2
<1>7. FileOk(fat, data, halted, entry[f], n2)
  BY <1>2, <1>4, <1>6 DEF FileOk
<1>8. NodeStep(f, n2)
  BY <1>1, <1>5, <1>7 DEF NodeStep
<1>9. IInv' /\ ContentMap(fat', data', entry') = ContentMap(fat, data, entry)
  BY <1>8, NodeStepOk
<1> HIDE DEF s, len
<1>10. CASE w.done = 0
  <2>1. w.bytes = <<>>
    BY <1>4, <1>10 DEF Shown
  <2>2. StoreStep(ContentMap(fat, data, entry), ContentMap(fat', data', entry'), got')
    BY <1>1, <1>9, <2>1 DEF StoreStep
  <2> QED
    BY <1>9, <2>2, StoreStepOk DEF IInv
<1>11. CASE w.done # 0
  <2> DEFINE old == ContentMap(fat, data, entry)
  <2>1. old[f] = Contents(data, s, len)
    BY <1>2 DEF ContentMap, ContentOf, s, len
  <2>2. w.done \in 1 .. MaxSize /\ off + w.done <= len
    BY <1>0, <1>2, <1>3, <1>4, <1>11
  <2>3. w.bytes \in Store!Readable(Contents(data, s, len))
    BY <1>0, <1>2, <1>4, <2>2, ReadableIs
  <2>4. Contents(data, s, len) # None
    BY <1>2, ContentsFacts
  <2> HIDE DEF old
  <2>5. StoreStep(old, ContentMap(fat', data', entry'), got')
    BY <1>1, <1>9, <2>1, <2>3, <2>4 DEF StoreStep, old
  <2> QED
    BY <1>9, <2>5, StoreStepOk DEF IInv, old
<1> QED
  BY <1>10, <1>11

(* A write puts a first part of the text over the bytes of the file.       *)
LEMMA InWritten ==
  ASSUME NEW old, NEW o \in 0 .. Len(old), NEW text \in Texts, NEW k \in 0 .. MaxSize,
         k <= Len(text), Len(text) \in Nat
  PROVE  Store!Overlay(old, o, SubSeq(text, 1, k)) \in Store!Written(old)
<1> DEFINE A == 0 .. Len(old)
           B == 0 .. MaxSize
           e(x, y, z) == Store!Overlay(old, x, SubSeq(y, 1, Store!Lower(z, Len(y))))
<1>1. Store!Written(old) = {e(x, y, z) : x \in A, y \in Texts, z \in B}
  BY DEF Store!Written
<1>2. o \in A /\ k \in B
  OBVIOUS
<1>3. Store!Lower(k, Len(text)) = k
  BY FileAssumption DEF Store!Lower
<1> HIDE DEF A, B
<1>4. e(o, text, k) = Store!Overlay(old, o, SubSeq(text, 1, k))
  BY <1>3
<1> HIDE DEF e
<1>5. e(o, text, k) \in {e(x, y, z) : x \in A, y \in Texts, z \in B}
  BY <1>2
<1> QED
  BY <1>1, <1>4, <1>5

(* What WriteOk says of the bytes, in terms of the contents.               *)
Overlays(a, d, s, hi, q, k, len) ==
  /\ JobOk(a) /\ Shows(a, d, s, q, hi) /\ q \in Nat /\ k \in Nat /\ k <= q /\ k <= Len(a.text)
  /\ len = (IF a.off + k > a.len THEN a.off + k ELSE a.len) /\ hi \in Nat /\ len <= hi
  /\ k = q \/ a.len <= a.off + k

(* A file that shows the first bytes of the text is the old one overlaid.  *)
LEMMA OverlayIs ==
  ASSUME NEW a, NEW d, NEW s, NEW hi, NEW q, NEW k, NEW len, Overlays(a, d, s, hi, q, k, len)
  PROVE  Contents(d, s, len)
           = Store!Overlay(Contents(a.data, a.chain, a.len), a.off, SubSeq(a.text, 1, k))
<1> DEFINE old == Contents(a.data, a.chain, a.len)
           part == SubSeq(a.text, 1, k)
           off == a.off
<1>1. /\ off \in Nat /\ a.text \in Seq(Byte) /\ a.len \in Nat /\ Len(a.text) \in Nat
      /\ a.fat \in Table /\ a.data \in Disk /\ IsChain(a.fat, a.chain)
      /\ off <= a.len /\ a.len <= Cap(a.chain)
      /\ q \in Nat /\ k \in Nat /\ k <= q /\ k <= Len(a.text) /\ hi \in Nat /\ len <= hi
      /\ len = (IF off + k > a.len THEN off + k ELSE a.len)
      /\ k = q \/ a.len <= off + k
  BY DEF Overlays, JobOk
<1>2. Len(old) = a.len /\ \A i \in 1 .. a.len : old[i] = ByteAt(a.data, a.chain, i - 1)
  BY <1>1, ContentsFacts
<1>3. Len(part) = k /\ \A i \in 1 .. k : part[i] = a.text[i]
  <2>1. \A i \in 1 .. k : a.text[i] \in Byte
    BY <1>1
  <2>2. 1 \in Int /\ k \in Int
    BY <1>1
  <2>3. /\ Len(SubSeq(a.text, 1, k)) = IF 1 <= k THEN k - 1 + 1 ELSE 0
        /\ \A i \in 1 .. k - 1 + 1 : SubSeq(a.text, 1, k)[i] = a.text[1 + i - 1]
    BY <2>1, <2>2, SubSeqProperties
  <2> HIDE DEF part
  <2>4. Len(part) = IF 1 <= k THEN k - 1 + 1 ELSE 0
    BY <2>3 DEF part
  <2>5. ASSUME NEW i \in 1 .. k PROVE part[i] = a.text[i]
    <3>1. i \in 1 .. k - 1 + 1 /\ 1 + i - 1 = i
      BY <1>1
    <3>2. SubSeq(a.text, 1, k)[i] = a.text[1 + i - 1]
      BY <2>3, <3>1
    <3> QED
      BY <3>1, <3>2 DEF part
  <2> QED
    BY <1>1, <2>4, <2>5
<1> HIDE DEF old, part
<1>4. Store!Overlay(old, off, part)
        = [i \in 1 .. len |-> IF i \in off + 1 .. off + k THEN part[i - off] ELSE old[i]]
  BY <1>1, <1>2, <1>3 DEF Store!Overlay
<1>5. ASSUME NEW i \in 1 .. len
      PROVE  ByteAt(d, s, i - 1) = IF i \in off + 1 .. off + k THEN part[i - off] ELSE old[i]
  <2> DEFINE j == i - 1
  <2>1. j \in Nat /\ j < hi /\ i = j + 1 /\ j < len
    BY <1>1
  <2> HIDE DEF off
  <2>2. /\ off <= j /\ j < off + q => ByteAt(d, s, j) = a.text[j - off + 1]
        /\ j < off \/ off + q <= j =>
             (j < Cap(a.chain) => ByteAt(d, s, j) = ByteAt(a.data, a.chain, j))
    BY <2>1 DEF Overlays, Shows, off
  <2>3. CASE i \in off + 1 .. off + k
    <3>1. off <= j /\ j < off + q /\ j - off + 1 = i - off /\ i - off \in 1 .. k
      BY <1>1, <2>1, <2>3
    <3> QED
      BY <1>3, <2>2, <2>3, <3>1
  <2>4. CASE i \notin off + 1 .. off + k
    <3>1. Cap(a.chain) \in Nat
      BY <1>1, CapFacts
    <3> HIDE DEF j
    <3>2. j < off \/ off + k <= j
      BY <1>1, <2>1, <2>4
    <3>3. i \in 1 .. a.len /\ j < Cap(a.chain)
      BY <1>1, <2>1, <3>1, <3>2
    <3>4. j < off \/ off + q <= j
      BY <1>1, <2>1, <3>2, <3>3
    <3>5. ByteAt(d, s, j) = ByteAt(a.data, a.chain, j)
      BY <2>2, <3>3, <3>4
    <3> QED
      BY <1>2, <2>4, <3>3, <3>5 DEF j
  <2> QED
    BY <2>3, <2>4
<1>6. Contents(d, s, len) = Store!Overlay(old, off, part)
  BY <1>4, <1>5 DEF Contents
<1> QED
  BY <1>6 DEF old, part

(* What a write leaves: a longer chain that takes free clusters only.      *)
LEMMA GrownSpares ==
  ASSUME NEW t \in Table, NEW s, IsChain(t, s), NEW t2, NEW s2, Grown(t, s, t2, s2),
         NEW d, NEW d2, \A c \in Cluster : c \notin Clusters(s2) => d2[c] = d[c],
         NEW q, IsChain(t, q), \A c \in Clusters(s) : c \notin Clusters(q)
  PROVE  Spares(q, t, d, t2, d2) /\ \A c \in Clusters(s2) : c \notin Clusters(q)
<1>1. Clusters(q) \subseteq Cluster /\ \A c \in Clusters(q) : t[c] # 0
  BY ChainFacts
<1>2. \A c \in Clusters(s2) : c \in Clusters(s) \/ t[c] = 0
  BY DEF Grown
<1>3. \A c \in Clusters(s2) : c \notin Clusters(q)
  BY <1>1, <1>2
<1>4. \A c \in Clusters(q) : t2[c] = t[c] /\ d2[c] = d[c]
  BY <1>1, <1>3 DEF Grown
<1> QED
  BY <1>3, <1>4 DEF Spares

(* What a write leaves, also one that stopped or failed.                   *)
LEMMA WrittenFile ==
  ASSUME NEW a, JobOk(a), NEW w, NEW s, WriteOk(a, w, s),
         NEW len, len = IF w.halted \/ a.off + w.done <= a.len THEN a.len ELSE a.off + w.done
  PROVE  /\ w \in Works /\ w.fat \in Table /\ w.data \in Disk /\ IsChain(w.fat, s)
         /\ s[1] = a.chain[1] /\ len \in Nat /\ len <= Cap(s)
         /\ LookOk(w.info, s) /\ (~w.halted => BufferOk(w.info, w.data, s))
         /\ \E k \in Nat : /\ k <= w.done /\ k <= Len(a.text)
                           /\ Overlays(a, w.data, s, IF w.halted THEN a.len ELSE Cap(s), w.done, k, len)
<1>1. /\ w \in Works /\ Grown(a.fat, a.chain, w.fat, s) /\ LookOk(w.info, s)
      /\ w.done <= Len(a.text)
      /\ ~w.halted => /\ a.off + w.done <= Cap(s) /\ BufferOk(w.info, w.data, s)
                      /\ Shows(a, w.data, s, w.done, Cap(s))
      /\ w.halted => a.len <= a.off + w.done /\ Shows(a, w.data, s, w.done, a.len)
  BY DEF WriteOk
<1>2. /\ a.off \in Nat /\ a.text \in Seq(Byte) /\ a.len \in Nat /\ Len(a.text) \in Nat
      /\ a.fat \in Table /\ a.data \in Disk /\ IsChain(a.fat, a.chain)
      /\ a.off <= a.len /\ a.len <= Cap(a.chain)
  BY DEF JobOk
<1>3. /\ w.done \in Nat /\ w.fat \in Table /\ w.data \in Disk /\ w.halted \in BOOLEAN
      /\ IsChain(w.fat, s)
  BY <1>1 DEF Works, Grown
<1>4. Cap(a.chain) <= Cap(s) /\ Cap(s) \in Nat /\ Cap(a.chain) \in Nat
  BY <1>1, <1>2, GrownBytes
<1>5. s[1] = a.chain[1]
  BY <1>1, <1>2, GrownSectors
<1>6. len \in Nat /\ len <= Cap(s)
  <2>1. CASE w.halted \/ a.off + w.done <= a.len
    BY <1>2, <1>4, <2>1
  <2>2. CASE ~(w.halted \/ a.off + w.done <= a.len)
    BY <1>1, <1>2, <1>3, <2>2
  <2> QED
    BY <2>1, <2>2
<1>7. \E k \in Nat : /\ k <= w.done /\ k <= Len(a.text)
                     /\ Overlays(a, w.data, s, IF w.halted THEN a.len ELSE Cap(s), w.done, k, len)
  <2>1. CASE w.halted
    <3> DEFINE k == a.len - a.off
    <3>1. k \in Nat /\ k <= w.done /\ k <= Len(a.text) /\ a.off + k = a.len
      BY <1>1, <1>2, <1>3, <2>1
    <3> HIDE DEF k
    <3>2. len = a.len
      BY <2>1
    <3>3. len = (IF a.off + k > a.len THEN a.off + k ELSE a.len) /\ a.len <= a.off + k
          /\ len <= a.len
      BY <1>2, <3>1, <3>2
    <3>4. Overlays(a, w.data, s, a.len, w.done, k, len)
      BY <1>1, <1>2, <1>3, <2>1, <3>1, <3>3 DEF Overlays
    <3> QED
      BY <2>1, <3>1, <3>4
  <2>2. CASE ~w.halted
    <3> DEFINE k == w.done
    <3>1. k \in Nat /\ k <= w.done /\ k <= Len(a.text)
      BY <1>1, <1>3
    <3>2. len = (IF a.off + k > a.len THEN a.off + k ELSE a.len)
      BY <1>2, <1>3, <2>2
    <3>3. Overlays(a, w.data, s, Cap(s), w.done, k, len)
      BY <1>1, <1>4, <1>6, <1>3, <2>2, <3>1, <3>2 DEF Overlays
    <3> HIDE DEF k
    <3> QED
      BY <2>2, <3>1, <3>3
  <2> QED
    BY <1>3, <2>1, <2>2
<1> QED
  BY <1>1, <1>3, <1>5, <1>6, <1>7

(* A write is one of FileStore (fatfs.c:350-494).                          *)
LEMMA WriteActionOk ==
  ASSUME IInv, ~halted, NEW f \in File, NEW off \in 0 .. MaxSize, NEW text \in Texts,
         Write(f, off, text)
  PROVE  IInv' /\ Store!StoreNext
<1> DEFINE e == entry[f]
           n == node[f]
           s0 == ChainOf(fat, e.first)
           a == [off |-> off, text |-> text, len |-> n.len, fat |-> fat, data |-> data, chain |-> s0]
           w == WriteFile(f, off, text)
           len == IF w.halted \/ off + w.done <= n.len THEN n.len ELSE off + w.done
           e2 == [first |-> e.first, len |-> len]
           n2 == [len |-> len, info |-> w.info]
<1>1. /\ n.info # None /\ off <= n.len /\ off + Len(text) <= MaxSize
      /\ fat' = w.fat /\ data' = w.data /\ got' = <<>> /\ halted' = w.halted
      /\ node' = [node EXCEPT ![f] = n2] /\ entry' = [entry EXCEPT ![f].len = len]
  BY DEF Write
<1>2. /\ fat \in Table /\ data \in Disk /\ halted \in BOOLEAN
      /\ e \in Entries /\ e # None /\ e.len \in Nat /\ n \in Nodes /\ n.len = e.len /\ n.info \in Infos
      /\ IsChain(fat, s0) /\ s0[1] = e.first /\ e.len <= Cap(s0)
      /\ LookOk(n.info, s0) /\ BufferOk(n.info, data, s0)
      /\ entry \in [File -> {None} \cup Entries]
  BY <1>1, OpenFile
<1>3. text \in Seq(Byte) /\ off \in Nat /\ MaxSize \in Nat /\ Len(text) \in Nat
  BY FileAssumption
<1>4. entry' = [entry EXCEPT ![f] = e2]
  <2>1. [e EXCEPT !.len = len] = e2
    BY <1>2 DEF Entries
  <2> HIDE DEF e2, len, w
  <2> QED
    BY <1>1, <1>2, <2>1
<1>5. /\ a.off = off /\ a.text = text /\ a.len = n.len /\ a.fat = fat /\ a.data = data
      /\ a.chain = s0
  OBVIOUS
<1> HIDE DEF a, s0, w
<1>6. StartOk(a, f)
  BY <1>1, <1>2, <1>3, <1>5 DEF StartOk, JobOk
<1>7. PICK s : WriteOk(a, w, s)
  <2>1. \E s : WriteOk(a, WriteFile(f, a.off, a.text), s)
    BY <1>6, WriteFileOk
  <2> QED
    BY <1>5, <2>1 DEF w
<1>8. JobOk(a) /\ len = IF w.halted \/ a.off + w.done <= a.len THEN a.len ELSE a.off + w.done
  BY <1>5, <1>6 DEF StartOk
<1> HIDE DEF len
<1>9. /\ w \in Works /\ w.fat \in Table /\ w.data \in Disk /\ IsChain(w.fat, s)
      /\ s[1] = e.first /\ len \in Nat /\ len <= Cap(s)
      /\ LookOk(w.info, s) /\ (~w.halted => BufferOk(w.info, w.data, s))
      /\ \E k \in Nat : /\ k <= w.done /\ k <= Len(a.text)
                        /\ Overlays(a, w.data, s, IF w.halted THEN a.len ELSE Cap(s), w.done, k, len)
  BY <1>2, <1>5, <1>7, <1>8, WrittenFile
<1>10. e2 \in Entries /\ e2.first = e.first /\ e2.len = len /\ e2 # None
  <2>1. e2 \in Entries /\ e2.first = e.first /\ e2.len = len
    BY <1>2, <1>9 DEF Entries
  <2> QED
    BY <2>1, EntryIs
<1>11. n2 \in Nodes /\ n2.info = w.info /\ n2.len = len
  BY <1>9 DEF Nodes, Works
<1> HIDE DEF e2, n2
<1>12. ChainOf(w.fat, e2.first) = s
  BY <1>9, <1>10, ChainOfIs
<1>13. FileOk(w.fat, w.data, w.halted, e2, n2)
  BY <1>9, <1>10, <1>11, <1>12 DEF FileOk
<1>14. Others(fat, data, entry, w.fat, w.data, e2, f)
  <2> SUFFICES ASSUME NEW g \in File, g # f, entry[g] # None
               PROVE  /\ Spares(ChainOf(fat, entry[g].first), fat, data, w.fat, w.data)
                      /\ \A c \in Clusters(s) : c \notin Clusters(ChainOf(fat, entry[g].first))
    BY <1>12 DEF Others
  <2> DEFINE q == ChainOf(fat, entry[g].first)
  <2>1. IsChain(fat, q)
    BY DEF IInv, InvOf, FileOk
  <2>2. \A c \in Clusters(s0) : c \notin Clusters(q)
    BY <1>2 DEF IInv, InvOf, s0
  <2> HIDE DEF q
  <2>3. Grown(fat, s0, w.fat, s) /\ \A c \in Cluster : c \notin Clusters(s) => w.data[c] = data[c]
    BY <1>5, <1>7 DEF WriteOk
  <2>4. Spares(q, fat, data, w.fat, w.data) /\ \A c \in Clusters(s) : c \notin Clusters(q)
    BY <1>2, <2>1, <2>2, <2>3, GrownSpares
  <2> QED
    BY <2>4 DEF q
<1>15. FileStep(fat, data, halted, entry, node, fat', data', halted', e2, n2, f)
  BY <1>1, <1>9, <1>13, <1>14 DEF FileStep, IInv, Works
<1>16. Changes(ContentOf(fat, data, e), ContentOf(fat', data', e2))
  <2> DEFINE old == Contents(data, s0, e.len)
             new == Contents(w.data, s, len)
  <2>1. old # None /\ Len(old) = e.len
    BY <1>2, ContentsFacts
  <2>2. new # None
    BY <1>9, ContentsFacts
  <2>3. PICK k \in Nat : /\ k <= w.done /\ k <= Len(a.text)
                         /\ Overlays(a, w.data, s, IF w.halted THEN a.len ELSE Cap(s), w.done, k, len)
    BY <1>9
  <2>4. new = Store!Overlay(old, off, SubSeq(text, 1, k))
    <3>1. Contents(w.data, s, len)
            = Store!Overlay(Contents(a.data, a.chain, a.len), a.off, SubSeq(a.text, 1, k))
      BY <2>3, OverlayIs
    <3> QED
      BY <1>2, <1>5, <3>1
  <2>5. k <= Len(text) /\ k \in 0 .. MaxSize /\ off \in 0 .. e.len
    BY <1>1, <1>2, <1>3, <1>5, <2>3
  <2> HIDE DEF old, new
  <2>6. new \in Store!Written(old)
    BY <1>3, <2>1, <2>4, <2>5, InWritten
  <2>7. ContentOf(fat, data, e) = old
    BY <1>2 DEF ContentOf, s0, old
  <2>8. ContentOf(fat', data', e2) = new
    BY <1>1, <1>10, <1>12 DEF ContentOf, new
  <2> QED
    BY <2>1, <2>2, <2>6, <2>7, <2>8 DEF Changes
<1> QED
  BY <1>1, <1>4, <1>15, <1>16, AccessOk

(***************************************************************************)
(* The theorems.                                                           *)
(***************************************************************************)
LEMMA FileInitInv == FileInit => IInv /\ Store!StoreInit
<1> SUFFICES ASSUME FileInit PROVE IInv /\ Store!StoreInit
  OBVIOUS
<1>1. fat \in Table
  BY DEF FileInit, Table
<1>2. data \in Disk
  <2>1. ZeroSector \in Sector
    BY FileAssumption DEF ZeroSector, Sector
  <2> QED
    BY <2>1 DEF FileInit, Disk
<1>3. NoNode \in Nodes /\ NoNode.info = None
  BY DEF NoNode, Nodes
<1>4. \A f \in File : FileOk(fat, data, halted, entry[f], node[f])
  BY <1>3 DEF FileOk, FileInit
<1>5. /\ halted \in BOOLEAN /\ entry \in [File -> {None} \cup Entries] /\ node \in [File -> Nodes]
      /\ \A f \in File : entry[f] = None
  BY <1>3 DEF FileInit
<1>6. IInv
  BY <1>1, <1>2, <1>4, <1>5 DEF IInv, InvOf
<1>7. [f \in File |-> Content(f)] = [f \in File |-> None] /\ got = <<>>
  BY <1>5 DEF Content, FileInit
<1> QED
  BY <1>6, <1>7 DEF Store!StoreInit

(* When nothing changes, the contents do not.                              *)
LEMMA FileStutter ==
  ASSUME IInv, UNCHANGED fileVars
  PROVE  IInv' /\ UNCHANGED Store!storeVars
<1>1. fat' = fat /\ data' = data /\ entry' = entry /\ node' = node /\ halted' = halted /\ got' = got
  BY DEF fileVars
<1>2. InvOf(fat', data', halted', entry', node')
  BY <1>1 DEF IInv
<1>3. [f \in File |-> Content(f)] = ContentMap(fat, data, entry)
  BY ContentIs DEF IInv
<1>4. [f \in File |-> Content(f)]' = ContentMap(fat', data', entry')
  BY <1>2, ContentIsNext
<1>5. [f \in File |-> Content(f)]' = [f \in File |-> Content(f)]
  BY <1>1, <1>3, <1>4
<1> QED
  BY <1>1, <1>2, <1>5 DEF IInv, Store!storeVars

(* Every step keeps the invariant and is one of the abstract files.        *)
LEMMA FileStepInv ==
  ASSUME IInv, [FileNext]_fileVars
  PROVE  IInv' /\ [Store!StoreNext]_(Store!storeVars)
<1>1. CASE UNCHANGED fileVars
  BY <1>1, FileStutter
<1>2. CASE FileNext
  <2> SUFFICES ASSUME NEW f \in File, ~halted,
                      \/ Create(f) \/ Open(f) \/ Close(f) \/ Delete(f)
                      \/ \E off \in 0 .. MaxSize, n \in 1 .. MaxSize : Read(f, off, n)
                      \/ \E off \in 0 .. MaxSize, text \in Texts : Write(f, off, text)
               PROVE  IInv' /\ Store!StoreNext
    BY <1>2 DEF FileNext
  <2>1. CASE Create(f)
    BY <2>1, CreateOk
  <2>2. CASE Open(f)
    BY <2>2, OpenOk
  <2>3. CASE Close(f)
    BY <2>3, CloseOk
  <2>4. CASE Delete(f)
    BY <2>4, DeleteOk
  <2>5. CASE \E off \in 0 .. MaxSize, n \in 1 .. MaxSize : Read(f, off, n)
    BY <2>5, ReadActionOk
  <2>6. CASE \E off \in 0 .. MaxSize, text \in Texts : Write(f, off, text)
    BY <2>6, WriteActionOk
  <2> QED
    BY <2>1, <2>2, <2>3, <2>4, <2>5, <2>6
<1> QED
  BY <1>1, <1>2

(* The invariant has the place and the buffer.                             *)
LEMMA PlaceFromInv == IInv => PlaceIsChain
<1> SUFFICES ASSUME IInv, NEW f \in File, node[f].info # None
             PROVE  LET c == ChainOf(fat, entry[f].first)
                        i == node[f].info
                    IN  /\ i.look.index # None =>
                             i.look.index < Len(c) /\ c[i.look.index + 1] = i.look.cluster
                        /\ i.addr # None /\ ~halted =>
                             i.sector = data[c[i.addr \div PerCluster + 1]][i.addr % PerCluster]
  BY DEF PlaceIsChain
<1> DEFINE c == ChainOf(fat, entry[f].first)
           i == node[f].info
<1>1. LookOk(i, c) /\ (~halted => BufferOk(i, data, c))
  BY OpenFile
<1>2. i.look.index # None => i.look.index < Len(c) /\ c[i.look.index + 1] = i.look.cluster
  BY <1>1 DEF LookOk
<1>3. i.addr # None /\ ~halted =>
        i.sector = data[c[i.addr \div PerCluster + 1]][i.addr % PerCluster]
  BY <1>1 DEF BufferOk, SecAt, ClOf, InCl
<1> QED
  BY <1>2, <1>3

(* Every file owns a chain of clusters that ends, is long enough for its   *)
(* length and shares nothing with another one, and the place and the buffer*)
(* of an open file belong to it, whatever is created, removed, read and    *)
(* written, also when the disk runs full (fatfs.c:67-486).                 *)
THEOREM FileInvariant == FileSpec => []IInv
<1>1. FileInit => IInv
  BY FileInitInv
<1>2. IInv /\ [FileNext]_fileVars => IInv'
  BY FileStepInv
<1> QED
  BY <1>1, <1>2, PTL DEF FileSpec

(* The place of the last access leads where the walk from the start of the *)
(* chain leads, and the buffer is the sector on the disk (fatfs.c:88-135). *)
THEOREM FilePlaceIsChain == FileSpec => []PlaceIsChain
  BY FileInvariant, PlaceFromInv, PTL

(* The files implement the sequences of bytes that were written, for every *)
(* size of sectors, clusters and disk (fatfs.c:67-486).                    *)
THEOREM FileImplementsStore == FileSpec => ImplementsFileStore
<1>1. FileInit => Store!StoreInit
  BY FileInitInv
<1>2. IInv /\ [FileNext]_fileVars => [Store!StoreNext]_(Store!storeVars)
  BY FileStepInv
<1> QED
  BY <1>1, <1>2, FileInvariant, PTL DEF FileSpec, Store!StoreSpec, ImplementsFileStore
=============================================================================
