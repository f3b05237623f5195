----------------------------- MODULE Induction -----------------------------
(***************************************************************************)
(* Induction for the proofs of this project.  The induction theorems of    *)
(* the library take the formula to be proved as an operator, which the     *)
(* provers cannot instantiate; the fact that every non-empty set of        *)
(* naturals has a least element needs none.  From it follow induction over *)
(* a set, and that the function which a fold iterates exists.  Division    *)
(* with rest, which those who divide storage into pieces need, is at the   *)
(* end.                                                                    *)
(***************************************************************************)
EXTENDS Integers, SequencesExt, WellFoundedInduction, TLAPS

(* A non-empty set of naturals has a least element.                        *)
LEMMA LeastElement ==
  ASSUME NEW T \in SUBSET Nat, T # {}
  PROVE  \E x \in T : \A y \in T : x <= y
<1> DEFINE R == {ss \in Nat \X Nat : ss[1] < ss[2]}
<1>1. IsWellFoundedOn(R, Nat)
  BY NatLessThanWellFounded DEF OpToRel
<1>2. \E x \in T : \A y \in T : ~(<<y, x>> \in R)
  <2> HIDE DEF R
  <2> QED
    BY <1>1, WFMin
<1>3. PICK x \in T : \A y \in T : ~(<<y, x>> \in R)
  BY <1>2
<1>4. ASSUME NEW y \in T PROVE x <= y
  <2>1. ~(<<y, x>> \in Nat \X Nat /\ <<y, x>>[1] < <<y, x>>[2])
    BY <1>3
  <2> QED
    BY <2>1
<1> QED
  BY <1>4

(* Induction up to n: a set with 0 and every successor has all of 0 .. n.  *)
LEMMA InductionTo ==
  ASSUME NEW n \in Nat, NEW T, 0 \in T,
         \A i \in 1 .. n : i - 1 \in T => i \in T
  PROVE  \A i \in 0 .. n : i \in T
<1> DEFINE U == {i \in 0 .. n : i \notin T}
<1>1. SUFFICES ASSUME U # {} PROVE FALSE
  OBVIOUS
<1>2. PICK x \in U : \A y \in U : x <= y
  <2>1. U \in SUBSET Nat
    OBVIOUS
  <2> QED
    BY <1>1, <2>1, LeastElement
<1>3. x \in 1 .. n
  BY <1>2
<1>4. x - 1 \in T
  BY <1>2, <1>3
<1> QED
  BY <1>2, <1>3, <1>4

LEMMA Segment ==
  ASSUME NEW n \in Nat, NEW i \in 1 .. n
  PROVE  i \in Nat \ {0} /\ 1 .. i \in SUBSET (1 .. n) /\ 1 .. i # {}
<1>1. i \in Nat \ {0} /\ \A j \in 1 .. i : j \in 1 .. n
  OBVIOUS
<1>2. i \in 1 .. i
  BY <1>1
<1> QED
  BY <1>1, <1>2

(* The largest element of a set of numbers from 1 to n.                    *)
LEMMA MaxOfSome ==
  ASSUME NEW n \in Nat, NEW S \in SUBSET (1 .. n), S # {}
  PROVE  Max(S) \in S /\ \A y \in S : y <= Max(S)
<1> DEFINE T == {n - y : y \in S}
<1>1. PICK x \in T : \A y \in T : x <= y
  <2>1. \A y \in S : n - y \in Nat /\ n - y \in T
    OBVIOUS
  <2>2. T \in SUBSET Nat /\ T # {}
    BY <2>1
  <2> HIDE DEF T
  <2> QED
    BY <2>2, LeastElement
<1>2. PICK m \in S : x = n - m
  OBVIOUS
<1>3. \A y \in S : y <= m
  <2> TAKE y \in S
  <2>1. x <= n - y
    BY <1>1
  <2> QED
    BY <1>2, <2>1
<1> QED
  BY <1>3 DEF Max

LEMMA MaxOfSegment ==
  ASSUME NEW i \in Nat \ {0}
  PROVE  Max(1 .. i) = i /\ (1 .. i) \ {Max(1 .. i)} = 1 .. (i - 1)
<1>1. Max(1 .. i) \in 1 .. i /\ \A y \in 1 .. i : y <= Max(1 .. i)
  <2>1. 1 .. i \in SUBSET (1 .. i) /\ 1 .. i # {} /\ i \in Nat
    OBVIOUS
  <2> HIDE DEF Max
  <2> QED
    BY <2>1, MaxOfSome
<1>2. Max(1 .. i) = i
  BY <1>1
<1> QED
  BY <1>2

(* A function whose value at x follows from that at an element of smaller  *)
(* rank exists: the definition of it by recursion is one.                  *)
Descends(P, V, n, v0, rank, pred, F) ==
  /\ n \in Nat /\ v0 \in V
  /\ rank \in [P -> 0 .. n] /\ pred \in [P -> P] /\ F \in [P -> [V -> V]]
  /\ \A x \in P : rank[x] # 0 => rank[pred[x]] < rank[x]
Follows(g, P, v0, rank, pred, F) ==
  \A x \in P : g[x] = IF rank[x] = 0 THEN v0 ELSE F[x][g[pred[x]]]

LEMMA RecursionOnRank ==
  ASSUME NEW P, NEW V, NEW n, NEW v0, NEW rank, NEW pred, NEW F,
         Descends(P, V, n, v0, rank, pred, F)
  PROVE  \E g \in [P -> V] : Follows(g, P, v0, rank, pred, F)
<1> USE DEF Descends, Follows
<1> DEFINE Below(k) == {x \in P : rank[x] <= k}
           Fits(g, k) == \A x \in Below(k) :
                           g[x] = IF rank[x] = 0 THEN v0 ELSE F[x][g[pred[x]]]
           T == {k \in 0 .. n : \E g \in [Below(k) -> V] : Fits(g, k)}
<1>1. 0 \in T
  <2> DEFINE g == [x \in Below(0) |-> v0]
  <2>1. g \in [Below(0) -> V]
    OBVIOUS
  <2>2. \A x \in Below(0) : rank[x] = 0
    OBVIOUS
  <2>3. Fits(g, 0)
    BY <2>2
  <2>4. 0 \in 0 .. n
    OBVIOUS
  <2> HIDE DEF g, Fits, Below
  <2> QED
    BY <2>1, <2>3, <2>4
<1>2. ASSUME NEW k \in 1 .. n, k - 1 \in T PROVE k \in T
  <2>1. PICK g \in [Below(k - 1) -> V] : Fits(g, k - 1)
    BY <1>2
  <2> DEFINE f == [x \in Below(k) |-> IF rank[x] <= k - 1 THEN g[x] ELSE F[x][g[pred[x]]]]
  <2>2. ASSUME NEW x \in Below(k), rank[x] # 0 PROVE pred[x] \in Below(k - 1)
    <3>1. rank[pred[x]] < rank[x] /\ rank[x] <= k /\ pred[x] \in P
      BY <2>2
    <3>2. rank[pred[x]] \in 0 .. n /\ rank[x] \in 0 .. n
      BY <3>1
    <3> QED
      BY <3>1, <3>2
  <2>3. \A x \in Below(k) : rank[x] \in 0 .. n /\ (rank[x] <= k - 1 <=> x \in Below(k - 1))
    OBVIOUS
  <2>4. f \in [Below(k) -> V]
    <3>1. ASSUME NEW x \in Below(k), ~(rank[x] <= k - 1) PROVE F[x][g[pred[x]]] \in V
      BY <2>2, <2>3, <3>1
    <3> QED
      BY <2>3, <3>1
  <2>5. ASSUME NEW x \in Below(k)
        PROVE  f[x] = IF rank[x] = 0 THEN v0 ELSE F[x][f[pred[x]]]
    <3>1. CASE rank[x] = 0
      <4>1. x \in Below(k - 1)
        BY <3>1
      <4> QED
        BY <2>1, <2>3, <3>1, <4>1
    <3>2. CASE rank[x] # 0
      <4>1. pred[x] \in Below(k - 1) /\ pred[x] \in Below(k)
        BY <2>2, <3>2
      <4>2. f[pred[x]] = g[pred[x]]
        BY <2>3, <4>1
      <4>3. CASE rank[x] <= k - 1
        <5>1. x \in Below(k - 1)
          BY <4>3
        <5>2. g[x] = F[x][g[pred[x]]]
          BY <2>1, <3>2, <5>1
        <5> QED
          BY <3>2, <4>2, <4>3, <5>2
      <4>4. CASE ~(rank[x] <= k - 1)
        BY <3>2, <4>2, <4>4
      <4> QED
        BY <4>3, <4>4
    <3> QED
      BY <3>1, <3>2
  <2> HIDE DEF f
  <2>6. Fits(f, k) /\ k \in 0 .. n
    BY <2>5
  <2> HIDE DEF Fits, Below
  <2> QED
    BY <2>4, <2>6
<1>3. n \in T
  <2> HIDE DEF T
  <2>1. \A k \in 1 .. n : k - 1 \in T => k \in T
    BY <1>2
  <2>2. \A k \in 0 .. n : k \in T
    BY <1>1, <2>1, InductionTo
  <2> QED
    BY <2>2
<1>4. Below(n) = P
  OBVIOUS
<1>5. PICK g \in [Below(n) -> V] : Fits(g, n)
  BY <1>3
<1> QED
  BY <1>4, <1>5

(* The function that FoldLeft iterates over sets of positions, when what it*)
(* folds maps values of V to values of V.                                  *)
Folds(F, V, n, v0) == n \in Nat /\ v0 \in V /\ F \in [1 .. n -> [V -> V]]
Iterates(g, F, n, v0) ==
  g = [S \in SUBSET (1 .. n) |-> IF S = {} THEN v0 ELSE F[Max(S)][g[S \ {Max(S)}]]]

LEMMA FoldExists ==
  ASSUME NEW V, NEW n, NEW v0, NEW F, Folds(F, V, n, v0)
  PROVE  \E g \in [SUBSET (1 .. n) -> V] : Iterates(g, F, n, v0)
<1> USE DEF Folds, Iterates
<1> DEFINE P == SUBSET (1 .. n)
           rank == [S \in P |-> IF S = {} THEN 0 ELSE Max(S)]
           pred == [S \in P |-> S \ {Max(S)}]
           G == [S \in P |-> IF S = {} THEN [v \in V |-> v] ELSE F[Max(S)]]
<1>1. ASSUME NEW S \in P, S # {} PROVE Max(S) \in 1 .. n /\ Max(S) \in S
  BY <1>1, MaxOfSome
<1>2. \A S \in P : rank[S] = 0 <=> S = {}
  BY <1>1
<1>3. rank \in [P -> 0 .. n]
  BY <1>1
<1>4. pred \in [P -> P]
  OBVIOUS
<1>5. G \in [P -> [V -> V]]
  BY <1>1
<1>6. ASSUME NEW S \in P, rank[S] # 0 PROVE rank[pred[S]] < rank[S]
  <2>1. S # {}
    BY <1>2, <1>6
  <2>2. Max(S) \in 1 .. n /\ Max(S) \in S /\ \A y \in S : y <= Max(S)
    BY <1>1, <2>1, MaxOfSome
  <2> DEFINE R == S \ {Max(S)}
  <2>3. R \in P /\ pred[S] = R /\ rank[S] = Max(S)
    BY <2>1
  <2>4. CASE R = {}
    <3>1. rank[R] = 0
      BY <1>2, <2>3, <2>4
    <3> QED
      BY <2>2, <2>3, <3>1
  <2>5. CASE R # {}
    <3>1. Max(R) \in R
      BY <1>1, <2>3, <2>5
    <3>2. rank[R] = Max(R)
      BY <2>3, <2>5
    <3>3. Max(R) \in S /\ Max(R) # Max(S)
      BY <3>1
    <3>4. Max(R) <= Max(S) /\ Max(R) \in 1 .. n
      BY <2>2, <3>3
    <3> QED
      BY <2>2, <2>3, <3>2, <3>3, <3>4
  <2> QED
    BY <2>4, <2>5
<1>7. \E g \in [P -> V] : Follows(g, P, v0, rank, pred, G)
  <2>1. \A S \in P : rank[S] # 0 => rank[pred[S]] < rank[S]
    BY <1>6
  <2> HIDE DEF P, rank, pred, G
  <2>2. Descends(P, V, n, v0, rank, pred, G)
    BY <1>3, <1>4, <1>5, <2>1 DEF Descends
  <2> QED
    BY <2>2, RecursionOnRank
<1>8. PICK g \in [P -> V] :
        \A S \in P : g[S] = IF rank[S] = 0 THEN v0 ELSE G[S][g[pred[S]]]
  BY <1>7 DEF Follows
<1>9. ASSUME NEW S \in P
      PROVE  g[S] = IF S = {} THEN v0 ELSE F[Max(S)][g[S \ {Max(S)}]]
  BY <1>2, <1>8
<1>10. g = [S \in P |-> IF S = {} THEN v0 ELSE F[Max(S)][g[S \ {Max(S)}]]]
  BY <1>9
<1>11. Iterates(g, F, n, v0)
  BY <1>10
<1> HIDE DEF Iterates
<1> QED
  BY <1>11
(* Values that follow one another, each mapped from the one before.        *)
Iterated(g, F, n, v0) == \A k \in 0 .. n : g[k] = IF k = 0 THEN v0 ELSE F[k][g[k - 1]]

LEMMA Iteration ==
  ASSUME NEW V, NEW n, NEW v0, NEW F, Folds(F, V, n, v0)
  PROVE  \E g \in [0 .. n -> V] : Iterated(g, F, n, v0)
<1> DEFINE P == 0 .. n
           rank == [k \in P |-> k]
           pred == [k \in P |-> IF k = 0 THEN 0 ELSE k - 1]
           G == [k \in P |-> IF k = 0 THEN [v \in V |-> v] ELSE F[k]]
<1>1. n \in Nat /\ v0 \in V /\ F \in [1 .. n -> [V -> V]]
  BY DEF Folds
<1>2. rank \in [P -> 0 .. n] /\ pred \in [P -> P] /\ G \in [P -> [V -> V]]
  <2>1. \A k \in P : k # 0 => k \in 1 .. n /\ k - 1 \in P
    BY <1>1
  <2>2. 0 \in P
    BY <1>1
  <2> QED
    BY <1>1, <2>1, <2>2
<1>3. \A k \in P : rank[k] # 0 => rank[pred[k]] < rank[k]
  BY <1>1
<1>4. \E g \in [P -> V] : Follows(g, P, v0, rank, pred, G)
  <2> HIDE DEF P, rank, pred, G
  <2>1. Descends(P, V, n, v0, rank, pred, G)
    BY <1>1, <1>2, <1>3 DEF Descends
  <2> QED
    BY <2>1, RecursionOnRank
<1>5. PICK g \in [P -> V] : \A k \in P : g[k] = IF rank[k] = 0 THEN v0 ELSE G[k][g[pred[k]]]
  BY <1>4 DEF Follows
<1>6. \A k \in P : g[k] = IF k = 0 THEN v0 ELSE F[k][g[k - 1]]
  BY <1>5
<1> QED
  BY <1>6 DEF Iterated

(* Division with rest, and the multiples of a number.                      *)
LEMMA DivMod ==
  ASSUME NEW b \in Nat \ {0}, NEW x \in Nat
  PROVE  x \div b \in Nat /\ x % b \in 0 .. b - 1 /\ x = (x \div b) * b + (x % b)
<1> DEFINE q == x \div b
<1>1. q \in Int /\ x = b * q + (x % b) /\ x % b \in 0 .. b - 1
  BY Z3
<1>2. q >= 0
  BY <1>1, Z3
<1>3. b * q = q * b
  <2> HIDE DEF q
  <2> QED
    BY <1>1, Z3
<1> HIDE DEF q
<1>4. q \in Nat /\ x = q * b + (x % b)
  BY <1>1, <1>2, <1>3
<1> QED
  BY <1>1, <1>4 DEF q

LEMMA Times ==
  ASSUME NEW b \in Nat, NEW x \in Nat, NEW y \in Nat
  PROVE  /\ x * b \in Nat /\ y * b \in Nat
         /\ (x + 1) * b = x * b + b /\ (x + y) * b = x * b + y * b
         /\ x <= y => x * b <= y * b
         /\ x < y => x * b + b <= y * b
<1>1. x * b \in Nat /\ y * b \in Nat /\ (x + 1) * b = x * b + b /\ (x + y) * b = x * b + y * b
  BY Z3
<1>2. ASSUME x <= y PROVE x * b <= y * b
  <2>1. y = x + (y - x) /\ y - x \in Nat
    BY <1>2
  <2>2. (y - x) * b \in Nat /\ (x + (y - x)) * b = x * b + (y - x) * b
    BY <2>1, Z3
  <2> QED
    BY <1>1, <2>1, <2>2
<1>3. ASSUME x < y PROVE x * b + b <= y * b
  <2>1. y = (x + 1) + (y - (x + 1)) /\ y - (x + 1) \in Nat
    BY <1>3
  <2>2. (y - (x + 1)) * b \in Nat
        /\ ((x + 1) + (y - (x + 1))) * b = (x + 1) * b + (y - (x + 1)) * b
    BY <2>1, Z3
  <2> QED
    BY <1>1, <2>1, <2>2
<1> QED
  BY <1>1, <1>2, <1>3

(* Quotient and rest are the only ones there are.                          *)
LEMMA DivUnique ==
  ASSUME NEW b \in Nat \ {0}, NEW q \in Nat, NEW r \in 0 .. b - 1
  PROVE  (q * b + r) \div b = q /\ (q * b + r) % b = r
<1> DEFINE x == q * b + r
           d == x \div b
           m == x % b
<1>1. x \in Nat
  BY Times
<1>2. d \in Nat /\ m \in 0 .. b - 1 /\ x = d * b + m
  BY <1>1, DivMod
<1> HIDE DEF d, m
<1>3. d * b \in Nat /\ q * b \in Nat /\ q * b + r = d * b + m
  BY <1>2, Times
<1>4. ~(d < q)
  <2>1. d < q => d * b + b <= q * b
    BY <1>2, Times
  <2> QED
    BY <1>2, <1>3, <2>1
<1>5. ~(q < d)
  <2>1. q < d => q * b + b <= d * b
    BY <1>2, Times
  <2> QED
    BY <1>2, <1>3, <2>1
<1>6. d = q
  BY <1>2, <1>4, <1>5
<1> QED
  BY <1>2, <1>3, <1>6 DEF d, m
=============================================================================
