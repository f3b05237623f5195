----------------------------- MODULE RingProof -----------------------------
(***************************************************************************)
(* Proofs about Ring, for every set of bytes and every length.             *)
(***************************************************************************)
EXTENDS Ring, TLAPS

(* An index that is advanced modulo the length steps, or goes back to 0.   *)
LEMMA Advance ==
  ASSUME NEW n \in Nat \ {0}, NEW x \in 0 .. n - 1
  PROVE  (x + 1) % n = IF x + 1 = n THEN 0 ELSE x + 1
  BY Z3

(* A ring is only full with its head back at its tail: otherwise the next  *)
(* put would drop more than the oldest value.                              *)
FullMeansWrapped == ring.full => ring.head = ring.tail

Inv == TypeOK /\ FullMeansWrapped

(* The same of any ring, for those that are no variable of this module.    *)
Sound(b) == b \in RingType /\ (b.full => b.head = b.tail)

LEMMA RingSound == Inv => Sound(ring)
  BY DEF Inv, TypeOK, FullMeansWrapped, Sound

(* A put, with the modulo resolved.                                        *)
LEMMA PutFacts ==
  ASSUME NEW b, Sound(b), NEW v \in Byte
  PROVE  LET r == cbuff8_put(b, v)
         IN  /\ r \in RingType
             /\ r.head = IF b.head + 1 = Length THEN 0 ELSE b.head + 1
             /\ r.tail = IF ~b.full THEN b.tail
                         ELSE IF b.tail + 1 = Length THEN 0 ELSE b.tail + 1
             /\ r.full = (r.head = r.tail)
             /\ r.buff = [b.buff EXCEPT ![b.head] = v]
<1> USE RingAssumption DEF Sound
<1>1. /\ b.head \in 0 .. Length - 1 /\ b.tail \in 0 .. Length - 1
      /\ b.len = Length /\ b.full \in BOOLEAN
      /\ b.buff \in [0 .. Length - 1 -> Byte]
  BY DEF RingType
<1>2. /\ (b.head + 1) % Length = IF b.head + 1 = Length THEN 0 ELSE b.head + 1
      /\ (b.tail + 1) % Length = IF b.tail + 1 = Length THEN 0 ELSE b.tail + 1
  BY <1>1, Advance
<1> QED
  BY <1>1, <1>2 DEF RingType, cbuff8_put

(* A get, with the modulo resolved.                                        *)
LEMMA GetFacts ==
  ASSUME NEW b, Sound(b)
  PROVE  LET r == cbuff8_get(b)
         IN  /\ r \in RingType
             /\ r.head = b.head /\ r.buff = b.buff /\ ~r.full
             /\ r.tail = IF b.tail + 1 = Length THEN 0 ELSE b.tail + 1
<1> USE RingAssumption DEF Sound
<1>1. /\ b.head \in 0 .. Length - 1 /\ b.tail \in 0 .. Length - 1
      /\ b.len = Length
  BY DEF RingType
<1>2. (b.tail + 1) % Length = IF b.tail + 1 = Length THEN 0 ELSE b.tail + 1
  BY <1>1, Advance
<1>3. (b.tail + 1) % b.len \in 0 .. Length - 1
  BY <1>1, <1>2
<1> DEFINE t == (b.tail + 1) % b.len
<1>4. /\ t \in 0 .. Length - 1
      /\ t = IF b.tail + 1 = Length THEN 0 ELSE b.tail + 1
  BY <1>1, <1>2, <1>3
<1>5. cbuff8_get(b) = [b EXCEPT !.full = FALSE, !.tail = t]
  BY DEF cbuff8_get
<1> HIDE DEF t
<1> QED
  BY <1>4, <1>5 DEF RingType

THEOREM InitInv == Init => Inv
  BY RingAssumption
     DEF Init, Inv, TypeOK, FullMeansWrapped, RingType, Byte, cbuff8_create

THEOREM StepInv == Inv /\ [Next]_ringVars => Inv'
<1> SUFFICES ASSUME Inv, [Next]_ringVars PROVE Inv'
  OBVIOUS
<1>1. ASSUME NEW v \in Value, Put(v) PROVE Inv'
  <2>1. v \in Byte
    BY DEF Byte
  <2> QED
    BY <1>1, <2>1, PutFacts, RingSound DEF Put, Inv, TypeOK, FullMeansWrapped
<1>2. CASE Get
  <2>1. val' \in Byte
    BY <1>2 DEF Get, Oldest, Inv, TypeOK, RingType
  <2> QED
    BY <1>2, <2>1, GetFacts, RingSound DEF Get, Inv, TypeOK, FullMeansWrapped
<1>3. CASE GetNothing
  BY <1>3 DEF GetNothing, Inv, TypeOK, FullMeansWrapped, Byte
<1>4. CASE UNCHANGED ringVars
  BY <1>4 DEF ringVars, Inv, TypeOK, FullMeansWrapped
<1> QED
  BY <1>1, <1>2, <1>3, <1>4 DEF Next

THEOREM InvHolds == Spec => []Inv
  BY InitInv, StepInv, PTL DEF Spec

(* Head and tail never leave the storage, for every length.                *)
THEOREM RingTypeCorrect == Spec => []TypeOK
<1>1. Inv => TypeOK
  BY DEF Inv
<1> QED
  BY <1>1, InvHolds, PTL

-----------------------------------------------------------------------------
(* The refinement.  First the arithmetic of a ring of n slots, with its    *)
(* head at h and its tail at t, without the structure around it.           *)

StepTo(n, x) == IF x + 1 = n THEN 0 ELSE x + 1
SlotAt(n, t, i) == IF t + i <= n THEN t + i - 1 ELSE t + i - 1 - n
CountAt(n, h, t) == IF h > t THEN h - t ELSE n - t + h
HeldAt(n, h, t) == IF h = t THEN 0 ELSE CountAt(n, h, t)

LEMMA SlotRange ==
  ASSUME NEW n \in Nat \ {0}, NEW t \in 0 .. n - 1
  PROVE  \A i \in 1 .. n : SlotAt(n, t, i) \in 0 .. n - 1
  BY DEF SlotAt

(* The value that is put goes to the slot after those in use.              *)
LEMMA PutArith ==
  ASSUME NEW n \in Nat \ {0}, NEW h \in 0 .. n - 1, NEW t \in 0 .. n - 1
  PROVE  LET k == HeldAt(n, h, t)
         IN  /\ k \in 0 .. n - 1
             /\ CountAt(n, StepTo(n, h), t) = k + 1
             /\ SlotAt(n, t, k + 1) = h
             /\ \A i \in 1 .. k : SlotAt(n, t, i) # h
<1>1. CASE h >= t
  BY <1>1 DEF StepTo, SlotAt, CountAt, HeldAt
<1>2. CASE h < t
  BY <1>2 DEF StepTo, SlotAt, CountAt, HeldAt
<1> QED
  BY <1>1, <1>2

(* When the tail steps, every value is one place nearer to it.             *)
LEMMA GetArith ==
  ASSUME NEW n \in Nat \ {0}, NEW t \in 0 .. n - 1
  PROVE  /\ SlotAt(n, t, 1) = t
         /\ \A i \in 1 .. n - 1 : SlotAt(n, StepTo(n, t), i) = SlotAt(n, t, i + 1)
         /\ SlotAt(n, StepTo(n, t), n) = t
         /\ \A i \in 2 .. n : SlotAt(n, t, i) # t
  BY DEF StepTo, SlotAt

(* What a get leaves behind, when h is at a distance of k from t.          *)
LEMMA LeftArith ==
  ASSUME NEW n \in Nat \ {0}, NEW h \in 0 .. n - 1, NEW t \in 0 .. n - 1, h # t
  PROVE  LET u == StepTo(n, t)
         IN  CountAt(n, h, t) - 1 = IF h = u THEN 0 ELSE CountAt(n, h, u)
  BY DEF StepTo, CountAt

(* The structure of a ring, in these terms.                                *)
LEMMA RingFacts ==
  ASSUME NEW r \in RingType, r.full => r.head = r.tail
  PROVE  /\ Length \in Nat \ {0}
         /\ r.head \in 0 .. Length - 1 /\ r.tail \in 0 .. Length - 1
         /\ r.buff \in [0 .. Length - 1 -> Byte]
         /\ Held(r) = IF ~r.full /\ r.head = r.tail THEN 0
                      ELSE CountAt(Length, r.head, r.tail)
         /\ Held(r) \in 0 .. Length
         /\ \A i : Slot(r, i) = SlotAt(Length, r.tail, i)
<1>1. /\ r.head \in 0 .. Length - 1 /\ r.tail \in 0 .. Length - 1
      /\ r.len = Length /\ Length \in Nat \ {0}
      /\ r.buff \in [0 .. Length - 1 -> Byte]
  BY RingAssumption DEF RingType
<1>2. \A i : Slot(r, i) = SlotAt(Length, r.tail, i)
  BY <1>1 DEF Slot, SlotAt
<1>3. CASE r.full
  <2>1. Held(r) = Length
    BY <1>1, <1>3 DEF Held, cbuff8_empty, cbuff8_count
  <2>2. CountAt(Length, r.head, r.tail) = Length
    BY <1>1, <1>3 DEF CountAt
  <2> QED
    BY <1>1, <1>2, <1>3, <2>1, <2>2
<1>4. CASE ~r.full /\ r.head = r.tail
  BY <1>1, <1>2, <1>4 DEF Held, cbuff8_empty
<1>5. CASE ~r.full /\ r.head # r.tail
  <2>1. Held(r) = CountAt(Length, r.head, r.tail)
    BY <1>1, <1>5 DEF Held, cbuff8_empty, cbuff8_count, CountAt
  <2>2. CountAt(Length, r.head, r.tail) \in 0 .. Length
    BY <1>1, <1>5 DEF CountAt
  <2> QED
    BY <1>1, <1>2, <1>5, <2>1, <2>2
<1> QED
  BY <1>3, <1>4, <1>5

(* The contents are a sequence of bytes.                                   *)
LEMMA ContentsIsSeq ==
  ASSUME NEW r \in RingType, r.full => r.head = r.tail
  PROVE  /\ Contents(r) \in Seq(Byte) /\ Len(Contents(r)) = Held(r)
         /\ \A i \in 1 .. Held(r) :
              Contents(r)[i] = r.buff[SlotAt(Length, r.tail, i)]
<1>1. /\ Length \in Nat \ {0} /\ r.tail \in 0 .. Length - 1
      /\ r.buff \in [0 .. Length - 1 -> Byte]
      /\ Held(r) \in 0 .. Length
      /\ \A i : Slot(r, i) = SlotAt(Length, r.tail, i)
  BY RingFacts
<1>2. \A i \in 1 .. Held(r) : SlotAt(Length, r.tail, i) \in 0 .. Length - 1
  <2>1. \A i \in 1 .. Length : SlotAt(Length, r.tail, i) \in 0 .. Length - 1
    BY <1>1, SlotRange
  <2>2. \A i \in 1 .. Held(r) : i \in 1 .. Length
    BY <1>1
  <2> QED
    BY <2>1, <2>2
<1>3. Contents(r) = [i \in 1 .. Held(r) |-> r.buff[SlotAt(Length, r.tail, i)]]
  BY <1>1 DEF Contents
<1>4. \A i \in 1 .. Held(r) : r.buff[SlotAt(Length, r.tail, i)] \in Byte
  BY <1>1, <1>2
<1>5. Held(r) \in Nat
  BY <1>1
<1> HIDE DEF Held
<1> QED
  BY <1>3, <1>4, <1>5

(* A put on a ring that is not full appends the value.                     *)
LEMMA PutAppends ==
  ASSUME NEW b, Sound(b), NEW v \in Byte, ~b.full
  PROVE  Contents(cbuff8_put(b, v)) = Append(Contents(b), v)
<1> DEFINE r == cbuff8_put(b, v)
           k == Held(b)
           S(i) == SlotAt(Length, b.tail, i)
<1>1. b \in RingType /\ (b.full => b.head = b.tail)
  BY DEF Sound
<1>2. /\ Length \in Nat \ {0}
      /\ b.head \in 0 .. Length - 1 /\ b.tail \in 0 .. Length - 1
      /\ b.buff \in [0 .. Length - 1 -> Byte]
      /\ k = HeldAt(Length, b.head, b.tail)
  BY <1>1, RingFacts DEF HeldAt
<1>3. /\ r \in RingType /\ (r.full => r.head = r.tail)
      /\ r.head = StepTo(Length, b.head)
      /\ r.tail = b.tail
      /\ r.full = (r.head = r.tail)
      /\ r.buff = [b.buff EXCEPT ![b.head] = v]
  <2>1. /\ r \in RingType
        /\ r.head = IF b.head + 1 = Length THEN 0 ELSE b.head + 1
        /\ r.tail = b.tail
        /\ r.full = (r.head = r.tail)
        /\ r.buff = [b.buff EXCEPT ![b.head] = v]
    BY PutFacts
  <2> HIDE DEF r
  <2> QED
    BY <2>1 DEF StepTo
<1> HIDE DEF r, k
<1>5. /\ k \in 0 .. Length - 1
      /\ CountAt(Length, r.head, b.tail) = k + 1
      /\ S(k + 1) = b.head
      /\ \A i \in 1 .. k : S(i) # b.head
  <2>1. /\ k \in 0 .. Length - 1
        /\ CountAt(Length, StepTo(Length, b.head), b.tail) = k + 1
        /\ SlotAt(Length, b.tail, k + 1) = b.head
        /\ \A i \in 1 .. k : SlotAt(Length, b.tail, i) # b.head
    <3> DEFINE h == b.head
               t == b.tail
    <3>1. h \in 0 .. Length - 1 /\ t \in 0 .. Length - 1 /\ Length \in Nat \ {0}
      BY <1>2
    <3>2. k = HeldAt(Length, h, t)
      BY <1>2
    <3> HIDE DEF h, t
    <3>3. LET q == HeldAt(Length, h, t)
          IN  /\ q \in 0 .. Length - 1
              /\ CountAt(Length, StepTo(Length, h), t) = q + 1
              /\ SlotAt(Length, t, q + 1) = h
              /\ \A i \in 1 .. q : SlotAt(Length, t, i) # h
      BY <3>1, PutArith
    <3> QED
      BY <3>2, <3>3 DEF h, t
  <2> QED
    BY <1>3, <2>1
<1>6. Held(r) = k + 1
  <2>1. Held(r) = IF ~r.full /\ r.head = r.tail THEN 0
                  ELSE CountAt(Length, r.head, r.tail)
    BY <1>3, RingFacts
  <2> QED
    BY <1>3, <1>5, <2>1
<1>7. /\ Contents(r) \in Seq(Byte) /\ Len(Contents(r)) = k + 1
      /\ \A i \in 1 .. k + 1 : Contents(r)[i] = r.buff[S(i)]
  <2>1. /\ Contents(r) \in Seq(Byte) /\ Len(Contents(r)) = Held(r)
        /\ \A i \in 1 .. Held(r) :
             Contents(r)[i] = r.buff[SlotAt(Length, r.tail, i)]
    BY <1>3, ContentsIsSeq
  <2>2. r.tail = b.tail
    BY <1>3
  <2> QED
    BY <1>6, <2>1, <2>2
<1>8. /\ Contents(b) \in Seq(Byte) /\ Len(Contents(b)) = k
      /\ \A i \in 1 .. k : Contents(b)[i] = b.buff[S(i)]
  BY <1>1, ContentsIsSeq DEF k
<1>9. \A i \in 1 .. k : S(i) \in 0 .. Length - 1
  <2>1. \A i \in 1 .. Length : S(i) \in 0 .. Length - 1
    BY <1>2, SlotRange
  <2>2. \A i \in 1 .. k : i \in 1 .. Length
    BY <1>2, <1>5
  <2> QED
    BY <2>1, <2>2
<1> HIDE DEF S
<1>10. \A i \in 1 .. k : Contents(r)[i] = Contents(b)[i]
  <2> SUFFICES ASSUME NEW i \in 1 .. k PROVE Contents(r)[i] = Contents(b)[i]
    OBVIOUS
  <2>1. i \in 1 .. k + 1 /\ S(i) \in 0 .. Length - 1 /\ S(i) # b.head
    BY <1>5, <1>9
  <2>2. r.buff[S(i)] = b.buff[S(i)]
    BY <1>2, <1>3, <2>1
  <2> QED
    BY <1>7, <1>8, <2>1, <2>2
<1>11. Contents(r)[k + 1] = v
  BY <1>2, <1>3, <1>5, <1>7
<1> HIDE DEF Contents
<1>12. Contents(r) = Append(Contents(b), v)
  BY <1>5, <1>7, <1>8, <1>10, <1>11
<1> QED
  BY <1>12 DEF r

(* A sequence is determined by its length and its elements.                *)
LEMMA ShiftedSeq ==
  ASSUME NEW c \in Seq(Byte), NEW d \in Seq(Byte), NEW v \in Byte, c # <<>>,
         Len(d) = Len(c), d[Len(c)] = v,
         \A i \in 1 .. Len(c) - 1 : d[i] = c[i + 1]
  PROVE  d = Append(Tail(c), v)
<1> DEFINE e == Append(Tail(c), v)
<1>1. Len(c) \in Nat \ {0}
  OBVIOUS
<1>2. e \in Seq(Byte) /\ Len(e) = Len(c) /\ e[Len(c)] = v
  BY <1>1
<1>3. \A i \in 1 .. Len(c) - 1 : e[i] = c[i + 1]
  BY <1>1
<1> HIDE DEF e
<1>4. \A i \in 1 .. Len(c) : d[i] = e[i]
  BY <1>1, <1>2, <1>3
<1> QED
  BY <1>2, <1>4 DEF e

(* A put on a full ring drops the oldest value.                            *)
LEMMA PutDrops ==
  ASSUME NEW b, Sound(b), NEW v \in Byte, b.full
  PROVE  Contents(cbuff8_put(b, v)) = Append(Tail(Contents(b)), v)
<1> DEFINE r == cbuff8_put(b, v)
           n == Length
           t == b.tail
           c == Contents(b)
           d == Contents(r)
<1>1. /\ b \in RingType /\ (b.full => b.head = b.tail)
      /\ n \in Nat \ {0} /\ t \in 0 .. n - 1 /\ b.head = t
      /\ b.buff \in [0 .. n - 1 -> Byte]
      /\ Held(b) = CountAt(n, t, t)
  BY RingFacts DEF Sound
<1>2. /\ r \in RingType
      /\ r.head = StepTo(n, t) /\ r.tail = StepTo(n, t) /\ r.full
      /\ r.buff = [b.buff EXCEPT ![t] = v]
  <2>1. /\ r \in RingType
        /\ r.head = IF b.head + 1 = n THEN 0 ELSE b.head + 1
        /\ r.tail = IF t + 1 = n THEN 0 ELSE t + 1
        /\ r.full = (r.head = r.tail)
        /\ r.buff = [b.buff EXCEPT ![b.head] = v]
    BY PutFacts
  <2> HIDE DEF r
  <2> QED
    BY <1>1, <2>1 DEF StepTo
<1> HIDE DEF r, n, t
<1>3. CountAt(n, t, t) = n /\ CountAt(n, StepTo(n, t), StepTo(n, t)) = n
  BY <1>1 DEF CountAt, StepTo
<1>4. Held(r) = n /\ Held(b) = n
  BY <1>1, <1>2, <1>3, RingFacts DEF n
<1>5. /\ c \in Seq(Byte) /\ Len(c) = n
      /\ \A i \in 1 .. n : c[i] = b.buff[SlotAt(n, t, i)]
  BY <1>1, <1>4, ContentsIsSeq DEF n, t
<1>6. /\ d \in Seq(Byte) /\ Len(d) = n
      /\ \A i \in 1 .. n : d[i] = r.buff[SlotAt(n, StepTo(n, t), i)]
  BY <1>2, <1>4, ContentsIsSeq DEF n
<1>7. /\ \A i \in 1 .. n - 1 : SlotAt(n, StepTo(n, t), i) = SlotAt(n, t, i + 1)
      /\ SlotAt(n, StepTo(n, t), n) = t
      /\ \A i \in 2 .. n : SlotAt(n, t, i) # t
      /\ \A i \in 1 .. n : SlotAt(n, t, i) \in 0 .. n - 1
  BY <1>1, GetArith, SlotRange
<1> HIDE DEF c, d
<1>8. \A i \in 1 .. n - 1 : d[i] = c[i + 1]
  <2> SUFFICES ASSUME NEW i \in 1 .. n - 1 PROVE d[i] = c[i + 1]
    OBVIOUS
  <2>1. i \in 1 .. n /\ i + 1 \in 1 .. n /\ i + 1 \in 2 .. n
    BY <1>1
  <2>2. /\ d[i] = r.buff[SlotAt(n, t, i + 1)]
        /\ SlotAt(n, t, i + 1) \in 0 .. n - 1 /\ SlotAt(n, t, i + 1) # t
    BY <1>6, <1>7, <2>1
  <2>3. c[i + 1] = b.buff[SlotAt(n, t, i + 1)]
    BY <1>5, <2>1
  <2> QED
    BY <1>1, <1>2, <2>2, <2>3
<1>9. d[n] = v
  BY <1>1, <1>2, <1>6, <1>7
<1>10. d = Append(Tail(c), v)
  <2>1. c # <<>>
    BY <1>1, <1>5
  <2> QED
    BY <1>5, <1>6, <1>8, <1>9, <2>1, ShiftedSeq
<1> QED
  BY <1>10 DEF c, d, r

(* A get takes the head of the contents and leaves the rest.               *)
LEMMA GetTakes ==
  ASSUME NEW b, Sound(b), ~cbuff8_empty(b)
  PROVE  /\ Contents(b) # <<>>
         /\ Oldest(b) = Head(Contents(b))
         /\ Contents(cbuff8_get(b)) = Tail(Contents(b))
<1> DEFINE r == cbuff8_get(b)
           n == Length
           h == b.head
           t == b.tail
           k == Held(b)
           c == Contents(b)
           d == Contents(r)
<1>1. /\ b \in RingType /\ (b.full => h = t)
      /\ n \in Nat \ {0} /\ h \in 0 .. n - 1 /\ t \in 0 .. n - 1
      /\ b.full \/ h # t
      /\ k = CountAt(n, h, t) /\ k \in 0 .. n
  BY RingFacts DEF Sound, cbuff8_empty
<1>2. /\ r \in RingType
      /\ r.head = h /\ r.tail = StepTo(n, t) /\ ~r.full /\ r.buff = b.buff
  BY GetFacts DEF StepTo
<1> HIDE DEF r, n, h, t, k
<1>3. k \in 1 .. n
  <2>1. CountAt(n, h, t) # 0
    BY <1>1 DEF CountAt
  <2> QED
    BY <1>1, <2>1
<1>4. Held(r) = k - 1
  <2>1. Held(r) = IF h = StepTo(n, t) THEN 0 ELSE CountAt(n, h, StepTo(n, t))
    BY <1>2, RingFacts DEF n
  <2>2. CASE h # t
    BY <1>1, <2>1, <2>2, LeftArith
  <2>3. CASE h = t
    BY <1>1, <2>1, <2>3 DEF StepTo, CountAt
  <2> QED
    BY <2>2, <2>3
<1>5. /\ c \in Seq(Byte) /\ Len(c) = k
      /\ \A i \in 1 .. k : c[i] = b.buff[SlotAt(n, t, i)]
  BY <1>1, ContentsIsSeq DEF n, t, h, k
<1>6. /\ d \in Seq(Byte) /\ Len(d) = k - 1
      /\ \A i \in 1 .. k - 1 : d[i] = b.buff[SlotAt(n, StepTo(n, t), i)]
  BY <1>2, <1>4, ContentsIsSeq DEF n
<1>7. /\ SlotAt(n, t, 1) = t
      /\ \A i \in 1 .. n - 1 : SlotAt(n, StepTo(n, t), i) = SlotAt(n, t, i + 1)
  BY <1>1, GetArith
<1> HIDE DEF c, d
<1>8. c # <<>> /\ Head(c) = b.buff[t]
  BY <1>3, <1>5, <1>7
<1>9. \A i \in 1 .. k - 1 : d[i] = Tail(c)[i]
  <2> SUFFICES ASSUME NEW i \in 1 .. k - 1 PROVE d[i] = Tail(c)[i]
    OBVIOUS
  <2>1. i \in 1 .. n - 1 /\ i + 1 \in 1 .. k
    BY <1>1, <1>3
  <2>2. Tail(c)[i] = c[i + 1]
    BY <1>3, <1>5, <1>8
  <2>3. d[i] = b.buff[SlotAt(n, t, i + 1)]
    BY <1>6, <1>7, <2>1
  <2> QED
    BY <1>5, <2>1, <2>2, <2>3
<1>10. d = Tail(c)
  <2>1. Tail(c) \in Seq(Byte) /\ Len(Tail(c)) = k - 1
    BY <1>3, <1>5, <1>8
  <2> QED
    BY <1>6, <1>9, <2>1
<1> QED
  BY <1>8, <1>10 DEF c, d, r, t, Oldest

(* Every step of the ring is a step of the abstract queue.                 *)
LEMMA StepRefines == Inv /\ [Next]_ringVars => [F!FifoNext]_(F!fifoVars)
<1> SUFFICES ASSUME Inv, [Next]_ringVars PROVE [F!FifoNext]_(F!fifoVars)
  OBVIOUS
<1>0. /\ ring \in RingType /\ (ring.full => ring.head = ring.tail)
      /\ Contents(ring) \in Seq(Byte) /\ Len(Contents(ring)) = Held(ring)
      /\ Held(ring) = IF ~ring.full /\ ring.head = ring.tail THEN 0
                      ELSE CountAt(Length, ring.head, ring.tail)
      /\ Length \in Nat \ {0}
      /\ ring.head \in 0 .. Length - 1 /\ ring.tail \in 0 .. Length - 1
  BY RingFacts, ContentsIsSeq DEF Inv, TypeOK, FullMeansWrapped
<1>1. ASSUME NEW v \in Value, Put(v) PROVE F!FifoPut(v)
  <2>1. v \in Byte
    BY DEF Byte
  <2>2. Len(Contents(ring)) = Length <=> ring.full
    BY <1>0 DEF CountAt
  <2>3. Contents(ring)' = IF Len(Contents(ring)) = Length
                          THEN Append(Tail(Contents(ring)), v)
                          ELSE Append(Contents(ring), v)
    BY <1>1, <2>1, <2>2, PutAppends, PutDrops, RingSound DEF Put
  <2> QED
    BY <1>1, <2>3 DEF Put, F!FifoPut
<1>2. CASE Get
  BY <1>2, GetTakes, RingSound DEF Get, F!FifoNext, F!FifoGet
<1>3. CASE GetNothing
  <2>1. Contents(ring) = <<>>
    <3>1. Len(Contents(ring)) = 0
      BY <1>0, <1>3 DEF GetNothing, cbuff8_empty
    <3> QED
      BY <1>0, <3>1
  <2>2. Contents(ring)' = Contents(ring)
    BY <1>3 DEF GetNothing
  <2> QED
    BY <1>3, <2>1, <2>2 DEF GetNothing, F!FifoNext, F!FifoGetNothing
<1>4. CASE UNCHANGED ringVars
  BY <1>4 DEF ringVars, F!fifoVars
<1> QED
  BY <1>1, <1>2, <1>3, <1>4 DEF Next, F!FifoNext

(* The initial ring holds nothing.                                         *)
LEMMA InitRefines == Init => F!FifoInit
<1> SUFFICES ASSUME Init PROVE F!FifoInit
  OBVIOUS
<1>1. Held(ring) = 0
  BY DEF Init, cbuff8_create, Held, cbuff8_empty
<1>2. Contents(ring) = <<>>
  BY <1>1 DEF Contents
<1> QED
  BY <1>2 DEF Init, F!FifoInit

(* For every set of values and every length, the ring is a bounded queue   *)
(* that gives its values back in order and loses only the oldest.          *)
THEOREM RingImplementsFifo == Spec => ImplementsFifo
  BY InitRefines, StepRefines, InvHolds, PTL
     DEF Spec, ImplementsFifo, F!FifoSpec
=============================================================================
