------------------------------- MODULE CBuff -------------------------------
(***************************************************************************)
(* The operations of kernel/types/cbuff.c on a ring, as operators on the   *)
(* structure cbuff8_t.  cbuff32_t has the same code, and the event ring of *)
(* drivers/keyboard/keyboard.c repeats it.                                 *)
(***************************************************************************)
EXTENDS Integers, Sequences

(* A ring for the given storage, a function on 0 .. n - 1.                 *)
cbuff8_create(storage, n) ==
  [buff |-> storage, len |-> n, head |-> 0, tail |-> 0, full |-> FALSE]

cbuff8_empty(b) == ~b.full /\ b.head = b.tail

(* Faulty forms: the tail stays when a full ring is written; the tail runs *)
(* off the storage.                                                        *)
PutKeepsTail(b, v) ==
  LET head == (b.head + 1) % b.len
  IN  [buff |-> [b.buff EXCEPT ![b.head] = v], len |-> b.len,
       head |-> head, tail |-> b.tail, full |-> b.full \/ head = b.tail]
GetDoesNotWrap(b) == [b EXCEPT !.full = FALSE, !.tail = b.tail + 1]

(* A full ring overwrites its oldest value and moves the tail past it.     *)
cbuff8_put(b, v) ==
  LET head == (b.head + 1) % b.len
      tail == IF b.full THEN (b.tail + 1) % b.len ELSE b.tail
  IN  [buff |-> [b.buff EXCEPT ![b.head] = v], len |-> b.len,
       head |-> head, tail |-> tail, full |-> head = tail]

(* The value that a get returns, and the ring that it leaves.              *)
Oldest(b) == b.buff[b.tail]
cbuff8_get(b) ==
  [b EXCEPT !.full = FALSE, !.tail = (b.tail + 1) % b.len]

cbuff8_count(b) ==
  IF b.full THEN b.len
  ELSE IF b.head > b.tail THEN b.head - b.tail
  ELSE b.len - b.tail + b.head

(* How many values the ring holds, and where the i-th oldest of them is.   *)
Held(b) == IF cbuff8_empty(b) THEN 0 ELSE cbuff8_count(b)
Slot(b, i) ==
  IF b.tail + i <= b.len THEN b.tail + i - 1 ELSE b.tail + i - 1 - b.len

(* The values the ring holds, the oldest first.                            *)
Contents(b) == [i \in 1 .. Held(b) |-> b.buff[Slot(b, i)]]
=============================================================================
