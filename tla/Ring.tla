-------------------------------- MODULE Ring --------------------------------
(***************************************************************************)
(* A ring between its writers and readers.  Every operation runs with      *)
(* interrupts disabled, so it is one step.                                 *)
(***************************************************************************)
EXTENDS CBuff

CONSTANTS
  Value,     \* the bytes
  NoValue,   \* storage never written; a get that returns false
  Length     \* size of the storage (1024 for the console's input)

ASSUME RingAssumption == Length \in Nat \ {0} /\ NoValue \notin Value

VARIABLES
  ring,      \* the structure cbuff8_t
  val        \* the outcome of the last get

ringVars == <<ring, val>>

Init ==
  /\ ring = cbuff8_create([i \in 0 .. Length - 1 |-> NoValue], Length)
  /\ val = NoValue

Put(v) ==
  /\ ring' = cbuff8_put(ring, v)
  /\ UNCHANGED val

Get ==
  /\ ~cbuff8_empty(ring)
  /\ val' = Oldest(ring)
  /\ ring' = cbuff8_get(ring)

GetNothing ==
  /\ cbuff8_empty(ring)
  /\ val' = NoValue
  /\ UNCHANGED ring

Next == (\E v \in Value : Put(v)) \/ Get \/ GetNothing

Spec == Init /\ [][Next]_ringVars

-----------------------------------------------------------------------------
Byte == Value \cup {NoValue}

RingType ==
  [buff : [0 .. Length - 1 -> Byte], len : {Length},
   head : 0 .. Length - 1, tail : 0 .. Length - 1, full : BOOLEAN]

(* Types of the variables: head and tail never leave the storage.          *)
TypeOK == ring \in RingType /\ val \in Byte

(* The ring implements the bounded queue that drops its oldest value: for  *)
(* every reader the values come out in order, and only the oldest are lost.*)
F == INSTANCE Fifo WITH queue <- Contents(ring), Capacity <- Length
ImplementsFifo == F!FifoSpec
=============================================================================
