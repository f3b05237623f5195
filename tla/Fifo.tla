-------------------------------- MODULE Fifo --------------------------------
(***************************************************************************)
(* What a ring of the kernel promises: a bounded queue that never refuses  *)
(* a value, at the price of the oldest one when it is full.                *)
(***************************************************************************)
EXTENDS Naturals, Sequences

CONSTANTS
  Value,     \* the values that are queued
  NoValue,   \* what a get from an empty queue yields
  Capacity   \* how many values the queue holds

VARIABLES
  queue,     \* the values held, the oldest first
  val        \* the outcome of the last get

fifoVars == <<queue, val>>

FifoInit == queue = <<>> /\ val = NoValue

FifoPut(v) ==
  /\ queue' = IF Len(queue) = Capacity THEN Append(Tail(queue), v)
              ELSE Append(queue, v)
  /\ UNCHANGED val

FifoGet ==
  /\ queue # <<>>
  /\ val' = Head(queue)
  /\ queue' = Tail(queue)

FifoGetNothing ==
  /\ queue = <<>>
  /\ val' = NoValue
  /\ UNCHANGED queue

FifoNext == (\E v \in Value : FifoPut(v)) \/ FifoGet \/ FifoGetNothing

FifoSpec == FifoInit /\ [][FifoNext]_fifoVars
=============================================================================
