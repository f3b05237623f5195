------------------------------- MODULE FatMap -------------------------------
(***************************************************************************)
(* What the file allocation table promises to the operations on it: a map  *)
(* from entries to entries.  An access may fail, but no access returns     *)
(* anything but the last value written, and none is written elsewhere.     *)
(***************************************************************************)
EXTENDS FatOps

VARIABLES
  fat,   \* the table
  op     \* the operation in progress

mapVars == <<fat, op>>

MapInit ==
  /\ fat \in [Entry -> Value]
  /\ op = Idle

Seen(c) == {fat[c], FAIL}
Put(c, v) == fat' \in {fat, [fat EXCEPT ![c] = v]}

MapStart ==
  /\ op = Idle
  /\ \/ op' = NewChain
     \/ \E c \in Data : op' \in {Extend(c), Free(c)} \cup {Grow(c, n) : n \in 1 .. MaxGrow}
  /\ UNCHANGED fat
MapHint == op.pc = "hint" /\ op' = [op EXCEPT !.pc = "scan"] /\ UNCHANGED fat
MapScan ==
  op.pc = "scan" /\ (\E v \in Seen(op.cur) : op' = Scanned(op, v)) /\ UNCHANGED fat
MapFollow ==
  op.pc = "follow" /\ (\E v \in Seen(op.cur) : op' = Followed(op, v)) /\ UNCHANGED fat
MapLink == op.pc = "link" /\ op' = Linked(op) /\ Put(op.from, op.new)
MapEnd == op.pc = "end" /\ op' = Ended(op) /\ Put(op.new, LAST)
MapLook ==
  op.pc = "next" /\ (\E v \in Seen(op.cur) : op' = Nexted(op, v)) /\ UNCHANGED fat
MapClear == op.pc = "clear" /\ op' = Cleared(op) /\ Put(op.cur, 0)

MapNext ==
  \/ MapStart \/ MapHint \/ MapScan \/ MapFollow
  \/ MapLink \/ MapEnd \/ MapLook \/ MapClear

MapSpec == MapInit /\ [][MapNext]_mapVars
=============================================================================
