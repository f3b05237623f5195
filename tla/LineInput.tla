----------------------------- MODULE LineInput -----------------------------
(***************************************************************************)
(* What the console promises to a user who types and to programs that      *)
(* read: a line that is edited at its cursor, earlier lines that can be    *)
(* called up, and the lines entered, byte after byte, of which only the    *)
(* oldest bytes are lost when nobody reads them.                           *)
(***************************************************************************)
EXTENDS Naturals, Sequences

CONSTANTS
  Char,      \* what can be typed into a line
  NewLine,   \* what ends one
  Capacity   \* bytes kept for the readers

VARIABLES
  line,      \* the line that is being edited
  cursor,    \* how many of its characters are left of the cursor
  past,      \* the lines entered, the newest first
  recalled,  \* which of them was called up last, 0 for none
  queue      \* the bytes entered and not yet read

inputVars == <<line, cursor, past, recalled, queue>>

InputInit ==
  /\ line = <<>> /\ cursor = 0 /\ past = <<>> /\ recalled = 0
  /\ queue = <<>>

Left(n)  == SubSeq(line, 1, n)
Right(n) == SubSeq(line, n + 1, Len(line))

Type(c) ==
  /\ cursor' = cursor + 1
  /\ line' = Left(cursor) \o <<c>> \o Right(cursor)
  /\ UNCHANGED <<recalled, past, queue>>

Erase(n) ==  \* the character n
  /\ cursor' = n - 1 /\ n \in 1 .. Len(line)
  /\ line' = Left(n - 1) \o Right(n)
  /\ UNCHANGED <<recalled, past, queue>>

Move(n) ==
  /\ cursor' = n /\ n \in 0 .. Len(line)
  /\ UNCHANGED <<recalled, line, past, queue>>

CallUp(n) ==
  /\ recalled' = n /\ n \in 0 .. Len(past)
  /\ line' = IF n = 0 THEN <<>> ELSE past[n]
  /\ cursor' = Len(line')
  /\ UNCHANGED <<past, queue>>

Newest(s) == IF Len(s) <= Capacity THEN s
             ELSE SubSeq(s, Len(s) - Capacity + 1, Len(s))

Enter ==
  /\ cursor' = 0 /\ recalled' = 0 /\ line' = <<>>
  /\ past' = IF line = <<>> THEN past ELSE <<line>> \o past
  /\ queue' = Newest(queue \o line \o <<NewLine>>)

Read ==
  /\ UNCHANGED <<cursor, recalled, line, past>>
  /\ queue # <<>>
  /\ queue' = Tail(queue)

InputNext ==
  \/ \E c \in Char : Type(c)
  \/ Erase(cursor) \/ Erase(cursor + 1)
  \/ Move(cursor - 1) \/ Move(cursor + 1)
  \/ CallUp(recalled - 1) \/ CallUp(recalled + 1)
  \/ Enter \/ Read

InputSpec == InputInit /\ [][InputNext]_inputVars
=============================================================================
