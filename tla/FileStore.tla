----------------------------- MODULE FileStore -----------------------------
(***************************************************************************)
(* What the file system promises to a program that writes and reads: a file*)
(* is a sequence of bytes, a read returns the bytes last written there, a  *)
(* write changes a first part of what it was asked to, and no other file.  *)
(***************************************************************************)
EXTENDS Naturals, Sequences

CONSTANTS File, Texts, MaxSize, None

VARIABLES
  content,   \* the bytes of a file, None if there is no such file
  got        \* what the last call has read

storeVars == <<content, got>>

Lower(a, b) == IF a < b THEN a ELSE b

(* The bytes s at the place off of a file, over what was there.            *)
Overlay(old, off, s) ==
  [i \in 1 .. (IF off + Len(s) > Len(old) THEN off + Len(s) ELSE Len(old)) |->
     IF i \in off + 1 .. off + Len(s) THEN s[i - off] ELSE old[i]]

(* What a write of a text may make of the bytes old, and a read may return.*)
Written(old) ==
  {Overlay(old, off, SubSeq(text, 1, Lower(n, Len(text)))) :
     off \in 0 .. Len(old), text \in Texts, n \in 0 .. MaxSize}
Readable(old) ==
  {SubSeq(old, off + 1, Lower(off + n, Len(old))) : off \in 0 .. Len(old), n \in 1 .. MaxSize}

StoreInit == content = [f \in File |-> None] /\ got = <<>>

(* From old to new: one file is created, removed or written.               *)
Changed(old, new) ==
  \E f \in File :
    /\ \/ old[f] = None /\ new[f] = <<>>
       \/ old[f] # None /\ new[f] = None
       \/ old[f] # None /\ new[f] # None /\ new[f] \in Written(old[f])
    /\ \A g \in File \ {f} : new[g] = old[g]

(* A call changes one file, or returns what a file holds, or does nothing. *)
StoreNext ==
  \E old \in {content}, new \in {content'} :
    \/ got' = <<>> /\ (new = old \/ Changed(old, new))
    \/ new = old /\ \E f \in File : old[f] # None /\ got' \in Readable(old[f])
StoreSpec == StoreInit /\ [][StoreNext]_storeVars
=============================================================================
