------------------------------- MODULE MCRing -------------------------------
(***************************************************************************)
(* Instances of Ring for TLC: a few bytes in a ring of a few slots go      *)
(* around the storage several times.                                       *)
(***************************************************************************)
EXTENDS Ring

CONSTANTS v1, v2

Bytes == {v1, v2}
=============================================================================
