----------------------------- MODULE MCFatTree -----------------------------
(***************************************************************************)
(* FatTree for TLC: two names that differ in case and one with the same    *)
(* short name, which takes two entries.                                    *)
(***************************************************************************)
EXTENDS FatTree

CONSTANTS ab, AB, abc
MCName == {ab, AB, abc}
MCParts == [n \in MCName |-> IF n = abc THEN 2 ELSE 1]
MCFolded == [n \in MCName |-> IF n = abc THEN 2 ELSE 1]
MCBase == [n \in MCName |-> "A"]
MCStem == [b \in {"A"} |-> b]
MCShown == [b \in {"A"} |-> abc]
MCSymmetry == Permutations({ab, AB})
=============================================================================
