----------------------------- MODULE MCFatFile -----------------------------
(***************************************************************************)
(* FatFile for TLC: texts of one byte and of more than a sector.           *)
(***************************************************************************)
EXTENDS FatFile

MCTexts == {<<1>>, <<2, 1, 2, 1>>}
MCSymmetry == Permutations(File)
=============================================================================
