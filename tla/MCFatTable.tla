----------------------------- MODULE MCFatTable -----------------------------
(***************************************************************************)
(* FatTable for TLC: from any table in which chains are made of clusters.  *)
(***************************************************************************)
EXTENDS FatTable

(* Every chain on the disk at the start goes up and ends.                  *)
UpwardChains ==
  /\ disk[0] = LAST /\ disk[1] = LAST
  /\ \A c \in Data : disk[c] \in {0, LAST} \cup {d \in Data : d > c}
  /\ \A c \in Data : disk[c] \in Data => disk[disk[c]] # 0
MCFatInit == FatInit /\ UpwardChains
MCFatSpec == MCFatInit /\ [][FatNext]_fatVars
=============================================================================
