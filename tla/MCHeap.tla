------------------------------- MODULE MCHeap -------------------------------
(***************************************************************************)
(* Heap for TLC: small requests, and a page for a table of pages.           *)
(***************************************************************************)
EXTENDS Heap
MCRequests == {[size |-> 8, align |-> FALSE], [size |-> 4096, align |-> TRUE]}
=============================================================================
