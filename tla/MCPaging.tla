------------------------------ MODULE MCPaging ------------------------------
(***************************************************************************)
(* Paging for TLC: tables of sixteen pages, a program of one segment and   *)
(* one of two, and a heap that can grow or shrink while they are loaded.   *)
(***************************************************************************)
EXTENDS Paging
MCImages == {<<<<16>>>>, <<<<16, 17>>, <<18>>>>, <<<<16, 17>>, <<17>>>>}
=============================================================================
