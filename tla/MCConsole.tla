----------------------------- MODULE MCConsole -----------------------------
(***************************************************************************)
(* Instances of Console for TLC, with some of the keys of a keyboard.      *)
(***************************************************************************)
EXTENDS Console

Plain(codes) == [ext : {FALSE}, code : codes]
Extended(codes) == [ext : {TRUE}, code : codes]

(* All that edits a line, with one modifier.                               *)
EditKeys == Plain({"a", "enter", "backspace", "8", "ctrl"})
            \cup Extended({"8", "2", "4", "6", "."})

(* A cleared screen with a prompt, and an escape sequence without an end.  *)
MCTexts == {<<Esc, "c", "a">>, <<Esc>>}
=============================================================================
