------------------------------ MODULE Keyboard ------------------------------
(***************************************************************************)
(* The scan codes of drivers/keyboard.  A byte from the keyboard is a      *)
(* record [code, up] (up is the bit 0x80 of a released key); the byte E0   *)
(* comes before the one of a key that has two.  A few of the codes stand   *)
(* for all: the modifiers by name, "a" for the letters, and those of the   *)
(* keypad, which are cursor keys after the prefix.                         *)
(***************************************************************************)

Modifier == {"lshift", "rshift", "alt", "ctrl", "caps"}
ScanCode == Modifier \cup {"a", "enter", "backspace", "8", "2", "4", "6", "."}

Prefix == [code |-> "E0", up |-> TRUE]
Byte == {Prefix} \cup [code : ScanCode, up : BOOLEAN]

NoKey == "0"  \* a table entry that is not set
kb_sc_ascii_lower == [c \in ScanCode |-> CASE c = "enter" -> "KEY_NEW_LINE"
                                           [] c = "backspace" -> "KEY_BACKSPACE"
                                           [] OTHER -> c]
kb_sc_ascii_upper == [kb_sc_ascii_lower EXCEPT !["a"] = "A"]
kb_sc_ascii_2byte == [c \in ScanCode |-> CASE c = "enter" -> "KEY_NEW_LINE"
                                           [] c = "8" -> "KEY_UP"
                                           [] c = "2" -> "KEY_DOWN"
                                           [] c = "4" -> "KEY_LEFT"
                                           [] c = "6" -> "KEY_RIGHT"
                                           [] c = "." -> "KEY_DEL"
                                           [] OTHER -> NoKey]
KeyCode == {kb_sc_ascii_lower[c] : c \in ScanCode}
           \cup {kb_sc_ascii_2byte[c] : c \in ScanCode} \cup {"A"}

(* kb_state_t: the set of the flags that are set.                          *)
Flag == {"lshift", "rshift", "lalt", "ralt", "caps", "lctrl", "rctrl"}

kb_is_ctrl(state) == state \cap {"lctrl", "rctrl"} # {}
Shifted(state) == state \cap {"lshift", "rshift", "caps"} # {}

(* Which flag a modifier is, if any: shift and caps lock have one byte.    *)
FlagOf(code, wait_2nd) ==
  CASE code = "alt"  -> {IF wait_2nd THEN "ralt" ELSE "lalt"}
    [] code = "ctrl" -> {IF wait_2nd THEN "rctrl" ELSE "lctrl"}
    [] OTHER         -> IF wait_2nd THEN {} ELSE {code}

(* Faulty form: the bit of a released key is dropped first.                *)
StateIgnoresUp(state, wait_2nd, b) == state \cup FlagOf(b.code, wait_2nd)

_update_state(state, wait_2nd, b) ==
  IF b.up THEN state \ FlagOf(b.code, wait_2nd)
  ELSE state \cup FlagOf(b.code, wait_2nd)

_translate(state, wait_2nd, code) ==
  IF wait_2nd THEN kb_sc_ascii_2byte[code]
  ELSE IF Shifted(state) THEN kb_sc_ascii_upper[code]
  ELSE kb_sc_ascii_lower[code]
=============================================================================
