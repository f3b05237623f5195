------------------------------- MODULE Screen -------------------------------
(***************************************************************************)
(* The output half of drivers/console/console.c on drivers/display.c, as   *)
(* operators on a screen: characters in a linear memory, the cursor of the *)
(* console and the escape sequence that it is in.  Colours are left out.   *)
(*                                                                         *)
(*   video  _video_memory, the part that is shown                          *)
(*   x, y   cursor_x, cursor_y                                             *)
(*   esc    what esc_buff tells about the next character: "none" outside   *)
(*          of a sequence, "start" when it is empty, "sgr" after '[',      *)
(*          "other" when nothing ends it any more                          *)
(*   ok     no assertion has failed                                        *)
(***************************************************************************)
EXTENDS Integers

CONSTANTS
  Width,    \* SCREEN_WIDTH (80)
  Height    \* SCREEN_HEIGHT (25)

ASSUME ScreenAssumption == Width \in Nat \ {0} /\ Height \in Nat \ {0}

Space == " "
Esc == "KEY_ESC"
Cell == 0 .. Width * Height - 1

(* dsp_print_char: past the end of a row it goes to the next one, and past *)
(* the last row to memory that is not shown.                               *)
dsp_print_char(s, c, col, row) ==
  IF row * Width + col \in Cell THEN [s EXCEPT !.video[row * Width + col] = c] ELSE s

dsp_clear_screen(s) == [s EXCEPT !.video = [i \in Cell |-> Space]]
con_clear(s) == [dsp_clear_screen(s) EXCEPT !.x = 0, !.y = 0]

dsp_scroll(s) ==
  [s EXCEPT !.video = [i \in Cell |-> IF i + Width \in Cell THEN @[i + Width] ELSE Space]]

(* _handle_esc_char in a sequence: 'c' clears the screen, '[' leads to the *)
(* sequences that 'm' ends; the others are never left.                     *)
EscChar(s, c) ==
  CASE s.esc = "start" /\ c = "c" -> [con_clear(s) EXCEPT !.esc = "none"]
    [] s.esc = "start" /\ c = "[" -> [s EXCEPT !.esc = "sgr"]
    [] s.esc = "start" /\ c \notin {"c", "["} -> [s EXCEPT !.esc = "other"]
    [] s.esc = "sgr" -> IF c = "m" THEN [s EXCEPT !.esc = "none"] ELSE s
    [] s.esc = "other" -> s
BeginEsc(s) == IF s.esc = "none" THEN [s EXCEPT !.esc = "start"] ELSE [s EXCEPT !.ok = FALSE]

(* con_putc: the character, the end of a row, the end of the screen.       *)
Placed(s, c) ==
  CASE c = "KEY_TAB" -> [s EXCEPT !.x = @ + 4]
    [] c = "\r" -> [s EXCEPT !.x = 0]
    [] c = "\n" -> [s EXCEPT !.x = 0, !.y = @ + 1]
    [] OTHER -> [dsp_print_char(s, c, s.x, s.y) EXCEPT !.x = @ + 1]
Wrapped(s) == IF s.x >= Width THEN [s EXCEPT !.x = 0, !.y = @ + 1] ELSE s
Scrolled(s) == IF s.y = Height THEN [dsp_scroll(s) EXCEPT !.y = Height - 1] ELSE s
con_putc(s, c) ==
  IF c = Esc THEN BeginEsc(s)
  ELSE IF s.esc # "none" THEN EscChar(s, c)
  ELSE Scrolled(Wrapped(Placed(s, c)))

con_init == [video |-> [i \in Cell |-> Space], x |-> 0, y |-> 0, esc |-> "none", ok |-> TRUE]
=============================================================================
