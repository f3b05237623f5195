------------------------------ MODULE Console ------------------------------
(***************************************************************************)
(* From the keys to the screen and to the bytes a program reads: the       *)
(* keyboard interrupt (drivers/keyboard/keyboard.c), the console's handler *)
(* of its events, its input ring and its output (drivers/console).  The    *)
(* readers' waiting is in Sched.  The interrupt also puts every event into *)
(* a ring of the keyboard, which nothing reads because the keyboard is not *)
(* registered as a device; it has the code of CBuff and is left out.       *)
(***************************************************************************)
EXTENDS Keyboard, LineEdit, CBuff, Screen, SequencesExt

CONSTANTS
  Keys,        \* the keys of the keyboard: records [ext, code]
  InputLen,    \* size of the console's input ring (1024)
  Texts,       \* what programs print: sequences of characters
  None,
  MaxLine,     \* bound: characters in a line
  MaxHistory   \* bound: lines in the history

ASSUME ConsoleAssumption ==
  /\ Keys \subseteq [ext : BOOLEAN, code : ScanCode]
  /\ InputLen \in Nat \ {0} /\ Size \in Nat
  /\ MaxLine \in 0 .. Size - 2 /\ MaxHistory \in Nat
  /\ NUL \notin KeyCode
  /\ Texts \subseteq Seq(STRING)

VARIABLES
  state,        \* _kb.state
  wait_2nd,     \* _kb.wait_2nd
  line_buff,    \* _console.line_buff
  history,      \* _console.history
  input_buff,   \* _console.input_buff
  screen,       \* the screen, the cursor and the escape sequence
  held,         \* the modifier keys that are down
  half,         \* the keyboard has sent the first of two bytes
  drawn         \* history: cells from the start of the line that show it, with
                \* blanks behind; None when somebody else has drawn there

lineVars == <<line_buff, history, input_buff, screen, drawn>>
consoleVars == <<state, wait_2nd, held, half, lineVars>>

NewLine == "KEY_NEW_LINE"

Init ==
  /\ state = {} /\ wait_2nd = FALSE
  /\ line_buff = lb_init /\ history = <<>>
  /\ input_buff = cbuff8_create([i \in 0 .. InputLen - 1 |-> NUL], InputLen)
  /\ screen = con_init /\ drawn = None
  /\ held = {} /\ half = FALSE

(* The keyboard: a key goes down, again and again while it is held, or up. *)
(* The prefix of a key with two bytes has been sent before.                *)
Grows(k) == ~k.ext /\ k.code \notin Modifier \cup {"enter", "backspace"}
Sends(k, up) ==
  /\ k.ext = half /\ half' = FALSE
  /\ ~up /\ Grows(k) => line_buff.len < MaxLine
  /\ ~up /\ k.code = "enter" => Len(history) < MaxHistory \/ line_buff.len = 0
  /\ up /\ k.code \in Modifier => k \in held
  /\ held' = IF up THEN held \ {k}
             ELSE IF k.code \in Modifier THEN held \cup {k} ELSE held

(* kb_isr: the prefix, a modifier, which sets its flag and leaves wait_2nd *)
(* alone, or another key.                                                  *)
PrefixByte ==
  /\ ~half /\ \E k \in Keys : k.ext
  /\ half' = TRUE /\ wait_2nd' = TRUE
  /\ UNCHANGED <<state, held, lineVars>>

ModifierByte(b) ==
  /\ b.code \in Modifier
  /\ state' = _update_state(state, wait_2nd, b)
  /\ UNCHANGED <<wait_2nd, lineVars>>

(* The end of a line: into the history, unless it is empty, and, with the  *)
(* newline, into the input ring.                                           *)
LineBytes(lb) == [i \in 1 .. lb.len |-> lb.result[i - 1]] \o <<NewLine>>
Break(lb) ==
  /\ screen' = con_putc(screen, "\n")
  /\ history' = IF strlen(lb.result) = 0 THEN history
                ELSE con_his_add(history, String(lb.result))
  /\ input_buff' = FoldLeft(cbuff8_put, input_buff, LineBytes(lb))
  /\ line_buff' = lb_init
  /\ drawn' = None

(* _replace_str: blanks over the line as it was, and the line.  Bound: the *)
(* line ends before column 256, where its uint8_t columns wrap.  Faulty    *)
(* form: blanks over the line as it is.                                    *)
LineCell(s, lb, prev_len, i) ==
  LET k == i - (s.y * Width + lb.cursor_start_x)
  IN  IF k \in 0 .. lb.len - 1 THEN lb.result[k]
      ELSE IF k \in 0 .. prev_len - 1 THEN Space ELSE s.video[i]
ReplaceOnlyNew(s, lb, prev_len) ==
  [s EXCEPT !.video = [i \in Cell |-> LineCell(s, lb, lb.len, i)]]
_replace_str(s, lb, prev_len) ==
  [s EXCEPT !.video = [i \in Cell |-> LineCell(s, lb, prev_len, i)]]

Echo(result, lb, prev_len, code) ==
  CASE result = "REPLACE" -> _replace_str(screen, lb, prev_len)
    [] result = "APPEND" -> dsp_print_char(screen, code, screen.x, screen.y)
    [] result = "IGNORE" -> screen

(* What of the line is on the screen after a key: all of it when it is     *)
(* drawn anew, and nothing certain after an insertion in the middle.       *)
Drawn(result, lb, new) ==
  LET before == IF lb.len = 0 THEN 0 ELSE drawn
  IN  CASE result = "REPLACE" -> Max({lb.len, new.len})
        [] result = "APPEND" -> IF before = None \/ lb.cur_pos < lb.len THEN None
                                ELSE Max({before, new.len})
        [] result = "IGNORE" -> before
Edit(lb, new, result, code) ==
  /\ line_buff' = new
  /\ screen' = [Echo(result, new, lb.len, code) EXCEPT !.x = new.cursor_start_x + new.cur_pos]
  /\ drawn' = Drawn(result, lb, new)
  /\ UNCHANGED <<history, input_buff>>

(* An empty line starts at the cursor.                                     *)
Started == IF line_buff.len = 0 THEN [line_buff EXCEPT !.cursor_start_x = screen.x] ELSE line_buff
_on_kb_event(code) ==
  \E lb \in {Started} :
    IF kb_is_ctrl(state) THEN line_buff' = lb /\ UNCHANGED <<history, input_buff, screen, drawn>>
    ELSE IF code = NewLine THEN Break(lb)
    ELSE Edit(lb, lb_add_code(lb, code, history), lb_result(lb, code, history), code)

KeyByte(b) ==
  /\ b.code \notin Modifier
  /\ \E code \in {_translate(state, wait_2nd, b.code)} :
       IF code = NoKey \/ b.up THEN UNCHANGED lineVars ELSE _on_kb_event(code)
  /\ wait_2nd' = FALSE
  /\ UNCHANGED state

(* A reader takes one byte, the oldest.                                    *)
ReadByte ==
  /\ ~cbuff8_empty(input_buff)
  /\ input_buff' = cbuff8_get(input_buff)
  /\ UNCHANGED <<state, wait_2nd, held, half, line_buff, history, screen, drawn>>

(* A program prints: con_write_buff, or _write_con.                        *)
con_write_buff(text) ==
  /\ screen' = FoldLeft(con_putc, screen, text)
  /\ drawn' = None
  /\ UNCHANGED <<state, wait_2nd, held, half, line_buff, history, input_buff>>

Next ==
  /\ screen.ok
  /\ \/ PrefixByte
     \/ \E k \in Keys, up \in BOOLEAN : \E b \in {[code |-> k.code, up |-> up]} :
          Sends(k, up) /\ (ModifierByte(b) \/ KeyByte(b))
     \/ ReadByte
     \/ \E text \in Texts : con_write_buff(text)

Spec == Init /\ [][Next]_consoleVars

-----------------------------------------------------------------------------
(* Whatever is typed, edited, called up and read: the console with its     *)
(* array, its null-terminated strings and its ring does what LineInput     *)
(* says, so lines arrive whole, as edited, and in order.                   *)
LI == INSTANCE LineInput WITH
        line <- [i \in 1 .. line_buff.len |-> line_buff.result[i - 1]],
        cursor <- line_buff.cur_pos, past <- history,
        recalled <- line_buff.history_pos, queue <- Contents(input_buff),
        Char <- KeyCode, Capacity <- InputLen
ImplementsLineInput == LI!InputSpec

(* After the bytes of a key, the flags are those of the modifiers that are *)
(* down: no press or release is taken for that of another key.             *)
FlagsAreHeldKeys ==
  ~half => state = UNION {FlagOf(k.code, k.ext) : k \in held}

(* The row of the cursor shows the line that is edited, from where it was  *)
(* begun, with nothing of its earlier forms behind it and the cursor at the*)
(* place where the next character goes: from the first key, or from the    *)
(* next time that the line is drawn anew, unless a character goes into the *)
(* middle of it, somebody prints, or it reaches the end of the row         *)
(* (console.c:48-58, 82-105).                                              *)
ScreenShowsLine ==
  drawn # None /\ line_buff.cursor_start_x + drawn < Width =>
    /\ screen.x = line_buff.cursor_start_x + line_buff.cur_pos
    /\ \A i \in 0 .. drawn - 1 :
         screen.video[screen.y * Width + line_buff.cursor_start_x + i] =
           IF i < line_buff.len THEN line_buff.result[i] ELSE Space
=============================================================================
