------------------------------ MODULE LineEdit ------------------------------
(***************************************************************************)
(* The line editor of drivers/console/line_buff.c with the history of      *)
(* drivers/console/history.c, as operators.  A line_buff_t is a record     *)
(* [result, len, cur_pos, history_pos, cursor_start_x]; result is a C      *)
(* array, with whatever earlier text left after the terminating null.  The *)
(* history is the list of its strings, the newest first.                   *)
(***************************************************************************)
EXTENDS Integers, Sequences

CONSTANTS
  Size,   \* characters of result (1024)
  NUL     \* the null character

Index == 0 .. Size - 1

(* C strings in an array: there is a null, because no line is Size long.   *)
strlen(a) == CHOOSE n \in Index : a[n] = NUL /\ \A i \in 0 .. n - 1 : a[i] # NUL
String(a) == [i \in 1 .. strlen(a) |-> a[i - 1]]
strcpy(a, str) ==
  [i \in Index |-> IF i < Len(str) THEN str[i + 1]
                   ELSE IF i = Len(str) THEN NUL ELSE a[i]]

lb_init == [result |-> [i \in Index |-> NUL], len |-> 0, cur_pos |-> 0,
            history_pos |-> 0, cursor_start_x |-> 0]

(* Faulty form of the removal below: the terminating null stays behind.    *)
RemoveKeepsLast(lb) ==
  [lb EXCEPT !.result = [i \in Index |-> IF i \in lb.cur_pos .. lb.len - 2
                                         THEN @[i + 1] ELSE @[i]],
             !.len = @ - 1]

_insert(lb, code) ==
  LET moved  == [i \in Index |-> IF i \in lb.cur_pos + 1 .. lb.len + 1
                                 THEN lb.result[i - 1] ELSE lb.result[i]]
      placed == [moved EXCEPT ![lb.cur_pos] = code, ![lb.len + 1] = NUL]
  IN  IF lb.len = Size THEN lb
      ELSE [lb EXCEPT !.result = placed, !.cur_pos = @ + 1, !.len = @ + 1]

_remove(lb) ==
  [lb EXCEPT !.result = [i \in Index |-> IF i \in lb.cur_pos .. lb.len
                                         THEN @[i + 1] ELSE @[i]],
             !.len = @ - 1]

con_his_add(history, str) == <<str>> \o history
con_his_get(history, n) == history[n + 1]

(* A line of the history replaces the line, the cursor at its end.         *)
Recall(lb, pos, str) ==
  [lb EXCEPT !.result = strcpy(@, str), !.len = Len(str), !.cur_pos = Len(str),
             !.history_pos = pos]

(* Every key but KEY_NEW_LINE, which the console handles.                  *)
lb_add_code(lb, code, history) ==
  CASE code = "KEY_UP" ->
         IF lb.history_pos = Len(history) THEN lb
         ELSE Recall(lb, lb.history_pos + 1, con_his_get(history, lb.history_pos))
    [] code = "KEY_DOWN" ->
         IF lb.history_pos = 0 THEN lb
         ELSE Recall(lb, lb.history_pos - 1,
                     IF lb.history_pos = 1 THEN <<>>
                     ELSE con_his_get(history, lb.history_pos - 2))
    [] code = "KEY_BACKSPACE" ->
         IF lb.cur_pos = 0 THEN lb ELSE _remove([lb EXCEPT !.cur_pos = @ - 1])
    [] code = "KEY_DEL" -> IF lb.cur_pos < lb.len THEN _remove(lb) ELSE lb
    [] code = "KEY_LEFT" ->
         IF lb.cur_pos = 0 THEN lb ELSE [lb EXCEPT !.cur_pos = @ - 1]
    [] code = "KEY_RIGHT" ->
         IF lb.cur_pos = lb.len THEN lb ELSE [lb EXCEPT !.cur_pos = @ + 1]
    [] OTHER -> _insert(lb, code)

(* What lb_add_code returns: what the console does on the screen.  The     *)
(* returns of 0 are those of REPLACE.                                      *)
lb_result(lb, code, history) ==
  CASE code = "KEY_UP" -> IF lb.history_pos = Len(history) THEN "IGNORE" ELSE "REPLACE"
    [] code = "KEY_DOWN" -> IF lb.history_pos = 0 THEN "IGNORE" ELSE "REPLACE"
    [] code = "KEY_BACKSPACE" -> "REPLACE"
    [] code = "KEY_DEL" -> IF lb.cur_pos < lb.len THEN "REPLACE" ELSE "IGNORE"
    [] code = "KEY_LEFT" -> IF lb.cur_pos = 0 THEN "REPLACE" ELSE "IGNORE"
    [] code = "KEY_RIGHT" -> IF lb.cur_pos = lb.len THEN "REPLACE" ELSE "IGNORE"
    [] OTHER -> "APPEND"
=============================================================================
