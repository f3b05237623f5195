---------------------------- MODULE ConsoleProof ----------------------------
(***************************************************************************)
(* Proofs about Console, for every set of keys, every size of the line,    *)
(* the ring and the screen, and every text that programs print.            *)
(***************************************************************************)
EXTENDS Console, Induction, SequenceTheorems

(* The ring of the input, about which RingProof knows all.                 *)
R == INSTANCE RingProof WITH
       Value <- KeyCode, NoValue <- NUL, Length <- InputLen,
       ring <- input_buff, val <- NUL

-----------------------------------------------------------------------------
(* The line in the array of a line buffer: characters up to the first null.*)
Line(lb) == [i \in 1 .. lb.len |-> lb.result[i - 1]]
LineBuff ==
  [result : [Index -> KeyCode \cup {NUL}], len : 0 .. MaxLine, cur_pos : 0 .. MaxLine,
   history_pos : Nat, cursor_start_x : Nat]
LineOk(lb) ==
  /\ lb \in LineBuff /\ lb.cur_pos <= lb.len
  /\ \A i \in 0 .. lb.len - 1 : lb.result[i] \in KeyCode
  /\ lb.result[lb.len] = NUL

Lines == {s \in Seq(KeyCode) : Len(s) <= MaxLine}
HistoryOk == history \in Seq(Lines) /\ line_buff.history_pos <= Len(history)

(* A prefix sets wait_2nd, so the second byte of a key is taken for one.   *)
KeyboardOk ==
  /\ state \in SUBSET Flag /\ wait_2nd \in BOOLEAN /\ half \in BOOLEAN
  /\ half => wait_2nd

Chars == STRING \cup KeyCode \cup {Space, "\n"}
Screens ==
  [video : [Cell -> Chars], x : Nat, y : 0 .. Height - 1,
   esc : {"none", "start", "sgr", "other"}, ok : BOOLEAN]

LineInv ==
  /\ KeyboardOk /\ LineOk(line_buff) /\ HistoryOk
  /\ R!Sound(input_buff) /\ screen \in Screens

(* What is drawn is at least the line, from its start to the cursor.       *)
DrawnOk ==
  drawn # None =>
    /\ drawn \in Nat /\ line_buff.len <= drawn
    /\ screen.x = line_buff.cursor_start_x + line_buff.cur_pos

Inv == LineInv /\ DrawnOk /\ ScreenShowsLine

(* No modifier with two bytes, as the right alt and the right control key. *)
OneByteModifiers == \A k \in Keys : k.code \in Modifier => ~k.ext
FlagsInv ==
  /\ held \subseteq {k \in Keys : k.code \in Modifier}
  /\ half = wait_2nd
  /\ state = UNION {FlagOf(k.code, k.ext) : k \in held}

-----------------------------------------------------------------------------
LEMMA Bounds ==
  /\ MaxLine \in Nat /\ MaxLine + 2 <= Size /\ Size \in Nat
  /\ NUL \notin KeyCode /\ InputLen \in Nat \ {0} /\ MaxHistory \in Nat
  BY ConsoleAssumption

(* Sequences of one length with the same elements are the same.            *)
LEMMA SameElements ==
  ASSUME NEW V, NEW a \in Seq(V), NEW b \in Seq(V), Len(a) = Len(b),
         \A i \in 1 .. Len(a) : a[i] = b[i]
  PROVE  a = b
  OBVIOUS

(* The parts of a sequence, and their elements.                            *)
LEMMA Parts ==
  ASSUME NEW V, NEW s \in Seq(V), NEW k \in 0 .. Len(s)
  PROVE  /\ SubSeq(s, 1, k) \in Seq(V) /\ Len(SubSeq(s, 1, k)) = k
         /\ \A i \in 1 .. k : SubSeq(s, 1, k)[i] = s[i]
         /\ SubSeq(s, k + 1, Len(s)) \in Seq(V)
         /\ Len(SubSeq(s, k + 1, Len(s))) = Len(s) - k
         /\ \A i \in 1 .. Len(s) - k : SubSeq(s, k + 1, Len(s))[i] = s[k + i]
<1>1. Len(s) \in Nat /\ \A i \in 1 .. Len(s) : s[i] \in V
  OBVIOUS
<1>2. /\ SubSeq(s, 1, k) \in Seq(V) /\ Len(SubSeq(s, 1, k)) = k
      /\ \A i \in 1 .. k : SubSeq(s, 1, k)[i] = s[i]
  <2>1. \A i \in 1 .. k : s[i] \in V
    BY <1>1
  <2>2. /\ SubSeq(s, 1, k) \in Seq(V)
        /\ Len(SubSeq(s, 1, k)) = IF 1 <= k THEN k - 1 + 1 ELSE 0
        /\ \A i \in 1 .. k - 1 + 1 : SubSeq(s, 1, k)[i] = s[1 + i - 1]
    BY <2>1, SubSeqProperties
  <2> QED
    BY <1>1, <2>2
<1>3. /\ SubSeq(s, k + 1, Len(s)) \in Seq(V)
      /\ Len(SubSeq(s, k + 1, Len(s))) = Len(s) - k
      /\ \A i \in 1 .. Len(s) - k : SubSeq(s, k + 1, Len(s))[i] = s[k + i]
  <2> DEFINE m == k + 1
  <2>1. m \in Int /\ \A i \in m .. Len(s) : s[i] \in V
    BY <1>1
  <2> HIDE DEF m
  <2>2. /\ SubSeq(s, m, Len(s)) \in Seq(V)
        /\ Len(SubSeq(s, m, Len(s))) = IF m <= Len(s) THEN Len(s) - m + 1 ELSE 0
        /\ \A i \in 1 .. Len(s) - m + 1 : SubSeq(s, m, Len(s))[i] = s[m + i - 1]
    BY <1>1, <2>1, SubSeqProperties
  <2>3. m = k + 1
    BY DEF m
  <2> QED
    BY <1>1, <2>2, <2>3
<1> QED
  BY <1>2, <1>3

LEMMA LineIsSeq ==
  ASSUME NEW lb, LineOk(lb)
  PROVE  /\ Line(lb) \in Seq(KeyCode) /\ Len(Line(lb)) = lb.len /\ Line(lb) \in Lines
         /\ \A i \in 1 .. lb.len : Line(lb)[i] = lb.result[i - 1]
         /\ lb.len \in 0 .. MaxLine /\ lb.cur_pos \in 0 .. lb.len
         /\ lb.result \in [Index -> KeyCode \cup {NUL}]
<1>1. /\ lb.len \in 0 .. MaxLine /\ lb.cur_pos \in 0 .. lb.len
      /\ lb.result \in [Index -> KeyCode \cup {NUL}]
  BY Bounds DEF LineOk, LineBuff
<1>2. ASSUME NEW i \in 1 .. lb.len PROVE lb.result[i - 1] \in KeyCode
  <2>1. i - 1 \in 0 .. lb.len - 1
    BY <1>1
  <2> QED
    BY <2>1 DEF LineOk
<1>3. Line(lb) \in [1 .. lb.len -> KeyCode]
  BY <1>2 DEF Line
<1>4. Line(lb) \in Seq(KeyCode) /\ Len(Line(lb)) = lb.len
  BY <1>1, <1>3
<1> QED
  BY <1>1, <1>4 DEF Line, Lines

(* The string in the array is the line: no later null, no earlier one.     *)
LEMMA StringIsLine ==
  ASSUME NEW lb, LineOk(lb)
  PROVE  strlen(lb.result) = lb.len /\ String(lb.result) = Line(lb)
<1>1. lb.len \in Index /\ lb.result[lb.len] = NUL
  BY LineIsSeq, Bounds DEF LineOk, Index
<1>2. \A i \in 0 .. lb.len - 1 : lb.result[i] # NUL
  BY Bounds DEF LineOk
<1>3. ASSUME NEW n \in Index, lb.result[n] = NUL,
             \A i \in 0 .. n - 1 : lb.result[i] # NUL
      PROVE  n = lb.len
  <2>1. ~(n < lb.len)
    BY <1>1, <1>2, <1>3 DEF Index
  <2>2. ~(lb.len < n)
    BY <1>1, <1>3 DEF Index
  <2> QED
    BY <1>1, <2>1, <2>2 DEF Index
<1>4. strlen(lb.result) = lb.len
  BY <1>1, <1>2, <1>3 DEF strlen
<1> QED
  BY <1>4 DEF String, Line

(* A character goes into the line in front of the cursor.                  *)
LEMMA Inserted ==
  ASSUME NEW lb, LineOk(lb), lb.len < MaxLine, NEW c \in KeyCode
  PROVE  LET n == _insert(lb, c)
         IN  /\ LineOk(n) /\ n.cur_pos = lb.cur_pos + 1 /\ n.len = lb.len + 1
             /\ n.history_pos = lb.history_pos /\ n.cursor_start_x = lb.cursor_start_x
             /\ \A i \in Index : n.result[i] = IF i < lb.cur_pos \/ i > lb.len + 1 THEN lb.result[i]
                                  ELSE IF i = lb.len + 1 THEN NUL
                                  ELSE IF i = lb.cur_pos THEN c ELSE lb.result[i - 1]
             /\ Line(n) = SubSeq(Line(lb), 1, lb.cur_pos) \o <<c>>
                          \o SubSeq(Line(lb), lb.cur_pos + 1, Len(Line(lb)))
<1> DEFINE n == _insert(lb, c)
<1>1. /\ lb.len \in 0 .. MaxLine /\ lb.cur_pos \in 0 .. lb.len
      /\ lb.result \in [Index -> KeyCode \cup {NUL}]
      /\ Line(lb) \in Seq(KeyCode) /\ Len(Line(lb)) = lb.len
      /\ \A i \in 1 .. lb.len : Line(lb)[i] = lb.result[i - 1]
  BY LineIsSeq
<1> DEFINE moved == [i \in Index |-> IF i \in lb.cur_pos + 1 .. lb.len + 1
                                     THEN lb.result[i - 1] ELSE lb.result[i]]
           placed == [moved EXCEPT ![lb.cur_pos] = c, ![lb.len + 1] = NUL]
<1>2. n = [lb EXCEPT !.result = placed, !.cur_pos = @ + 1, !.len = @ + 1]
  BY <1>1, Bounds DEF _insert
<1>3. ASSUME NEW i \in Index
      PROVE  /\ placed[i] = IF i < lb.cur_pos \/ i > lb.len + 1 THEN lb.result[i]
                            ELSE IF i = lb.len + 1 THEN NUL
                            ELSE IF i = lb.cur_pos THEN c ELSE lb.result[i - 1]
             /\ placed[i] \in KeyCode \cup {NUL}
  <2>1. moved[i] = IF i \in lb.cur_pos + 1 .. lb.len + 1
                   THEN lb.result[i - 1] ELSE lb.result[i]
    OBVIOUS
  <2>2. placed[i] = IF i = lb.len + 1 THEN NUL ELSE IF i = lb.cur_pos THEN c ELSE moved[i]
    <3> HIDE DEF moved
    <3> QED
      BY <1>1, Bounds DEF Index, moved
  <2>3. i \in Int /\ (i \in lb.cur_pos + 1 .. lb.len + 1 => i - 1 \in Index)
    BY <1>1, Bounds DEF Index
  <2> HIDE DEF placed, moved
  <2> QED
    BY <1>1, <2>1, <2>2, <2>3
<1>4. placed \in [Index -> KeyCode \cup {NUL}]
  BY <1>3
<1> HIDE DEF placed
<1>5. /\ n \in LineBuff /\ n.result = placed /\ n.cur_pos = lb.cur_pos + 1
      /\ n.len = lb.len + 1 /\ n.history_pos = lb.history_pos
      /\ n.cursor_start_x = lb.cursor_start_x
  <2>1. lb \in LineBuff /\ lb.cur_pos + 1 \in 0 .. MaxLine /\ lb.len + 1 \in 0 .. MaxLine
    BY <1>1, Bounds DEF LineOk
  <2>2. n = [result |-> placed, len |-> lb.len + 1, cur_pos |-> lb.cur_pos + 1,
             history_pos |-> lb.history_pos, cursor_start_x |-> lb.cursor_start_x]
    BY <1>2, <2>1 DEF LineBuff
  <2> HIDE DEF n
  <2> QED
    BY <1>4, <2>1, <2>2 DEF LineBuff
<1> HIDE DEF n
<1>6. LineOk(n)
  <2>1. ASSUME NEW i \in 0 .. n.len - 1 PROVE n.result[i] \in KeyCode
    <3>1. i \in Index /\ i < lb.len + 1
      BY <1>1, <1>5, Bounds DEF Index
    <3>2. CASE i < lb.cur_pos
      BY <1>1, <1>3, <1>5, <3>1, <3>2 DEF LineOk
    <3>3. CASE i = lb.cur_pos
      BY <1>1, <1>3, <1>5, <3>1, <3>3
    <3>4. CASE i > lb.cur_pos
      <4>1. i - 1 \in 0 .. lb.len - 1
        BY <1>1, <3>1, <3>4
      <4> QED
        BY <1>1, <1>3, <1>5, <3>1, <3>4, <4>1 DEF LineOk
    <3> QED
      BY <1>1, <3>1, <3>2, <3>3, <3>4
  <2>2. n.result[n.len] = NUL
    <3>1. lb.len + 1 \in Index
      BY <1>1, Bounds DEF Index
    <3> QED
      BY <1>1, <1>3, <1>5, <3>1
  <2> QED
    BY <1>1, <1>5, <2>1, <2>2 DEF LineOk
<1> DEFINE s == SubSeq(Line(lb), 1, lb.cur_pos) \o <<c>>
                \o SubSeq(Line(lb), lb.cur_pos + 1, Len(Line(lb)))
<1>7. /\ s \in Seq(KeyCode) /\ Len(s) = lb.len + 1
      /\ \A i \in 1 .. lb.len + 1 :
           s[i] = IF i <= lb.cur_pos THEN lb.result[i - 1]
                  ELSE IF i = lb.cur_pos + 1 THEN c ELSE lb.result[i - 2]
  <2> DEFINE a == SubSeq(Line(lb), 1, lb.cur_pos)
             b == SubSeq(Line(lb), lb.cur_pos + 1, Len(Line(lb)))
  <2>1. /\ a \in Seq(KeyCode) /\ Len(a) = lb.cur_pos
        /\ \A i \in 1 .. lb.cur_pos : a[i] = Line(lb)[i]
        /\ b \in Seq(KeyCode) /\ Len(b) = lb.len - lb.cur_pos
        /\ \A i \in 1 .. lb.len - lb.cur_pos : b[i] = Line(lb)[lb.cur_pos + i]
    <3> DEFINE L == Line(lb)
               k == lb.cur_pos
    <3>1. L \in Seq(KeyCode) /\ k \in 0 .. Len(L) /\ Len(L) = lb.len
      BY <1>1
    <3> HIDE DEF L, k
    <3>2. /\ SubSeq(L, 1, k) \in Seq(KeyCode) /\ Len(SubSeq(L, 1, k)) = k
          /\ \A i \in 1 .. k : SubSeq(L, 1, k)[i] = L[i]
          /\ SubSeq(L, k + 1, Len(L)) \in Seq(KeyCode)
          /\ Len(SubSeq(L, k + 1, Len(L))) = Len(L) - k
          /\ \A i \in 1 .. Len(L) - k : SubSeq(L, k + 1, Len(L))[i] = L[k + i]
      BY <3>1, Parts
    <3> QED
      BY <3>1, <3>2 DEF L, k
  <2> HIDE DEF a, b
  <2>2. s = (a \o <<c>>) \o b
    BY DEF a, b
  <2> HIDE DEF s
  <2> DEFINE d == a \o <<c>>
  <2>3. /\ d \in Seq(KeyCode) /\ Len(d) = lb.cur_pos + 1
        /\ \A i \in 1 .. lb.cur_pos + 1 : d[i] = IF i <= lb.cur_pos THEN a[i] ELSE c
    BY <1>1, <2>1
  <2> HIDE DEF d
  <2>4. /\ s \in Seq(KeyCode) /\ Len(s) = lb.len + 1
        /\ \A i \in 1 .. lb.len + 1 :
             s[i] = IF i <= lb.cur_pos + 1 THEN d[i] ELSE b[i - (lb.cur_pos + 1)]
    <3>1. s = d \o b
      BY <2>2 DEF d
    <3>2. /\ d \o b \in Seq(KeyCode) /\ Len(d \o b) = Len(d) + Len(b)
          /\ \A i \in 1 .. Len(d) + Len(b) :
               (d \o b)[i] = IF i <= Len(d) THEN d[i] ELSE b[i - Len(d)]
      BY <2>1, <2>3, ConcatProperties
    <3>3. Len(d) = lb.cur_pos + 1 /\ Len(d) + Len(b) = lb.len + 1
      BY <1>1, <2>1, <2>3
    <3> QED
      BY <3>1, <3>2, <3>3
  <2>5. ASSUME NEW i \in 1 .. lb.len + 1
        PROVE  s[i] = IF i <= lb.cur_pos THEN lb.result[i - 1]
                      ELSE IF i = lb.cur_pos + 1 THEN c ELSE lb.result[i - 2]
    <3>1. CASE i <= lb.cur_pos
      BY <1>1, <2>1, <2>3, <2>4, <3>1
    <3>2. CASE i = lb.cur_pos + 1
      BY <1>1, <2>3, <2>4, <3>2
    <3>3. CASE i > lb.cur_pos + 1
      <4> DEFINE j == i - (lb.cur_pos + 1)
      <4>1. j \in 1 .. lb.len - lb.cur_pos /\ lb.cur_pos + j = i - 1
        BY <1>1, <3>3
      <4>2. s[i] = Line(lb)[i - 1]
        BY <1>1, <2>1, <2>4, <3>3, <4>1
      <4>3. i - 1 \in 1 .. lb.len /\ i - 1 - 1 = i - 2
        BY <1>1, <3>3
      <4> QED
        BY <1>1, <3>3, <4>2, <4>3
    <3> QED
      BY <1>1, <3>1, <3>2, <3>3
  <2> QED
    BY <2>4, <2>5
<1> HIDE DEF s
<1>8. /\ Line(n) \in Seq(KeyCode) /\ Len(Line(n)) = lb.len + 1
      /\ \A i \in 1 .. lb.len + 1 : Line(n)[i] = n.result[i - 1]
  BY <1>5, <1>6, LineIsSeq
<1>9. ASSUME NEW i \in 1 .. lb.len + 1 PROVE Line(n)[i] = s[i]
  <2>1. i - 1 \in Index
    BY <1>1, Bounds DEF Index
  <2>2. placed[i - 1] = IF i - 1 < lb.cur_pos THEN lb.result[i - 1]
                        ELSE IF i - 1 = lb.cur_pos THEN c ELSE lb.result[i - 2]
    BY <1>1, <1>3, <2>1
  <2> QED
    BY <1>1, <1>5, <1>7, <1>8, <2>2
<1>10. Line(n) = s
  BY <1>7, <1>8, <1>9, SameElements
<1> QED
  BY <1>3, <1>5, <1>6, <1>10 DEF n, s

(* The character at the cursor goes; the null moves with what is behind it.*)
LEMMA Removed ==
  ASSUME NEW lb, LineOk(lb), lb.cur_pos < lb.len
  PROVE  LET n == _remove(lb)
         IN  /\ LineOk(n) /\ n.cur_pos = lb.cur_pos /\ n.len = lb.len - 1
             /\ n.history_pos = lb.history_pos /\ n.cursor_start_x = lb.cursor_start_x
             /\ Line(n) = SubSeq(Line(lb), 1, lb.cur_pos)
                          \o SubSeq(Line(lb), lb.cur_pos + 2, Len(Line(lb)))
<1> DEFINE n == _remove(lb)
           closed == [i \in Index |-> IF i \in lb.cur_pos .. lb.len
                                      THEN lb.result[i + 1] ELSE lb.result[i]]
<1>1. /\ lb.len \in 0 .. MaxLine /\ lb.cur_pos \in 0 .. lb.len
      /\ lb.result \in [Index -> KeyCode \cup {NUL}]
      /\ Line(lb) \in Seq(KeyCode) /\ Len(Line(lb)) = lb.len
      /\ \A i \in 1 .. lb.len : Line(lb)[i] = lb.result[i - 1]
  BY LineIsSeq
<1>2. closed \in [Index -> KeyCode \cup {NUL}]
  <2>1. \A i \in lb.cur_pos .. lb.len : i + 1 \in Index
    BY <1>1, Bounds DEF Index
  <2> QED
    BY <1>1, <2>1
<1>3. n = [lb EXCEPT !.result = closed, !.len = @ - 1]
  BY DEF _remove
<1>4. \A i \in Index : closed[i] = IF i \in lb.cur_pos .. lb.len
                                   THEN lb.result[i + 1] ELSE lb.result[i]
  OBVIOUS
<1> HIDE DEF closed
<1>5. /\ n \in LineBuff /\ n.result = closed /\ n.cur_pos = lb.cur_pos
      /\ n.len = lb.len - 1 /\ n.history_pos = lb.history_pos
      /\ n.cursor_start_x = lb.cursor_start_x
  <2>1. lb \in LineBuff /\ lb.len - 1 \in 0 .. MaxLine
    BY <1>1, Bounds DEF LineOk
  <2>2. n = [result |-> closed, len |-> lb.len - 1, cur_pos |-> lb.cur_pos,
             history_pos |-> lb.history_pos, cursor_start_x |-> lb.cursor_start_x]
    BY <1>3, <2>1 DEF LineBuff
  <2> HIDE DEF n
  <2> QED
    BY <1>2, <2>1, <2>2 DEF LineBuff
<1> HIDE DEF n
<1>6. LineOk(n)
  <2>1. ASSUME NEW i \in 0 .. n.len - 1 PROVE n.result[i] \in KeyCode
    <3>1. i \in Index /\ i \in 0 .. lb.len - 1 /\ i + 1 \in 0 .. lb.len - 1
      BY <1>1, <1>5, Bounds DEF Index
    <3>2. lb.result[i] \in KeyCode /\ lb.result[i + 1] \in KeyCode
      BY <3>1 DEF LineOk
    <3> QED
      BY <1>4, <1>5, <3>1, <3>2
  <2>2. n.result[n.len] = NUL
    <3>1. lb.len - 1 \in Index /\ lb.len - 1 \in lb.cur_pos .. lb.len
      BY <1>1, Bounds DEF Index
    <3>2. lb.len - 1 + 1 = lb.len
      BY <1>1
    <3>3. lb.result[lb.len] = NUL
      BY DEF LineOk
    <3> QED
      BY <1>4, <1>5, <3>1, <3>2, <3>3
  <2> QED
    BY <1>1, <1>5, <2>1, <2>2 DEF LineOk
<1> DEFINE a == SubSeq(Line(lb), 1, lb.cur_pos)
           b == SubSeq(Line(lb), lb.cur_pos + 2, Len(Line(lb)))
<1>7. /\ a \in Seq(KeyCode) /\ Len(a) = lb.cur_pos
      /\ \A i \in 1 .. lb.cur_pos : a[i] = Line(lb)[i]
      /\ b \in Seq(KeyCode) /\ Len(b) = lb.len - lb.cur_pos - 1
      /\ \A i \in 1 .. lb.len - lb.cur_pos - 1 : b[i] = Line(lb)[lb.cur_pos + 1 + i]
  <2> DEFINE k == lb.cur_pos + 1
  <2>1. k \in 0 .. Len(Line(lb)) /\ lb.cur_pos \in 0 .. Len(Line(lb)) /\ lb.cur_pos + 2 = k + 1
    BY <1>1
  <2> HIDE DEF k
  <2>2. /\ SubSeq(Line(lb), k + 1, Len(Line(lb))) \in Seq(KeyCode)
        /\ Len(SubSeq(Line(lb), k + 1, Len(Line(lb)))) = Len(Line(lb)) - k
        /\ \A i \in 1 .. Len(Line(lb)) - k :
             SubSeq(Line(lb), k + 1, Len(Line(lb)))[i] = Line(lb)[k + i]
    BY <1>1, <2>1, Parts
  <2>3. /\ b \in Seq(KeyCode) /\ Len(b) = lb.len - k
        /\ \A i \in 1 .. lb.len - k : b[i] = Line(lb)[k + i]
    BY <1>1, <2>1, <2>2
  <2>4. /\ a \in Seq(KeyCode) /\ Len(a) = lb.cur_pos
        /\ \A i \in 1 .. lb.cur_pos : a[i] = Line(lb)[i]
    BY <1>1, <2>1, Parts
  <2>5. lb.len - k = lb.len - lb.cur_pos - 1
    BY <1>1 DEF k
  <2> HIDE DEF a, b
  <2> QED
    BY <2>3, <2>4, <2>5 DEF k
<1> HIDE DEF a, b
<1>8. /\ a \o b \in Seq(KeyCode) /\ Len(a \o b) = lb.len - 1
      /\ \A i \in 1 .. lb.len - 1 :
           (a \o b)[i] = IF i <= lb.cur_pos THEN a[i] ELSE b[i - lb.cur_pos]
  <2>1. /\ a \o b \in Seq(KeyCode) /\ Len(a \o b) = Len(a) + Len(b)
        /\ \A i \in 1 .. Len(a) + Len(b) :
             (a \o b)[i] = IF i <= Len(a) THEN a[i] ELSE b[i - Len(a)]
    BY <1>7, ConcatProperties
  <2>2. Len(a) = lb.cur_pos /\ Len(a) + Len(b) = lb.len - 1
    BY <1>1, <1>7
  <2> QED
    BY <2>1, <2>2
<1>9. /\ Line(n) \in Seq(KeyCode) /\ Len(Line(n)) = lb.len - 1
      /\ \A i \in 1 .. lb.len - 1 : Line(n)[i] = closed[i - 1]
  BY <1>5, <1>6, LineIsSeq
<1>10. ASSUME NEW i \in 1 .. lb.len - 1 PROVE Line(n)[i] = (a \o b)[i]
  <2>1. i - 1 \in Index /\ i \in 1 .. lb.len /\ i + 1 \in 1 .. lb.len
    BY <1>1, Bounds DEF Index
  <2>2. CASE i <= lb.cur_pos
    <3>1. closed[i - 1] = lb.result[i - 1] /\ a[i] = Line(lb)[i]
      BY <1>1, <1>4, <1>7, <2>1, <2>2
    <3> QED
      BY <1>1, <1>8, <1>9, <2>1, <2>2, <3>1
  <2>3. CASE i > lb.cur_pos
    <3>1. i - 1 \in lb.cur_pos .. lb.len /\ i - 1 + 1 = i
      BY <1>1, <2>3
    <3>2. closed[i - 1] = lb.result[i]
      BY <1>4, <2>1, <3>1
    <3>3. /\ i - lb.cur_pos \in 1 .. lb.len - lb.cur_pos - 1
          /\ lb.cur_pos + 1 + (i - lb.cur_pos) = i + 1 /\ i + 1 - 1 = i
      BY <1>1, <2>3
    <3>4. b[i - lb.cur_pos] = Line(lb)[i + 1]
      BY <1>7, <3>3
    <3>5. Line(lb)[i + 1] = lb.result[i]
      BY <1>1, <2>1, <3>3
    <3> QED
      BY <1>1, <1>8, <1>9, <2>3, <3>2, <3>4, <3>5
  <2>4. i <= lb.cur_pos \/ i > lb.cur_pos
    BY <1>1
  <2> QED
    BY <2>2, <2>3, <2>4
<1>11. Line(n) = a \o b
  BY <1>8, <1>9, <1>10, SameElements
<1> QED
  BY <1>5, <1>6, <1>11 DEF n, a, b

(* A line of the history is the string that the array holds after it.      *)
LEMMA Recalled ==
  ASSUME NEW lb, LineOk(lb), NEW pos \in Nat, NEW str \in Lines
  PROVE  LET n == Recall(lb, pos, str)
         IN  /\ LineOk(n) /\ n.cur_pos = Len(str) /\ n.len = Len(str)
             /\ n.history_pos = pos /\ n.cursor_start_x = lb.cursor_start_x
             /\ Line(n) = str
<1> DEFINE n == Recall(lb, pos, str)
           copied == strcpy(lb.result, str)
<1>1. /\ lb.result \in [Index -> KeyCode \cup {NUL}]
      /\ str \in Seq(KeyCode) /\ Len(str) \in 0 .. MaxLine
      /\ \A i \in 1 .. Len(str) : str[i] \in KeyCode
  BY LineIsSeq, Bounds DEF Lines
<1>2. /\ copied \in [Index -> KeyCode \cup {NUL}]
      /\ \A i \in Index : copied[i] = IF i < Len(str) THEN str[i + 1]
                                      ELSE IF i = Len(str) THEN NUL ELSE lb.result[i]
  <2>1. \A i \in Index : i < Len(str) => str[i + 1] \in KeyCode
    BY <1>1, Bounds DEF Index
  <2> QED
    BY <1>1, <2>1 DEF strcpy
<1>3. n = [lb EXCEPT !.result = copied, !.len = Len(str), !.cur_pos = Len(str),
                     !.history_pos = pos]
  BY DEF Recall
<1> HIDE DEF copied
<1>4. /\ n \in LineBuff /\ n.result = copied /\ n.cur_pos = Len(str)
      /\ n.len = Len(str) /\ n.history_pos = pos
      /\ n.cursor_start_x = lb.cursor_start_x
  <2>1. lb \in LineBuff
    BY DEF LineOk
  <2>2. n = [result |-> copied, len |-> Len(str), cur_pos |-> Len(str),
             history_pos |-> pos, cursor_start_x |-> lb.cursor_start_x]
    BY <1>3, <2>1 DEF LineBuff
  <2> HIDE DEF n
  <2> QED
    BY <1>1, <1>2, <2>1, <2>2 DEF LineBuff
<1> HIDE DEF n
<1>5. LineOk(n)
  <2>1. ASSUME NEW i \in 0 .. n.len - 1 PROVE n.result[i] \in KeyCode
    <3>1. i \in Index /\ i < Len(str) /\ i + 1 \in 1 .. Len(str)
      BY <1>1, <1>4, Bounds DEF Index
    <3> QED
      BY <1>1, <1>2, <1>4, <3>1
  <2>2. n.result[n.len] = NUL
    <3>1. Len(str) \in Index
      BY <1>1, Bounds DEF Index
    <3> QED
      BY <1>1, <1>2, <1>4, <3>1
  <2> QED
    BY <1>1, <1>4, <2>1, <2>2 DEF LineOk
<1>6. /\ Line(n) \in Seq(KeyCode) /\ Len(Line(n)) = Len(str)
      /\ \A i \in 1 .. Len(str) : Line(n)[i] = copied[i - 1]
  BY <1>4, <1>5, LineIsSeq
<1>7. ASSUME NEW i \in 1 .. Len(str) PROVE Line(n)[i] = str[i]
  <2>1. i - 1 \in Index /\ i - 1 < Len(str) /\ i - 1 + 1 = i
    BY <1>1, Bounds DEF Index
  <2> QED
    BY <1>2, <1>6, <2>1
<1>8. Line(n) = str
  BY <1>1, <1>6, <1>7, SameElements
<1> QED
  BY <1>4, <1>5, <1>8 DEF n

-----------------------------------------------------------------------------
(* The ring of the input under the bytes of a line.                        *)
Rings == {r \in R!RingType : r.full => r.head = r.tail}

LEMMA RingIsRing ==
  ASSUME NEW b
  PROVE  /\ b \in Rings <=> R!Sound(b)
         /\ R!Contents(b) = Contents(b) /\ R!Held(b) = Held(b)
         /\ R!cbuff8_empty(b) = cbuff8_empty(b) /\ R!cbuff8_get(b) = cbuff8_get(b)
         /\ \A v : R!cbuff8_put(b, v) = cbuff8_put(b, v)
<1>1. b \in Rings <=> R!Sound(b)
  BY DEF Rings, R!Sound
<1>2. R!cbuff8_empty(b) = cbuff8_empty(b) /\ R!cbuff8_get(b) = cbuff8_get(b)
  BY DEF R!cbuff8_empty, cbuff8_empty, R!cbuff8_get, cbuff8_get
<1>3. \A v : R!cbuff8_put(b, v) = cbuff8_put(b, v)
  BY DEF R!cbuff8_put, cbuff8_put
<1>4. R!Held(b) = Held(b)
  BY <1>2 DEF R!Held, Held, R!cbuff8_count, cbuff8_count
<1>5. \A i : R!Slot(b, i) = Slot(b, i)
  BY DEF R!Slot, Slot
<1>6. R!Contents(b) = Contents(b)
  BY <1>4, <1>5 DEF R!Contents, Contents
<1> QED
  BY <1>1, <1>2, <1>3, <1>4, <1>6

(* What a put does to the contents, and what a get.                        *)
LEMMA PutContents ==
  ASSUME NEW b \in Rings, NEW v \in KeyCode
  PROVE  /\ cbuff8_put(b, v) \in Rings
         /\ Contents(b) \in Seq(KeyCode \cup {NUL}) /\ Len(Contents(b)) <= InputLen
         /\ Contents(cbuff8_put(b, v)) =
              IF Len(Contents(b)) = InputLen THEN Append(Tail(Contents(b)), v)
              ELSE Append(Contents(b), v)
<1>1. R!Sound(b) /\ v \in R!Byte
  BY RingIsRing DEF R!Byte
<1>2. /\ R!Contents(b) \in Seq(R!Byte) /\ Len(R!Contents(b)) = R!Held(b)
  BY <1>1, R!ContentsIsSeq, Bounds DEF R!Sound
<1>3. /\ b.head \in 0 .. InputLen - 1 /\ b.tail \in 0 .. InputLen - 1
      /\ R!Held(b) = IF ~b.full /\ b.head = b.tail THEN 0
                     ELSE R!CountAt(InputLen, b.head, b.tail)
      /\ R!Held(b) \in 0 .. InputLen
  BY <1>1, R!RingFacts, Bounds DEF R!Sound
<1>4. R!Held(b) = InputLen <=> b.full
  BY <1>1, <1>3, Bounds DEF R!CountAt, R!Sound
<1>5. R!Contents(R!cbuff8_put(b, v)) =
        IF b.full THEN Append(Tail(R!Contents(b)), v) ELSE Append(R!Contents(b), v)
  BY <1>1, R!PutAppends, R!PutDrops, Bounds
<1>6. R!Sound(R!cbuff8_put(b, v))
  BY <1>1, R!PutFacts, Bounds DEF R!Sound
<1>7. cbuff8_put(b, v) \in Rings
  BY <1>6, RingIsRing
<1>8. Contents(cbuff8_put(b, v)) = R!Contents(R!cbuff8_put(b, v))
  BY RingIsRing
<1>9. Contents(b) = R!Contents(b)
  BY RingIsRing
<1> QED
  BY <1>2, <1>3, <1>4, <1>5, <1>7, <1>8, <1>9, Bounds DEF R!Byte

LEMMA GetContents ==
  ASSUME NEW b \in Rings, ~cbuff8_empty(b)
  PROVE  /\ cbuff8_get(b) \in Rings /\ Contents(b) # <<>>
         /\ Contents(cbuff8_get(b)) = Tail(Contents(b))
<1>1. R!Sound(b) /\ ~R!cbuff8_empty(b)
  BY RingIsRing
<1>2. /\ R!Contents(b) # <<>>
      /\ R!Contents(R!cbuff8_get(b)) = Tail(R!Contents(b))
  BY <1>1, R!GetTakes, Bounds
<1>3. R!Sound(R!cbuff8_get(b))
  BY <1>1, R!GetFacts, Bounds DEF R!Sound
<1> QED
  BY <1>2, <1>3, RingIsRing

(* The fold of puts, step by step.                                         *)
LEMMA PutsInSteps ==
  ASSUME NEW b \in Rings, NEW s \in Seq(KeyCode)
  PROVE  \E h : /\ h[0] = b /\ h[Len(s)] = FoldLeft(cbuff8_put, b, s)
                /\ \A i \in 1 .. Len(s) : h[i] = cbuff8_put(h[i - 1], s[i])
<1> DEFINE n == Len(s)
           It(g) == [S \in SUBSET (1 .. n) |->
                       IF S = {} THEN b ELSE cbuff8_put(g[S \ {Max(S)}], s[Max(S)])]
           F == [i \in 1 .. n |-> [r \in Rings |-> cbuff8_put(r, s[i])]]
           g == CHOOSE f : f = It(f)
<1>1. n \in Nat /\ DOMAIN s = 1 .. n /\ \A i \in 1 .. n : s[i] \in KeyCode
  OBVIOUS
<1> HIDE DEF n
<1>2. F \in [1 .. n -> [Rings -> Rings]]
  BY <1>1, PutContents
<1>3. \E f \in [SUBSET (1 .. n) -> Rings] : Iterates(f, F, n, b)
  BY <1>1, <1>2, FoldExists DEF Folds
<1>4. \E f : f = It(f)
  <2>1. PICK f \in [SUBSET (1 .. n) -> Rings] :
          f = [S \in SUBSET (1 .. n) |-> IF S = {} THEN b ELSE F[Max(S)][f[S \ {Max(S)}]]]
    BY <1>3 DEF Iterates
  <2>2. ASSUME NEW S \in SUBSET (1 .. n), S # {}
        PROVE  F[Max(S)][f[S \ {Max(S)}]] = cbuff8_put(f[S \ {Max(S)}], s[Max(S)])
    <3>1. Max(S) \in 1 .. n
      BY <1>1, <2>2, MaxOfSome
    <3>2. f[S \ {Max(S)}] \in Rings
      OBVIOUS
    <3> QED
      BY <3>1, <3>2
  <2>3. f = It(f)
    BY <2>1, <2>2
  <2> QED
    BY <2>3
<1>5. g = It(g)
  <2> HIDE DEF It
  <2> QED
    BY <1>4
<1>6. FoldLeft(cbuff8_put, b, s) = g[1 .. n]
  BY <1>1 DEF FoldLeft, MapThenFoldSet
<1> HIDE DEF g
<1>7. g[{}] = b
  BY <1>5
<1>8. ASSUME NEW i \in 1 .. n PROVE g[1 .. i] = cbuff8_put(g[1 .. i - 1], s[i])
  <2>1. i \in Nat \ {0} /\ 1 .. i \in SUBSET (1 .. n) /\ 1 .. i # {}
    BY <1>1, Segment
  <2>2. Max(1 .. i) = i /\ (1 .. i) \ {Max(1 .. i)} = 1 .. (i - 1)
    BY <2>1, MaxOfSegment
  <2>3. g[1 .. i] = cbuff8_put(g[(1 .. i) \ {Max(1 .. i)}], s[Max(1 .. i)])
    BY <1>5, <2>1
  <2> QED
    BY <2>2, <2>3
<1> DEFINE h == [i \in 0 .. n |-> g[1 .. i]]
<1>9. h[0] = b /\ h[n] = FoldLeft(cbuff8_put, b, s)
  <2>1. 1 .. 0 = {} /\ 0 \in 0 .. n /\ n \in 0 .. n
    BY <1>1
  <2> QED
    BY <1>6, <1>7, <2>1
<1>10. \A i \in 1 .. n : h[i] = cbuff8_put(h[i - 1], s[i])
  BY <1>1, <1>8
<1> HIDE DEF h
<1> QED
  BY <1>9, <1>10 DEF n

(* The newest of a sequence, after one more value.                         *)
LEMMA NewestElements ==
  ASSUME NEW V, NEW c \in Seq(V)
  PROVE  /\ LI!Newest(c) \in Seq(V)
         /\ Len(LI!Newest(c)) = IF Len(c) <= InputLen THEN Len(c) ELSE InputLen
         /\ \A i \in 1 .. Len(LI!Newest(c)) :
              LI!Newest(c)[i] = c[Len(c) - Len(LI!Newest(c)) + i]
<1>1. Len(c) \in Nat
  OBVIOUS
<1>2. CASE Len(c) <= InputLen
  <2>1. LI!Newest(c) = c
    BY <1>2 DEF LI!Newest
  <2> QED
    BY <1>1, <1>2, <2>1
<1>3. CASE ~(Len(c) <= InputLen)
  <2> DEFINE k == Len(c) - InputLen
  <2>1. k \in 0 .. Len(c) /\ Len(c) - k = InputLen
    BY <1>1, <1>3, Bounds
  <2>2. LI!Newest(c) = SubSeq(c, k + 1, Len(c))
    BY <1>3 DEF LI!Newest
  <2> HIDE DEF k
  <2>3. /\ SubSeq(c, k + 1, Len(c)) \in Seq(V)
        /\ Len(SubSeq(c, k + 1, Len(c))) = Len(c) - k
        /\ \A i \in 1 .. Len(c) - k : SubSeq(c, k + 1, Len(c))[i] = c[k + i]
    BY <2>1, Parts
  <2>4. Len(c) - InputLen = k
    BY DEF k
  <2> QED
    BY <1>3, <2>1, <2>2, <2>3, <2>4
<1> QED
  BY <1>2, <1>3

LEMMA NewestStep ==
  ASSUME NEW V, NEW c \in Seq(V), NEW v \in V
  PROVE  LI!Newest(Append(c, v)) =
           IF Len(LI!Newest(c)) = InputLen THEN Append(Tail(LI!Newest(c)), v)
           ELSE Append(LI!Newest(c), v)
<1> DEFINE d == Append(c, v)
           p == LI!Newest(c)
           q == LI!Newest(d)
<1>1. /\ Len(c) \in Nat /\ d \in Seq(V) /\ Len(d) = Len(c) + 1
      /\ \A i \in 1 .. Len(c) : d[i] = c[i]
      /\ d[Len(c) + 1] = v
  OBVIOUS
<1> HIDE DEF d
<1>2. /\ p \in Seq(V) /\ Len(p) = IF Len(c) <= InputLen THEN Len(c) ELSE InputLen
      /\ \A i \in 1 .. Len(p) : p[i] = c[Len(c) - Len(p) + i]
      /\ q \in Seq(V) /\ Len(q) = IF Len(d) <= InputLen THEN Len(d) ELSE InputLen
      /\ \A i \in 1 .. Len(q) : q[i] = d[Len(d) - Len(q) + i]
  BY <1>1, NewestElements
<1> HIDE DEF p, q
<1>3. CASE Len(p) = InputLen
  <2> DEFINE r == Append(Tail(p), v)
  <2>1. p # <<>> /\ Len(q) = InputLen /\ Len(c) >= InputLen
    BY <1>1, <1>2, <1>3, Bounds
  <2>2. /\ Tail(p) \in Seq(V) /\ Len(Tail(p)) = InputLen - 1
        /\ \A i \in 1 .. InputLen - 1 : Tail(p)[i] = p[i + 1]
    BY <1>2, <1>3, <2>1, HeadTailProperties
  <2>3. /\ r \in Seq(V) /\ Len(r) = InputLen /\ r[InputLen] = v
        /\ \A i \in 1 .. InputLen - 1 : r[i] = Tail(p)[i]
    BY <2>2, Bounds
  <2> HIDE DEF r
  <2>4. ASSUME NEW i \in 1 .. InputLen PROVE q[i] = r[i]
    <3>1. q[i] = d[Len(c) + 1 - InputLen + i]
      <4>1. q[i] = d[Len(d) - Len(q) + i]
        BY <1>2, <2>1
      <4> QED
        BY <1>1, <2>1, <4>1
    <3>2. CASE i = InputLen
      BY <1>1, <2>3, <3>1, <3>2, Bounds
    <3>3. CASE i # InputLen
      <4>1. i \in 1 .. InputLen - 1 /\ i + 1 \in 1 .. InputLen
            /\ Len(c) + 1 - InputLen + i \in 1 .. Len(c)
            /\ Len(c) + 1 - InputLen + i = Len(c) - InputLen + (i + 1)
        BY <1>1, <2>1, <3>3, Bounds
      <4>2. r[i] = p[i + 1] /\ p[i + 1] = c[Len(c) - InputLen + (i + 1)]
        BY <1>2, <1>3, <2>2, <2>3, <4>1
      <4> QED
        BY <1>1, <3>1, <4>1, <4>2
    <3> QED
      BY <3>2, <3>3
  <2>5. q = r
    BY <1>2, <2>1, <2>3, <2>4, SameElements
  <2> QED
    BY <1>3, <2>5 DEF p, q, r, d
<1>4. CASE Len(p) # InputLen
  <2> DEFINE r == Append(p, v)
  <2>1. Len(c) < InputLen /\ Len(p) = Len(c) /\ Len(q) = Len(c) + 1
    BY <1>1, <1>2, <1>4, Bounds
  <2>2. /\ r \in Seq(V) /\ Len(r) = Len(c) + 1 /\ r[Len(c) + 1] = v
        /\ \A i \in 1 .. Len(c) : r[i] = p[i]
    BY <1>2, <2>1
  <2> HIDE DEF r
  <2>3. ASSUME NEW i \in 1 .. Len(c) + 1 PROVE q[i] = r[i]
    <3>1. q[i] = d[i]
      BY <1>1, <1>2, <2>1
    <3>2. CASE i = Len(c) + 1
      BY <1>1, <2>2, <3>1, <3>2
    <3>3. CASE i # Len(c) + 1
      <4>1. i \in 1 .. Len(c) /\ Len(c) - Len(p) + i = i
        BY <1>1, <2>1, <3>3
      <4> QED
        BY <1>1, <1>2, <2>1, <2>2, <3>1, <4>1
    <3> QED
      BY <3>2, <3>3
  <2>4. q = r
    BY <1>2, <2>1, <2>2, <2>3, SameElements
  <2> QED
    BY <1>4, <2>4 DEF p, q, r, d
<1> QED
  BY <1>3, <1>4

(* After the bytes of a line the ring holds the newest of what it held and *)
(* of them: nothing is lost but the oldest, whatever the line's length.    *)
LEMMA PutsKeepNewest ==
  ASSUME NEW b \in Rings, NEW s \in Seq(KeyCode)
  PROVE  /\ FoldLeft(cbuff8_put, b, s) \in Rings
         /\ Contents(FoldLeft(cbuff8_put, b, s)) = LI!Newest(Contents(b) \o s)
<1> DEFINE n == Len(s)
           C == KeyCode \cup {NUL}
           c == Contents(b)
           k == Len(c)
           t == c \o s
<1>1. PICK h : /\ h[0] = b /\ h[n] = FoldLeft(cbuff8_put, b, s)
               /\ \A i \in 1 .. n : h[i] = cbuff8_put(h[i - 1], s[i])
  BY PutsInSteps
<1>2. /\ n \in Nat /\ s \in Seq(C) /\ \A i \in 1 .. n : s[i] \in KeyCode
      /\ c \in Seq(C) /\ k \in Nat /\ k <= InputLen
  <2>1. KeyCode # {}
    BY DEF KeyCode
  <2>2. c \in Seq(C) /\ k <= InputLen
    BY <2>1, PutContents
  <2> QED
    BY <2>2, SeqMonotonic
<1> HIDE DEF n, C, c
<1>3. /\ t \in Seq(C) /\ Len(t) = k + n
      /\ \A i \in 1 .. k : t[i] = c[i]
      /\ \A i \in 1 .. n : t[k + i] = s[i]
  <2>1. /\ t \in Seq(C) /\ Len(t) = k + Len(s)
        /\ \A i \in 1 .. k + Len(s) : t[i] = IF i <= k THEN c[i] ELSE s[i - k]
    BY <1>2, ConcatProperties
  <2>2. Len(s) = n
    BY DEF n
  <2> HIDE DEF t, k
  <2> QED
    BY <1>2, <2>1, <2>2
<1> HIDE DEF t, k
<1> DEFINE T == {i \in 0 .. n : h[i] \in Rings /\ Contents(h[i]) = LI!Newest(SubSeq(t, 1, k + i))}
<1>4. 0 \in T
  <2>1. SubSeq(t, 1, k) = c
    <3>1. /\ SubSeq(t, 1, k) \in Seq(C) /\ Len(SubSeq(t, 1, k)) = k
          /\ \A i \in 1 .. k : SubSeq(t, 1, k)[i] = t[i]
      BY <1>2, <1>3, Parts
    <3>2. Len(c) = k
      BY DEF k
    <3> QED
      BY <1>2, <1>3, <3>1, <3>2, SameElements
  <2>2. LI!Newest(c) = c
    BY <1>2 DEF LI!Newest, k
  <2>3. k + 0 = k /\ 0 \in 0 .. n
    BY <1>2
  <2> QED
    BY <1>1, <2>1, <2>2, <2>3 DEF c
<1>5. ASSUME NEW i \in 1 .. n, i - 1 \in T PROVE i \in T
  <2> DEFINE u == SubSeq(t, 1, k + (i - 1))
             w == SubSeq(t, 1, k + i)
  <2>1. /\ h[i] = cbuff8_put(h[i - 1], s[i]) /\ s[i] \in KeyCode /\ s[i] \in C
        /\ h[i - 1] \in Rings /\ Contents(h[i - 1]) = LI!Newest(u)
    BY <1>1, <1>2, <1>5 DEF C
  <2>2. /\ u \in Seq(C) /\ Len(u) = k + (i - 1)
        /\ \A j \in 1 .. k + (i - 1) : u[j] = t[j]
        /\ w \in Seq(C) /\ Len(w) = k + i
        /\ \A j \in 1 .. k + i : w[j] = t[j]
    <3>1. k + (i - 1) \in 0 .. Len(t) /\ k + i \in 0 .. Len(t)
      BY <1>2, <1>3
    <3> QED
      BY <1>3, <3>1, Parts
  <2> HIDE DEF u, w
  <2>3. w = Append(u, s[i])
    <3> DEFINE a == Append(u, s[i])
    <3>1. /\ a \in Seq(C) /\ Len(a) = k + i /\ a[k + i] = s[i]
          /\ \A j \in 1 .. k + (i - 1) : a[j] = u[j]
      BY <1>2, <2>1, <2>2
    <3> HIDE DEF a
    <3>2. ASSUME NEW j \in 1 .. k + i PROVE w[j] = a[j]
      <4>1. CASE j = k + i
        BY <1>2, <1>3, <2>2, <3>1, <4>1
      <4>2. CASE j # k + i
        <5>1. j \in 1 .. k + (i - 1)
          BY <1>2, <4>2
        <5> QED
          BY <2>2, <3>1, <5>1
      <4> QED
        BY <4>1, <4>2
    <3>3. w = a
      BY <2>2, <3>1, <3>2, SameElements
    <3> QED
      BY <3>3 DEF a
  <2>4. LI!Newest(w) = IF Len(LI!Newest(u)) = InputLen THEN Append(Tail(LI!Newest(u)), s[i])
                       ELSE Append(LI!Newest(u), s[i])
    BY <2>1, <2>2, <2>3, NewestStep
  <2>5. h[i] \in Rings /\ Contents(h[i]) = LI!Newest(w)
    BY <2>1, <2>4, PutContents
  <2>6. i \in 0 .. n
    BY <1>2
  <2> QED
    BY <2>5, <2>6 DEF w
<1>6. n \in T
  <2> HIDE DEF T
  <2>1. \A i \in 1 .. n : i - 1 \in T => i \in T
    BY <1>5
  <2>2. \A i \in 0 .. n : i \in T
    BY <1>2, <1>4, <2>1, InductionTo
  <2> QED
    BY <1>2, <2>2
<1>7. SubSeq(t, 1, k + n) = t
  <2>1. /\ SubSeq(t, 1, k + n) \in Seq(C) /\ Len(SubSeq(t, 1, k + n)) = k + n
        /\ \A i \in 1 .. k + n : SubSeq(t, 1, k + n)[i] = t[i]
    BY <1>2, <1>3, Parts
  <2> QED
    BY <1>3, <2>1, SameElements
<1> QED
  BY <1>1, <1>6, <1>7 DEF t, c

-----------------------------------------------------------------------------
(* The keys: what a byte is translated to.  A character is only typed with *)
(* a key of one byte, so the line is not full then.                        *)
EditKey == {"KEY_UP", "KEY_DOWN", "KEY_LEFT", "KEY_RIGHT", "KEY_DEL", "KEY_BACKSPACE"}

LEMMA Translated ==
  ASSUME NEW st, NEW w \in BOOLEAN, NEW c \in ScanCode \ Modifier
  PROVE  LET code == _translate(st, w, c)
         IN  /\ code \in KeyCode
             /\ w /\ code \notin {NoKey, NewLine} => code \in EditKey
             /\ ~w /\ c \in {"enter", "backspace"} => code \in EditKey \cup {NewLine}
<1>1. /\ c \in {"a", "enter", "backspace", "8", "2", "4", "6", "."}
      /\ c \in ScanCode /\ "a" \in ScanCode
  BY DEF ScanCode, Modifier
<1>2. CASE w
  <2>1. _translate(st, w, c) = kb_sc_ascii_2byte[c]
    BY <1>2 DEF _translate
  <2>2. kb_sc_ascii_2byte[c] \in EditKey \cup {NoKey, NewLine}
    BY <1>1 DEF kb_sc_ascii_2byte, EditKey, NoKey, NewLine
  <2>3. kb_sc_ascii_2byte[c] \in KeyCode
    BY <1>1 DEF KeyCode
  <2> QED
    BY <1>2, <2>1, <2>2, <2>3
<1>3. CASE ~w
  <2>1. _translate(st, w, c) \in {kb_sc_ascii_upper[c], kb_sc_ascii_lower[c]}
    BY <1>3 DEF _translate
  <2>2. kb_sc_ascii_upper[c] = IF c = "a" THEN "A" ELSE kb_sc_ascii_lower[c]
    BY <1>1 DEF kb_sc_ascii_upper, kb_sc_ascii_lower
  <2>3. kb_sc_ascii_lower[c] \in KeyCode /\ "A" \in KeyCode
    BY <1>1 DEF KeyCode
  <2>4. c \in {"enter", "backspace"} => kb_sc_ascii_lower[c] \in EditKey \cup {NewLine}
    BY <1>1 DEF kb_sc_ascii_lower, EditKey, NewLine
  <2> QED
    BY <1>3, <2>1, <2>2, <2>3, <2>4
<1> QED
  BY <1>2, <1>3

(* What a key does to the line, as LineInput has it.                       *)
Left(lb, n) == SubSeq(Line(lb), 1, n)
Right(lb, n) == SubSeq(Line(lb), n + 1, Len(Line(lb)))
TypedIn(lb, n, c) ==
  /\ n.cur_pos = lb.cur_pos + 1 /\ n.history_pos = lb.history_pos
  /\ Line(n) = Left(lb, lb.cur_pos) \o <<c>> \o Right(lb, lb.cur_pos)
ErasedAt(lb, n, e) ==
  /\ e \in 1 .. lb.len /\ n.cur_pos = e - 1 /\ n.history_pos = lb.history_pos
  /\ Line(n) = Left(lb, e - 1) \o Right(lb, e)
MovedTo(lb, n, m) ==
  /\ m \in 0 .. lb.len /\ n.cur_pos = m /\ n.history_pos = lb.history_pos
  /\ Line(n) = Line(lb)
CalledUp(n, m, his) ==
  /\ m \in 0 .. Len(his) /\ n.history_pos = m /\ n.cur_pos = Len(Line(n))
  /\ Line(n) = IF m = 0 THEN <<>> ELSE his[m]
EditedAs(lb, n, his) ==
  \/ n = lb
  \/ \E c \in KeyCode : TypedIn(lb, n, c)
  \/ ErasedAt(lb, n, lb.cur_pos) \/ ErasedAt(lb, n, lb.cur_pos + 1)
  \/ MovedTo(lb, n, lb.cur_pos - 1) \/ MovedTo(lb, n, lb.cur_pos + 1)
  \/ CalledUp(n, lb.history_pos - 1, his) \/ CalledUp(n, lb.history_pos + 1, his)

LEMMA EditRefines ==
  ASSUME NEW lb, LineOk(lb), NEW his \in Seq(Lines), lb.history_pos <= Len(his),
         NEW code \in KeyCode, code \notin EditKey => lb.len < MaxLine
  PROVE  LET n == lb_add_code(lb, code, his)
         IN  /\ LineOk(n) /\ n.history_pos <= Len(his)
             /\ n.cursor_start_x = lb.cursor_start_x
             /\ EditedAs(lb, n, his)
<1> DEFINE n == lb_add_code(lb, code, his)
<1>1. /\ lb.len \in 0 .. MaxLine /\ lb.cur_pos \in 0 .. lb.len
      /\ lb.history_pos \in 0 .. Len(his) /\ Len(his) \in Nat
      /\ lb \in LineBuff /\ MaxLine \in Nat
  BY LineIsSeq, Bounds DEF LineOk, LineBuff
<1>2. \A i \in 1 .. Len(his) : his[i] \in Lines
  OBVIOUS
<1>3. <<>> \in Lines
  BY Bounds DEF Lines
<1>4. CASE code = "KEY_UP"
  <2>1. CASE lb.history_pos = Len(his)
    <3>1. n = lb
      BY <1>4, <2>1 DEF lb_add_code
    <3> QED
      BY <3>1 DEF EditedAs
  <2>2. CASE lb.history_pos # Len(his)
    <3> DEFINE m == lb.history_pos + 1
    <3>1. m \in 1 .. Len(his) /\ m \in Nat
      BY <1>1, <2>2
    <3>2. n = Recall(lb, m, his[m])
      BY <1>4, <2>2 DEF lb_add_code, con_his_get
    <3> HIDE DEF n, m
    <3>3. /\ LineOk(n) /\ n.cur_pos = Len(his[m]) /\ n.history_pos = m
          /\ n.cursor_start_x = lb.cursor_start_x /\ Line(n) = his[m]
      BY <1>2, <3>1, <3>2, Recalled
    <3>4. CalledUp(n, m, his)
      BY <3>1, <3>3 DEF CalledUp
    <3> QED
      BY <1>1, <3>1, <3>3, <3>4 DEF EditedAs, m, n
  <2> QED
    BY <2>1, <2>2
<1>5. CASE code = "KEY_DOWN"
  <2>1. CASE lb.history_pos = 0
    <3>1. n = lb
      BY <1>5, <2>1 DEF lb_add_code
    <3> QED
      BY <3>1 DEF EditedAs
  <2>2. CASE lb.history_pos # 0
    <3> DEFINE m == lb.history_pos - 1
               str == IF m = 0 THEN <<>> ELSE his[m]
    <3>1. m \in 0 .. Len(his) /\ m \in Nat
      BY <1>1, <2>2
    <3>2. str \in Lines
      BY <1>1, <1>2, <1>3, <3>1
    <3>3. n = Recall(lb, m, str)
      <4>1. (lb.history_pos = 1) <=> (m = 0)
        BY <1>1
      <4>2. lb.history_pos - 2 + 1 = m
        BY <1>1
      <4> QED
        BY <1>5, <2>2, <4>1, <4>2 DEF lb_add_code, con_his_get
    <3> HIDE DEF n, m, str
    <3>4. /\ LineOk(n) /\ n.cur_pos = Len(str) /\ n.history_pos = m
          /\ n.cursor_start_x = lb.cursor_start_x /\ Line(n) = str
      BY <3>1, <3>2, <3>3, Recalled
    <3>5. CalledUp(n, m, his)
      BY <3>1, <3>4 DEF CalledUp, str
    <3> QED
      BY <1>1, <3>1, <3>4, <3>5 DEF EditedAs, m, n
  <2> QED
    BY <2>1, <2>2
<1>6. CASE code = "KEY_BACKSPACE"
  <2>1. CASE lb.cur_pos = 0
    <3>1. n = lb
      BY <1>6, <2>1 DEF lb_add_code
    <3> QED
      BY <1>1, <3>1 DEF EditedAs
  <2>2. CASE lb.cur_pos # 0
    <3> DEFINE at == [lb EXCEPT !.cur_pos = @ - 1]
    <3>1. /\ at \in LineBuff /\ at.cur_pos = lb.cur_pos - 1 /\ at.len = lb.len
          /\ at.result = lb.result /\ at.history_pos = lb.history_pos
          /\ at.cursor_start_x = lb.cursor_start_x
      BY <1>1, <2>2 DEF LineBuff
    <3>2. n = _remove(at)
      BY <1>6, <2>2 DEF lb_add_code
    <3> HIDE DEF n, at
    <3>3. LineOk(at) /\ at.cur_pos < at.len /\ Line(at) = Line(lb)
      BY <1>1, <2>2, <3>1 DEF LineOk, Line
    <3>4. /\ LineOk(n) /\ n.cur_pos = at.cur_pos /\ n.history_pos = at.history_pos
          /\ n.cursor_start_x = at.cursor_start_x
          /\ Line(n) = SubSeq(Line(lb), 1, at.cur_pos)
                       \o SubSeq(Line(lb), at.cur_pos + 2, Len(Line(lb)))
      BY <3>2, <3>3, Removed
    <3>5. at.cur_pos + 2 = lb.cur_pos + 1 /\ lb.cur_pos \in 1 .. lb.len
      BY <1>1, <2>2, <3>1
    <3>6. ErasedAt(lb, n, lb.cur_pos)
      BY <3>1, <3>4, <3>5 DEF ErasedAt, Left, Right
    <3> QED
      BY <1>1, <3>1, <3>4, <3>6 DEF EditedAs, n
  <2> QED
    BY <2>1, <2>2
<1>7. CASE code = "KEY_DEL"
  <2>1. CASE ~(lb.cur_pos < lb.len)
    <3>1. n = lb
      BY <1>7, <2>1 DEF lb_add_code
    <3> QED
      BY <1>1, <3>1 DEF EditedAs
  <2>2. CASE lb.cur_pos < lb.len
    <3>1. n = _remove(lb)
      BY <1>7, <2>2 DEF lb_add_code
    <3> HIDE DEF n
    <3>2. /\ LineOk(n) /\ n.cur_pos = lb.cur_pos /\ n.history_pos = lb.history_pos
          /\ n.cursor_start_x = lb.cursor_start_x
          /\ Line(n) = SubSeq(Line(lb), 1, lb.cur_pos)
                       \o SubSeq(Line(lb), lb.cur_pos + 2, Len(Line(lb)))
      BY <2>2, <3>1, Removed
    <3> DEFINE e == lb.cur_pos + 1
    <3>3. e \in 1 .. lb.len /\ e - 1 = lb.cur_pos /\ e + 1 = lb.cur_pos + 2
      BY <1>1, <2>2
    <3> HIDE DEF e
    <3>4. ErasedAt(lb, n, e)
      BY <3>2, <3>3 DEF ErasedAt, Left, Right
    <3> QED
      BY <1>1, <3>2, <3>4 DEF EditedAs, e, n
  <2> QED
    BY <2>1, <2>2
<1>8. CASE code \in {"KEY_LEFT", "KEY_RIGHT"}
  <2> DEFINE m == IF code = "KEY_LEFT" THEN lb.cur_pos - 1 ELSE lb.cur_pos + 1
  <2>1. CASE m \notin 0 .. lb.len
    <3>1. n = lb
      BY <1>1, <1>8, <2>1 DEF lb_add_code
    <3> QED
      BY <1>1, <3>1 DEF EditedAs
  <2>2. CASE m \in 0 .. lb.len
    <3>1. n = [lb EXCEPT !.cur_pos = m]
      BY <1>1, <1>8, <2>2 DEF lb_add_code
    <3>2. m \in {lb.cur_pos - 1, lb.cur_pos + 1}
      OBVIOUS
    <3> HIDE DEF n, m
    <3>3. /\ n \in LineBuff /\ n.cur_pos = m /\ n.len = lb.len
          /\ n.result = lb.result /\ n.history_pos = lb.history_pos
          /\ n.cursor_start_x = lb.cursor_start_x
      BY <1>1, <2>2, <3>1 DEF LineBuff
    <3>4. LineOk(n) /\ Line(n) = Line(lb)
      BY <1>1, <2>2, <3>3 DEF LineOk, Line
    <3>5. MovedTo(lb, n, m)
      BY <2>2, <3>3, <3>4 DEF MovedTo
    <3> QED
      BY <1>1, <3>2, <3>3, <3>4, <3>5 DEF EditedAs, n
  <2> QED
    BY <2>1, <2>2
<1>9. CASE code \notin EditKey
  <2>1. n = _insert(lb, code)
    BY <1>9 DEF lb_add_code, EditKey
  <2> HIDE DEF n
  <2>2. /\ LineOk(n) /\ n.cur_pos = lb.cur_pos + 1 /\ n.history_pos = lb.history_pos
        /\ n.cursor_start_x = lb.cursor_start_x
        /\ Line(n) = SubSeq(Line(lb), 1, lb.cur_pos) \o <<code>>
                     \o SubSeq(Line(lb), lb.cur_pos + 1, Len(Line(lb)))
    BY <1>9, <2>1, Inserted
  <2>3. TypedIn(lb, n, code)
    BY <2>2 DEF TypedIn, Left, Right
  <2> QED
    BY <1>1, <2>2, <2>3 DEF EditedAs, n
<1> QED
  BY <1>4, <1>5, <1>6, <1>7, <1>8, <1>9 DEF EditKey

-----------------------------------------------------------------------------
(* The screen.                                                             *)
LEMMA ScreenBounds ==
  /\ Width \in Nat \ {0} /\ Height \in Nat \ {0}
  /\ \A y \in 0 .. Height - 1, i \in 0 .. Width - 1 : y * Width + i \in Cell
<1>1. Width \in Nat \ {0} /\ Height \in Nat \ {0}
  BY ScreenAssumption
<1>2. ASSUME NEW y \in 0 .. Height - 1, NEW i \in 0 .. Width - 1
      PROVE  y * Width + i \in Cell
  <2>1. y * Width + Width <= Height * Width
    <3>1. (Height - 1 - y) * Width >= 0
      BY <1>1
    <3>2. (Height - 1 - y) * Width = Height * Width - Width - y * Width
      BY <1>1
    <3> QED
      BY <1>1, <3>1, <3>2
  <2>2. y * Width \in Nat /\ Height * Width = Width * Height /\ Width * Height \in Nat
    BY <1>1
  <2> QED
    BY <1>1, <2>1, <2>2 DEF Cell
<1> QED
  BY <1>1, <1>2

LEMMA PrintedOnScreen ==
  ASSUME NEW s \in Screens, NEW c \in Chars, NEW col, NEW row
  PROVE  /\ dsp_print_char(s, c, col, row) \in Screens
         /\ dsp_print_char(s, c, col, row).x = s.x
         /\ dsp_print_char(s, c, col, row).y = s.y
<1>1. s.video \in [Cell -> Chars]
  BY DEF Screens
<1>2. CASE row * Width + col \in Cell
  <2> DEFINE v == [s.video EXCEPT ![row * Width + col] = c]
  <2>1. v \in [Cell -> Chars]
    BY <1>1, <1>2
  <2>2. dsp_print_char(s, c, col, row) = [s EXCEPT !.video = v]
    BY <1>2 DEF dsp_print_char
  <2> HIDE DEF v
  <2> QED
    BY <1>2, <2>1, <2>2 DEF Screens, v
<1>3. CASE row * Width + col \notin Cell
  BY <1>3 DEF dsp_print_char
<1> QED
  BY <1>2, <1>3

LEMMA PrintedAt ==
  ASSUME NEW s \in Screens, NEW c, NEW col, NEW row, row * Width + col \in Cell
  PROVE  dsp_print_char(s, c, col, row).video = [s.video EXCEPT ![row * Width + col] = c]
  BY DEF dsp_print_char, Screens

LEMMA PutcOnScreen ==
  ASSUME NEW s \in Screens, NEW c \in Chars
  PROVE  con_putc(s, c) \in Screens
<1> DEFINE blank == [i \in Cell |-> Space]
           up == [i \in Cell |-> IF i + Width \in Cell THEN s.video[i + Width] ELSE Space]
<1>1. /\ s.video \in [Cell -> Chars] /\ s.x \in Nat /\ s.y \in 0 .. Height - 1
      /\ s.y \in Int /\ 0 \in 0 .. Height - 1 /\ Height \in Nat \ {0} /\ Width \in Nat \ {0}
  BY ScreenBounds DEF Screens
<1>2. blank \in [Cell -> Chars] /\ Space \in Chars
  BY DEF Chars
<1> HIDE DEF blank
<1>3. CASE c = Esc
  BY <1>3 DEF con_putc, BeginEsc, Screens
<1>4. CASE c # Esc /\ s.esc # "none"
  <2>1. EscChar(s, c) \in Screens
    <3>1. con_clear(s) = [[s EXCEPT !.video = blank] EXCEPT !.x = 0, !.y = 0]
      BY DEF con_clear, dsp_clear_screen, blank
    <3>2. con_clear(s) \in Screens
      <4>1. con_clear(s) = [video |-> blank, x |-> 0, y |-> 0, esc |-> s.esc, ok |-> s.ok]
        BY <3>1 DEF Screens
      <4> QED
        BY <1>1, <1>2, <4>1 DEF Screens
    <3>3. CASE s.esc = "start" /\ c = "c"
      BY <3>2, <3>3 DEF EscChar, Screens
    <3>4. CASE s.esc = "start" /\ c = "["
      BY <3>4 DEF EscChar, Screens
    <3>5. CASE s.esc = "start" /\ c \notin {"c", "["}
      BY <3>5 DEF EscChar, Screens
    <3>6. CASE s.esc = "sgr"
      BY <3>6 DEF EscChar, Screens
    <3>7. CASE s.esc = "other"
      BY <3>7 DEF EscChar, Screens
    <3>8. s.esc \in {"start", "sgr", "other"}
      BY <1>4 DEF Screens
    <3> QED
      BY <3>3, <3>4, <3>5, <3>6, <3>7, <3>8
  <2> QED
    BY <1>4, <2>1 DEF con_putc
<1>5. CASE c # Esc /\ s.esc = "none"
  <2> DEFINE Tall == [video : [Cell -> Chars], x : Nat, y : 0 .. Height,
                      esc : {"none", "start", "sgr", "other"}, ok : BOOLEAN]
             p == Placed(s, c)
             w == Wrapped(p)
  <2>1. p \in Tall /\ (p.y = Height => p.x = 0)
    <3>1. CASE c = "KEY_TAB"
      BY <1>1, <3>1 DEF Placed, Screens
    <3>2. CASE c = "\r"
      BY <1>1, <3>2 DEF Placed, Screens
    <3>3. CASE c = "\n"
      <4>1. p = [video |-> s.video, x |-> 0, y |-> s.y + 1, esc |-> s.esc, ok |-> s.ok]
        BY <3>3 DEF Placed, Screens
      <4> QED
        BY <1>1, <4>1 DEF Screens
    <3>4. CASE c \notin {"KEY_TAB", "\r", "\n"}
      <4> DEFINE t == dsp_print_char(s, c, s.x, s.y)
      <4>1. t \in Screens /\ t.x = s.x /\ t.y = s.y
        <5>1. \A col, row : /\ dsp_print_char(s, c, col, row) \in Screens
                            /\ dsp_print_char(s, c, col, row).x = s.x
                            /\ dsp_print_char(s, c, col, row).y = s.y
          BY PrintedOnScreen
        <5> QED
          BY <5>1
      <4>2. p = [t EXCEPT !.x = @ + 1]
        BY <3>4 DEF Placed
      <4> HIDE DEF t, p
      <4> QED
        BY <1>1, <4>1, <4>2 DEF Screens
    <3> QED
      BY <3>1, <3>2, <3>3, <3>4
  <2> HIDE DEF p
  <2>2. w \in Tall
    <3>1. CASE p.x >= Width
      <4>1. p.x # 0 /\ p.y \in 0 .. Height - 1
        BY <1>1, <2>1, <3>1
      <4>2. w = [video |-> p.video, x |-> 0, y |-> p.y + 1, esc |-> p.esc, ok |-> p.ok]
        BY <2>1, <3>1 DEF Wrapped
      <4> QED
        BY <1>1, <2>1, <4>1, <4>2
    <3>2. CASE ~(p.x >= Width)
      BY <2>1, <3>2 DEF Wrapped
    <3> QED
      BY <3>1, <3>2
  <2> HIDE DEF w
  <2>3. Scrolled(w) \in Screens
    <3>1. CASE w.y = Height
      <4> DEFINE v == [i \in Cell |-> IF i + Width \in Cell THEN w.video[i + Width] ELSE Space]
      <4>1. v \in [Cell -> Chars]
        BY <1>2, <2>2
      <4>2. Scrolled(w) = [[w EXCEPT !.video = v] EXCEPT !.y = Height - 1]
        BY <3>1 DEF Scrolled, dsp_scroll
      <4> HIDE DEF v
      <4>3. Scrolled(w) = [video |-> v, x |-> w.x, y |-> Height - 1, esc |-> w.esc, ok |-> w.ok]
        BY <2>2, <4>2
      <4> QED
        BY <1>1, <2>2, <4>1, <4>3 DEF Screens
    <3>2. CASE w.y # Height
      BY <1>1, <2>2, <3>2 DEF Scrolled, Screens
    <3> QED
      BY <3>1, <3>2
  <2> QED
    BY <1>5, <2>3 DEF con_putc, w, p
<1> QED
  BY <1>3, <1>4, <1>5

(* The fold of the characters of a text.                                   *)
LEMMA TextOnScreen ==
  ASSUME NEW b \in Screens, NEW s \in Seq(Chars)
  PROVE  FoldLeft(con_putc, b, s) \in Screens
<1> DEFINE n == Len(s)
           It(g) == [S \in SUBSET (1 .. n) |->
                       IF S = {} THEN b ELSE con_putc(g[S \ {Max(S)}], s[Max(S)])]
           F == [i \in 1 .. n |-> [r \in Screens |-> con_putc(r, s[i])]]
           g == CHOOSE f : f = It(f)
<1>1. n \in Nat /\ DOMAIN s = 1 .. n /\ \A i \in 1 .. n : s[i] \in Chars
  OBVIOUS
<1> HIDE DEF n
<1>2. F \in [1 .. n -> [Screens -> Screens]]
  BY <1>1, PutcOnScreen
<1>3. \E f \in [SUBSET (1 .. n) -> Screens] : Iterates(f, F, n, b)
  BY <1>1, <1>2, FoldExists DEF Folds
<1>4. \E f : f = It(f)
  <2>1. PICK f \in [SUBSET (1 .. n) -> Screens] :
          f = [S \in SUBSET (1 .. n) |-> IF S = {} THEN b ELSE F[Max(S)][f[S \ {Max(S)}]]]
    BY <1>3 DEF Iterates
  <2>2. ASSUME NEW S \in SUBSET (1 .. n), S # {}
        PROVE  F[Max(S)][f[S \ {Max(S)}]] = con_putc(f[S \ {Max(S)}], s[Max(S)])
    <3>1. Max(S) \in 1 .. n
      BY <1>1, <2>2, MaxOfSome
    <3>2. f[S \ {Max(S)}] \in Screens
      OBVIOUS
    <3> QED
      BY <3>1, <3>2
  <2>3. f = It(f)
    BY <2>1, <2>2
  <2> QED
    BY <2>3
<1>5. g = It(g)
  <2> HIDE DEF It
  <2> QED
    BY <1>4
<1>6. FoldLeft(con_putc, b, s) = g[1 .. n]
  BY <1>1 DEF FoldLeft, MapThenFoldSet
<1> HIDE DEF g
<1> DEFINE T == {i \in 0 .. n : g[1 .. i] \in Screens}
<1>7. 0 \in T
  <2>1. 1 .. 0 = {} /\ 0 \in 0 .. n
    BY <1>1
  <2> QED
    BY <1>5, <2>1
<1>8. ASSUME NEW i \in 1 .. n, i - 1 \in T PROVE i \in T
  <2>1. i \in Nat \ {0} /\ 1 .. i \in SUBSET (1 .. n) /\ 1 .. i # {}
    BY <1>1, Segment
  <2>2. Max(1 .. i) = i /\ (1 .. i) \ {Max(1 .. i)} = 1 .. (i - 1)
    BY <2>1, MaxOfSegment
  <2>3. g[1 .. i] = con_putc(g[(1 .. i) \ {Max(1 .. i)}], s[Max(1 .. i)])
    BY <1>5, <2>1
  <2>4. g[1 .. i] = con_putc(g[1 .. (i - 1)], s[i])
    BY <2>2, <2>3
  <2>5. g[1 .. (i - 1)] \in Screens
    BY <1>8
  <2> QED
    BY <1>1, <2>4, <2>5, PutcOnScreen
<1>9. n \in T
  <2> HIDE DEF T
  <2>1. \A i \in 1 .. n : i - 1 \in T => i \in T
    BY <1>8
  <2>2. \A i \in 0 .. n : i \in T
    BY <1>1, <1>7, <2>1, InductionTo
  <2> QED
    BY <1>1, <2>2
<1> QED
  BY <1>6, <1>9

-----------------------------------------------------------------------------
(* What a byte of a key does to the line: nothing, no more than to note    *)
(* where an empty line starts, the end of the line, or an edit of it.      *)
Edited(code) ==
  /\ code \in KeyCode \ {NewLine}
  /\ code \notin EditKey => Started.len < MaxLine
  /\ Edit(Started, lb_add_code(Started, code, history), lb_result(Started, code, history), code)
Ignored == line_buff' = Started /\ UNCHANGED <<history, input_buff, screen, drawn>>

LEMMA StartedOk ==
  ASSUME LineInv
  PROVE  /\ LineOk(Started) /\ Line(Started) = Line(line_buff)
         /\ Started.len = line_buff.len /\ Started.cur_pos = line_buff.cur_pos
         /\ Started.history_pos = line_buff.history_pos
         /\ Started.result = line_buff.result
         /\ Started.cursor_start_x = IF line_buff.len = 0 THEN screen.x
                                     ELSE line_buff.cursor_start_x
<1>1. LineOk(line_buff) /\ line_buff \in LineBuff /\ screen.x \in Nat
  BY DEF LineInv, LineOk, Screens
<1>2. CASE line_buff.len = 0
  <2>1. Started = [result |-> line_buff.result, len |-> line_buff.len,
                   cur_pos |-> line_buff.cur_pos, history_pos |-> line_buff.history_pos,
                   cursor_start_x |-> screen.x]
    BY <1>1, <1>2 DEF Started, LineBuff
  <2> QED
    BY <1>1, <1>2, <2>1 DEF LineOk, LineBuff, Line
<1>3. CASE line_buff.len # 0
  BY <1>1, <1>3 DEF Started
<1> QED
  BY <1>2, <1>3

LEMMA KeyByteCases ==
  ASSUME LineInv, NEW k \in Keys, NEW up \in BOOLEAN,
         Sends(k, up), KeyByte([code |-> k.code, up |-> up])
  PROVE  /\ wait_2nd' = FALSE /\ half' = FALSE /\ UNCHANGED state
         /\ \/ UNCHANGED lineVars
            \/ Ignored
            \/ Break(Started)
            \/ \E code \in KeyCode : Edited(code)
<1> DEFINE b == [code |-> k.code, up |-> up]
           code == _translate(state, wait_2nd, b.code)
<1>1. b.code = k.code /\ b.up = up /\ b.code \in ScanCode \ Modifier
  BY ConsoleAssumption DEF KeyByte
<1>2. wait_2nd' = FALSE /\ half' = FALSE /\ UNCHANGED state
  BY DEF KeyByte, Sends
<1>3. /\ code \in KeyCode
      /\ wait_2nd /\ code \notin {NoKey, NewLine} => code \in EditKey
      /\ ~wait_2nd /\ b.code \in {"enter", "backspace"} => code \in EditKey \cup {NewLine}
  BY <1>1, Translated DEF LineInv, KeyboardOk
<1>4. IF code = NoKey \/ b.up THEN UNCHANGED lineVars ELSE _on_kb_event(code)
  BY DEF KeyByte
<1> HIDE DEF code
<1>5. ASSUME code # NoKey, ~up, code # NewLine, code \notin EditKey
      PROVE  line_buff.len < MaxLine
  <2>1. ~wait_2nd
    BY <1>3, <1>5
  <2>2. ~half
    BY <2>1 DEF LineInv, KeyboardOk
  <2>3. ~k.ext
    BY <2>2 DEF Sends
  <2>4. k.code \notin Modifier \cup {"enter", "backspace"}
    BY <1>1, <1>3, <1>5, <2>1
  <2> QED
    BY <1>5, <2>3, <2>4 DEF Sends, Grows
<1>6. CASE code = NoKey \/ up
  BY <1>1, <1>2, <1>4, <1>6
<1>7. CASE ~(code = NoKey \/ up)
  <2>1. _on_kb_event(code)
    BY <1>1, <1>4, <1>7
  <2>2. CASE kb_is_ctrl(state)
    <3>1. Ignored
      BY <2>1, <2>2 DEF _on_kb_event, Ignored
    <3> QED
      BY <1>2, <3>1
  <2>3. CASE ~kb_is_ctrl(state) /\ code = NewLine
    <3>1. Break(Started)
      BY <2>1, <2>3 DEF _on_kb_event
    <3> QED
      BY <1>2, <3>1
  <2>4. CASE ~kb_is_ctrl(state) /\ code # NewLine
    <3>1. Edit(Started, lb_add_code(Started, code, history),
               lb_result(Started, code, history), code)
      BY <2>1, <2>4 DEF _on_kb_event
    <3>2. code \notin EditKey => Started.len < MaxLine
      BY <1>5, <1>7, <2>4, StartedOk
    <3>3. Edited(code)
      BY <1>3, <2>4, <3>1, <3>2 DEF Edited
    <3> QED
      BY <1>2, <1>3, <3>3
  <2> QED
    BY <2>2, <2>3, <2>4
<1> QED
  BY <1>6, <1>7

LEMMA EchoOnScreen ==
  ASSUME NEW n, LineOk(n), NEW prev, NEW code \in KeyCode, screen \in Screens,
         NEW result \in {"REPLACE", "APPEND", "IGNORE"}
  PROVE  Echo(result, n, prev, code) \in Screens /\ Echo(result, n, prev, code).y = screen.y
<1>1. CASE result = "REPLACE"
  <2> DEFINE v == [i \in Cell |-> LineCell(screen, n, prev, i)]
  <2>1. v \in [Cell -> Chars]
    <3> SUFFICES ASSUME NEW i \in Cell PROVE LineCell(screen, n, prev, i) \in Chars
      OBVIOUS
    <3> DEFINE k == i - (screen.y * Width + n.cursor_start_x)
    <3>1. k \in 0 .. n.len - 1 => n.result[k] \in KeyCode
      BY DEF LineOk
    <3>2. screen.video[i] \in Chars
      BY DEF Screens
    <3>3. LineCell(screen, n, prev, i) = IF k \in 0 .. n.len - 1 THEN n.result[k]
                                         ELSE IF k \in 0 .. prev - 1 THEN Space ELSE screen.video[i]
      BY DEF LineCell
    <3> HIDE DEF k
    <3> QED
      BY <3>1, <3>2, <3>3 DEF Chars
  <2>2. Echo(result, n, prev, code) = [screen EXCEPT !.video = v]
    BY <1>1 DEF Echo, _replace_str
  <2> HIDE DEF v
  <2> QED
    BY <2>1, <2>2 DEF Screens
<1>2. CASE result = "APPEND"
  <2>1. Echo(result, n, prev, code) = dsp_print_char(screen, code, screen.x, screen.y)
    BY <1>2 DEF Echo
  <2>2. code \in Chars
    BY DEF Chars
  <2>3. \A col, row : /\ dsp_print_char(screen, code, col, row) \in Screens
                      /\ dsp_print_char(screen, code, col, row).y = screen.y
    BY <2>2, PrintedOnScreen
  <2> QED
    BY <2>1, <2>3
<1>3. CASE result = "IGNORE"
  BY <1>3 DEF Echo
<1> QED
  BY <1>1, <1>2, <1>3

LEMMA ResultOfKey ==
  ASSUME NEW lb, NEW code, NEW his
  PROVE  /\ lb_result(lb, code, his) \in {"REPLACE", "APPEND", "IGNORE"}
         /\ code \notin EditKey <=> lb_result(lb, code, his) = "APPEND"
<1>1. CASE code \in EditKey
  BY <1>1 DEF lb_result, EditKey
<1>2. CASE code \notin EditKey
  BY <1>2 DEF lb_result, EditKey
<1> QED
  BY <1>1, <1>2

LEMMA EditOk ==
  ASSUME LineInv, NEW code \in KeyCode, Edited(code)
  PROVE  /\ LineOk(line_buff') /\ line_buff'.history_pos <= Len(history)
         /\ line_buff'.cursor_start_x = Started.cursor_start_x
         /\ EditedAs(Started, line_buff', history)
         /\ screen' \in Screens /\ screen'.y = screen.y
         /\ screen'.x = line_buff'.cursor_start_x + line_buff'.cur_pos
         /\ UNCHANGED <<history, input_buff>>
<1> DEFINE result == lb_result(Started, code, history)
           new == lb_add_code(Started, code, history)
<1>1. /\ line_buff' = new /\ UNCHANGED <<history, input_buff>>
      /\ screen' = [Echo(result, new, Started.len, code) EXCEPT
                      !.x = new.cursor_start_x + new.cur_pos]
  BY DEF Edited, Edit
<1>2. /\ LineOk(new) /\ new.history_pos <= Len(history)
      /\ new.cursor_start_x = Started.cursor_start_x
      /\ EditedAs(Started, new, history)
  <2>1. LineOk(Started) /\ history \in Seq(Lines) /\ Started.history_pos <= Len(history)
    BY StartedOk DEF LineInv, HistoryOk
  <2>2. code \notin EditKey => Started.len < MaxLine
    BY DEF Edited
  <2> QED
    BY <2>1, <2>2, EditRefines
<1>3. result \in {"REPLACE", "APPEND", "IGNORE"} /\ screen \in Screens
  BY ResultOfKey DEF LineInv
<1> HIDE DEF result, new
<1>4. /\ Echo(result, new, Started.len, code) \in Screens
      /\ Echo(result, new, Started.len, code).y = screen.y
  BY <1>2, <1>3, EchoOnScreen
<1>5. new.cursor_start_x + new.cur_pos \in Nat
  BY <1>2, Bounds DEF LineOk, LineBuff
<1>6. screen' \in Screens /\ screen'.y = screen.y /\ screen'.x = new.cursor_start_x + new.cur_pos
  BY <1>1, <1>4, <1>5 DEF Screens
<1> QED
  BY <1>1, <1>2, <1>6

(* The end of a line: it goes into the history and into the ring whole.    *)
LEMMA BreakOk ==
  ASSUME LineInv, Break(Started)
  PROVE  /\ line_buff' = lb_init /\ LineOk(line_buff')
         /\ Line(line_buff') = <<>>
         /\ history' = IF Line(line_buff) = <<>> THEN history
                       ELSE <<Line(line_buff)>> \o history
         /\ history' \in Seq(Lines) /\ line_buff'.history_pos <= Len(history')
         /\ input_buff' \in Rings
         /\ Contents(input_buff') =
              LI!Newest(Contents(input_buff) \o Line(line_buff) \o <<NewLine>>)
         /\ screen' \in Screens
<1>1. /\ LineOk(Started) /\ Line(Started) = Line(line_buff)
      /\ Started.len = line_buff.len /\ Started.result = line_buff.result
  BY StartedOk
<1>2. /\ Line(line_buff) \in Seq(KeyCode) /\ Len(Line(line_buff)) = line_buff.len
      /\ Line(line_buff) \in Lines /\ line_buff.len \in 0 .. MaxLine
      /\ strlen(line_buff.result) = line_buff.len
      /\ String(line_buff.result) = Line(line_buff)
  BY LineIsSeq, StringIsLine DEF LineInv
<1>3. line_buff' = lb_init /\ LineOk(line_buff') /\ Line(line_buff') = <<>>
  <2>1. line_buff' = lb_init
    BY DEF Break
  <2>2. lb_init \in LineBuff
    BY Bounds DEF LineBuff, lb_init
  <2>3. 0 \in Index /\ lb_init.result[0] = NUL /\ lb_init.len = 0 /\ lb_init.cur_pos = 0
    BY Bounds DEF lb_init, Index
  <2>4. LineOk(lb_init)
    BY <2>2, <2>3 DEF LineOk
  <2>5. Line(lb_init) = <<>>
    BY <2>3 DEF Line
  <2> QED
    BY <2>1, <2>4, <2>5
<1>4. history' = IF Line(line_buff) = <<>> THEN history ELSE <<Line(line_buff)>> \o history
  <2>1. strlen(Started.result) = 0 <=> Line(line_buff) = <<>>
    BY <1>1, <1>2
  <2>2. String(Started.result) = Line(line_buff)
    BY <1>1, <1>2
  <2> QED
    BY <2>1, <2>2 DEF Break, con_his_add
<1>5. history' \in Seq(Lines) /\ line_buff'.history_pos <= Len(history')
  <2>1. history \in Seq(Lines)
    BY DEF LineInv, HistoryOk
  <2>2. history' \in Seq(Lines)
    BY <1>2, <1>4, <2>1, ConcatProperties
  <2>3. line_buff'.history_pos = 0
    BY <1>3 DEF lb_init
  <2> QED
    BY <2>2, <2>3
<1>6. LineBytes(Started) = Line(line_buff) \o <<NewLine>>
  BY <1>1 DEF LineBytes, Line
<1>7. LineBytes(Started) \in Seq(KeyCode)
  <2>1. NewLine \in KeyCode
    <3>1. "enter" \in ScanCode /\ kb_sc_ascii_lower["enter"] = NewLine
      BY DEF ScanCode, kb_sc_ascii_lower, NewLine
    <3> QED
      BY <3>1 DEF KeyCode
  <2> QED
    BY <1>2, <1>6, <2>1
<1>8. input_buff \in Rings
  BY RingIsRing DEF LineInv
<1>9. input_buff' = FoldLeft(cbuff8_put, input_buff, LineBytes(Started))
  BY DEF Break
<1>10. /\ input_buff' \in Rings
       /\ Contents(input_buff') = LI!Newest(Contents(input_buff) \o LineBytes(Started))
  BY <1>7, <1>8, <1>9, PutsKeepNewest
<1>11. Contents(input_buff) \o LineBytes(Started)
         = Contents(input_buff) \o Line(line_buff) \o <<NewLine>>
  <2> DEFINE c == Contents(input_buff)
             C == KeyCode \cup {NUL}
             nl == <<NewLine>>
  <2>1. c \in Seq(C)
    <3>1. NewLine \in KeyCode
      BY <1>6, <1>7, <1>2
    <3> QED
      BY <1>8, <3>1, PutContents
  <2>2. Line(line_buff) \in Seq(C) /\ nl \in Seq(C)
    <3>1. NewLine \in KeyCode
      BY <1>6, <1>7, <1>2
    <3> QED
      BY <1>2, <3>1, SeqMonotonic
  <2> HIDE DEF c, C, nl
  <2>3. (c \o Line(line_buff)) \o nl = c \o (Line(line_buff) \o nl)
    BY <2>1, <2>2, ConcatAssociative
  <2> QED
    BY <1>6, <2>3 DEF c, nl
<1>12. screen' \in Screens
  <2>1. "\n" \in Chars
    BY DEF Chars
  <2> QED
    BY <2>1, PutcOnScreen DEF Break, LineInv
<1> QED
  BY <1>3, <1>4, <1>5, <1>10, <1>11, <1>12

-----------------------------------------------------------------------------
(* The refinement.  A state of the line that implements one of LineInput.  *)
LEMMA InitLine == Init => LineInv /\ LI!InputInit
<1> SUFFICES ASSUME Init PROVE LineInv /\ LI!InputInit
  OBVIOUS
<1>1. KeyboardOk
  BY DEF Init, KeyboardOk
<1>2. LineOk(line_buff) /\ Line(line_buff) = <<>>
  <2>1. lb_init \in LineBuff
    BY Bounds DEF LineBuff, lb_init
  <2>2. 0 \in Index /\ lb_init.result[0] = NUL /\ lb_init.len = 0 /\ lb_init.cur_pos = 0
    BY Bounds DEF lb_init, Index
  <2>3. LineOk(lb_init)
    BY <2>1, <2>2 DEF LineOk
  <2>4. Line(lb_init) = <<>>
    BY <2>2 DEF Line
  <2> QED
    BY <2>3, <2>4 DEF Init
<1>3. HistoryOk
  BY DEF Init, HistoryOk, lb_init
<1>4. R!Sound(input_buff)
  BY Bounds DEF Init, R!Sound, R!RingType, R!Byte, cbuff8_create
<1>5. Contents(input_buff) = <<>>
  <2>1. Held(input_buff) = 0
    BY DEF Init, Held, cbuff8_empty, cbuff8_create
  <2> QED
    BY <2>1 DEF Contents
<1>6. screen \in Screens
  BY ScreenBounds DEF Init, con_init, Screens, Chars
<1>7. line_buff.cur_pos = 0 /\ line_buff.history_pos = 0 /\ history = <<>>
  BY DEF Init, lb_init
<1> QED
  BY <1>1, <1>2, <1>3, <1>4, <1>5, <1>6, <1>7 DEF LineInv, LI!InputInit, Line

LEMMA UnchangedLine ==
  ASSUME LineInv, KeyboardOk', UNCHANGED lineVars
  PROVE  LineInv' /\ UNCHANGED LI!inputVars
  BY DEF LineInv, HistoryOk, lineVars, LI!inputVars

(* An edit is one of LineInput's, or leaves the line as it is.             *)
LEMMA EditIsInput ==
  ASSUME LineInv, NEW code \in KeyCode, Edited(code)
  PROVE  [LI!InputNext]_(LI!inputVars)
<1> DEFINE lb == line_buff
           n == line_buff'
<1>1. /\ EditedAs(Started, n, history) /\ UNCHANGED <<history, input_buff>>
  BY EditOk
<1>2. /\ Line(Started) = Line(lb) /\ Started.len = lb.len /\ Started.cur_pos = lb.cur_pos
      /\ Started.history_pos = lb.history_pos
  BY StartedOk
<1>3. /\ Len(Line(lb)) = lb.len /\ lb.len \in Nat
      /\ lb.cur_pos \in 0 .. lb.len
  BY LineIsSeq, Bounds DEF LineInv
<1>4. UNCHANGED <<history, Contents(input_buff)>>
  BY <1>1
<1>5. CASE n = Started
  BY <1>2, <1>4, <1>5 DEF LI!inputVars, Line
<1>6. ASSUME NEW c \in KeyCode, TypedIn(Started, n, c) PROVE LI!Type(c)
  BY <1>2, <1>3, <1>4, <1>6 DEF TypedIn, Left, Right, LI!Type, LI!Left, LI!Right, Line
<1>7. CASE ErasedAt(Started, n, lb.cur_pos)
  BY <1>2, <1>3, <1>4, <1>7 DEF ErasedAt, Left, Right, LI!Erase, LI!Left, LI!Right, Line,
     LI!InputNext
<1>8. CASE ErasedAt(Started, n, lb.cur_pos + 1)
  <2>1. LI!Erase(lb.cur_pos + 1)
    BY <1>2, <1>3, <1>4, <1>8 DEF ErasedAt, Left, Right, LI!Erase, LI!Left, LI!Right, Line
  <2> QED
    BY <2>1 DEF LI!InputNext
<1>9. CASE MovedTo(Started, n, lb.cur_pos - 1) \/ MovedTo(Started, n, lb.cur_pos + 1)
  <2>1. ASSUME NEW m, MovedTo(Started, n, m) PROVE LI!Move(m)
    BY <1>2, <1>3, <1>4, <2>1 DEF MovedTo, LI!Move, Line
  <2> QED
    BY <1>9, <2>1 DEF LI!InputNext
<1>10. CASE CalledUp(n, lb.history_pos - 1, history)
  <2>1. LI!CallUp(lb.history_pos - 1)
    BY <1>2, <1>3, <1>4, <1>10 DEF CalledUp, LI!CallUp, Line
  <2> QED
    BY <2>1 DEF LI!InputNext
<1>11. CASE CalledUp(n, lb.history_pos + 1, history)
  <2>1. LI!CallUp(lb.history_pos + 1)
    BY <1>2, <1>3, <1>4, <1>11 DEF CalledUp, LI!CallUp, Line
  <2> QED
    BY <2>1 DEF LI!InputNext
<1>12. CASE \E c \in KeyCode : TypedIn(Started, n, c)
  BY <1>6, <1>12 DEF LI!InputNext
<1>13. \/ n = Started
       \/ \E c \in KeyCode : TypedIn(Started, n, c)
       \/ ErasedAt(Started, n, lb.cur_pos) \/ ErasedAt(Started, n, lb.cur_pos + 1)
       \/ MovedTo(Started, n, lb.cur_pos - 1) \/ MovedTo(Started, n, lb.cur_pos + 1)
       \/ CalledUp(n, lb.history_pos - 1, history)
       \/ CalledUp(n, lb.history_pos + 1, history)
  BY <1>1, <1>2, Zenon DEF EditedAs
<1> HIDE DEF lb, n
<1> QED
  BY <1>5, <1>7, <1>8, <1>9, <1>10, <1>11, <1>12, <1>13

LEMMA StepLine == LineInv /\ [Next]_consoleVars => LineInv' /\ [LI!InputNext]_(LI!inputVars)
<1> SUFFICES ASSUME LineInv, [Next]_consoleVars
             PROVE  LineInv' /\ [LI!InputNext]_(LI!inputVars)
  OBVIOUS
<1>1. CASE UNCHANGED consoleVars
  BY <1>1, UnchangedLine DEF consoleVars, LineInv, KeyboardOk
<1>2. CASE PrefixByte
  <2>1. KeyboardOk' /\ UNCHANGED lineVars
    BY <1>2 DEF PrefixByte, LineInv, KeyboardOk
  <2> QED
    BY <2>1, UnchangedLine
<1>3. ASSUME NEW k \in Keys, NEW up \in BOOLEAN, Sends(k, up),
             ModifierByte([code |-> k.code, up |-> up])
      PROVE  KeyboardOk' /\ UNCHANGED lineVars
  <2> DEFINE b == [code |-> k.code, up |-> up]
  <2>1. b.code = k.code /\ k.code \in Modifier /\ state' = _update_state(state, wait_2nd, b)
        /\ UNCHANGED <<wait_2nd, lineVars>> /\ half' = FALSE
    BY <1>3 DEF ModifierByte, Sends
  <2>2. FlagOf(k.code, wait_2nd) \in SUBSET Flag
    BY <2>1 DEF FlagOf, Flag, Modifier
  <2>3. state' \in SUBSET Flag
    BY <2>1, <2>2 DEF _update_state, LineInv, KeyboardOk
  <2> QED
    BY <2>1, <2>3 DEF LineInv, KeyboardOk
<1>4. ASSUME NEW k \in Keys, NEW up \in BOOLEAN, Sends(k, up),
             KeyByte([code |-> k.code, up |-> up])
      PROVE  LineInv' /\ [LI!InputNext]_(LI!inputVars)
  <2>1. KeyboardOk'
    BY <1>4, KeyByteCases DEF LineInv, KeyboardOk
  <2>2. CASE UNCHANGED lineVars
    BY <2>1, <2>2, UnchangedLine
  <2>3. CASE Ignored
    <3>1. UNCHANGED <<history, input_buff, screen>> /\ line_buff' = Started
      BY <2>3 DEF Ignored
    <3>2. LineInv'
      BY <2>1, <3>1, StartedOk DEF LineInv, HistoryOk
    <3>3. UNCHANGED LI!inputVars
      BY <3>1, StartedOk DEF LI!inputVars, Line
    <3> QED
      BY <3>2, <3>3
  <2>4. CASE Break(Started)
    <3>1. LineInv'
      BY <2>1, <2>4, BreakOk, RingIsRing DEF LineInv, HistoryOk
    <3>2. LI!Enter
      <4>1. line_buff'.cur_pos = 0 /\ line_buff'.history_pos = 0
        BY <2>4, BreakOk DEF lb_init
      <4> QED
        BY <2>4, <4>1, BreakOk DEF LI!Enter, Line
    <3> QED
      BY <3>1, <3>2 DEF LI!InputNext
  <2>5. ASSUME NEW code \in KeyCode, Edited(code)
        PROVE  LineInv' /\ [LI!InputNext]_(LI!inputVars)
    <3>1. LineInv'
      BY <2>1, <2>5, EditOk DEF LineInv, HistoryOk
    <3> QED
      BY <2>5, <3>1, EditIsInput
  <2> QED
    BY <1>4, <2>2, <2>3, <2>4, <2>5, KeyByteCases
<1>5. CASE ReadByte
  <2>1. /\ input_buff \in Rings /\ ~cbuff8_empty(input_buff)
        /\ input_buff' = cbuff8_get(input_buff)
        /\ UNCHANGED <<state, wait_2nd, held, half, line_buff, history, screen, drawn>>
    BY <1>5, RingIsRing DEF ReadByte, LineInv
  <2>2. /\ input_buff' \in Rings /\ Contents(input_buff) # <<>>
        /\ Contents(input_buff') = Tail(Contents(input_buff))
    BY <2>1, GetContents
  <2>3. LineInv'
    BY <2>1, <2>2, RingIsRing DEF LineInv, KeyboardOk, HistoryOk
  <2>4. LI!Read
    BY <2>1, <2>2 DEF LI!Read
  <2> QED
    BY <2>3, <2>4 DEF LI!InputNext
<1>6. ASSUME NEW text \in Texts, con_write_buff(text)
      PROVE  LineInv' /\ [LI!InputNext]_(LI!inputVars)
  <2>1. /\ screen' = FoldLeft(con_putc, screen, text)
        /\ UNCHANGED <<state, wait_2nd, held, half, line_buff, history, input_buff>>
    BY <1>6 DEF con_write_buff
  <2>2. text \in Seq(Chars)
    <3>1. text \in Seq(STRING) /\ STRING \subseteq Chars
      BY ConsoleAssumption DEF Chars
    <3> QED
      BY <3>1, SeqMonotonic
  <2>3. screen' \in Screens
    BY <2>1, <2>2, TextOnScreen DEF LineInv
  <2>4. LineInv'
    BY <2>1, <2>3 DEF LineInv, KeyboardOk, HistoryOk
  <2>5. UNCHANGED LI!inputVars
    BY <2>1 DEF LI!inputVars
  <2> QED
    BY <2>4, <2>5
<1>7. CASE Next
  <2>1. CASE \E k \in Keys, up \in BOOLEAN : \E b \in {[code |-> k.code, up |-> up]} :
               Sends(k, up) /\ (ModifierByte(b) \/ KeyByte(b))
    <3>1. PICK k \in Keys, up \in BOOLEAN :
            /\ Sends(k, up)
            /\ \/ ModifierByte([code |-> k.code, up |-> up])
               \/ KeyByte([code |-> k.code, up |-> up])
      BY <2>1
    <3> QED
      BY <1>3, <1>4, <3>1, UnchangedLine
  <2> QED
    BY <1>2, <1>5, <1>6, <1>7, <2>1 DEF Next
<1> QED
  BY <1>1, <1>7

(* For every set of keys and all sizes, the console does what LineInput    *)
(* says: what is typed, edited and called up is the line that is entered,  *)
(* and the lines reach the readers byte by byte, in order, with no more    *)
(* lost than the oldest bytes of a ring that is full.                      *)
THEOREM ConsoleImplementsLineInput == Spec => ImplementsLineInput
<1>1. Init => LineInv /\ LI!InputInit
  BY InitLine
<1>2. LineInv /\ [Next]_consoleVars => LineInv' /\ [LI!InputNext]_(LI!inputVars)
  BY StepLine
<1> QED
  BY <1>1, <1>2, PTL DEF Spec, ImplementsLineInput, LI!InputSpec
-----------------------------------------------------------------------------
(* What is drawn of the line.  Keys that are ignored leave the text alone, *)
(* and those that append put one character into it.                        *)
LEMMA TextOfKey ==
  ASSUME NEW lb, LineOk(lb), NEW his, NEW code
  PROVE  LET n == lb_add_code(lb, code, his)
             result == lb_result(lb, code, his)
         IN  /\ result = "IGNORE" => n.len = lb.len /\ n.result = lb.result
             /\ result = "APPEND" => n = _insert(lb, code)
<1> DEFINE n == lb_add_code(lb, code, his)
<1>1. lb \in LineBuff
  BY DEF LineOk
<1>2. \A m : /\ [lb EXCEPT !.cur_pos = m].len = lb.len
             /\ [lb EXCEPT !.cur_pos = m].result = lb.result
  BY <1>1 DEF LineBuff
<1>3. CASE code \in EditKey
  <2>1. lb_result(lb, code, his) = "IGNORE" =>
          n = lb \/ \E m : n = [lb EXCEPT !.cur_pos = m]
    BY <1>3 DEF lb_result, lb_add_code, EditKey
  <2>2. lb_result(lb, code, his) # "APPEND"
    BY <1>3, ResultOfKey
  <2> HIDE DEF n
  <2> QED
    BY <1>2, <2>1, <2>2 DEF n
<1>4. CASE code \notin EditKey
  <2>1. lb_result(lb, code, his) = "APPEND"
    BY <1>4, ResultOfKey
  <2>2. n = _insert(lb, code)
    BY <1>4 DEF lb_add_code, EditKey
  <2> QED
    BY <2>1, <2>2
<1> QED
  BY <1>3, <1>4

LEMMA LargerOf ==
  ASSUME NEW a \in Nat, NEW b \in Nat
  PROVE  Max({a, b}) \in Nat /\ Max({a, b}) = IF a >= b THEN a ELSE b
<1> DEFINE m == IF a >= b THEN a ELSE b
<1>1. m \in {a, b} /\ \A y \in {a, b} : m >= y
  OBVIOUS
<1>2. ASSUME NEW x \in {a, b}, \A y \in {a, b} : x >= y PROVE x = m
  BY <1>2
<1> HIDE DEF m
<1>3. Max({a, b}) = m
  BY <1>1, <1>2 DEF Max
<1> QED
  BY <1>3 DEF m

(* The statement of ScreenShowsLine, for any screen, line and extent.      *)
Shows(s, lb, d) ==
  d # None /\ lb.cursor_start_x + d < Width =>
    /\ s.x = lb.cursor_start_x + lb.cur_pos
    /\ \A i \in 0 .. d - 1 : s.video[s.y * Width + lb.cursor_start_x + i] =
                               IF i < lb.len THEN lb.result[i] ELSE Space

(* The line drawn anew, over all of what it was.                           *)
LEMMA ReplacedShows ==
  ASSUME NEW s \in Screens, NEW n, LineOk(n), NEW prev \in Nat
  PROVE  LET r == [_replace_str(s, n, prev) EXCEPT !.x = n.cursor_start_x + n.cur_pos]
         IN  Shows(r, n, Max({prev, n.len}))
<1> DEFINE v == [i \in Cell |-> LineCell(s, n, prev, i)]
           r == [_replace_str(s, n, prev) EXCEPT !.x = n.cursor_start_x + n.cur_pos]
           start == n.cursor_start_x
           d == Max({prev, n.len})
<1>1. /\ start \in Nat /\ n.len \in Nat /\ s.y \in 0 .. Height - 1
      /\ Width \in Nat \ {0} /\ Height \in Nat \ {0} /\ s.y * Width \in Nat
  BY ScreenBounds, Bounds DEF LineOk, LineBuff, Screens
<1>2. r.video = v /\ r.y = s.y /\ r.x = n.cursor_start_x + n.cur_pos
  BY DEF _replace_str, Screens
<1>3. d \in Nat /\ d = IF prev >= n.len THEN prev ELSE n.len
  BY <1>1, LargerOf
<1> HIDE DEF r, d
<1>4. ASSUME start + d < Width, NEW i \in 0 .. d - 1
      PROVE  v[s.y * Width + start + i] = IF i < n.len THEN n.result[i] ELSE Space
  <2>1. s.y * Width + (start + i) \in Cell
    <3>1. start + i \in 0 .. Width - 1
      BY <1>1, <1>3, <1>4
    <3> QED
      BY <1>1, <3>1, ScreenBounds
  <2> DEFINE c == s.y * Width + start + i
  <2>2. c \in Cell /\ c - (s.y * Width + start) = i
    BY <1>1, <1>3, <2>1
  <2>3. v[c] = LineCell(s, n, prev, c)
    BY <2>2
  <2>4. LineCell(s, n, prev, c) = IF i \in 0 .. n.len - 1 THEN n.result[i]
                                  ELSE IF i \in 0 .. prev - 1 THEN Space ELSE s.video[c]
    BY <2>2 DEF LineCell
  <2> HIDE DEF c
  <2>5. v[c] = IF i < n.len THEN n.result[i] ELSE Space
    BY <1>1, <1>3, <2>3, <2>4
  <2> QED
    BY <2>5 DEF c
<1> HIDE DEF v
<1>5. Shows(r, n, d)
  BY <1>2, <1>4 DEF Shows
<1> QED
  BY <1>5 DEF r, d

(* A character printed behind the line.                                    *)
LEMMA AppendedShows ==
  ASSUME NEW s \in Screens, NEW lb, LineOk(lb), lb.len < MaxLine, lb.cur_pos = lb.len,
         NEW c \in KeyCode, NEW d \in Nat, lb.len <= d, d # None, Shows(s, lb, d),
         s.x = lb.cursor_start_x + lb.cur_pos
  PROVE  LET n == _insert(lb, c)
             r == [dsp_print_char(s, c, s.x, s.y) EXCEPT !.x = n.cursor_start_x + n.cur_pos]
         IN  Shows(r, n, Max({d, n.len}))
<1> DEFINE n == _insert(lb, c)
           p == dsp_print_char(s, c, s.x, s.y)
           r == [p EXCEPT !.x = n.cursor_start_x + n.cur_pos]
           start == lb.cursor_start_x
           e == Max({d, n.len})
<1>1. /\ start \in Nat /\ lb.len \in Nat /\ s.y \in 0 .. Height - 1
      /\ Width \in Nat \ {0} /\ Height \in Nat \ {0} /\ s.y * Width \in Nat
  BY ScreenBounds, Bounds DEF LineOk, LineBuff, Screens
<1>2. /\ n.len = lb.len + 1 /\ n.cursor_start_x = start /\ n.len - 1 \in Nat
      /\ \A i \in 0 .. lb.len : i \in Index
      /\ \A i \in 0 .. lb.len : n.result[i] = IF i < lb.len THEN lb.result[i] ELSE c
  <2>1. /\ n.len = lb.len + 1 /\ n.cursor_start_x = start
        /\ \A i \in Index : n.result[i] = IF i < lb.cur_pos \/ i > lb.len + 1 THEN lb.result[i]
                             ELSE IF i = lb.len + 1 THEN NUL
                             ELSE IF i = lb.cur_pos THEN c ELSE lb.result[i - 1]
    BY Inserted
  <2>2. \A i \in 0 .. lb.len : i \in Index
    BY <1>1, Bounds DEF Index
  <2> HIDE DEF n
  <2> QED
    BY <1>1, <2>1, <2>2
<1> HIDE DEF n
<1>3. e \in Nat /\ e = IF d >= n.len THEN d ELSE n.len
  BY <1>1, <1>2, LargerOf
<1>4. p \in Screens /\ p.y = s.y
  <2>1. c \in Chars
    BY DEF Chars
  <2> QED
    BY <2>1, PrintedOnScreen
<1> HIDE DEF e, p
<1>5. r.x = n.cursor_start_x + n.cur_pos /\ r.y = s.y /\ r.video = p.video
  BY <1>4 DEF Screens
<1> HIDE DEF r
<1>6. ASSUME start + e < Width, NEW i \in 0 .. e - 1
      PROVE  p.video[s.y * Width + start + i] = IF i < n.len THEN n.result[i] ELSE Space
  <2> DEFINE at(j) == s.y * Width + start + j
  <2>1. \A j \in 0 .. e - 1 : at(j) \in Cell
    <3> SUFFICES ASSUME NEW j \in 0 .. e - 1 PROVE at(j) \in Cell
      OBVIOUS
    <3>1. start + j \in 0 .. Width - 1
      BY <1>1, <1>3, <1>6
    <3>2. s.y * Width + (start + j) \in Cell
      BY <1>1, <3>1, ScreenBounds
    <3> QED
      BY <1>1, <3>2
  <2>2. lb.len \in 0 .. e - 1
    BY <1>1, <1>2, <1>3
  <2>3. s.y * Width + s.x = at(lb.len)
    BY <1>1
  <2>4. p.video = [s.video EXCEPT ![at(lb.len)] = c]
    <3>1. s.y * Width + s.x \in Cell
      BY <2>1, <2>2, <2>3
    <3> QED
      BY <2>3, <3>1, PrintedAt DEF p
  <2>5. i # lb.len => at(i) # at(lb.len)
    BY <1>1, <1>3
  <2>6. at(i) \in Cell /\ at(lb.len) \in Cell /\ s.video \in [Cell -> Chars]
    BY <2>1, <2>2 DEF Screens
  <2>7. start + d < Width
    BY <1>1, <1>2, <1>3, <1>6
  <2>8. i < d => s.video[at(i)] = IF i < lb.len THEN lb.result[i] ELSE Space
    BY <1>1, <1>3, <2>7 DEF Shows
  <2> HIDE DEF at
  <2>9. CASE i = lb.len
    <3>1. p.video[at(i)] = c
      BY <2>4, <2>6, <2>9
    <3>2. n.result[i] = c /\ i < n.len
      BY <1>1, <1>2, <2>9
    <3> QED
      BY <3>1, <3>2 DEF at
  <2>10. CASE i # lb.len
    <3>1. p.video[at(i)] = s.video[at(i)]
      BY <2>4, <2>5, <2>6, <2>10
    <3>2. i < d
      BY <1>1, <1>2, <1>3, <2>10
    <3>3. i < n.len <=> i < lb.len
      BY <1>1, <1>2, <1>3, <2>10
    <3>4. i < lb.len => n.result[i] = lb.result[i]
      BY <1>1, <1>2, <1>3
    <3>5. p.video[at(i)] = IF i < n.len THEN n.result[i] ELSE Space
      BY <2>8, <3>1, <3>2, <3>3, <3>4
    <3> QED
      BY <3>5 DEF at
  <2> QED
    BY <2>9, <2>10
<1>7. Shows(r, n, e)
  BY <1>2, <1>5, <1>6 DEF Shows
<1> QED
  BY <1>7 DEF n, r, e, p
LEMMA EditShows ==
  ASSUME Inv, NEW code \in KeyCode, Edited(code)
  PROVE  DrawnOk' /\ ScreenShowsLine'
<1> DEFINE lb == Started
           result == lb_result(Started, code, history)
           new == lb_add_code(Started, code, history)
           echo == Echo(result, new, Started.len, code)
<1>1. /\ line_buff' = new /\ drawn' = Drawn(result, lb, new)
      /\ screen' = [echo EXCEPT !.x = new.cursor_start_x + new.cur_pos]
  BY DEF Edited, Edit
<1>2. /\ LineOk(lb) /\ LineOk(new) /\ new.cursor_start_x = lb.cursor_start_x
      /\ screen \in Screens /\ screen' \in Screens /\ screen'.y = screen.y
      /\ screen'.x = new.cursor_start_x + new.cur_pos
  BY <1>1, StartedOk, EditOk DEF Inv, LineInv
<1>3. /\ lb.len \in Nat /\ lb.cur_pos \in 0 .. lb.len
      /\ new.len \in Nat /\ new.cur_pos \in 0 .. new.len /\ new.cursor_start_x \in Nat
  BY <1>2, LineIsSeq, Bounds DEF LineOk, LineBuff
<1>4. /\ lb.len = line_buff.len /\ lb.cur_pos = line_buff.cur_pos
      /\ lb.cursor_start_x = IF lb.len = 0 THEN screen.x ELSE line_buff.cursor_start_x
      /\ lb.len # 0 => lb = line_buff
  BY StartedOk DEF Inv, Started
<1>5. /\ result \in {"REPLACE", "APPEND", "IGNORE"}
      /\ result = "APPEND" => code \notin EditKey
      /\ code \notin EditKey => lb.len < MaxLine
  BY ResultOfKey DEF Edited
<1>6. /\ result = "IGNORE" => new.len = lb.len /\ new.result = lb.result
      /\ result = "APPEND" => new = _insert(lb, code)
  BY <1>2, TextOfKey
<1> HIDE DEF lb, new, result
<1>7. SUFFICES /\ drawn' # None => drawn' \in Nat /\ new.len <= drawn'
               /\ Shows(screen', new, drawn')
  BY <1>1, <1>2 DEF DrawnOk, ScreenShowsLine, Shows
<1>8. CASE result = "REPLACE"
  <2>1. drawn' = Max({lb.len, new.len})
    BY <1>1, <1>8 DEF Drawn
  <2>2. screen' = [_replace_str(screen, new, lb.len) EXCEPT !.x = new.cursor_start_x + new.cur_pos]
    BY <1>1, <1>8 DEF Echo, lb
  <2>3. Shows(screen', new, drawn')
    BY <1>2, <1>3, <2>1, <2>2, ReplacedShows
  <2>4. drawn' \in Nat /\ new.len <= drawn'
    BY <1>3, <2>1, LargerOf
  <2> QED
    BY <2>3, <2>4
<1>9. CASE result = "APPEND"
  <2> DEFINE before == IF lb.len = 0 THEN 0 ELSE drawn
  <2>1. drawn' = IF before = None \/ lb.cur_pos < lb.len THEN None ELSE Max({before, new.len})
    BY <1>1, <1>9 DEF Drawn
  <2>2. CASE before = None \/ lb.cur_pos < lb.len
    BY <2>1, <2>2 DEF Shows
  <2>3. CASE before # None /\ ~(lb.cur_pos < lb.len)
    <3>1. before \in Nat /\ lb.len <= before /\ screen.x = lb.cursor_start_x + lb.cur_pos
      <4>1. CASE lb.len = 0
        BY <1>2, <1>3, <1>4, <4>1 DEF Screens
      <4>2. CASE lb.len # 0
        BY <1>4, <2>3, <4>2 DEF Inv, DrawnOk
      <4> QED
        BY <4>1, <4>2
    <3>2. Shows(screen, lb, before)
      <4>1. CASE lb.len = 0
        BY <3>1, <4>1 DEF Shows
      <4>2. CASE lb.len # 0
        BY <1>4, <4>2 DEF Inv, ScreenShowsLine, Shows
      <4> QED
        BY <4>1, <4>2
    <3>3. screen' = [dsp_print_char(screen, code, screen.x, screen.y)
                       EXCEPT !.x = new.cursor_start_x + new.cur_pos]
      BY <1>1, <1>9 DEF Echo
    <3>4. drawn' = Max({before, new.len})
      BY <2>1, <2>3
    <3> HIDE DEF before
    <3>5. lb.cur_pos = lb.len /\ lb.len < MaxLine /\ new = _insert(lb, code)
      BY <1>3, <1>5, <1>6, <1>9, <2>3
    <3>6. Shows(screen', new, drawn')
      BY <1>2, <2>3, <3>1, <3>2, <3>3, <3>4, <3>5, AppendedShows
    <3>7. drawn' \in Nat /\ new.len <= drawn'
      BY <1>3, <3>1, <3>4, LargerOf
    <3> QED
      BY <3>6, <3>7
  <2> QED
    BY <2>2, <2>3
<1>10. CASE result = "IGNORE"
  <2>1. /\ drawn' = IF lb.len = 0 THEN 0 ELSE drawn
        /\ screen'.video = screen.video
    BY <1>1, <1>2, <1>10 DEF Drawn, Echo, Screens
  <2>2. CASE lb.len = 0
    <3>1. drawn' = 0 /\ new.len = 0
      BY <1>6, <1>10, <2>1, <2>2
    <3> QED
      BY <1>2, <3>1 DEF Shows
  <2>3. CASE lb.len # 0
    <3>1. drawn' = drawn /\ lb = line_buff /\ new.len = lb.len /\ new.result = lb.result
      BY <1>4, <1>6, <1>10, <2>1, <2>3
    <3>2. drawn # None => drawn \in Nat /\ lb.len <= drawn
      BY <3>1 DEF Inv, DrawnOk
    <3>3. Shows(screen, lb, drawn)
      BY <3>1 DEF Inv, ScreenShowsLine, Shows
    <3> QED
      BY <1>2, <2>1, <3>1, <3>2, <3>3 DEF Shows
  <2> QED
    BY <2>2, <2>3
<1> QED
  BY <1>5, <1>8, <1>9, <1>10

LEMMA StepShows == Inv /\ [Next]_consoleVars => Inv'
<1> SUFFICES ASSUME Inv, [Next]_consoleVars PROVE Inv'
  OBVIOUS
<1>1. LineInv'
  BY StepLine DEF Inv
<1>2. ASSUME UNCHANGED <<line_buff, screen, drawn>> PROVE DrawnOk' /\ ScreenShowsLine'
  BY <1>2 DEF Inv, DrawnOk, ScreenShowsLine
<1>3. ASSUME drawn' = None PROVE DrawnOk' /\ ScreenShowsLine'
  BY <1>3 DEF DrawnOk, ScreenShowsLine
<1>4. CASE UNCHANGED consoleVars
  BY <1>1, <1>2, <1>4 DEF consoleVars, lineVars, Inv
<1>5. CASE PrefixByte
  BY <1>1, <1>2, <1>5 DEF PrefixByte, lineVars, Inv
<1>6. CASE ReadByte
  BY <1>1, <1>2, <1>6 DEF ReadByte, Inv
<1>7. ASSUME NEW text \in Texts, con_write_buff(text) PROVE Inv'
  BY <1>1, <1>3, <1>7 DEF con_write_buff, Inv
<1>8. ASSUME NEW k \in Keys, NEW up \in BOOLEAN, Sends(k, up),
             ModifierByte([code |-> k.code, up |-> up])
      PROVE  Inv'
  BY <1>1, <1>2, <1>8 DEF ModifierByte, lineVars, Inv
<1>9. ASSUME NEW k \in Keys, NEW up \in BOOLEAN, Sends(k, up),
             KeyByte([code |-> k.code, up |-> up])
      PROVE  Inv'
  <2>1. CASE UNCHANGED lineVars
    BY <1>1, <1>2, <2>1 DEF lineVars, Inv
  <2>2. CASE Ignored
    <3>1. /\ line_buff' = Started /\ UNCHANGED <<screen, drawn>>
          /\ Started.len = line_buff.len /\ Started.cur_pos = line_buff.cur_pos
          /\ Started.result = line_buff.result
      BY <2>2, StartedOk DEF Ignored, Inv
    <3>2. drawn # None => Started.cursor_start_x = line_buff.cursor_start_x
      <4>1. CASE line_buff.len = 0
        <5>1. line_buff.cur_pos = 0 /\ line_buff.cursor_start_x \in Nat
          BY <4>1, Bounds DEF Inv, LineInv, LineOk, LineBuff
        <5> QED
          BY <4>1, <5>1, StartedOk DEF Inv, DrawnOk
      <4>2. CASE line_buff.len # 0
        BY <4>2 DEF Started
      <4> QED
        BY <4>1, <4>2
    <3>3. DrawnOk'
      BY <3>1, <3>2 DEF Inv, DrawnOk
    <3>4. ScreenShowsLine'
      BY <3>1, <3>2 DEF Inv, ScreenShowsLine
    <3> QED
      BY <1>1, <3>3, <3>4 DEF Inv
  <2>3. CASE Break(Started)
    BY <1>1, <1>3, <2>3 DEF Break, Inv
  <2>4. ASSUME NEW code \in KeyCode, Edited(code) PROVE Inv'
    BY <1>1, <2>4, EditShows DEF Inv
  <2> QED
    BY <1>9, <2>1, <2>2, <2>3, <2>4, KeyByteCases DEF Inv
<1>10. CASE \E k \in Keys, up \in BOOLEAN : \E b \in {[code |-> k.code, up |-> up]} :
              Sends(k, up) /\ (ModifierByte(b) \/ KeyByte(b))
  <2>1. PICK k \in Keys, up \in BOOLEAN :
          /\ Sends(k, up)
          /\ \/ ModifierByte([code |-> k.code, up |-> up])
             \/ KeyByte([code |-> k.code, up |-> up])
    BY <1>10
  <2> QED
    BY <1>8, <1>9, <2>1
<1> QED
  BY <1>4, <1>5, <1>6, <1>7, <1>10 DEF Next

(* For all sizes, keys and texts: the row of the cursor shows the line that*)
(* is edited, from its start and with nothing of its earlier forms behind  *)
(* it, and the cursor is where the next character goes (console.c:48-58,   *)
(* 82-105), while that is certain at all.                                  *)
THEOREM ScreenIsTheLine == Spec => []ScreenShowsLine
<1>1. Init => Inv
  BY InitLine DEF Inv, Init, DrawnOk, ScreenShowsLine
<1>2. Inv /\ [Next]_consoleVars => Inv'
  BY StepShows
<1>3. Inv => ScreenShowsLine
  BY DEF Inv
<1> QED
  BY <1>1, <1>2, <1>3, PTL DEF Spec

-----------------------------------------------------------------------------
(* The flags.  The code takes the second byte of a modifier for that of a  *)
(* key with two bytes, but leaves wait_2nd set, so the modifier after it   *)
(* is taken for one with two bytes as well, whatever it is.  What holds is *)
(* that the flags are right on a keyboard where no modifier has two.       *)
LEMMA FlagsStep ==
  OneByteModifiers /\ FlagsInv /\ [Next]_consoleVars => FlagsInv'
<1> SUFFICES ASSUME OneByteModifiers, FlagsInv, [Next]_consoleVars PROVE FlagsInv'
  OBVIOUS
<1>1. ASSUME UNCHANGED <<held, state>>, half' = wait_2nd' PROVE FlagsInv'
  BY <1>1 DEF FlagsInv
<1>2. CASE UNCHANGED consoleVars
  BY <1>2 DEF consoleVars, FlagsInv
<1>3. CASE PrefixByte
  BY <1>1, <1>3 DEF PrefixByte
<1>4. CASE ReadByte
  BY <1>4 DEF ReadByte, FlagsInv
<1>5. ASSUME NEW text \in Texts, con_write_buff(text) PROVE FlagsInv'
  BY <1>5 DEF con_write_buff, FlagsInv
<1>6. ASSUME NEW k \in Keys, NEW up \in BOOLEAN, Sends(k, up),
             ModifierByte([code |-> k.code, up |-> up])
      PROVE  FlagsInv'
  <2>1. k.code \in Modifier /\ k.ext = half /\ ~k.ext /\ half' = FALSE
    BY <1>6 DEF ModifierByte, Sends, OneByteModifiers
  <2>2. /\ UNCHANGED wait_2nd /\ half = FALSE /\ wait_2nd = FALSE
        /\ state' = IF up THEN state \ FlagOf(k.code, FALSE) ELSE state \cup FlagOf(k.code, FALSE)
    <3>1. k.ext \in BOOLEAN
      BY ConsoleAssumption
    <3> QED
      BY <1>6, <2>1, <3>1 DEF ModifierByte, _update_state, FlagsInv
  <2>3. held' = IF up THEN held \ {k} ELSE held \cup {k}
    BY <1>6, <2>1 DEF Sends
  <2>4. \A m \in held \cup {k} : m \in Keys /\ m.code \in Modifier /\ m.ext = FALSE
    BY <2>1, ConsoleAssumption DEF FlagsInv, OneByteModifiers
  <2>5. \A m \in held \cup {k} : m # k => FlagOf(m.code, FALSE) \cap FlagOf(k.code, FALSE) = {}
    <3> SUFFICES ASSUME NEW m \in held \cup {k}, m # k
                 PROVE  FlagOf(m.code, FALSE) \cap FlagOf(k.code, FALSE) = {}
      OBVIOUS
    <3>1. m.code # k.code
      BY <2>1, <2>4, ConsoleAssumption
    <3>2. m.code \in Modifier /\ k.code \in Modifier
      BY <2>1, <2>4
    <3> QED
      BY <3>1, <3>2 DEF FlagOf, Modifier
  <2>6. state = UNION {FlagOf(m.code, FALSE) : m \in held}
    BY <2>4 DEF FlagsInv
  <2>7. state' = UNION {FlagOf(m.code, FALSE) : m \in held'}
    BY <2>2, <2>3, <2>5, <2>6
  <2>8. \A m \in held' : FlagOf(m.code, m.ext) = FlagOf(m.code, FALSE)
    BY <2>3, <2>4
  <2>9. state' = UNION {FlagOf(m.code, m.ext) : m \in held'}
    BY <2>7, <2>8
  <2> QED
    BY <2>1, <2>2, <2>3, <2>4, <2>9 DEF FlagsInv
<1>7. ASSUME NEW k \in Keys, NEW up \in BOOLEAN, Sends(k, up),
             KeyByte([code |-> k.code, up |-> up])
      PROVE  FlagsInv'
  <2>1. k.code \notin Modifier /\ half' = FALSE /\ wait_2nd' = FALSE /\ UNCHANGED state
    BY <1>7 DEF KeyByte, Sends
  <2>2. held' = held
    BY <1>7, <2>1 DEF Sends, FlagsInv
  <2> QED
    BY <1>1, <2>1, <2>2
<1>8. CASE \E k \in Keys, up \in BOOLEAN : \E b \in {[code |-> k.code, up |-> up]} :
              Sends(k, up) /\ (ModifierByte(b) \/ KeyByte(b))
  <2>1. PICK k \in Keys, up \in BOOLEAN :
          /\ Sends(k, up)
          /\ \/ ModifierByte([code |-> k.code, up |-> up])
             \/ KeyByte([code |-> k.code, up |-> up])
    BY <1>8
  <2> QED
    BY <1>6, <1>7, <2>1
<1> QED
  BY <1>2, <1>3, <1>4, <1>5, <1>8 DEF Next

(* On a keyboard whose modifiers have one byte, the flags after the bytes  *)
(* of a key are always those of the modifiers that are held down: no press *)
(* or release is taken for that of another key (keyboard.c, kb_isr).       *)
THEOREM FlagsOfHeldKeys ==
  ASSUME OneByteModifiers
  PROVE  Spec => []FlagsAreHeldKeys
<1>1. Init => FlagsInv
  BY DEF Init, FlagsInv
<1>2. FlagsInv /\ [Next]_consoleVars => FlagsInv'
  BY OneByteModifiers, FlagsStep
<1>3. FlagsInv => FlagsAreHeldKeys
  BY DEF FlagsInv, FlagsAreHeldKeys
<1> QED
  BY <1>1, <1>2, <1>3, PTL DEF Spec
=============================================================================
