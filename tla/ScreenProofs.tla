---------------------------- MODULE ScreenProofs ----------------------------
(***************************************************************************)
(* The client's screen, for every capacity, height, lifetime and interval: *)
(* what the pane shows, that a line which comes does not move what one     *)
(* reads, and for how long a secret is kept and readable.                  *)
(***************************************************************************)
EXTENDS Screen, WindowProofs

(* Helpers of UiState as conditionals.                                     *)
LEMMA LowestHighest ==
  ASSUME NEW a \in Nat, NEW b \in Nat
  PROVE  /\ Lowest(a, b) = IF a <= b THEN a ELSE b
         /\ Highest(a, b) = IF a >= b THEN a ELSE b
<1>1. \E x \in {a, b} : \A y \in {a, b} : x <= y
  OBVIOUS
<1>2. Lowest(a, b) \in {a, b} /\ \A y \in {a, b} : Lowest(a, b) <= y
  BY <1>1 DEF Lowest, Min
<1>3. \E x \in {a, b} : \A y \in {a, b} : x >= y
  OBVIOUS
<1>4. Highest(a, b) \in {a, b} /\ \A y \in {a, b} : Highest(a, b) >= y
  BY <1>3 DEF Highest, Max
<1> QED
  BY <1>2, <1>4

(* The lines a pane of height h needs, at least one (h.max(1)).            *)
AtLeastOne(h) == IF h >= 1 THEN h ELSE 1

(* The clamped position leaves as many lines below the top of the pane as  *)
(* fit.                                                                    *)
LEMMA ClampEffect ==
  ASSUME NEW s \in Nat, NEW len \in Nat, NEW h \in Nat
  PROVE  /\ clamp_scroll(s, len, h) \in Nat
         /\ clamp_scroll(s, len, h) <= s
         /\ len <= AtLeastOne(h) => clamp_scroll(s, len, h) = 0
         /\ len >= AtLeastOne(h) =>
              /\ clamp_scroll(s, len, h) <= len - AtLeastOne(h)
              /\ s <= len - AtLeastOne(h) => clamp_scroll(s, len, h) = s
<1> DEFINE top == AtLeastOne(h)
<1>1. Highest(h, 1) = top
  BY LowestHighest DEF AtLeastOne
<1>2. top \in Nat
  BY DEF AtLeastOne
<1> HIDE DEF top
<1>3. saturating_sub(len, top) \in Nat
  BY <1>2 DEF saturating_sub
<1>4. clamp_scroll(s, len, h) = IF s <= saturating_sub(len, top) THEN s
                                ELSE saturating_sub(len, top)
  BY <1>1, <1>3, LowestHighest DEF clamp_scroll
<1>5. /\ clamp_scroll(s, len, h) \in Nat
      /\ clamp_scroll(s, len, h) <= s
      /\ len <= top => clamp_scroll(s, len, h) = 0
      /\ len >= top => /\ clamp_scroll(s, len, h) <= len - top
                       /\ s <= len - top => clamp_scroll(s, len, h) = s
  BY <1>2, <1>4 DEF saturating_sub
<1> QED
  BY <1>5 DEF top

-----------------------------------------------------------------------------
(* retain                                                                  *)

IsKept(f, q, n) ==
  f = [i \in 0..n |->
         IF i = 0 THEN <<>>
         ELSE IF Expired(q[i]) THEN f[i - 1] ELSE Append(f[i - 1], q[i])]

(* The recursive function behind retain exists.                            *)
LEMMA KeptExists ==
  ASSUME NEW q, NEW n \in Nat
  PROVE  \E f : IsKept(f, q, n)
<1> DEFINE T == {k \in Nat : ~ \E f : IsKept(f, q, k)}
<1>1. SUFFICES ASSUME T # {} PROVE FALSE
  OBVIOUS
<1>2. PICK k \in T : \A m \in T : k <= m
  <2>1. T \subseteq Nat
    OBVIOUS
  <2> HIDE DEF T
  <2> QED
    BY <1>1, <2>1, Least
<1>3. k # 0
  <2>1. IsKept([i \in 0..0 |-> <<>>], q, 0)
    BY DEF IsKept
  <2> QED
    BY <1>2, <2>1
<1>4. k \in Nat /\ k - 1 \in Nat /\ k - 1 \notin T
  BY <1>2, <1>3
<1>5. PICK f : IsKept(f, q, k - 1)
  BY <1>4
<1> DEFINE last == IF Expired(q[k]) THEN f[k - 1] ELSE Append(f[k - 1], q[k])
           g == [i \in 0..k |-> IF i = k THEN last ELSE f[i]]
<1>6. ASSUME NEW i \in 0..k
      PROVE  g[i] = IF i = 0 THEN <<>>
                    ELSE IF Expired(q[i]) THEN g[i - 1] ELSE Append(g[i - 1], q[i])
  <2>1. CASE i = k
    <3>1. g[i] = last /\ i # 0 /\ g[i - 1] = f[i - 1]
      BY <1>3, <1>4, <2>1
    <3> QED
      BY <2>1, <3>1
  <2>2. CASE i # k
    <3>1. i \in 0..(k - 1) /\ g[i] = f[i]
      BY <1>4, <2>2
    <3>2. f[i] = IF i = 0 THEN <<>>
                 ELSE IF Expired(q[i]) THEN f[i - 1] ELSE Append(f[i - 1], q[i])
      BY <1>5, <3>1 DEF IsKept
    <3>3. i # 0 => g[i - 1] = f[i - 1]
      BY <1>4, <2>2, <3>1
    <3> QED
      BY <3>1, <3>2, <3>3
  <2> QED
    BY <2>1, <2>2
<1>7. g = [i \in 0..k |-> g[i]]
  OBVIOUS
<1> HIDE DEF g
<1>8. IsKept(g, q, k)
  BY <1>6, <1>7 DEF IsKept
<1> QED
  BY <1>2, <1>8

(* What is kept is a line of q that has not expired, and there are no more *)
(* lines than before.                                                      *)
LEMMA RetainEffect ==
  ASSUME NEW S, NEW q \in Seq(S)
  PROVE  /\ retain(q) \in Seq(S)
         /\ Len(retain(q)) <= Len(q)
         /\ \A j \in 1..Len(retain(q)) : \E i \in 1..Len(q) :
              retain(q)[j] = q[i] /\ ~Expired(q[i])
<1> DEFINE f == CHOOSE g : IsKept(g, q, Len(q))
<1>0. Len(q) \in Nat
  OBVIOUS
<1>1. IsKept(f, q, Len(q))
  BY <1>0, KeptExists, Zenon
<1>2. retain(q) = f[Len(q)]
  BY DEF retain, IsKept
<1> HIDE DEF f
<1> DEFINE Good(n) == /\ f[n] \in Seq(S)
                      /\ Len(f[n]) <= n
                      /\ \A j \in 1..Len(f[n]) : \E i \in 1..n :
                           f[n][j] = q[i] /\ ~Expired(q[i])
           T == {n \in 0..Len(q) : ~Good(n)}
<1>3. T = {}
  <2> SUFFICES ASSUME T # {} PROVE FALSE
    OBVIOUS
  <2>1. PICK n \in T : \A m \in T : n <= m
    <3>1. T \subseteq Nat
      BY <1>0
    <3> HIDE DEF T
    <3> QED
      BY <3>1, Least
  <2>2. n \in 0..Len(q) /\ ~Good(n)
    BY <2>1
  <2>3. f[n] = IF n = 0 THEN <<>>
               ELSE IF Expired(q[n]) THEN f[n - 1] ELSE Append(f[n - 1], q[n])
    BY <1>1, <2>2 DEF IsKept
  <2>4. n # 0
    <3>1. n = 0 => f[n] = <<>>
      BY <2>3
    <3>2. <<>> \in Seq(S) /\ Len(<<>>) = 0
      OBVIOUS
    <3>3. ASSUME n = 0 PROVE Good(n)
      <4>1. f[n] = <<>> /\ f[n] \in Seq(S) /\ Len(f[n]) = 0
        BY <3>1, <3>2, <3>3
      <4>2. Len(f[n]) <= n
        BY <3>3, <4>1
      <4>3. \A j \in 1..Len(f[n]) : FALSE
        BY <4>1
      <4> QED
        BY <4>1, <4>2, <4>3
    <3> QED
      BY <2>2, <3>3
  <2>5. n - 1 \in 0..Len(q) /\ n \in 1..Len(q) /\ ~(n <= n - 1)
    BY <1>0, <2>2, <2>4
  <2>6. Good(n - 1)
    BY <2>1, <2>5
  <2> DEFINE r == f[n - 1]
  <2>7. /\ r \in Seq(S) /\ Len(r) \in Nat /\ Len(r) <= n - 1
        /\ \A j \in 1..Len(r) : \E i \in 1..(n - 1) :
             r[j] = q[i] /\ ~Expired(q[i])
    BY <2>6
  <2> HIDE DEF r
  <2>8. \A j \in 1..Len(r) : \E i \in 1..n : r[j] = q[i] /\ ~Expired(q[i])
    <3>1. 1..(n - 1) \subseteq 1..n
      BY <2>5
    <3> QED
      BY <2>7, <3>1
  <2>9. CASE Expired(q[n])
    <3>1. f[n] = r
      BY <2>3, <2>4, <2>9 DEF r
    <3>2. Len(r) <= n
      BY <2>5, <2>7
    <3> QED
      BY <2>2, <2>7, <2>8, <3>1, <3>2
  <2>10. CASE ~Expired(q[n])
    <3>1. f[n] = Append(r, q[n])
      BY <2>3, <2>4, <2>10 DEF r
    <3>2. q[n] \in S
      BY <2>5
    <3>3. /\ f[n] \in Seq(S) /\ Len(f[n]) = Len(r) + 1
          /\ f[n][Len(r) + 1] = q[n]
          /\ \A j \in 1..Len(r) : f[n][j] = r[j]
      BY <2>7, <3>1, <3>2
    <3>4. Len(f[n]) <= n
      BY <2>5, <2>7, <3>3
    <3>5. ASSUME NEW j \in 1..Len(f[n])
          PROVE  \E i \in 1..n : f[n][j] = q[i] /\ ~Expired(q[i])
      <4>1. CASE j \in 1..Len(r)
        BY <2>8, <3>3, <4>1
      <4>2. CASE j = Len(r) + 1
        <5>1. n \in 1..n
          BY <2>5
        <5> QED
          BY <2>10, <3>3, <4>2, <5>1
      <4> QED
        BY <2>7, <3>3, <4>1, <4>2
    <3> QED
      BY <2>2, <3>3, <3>4, <3>5
  <2> QED
    BY <2>9, <2>10
<1>4. Good(Len(q))
  <2>1. Len(q) \in 0..Len(q)
    BY <1>0
  <2> QED
    BY <1>3, <2>1
<1> QED
  BY <1>2, <1>4

-----------------------------------------------------------------------------
(* render and push                                                         *)

DrawnLine == [id: 1..MAX_LINES, body: {"text", "mask", "secret"}]

Top(len, s, h) == saturating_sub(saturating_sub(len, s), h)
Rows(len, s, h) == saturating_sub(len, s) - Top(len, s, h)

(* d shows the lines of msgs that end s above the last one.                *)
Shows(d, msgs, s, h) ==
  LET len == Len(msgs)
  IN  /\ Len(d) = Rows(len, s, h)
      /\ \A i \in 1..Rows(len, s, h) :
           d[i].id = msgs[Top(len, s, h) + i].id

(* The rows of the pane are lines that there are.                          *)
LEMMA RowsEffect ==
  ASSUME NEW len \in Nat, NEW s \in Nat, NEW h \in Nat
  PROVE  /\ Rows(len, s, h) \in Nat /\ Top(len, s, h) \in Nat
         /\ \A i \in 1..Rows(len, s, h) : Top(len, s, h) + i \in 1..len
  BY DEF Rows, Top, saturating_sub

(* A clamped position is not clamped again, and fills the pane.            *)
LEMMA ClampedRows ==
  ASSUME NEW s \in Nat, NEW len \in Nat, NEW h \in Nat,
         NEW t, t = clamp_scroll(s, len, h)
  PROVE  /\ t \in Nat
         /\ clamp_scroll(t, len, h) = t
         /\ Rows(len, t, h) = Lowest(h, len)
<1> DEFINE top == AtLeastOne(h)
<1>0. top \in Nat
  BY DEF AtLeastOne
<1>1. /\ t \in Nat
      /\ len <= top => t = 0
      /\ len >= top => t <= len - top
  BY ClampEffect
<1>2. /\ len <= top => clamp_scroll(t, len, h) = 0
      /\ len >= top => (t <= len - top => clamp_scroll(t, len, h) = t)
  BY <1>1, ClampEffect
<1>3. clamp_scroll(t, len, h) = t
  <2> HIDE DEF top
  <2> QED
    BY <1>0, <1>1, <1>2
<1>4. Rows(len, t, h) = IF h <= len THEN h ELSE len
  BY <1>1 DEF Rows, Top, saturating_sub, AtLeastOne
<1> QED
  BY <1>1, <1>3, <1>4, LowestHighest

(* What a draw does, whatever the height of the terminal.                  *)
LEMMA RenderEffect ==
  ASSUME ScreenAssumption, NEW view, view.messages \in Seq(DisplayMsg),
         view.scroll \in Nat, render(view)
  PROVE  /\ messages' = view.messages
         /\ last_inner_h' \in Heights
         /\ scroll' = clamp_scroll(view.scroll, Len(messages'), last_inner_h')
         /\ scroll' \in Nat
         /\ Shows(drawn', messages', scroll', last_inner_h')
         /\ drawn' \in Seq(DrawnLine)
         /\ \A i \in 1..Len(drawn') : \E k \in 1..Len(messages') :
              drawn'[i] = format_line(messages'[k])
<1> DEFINE v == view.messages
           len == Len(view.messages)
<1>1. PICK h \in Heights :
        /\ messages' = v
        /\ scroll' = clamp_scroll(view.scroll, len, h)
        /\ last_inner_h' = h
        /\ drawn' = [i \in 1..Rows(len, clamp_scroll(view.scroll, len, h), h) |->
                       format_line(v[Top(len, clamp_scroll(view.scroll, len, h), h) + i])]
  BY DEF render, Rows, Top
<1>2. len \in Nat /\ h \in Nat /\ v \in Seq(DisplayMsg)
  BY DEF ScreenAssumption
<1> HIDE DEF v, len
<1>3. scroll' \in Nat
  BY <1>1, <1>2, ClampedRows
<1> DEFINE n == Rows(len, scroll', h)
           t == Top(len, scroll', h)
<1>4. n \in Nat /\ \A i \in 1..n : t + i \in 1..len
  BY <1>2, <1>3, RowsEffect
<1>5. drawn' = [i \in 1..n |-> format_line(v[t + i])]
  BY <1>1
<1> HIDE DEF n, t
<1>6. ASSUME NEW i \in 1..n
      PROVE  /\ v[t + i] \in DisplayMsg
             /\ format_line(v[t + i]) \in DrawnLine
             /\ format_line(v[t + i]).id = v[t + i].id
  <2>1. v[t + i] \in DisplayMsg
    BY <1>2, <1>4 DEF len, v
  <2> QED
    BY <2>1 DEF DisplayMsg, DrawnLine, format_line
<1>7. drawn' \in Seq(DrawnLine) /\ Len(drawn') = n
  BY <1>4, <1>5, <1>6
<1>8. Shows(drawn', messages', scroll', last_inner_h')
  <2>1. messages' = v /\ Len(v) = len /\ last_inner_h' = h
    BY <1>1 DEF v, len
  <2>2. \A i \in 1..n : drawn'[i].id = v[t + i].id
    BY <1>5, <1>6
  <2> QED
    BY <1>7, <2>1, <2>2 DEF Shows, n, t
<1>9. ASSUME NEW i \in 1..Len(drawn')
      PROVE  \E k \in 1..Len(messages') : drawn'[i] = format_line(messages'[k])
  <2>1. i \in 1..n /\ t + i \in 1..len /\ drawn'[i] = format_line(v[t + i])
    BY <1>4, <1>5, <1>7
  <2> QED
    BY <1>1, <2>1 DEF v, len
<1> QED
  BY <1>1, <1>3, <1>7, <1>8, <1>9 DEF v, len

(* push appends, drops the oldest line of a full deque, and keeps what is  *)
(* on the screen of one who has scrolled back.                             *)
LEMMA PushEffect ==
  ASSUME ScreenAssumption, last_inner_h \in Nat,
         NEW view, view.messages \in Seq(DisplayMsg), view.scroll \in Nat,
         Len(view.messages) <= HISTORY_CAP, NEW line \in DisplayMsg,
         NEW v, v = push(view, line)
  PROVE  /\ v.messages \in Seq(DisplayMsg) /\ v.scroll \in Nat
         /\ Len(v.messages) <= HISTORY_CAP
         /\ \A k \in 1..Len(v.messages) :
              \/ v.messages[k] = line
              \/ \E i \in 1..Len(view.messages) :
                   v.messages[k] = view.messages[i]
         /\ Len(v.messages) > Len(view.messages) =>
              /\ v.messages = Append(view.messages, line)
              /\ v.scroll = clamp_scroll(
                   IF view.scroll > 0 THEN view.scroll + 1 ELSE view.scroll,
                   Len(view.messages) + 1, last_inner_h)
<1> DEFINE len == Len(view.messages)
           capped == len = HISTORY_CAP
           old == IF capped THEN Tail(view.messages) ELSE view.messages
           msgs == Append(old, line)
           s == IF view.scroll > 0 /\ ~capped THEN view.scroll + 1 ELSE view.scroll
<1>1. push(view, line) = [messages |-> msgs,
                          scroll |-> clamp_scroll(s, Len(msgs), last_inner_h)]
  BY DEF push
<1>2. HISTORY_CAP \in Nat \ {0} /\ len \in Nat
  BY DEF ScreenAssumption
<1>3. /\ old \in Seq(DisplayMsg)
      /\ Len(old) = IF capped THEN len - 1 ELSE len
      /\ \A k \in 1..Len(old) : \E i \in 1..len : old[k] = view.messages[i]
  <2>1. CASE capped
    <3>1. view.messages # <<>>
      BY <1>2, <2>1
    <3>2. /\ Tail(view.messages) \in Seq(DisplayMsg)
          /\ Len(Tail(view.messages)) = len - 1
          /\ \A k \in 1..(len - 1) : Tail(view.messages)[k] = view.messages[k + 1]
      BY <3>1
    <3>3. \A k \in 1..(len - 1) : k + 1 \in 1..len
      BY <1>2
    <3>4. old = Tail(view.messages)
      BY <2>1
    <3> QED
      BY <2>1, <3>2, <3>3, <3>4
  <2>2. CASE ~capped
    BY <2>2
  <2> QED
    BY <2>1, <2>2
<1> HIDE DEF old
<1>4. /\ msgs \in Seq(DisplayMsg) /\ Len(msgs) = Len(old) + 1 /\ Len(old) \in Nat
      /\ msgs[Len(old) + 1] = line
      /\ \A k \in 1..Len(old) : msgs[k] = old[k]
  BY <1>3
<1>5. /\ Len(msgs) \in Nat /\ Len(msgs) <= HISTORY_CAP
      /\ Len(msgs) > len => (~capped /\ Len(msgs) = len + 1)
  BY <1>2, <1>3, <1>4
<1>6. ~capped => msgs = Append(view.messages, line)
  BY DEF old
<1>7. ASSUME NEW k \in 1..Len(msgs)
      PROVE  msgs[k] = line \/ \E i \in 1..len : msgs[k] = view.messages[i]
  <2>1. k \in 1..Len(old) \/ k = Len(old) + 1
    BY <1>4
  <2> QED
    BY <1>3, <1>4, <2>1
<1>8. s \in Nat
  OBVIOUS
<1> HIDE DEF msgs
<1>9. clamp_scroll(s, Len(msgs), last_inner_h) \in Nat
  <2> HIDE DEF s
  <2> QED
    BY <1>5, <1>8, ClampEffect
<1>10. v.messages = msgs /\ v.scroll = clamp_scroll(s, Len(msgs), last_inner_h)
  BY <1>1
<1>11. ASSUME Len(v.messages) > len
       PROVE  /\ v.messages = Append(view.messages, line)
              /\ v.scroll = clamp_scroll(
                   IF view.scroll > 0 THEN view.scroll + 1 ELSE view.scroll,
                   len + 1, last_inner_h)
  <2>1. ~capped /\ Len(msgs) = len + 1
    BY <1>5, <1>10, <1>11
  <2>2. s = IF view.scroll > 0 THEN view.scroll + 1 ELSE view.scroll
    BY <2>1
  <2> HIDE DEF s, capped
  <2> QED
    BY <1>6, <1>10, <2>1, <2>2
<1> HIDE DEF s, capped
<1> QED
  BY <1>4, <1>5, <1>7, <1>9, <1>10, <1>11

-----------------------------------------------------------------------------
(* The pane                                                                *)

(* The parts of UiState that a draw sets, and what it puts on the screen.  *)
LinesOK ==
  /\ messages \in Seq(DisplayMsg)
  /\ Len(messages) <= HISTORY_CAP
  /\ scroll \in Nat
  /\ last_inner_h \in Heights
  /\ clamp_scroll(scroll, Len(messages), last_inner_h) = scroll

Pane ==
  /\ LinesOK
  /\ drawn \in Seq(DrawnLine)
  /\ Shows(drawn, messages, scroll, last_inner_h)

LoopOK ==
  /\ loop \in {"select", "sending", "ended"}
  /\ phase \in 0..(TICK - 1)
  /\ due \in BOOLEAN
  /\ pushed \in 0..MAX_LINES
  /\ asked \subseteq 1..MAX_LINES
  /\ since \in 0..LongestClear

(* The inductive invariant: the scroll position needs no clamping, and     *)
(* while the loop runs the terminal shows the lines it points at.          *)
PaneInv ==
  /\ LinesOK
  /\ drawn \in Seq(DrawnLine)
  /\ loop # "ended" => Shows(drawn, messages, scroll, last_inner_h)
  /\ LoopOK

(* A draw establishes what the pane needs.                                 *)
LEMMA RenderPane ==
  ASSUME ScreenAssumption, NEW view, view.messages \in Seq(DisplayMsg),
         Len(view.messages) <= HISTORY_CAP, view.scroll \in Nat, render(view)
  PROVE  Pane'
<1>1. /\ messages' = view.messages
      /\ last_inner_h' \in Heights
      /\ scroll' = clamp_scroll(view.scroll, Len(messages'), last_inner_h')
      /\ scroll' \in Nat
      /\ Shows(drawn', messages', scroll', last_inner_h')
      /\ drawn' \in Seq(DrawnLine)
  BY RenderEffect
<1>2. Len(messages') \in Nat /\ last_inner_h' \in Nat
  BY <1>1 DEF ScreenAssumption
<1>3. clamp_scroll(scroll', Len(messages'), last_inner_h') = scroll'
  <2>1. \A s, len, h \in Nat :
          clamp_scroll(clamp_scroll(s, len, h), len, h) = clamp_scroll(s, len, h)
    BY ClampedRows
  <2> QED
    BY <1>1, <1>2, <2>1
<1> QED
  BY <1>1, <1>3 DEF Pane, LinesOK

(* What can be pushed is a line.                                           *)
LEMMA NewLineType ==
  ASSUME ScreenAssumption, pushed \in 0..MAX_LINES, pushed < MAX_LINES,
         NEW e \in BOOLEAN
  PROVE  NewLine(e) \in DisplayMsg
  BY DEF NewLine, DisplayMsg, ScreenAssumption, LongestShown

(* Ctrl-R and the passing of time change lines in place.                   *)
LEMMA RevealEffect ==
  ASSUME ScreenAssumption, messages \in Seq(DisplayMsg)
  PROVE  /\ reveal_ephemerals \in Seq(DisplayMsg)
         /\ Len(reveal_ephemerals) = Len(messages)
         /\ \A i \in 1..Len(messages) :
              /\ reveal_ephemerals[i].id = messages[i].id
              /\ reveal_ephemerals[i].ephemeral = messages[i].ephemeral
              /\ reveal_ephemerals[i].age = messages[i].age
              /\ reveal_ephemerals[i].left =
                   IF messages[i].ephemeral THEN EPHEMERAL_REVEAL
                   ELSE messages[i].left
<1> DEFINE new(m) == [m EXCEPT !.left = IF m.ephemeral THEN EPHEMERAL_REVEAL
                                        ELSE @]
<1>1. ASSUME NEW m \in DisplayMsg
      PROVE  /\ new(m) \in DisplayMsg
             /\ new(m).id = m.id
             /\ new(m).ephemeral = m.ephemeral
             /\ new(m).age = m.age
             /\ new(m).left = IF m.ephemeral THEN EPHEMERAL_REVEAL ELSE m.left
  <2>1. /\ EPHEMERAL_REVEAL \in 0..EPHEMERAL_REVEAL
        /\ m \in [id: 1..MAX_LINES, ephemeral: BOOLEAN,
                  age: 0..LongestShown, left: 0..EPHEMERAL_REVEAL]
    BY DEF DisplayMsg, ScreenAssumption
  <2>2. new(m) = [id |-> m.id, ephemeral |-> m.ephemeral, age |-> m.age,
                  left |-> IF m.ephemeral THEN EPHEMERAL_REVEAL ELSE m.left]
    BY <2>1
  <2> HIDE DEF new
  <2> QED
    BY <2>1, <2>2 DEF DisplayMsg
<1>2. reveal_ephemerals = [i \in 1..Len(messages) |-> new(messages[i])]
  BY DEF reveal_ephemerals
<1>3. \A i \in 1..Len(messages) : messages[i] \in DisplayMsg
  OBVIOUS
<1> HIDE DEF new
<1>4. Len(messages) \in Nat
  OBVIOUS
<1> QED
  BY <1>1, <1>2, <1>3, <1>4

(* A unit of time: the age goes up, the time left goes down.               *)
LEMMA ElapseEffect ==
  ASSUME ScreenAssumption, messages \in Seq(DisplayMsg), Elapse
  PROVE  /\ messages' \in Seq(DisplayMsg)
         /\ Len(messages') = Len(messages)
         /\ \A i \in 1..Len(messages) :
              /\ messages'[i].id = messages[i].id
              /\ messages'[i].ephemeral = messages[i].ephemeral
              /\ messages'[i].age = IF messages[i].ephemeral
                                     THEN Lowest(messages[i].age + 1, LongestShown)
                                     ELSE 0
              /\ messages'[i].left = saturating_sub(messages[i].left, 1)
<1> DEFINE new(m) ==
      [m EXCEPT !.age = IF m.ephemeral THEN Lowest(@ + 1, LongestShown) ELSE 0,
                !.left = saturating_sub(@, 1)]
<1>1. ASSUME NEW m \in DisplayMsg
      PROVE  /\ new(m) \in DisplayMsg
             /\ new(m).id = m.id
             /\ new(m).ephemeral = m.ephemeral
             /\ new(m).age = IF m.ephemeral THEN Lowest(m.age + 1, LongestShown)
                             ELSE 0
             /\ new(m).left = saturating_sub(m.left, 1)
  <2>1. /\ LongestShown \in Nat /\ EPHEMERAL_REVEAL \in Nat
        /\ m \in [id: 1..MAX_LINES, ephemeral: BOOLEAN,
                  age: 0..LongestShown, left: 0..EPHEMERAL_REVEAL]
    BY DEF DisplayMsg, ScreenAssumption, LongestShown
  <2>2. new(m) = [id |-> m.id, ephemeral |-> m.ephemeral,
                  age |-> IF m.ephemeral THEN Lowest(m.age + 1, LongestShown)
                          ELSE 0,
                  left |-> saturating_sub(m.left, 1)]
    <3> DEFINE a == IF m.ephemeral THEN Lowest(m.age + 1, LongestShown) ELSE 0
               l == saturating_sub(m.left, 1)
    <3>1. new(m) = [m EXCEPT !.age = a, !.left = l]
      OBVIOUS
    <3> HIDE DEF a, l, new
    <3>2. [m EXCEPT !.age = a, !.left = l] =
            [id |-> m.id, ephemeral |-> m.ephemeral, age |-> a, left |-> l]
      <4> DEFINE r == [m EXCEPT !.age = a]
      <4>1. /\ r \in [id: {m.id}, ephemeral: {m.ephemeral}, age: {a},
                       left: {m.left}]
            /\ r.id = m.id /\ r.ephemeral = m.ephemeral /\ r.age = a
        BY <2>1
      <4>2. [m EXCEPT !.age = a, !.left = l] = [r EXCEPT !.left = l]
        OBVIOUS
      <4> HIDE DEF r
      <4>3. [r EXCEPT !.left = l] =
              [id |-> r.id, ephemeral |-> r.ephemeral, age |-> r.age, left |-> l]
        BY <4>1
      <4> QED
        BY <4>1, <4>2, <4>3
    <3> QED
      BY <3>1, <3>2 DEF a, l
  <2> HIDE DEF new
  <2>3. Lowest(m.age + 1, LongestShown) \in 0..LongestShown
    <3>1. m.age + 1 \in Nat
      BY <2>1
    <3> QED
      BY <2>1, <3>1, LowestHighest
  <2>4. saturating_sub(m.left, 1) \in 0..EPHEMERAL_REVEAL
    <3>1. m.left \in 0..EPHEMERAL_REVEAL
      BY <2>1
    <3> QED
      BY <2>1, <3>1 DEF saturating_sub
  <2>5. 0 \in 0..LongestShown
    BY <2>1
  <2> QED
    BY <2>1, <2>2, <2>3, <2>4, <2>5 DEF DisplayMsg
<1>2. messages' = [i \in 1..Len(messages) |-> new(messages[i])]
  <2>1. DOMAIN messages = 1..Len(messages)
    OBVIOUS
  <2>2. messages' = [i \in DOMAIN messages |-> new(messages[i])]
    BY Zenon DEF Elapse
  <2> QED
    BY <2>1, <2>2, Zenon
<1>3. Len(messages) \in Nat /\ \A i \in 1..Len(messages) : messages[i] \in DisplayMsg
  OBVIOUS
<1> HIDE DEF new
<1> QED
  BY <1>1, <1>2, <1>3

(* The scroll keys lead to a position.                                     *)
LEMMA ScrolledNat ==
  ASSUME ScreenAssumption, LinesOK, NEW key \in ScrollKeys
  PROVE  Scrolled(key) \in Nat
<1>1. /\ scroll \in Nat /\ Len(messages) \in Nat /\ last_inner_h \in Nat
  BY DEF LinesOK, ScreenAssumption
<1>2. Page \in Nat /\ Highest(last_inner_h, 1) \in Nat
  <2>1. saturating_sub(last_inner_h, 1) \in Nat
    BY <1>1 DEF saturating_sub
  <2> QED
    BY <1>1, <2>1, LowestHighest DEF Page
<1>3. /\ scroll_up(1) \in Nat /\ scroll_up(Page) \in Nat
  <2>1. scroll + 1 \in Nat /\ scroll + Page \in Nat
    BY <1>1, <1>2
  <2> QED
    BY <1>1, <2>1, ClampEffect DEF scroll_up
<1>4. /\ scroll_down(1) \in Nat /\ scroll_down(Page) \in Nat
      /\ scroll_to_oldest \in Nat
  BY <1>1, <1>2 DEF scroll_down, scroll_to_oldest, saturating_sub
<1> QED
  BY <1>3, <1>4 DEF Scrolled, ScrollKeys

(* The expiry only takes lines away.                                       *)
LEMMA TickEffect ==
  ASSUME ScreenAssumption, LinesOK, NEW v, v = tick_expire_ephemerals
  PROVE  /\ v.messages = retain(messages)
         /\ v.messages \in Seq(DisplayMsg)
         /\ Len(v.messages) <= Len(messages)
         /\ Len(v.messages) <= HISTORY_CAP
         /\ v.scroll \in Nat
<1>1. /\ messages \in Seq(DisplayMsg) /\ Len(messages) \in Nat
      /\ Len(messages) <= HISTORY_CAP /\ HISTORY_CAP \in Nat
      /\ scroll \in Nat /\ last_inner_h \in Nat
  BY DEF LinesOK, ScreenAssumption
<1> DEFINE r == retain(messages)
<1>2. r \in Seq(DisplayMsg) /\ Len(r) <= Len(messages) /\ Len(r) \in Nat
  BY <1>1, RetainEffect
<1>3. /\ v.messages = r
      /\ v.scroll = IF Len(r) < Len(messages)
                      THEN clamp_scroll(scroll, Len(r), last_inner_h)
                      ELSE scroll
  BY DEF tick_expire_ephemerals
<1> HIDE DEF r
<1>4. clamp_scroll(scroll, Len(r), last_inner_h) \in Nat
  BY <1>1, <1>2, ClampEffect
<1>5. Len(r) <= HISTORY_CAP
  BY <1>1, <1>2
<1> QED
  <2>1. v.scroll \in Nat
    BY <1>1, <1>3, <1>4
  <2> QED
    BY <1>2, <1>3, <1>5, <2>1 DEF r

(* The history of the Welcome is drawn from its end.                       *)
LEMMA PaneInit ==
  ASSUME ScreenAssumption, Init
  PROVE  PaneInv
<1> DEFINE line(i) == [id |-> i, ephemeral |-> FALSE, age |-> 0, left |-> 0]
<1>1. PICK n \in 0..HISTORY_LEN, h \in Heights :
        /\ pushed = n
        /\ messages = [i \in 1..n |-> line(i)]
        /\ last_inner_h = h
        /\ drawn = [i \in 1..Lowest(h, n) |->
                      format_line(messages[saturating_sub(n, h) + i])]
  BY DEF Init
<1>2. /\ n \in Nat /\ n <= HISTORY_CAP /\ n <= MAX_LINES /\ MAX_LINES \in Nat
      /\ h \in Nat
  BY DEF ScreenAssumption
<1>3. ASSUME NEW i \in 1..n
      PROVE  line(i) \in DisplayMsg /\ format_line(line(i)) = [id |-> i, body |-> "text"]
  <2>1. i \in 1..MAX_LINES
    BY <1>2
  <2> QED
    BY <2>1 DEF DisplayMsg, format_line, ScreenAssumption, LongestShown
<1>4. messages \in Seq(DisplayMsg) /\ Len(messages) = n
  <2> HIDE DEF line
  <2> QED
    BY <1>1, <1>2, <1>3
<1>5. scroll = 0 /\ clamp_scroll(0, n, h) = 0
  <2>1. clamp_scroll(0, n, h) \in Nat /\ clamp_scroll(0, n, h) <= 0
    BY <1>2, ClampEffect
  <2> QED
    BY <2>1 DEF Init
<1>6. /\ Rows(n, 0, h) = Lowest(h, n)
      /\ Top(n, 0, h) = saturating_sub(n, h)
  <2>1. Lowest(h, n) = IF h <= n THEN h ELSE n
    BY <1>2, LowestHighest
  <2> QED
    BY <1>2, <2>1 DEF Rows, Top, saturating_sub
<1> DEFINE m == Rows(n, 0, h)
           t == Top(n, 0, h)
<1>7. m \in Nat /\ t \in Nat /\ \A i \in 1..m : t + i \in 1..n
  BY <1>2, RowsEffect
<1>8. drawn = [i \in 1..m |-> format_line(messages[t + i])]
  <2>1. drawn = [i \in 1..Lowest(h, n) |->
                   format_line(messages[saturating_sub(n, h) + i])]
    BY <1>1
  <2>2. m = Lowest(h, n) /\ t = saturating_sub(n, h)
    BY <1>6
  <2> HIDE DEF m, t
  <2> QED
    BY <2>1, <2>2
<1> HIDE DEF m, t
<1>9. ASSUME NEW i \in 1..m
      PROVE  /\ format_line(messages[t + i]) \in DrawnLine
             /\ format_line(messages[t + i]).id = messages[t + i].id
  <2>1. t + i \in 1..n
    BY <1>7
  <2>2. messages[t + i] = line(t + i)
    BY <1>1, <2>1
  <2>3. format_line(messages[t + i]) = [id |-> t + i, body |-> "text"]
    BY <1>3, <2>1, <2>2
  <2>4. t + i \in 1..MAX_LINES /\ messages[t + i].id = t + i
    BY <1>2, <2>1, <2>2
  <2> QED
    BY <2>3, <2>4 DEF DrawnLine
<1>10. drawn \in Seq(DrawnLine) /\ Len(drawn) = m
  BY <1>7, <1>8, <1>9
<1>11. Shows(drawn, messages, scroll, last_inner_h)
  <2>1. \A i \in 1..m : drawn[i].id = messages[t + i].id
    BY <1>8, <1>9
  <2> QED
    <3>1. /\ Rows(Len(messages), scroll, last_inner_h) = m
          /\ Top(Len(messages), scroll, last_inner_h) = t
      BY <1>1, <1>4, <1>5 DEF m, t
    <3> QED
      BY <1>10, <2>1, <3>1, Zenon DEF Shows
<1>12. LoopOK
  <2>1. pushed \in 0..MAX_LINES
    BY <1>1, <1>2
  <2>2. phase \in 0..(TICK - 1) /\ since \in 0..LongestClear
    BY DEF Init, ScreenAssumption, LongestClear
  <2> QED
    BY <2>1, <2>2 DEF Init, LoopOK
<1> QED
  BY <1>1, <1>2, <1>4, <1>5, <1>10, <1>11, <1>12 DEF PaneInv, LinesOK

(* Every action keeps it: each draws the view that it leaves, or touches   *)
(* none of it.                                                             *)
LEMMA PaneStep ==
  ASSUME ScreenAssumption, PaneInv, [Next]_vars
  PROVE  PaneInv'
<1>1. /\ LinesOK /\ LoopOK /\ drawn \in Seq(DrawnLine)
      /\ messages \in Seq(DisplayMsg) /\ Len(messages) <= HISTORY_CAP
      /\ scroll \in Nat /\ last_inner_h \in Nat
  BY DEF PaneInv, LinesOK, ScreenAssumption
<1>2. ASSUME Pane', LoopOK' PROVE PaneInv'
  BY <1>2 DEF Pane, PaneInv
<1>3. View.messages = messages /\ View.scroll = scroll
  BY DEF View
<1>4. CASE OtherEvent
  <2>1. Pane'
    BY <1>1, <1>3, <1>4, RenderPane DEF OtherEvent
  <2>2. LoopOK'
    BY <1>1, <1>4 DEF OtherEvent, LoopOK, clock, history
  <2> QED
    BY <1>2, <2>1, <2>2
<1>5. CASE ScrollKey
  <2>1. PICK key \in ScrollKeys : render([View EXCEPT !.scroll = Scrolled(key)])
    BY <1>5 DEF ScrollKey
  <2> DEFINE v == [View EXCEPT !.scroll = Scrolled(key)]
  <2>2. v.messages = messages /\ v.scroll = Scrolled(key)
    BY DEF View
  <2>3. v.scroll \in Nat
    BY <1>1, <2>2, ScrolledNat
  <2> HIDE DEF v
  <2>4. Pane'
    BY <1>1, <2>1, <2>2, <2>3, RenderPane DEF v
  <2>5. LoopOK'
    BY <1>1, <1>5 DEF ScrollKey, LoopOK, clock, history
  <2> QED
    BY <1>2, <2>4, <2>5
<1>6. CASE CtrlR
  <2> DEFINE v == [View EXCEPT !.messages = reveal_ephemerals]
  <2>1. render(v)
    BY <1>6 DEF CtrlR
  <2>2. v.messages = reveal_ephemerals /\ v.scroll = scroll
    BY DEF View
  <2> HIDE DEF v
  <2>3. v.messages \in Seq(DisplayMsg) /\ Len(v.messages) <= HISTORY_CAP
    BY <1>1, <2>2, RevealEffect
  <2>4. Pane'
    BY <1>1, <2>1, <2>2, <2>3, RenderPane
  <2>5. asked' \subseteq 1..MAX_LINES
    <3>1. asked' = {messages[i].id : i \in 1..Len(messages)}
      BY <1>1, <1>6 DEF CtrlR
    <3>2. \A i \in 1..Len(messages) : messages[i].id \in 1..MAX_LINES
      <4>1. \A i \in 1..Len(messages) : messages[i] \in DisplayMsg
        BY <1>1
      <4> QED
        BY <4>1 DEF DisplayMsg
    <3> QED
      BY <3>1, <3>2
  <2>6. since' \in 0..LongestClear
    BY <1>6 DEF CtrlR, LongestClear, ScreenAssumption
  <2>7. LoopOK'
    BY <1>1, <1>6, <2>5, <2>6 DEF CtrlR, LoopOK, clock
  <2> QED
    BY <1>2, <2>4, <2>7
<1>7. CASE EnterSend
  <2>1. UNCHANGED <<messages, scroll, last_inner_h, drawn>> /\ loop # "ended"
    BY <1>7 DEF EnterSend
  <2>2. LoopOK'
    BY <1>1, <1>7 DEF EnterSend, LoopOK, clock, history
  <2>3. Pane'
    BY <1>1, <2>1 DEF PaneInv, Pane, LinesOK
  <2> QED
    BY <1>2, <2>2, <2>3
<1>8. CASE SendDone
  <2>1. Pane'
    BY <1>1, <1>3, <1>8, RenderPane DEF SendDone
  <2>2. LoopOK'
    BY <1>1, <1>8 DEF SendDone, LoopOK, clock, history
  <2> QED
    BY <1>2, <2>1, <2>2
<1>9. CASE Leave
  <2>1. LoopOK' /\ LinesOK' /\ loop' = "ended" /\ drawn' = <<>>
    BY <1>1, <1>9 DEF Leave, LoopOK, LinesOK, clock, history
  <2> QED
    BY <2>1 DEF PaneInv
<1>10. CASE NewMessage
  <2>1. PICK e \in BOOLEAN : render(push(View, NewLine(e)))
    BY <1>10 DEF NewMessage
  <2>2. NewLine(e) \in DisplayMsg
    BY <1>1, <1>10, NewLineType DEF NewMessage, LoopOK
  <2> DEFINE v == push(View, NewLine(e))
  <2>3. v.messages \in Seq(DisplayMsg) /\ v.scroll \in Nat
        /\ Len(v.messages) <= HISTORY_CAP
    BY <1>1, <1>3, <2>2, PushEffect
  <2> HIDE DEF v
  <2>4. Pane'
    BY <2>1, <2>3, RenderPane DEF v
  <2>5. LoopOK'
    BY <1>1, <1>10 DEF NewMessage, LoopOK, clock, history, ScreenAssumption
  <2> QED
    BY <1>2, <2>4, <2>5
<1>11. CASE Cleared
  <2>1. SystemLine \in DisplayMsg
    BY <1>1, <1>11, NewLineType DEF Cleared, LoopOK, SystemLine
  <2>2. /\ clear_messages.messages \in Seq(DisplayMsg)
        /\ clear_messages.scroll \in Nat
        /\ Len(clear_messages.messages) <= HISTORY_CAP
    BY DEF clear_messages, ScreenAssumption
  <2> DEFINE v == push(clear_messages, SystemLine)
  <2>3. /\ v.messages \in Seq(DisplayMsg) /\ v.scroll \in Nat
        /\ Len(v.messages) <= HISTORY_CAP
    BY <1>1, <2>1, <2>2, PushEffect
  <2> HIDE DEF v
  <2>4. Pane'
    BY <1>11, <2>3, RenderPane DEF v, Cleared
  <2>5. LoopOK'
    BY <1>1, <1>11 DEF Cleared, LoopOK, clock, history, ScreenAssumption
  <2> QED
    BY <1>2, <2>4, <2>5
<1>12. CASE TickArm
  <2> DEFINE v == tick_expire_ephemerals
  <2>1. /\ v.messages \in Seq(DisplayMsg) /\ v.scroll \in Nat
        /\ Len(v.messages) <= HISTORY_CAP
    BY <1>1, TickEffect
  <2> HIDE DEF v
  <2>2. Pane'
    BY <1>12, <2>1, RenderPane DEF v, TickArm
  <2>3. LoopOK'
    BY <1>1, <1>12 DEF TickArm, LoopOK, history
  <2> QED
    BY <1>2, <2>2, <2>3
<1>13. CASE Elapse
  <2>1. /\ UNCHANGED <<scroll, last_inner_h, loop, drawn, pushed, asked>>
        /\ loop # "ended"
    BY <1>13 DEF Elapse
  <2>2. messages' \in Seq(DisplayMsg) /\ Len(messages') = Len(messages)
        /\ \A i \in 1..Len(messages) : messages'[i].id = messages[i].id
    BY <1>1, <1>13, ElapseEffect
  <2>3. LinesOK' /\ drawn' \in Seq(DrawnLine)
    BY <1>1, <2>1, <2>2 DEF LinesOK
  <2>4. Shows(drawn', messages', scroll', last_inner_h')
    <3> DEFINE len == Len(messages)
    <3>1. \A i \in 1..Rows(len, scroll, last_inner_h) :
            Top(len, scroll, last_inner_h) + i \in 1..len
      BY <1>1, RowsEffect
    <3>2. Shows(drawn, messages, scroll, last_inner_h)
      BY <2>1 DEF PaneInv
    <3> QED
      BY <2>1, <2>2, <3>1, <3>2 DEF Shows
  <2>5. LoopOK'
    <3>1. /\ TICK \in Nat \ {0} /\ phase \in 0..(TICK - 1)
          /\ phase' = (phase + 1) % TICK
          /\ since' = Lowest(since + 1, LongestClear)
      BY <1>1, <1>13 DEF LoopOK, ScreenAssumption, Elapse
    <3>2. phase' \in 0..(TICK - 1) /\ due' \in BOOLEAN
      <4>1. phase' \in 0..(TICK - 1)
        BY <3>1
      <4>2. due' \in BOOLEAN
        BY <1>13, Zenon DEF Elapse
      <4> QED
        BY <4>1, <4>2
    <3>3. LongestClear \in Nat /\ since \in Nat /\ since + 1 \in Nat
      BY <1>1 DEF LoopOK, ScreenAssumption, LongestClear
    <3>4. since' \in 0..LongestClear
      BY <3>1, <3>3, LowestHighest
    <3> QED
      BY <1>1, <2>1, <3>2, <3>4 DEF LoopOK
  <2> QED
    BY <1>2, <2>3, <2>4, <2>5 DEF Pane
<1>14. CASE UNCHANGED vars
  BY <1>14 DEF vars, clock, history, PaneInv, LinesOK, LoopOK
<1> QED
  BY <1>4, <1>5, <1>6, <1>7, <1>8, <1>9, <1>10, <1>11, <1>12, <1>13, <1>14
     DEF Next, Returned

(* The invariant of the pane holds throughout.                             *)
LEMMA PaneInvariant == Spec => []PaneInv
<1>1. Init => PaneInv
  BY ScreenAssumption, PaneInit
<1>2. PaneInv /\ [Next]_vars => PaneInv'
  BY ScreenAssumption, PaneStep
<1> QED
  BY <1>1, <1>2, PTL DEF Spec

(* Every state of the screen is well-formed: in particular the deque never *)
(* exceeds HISTORY_CAP (UiState::push).                                    *)
THEOREM ScreenTypeCorrect == Spec => []TypeOK
<1>1. PaneInv => TypeOK
  BY DEF PaneInv, LinesOK, LoopOK, TypeOK, DrawnLine
<1> QED
  BY <1>1, PaneInvariant, PTL

(* Whatever was pushed, wiped or expired and however the terminal was      *)
(* resized, the pane shows as many lines as fit or there are (clamp_scroll *)
(* in push, tick_expire_ephemerals and render).                            *)
THEOREM PaneIsFull == Spec => []ViewFull
<1>1. ASSUME PaneInv PROVE ViewFull
  <2> SUFFICES ASSUME loop # "ended"
               PROVE  Len(drawn) = Lowest(last_inner_h, Len(messages))
    BY DEF ViewFull
  <2>1. /\ scroll \in Nat /\ Len(messages) \in Nat /\ last_inner_h \in Nat
        /\ clamp_scroll(scroll, Len(messages), last_inner_h) = scroll
        /\ Shows(drawn, messages, scroll, last_inner_h)
    BY <1>1, ScreenAssumption DEF PaneInv, LinesOK
  <2>2. Len(drawn) = Rows(Len(messages), scroll, last_inner_h)
    BY <2>1 DEF Shows
  <2>3. Rows(Len(messages), scroll, last_inner_h)
          = Lowest(last_inner_h, Len(messages))
    BY <2>1, ClampedRows
  <2> QED
    BY <2>2, <2>3
<1> QED
  BY <1>1, PaneInvariant, PTL

(* One line more, at an unchanged height: the position of one who has      *)
(* scrolled back goes up with it, so that the same lines are shown, and    *)
(* otherwise the new line is the last of the pane.                         *)
LEMMA LongerPane ==
  ASSUME NEW len \in Nat, NEW h \in Nat, h > 0, NEW s \in Nat,
         clamp_scroll(s, len, h) = s,
         NEW v, v = clamp_scroll(IF s > 0 THEN s + 1 ELSE s, len + 1, h),
         NEW t, t = clamp_scroll(v, len + 1, h)
  PROVE  /\ s > 0 => /\ Rows(len + 1, t, h) = Rows(len, s, h)
                     /\ Top(len + 1, t, h) = Top(len, s, h)
         /\ s = 0 => /\ Rows(len + 1, t, h) > 0
                     /\ Top(len + 1, t, h) + Rows(len + 1, t, h) = len + 1
<1>1. AtLeastOne(h) = h
  BY DEF AtLeastOne
<1>2. (len <= h => s = 0) /\ (len >= h => s <= len - h)
  <2>1. /\ len <= AtLeastOne(h) => clamp_scroll(s, len, h) = 0
        /\ len >= AtLeastOne(h) => clamp_scroll(s, len, h) <= len - AtLeastOne(h)
    BY ClampEffect
  <2> QED
    BY <1>1, <2>1
<1>3. len + 1 \in Nat
  OBVIOUS
<1>4. CASE s > 0
  <2>1. s + 1 \in Nat /\ len + 1 >= h /\ s + 1 <= (len + 1) - h
    BY <1>2, <1>4
  <2>2. v = clamp_scroll(s + 1, len + 1, h)
    BY <1>4
  <2>3. clamp_scroll(s + 1, len + 1, h) = s + 1
    <3>1. len + 1 >= AtLeastOne(h) => (s + 1 <= (len + 1) - AtLeastOne(h)
            => clamp_scroll(s + 1, len + 1, h) = s + 1)
      BY <1>3, <2>1, ClampEffect
    <3> QED
      BY <1>1, <2>1, <3>1
  <2>4. t = s + 1
    BY <2>2, <2>3
  <2> QED
    BY <1>4, <2>1, <2>4 DEF Rows, Top, saturating_sub
<1>5. CASE s = 0
  <2>1. v = clamp_scroll(0, len + 1, h)
    BY <1>5
  <2>2. clamp_scroll(0, len + 1, h) \in Nat /\ clamp_scroll(0, len + 1, h) <= 0
    BY <1>3, ClampEffect
  <2>3. t = 0
    BY <2>1, <2>2
  <2> QED
    BY <1>5, <2>3 DEF Rows, Top, saturating_sub
<1> QED
  BY <1>4, <1>5

(* The step of FollowsOrStays for a line pushed onto the view there is.    *)
LEMMA PushStep ==
  ASSUME ScreenAssumption, PaneInv, loop # "ended", NEW line \in DisplayMsg,
         render(push(View, line)), Len(messages') > Len(messages),
         last_inner_h' = last_inner_h, last_inner_h > 0
  PROVE  IF scroll > 0 THEN Ids(drawn') = Ids(drawn)
         ELSE drawn'[Len(drawn')].id = line.id
<1> DEFINE len == Len(messages)
           h == last_inner_h
           v == push(View, line)
<1>1. /\ scroll \in Nat /\ len \in Nat /\ h \in Nat /\ len <= HISTORY_CAP
      /\ clamp_scroll(scroll, len, h) = scroll
      /\ Shows(drawn, messages, scroll, h)
      /\ messages \in Seq(DisplayMsg) /\ drawn \in Seq(DrawnLine)
  <2>1. LinesOK /\ Shows(drawn, messages, scroll, h) /\ drawn \in Seq(DrawnLine)
    BY DEF PaneInv
  <2>2. Heights \subseteq Nat
    BY DEF ScreenAssumption
  <2>3. /\ scroll \in Nat /\ last_inner_h \in Nat
        /\ messages \in Seq(DisplayMsg) /\ Len(messages) <= HISTORY_CAP
        /\ clamp_scroll(scroll, Len(messages), last_inner_h) = scroll
    BY <2>1, <2>2, Zenon DEF LinesOK
  <2>4. Len(messages) \in Nat
    BY <2>3
  <2> QED
    BY <2>1, <2>3, <2>4, Zenon
<1>2. View.messages = messages /\ View.scroll = scroll
  BY DEF View
<1>3. /\ v.messages \in Seq(DisplayMsg) /\ v.scroll \in Nat
      /\ Len(v.messages) > len =>
           /\ v.messages = Append(messages, line)
           /\ v.scroll = clamp_scroll(IF scroll > 0 THEN scroll + 1 ELSE scroll,
                                      len + 1, h)
  BY <1>1, <1>2, PushEffect
<1> HIDE DEF v
<1>4. /\ messages' = v.messages
      /\ scroll' = clamp_scroll(v.scroll, Len(messages'), last_inner_h')
      /\ Shows(drawn', messages', scroll', last_inner_h')
      /\ drawn' \in Seq(DrawnLine)
  BY <1>3, RenderEffect DEF v
<1>5. /\ messages' = Append(messages, line)
      /\ v.scroll = clamp_scroll(IF scroll > 0 THEN scroll + 1 ELSE scroll,
                                 len + 1, h)
  BY <1>3, <1>4
<1>6. /\ Len(messages') = len + 1 /\ messages'[len + 1] = line
      /\ \A i \in 1..len : messages'[i] = messages[i]
  BY <1>1, <1>5
<1>7. scroll' = clamp_scroll(v.scroll, len + 1, h)
  BY <1>4, <1>6
<1> DEFINE n == Rows(len, scroll, h)
           m == Rows(len + 1, scroll', h)
           t == Top(len, scroll, h)
           u == Top(len + 1, scroll', h)
<1>8. /\ scroll > 0 => m = n /\ u = t
      /\ scroll = 0 => m > 0 /\ u + m = len + 1
  BY <1>1, <1>5, <1>7, LongerPane
<1>9. n \in Nat /\ \A i \in 1..n : t + i \in 1..len
  BY <1>1, RowsEffect
<1>10. /\ Len(drawn) = n /\ \A i \in 1..n : drawn[i].id = messages[t + i].id
       /\ Len(drawn') = m /\ \A i \in 1..m : drawn'[i].id = messages'[u + i].id
  BY <1>1, <1>4, <1>6 DEF Shows
<1> HIDE DEF n, m, t, u, len, h
<1>11. CASE scroll > 0
  <2>1. \A i \in 1..n : drawn'[i].id = drawn[i].id
    BY <1>6, <1>8, <1>9, <1>10, <1>11
  <2>2. DOMAIN drawn = 1..n /\ DOMAIN drawn' = 1..n
    BY <1>1, <1>4, <1>8, <1>10, <1>11
  <2>3. Ids(drawn') = Ids(drawn)
    BY <2>1, <2>2 DEF Ids
  <2> QED
    BY <1>11, <2>3
<1>12. CASE scroll = 0
  <2>1. Len(drawn') \in Nat
    BY <1>4
  <2>2. m \in 1..m /\ u + m = len + 1
    BY <1>8, <1>10, <1>12, <2>1
  <2>3. drawn'[m].id = line.id
    BY <1>6, <1>10, <2>2
  <2> QED
    BY <1>10, <1>12, <2>3
<1> QED
  BY <1>1, <1>11, <1>12

(* A line that comes while one reads the history leaves the screen as it   *)
(* is, and otherwise it is the last on the screen, as long as the deque is *)
(* not full (push bumps scroll, render clamps it).                         *)
THEOREM LinesFollowOrStay == Spec => FollowsOrStays
<1> DEFINE Step == (/\ Len(messages') > Len(messages)
                    /\ last_inner_h' = last_inner_h
                    /\ last_inner_h > 0)
                     => IF scroll > 0 THEN Ids(drawn') = Ids(drawn)
                        ELSE drawn'[Len(drawn')].id = pushed'
<1>1. ASSUME PaneInv, [Next]_vars PROVE [Step]_vars
  <2> USE ScreenAssumption
  <2> SUFFICES ASSUME Len(messages') > Len(messages),
                      last_inner_h' = last_inner_h, last_inner_h > 0
               PROVE  IF scroll > 0 THEN Ids(drawn') = Ids(drawn)
                      ELSE drawn'[Len(drawn')].id = pushed'
    OBVIOUS
  <2>1. /\ LinesOK /\ LoopOK /\ messages \in Seq(DisplayMsg)
        /\ Len(messages) \in Nat /\ scroll \in Nat /\ last_inner_h \in Nat
        /\ ~(Len(messages) > Len(messages))
    BY <1>1 DEF PaneInv, LinesOK, ScreenAssumption
  <2>2. View.messages = messages /\ View.scroll = scroll
    BY DEF View
  <2>3. CASE NewMessage
    <3>1. PICK e \in BOOLEAN : render(push(View, NewLine(e)))
      BY <2>3 DEF NewMessage
    <3>2. NewLine(e) \in DisplayMsg /\ loop # "ended"
      BY <1>1, <2>1, <2>3, NewLineType DEF NewMessage, LoopOK
    <3>3. NewLine(e).id = pushed'
      BY <2>3 DEF NewLine, NewMessage
    <3> QED
      BY <1>1, <3>1, <3>2, <3>3, PushStep
  <2>4. CASE Cleared
    <3> DEFINE v == push(clear_messages, SystemLine)
    <3>1. /\ SystemLine \in DisplayMsg /\ loop # "ended"
          /\ SystemLine.id = pushed' /\ render(v)
      BY <1>1, <2>1, <2>4, NewLineType DEF Cleared, LoopOK, SystemLine, NewLine
    <3>2. /\ clear_messages.messages = <<>> /\ clear_messages.scroll = 0
          /\ <<>> \in Seq(DisplayMsg) /\ Len(<<>>) = 0 /\ 0 <= HISTORY_CAP
      BY <1>1 DEF clear_messages, ScreenAssumption
    <3>3. /\ v.messages \in Seq(DisplayMsg) /\ v.scroll \in Nat
          /\ Len(v.messages) > 0 => v.messages = Append(<<>>, SystemLine)
      <4>1. /\ clear_messages.messages \in Seq(DisplayMsg)
            /\ clear_messages.scroll \in Nat
            /\ Len(clear_messages.messages) <= HISTORY_CAP
        BY <3>2
      <4>2. /\ v.messages \in Seq(DisplayMsg) /\ v.scroll \in Nat
            /\ Len(v.messages) > Len(clear_messages.messages) =>
                 v.messages = Append(clear_messages.messages, SystemLine)
        BY <1>1, <2>1, <3>1, <4>1, PushEffect
      <4> HIDE DEF v
      <4> QED
        BY <3>2, <4>2
    <3> HIDE DEF v
    <3>4. messages' = v.messages
      BY <1>1, <3>1, <3>3, RenderEffect
    <3>5. messages' = Append(<<>>, SystemLine)
      BY <2>1, <3>3, <3>4
    <3>6. Len(messages') = 1
      BY <3>5
    <3>7. Len(messages) = 0 /\ messages = <<>>
      BY <2>1, <3>6
    <3>8. scroll = 0
      <4>1. clamp_scroll(scroll, 0, last_inner_h) = scroll
        BY <2>1, <3>7 DEF LinesOK
      <4>2. 0 <= AtLeastOne(last_inner_h)
        BY <2>1 DEF AtLeastOne
      <4> QED
        BY <2>1, <4>1, <4>2, ClampEffect
    <3>9. clear_messages = View
      BY <3>7, <3>8 DEF clear_messages, View
    <3> QED
      BY <1>1, <3>1, <3>9, PushStep DEF v
  <2>5. ASSUME NEW view, view.messages \in Seq(DisplayMsg), view.scroll \in Nat,
               render(view), Len(view.messages) <= Len(messages)
        PROVE  FALSE
    <3>1. messages' = view.messages
      BY <1>1, <2>5, RenderEffect
    <3>2. Len(view.messages) \in Nat
      BY <2>5
    <3> QED
      BY <2>1, <2>5, <3>1, <3>2
  <2>6. CASE OtherEvent \/ SendDone
    <3>1. render(View)
      BY <2>6 DEF OtherEvent, SendDone
    <3>2. Len(View.messages) <= Len(messages)
      BY <2>1, <2>2
    <3> QED
      BY <2>1, <2>2, <2>5, <3>1, <3>2
  <2>7. CASE ScrollKey
    <3>1. PICK key \in ScrollKeys : render([View EXCEPT !.scroll = Scrolled(key)])
      BY <2>7 DEF ScrollKey
    <3> DEFINE v == [View EXCEPT !.scroll = Scrolled(key)]
    <3>2. v.messages = messages /\ v.scroll = Scrolled(key)
      BY DEF View
    <3>3. v.scroll \in Nat
      BY <1>1, <2>1, <3>2, ScrolledNat
    <3>4. render(v)
      BY <3>1
    <3> HIDE DEF v
    <3> QED
      BY <2>1, <2>5, <3>2, <3>3, <3>4
  <2>8. CASE CtrlR
    <3> DEFINE v == [View EXCEPT !.messages = reveal_ephemerals]
    <3>1. render(v)
      BY <2>8 DEF CtrlR
    <3>2. v.messages = reveal_ephemerals /\ v.scroll = scroll
      BY DEF View
    <3> HIDE DEF v
    <3>3. v.messages \in Seq(DisplayMsg) /\ Len(v.messages) = Len(messages)
      BY <1>1, <2>1, <3>2, RevealEffect
    <3> QED
      BY <2>1, <2>5, <3>1, <3>2, <3>3
  <2>9. CASE TickArm
    <3> DEFINE v == tick_expire_ephemerals
    <3>1. /\ v.messages \in Seq(DisplayMsg) /\ v.scroll \in Nat
          /\ Len(v.messages) <= Len(messages)
      BY <1>1, <2>1, TickEffect
    <3>2. render(v)
      BY <2>9 DEF TickArm
    <3> HIDE DEF v
    <3> QED
      BY <2>5, <3>1, <3>2
  <2>10. CASE EnterSend \/ Leave \/ UNCHANGED vars
    <3>1. messages' = messages
      BY <2>10 DEF EnterSend, Leave, vars
    <3> QED
      BY <2>1, <3>1
  <2>11. CASE Elapse
    <3>1. Len(messages') = Len(messages)
      BY <1>1, <2>1, <2>11, ElapseEffect
    <3> QED
      BY <2>1, <3>1
  <2> QED
    BY <1>1, <2>3, <2>4, <2>6, <2>7, <2>8, <2>9, <2>10, <2>11
       DEF Next, Returned
<1> QED
  BY <1>1, PaneInvariant, PTL DEF Spec, FollowsOrStays

-----------------------------------------------------------------------------
(* Secrets                                                                 *)

(* The units that may have passed since the last draw of the tick.         *)
Slack == IF due THEN TICK ELSE phase

(* A line of age at most EPHEMERAL_TTL and the slack k, readable only      *)
(* within the reveal window of the last Ctrl-R, which is c units ago and   *)
(* was for the lines of a.                                                 *)
LineSafe(m, a, c, k) ==
  /\ ~m.ephemeral => m.age = 0 /\ m.left = 0
  /\ m.left > 0 => m.id \in a /\ c + m.left <= EPHEMERAL_REVEAL
  /\ m.age < EPHEMERAL_TTL + k

RowSafe(d, a, c, k) ==
  d.body = "secret" => d.id \in a /\ c < EPHEMERAL_REVEAL + k

(* The inductive invariant of the secrets, if no write blocks the loop: a  *)
(* tick that is due has fired in this very unit.                           *)
SecretInv ==
  /\ due => phase = 0
  /\ \A i \in 1..Len(messages) : LineSafe(messages[i], asked, since, Slack)
  /\ \A i \in 1..Len(drawn) : RowSafe(drawn[i], asked, since, Slack)

(* A draw shows no more than the lines allow.                              *)
LEMMA RenderSecret ==
  ASSUME ScreenAssumption, NEW view, view.messages \in Seq(DisplayMsg),
         view.scroll \in Nat, render(view),
         since' \in Nat, Slack' \in Nat, due' => phase' = 0,
         \A i \in 1..Len(view.messages) :
           LineSafe(view.messages[i], asked', since', Slack')
  PROVE  SecretInv'
<1>1. /\ messages' = view.messages
      /\ \A i \in 1..Len(drawn') : \E k \in 1..Len(messages') :
           drawn'[i] = format_line(messages'[k])
  BY RenderEffect
<1>2. ASSUME NEW i \in 1..Len(drawn')
      PROVE  RowSafe(drawn'[i], asked', since', Slack')
  <2>1. PICK k \in 1..Len(messages') : drawn'[i] = format_line(messages'[k])
    BY <1>1
  <2> DEFINE m == messages'[k]
  <2>2. m \in DisplayMsg /\ LineSafe(m, asked', since', Slack')
    BY <1>1
  <2> HIDE DEF m
  <2>3. drawn'[i] = format_line(m)
    BY <2>1 DEF m
  <2>4. SUFFICES ASSUME drawn'[i].body = "secret"
                 PROVE  drawn'[i].id \in asked' /\ since' < EPHEMERAL_REVEAL + Slack'
    BY DEF RowSafe
  <2>5. drawn'[i].id = m.id /\ m.left # 0
    BY <2>3, <2>4 DEF format_line
  <2>6. m.left \in Nat /\ EPHEMERAL_REVEAL \in Nat
    BY <2>2 DEF DisplayMsg, ScreenAssumption
  <2>7. m.left > 0
    BY <2>5, <2>6
  <2>8. m.id \in asked' /\ since' + m.left <= EPHEMERAL_REVEAL
    BY <2>2, <2>7 DEF LineSafe
  <2>9. \A c, l, w, s \in Nat : l > 0 /\ c + l <= w => c < w + s
    OBVIOUS
  <2>10. since' < EPHEMERAL_REVEAL + Slack'
    BY <2>6, <2>7, <2>8, <2>9
  <2> QED
    BY <2>5, <2>8, <2>10
<1> QED
  BY <1>1, <1>2 DEF SecretInv

(* Every action keeps it: the tick takes away what has expired before the  *)
(* clock may advance again, and a line is only revealed by Ctrl-R.         *)
LEMMA SecretStep ==
  ASSUME ScreenAssumption, ~MayBlock, PaneInv, PaneInv', SecretInv, [Next]_vars
  PROVE  SecretInv'
<1>1. /\ LinesOK /\ LoopOK /\ LoopOK' /\ drawn \in Seq(DrawnLine)
      /\ messages \in Seq(DisplayMsg) /\ Len(messages) <= HISTORY_CAP
      /\ scroll \in Nat /\ last_inner_h \in Nat /\ Len(messages) \in Nat
  BY DEF PaneInv, LinesOK, ScreenAssumption
<1>2. /\ TICK \in Nat \ {0} /\ EPHEMERAL_TTL \in Nat \ {0}
      /\ EPHEMERAL_REVEAL \in Nat \ {0}
  BY DEF ScreenAssumption
<1>3. /\ phase \in Nat /\ since \in Nat /\ Slack \in Nat
      /\ since' \in Nat /\ Slack' \in Nat
  BY <1>1, <1>2 DEF LoopOK, Slack
<1>4. /\ due => phase = 0
      /\ \A i \in 1..Len(messages) : LineSafe(messages[i], asked, since, Slack)
      /\ \A i \in 1..Len(drawn) : RowSafe(drawn[i], asked, since, Slack)
  BY DEF SecretInv
<1>5. View.messages = messages /\ View.scroll = scroll
  BY DEF View
<1>6. ASSUME NEW e \in BOOLEAN, NEW k \in Nat, NEW a, NEW c
      PROVE  LineSafe(NewLine(e), a, c, k)
  BY <1>2 DEF LineSafe, NewLine
<1>7. CASE OtherEvent \/ SendDone
  <2>1. /\ render(View) /\ due' = due /\ phase' = phase /\ since' = since
        /\ asked' = asked /\ Slack' = Slack
    BY <1>7 DEF OtherEvent, SendDone, clock, history, Slack
  <2> QED
    BY <1>1, <1>3, <1>4, <1>5, <2>1, RenderSecret
<1>8. CASE ScrollKey
  <2>1. PICK key \in ScrollKeys : render([View EXCEPT !.scroll = Scrolled(key)])
    BY <1>8 DEF ScrollKey
  <2> DEFINE v == [View EXCEPT !.scroll = Scrolled(key)]
  <2>2. v.messages = messages /\ v.scroll = Scrolled(key)
    BY DEF View
  <2>3. v.scroll \in Nat
    BY <1>1, <2>2, ScrolledNat
  <2>4. /\ render(v) /\ due' = due /\ phase' = phase /\ since' = since
        /\ asked' = asked /\ Slack' = Slack
    BY <1>8, <2>1 DEF ScrollKey, clock, history, Slack
  <2> HIDE DEF v
  <2> QED
    BY <1>1, <1>3, <1>4, <2>2, <2>3, <2>4, RenderSecret
<1>9. CASE CtrlR
  <2> DEFINE v == [View EXCEPT !.messages = reveal_ephemerals]
  <2>1. /\ render(v) /\ due' = due /\ phase' = phase /\ since' = 0
        /\ asked' = {messages[i].id : i \in 1..Len(messages)} /\ Slack' = Slack
    BY <1>1, <1>9 DEF CtrlR, clock, Slack
  <2>2. v.messages = reveal_ephemerals /\ v.scroll = scroll
    BY DEF View
  <2> HIDE DEF v
  <2>3. /\ v.messages \in Seq(DisplayMsg)
        /\ Len(v.messages) = Len(messages)
    BY <1>1, <2>2, RevealEffect
  <2>4. ASSUME NEW i \in 1..Len(messages)
        PROVE  LineSafe(v.messages[i], asked', since', Slack')
    <3> DEFINE m == messages[i]
               r == reveal_ephemerals[i]
    <3>1. /\ r.id = m.id /\ r.ephemeral = m.ephemeral /\ r.age = m.age
          /\ r.left = IF m.ephemeral THEN EPHEMERAL_REVEAL ELSE m.left
      BY <1>1, RevealEffect
    <3>2. m \in DisplayMsg /\ LineSafe(m, asked, since, Slack)
      BY <1>1, <1>4
    <3>3. m.id \in asked'
      BY <2>1
    <3> HIDE DEF m, r
    <3>4. ~r.ephemeral => r.age = 0 /\ r.left = 0
      BY <3>1, <3>2 DEF LineSafe
    <3>5. r.left > 0 => r.id \in asked' /\ since' + r.left <= EPHEMERAL_REVEAL
      <4>1. CASE m.ephemeral
        BY <1>2, <2>1, <3>1, <3>3, <4>1
      <4>2. CASE ~m.ephemeral
        BY <1>2, <3>1, <3>2, <4>2 DEF LineSafe
      <4> QED
        BY <4>1, <4>2
    <3>6. r.age < EPHEMERAL_TTL + Slack'
      BY <2>1, <3>1, <3>2 DEF LineSafe
    <3>7. LineSafe(r, asked', since', Slack')
      BY <3>4, <3>5, <3>6 DEF LineSafe
    <3> QED
      BY <2>2, <3>7 DEF r
  <2> QED
    BY <1>1, <1>3, <1>4, <2>1, <2>2, <2>3, <2>4, RenderSecret
<1>10. CASE EnterSend \/ UNCHANGED vars
  <2>1. /\ UNCHANGED <<messages, drawn, asked, since, due, phase>>
        /\ Slack' = Slack
    BY <1>10 DEF EnterSend, vars, clock, history, Slack
  <2> QED
    BY <1>4, <2>1 DEF SecretInv
<1>11. CASE Leave
  <2>1. /\ UNCHANGED <<messages, asked, since, due, phase>>
        /\ Slack' = Slack /\ drawn' = <<>>
    BY <1>11 DEF Leave, clock, history, Slack
  <2>2. \A i \in 1..Len(drawn') : FALSE
    BY <2>1
  <2> QED
    BY <1>4, <2>1, <2>2 DEF SecretInv
<1>12. CASE NewMessage
  <2>1. PICK e \in BOOLEAN : render(push(View, NewLine(e)))
    BY <1>12 DEF NewMessage
  <2>2. NewLine(e) \in DisplayMsg
    BY <1>1, <1>12, NewLineType DEF NewMessage, LoopOK
  <2>3. /\ due' = due /\ phase' = phase /\ since' = since
        /\ asked' = asked /\ Slack' = Slack
    BY <1>12 DEF NewMessage, clock, history, Slack
  <2> DEFINE v == push(View, NewLine(e))
  <2>4. /\ v.messages \in Seq(DisplayMsg) /\ v.scroll \in Nat
        /\ \A k \in 1..Len(v.messages) :
             \/ v.messages[k] = NewLine(e)
             \/ \E i \in 1..Len(messages) : v.messages[k] = messages[i]
    <3>0. /\ View.messages \in Seq(DisplayMsg) /\ View.scroll \in Nat
          /\ Len(View.messages) <= HISTORY_CAP
      BY <1>1, <1>5
    <3>1. /\ v.messages \in Seq(DisplayMsg) /\ v.scroll \in Nat
          /\ \A k \in 1..Len(v.messages) :
               \/ v.messages[k] = NewLine(e)
               \/ \E i \in 1..Len(View.messages) :
                    v.messages[k] = View.messages[i]
      BY <1>1, <2>2, <3>0, PushEffect
    <3> HIDE DEF v
    <3> QED
      BY <1>5, <3>1
  <2> HIDE DEF v
  <2>5. LineSafe(NewLine(e), asked, since, Slack)
    BY <1>3, <1>6
  <2>6. \A k \in 1..Len(v.messages) : LineSafe(v.messages[k], asked', since', Slack')
    BY <1>4, <2>3, <2>4, <2>5
  <2>7. render(v)
    BY <2>1 DEF v
  <2> QED
    BY <1>3, <1>4, <2>3, <2>4, <2>6, <2>7, RenderSecret
<1>13. CASE Cleared
  <2>1. SystemLine \in DisplayMsg
    BY <1>1, <1>13, NewLineType DEF Cleared, LoopOK, SystemLine
  <2>2. /\ clear_messages.messages \in Seq(DisplayMsg)
        /\ clear_messages.scroll \in Nat
        /\ Len(clear_messages.messages) <= HISTORY_CAP
        /\ Len(clear_messages.messages) = 0
    BY <1>2 DEF clear_messages, ScreenAssumption
  <2>3. /\ due' = due /\ phase' = phase /\ since' = since
        /\ asked' = asked /\ Slack' = Slack
    BY <1>13 DEF Cleared, clock, history, Slack
  <2> DEFINE v == push(clear_messages, SystemLine)
  <2>4. /\ v.messages \in Seq(DisplayMsg) /\ v.scroll \in Nat
        /\ \A k \in 1..Len(v.messages) :
             \/ v.messages[k] = SystemLine
             \/ \E i \in 1..Len(clear_messages.messages) :
                  v.messages[k] = clear_messages.messages[i]
    BY <1>1, <2>1, <2>2, PushEffect
  <2> HIDE DEF v
  <2>5. \A i \in 1..Len(clear_messages.messages) : FALSE
    BY <2>2
  <2>6. LineSafe(SystemLine, asked, since, Slack)
    BY <1>3, <1>6 DEF SystemLine
  <2>7. \A k \in 1..Len(v.messages) : LineSafe(v.messages[k], asked', since', Slack')
    BY <2>3, <2>4, <2>5, <2>6
  <2>8. render(v)
    BY <1>13 DEF v, Cleared
  <2> QED
    BY <1>3, <1>4, <2>3, <2>4, <2>7, <2>8, RenderSecret
<1>14. CASE TickArm
  <2>1. /\ due /\ due' = FALSE /\ phase' = phase /\ phase = 0
        /\ since' = since /\ asked' = asked /\ Slack' = 0
    BY <1>4, <1>14 DEF TickArm, history, Slack
  <2> DEFINE v == tick_expire_ephemerals
  <2>2. /\ v.messages \in Seq(DisplayMsg) /\ v.scroll \in Nat
        /\ v.messages = retain(messages)
    BY <1>1, TickEffect
  <2>3. render(v)
    BY <1>14 DEF TickArm
  <2> HIDE DEF v
  <2>4. ASSUME NEW k \in 1..Len(v.messages)
        PROVE  LineSafe(v.messages[k], asked', since', Slack')
    <3>1. PICK i \in 1..Len(messages) :
            v.messages[k] = messages[i] /\ ~Expired(messages[i])
      <4>1. \A j \in 1..Len(retain(messages)) : \E i \in 1..Len(messages) :
              retain(messages)[j] = messages[i] /\ ~Expired(messages[i])
        BY <1>1, RetainEffect
      <4> QED
        BY <2>2, <4>1
    <3> DEFINE m == messages[i]
    <3>2. m \in DisplayMsg /\ LineSafe(m, asked, since, Slack) /\ ~Expired(m)
      BY <1>1, <1>4, <3>1
    <3> HIDE DEF m
    <3>3. m.age \in Nat
      BY <3>2 DEF DisplayMsg
    <3>4. m.age < EPHEMERAL_TTL + 0
      <4>1. CASE m.ephemeral
        BY <1>2, <3>2, <3>3, <4>1 DEF Expired
      <4>2. CASE ~m.ephemeral
        BY <1>2, <3>2, <4>2 DEF LineSafe
      <4> QED
        BY <4>1, <4>2
    <3>5. LineSafe(m, asked', since', Slack')
      BY <2>1, <3>2, <3>4 DEF LineSafe
    <3> QED
      BY <3>1, <3>5 DEF m
  <2> QED
    BY <1>3, <2>1, <2>2, <2>3, <2>4, RenderSecret
<1>15. CASE Elapse
  <2>1. /\ ~due /\ asked' = asked /\ drawn' = drawn
        /\ since' = Lowest(since + 1, LongestClear)
        /\ phase' = (phase + 1) % TICK
    BY <1>15 DEF Elapse
  <2>2. /\ due' => phase' = 0
        /\ ~due' => phase' # 0
    BY <1>15, <2>1 DEF Elapse
  <2>3. Slack = phase /\ Slack' = Slack + 1
    <3>1. Slack = phase
      BY <2>1 DEF Slack
    <3>2. phase \in 0..(TICK - 1)
      BY <1>1 DEF LoopOK
    <3>3. phase' = IF phase + 1 = TICK THEN 0 ELSE phase + 1
      BY <1>2, <2>1, <3>2
    <3>4. CASE phase + 1 = TICK
      <4>1. due'
        BY <2>2, <3>3, <3>4
      <4> QED
        BY <3>1, <3>4, <4>1 DEF Slack
    <3>5. CASE phase + 1 # TICK
      <4>1. phase' = phase + 1 /\ phase' # 0
        BY <1>3, <3>3, <3>5
      <4>2. ~due'
        BY <2>2, <4>1
      <4> QED
        BY <3>1, <4>1, <4>2 DEF Slack
    <3> QED
      BY <3>4, <3>5, <3>1
  <2>4. since' <= since + 1
    <3>1. LongestClear \in Nat /\ since + 1 \in Nat
      BY <1>2, <1>3 DEF LongestClear
    <3> QED
      BY <2>1, <3>1, LowestHighest
  <2>5. /\ messages' \in Seq(DisplayMsg) /\ Len(messages') = Len(messages)
        /\ \A i \in 1..Len(messages) :
              /\ messages'[i].id = messages[i].id
              /\ messages'[i].ephemeral = messages[i].ephemeral
              /\ messages'[i].age = IF messages[i].ephemeral
                                     THEN Lowest(messages[i].age + 1, LongestShown)
                                     ELSE 0
              /\ messages'[i].left = saturating_sub(messages[i].left, 1)
    BY <1>1, <1>15, ElapseEffect
  <2>6. ASSUME NEW i \in 1..Len(messages)
        PROVE  LineSafe(messages'[i], asked', since', Slack')
    <3> DEFINE m == messages[i]
               r == messages'[i]
    <3>1. /\ r.id = m.id /\ r.ephemeral = m.ephemeral
          /\ r.age = IF m.ephemeral THEN Lowest(m.age + 1, LongestShown) ELSE 0
          /\ r.left = saturating_sub(m.left, 1)
      BY <2>5
    <3>2. m \in DisplayMsg /\ LineSafe(m, asked, since, Slack)
      BY <1>1, <1>4
    <3> HIDE DEF m, r
    <3>3. m.age \in Nat /\ m.left \in Nat /\ LongestShown \in Nat
      BY <1>2, <3>2 DEF DisplayMsg, LongestShown
    <3>4. /\ m.age < EPHEMERAL_TTL + Slack
          /\ ~m.ephemeral => m.left = 0
          /\ m.left > 0 => m.id \in asked /\ since + m.left <= EPHEMERAL_REVEAL
      BY <3>2 DEF LineSafe
    <3>5. r.left = IF m.left > 1 THEN m.left - 1 ELSE 0
      BY <3>1 DEF saturating_sub
    <3>6. ~r.ephemeral => r.age = 0 /\ r.left = 0
      BY <3>1, <3>4, <3>5
    <3>7. r.left > 0 => r.id \in asked' /\ since' + r.left <= EPHEMERAL_REVEAL
      <4>1. SUFFICES ASSUME r.left > 0
                     PROVE  r.id \in asked' /\ since' + r.left <= EPHEMERAL_REVEAL
        OBVIOUS
      <4>2. m.left > 1 /\ r.left = m.left - 1
        BY <3>3, <3>5, <4>1
      <4>3. m.id \in asked /\ since + m.left <= EPHEMERAL_REVEAL
        BY <3>3, <3>4, <4>2
      <4>4. since' + r.left <= EPHEMERAL_REVEAL
        BY <1>2, <1>3, <2>4, <3>3, <4>2, <4>3
      <4> QED
        BY <2>1, <3>1, <4>3, <4>4
    <3>8. r.age < EPHEMERAL_TTL + (Slack + 1)
      <4>1. Lowest(m.age + 1, LongestShown) <= m.age + 1
            /\ Lowest(m.age + 1, LongestShown) \in Nat
        <5>1. m.age + 1 \in Nat
          BY <3>3
        <5> QED
          BY <3>3, <5>1, LowestHighest
      <4>2. r.age \in Nat /\ r.age <= m.age + 1
        BY <3>1, <3>3, <4>1
      <4> QED
        BY <1>2, <1>3, <3>3, <3>4, <4>2
    <3>9. LineSafe(r, asked', since', Slack')
      BY <2>3, <3>6, <3>7, <3>8 DEF LineSafe
    <3> QED
      BY <3>9 DEF r
  <2>7. ASSUME NEW i \in 1..Len(drawn)
        PROVE  RowSafe(drawn[i], asked, since', Slack + 1)
    <3>1. RowSafe(drawn[i], asked, since, Slack)
      BY <1>4
    <3>2. since < EPHEMERAL_REVEAL + Slack => since' < EPHEMERAL_REVEAL + (Slack + 1)
      BY <1>2, <1>3, <2>4
    <3> QED
      BY <3>1, <3>2 DEF RowSafe
  <2> QED
    BY <2>1, <2>2, <2>3, <2>5, <2>6, <2>7 DEF SecretInv
<1> QED
  BY <1>7, <1>8, <1>9, <1>10, <1>11, <1>12, <1>13, <1>14, <1>15
     DEF Next, Returned

(* The invariant of the secrets holds if no write blocks the loop.         *)
LEMMA SecretInvariant ==
  ASSUME ~MayBlock
  PROVE  Spec => []SecretInv
<1>1. Init => SecretInv
  <2> SUFFICES ASSUME Init PROVE SecretInv
    OBVIOUS
  <2> DEFINE line(i) == [id |-> i, ephemeral |-> FALSE, age |-> 0, left |-> 0]
  <2>1. PICK n \in 0..HISTORY_LEN, h \in Heights :
          /\ messages = [i \in 1..n |-> line(i)]
          /\ drawn = [i \in 1..Lowest(h, n) |->
                        format_line(messages[saturating_sub(n, h) + i])]
    BY DEF Init
  <2>2. /\ n \in Nat /\ h \in Nat /\ EPHEMERAL_TTL \in Nat \ {0}
        /\ TICK \in Nat \ {0}
    BY ScreenAssumption DEF ScreenAssumption
  <2>3. /\ due /\ phase = 0 /\ Slack = TICK
    BY DEF Init, Slack
  <2>4. Len(messages) = n
    BY <2>1, <2>2
  <2>5. ASSUME NEW i \in 1..n
        PROVE  LineSafe(messages[i], asked, since, Slack)
    <3>1. messages[i] = line(i)
      BY <2>1
    <3> QED
      BY <2>2, <2>3, <3>1 DEF LineSafe
  <2>6. Lowest(h, n) = IF h <= n THEN h ELSE n
    BY <2>2, LowestHighest
  <2>7. Lowest(h, n) \in Nat /\ Len(drawn) = Lowest(h, n)
    BY <2>1, <2>2, <2>6
  <2>8. ASSUME NEW i \in 1..Lowest(h, n)
        PROVE  RowSafe(drawn[i], asked, since, Slack)
    <3>1. saturating_sub(n, h) + i \in 1..n
      BY <2>2, <2>6 DEF saturating_sub
    <3>2. drawn[i] = format_line(line(saturating_sub(n, h) + i))
      BY <2>1, <3>1
    <3>3. drawn[i].body = "text"
      BY <3>2 DEF format_line
    <3> QED
      BY <3>3 DEF RowSafe
  <2> QED
    BY <2>3, <2>4, <2>5, <2>7, <2>8 DEF SecretInv
<1>2. PaneInv /\ PaneInv' /\ SecretInv /\ [Next]_vars => SecretInv'
  BY ScreenAssumption, SecretStep
<1> QED
  BY <1>1, <1>2, PaneInvariant, PTL DEF Spec

(* Unless a write blocks the loop, a secret is readable on the terminal    *)
(* only if it was there when Ctrl-R was last pressed, and for no longer    *)
(* than the reveal window and one tick (reveal_ephemerals, format_line,    *)
(* the re-draw by the tick).                                               *)
THEOREM SecretsStayMasked ==
  ASSUME ~MayBlock
  PROVE  Spec => []SecretMasked
<1>1. PaneInv /\ SecretInv => SecretMasked
  <2> SUFFICES ASSUME PaneInv, SecretInv, NEW i \in DOMAIN drawn,
                      drawn[i].body = "secret"
               PROVE  drawn[i].id \in asked /\ since < LongestClear
    BY DEF SecretMasked
  <2>1. i \in 1..Len(drawn)
    BY DEF PaneInv
  <2>2. drawn[i].id \in asked /\ since < EPHEMERAL_REVEAL + Slack
    BY <2>1 DEF SecretInv, RowSafe
  <2>3. Slack \in Nat /\ Slack <= TICK /\ since \in Nat
        /\ EPHEMERAL_REVEAL \in Nat /\ TICK \in Nat
    BY ScreenAssumption DEF PaneInv, LoopOK, Slack, ScreenAssumption
  <2>4. since < EPHEMERAL_REVEAL + TICK
    BY <2>2, <2>3
  <2> QED
    BY <2>2, <2>4 DEF LongestClear
<1> QED
  BY <1>1, PaneInvariant, SecretInvariant, PTL

(* Unless a write blocks the loop, a secret is gone from the client one    *)
(* tick after its time to live, however it was scrolled to, revealed or    *)
(* pushed over (tick_expire_ephemerals).                                   *)
THEOREM SecretsAreGone ==
  ASSUME ~MayBlock
  PROVE  Spec => []SecretsExpire
<1>1. PaneInv /\ SecretInv => SecretsExpire
  <2> SUFFICES ASSUME PaneInv, SecretInv, NEW i \in DOMAIN messages
               PROVE  messages[i].age < LongestShown
    BY DEF SecretsExpire
  <2>1. i \in 1..Len(messages) /\ messages[i] \in DisplayMsg
    BY DEF PaneInv, LinesOK
  <2>2. messages[i].age \in Nat /\ messages[i].age < EPHEMERAL_TTL + Slack
    BY <2>1 DEF SecretInv, LineSafe, DisplayMsg
  <2>3. Slack \in Nat /\ Slack <= TICK /\ EPHEMERAL_TTL \in Nat /\ TICK \in Nat
    BY ScreenAssumption DEF PaneInv, LoopOK, Slack, ScreenAssumption
  <2>4. messages[i].age < EPHEMERAL_TTL + TICK
    BY <2>2, <2>3
  <2> QED
    BY <2>4 DEF LongestShown
<1> QED
  BY <1>1, PaneInvariant, SecretInvariant, PTL
=============================================================================
