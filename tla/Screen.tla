------------------------------- MODULE Screen -------------------------------
(***************************************************************************)
(* The client's terminal: UiState with its lines, scroll position and      *)
(* ephemeral messages, and event_loop, which draws and then waits for a    *)
(* key, a frame of the server or the tick, in this order of preference.    *)
(* An arm and the draw at the top of the next round are one step, except   *)
(* that an arm may wait for the socket in send_encrypted.                  *)
(*                                                                         *)
(* Instants are kept as ages and times left.  Between two units of time    *)
(* the loop does what is ready, so the clock only advances while it waits: *)
(* in select with no tick due, or, if MayBlock, in a write.                *)
(***************************************************************************)
EXTENDS Naturals, Sequences, FiniteSetsExt

CONSTANTS
  HISTORY_CAP,           \* lines the client keeps
  HISTORY_LEN,           \* longest replay in a Welcome
  EPHEMERAL_TTL, EPHEMERAL_REVEAL, TICK,   \* in units of the clock
  Heights,               \* inner heights of the messages pane
  MayBlock,              \* whether a write may wait for the server
  MAX_LINES              \* bound: lines ever pushed

ASSUME ScreenAssumption ==
  /\ HISTORY_LEN \in Nat
  /\ {HISTORY_CAP, EPHEMERAL_TTL, EPHEMERAL_REVEAL, TICK}
       \subseteq Nat \ {0}
  /\ Heights \subseteq Nat
  /\ MayBlock \in BOOLEAN
  /\ MAX_LINES \in Nat
  /\ HISTORY_LEN <= HISTORY_CAP /\ HISTORY_LEN <= MAX_LINES

VARIABLES
  messages, scroll, last_inner_h,   \* UiState
  loop,      \* event_loop: "select", "sending" or "ended"
  phase,     \* time since the interval last fired
  due,       \* the interval has fired and its arm has not run
  drawn,     \* the lines on the terminal since the last draw
  pushed,    \* lines pushed so far, the id of the last one
  asked,     \* history: the lines there were at the last Ctrl-R,
  since      \*   and how long ago that was

clock == <<phase, due>>
history == <<asked, since>>
vars == <<messages, scroll, last_inner_h, loop, clock, drawn, pushed, history>>

LongestShown == EPHEMERAL_TTL + TICK     \* ages are not told apart beyond
LongestClear == EPHEMERAL_REVEAL + TICK

(* A line of the pane: age and left are those of EphemeralState and stay 0 *)
(* for a line without one; revealed_until lies left units ahead.           *)
DisplayMsg ==
  [id: 1..MAX_LINES, ephemeral: BOOLEAN,
   age: 0..LongestShown, left: 0..EPHEMERAL_REVEAL]

TypeOK ==
  /\ messages \in Seq(DisplayMsg)
  /\ Len(messages) <= HISTORY_CAP
  /\ scroll \in Nat
  /\ last_inner_h \in Heights
  /\ loop \in {"select", "sending", "ended"}
  /\ phase \in 0..(TICK - 1)
  /\ due \in BOOLEAN
  /\ drawn \in Seq([id: 1..MAX_LINES, body: {"text", "mask", "secret"}])
  /\ pushed \in 0..MAX_LINES
  /\ asked \subseteq 1..MAX_LINES
  /\ since \in 0..LongestClear

-----------------------------------------------------------------------------
(* UiState                                                                 *)

saturating_sub(a, b) == IF a > b THEN a - b ELSE 0

Lowest(a, b) == Min({a, b})
Highest(a, b) == Max({a, b})

(* Mutant: only the length limits the scroll position.                     *)
clamp_to_length(s, len, h) == Lowest(s, saturating_sub(len, 1))

clamp_scroll(s, len, h) == Lowest(s, saturating_sub(len, Highest(h, 1)))

(* Mutant: the deque exceeds its capacity by one.                          *)
push_late(view, line) ==
  LET capped == Len(view.messages) > HISTORY_CAP
      msgs == Append(IF capped THEN Tail(view.messages) ELSE view.messages,
                     line)
  IN  [messages |-> msgs, scroll |-> view.scroll]

(* Mutant: the scroll position counts from the latest message throughout.  *)
push_no_anchor(view, line) ==
  LET capped == Len(view.messages) = HISTORY_CAP
      msgs == Append(IF capped THEN Tail(view.messages) ELSE view.messages,
                     line)
  IN  [messages |-> msgs,
       scroll |-> clamp_scroll(view.scroll, Len(msgs), last_inner_h)]

push(view, line) ==
  LET capped == Len(view.messages) = HISTORY_CAP
      msgs == Append(IF capped THEN Tail(view.messages) ELSE view.messages,
                     line)
      s == IF view.scroll > 0 /\ ~capped THEN view.scroll + 1 ELSE view.scroll
  IN  [messages |-> msgs, scroll |-> clamp_scroll(s, Len(msgs), last_inner_h)]

View == [messages |-> messages, scroll |-> scroll]
clear_messages == [messages |-> <<>>, scroll |-> 0]

NewLine(ephemeral) ==
  [id |-> pushed + 1, ephemeral |-> ephemeral, age |-> 0, left |-> 0]

SystemLine == NewLine(FALSE)

(* Mutant: a secret is kept for as long as it is revealed.                 *)
ExpiredUnlessRevealed(m) ==
  m.ephemeral /\ m.age >= EPHEMERAL_TTL /\ m.left = 0

Expired(m) == m.ephemeral /\ m.age >= EPHEMERAL_TTL

(* VecDeque::retain: the lines of q that have not expired, in their order. *)
retain(q) ==
  LET kept[i \in 0..Len(q)] ==
        IF i = 0 THEN <<>>
        ELSE IF Expired(q[i]) THEN kept[i - 1] ELSE Append(kept[i - 1], q[i])
  IN  kept[Len(q)]

(* left = 0 is revealed_until = None as well as one that has passed, so    *)
(* that clearing it is no change.                                          *)
tick_expire_ephemerals ==
  LET msgs == retain(messages)
  IN  [messages |-> msgs,
       scroll |-> IF Len(msgs) < Len(messages)
                    THEN clamp_scroll(scroll, Len(msgs), last_inner_h)
                    ELSE scroll]

(* Mutant: a second Ctrl-R adds to the time that is left.                  *)
reveal_longer ==
  [i \in DOMAIN messages |->
     [messages[i] EXCEPT !.left =
        IF messages[i].ephemeral THEN @ + EPHEMERAL_REVEAL ELSE @]]

reveal_ephemerals ==
  [i \in DOMAIN messages |->
     [messages[i] EXCEPT !.left =
        IF messages[i].ephemeral THEN EPHEMERAL_REVEAL ELSE @]]

(* scroll_up, scroll_down, scroll_to_oldest, scroll_to_latest by key.      *)
Page == Highest(saturating_sub(last_inner_h, 1), 1)
scroll_up(n) == clamp_scroll(scroll + n, Len(messages), last_inner_h)
scroll_down(n) == saturating_sub(scroll, n)
scroll_to_oldest == saturating_sub(Len(messages), Highest(last_inner_h, 1))
Scrolled(key) ==
  CASE key = "Up" -> scroll_up(1)
    [] key = "Down" -> scroll_down(1)
    [] key = "PageUp" -> scroll_up(Page)
    [] key = "PageDown" -> scroll_down(Page)
    [] key = "Home" -> scroll_to_oldest
    [] key = "End" -> 0
ScrollKeys == {"Up", "Down", "PageUp", "PageDown", "Home", "End"}

(* The mask of a secret whose reveal window is not open.                   *)
format_line(m) ==
  [id |-> m.id,
   body |-> IF ~m.ephemeral THEN "text"
            ELSE IF m.left = 0 THEN "mask" ELSE "secret"]

(* render: the terminal may have any height by now; the view is clamped to *)
(* it and the lines that end scroll above the last one are shown.          *)
render(view) ==
  \E h \in Heights :
    LET s == clamp_scroll(view.scroll, Len(view.messages), h)
        end == saturating_sub(Len(view.messages), s)
        start == saturating_sub(end, h)
    IN  /\ messages' = view.messages
        /\ scroll' = s
        /\ last_inner_h' = h
        /\ drawn' = [i \in 1..(end - start) |->
                       format_line(view.messages[start + i])]

-----------------------------------------------------------------------------
(* event_loop                                                              *)

(* The Welcome's history is pushed before the first draw; it holds no      *)
(* ephemeral message.  The interval's first tick is due at once.           *)
Init ==
  /\ \E n \in 0..HISTORY_LEN : \E h \in Heights :
       /\ pushed = n
       /\ messages = [i \in 1..n |-> [id |-> i, ephemeral |-> FALSE,
                                      age |-> 0, left |-> 0]]
       /\ last_inner_h = h
       /\ drawn = [i \in 1..Lowest(h, n) |->
                     format_line(messages[saturating_sub(n, h) + i])]
  /\ scroll = 0
  /\ loop = "select"
  /\ phase = 0
  /\ due = TRUE
  /\ asked = {}
  /\ since = LongestClear

(* A key of no effect on the lines (typing, a release, Enter on a blank    *)
(* line), a resize or any other event: the screen is drawn again.          *)
OtherEvent ==
  /\ loop = "select"
  /\ render(View)
  /\ UNCHANGED <<loop, clock, pushed, history>>

ScrollKey ==
  /\ loop = "select"
  /\ \E key \in ScrollKeys : render([View EXCEPT !.scroll = Scrolled(key)])
  /\ UNCHANGED <<loop, clock, pushed, history>>

CtrlR ==
  /\ loop = "select"
  /\ render([View EXCEPT !.messages = reveal_ephemerals])
  /\ asked' = {messages[i].id : i \in DOMAIN messages}
  /\ since' = 0
  /\ UNCHANGED <<loop, clock, pushed>>

(* Enter on a message, a secret or /clear: the frame is sealed and written *)
(* while nothing else of the loop runs.  What comes back is a frame.       *)
EnterSend ==
  /\ loop = "select"
  /\ loop' = "sending"
  /\ UNCHANGED <<messages, scroll, last_inner_h, clock, drawn, pushed,
                 history>>

SendDone ==
  /\ loop = "sending"
  /\ loop' = "select"
  /\ render(View)
  /\ UNCHANGED <<clock, pushed, history>>

(* Ctrl-C, /quit, the end of either stream, an error of the server, of the *)
(* terminal or of a write: the guard restores the terminal.                *)
Leave ==
  /\ loop # "ended"
  /\ loop' = "ended"
  /\ drawn' = <<>>
  /\ UNCHANGED <<messages, scroll, last_inner_h, clock, pushed, history>>

(* A message that decrypts is ephemeral as its sender asked.  One that     *)
(* does not, a replay, and a message of one's own that cannot be sealed    *)
(* are system lines.                                                       *)
NewMessage ==
  /\ loop = "select"
  /\ pushed < MAX_LINES
  /\ \E ephemeral \in BOOLEAN : render(push(View, NewLine(ephemeral)))
  /\ pushed' = pushed + 1
  /\ UNCHANGED <<loop, clock, history>>

Cleared ==
  /\ loop = "select"
  /\ pushed < MAX_LINES
  /\ render(push(clear_messages, SystemLine))
  /\ pushed' = pushed + 1
  /\ UNCHANGED <<loop, clock, history>>

TickArm ==
  /\ loop = "select"
  /\ due
  /\ due' = FALSE
  /\ render(tick_expire_ephemerals)
  /\ UNCHANGED <<loop, phase, pushed, history>>

(* One unit of time; the terminal shows what was drawn last.               *)
Elapse ==
  /\ \/ loop = "select" /\ ~due
     \/ loop = "sending" /\ MayBlock
  /\ messages' =
       [i \in DOMAIN messages |->
          [messages[i] EXCEPT
             !.age = IF messages[i].ephemeral THEN Lowest(@ + 1, LongestShown)
                     ELSE 0,
             !.left = saturating_sub(@, 1)]]
  /\ since' = Lowest(since + 1, LongestClear)
  /\ phase' = (phase + 1) % TICK
  /\ due' = (due \/ phase' = 0)
  /\ UNCHANGED <<scroll, last_inner_h, loop, drawn, pushed, asked>>

Returned == loop = "ended" /\ UNCHANGED vars

Next ==
  \/ OtherEvent \/ ScrollKey \/ CtrlR \/ EnterSend \/ SendDone \/ Leave
  \/ NewMessage \/ Cleared
  \/ TickArm
  \/ Elapse
  \/ Returned

Spec == Init /\ [][Next]_vars

-----------------------------------------------------------------------------

(* The pane is never emptier than it must be: whatever was pushed, wiped   *)
(* or expired while scrolled back, and however the terminal was resized,   *)
(* it shows as many lines as fit or there are.                             *)
ViewFull ==
  loop # "ended" => Len(drawn) = Lowest(last_inner_h, Len(messages))

Ids(lines) == [i \in DOMAIN lines |-> lines[i].id]

(* A line that comes while one reads the history leaves the screen as it   *)
(* is, and otherwise it is the last on the screen, as long as the deque is *)
(* not full and the height stays (push bumps scroll).                      *)
FollowsOrStays ==
  [][(/\ Len(messages') > Len(messages)
      /\ last_inner_h' = last_inner_h
      /\ last_inner_h > 0)
       => IF scroll > 0 THEN Ids(drawn') = Ids(drawn)
          ELSE drawn'[Len(drawn')].id = pushed']_vars

(* A secret is readable on the terminal only if it was there when Ctrl-R   *)
(* was last pressed, and for no longer than the reveal window and one tick *)
(* (reveal_ephemerals, format_line, the re-draw by the tick).              *)
SecretMasked ==
  \A i \in DOMAIN drawn :
    drawn[i].body = "secret" => drawn[i].id \in asked /\ since < LongestClear

(* A secret is gone from the client one tick after its time to live, as    *)
(* the comment on the interval in event_loop promises, however it was      *)
(* scrolled to, revealed or pushed over.                                   *)
SecretsExpire ==
  \A i \in DOMAIN messages : messages[i].age < LongestShown

(* The comment in push: who reads the history keeps the same historical    *)
(* position, also when the deque is full, unless the line that is dropped  *)
(* was on the screen.                                                      *)
AnchoredAtCap ==
  [][(/\ pushed' > pushed
      /\ Len(messages') = Len(messages)
      /\ last_inner_h' = last_inner_h
      /\ scroll > 0
      /\ \A i \in DOMAIN drawn : drawn[i].id # messages[1].id)
       => Ids(drawn') = Ids(drawn)]_vars
=============================================================================
