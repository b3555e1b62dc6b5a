----------------------------- MODULE ChatClient -----------------------------
(***************************************************************************)
(* What the client of this repository makes of the frames of one           *)
(* connection, composed with RoomServer: the Welcome that seeds the screen *)
(* and the replay filter, then handle_server_frame for every later frame.  *)
(* The client is sequential, so its state is a function of the frames it   *)
(* has read, got[u].  A line is told by the message it stands for, whether *)
(* it has the text or says that it could not be decrypted.                 *)
(* Scrolling and the expiry of ephemeral messages are left out.            *)
(***************************************************************************)
EXTENDS RoomServer

CONSTANT HISTORY_CAP  \* messages kept on screen

ASSUME CapAssumption == HISTORY_CAP \in Nat \ {0}

SystemLine == [kind |-> "System"]

(* seen_counters and messages are the fields of UiState; shown remembers   *)
(* every message ever put on screen, in order.                             *)
UiState0 ==
  [seen_counters |-> [u \in Users |-> 0], messages |-> <<>>, shown |-> <<>>]

push_line(st, line) ==
  [st EXCEPT !.messages =
     Append(IF Len(@) = HISTORY_CAP THEN Tail(@) ELSE @, line)]

(* decrypt_to_display gives a line either way: a message that does not     *)
(* open is announced, under its sender's name, in the place it has.        *)
Display(st, m) == push_line([st EXCEPT !.shown = Append(@, m)], m)

(* Mutant: one counter for the whole room.                                 *)
exceeds_every_counter(st, m) ==
  \A u \in Users : m.ad.counter > st.seen_counters[u]

(* Mutant: >= for >.                                                       *)
exceeds_or_repeats(st, m) == m.ad.counter >= st.seen_counters[m.ad.from]

exceeds_seen_counter(st, m) == m.ad.counter > st.seen_counters[m.ad.from]

try_accept_counter(st, m) ==
  IF exceeds_seen_counter(st, m)
    THEN [st EXCEPT !.seen_counters[m.ad.from] = m.ad.counter]
    ELSE st

(* The replayed history is displayed whatever its counters.                *)
SeedHistory(st, m) == Display(try_accept_counter(st, m), m)

SeedAll(st, h) ==
  LET seeded[n \in 0..Len(h)] ==
        IF n = 0 THEN st ELSE SeedHistory(seeded[n - 1], h[n])
  IN  seeded[Len(h)]

(* Welcome is the first frame; any other handshake frame never comes.      *)
handle_server_frame(st, f) ==
  CASE f.kind = "Welcome" -> SeedAll(st, f.history)
    [] f.kind = "Message" ->
         IF exceeds_seen_counter(st, f.msg)
           THEN Display(try_accept_counter(st, f.msg), f.msg)
           ELSE push_line(st, SystemLine)
    [] f.kind = "Cleared" ->
         push_line([st EXCEPT !.messages = <<>>], SystemLine)

(* The client after it has read the given frames, one by one.              *)
Read(frames) ==
  LET st[n \in 0..Len(frames)] ==
        IF n = 0 THEN UiState0 ELSE handle_server_frame(st[n - 1], frames[n])
  IN  st[Len(frames)]

Client(u) == Read(got[u])

Contains(seq, m) == \E i \in 1..Len(seq) : seq[i] = m

(* Nothing of the server is on its way to u, and u is in the room.         *)
CaughtUp(u) ==
  /\ Joined(u)
  /\ got[u] # <<>>
  /\ outbox[u] = <<>>
  /\ task[u] # "writing"
  /\ \A s \in Users :
       /\ task[s] # "announcing"
       /\ task[s] = "sending" => u \notin todo[s] \cup dead[s]

-----------------------------------------------------------------------------

(* A client shows the messages of each sender in the order they were sent, *)
(* and none of them twice, although a message may reach it both in the     *)
(* Welcome and on the live stream (registration precedes the snapshot).    *)
ShownOnceInOrder ==
  \A u \in Users :
    LET shown == Client(u).shown
    IN  \A i, j \in 1..Len(shown) :
          i < j /\ shown[i].from = shown[j].from
            => shown[i].ad.counter < shown[j].ad.counter

(* Everybody in the room has seen the room's history: a client that has    *)
(* read all that was sent to it has shown every message a newcomer would   *)
(* be given, so its replay filter never swallows one of these.             *)
HistoryShown ==
  \A u \in Users : CaughtUp(u) =>
    \A k \in 1..Len(history) : Contains(Client(u).shown, history[k])

-----------------------------------------------------------------------------
(* What the documentation says and the code does not do                    *)

(* README.md, "/clear": the room history is wiped for everyone, locally    *)
(* too.  So what a clear has wiped from the screens is not left behind in  *)
(* the history that the next newcomer is given.                            *)
ClearWipesBoth ==
  \A u \in Users : CaughtUp(u) =>
    \A k \in 1..Len(history) : Contains(Client(u).messages, history[k])

(* README.md, "/secret": an ephemeral message is shown on every client it  *)
(* is delivered to.                                                        *)
EphemeralShown ==
  \A u \in Users : \A i \in 1..Len(got[u]) :
    got[u][i].kind = "Message" /\ got[u][i].msg.ad.ephemeral
      => Contains(Client(u).shown, got[u][i].msg)
=============================================================================
