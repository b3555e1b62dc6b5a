----------------------------- MODULE RoomServer -----------------------------
(***************************************************************************)
(* One room of the chat-rs server: the three mutex-protected tables of     *)
(* RoomState (messages, sessions, connections), one tokio task per         *)
(* connection (handle_connection / pump / handle_client_frame /            *)
(* broadcast), the sweeper task, and the shutdown token.                   *)
(*                                                                         *)
(* Grain of atomicity.  A step is the work a task does between two points  *)
(* where another task can run and see shared state: one critical section   *)
(* of a room mutex, one try_send on an outbox, one socket read or write.   *)
(* The sweeper changes `sessions` and `connections` holding both mutexes:  *)
(* one step.  The cleanup of a connection removes its session and only     *)
(* then waits for the mutex of `connections`: two steps, between which it  *)
(* keeps the one of `sessions`.  Registration waits in the same place, but *)
(* there the session is the new one, which nobody can look at before the   *)
(* mutex is released: it is the step that inserts the Sender.              *)
(*                                                                         *)
(* Of time only this is kept: a session is idle once its last_active is    *)
(* older than SESSION_TIMEOUT (GoIdle).  Whether the message window and    *)
(* the clear cooldown let a frame pass is left open here, so that every    *)
(* answer they could give is covered; RoomStores has the clock.            *)
(***************************************************************************)
EXTENDS Naturals, Sequences, FiniteSets

CONSTANTS
  Users,              \* connections; each stands for its own fresh Uuid
  Usernames,          \* display names
  UsernameOf,         \* the name a connection announced in its Hello
  Frames,             \* the client frames a peer may put on the wire
  HISTORY_LEN,        \* capacity of the join-replay ring
  OUTBOX_DEPTH,       \* capacity of a connection's mpsc channel
  MAX_CIPHERTEXT_LEN, \* longest ciphertext the server forwards
  MayStall,           \* peers that may stop reading for good, yet connected
  MayHangup,          \* peers that may close their socket
  MayAge,             \* connections for which time passes
  MayStop,            \* whether the operator may press ctrl-c
  MAX_READS           \* bound: client frames the server reads per connection

MessageAd == [from: Users, username: Usernames, counter: Nat,
              ephemeral: BOOLEAN]

(* "Hello" stands for both handshake frames, RoomSelect and Hello.  A      *)
(* ciphertext is its length: the server never looks inside.                *)
ClientFrame == [kind: {"Message"}, ad: MessageAd, len: Nat]
                 \cup [kind: {"Clear", "Hello"}]

RoomMessage == [from: Users, username: Usernames, ad: MessageAd]

ServerFrame ==
  [kind: {"Welcome"}, user_id: Users, history: Seq(RoomMessage)]
    \cup [kind: {"Message"}, msg: RoomMessage]
    \cup [kind: {"Cleared"}, by: Users, username: Usernames]

NoFrame == [kind |-> "None"]

ASSUME RoomAssumption ==
  /\ IsFiniteSet(Users)
  /\ UsernameOf \in [Users -> Usernames]
  /\ Frames \subseteq ClientFrame
  /\ HISTORY_LEN \in Nat \ {0}
  /\ OUTBOX_DEPTH \in Nat \ {0}
  /\ MAX_CIPHERTEXT_LEN \in Nat
  /\ MayStall \subseteq Users
  /\ MayHangup \subseteq Users
  /\ MayAge \subseteq Users
  /\ MayStop \in BOOLEAN
  /\ MAX_READS \in Nat

VARIABLES
  \* RoomState
  history,       \* MessageStore: the ring of replayable messages
  sessions,      \* UserSessionStore: ids that have a session
  last_counter,  \* per session: highest accepted MessageAd.counter
  idle,          \* sessions whose last_active is older than SESSION_TIMEOUT
  conns,         \* ConnectionManager: ids whose Sender is in the table
  outbox,        \* per connection: the mpsc channel its task drains
  \* connection tasks
  task,          \* where the task of each connection stands
  input,         \* the client frame a task is handling
  output,        \* the server frame a task is writing or broadcasting
  todo,          \* (id, Sender) clones a broadcast has not sent to yet
  dead,          \* ids a broadcast found Full or Closed
  reads,         \* client frames read so far (bounded by MAX_READS)
  \* sweeper task and shutdown token
  sweeper, stale, shutdown,
  \* the peers' end of the sockets
  peer,          \* "reading", "stalled" or "closed"
  got            \* frames written to the peer's socket, in order

sessionVars == <<sessions, last_counter, idle>>
taskVars == <<task, input, output, todo, dead, reads>>
tables == <<history, sessionVars, conns>>
sweepVars == <<sweeper, stale>>
netVars == <<peer, got>>
outside == <<sweepVars, shutdown, netVars>>
vars == <<tables, outbox, taskVars, outside>>

(* The phases of a connection task:                                        *)
(*   unborn       no connection yet        handling    frame read, touched *)
(*   handshaking  before registration      publishing  frame accepted      *)
(*   joining      registered               announcing  stored, broadcast() *)
(*   welcoming    writing Welcome          sending     its try_send loop   *)
(*   pumping      in pump's select         leaving     pump has returned   *)
(*   writing      pump writing a frame     unlisting   session removed     *)
(*                                         gone        task has ended      *)
Phases == {"unborn", "handshaking", "joining", "welcoming", "pumping",
           "writing", "handling", "publishing", "announcing", "sending",
           "leaving", "unlisting", "gone"}

TypeOK ==
  /\ history \in Seq(RoomMessage)
  /\ sessions \subseteq Users
  /\ last_counter \in [Users -> Nat]
  /\ idle \subseteq sessions
  /\ conns \subseteq Users
  /\ outbox \in [Users -> Seq(ServerFrame)]
  /\ \A u \in Users : Len(outbox[u]) <= OUTBOX_DEPTH
  /\ task \in [Users -> Phases]
  /\ input \in [Users -> ClientFrame \cup {NoFrame}]
  /\ output \in [Users -> ServerFrame \cup {NoFrame}]
  /\ todo \in [Users -> SUBSET Users]
  /\ dead \in [Users -> SUBSET Users]
  /\ reads \in [Users -> 0..MAX_READS]
  /\ sweeper \in {"ticking", "removing", "stopped"}
  /\ stale \subseteq Users
  /\ shutdown \in BOOLEAN
  /\ peer \in [Users -> {"reading", "stalled", "closed"}]
  /\ got \in [Users -> Seq(ServerFrame)]

Init ==
  /\ history = <<>>
  /\ sessions = {}
  /\ last_counter = [u \in Users |-> 0]
  /\ idle = {}
  /\ conns = {}
  /\ outbox = [u \in Users |-> <<>>]
  /\ task = [u \in Users |-> "unborn"]
  /\ input = [u \in Users |-> NoFrame]
  /\ output = [u \in Users |-> NoFrame]
  /\ todo = [u \in Users |-> {}]
  /\ dead = [u \in Users |-> {}]
  /\ reads = [u \in Users |-> 0]
  /\ sweeper = "ticking"
  /\ stale = {}
  /\ shutdown = FALSE
  /\ peer = [u \in Users |-> "reading"]
  /\ got = [u \in Users |-> <<>>]

Goto(u, from, to) ==
  /\ task[u] = from
  /\ task' = [task EXCEPT ![u] = to]

(* A step that changes nothing but where the task stands.                  *)
JustGoto(u, from, to) ==
  /\ Goto(u, from, to)
  /\ UNCHANGED <<tables, outbox, input, output, todo, dead, reads, outside>>

-----------------------------------------------------------------------------
(* handle_connection: from accept to the pump                              *)

(* The accept loop spawns a task; after ctrl-c it accepts no more.         *)
Accept(u) ==
  /\ ~shutdown
  /\ JustGoto(u, "unborn", "handshaking")

(* Every error or timeout before registration: nothing is shared yet.      *)
HandshakeFails(u) == JustGoto(u, "handshaking", "gone")

(* No task keeps the mutex of `sessions` while it waits for that of        *)
(* `connections`.                                                          *)
SessionsUnlocked == \A v \in Users : task[v] # "unlisting"

(* Session and Sender enter their tables in one critical section.          *)
Register(u) ==
  /\ SessionsUnlocked
  /\ Goto(u, "handshaking", "joining")
  /\ sessions' = sessions \cup {u}
  /\ last_counter' = [last_counter EXCEPT ![u] = 0]
  /\ idle' = idle \ {u}
  /\ conns' = conns \cup {u}
  /\ UNCHANGED <<history, outbox, input, output, todo, dead, reads, outside>>

Welcome(u) == [kind |-> "Welcome", user_id |-> u, history |-> history]

SnapshotHistory(u) ==
  /\ Goto(u, "joining", "welcoming")
  /\ output' = [output EXCEPT ![u] = Welcome(u)]
  /\ UNCHANGED <<tables, outbox, input, todo, dead, reads, outside>>

(* A completed socket write: the bytes are the peer's to read, or lost     *)
(* when the kernel takes them for a peer that has already hung up.         *)
WriteFrame(u) ==
  /\ peer[u] # "stalled"
  /\ got' = [got EXCEPT ![u] = IF peer[u] = "reading" THEN Append(@, output[u])
                               ELSE @]
  /\ output' = [output EXCEPT ![u] = NoFrame]

SendWelcome(u) ==
  /\ Goto(u, "welcoming", "pumping")
  /\ WriteFrame(u)
  /\ UNCHANGED <<tables, outbox, input, todo, dead, reads, sweepVars,
                 shutdown, peer>>

(* `send_encrypted(Welcome).await?` returns from handle_connection before  *)
(* its cleanup block: session and Sender stay in their tables, only the    *)
(* Receiver is dropped.                                                    *)
WelcomeFails(u) ==
  /\ peer[u] = "closed"
  /\ Goto(u, "welcoming", "gone")
  /\ outbox' = [outbox EXCEPT ![u] = <<>>]
  /\ output' = [output EXCEPT ![u] = NoFrame]
  /\ UNCHANGED <<tables, input, todo, dead, reads, outside>>

-----------------------------------------------------------------------------
(* pump: biased select over the token, the outbox and the socket           *)

(* Mutant: the connection task keeps a Sender of its own channel.          *)
HasOwnSender(u) == u \in Users

(* Some Sender of u's channel is alive: in the table, or a clone that a    *)
(* broadcast in progress has not consumed yet.                             *)
HasSender(u) == u \in conns \/ \E v \in Users : u \in todo[v]

(* Mutant: the pump does not watch the token, only its channel.            *)
PumpIgnoresToken(u) ==
  /\ shutdown
  /\ ~HasSender(u)
  /\ JustGoto(u, "pumping", "leaving")

PumpShutdown(u) ==
  /\ shutdown
  /\ JustGoto(u, "pumping", "leaving")

PumpTake(u) ==
  /\ ~shutdown
  /\ Goto(u, "pumping", "writing")
  /\ outbox[u] # <<>>
  /\ output' = [output EXCEPT ![u] = Head(outbox[u])]
  /\ outbox' = [outbox EXCEPT ![u] = Tail(@)]
  /\ UNCHANGED <<tables, input, todo, dead, reads, outside>>

PumpWrite(u) ==
  /\ Goto(u, "writing", "pumping")
  /\ WriteFrame(u)
  /\ UNCHANGED <<tables, outbox, input, todo, dead, reads, sweepVars,
                 shutdown, peer>>

PumpWriteFails(u) ==
  /\ peer[u] = "closed"
  /\ Goto(u, "writing", "leaving")
  /\ output' = [output EXCEPT ![u] = NoFrame]
  /\ UNCHANGED <<tables, outbox, input, todo, dead, reads, outside>>

(* rx.recv() returns None: drained, and every Sender dropped.              *)
PumpClosed(u) ==
  /\ ~shutdown
  /\ outbox[u] = <<>>
  /\ ~HasSender(u)
  /\ JustGoto(u, "pumping", "leaving")

(* The socket arm is polled only when the two arms above it are pending.   *)
SocketArm(u) == ~shutdown /\ outbox[u] = <<>> /\ HasSender(u)

(* End of stream, an I/O error, a bad tag or an undecodable frame.         *)
PumpReadFails(u) ==
  /\ SocketArm(u)
  /\ JustGoto(u, "pumping", "leaving")

(* A frame is decoded and handle_client_frame touches the session.  That   *)
(* this may have to wait for the mutex makes no difference to anybody: the *)
(* session is u's own.                                                     *)
PumpRead(u) ==
  /\ SocketArm(u)
  /\ reads[u] < MAX_READS
  /\ Goto(u, "pumping", "handling")
  /\ \E f \in Frames : input' = [input EXCEPT ![u] = f]
  /\ reads' = [reads EXCEPT ![u] = @ + 1]
  /\ idle' = idle \ {u}
  /\ UNCHANGED <<history, sessions, last_counter, conns, outbox, output,
                 todo, dead, outside>>

(* After pump: the session goes first, and its mutex is kept.              *)
CleanupSession(u) ==
  /\ SessionsUnlocked
  /\ Goto(u, "leaving", "unlisting")
  /\ sessions' = sessions \ {u}
  /\ idle' = idle \ {u}
  /\ UNCHANGED <<history, last_counter, conns, outbox, input, output, todo,
                 dead, reads, outside>>

(* Mutant: the cleanup block forgets the connection table.                 *)
CleanupForgetsConn(u) ==
  /\ Goto(u, "unlisting", "gone")
  /\ outbox' = [outbox EXCEPT ![u] = <<>>]
  /\ UNCHANGED <<tables, input, output, todo, dead, reads, outside>>

(* Then the Sender; both mutexes are released and the Receiver goes.       *)
CleanupConn(u) ==
  /\ Goto(u, "unlisting", "gone")
  /\ conns' = conns \ {u}
  /\ outbox' = [outbox EXCEPT ![u] = <<>>]
  /\ UNCHANGED <<history, sessionVars, input, output, todo, dead, reads,
                 outside>>

-----------------------------------------------------------------------------
(* handle_client_frame                                                     *)

IdentityOK(u, f) ==
  /\ f.kind = "Message"
  /\ f.ad.from = u
  /\ f.ad.username = UsernameOf[u]
  /\ f.len <= MAX_CIPHERTEXT_LEN

(* Mutant: >= for >.                                                       *)
advance_or_repeat(u, counter) ==
  /\ u \in sessions
  /\ counter >= last_counter[u]

try_advance_counter(u, counter) ==
  /\ u \in sessions
  /\ counter > last_counter[u]

(* Err before the session store changes: the connection is dropped.  The   *)
(* cooldown may refuse any clear.                                          *)
RejectFrame(u) ==
  /\ Goto(u, "handling", "leaving")
  /\ \/ input[u].kind = "Hello"
     \/ input[u].kind = "Message" /\ ~IdentityOK(u, input[u])
     \/ /\ SessionsUnlocked
        /\ \/ input[u].kind = "Clear"
           \/ /\ input[u].kind = "Message"
              /\ ~try_advance_counter(u, input[u].ad.counter)
  /\ input' = [input EXCEPT ![u] = NoFrame]
  /\ UNCHANGED <<tables, outbox, output, todo, dead, reads, outside>>

(* The counter advances even when the quota then refuses the message.      *)
RejectOverQuota(u) ==
  /\ SessionsUnlocked
  /\ Goto(u, "handling", "leaving")
  /\ IdentityOK(u, input[u])
  /\ try_advance_counter(u, input[u].ad.counter)
  /\ last_counter' = [last_counter EXCEPT ![u] = input[u].ad.counter]
  /\ input' = [input EXCEPT ![u] = NoFrame]
  /\ UNCHANGED <<history, sessions, idle, conns, outbox, output, todo, dead,
                 reads, outside>>

AcceptMessage(u) ==
  /\ SessionsUnlocked
  /\ Goto(u, "handling", "publishing")
  /\ IdentityOK(u, input[u])
  /\ try_advance_counter(u, input[u].ad.counter)
  /\ last_counter' = [last_counter EXCEPT ![u] = input[u].ad.counter]
  /\ UNCHANGED <<history, sessions, idle, conns, outbox, input, output, todo,
                 dead, reads, outside>>

AcceptClear(u) ==
  /\ SessionsUnlocked
  /\ input[u].kind = "Clear"
  /\ u \in sessions
  /\ JustGoto(u, "handling", "publishing")

(* Mutant: the ring drops its oldest entry one push too late.              *)
push_late(h, m) == Append(IF Len(h) > HISTORY_LEN THEN Tail(h) ELSE h, m)

push(h, m) == Append(IF Len(h) = HISTORY_LEN THEN Tail(h) ELSE h, m)

StoreMessage(u) ==
  LET m == [from |-> u, username |-> UsernameOf[u], ad |-> input[u].ad]
  IN  /\ Goto(u, "publishing", "announcing")
      /\ input[u].kind = "Message"
      /\ history' = IF m.ad.ephemeral THEN history ELSE push(history, m)
      /\ output' = [output EXCEPT ![u] = [kind |-> "Message", msg |-> m]]
      /\ input' = [input EXCEPT ![u] = NoFrame]
      /\ UNCHANGED <<sessionVars, conns, outbox, todo, dead, reads, outside>>

(* Mutant: the clear is announced and the history kept.                    *)
AnnounceClear(u) ==
  /\ Goto(u, "publishing", "announcing")
  /\ input[u].kind = "Clear"
  /\ output' = [output EXCEPT ![u] = [kind |-> "Cleared", by |-> u,
                                      username |-> UsernameOf[u]]]
  /\ input' = [input EXCEPT ![u] = NoFrame]
  /\ UNCHANGED <<tables, outbox, todo, dead, reads, outside>>

StoreClear(u) ==
  /\ Goto(u, "publishing", "announcing")
  /\ input[u].kind = "Clear"
  /\ history' = <<>>
  /\ output' = [output EXCEPT ![u] = [kind |-> "Cleared", by |-> u,
                                      username |-> UsernameOf[u]]]
  /\ input' = [input EXCEPT ![u] = NoFrame]
  /\ UNCHANGED <<sessionVars, conns, outbox, todo, dead, reads, outside>>

-----------------------------------------------------------------------------
(* broadcast                                                               *)

SnapshotConns(u) ==
  /\ Goto(u, "announcing", "sending")
  /\ todo' = [todo EXCEPT ![u] = conns]
  /\ UNCHANGED <<tables, outbox, input, output, dead, reads, outside>>

(* Mutant: a channel with room for one more than its capacity.             *)
CanOverfill(v) == task[v] # "gone" /\ Len(outbox[v]) <= OUTBOX_DEPTH

(* The Receiver of v lives until its task ends.                            *)
CanSend(v) == task[v] # "gone" /\ Len(outbox[v]) < OUTBOX_DEPTH

(* Mutant: a full outbox loses the frame and the peer is kept.             *)
TrySendLossy(u, v) ==
  /\ task[u] = "sending"
  /\ v \in todo[u]
  /\ todo' = [todo EXCEPT ![u] = @ \ {v}]
  /\ outbox' = [outbox EXCEPT ![v] = IF CanSend(v) THEN Append(@, output[u])
                                     ELSE @]
  /\ UNCHANGED <<tables, task, input, output, dead, reads, outside>>

(* Mutant: send().await instead of try_send.                               *)
SendBlocking(u, v) ==
  /\ task[u] = "sending"
  /\ v \in todo[u]
  /\ task[v] = "gone" \/ CanSend(v)
  /\ todo' = [todo EXCEPT ![u] = @ \ {v}]
  /\ outbox' = [outbox EXCEPT ![v] = IF CanSend(v) THEN Append(@, output[u])
                                     ELSE @]
  /\ UNCHANGED <<tables, task, input, output, dead, reads, outside>>

(* try_send never waits: Full and Closed both mark the peer dead.          *)
TrySend(u, v) ==
  /\ task[u] = "sending"
  /\ v \in todo[u]
  /\ todo' = [todo EXCEPT ![u] = @ \ {v}]
  /\ \/ /\ CanSend(v)
        /\ outbox' = [outbox EXCEPT ![v] = Append(@, output[u])]
        /\ UNCHANGED dead
     \/ /\ ~CanSend(v)
        /\ dead' = [dead EXCEPT ![u] = @ \cup {v}]
        /\ UNCHANGED outbox
  /\ UNCHANGED <<tables, task, input, output, reads, outside>>

(* The dead lose their Sender, not their session; back to the pump.        *)
EvictDead(u) ==
  /\ Goto(u, "sending", "pumping")
  /\ todo[u] = {}
  /\ conns' = conns \ dead[u]
  /\ dead' = [dead EXCEPT ![u] = {}]
  /\ output' = [output EXCEPT ![u] = NoFrame]
  /\ UNCHANGED <<history, sessionVars, outbox, input, todo, reads, outside>>

-----------------------------------------------------------------------------
(* sweeper: reads the stale ids, unlocks, locks again and removes them     *)

(* Mutant: only ids that still have a connection are looked at.            *)
SweepScanConnected ==
  /\ SessionsUnlocked
  /\ sweeper = "ticking"
  /\ idle \cap conns # {}
  /\ sweeper' = "removing"
  /\ stale' = idle \cap conns
  /\ UNCHANGED <<tables, outbox, taskVars, shutdown, netVars>>

SweepScan ==
  /\ SessionsUnlocked
  /\ sweeper = "ticking"
  /\ idle # {}
  /\ sweeper' = "removing"
  /\ stale' = idle
  /\ UNCHANGED <<tables, outbox, taskVars, shutdown, netVars>>

(* Mutant: the sweeper forgets the connection table.                       *)
SweepSessionsOnly ==
  /\ SessionsUnlocked
  /\ sweeper = "removing"
  /\ sweeper' = "ticking"
  /\ sessions' = sessions \ stale
  /\ idle' = idle \ stale
  /\ stale' = {}
  /\ UNCHANGED <<history, last_counter, conns, outbox, taskVars, shutdown,
                 netVars>>

SweepRemove ==
  /\ SessionsUnlocked
  /\ sweeper = "removing"
  /\ sweeper' = "ticking"
  /\ sessions' = sessions \ stale
  /\ idle' = idle \ stale
  /\ conns' = conns \ stale
  /\ stale' = {}
  /\ UNCHANGED <<history, last_counter, outbox, taskVars, shutdown, netVars>>

SweepStop ==
  /\ shutdown
  /\ sweeper = "ticking"
  /\ sweeper' = "stopped"
  /\ UNCHANGED <<tables, outbox, taskVars, stale, shutdown, netVars>>

-----------------------------------------------------------------------------
(* The environment: ctrl-c, the peers, and the passing of time             *)

CtrlC ==
  /\ MayStop
  /\ ~shutdown
  /\ shutdown' = TRUE
  /\ UNCHANGED <<tables, outbox, taskVars, sweepVars, netVars>>

(* The peer's side of the socket changes while the server holds its end.   *)
(* A stalled peer never reads again; a slow one is a write that is late.   *)
PeerTurns(u, from, to) ==
  /\ task[u] \notin {"unborn", "gone"}
  /\ peer[u] \in from
  /\ peer' = [peer EXCEPT ![u] = to]
  /\ UNCHANGED <<tables, outbox, taskVars, sweepVars, shutdown, got>>

Stall(u) == u \in MayStall /\ PeerTurns(u, {"reading"}, "stalled")
Hangup(u) == u \in MayHangup /\ PeerTurns(u, {"reading", "stalled"}, "closed")

(* SESSION_TIMEOUT goes by without a frame from u.                         *)
GoIdle(u) ==
  /\ u \in MayAge
  /\ u \in sessions \ idle
  /\ idle' = idle \cup {u}
  /\ UNCHANGED <<history, sessions, last_counter, conns, outbox, taskVars,
                 outside>>

(* No task can move: server::run waits for a connection, or has drained    *)
(* its JoinSet after ctrl-c, or waits for a task that writes to a stalled  *)
(* peer.                                                                   *)
AtRest(u) ==
  \/ task[u] \in {"unborn", "gone"}
  \/ peer[u] = "stalled" /\ task[u] \in {"welcoming", "writing"}

Returned ==
  /\ shutdown => sweeper = "stopped"
  /\ \A u \in Users : AtRest(u)
  /\ UNCHANGED vars

-----------------------------------------------------------------------------

(* What u's task does by itself, the peer's frames aside.                  *)
TaskStep(u) ==
  \/ HandshakeFails(u) \/ Register(u)
  \/ SnapshotHistory(u) \/ SendWelcome(u) \/ WelcomeFails(u)
  \/ PumpShutdown(u) \/ PumpTake(u) \/ PumpWrite(u) \/ PumpWriteFails(u)
  \/ PumpClosed(u) \/ CleanupSession(u) \/ CleanupConn(u)
  \/ RejectFrame(u) \/ RejectOverQuota(u) \/ AcceptMessage(u)
  \/ AcceptClear(u) \/ StoreMessage(u) \/ StoreClear(u)
  \/ SnapshotConns(u) \/ (\E v \in Users : TrySend(u, v)) \/ EvictDead(u)

Sweep == SweepScan \/ SweepRemove \/ SweepStop

Environment(u) ==
  \/ Accept(u) \/ PumpRead(u) \/ PumpReadFails(u)
  \/ Stall(u) \/ Hangup(u)
  \/ GoIdle(u)

Next ==
  \/ \E u \in Users : TaskStep(u) \/ Environment(u)
  \/ Sweep
  \/ CtrlC
  \/ Returned

(* tokio polls every task that is ready, also to hand it the end of its    *)
(* stream; the sweeper's timer and the token fire; a session nobody        *)
(* touches any more grows old.  Nothing is assumed of the peers.  A mutex  *)
(* is kept over a step at most once per connection, so that weak fairness  *)
(* is enough for those who wait for it.                                    *)
Fairness ==
  /\ \A u \in Users :
       WF_vars(TaskStep(u) \/ (peer[u] = "closed" /\ PumpReadFails(u)))
  /\ \A u \in Users : WF_vars(task[u] = "gone" /\ GoIdle(u))
  /\ WF_vars(Sweep)

Spec == Init /\ [][Next]_vars /\ Fairness

-----------------------------------------------------------------------------
(* Safety                                                                  *)

(* The frames u's peer has read, its pump is writing, and its channel      *)
(* still holds, in the order the peer sees them.                           *)
Stream(u) ==
  got[u] \o (IF task[u] \in {"welcoming", "writing"} THEN <<output[u]>>
             ELSE <<>>)
         \o outbox[u]

(* A Sender in the connection table has a session, or its own task is      *)
(* between the two halves of its cleanup: nobody who lost the session,     *)
(* which every frame is checked against, stays in the table.  The tables   *)
(* are changed by registration, cleanup, the sweeper and, for connections  *)
(* alone, by every broadcast.                                              *)
SendersTracked == \A u \in conns : u \in sessions \/ task[u] = "unlisting"

(* A connection that was ever welcomed leaves nothing behind: whichever    *)
(* way its pump ended, and whatever sweeper and broadcasts did meanwhile,  *)
(* its task ends with its session and its Sender removed (the cleanup      *)
(* block of handle_connection).                                            *)
CleanExit ==
  \A u \in Users : task[u] = "gone" /\ got[u] # <<>>
                     => u \notin sessions /\ u \notin conns

(* On every connection the messages of one sender come in the order of     *)
(* their counters and none comes twice, although the history push, the     *)
(* snapshot of the table and each try_send are separate steps (the replay  *)
(* check of every client relies on it).                                    *)
SenderOrder ==
  \A u \in Users :
    LET st == Stream(u)
    IN  \A i, j \in 1..Len(st) :
          (/\ i < j
           /\ st[i].kind = "Message"
           /\ st[j].kind = "Message"
           /\ st[i].msg.from = st[j].msg.from)
            => st[i].msg.ad.counter < st[j].msg.ad.counter

(* What the join replay may hold: at most HISTORY_LEN messages, none       *)
(* ephemeral, each under the id and name of the session that sent it, and  *)
(* those of one sender in counter order without repetition.                *)
Replayable(h) ==
  /\ Len(h) <= HISTORY_LEN
  /\ \A i \in 1..Len(h) :
       /\ ~h[i].ad.ephemeral
       /\ h[i].from = h[i].ad.from
       /\ h[i].username = UsernameOf[h[i].from]
       /\ h[i].ad.username = h[i].username
       /\ \A j \in 1..(i - 1) :
            h[j].from = h[i].from => h[j].ad.counter < h[i].ad.counter

(* The ring and every Welcome sent, or being sent, satisfy Replayable.     *)
HistoryFaithful ==
  /\ Replayable(history)
  /\ \A u \in Users : \A i \in 1..Len(Stream(u)) :
       Stream(u)[i].kind = "Welcome" => Replayable(Stream(u)[i].history)

(* u's task has taken its history snapshot, its Sender is in the table and *)
(* its peer is there.                                                      *)
Joined(u) ==
  /\ u \in conns
  /\ task[u] \notin {"unborn", "handshaking", "joining", "leaving",
                     "unlisting", "gone"}
  /\ peer[u] # "closed"

CarriesMessage(f, m) ==
  \/ f.kind = "Message" /\ f.msg = m
  \/ f.kind = "Welcome" /\ \E k \in 1..Len(f.history) : f.history[k] = m

(* A task is about to send m to u, or about to evict u for want of room.   *)
StillToSend(u, m) ==
  \E s \in Users :
    /\ output[s] = [kind |-> "Message", msg |-> m]
    /\ \/ task[s] = "announcing"
       \/ task[s] = "sending" /\ u \in todo[s] \cup dead[s]

(* No gap between the join replay and the live stream: every message of    *)
(* the room's history is in a joined peer's Welcome, in its live stream,   *)
(* or still to be sent to it.  A peer that misses one is no longer in the  *)
(* table.  This is why the Sender is registered before the snapshot.       *)
JoinComplete ==
  \A u \in Users : Joined(u) =>
    \A k \in 1..Len(history) :
      \/ \E i \in 1..Len(Stream(u)) : CarriesMessage(Stream(u)[i], history[k])
      \/ StillToSend(u, history[k])

(* What the live stream st leaves for the replay: the messages that are    *)
(* not ephemeral, since the last Cleared.                                  *)
SinceClear(st) ==
  LET kept[n \in 0..Len(st)] ==
        IF n = 0 \/ st[n].kind = "Cleared" THEN <<>>
        ELSE IF st[n].kind = "Message" /\ ~st[n].msg.ad.ephemeral
               THEN Append(kept[n - 1], st[n].msg)
               ELSE kept[n - 1]
  IN  kept[Len(st)]

(* The newest HISTORY_LEN messages.                                        *)
LastOf(live) ==
  LET n == IF Len(live) < HISTORY_LEN THEN Len(live) ELSE HISTORY_LEN
  IN  [i \in 1..n |-> live[Len(live) - n + i]]

(* While a single client has ever connected nothing overlaps a broadcast,  *)
(* and the history is exactly the last HISTORY_LEN messages the client was *)
(* echoed since its last clear, in their order, however it mixes messages, *)
(* secrets and clears.                                                     *)
SoloReplay ==
  \A u \in Users :
    (/\ \A v \in Users \ {u} : task[v] = "unborn"
     /\ Joined(u)
     /\ task[u] \in {"pumping", "writing", "handling"})
      => history = LastOf(SinceClear(Stream(u)))

-----------------------------------------------------------------------------
(* Liveness                                                                *)

(* A client frame is always dealt with, however many peers have stopped    *)
(* reading: no broadcast waits for a peer.                                 *)
BroadcastCompletes ==
  \A u \in Users :
    task[u] \in {"handling", "publishing", "announcing", "sending"}
      ~> task[u] \in {"pumping", "leaving"}

(* A connection that lost its Sender, because its outbox was full or the   *)
(* sweeper took it, idle or not, is closed unless its peer stops reading:  *)
(* nobody stays connected but cut off from the room.                       *)
EvictedCloses ==
  \A u \in Users :
    task[u] = "pumping" /\ u \notin conns
      ~> task[u] = "gone" \/ peer[u] = "stalled"

(* After a peer hangs up its task ends and the tables forget it, at the    *)
(* latest when the sweeper finds the session idle, unless the server is    *)
(* shut down first.                                                        *)
HangupForgotten ==
  \A u \in MayHangup :
    peer[u] = "closed"
      ~> \/ task[u] = "gone" /\ u \notin sessions /\ u \notin conns
         \/ shutdown

(* Ctrl-C ends the sweeper and every task whose peer reads or has hung up: *)
(* a peer that has stopped reading holds up no task but its own.           *)
OthersDrain ==
  shutdown ~> /\ sweeper = "stopped"
              /\ \A u \in Users : \/ task[u] \in {"unborn", "gone"}
                                  \/ peer[u] = "stalled"

-----------------------------------------------------------------------------
(* What the documentation says and the code does not do                    *)

(* Ctrl-C ends every task, so that `run` drains its JoinSet and returns.   *)
ShutdownDrains ==
  shutdown ~> /\ sweeper = "stopped"
              /\ \A u \in Users : task[u] \in {"unborn", "gone"}

(* docs/02-FEATURES.md, connection lifecycle, step 10: on disconnect the   *)
(* sender is dropped, the session forgotten and the peer evicted.          *)
DisconnectForgets ==
  \A u \in Users : task[u] = "gone" => u \notin sessions /\ u \notin conns
=============================================================================
