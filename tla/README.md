# chat-rs in TLA+

TLA+ models of chat-rs, a terminal chat with a multi-room server: what the
server's tasks do to the shared state of a room, how a connection gets there,
what the limits with a clock let pass, and what the client puts on its
terminal and takes off again. TLC checks small instances, TLAPS
proves the results that are listed under *Proofs* for every instance.

Run a configuration with `tlc -config <cfg> <module>` and check the proofs with
`tlapm <module>` for each module whose name ends in `Proofs`. `PROJECT.json`
lists runs, mutants, the map from definitions to source lines, findings and
hazards.

## The system

| Part | State | Operations | Works with |
|---|---|---|---|
| Room (`RoomState`, `stores.rs`, `managers.rs`) | ring of the last 15 messages; sessions (last counter, last activity, message window, last clear); table of outbox Senders. One mutex each | push, snapshot, clear; insert, touch, try_advance_counter, try_consume_message_quota, try_consume_clear, remove, stale; insert, remove, snapshot | shared by all connection tasks of the room and the sweeper |
| Connection task (`handle_connection`, `pump`, `handle_client_frame`, `broadcast`) | its Noise transport, its Receiver, the frame in hand | handshake, register, Welcome, pump (biased select: token, outbox, socket), handle a frame, broadcast by `try_send`, cleanup | room tables; other tasks' channels; the peer's socket |
| Sweeper | the ids it found stale | tick: limiter cleanup, scan, remove | every room, limiter |
| Accept loop, shutdown (`run`) | listener, JoinSet, cancellation token | accept, ctrl-c, drain | limiter, connection tasks |
| `ConnGuard` | `active_conns` (atomic) | fetch_add, roll back, drop | connection tasks |
| `RateLimiter` | map from address to queue of instants | check, cleanup | accept loop, sweeper |
| Client (`client/mod.rs`, `client/ui.rs`) | screen, scroll, seen counters, next counter | Welcome, handle_server_frame, handle_key, tick | server |
| Handshake (`noise.rs`, first part of `handle_connection`) | phase, timeouts | RoomSelect, Hello, M0, M1, first Hello | rooms, fake room |
| Crypto, codec, room file, command line | none shared | pure functions | |

What is hard here. Storing a message, taking the snapshot of the table and each
`try_send` are separate steps of as many tasks as there are clients; a newcomer
is registered first and takes its history snapshot later; the sweeper releases
the lock between scan and removal; a slow peer is evicted by others while its
own task runs; ctrl-c and hangups come at any time; three timeouts, a shared
slot counter and a junk room guard the handshake; the client writes inside the
loop that also expires its secrets. The repository's own notes
(`docs/01-TODO.md`, "Remaining test gaps") name idle eviction, slow peers and the
shutdown drain as untested. `PROJECT.json` lists the hazards line by line.

What makes each part correct:

* room and connection tasks: per-sender order on every connection, a faithful
  replay, no gap between replay and live stream, tables that agree but for the
  moment of a cleanup and are empty after everybody left, no task held up by another's peer, an end to every task;
* handshake: only members get in, on one connection a stranger is treated the
  same whether its room exists or not, no slot is leaked and none is held beyond the timeouts;
* client: every message once, in order, and nothing of the history missed; the
  page does not move under the reader; secrets are masked and deleted in time;
* limiters: never more than the cap, never a refusal without reason, no leak.

## Modules

| Module | Models | Composed with |
|---|---|---|
| `RoomServer` | one room: tables, connection tasks from registration on, sweeper, token | extended by `ChatClient` |
| `ChatClient` | what each client makes of the frames written to it | `RoomServer` |
| `ConnGuard` | `active_conns` and its RAII guard | extended by `ServerHub` |
| `ServerHub` | accept loop, handshake of both ends with its timeouts, fake room, shutdown | `ConnGuard` |
| `RoomStores` | session store, sweeper interval and ring with a clock and sizes | two instances of `WindowLimiter` |
| `RateLimiter` | per-address queues of instants, check and cleanup | implements `WindowLimiter` |
| `WindowLimiter` | the abstract sliding window | |
| `SlidingWindow` | the loop that pops expired instants | used by `RateLimiter` and `RoomStores` |
| `Screen` | `UiState` and the client's event loop | |

`MCRoomServer`, `MCChatClient` and `MCServerHub` give the constants their
values; eight modules hold the theorems (*Proofs* below). Definitions
marked *Mutant* are wrong variants of the operation that follows them. No
specification uses them; each shows that a property notices the mistake.

**RoomServer.** A step is what a task does between two points where another task
can see shared state: one critical section, one `try_send`, one socket read or
write. Cleanup removes the session and then waits for the mutex of the
connections, still holding that of the sessions: two steps (`CleanupSession`,
`CleanupConn`), between which broadcasts meet the Sender and whoever needs the
sessions waits (`SessionsUnlocked`). The sweeper takes both mutexes before it
removes anything: one step. Registration waits between its two inserts as well,
but the new session cannot be looked at before both are done: one step.
`task[u]` says where the task of connection `u` stands; a connection stands for
its own fresh `Uuid`. `history`, `sessions` with `last_counter` and `idle`, and
`conns` are the three tables; `outbox[u]` is the mpsc channel; `todo[u]` and
`dead[u]` are the Sender clones and the list of a running broadcast; `got[u]` is
what was written to the peer. Rooms share nothing but the limiters, so one room
is enough. A ciphertext is its length. The handshake is its two outcomes
(`ServerHub` has the rest). `GoIdle` is the passing of SESSION_TIMEOUT, at any
moment; whether the message window or the clear cooldown lets a frame pass is
open, so both answers are covered (`RoomStores` has the clock). A peer reads,
stalls for good, or has closed; a slow peer is one whose write has not completed
yet. A write to a peer that has closed fails or is swallowed by the kernel.
`PumpReadFails` is the end of the stream, an I/O error, a bad tag or an
undecodable frame.

**ChatClient.** The client is sequential, so its state is a function of the frames
it has read (`Read`, a recursive function of their number, as `SeedAll` is of the
messages of the Welcome). A line is known by the message it stands for, also
when all it says is that the message did not decrypt.

**ServerHub.** `phase[c]` is the server's side of a connection: in the backlog,
spawned, over the cap, waiting for RoomSelect (`select`), for M0 (`noise`), for
the first encrypted frame (`first`), served, ended. `age[c]` is the running
`tokio::time::timeout`, `since[c]` counts from the start of the handshake.
`client[c]` is `client::run` up to its Welcome, started with `intent[c]` (room,
password, version, valid name or not), or a peer that says something else
(`Stray`), nothing, or hangs up. The wire keeps what was sent, in order. The
cryptography is what the code relies on: `derive_keys` is injective and a Noise
message is accepted iff psk and prologue agree. A room's salt stays, a fake
room's is drawn anew for every connection (`Junk`). Writes of the handshake do not
wait: its few hundred bytes fit into an empty socket buffer.

**RoomStores.** Each operation of the session store is a step, as it holds the
store's mutex, in any order that the tasks may call them. `sent` and `cleared`
remember everything that was let pass, for the comparison with `WindowLimiter`.
The ring is the number of messages it holds, each counted as the longest the
server accepts; `Welcome` is the length postcard makes of it.

**Screen.** An arm of the select together with the draw at the top of the next
round is one step, except that the key arm may wait in `send_encrypted`
(`sending`). Ages and times left replace instants. The clock advances only while
the loop waits, that is, the loop is assumed to do what is ready before the next
unit of time; what happens when it cannot is `MayBlock`. `drawn` is what the
terminal shows since the last draw, and every draw may meet a new height. The
input line is whatever the user may have typed, so Enter may always send, do
nothing, or quit; the counter a message is sent with is left out.

## Runs

| Run | Configuration | Shows |
|---|---|---|
| `room_order` | two users and their clients, counters 1..2, the first ephemeral or not, clear, and one bad frame for every check; ring 2, outbox 1, two reads each | `SenderOrder`, `HistoryFaithful`, `JoinComplete`, `SoloReplay`, `ShownOnceInOrder`, `HistoryShown` |
| `room_ends` | two users, one message each, ephemeral so that the history stays out of the state; one peer may stall, hang up and age; ctrl-c | `TypeOK`, `SendersTracked`, `CleanExit`, `BroadcastCompletes`, `EvictedCloses`, `HangupForgotten`, `OthersDrain` |
| `server_hub` | two connections, cap 1, one room; members, wrong password, wrong version, bad name, unknown and malformed room, strays, silence | `HubTypeOK`, `CounterExact`, `CapHeld`, `OnlyMembers`, `SaltPerRoom`, `StrangersAlike`, `HandshakeBounded`, `HandshakeSettles` |
| `room_stores` | one session, two messages per window of 2, cooldown 2, timeout 1, sweep every 2, clock to 5; the real sizes | `TypeOK`, `QuotaIsWindow`, `CooldownIsWindow`, `IdleBounded`, `WelcomeFits` |
| `rate_limiter` | two addresses, 2 per window of 2, clock to 6 | `TypeOK`, `WindowCap`, `QueueIsRecent`, `ImplementsWindow` |
| `screen` | three lines kept, five pushed, heights 0 to 2, tick 2, reveal 2, time to live 4 | `TypeOK`, `ViewFull`, `FollowsOrStays`, `SecretMasked`, `SecretsExpire` |

Six more runs end in a counterexample: a comment or the documentation says one
thing, the code does another (lifecycle steps are those of
`docs/02-FEATURES.md`).

| Run | The code | The text |
|---|---|---|
| `room_welcome_leak` | an unwritable Welcome returns before the cleanup block: session and Sender stay | lifecycle step 10 |
| `room_stalled_drain` | a task writing to a stalled peer never sees the token | lifecycle step 11 |
| `client_clear_race` | a message stored after the clear and sent before its notice vanishes from the screens and stays in the history | README, `/clear` |
| `client_secret_lost` | a newcomer's replay filter, seeded from its Welcome, drops a secret sent before | README, `/secret` |
| `screen_anchor` | with a full deque every new line moves the page of a reader by one | comment in `UiState::push` |
| `screen_blocked` | while a write waits, nothing expires or is masked again | comment on the interval in `event_loop` |

They have limits that the passing runs show. The leak ends by `HangupForgotten`:
the sweeper finds the session. A stalled peer holds up its own task and no
other (`OthersDrain`, `BroadcastCompletes`). By `HistoryShown` only messages
outside the history can be lost to the replay filter. Below HISTORY_CAP the page
stays (`FollowsOrStays`).

Disagreements that need no run of their own:

* The sweeper removes the ids it found stale under an earlier lock. A session
  touched in between is evicted although it is active, and the frame in hand is
  refused for want of a session; lifecycle step 9 speaks of idle sessions. The
  connection is closed and cleaned up like any other (`EvictedCloses`,
  `CleanExit`).
* Lifecycle step 2 says of a name that is no room: "on miss it replies
  `ServerFrame::Error { reason: AuthFailed }` and closes". The code goes on with
  a fake room and a Hello, as another place of the same document (line 275) and
  the README say; every step on such a connection is one that `StrangersAlike`
  allows.
* The comments on `fake_room` and at its use say that an observer cannot tell "no
  such room" from "wrong password" nor enumerate names. On a single connection
  nothing but the salt, random either way, depends on it (`StrangersAlike`). Over
  two connections the salts do: a room keeps its own, a fake room has a new one
  each time (`SaltPerRoom`).
* The comment on `try_consume_clear` (`stores.rs:135`) allows a clear when the
  last one "was longer than `CLEAR_COOLDOWN` ago". The code compares with `<` and
  lets it pass at exactly CLEAR_COOLDOWN; `CooldownIsWindow` has the code's edge,
  and its mutant is the comment's.
* The comment on HANDSHAKE_TIMEOUT calls it the budget of the whole
  handshake; each of three reads has its own. `HandshakeBounded` has the
  factor 3, and less does not hold.
* `fake_room` and `handle_connection` say a handshake with a wrong key fails at
  the client's M1. It already fails at the server, which reads M0 under the psk;
  the two kinds of stranger are still treated alike (`StrangersAlike`).
* `handle_key` calls `/s` without a text a no-op. The line is trimmed first, so
  `/s ` never matches its prefix and the two characters are sent as a message.
* Expiry below the page of a reader moves the page as a full deque does: only
  the clamp is applied.

Bounds. The safety properties of the room relate one sender, one recipient and
one more task that overlaps; two users in all roles show these. An outbox of
one is full at once, so eviction happens within two reads; a ring of two has an
order, is filled by two messages and rotates with the third (for a client that
is alone, `SoloReplay`, rotation is left to the theorem). Two counters and two reads give a repeated, a skipped
and an increasing counter. One faulty peer in `room_ends` can meet the healthy
one in every phase. Two connections against a cap of one overshoot; a timeout of
one tick separates a phase that takes time from one that does not. In
`room_stores` sessions do not influence each other, so one is enough; a window
and a cooldown of two have an edge, an inside and an outside within the clock. Three
lines with heights up to two scroll, fill, overflow and shrink, and
five lines let two overflow; a reveal of one tick's length and a life of two can
fall before, on and after a tick. `MAX_READS`, `MAX_COUNTER`, `MAX_TIME` and
`MAX_LINES` are bounds of the model; `since` in `ServerHub` and ages in `Screen`
are not told apart beyond what the properties forbid. MayStall, MayHangup,
MayAge, MayStop and MayBlock choose the mishaps of an instance. Users all
announce the same name, which the code allows, and may be permuted; the liveness
runs do not use symmetry. Deadlock is checked in every run: a room is at rest
when no task is left, or only tasks that write to a stalled peer.

Fairness. tokio polls every task that was woken: weak fairness for what a task
can do by itself, the end of the stream included, for the sweeper, the accept
loop and the timers; and a session whose task is gone grows old, since nothing
touches it. No frame is ever assumed to come, and no peer to read or to hang up.
`ServerHub` assumes nothing of a connection once it is served: its writes watch
neither token nor timer (`room_stalled_drain`). What ctrl-c brings about is the
two modules together: every handshake ends (`HandshakeSettles`), and so does
every served connection whose peer does not stall (`OthersDrain`). `Screen` has no
liveness: the biased select promises the tick nothing under permanent load, so
its bounds are safety properties under the assumption on the clock above.

## Proofs

All theorems hold for every value of the constants that satisfies the named
assumption of the module. The inductive invariants they rest on were also checked
by TLC, on the instances above.

| Module | Theorems | Inductive invariant and why it is needed |
|---|---|---|
| `RoomServerProofs` | `TypeCorrect` (TypeOK), `TablesConsistent` (SendersTracked, CleanExit) | `TypeInv` adds `OutputHeld`: what a task puts on a socket is a frame because of where the task stands. A task that ends without its cleanup block has written nothing (`SilentUntilWelcomed`); one between the halves of its cleanup has no session any more (`HalfRemoved`) |
| `RoomOrderProofs` | `SenderOrdered` (SenderOrder), `HistoryIsFaithful` (HistoryFaithful), `JoinIsComplete` (JoinComplete) | `OrderInv`: a counter on the way to a client is at most the sender's `last_counter`, and below it while the sender still owes this client the message in hand. `HistoryInv`: the ring is replayable and its counters are used up. `JoinInv`: a message of the ring has reached a joined client or a running broadcast owes it |
| `ClientProofs` | `ShownIsOrdered` (ShownOnceInOrder), `HistoryIsShown` (HistoryShown), `SoloReplayed` (SoloReplay) | `OpeningInv`: the Welcome is the first frame of a connection and its only Welcome. `WelcomeInv`: a Welcome that has a message of a sender has every older one of that sender that is still in the ring. `SoloInv`: a lone client's stream, together with the frame its own broadcast still owes it, accounts for the ring. The first two theorems also use `OrderInv`, `HistoryInv` and `JoinInv` |
| `ServerHubProofs` | `GuardInvariant` (CounterExact, CapHeld), `HubTypeCorrect` (HubTypeOK), `OnlyMembersEnter` (OnlyMembers), `RoomsStayHidden` (StrangersAlike), `RoomsKeepTheirSalt` (SaltPerRoom), `HandshakeIsBounded` (HandshakeBounded) | every step of the hub is one of three steps of the guard or leaves it alone (`HubGuardStep`); the cap needs the exact counter, which needs the number of holders to change by one. `HandshakeInv`: what each phase of either end says of the frames on the wire and of the keys they were made with, and how `since` follows from the phase and the running timeout (`TimeInv`). It shows that a stranger's M0 is always refused, whence `StrangersAlike` action by action |
| `WindowProofs` | lemmas only | `Tracks`: a queue is the end of everything that was allowed, and what it lacks has expired; popping, appending and the passing of time keep it |
| `RateLimiterProofs` | `LimiterTypeCorrect` (TypeOK), `WindowCapHolds` (WindowCap), `QueueRemembersEnough` (QueueIsRecent), `LimiterRefines` (ImplementsWindow) | `LimiterInv`: `Tracks` for every address, and `Spread`: connections `max` apart are more than a window apart |
| `RoomStoresProofs` | `StoresTypeCorrect` (TypeOK), `IdleIsBounded` (IdleBounded), `WelcomeAlwaysFits` (WelcomeFits), `QuotaRefines` (QuotaIsWindow), `CooldownRefines` (CooldownIsWindow) | `SweepInv`: an idle session has at most the time to the next sweep beyond its timeout. `QuotaInv`, `ClearInv`: `Tracks` for the message window, the last instant for the cooldown |
| `ScreenProofs` | `ScreenTypeCorrect` (TypeOK), `PaneIsFull` (ViewFull), `LinesFollowOrStay` (FollowsOrStays), `SecretsStayMasked` (SecretMasked), `SecretsAreGone` (SecretsExpire) | `PaneInv`: the scroll position needs no clamping and the terminal shows the lines it points at. `SecretInv`: ages, reveals and rows are within their limit and the time since the last tick (`Slack`) |

Assumptions. `WelcomeAlwaysFits` assumes the sizes of the code (`CodeSizes`), as
with other sizes a Welcome need not fit. `SecretsStayMasked` and
`SecretsAreGone` assume `~MayBlock`; `screen_blocked` shows that they must.
`HubAssumption` takes it that random bytes do not repeat and that nobody knows
the psk of a fake room. The
others are finiteness, positive capacities, and that the replay fits the
client's deque.

How the arguments go. The room has many actions and each client's stream can
change in few ways, so `RoomOrderProofs` first shows that every step is, for a
client, one of six changes of its stream (`WireStep`), and for a sender and a
client, one of a few changes of what is owed (`SenderStep`); the invariants are
then proved once per change. `JoinComplete` holds because the Sender is in the
table before the snapshot is taken: a message stored later finds it there, and
one stored earlier is in the snapshot. Where code loops over a queue (`pop_front`
while expired, `retain`), the loop is defined without recursion or as a recursive
function, and its effect is proved by taking the least position at which it
would be wrong (`Least`). What a client makes of its frames is treated the same
way: the recursive functions of `Read`, `SeedAll` and `SinceClear` are shown to
exist and to satisfy their recursion (`ReadExists`, `SeededExists`,
`KeptExists`), `ReadInv` says what the screen and the replay filter are after
the first `n` frames, and a least `n` at which it fails contradicts the effect
of one more frame. `HistoryShown` then holds because a message of the ring that
the filter refuses is older than one of the Welcome, and so is in the Welcome
itself. The refinements map the queues of the limiters to the
list of everything allowed, which the models carry as history variables.

Only model-checked is the liveness (`BroadcastCompletes`, `EvictedCloses`,
`HangupForgotten`, `OthersDrain`, `HandshakeSettles`): fairness and ENABLED are out of the prover's reach. Every safety
property of the passing runs, invariant, action property or refinement, is a
theorem. The six counterexamples are TLC's, as a counterexample is an instance.

## Plan

1. Done: room, connection tasks, sweeper, shutdown; clients' view; handshake,
   accept loop and slots; stores with a clock; rate limiter; the terminal. Every
   safety invariant and every refinement is proved.
2. Possible later: both directions of a connection with finite socket buffers,
   where client and server may each wait to write to the other.

## Not modelled

* Cryptographic primitives, key derivation, zeroizing (`crypto/`): no state; the
  models use what the code relies on.
* The byte layout of frames and the codec's limits, other than the length of
  the longest Welcome. The client does not limit what it sends: a line of more
  than about 4 KiB gets its connection dropped.
* The room file parser (`rooms.rs`): one sequential pass at startup; the table it
  yields is a parameter.
* Command line, logging, error types, terminal set-up, colours and layout.
* A failed accept, which is logged and changes nothing, and a poisoned mutex, as
  no code panics while holding one.
* Socket buffers: a write completes, or waits for a peer that does not read.
