----------------------------- MODULE RoomStores -----------------------------
(***************************************************************************)
(* The stores of a room with a clock: the sessions' idle time, message     *)
(* window and clear cooldown, the sweeper that runs on an interval, and    *)
(* the ring by the bytes of its messages.  Connection tasks call the       *)
(* operations in any order; each holds the mutex of its store, so each is  *)
(* a step.  An id is inserted once: Uuids are fresh.  A call for an id     *)
(* without a session returns false and changes nothing.                    *)
(***************************************************************************)
EXTENDS SlidingWindow, FiniteSets

CONSTANTS
  Users,
  MSG_RATE_MAX, MSG_RATE_WINDOW, CLEAR_COOLDOWN,   \* in clock ticks
  SESSION_TIMEOUT, SWEEP_INTERVAL,
  HISTORY_LEN, MAX_CIPHERTEXT_LEN, MAX_USERNAME_LEN,
  MAX_FRAME_LEN, NOISE_BUF, AEAD_TAG_LEN,
  MAX_TIME          \* bound: the clock stops there

ASSUME StoresAssumption ==
  /\ {MSG_RATE_MAX, CLEAR_COOLDOWN, SWEEP_INTERVAL, HISTORY_LEN}
       \subseteq Nat \ {0}
  /\ {MSG_RATE_WINDOW, SESSION_TIMEOUT, MAX_CIPHERTEXT_LEN, MAX_USERNAME_LEN,
      MAX_FRAME_LEN, NOISE_BUF, AEAD_TAG_LEN, MAX_TIME} \subseteq Nat

VARIABLES
  now,             \* Instant::now()
  sessions,        \* ids that have a session
  fresh,           \* ids that never had one
  last_active, message_window,
  last_clear,      \* None is <<>>, Some(t) is <<t>>
  due, stale,      \* sweeper: its next tick, and the ids it found
  held,            \* messages in the ring, counted as the longest possible
  sent, cleared,         \* history: when a message, a clear was let pass
  quota_ok, clear_ok     \* the last answers given to a session

limits == <<message_window, last_clear, sent, cleared, quota_ok, clear_ok>>
vars == <<now, sessions, fresh, last_active, due, stale, held, limits>>

TypeOK ==
  /\ now \in 0..MAX_TIME
  /\ sessions \subseteq Users \ fresh
  /\ last_active \in [Users -> 0..now]
  /\ \A u \in Users :
       /\ message_window[u] \in Seq(0..now)
       /\ Len(message_window[u]) <= MSG_RATE_MAX
       /\ last_clear[u] \in {<<>>} \cup {<<t>> : t \in 0..now}
  /\ due \in Nat /\ now <= due
  /\ stale \subseteq Users
  /\ held \in 0..HISTORY_LEN

Init ==
  /\ now = 0
  /\ sessions = {}
  /\ fresh = Users
  /\ last_active = [u \in Users |-> 0]
  /\ message_window = [u \in Users |-> <<>>]
  /\ last_clear = [u \in Users |-> <<>>]
  /\ due = SWEEP_INTERVAL   \* the immediate first tick is skipped
  /\ stale = {}
  /\ held = 0
  /\ sent = [u \in Users |-> <<>>]
  /\ cleared = [u \in Users |-> <<>>]
  /\ quota_ok = TRUE
  /\ clear_ok = TRUE

-----------------------------------------------------------------------------
(* UserSessionStore                                                        *)

insert(u) ==
  /\ u \in fresh
  /\ fresh' = fresh \ {u}
  /\ sessions' = sessions \cup {u}
  /\ last_active' = [last_active EXCEPT ![u] = now]
  /\ UNCHANGED <<now, due, stale, held, limits>>

touch(u) ==
  /\ u \in sessions
  /\ last_active' = [last_active EXCEPT ![u] = now]
  /\ UNCHANGED <<now, sessions, fresh, due, stale, held, limits>>

remove(u) ==
  /\ u \in sessions
  /\ sessions' = sessions \ {u}
  /\ UNCHANGED <<now, fresh, last_active, due, stale, held, limits>>

(* Mutant: >= for >.                                                       *)
SlidAtEdge(t) == now - t >= MSG_RATE_WINDOW

Slid(t) == now - t > MSG_RATE_WINDOW

(* pop_front while the front is older than the window.                     *)
Unexpired(u) == PopWhile(message_window[u], {t \in 0..now : Slid(t)})

quota_allows(u) ==
  /\ u \in sessions
  /\ Len(Unexpired(u)) < MSG_RATE_MAX
  /\ message_window' = [message_window EXCEPT ![u] = Append(Unexpired(u), now)]
  /\ sent' = [sent EXCEPT ![u] = Append(@, now)]
  /\ quota_ok' = TRUE
  /\ UNCHANGED <<now, sessions, fresh, last_active, due, stale, held,
                 last_clear, cleared, clear_ok>>

quota_refuses(u) ==
  /\ u \in sessions
  /\ Len(Unexpired(u)) >= MSG_RATE_MAX
  /\ message_window' = [message_window EXCEPT ![u] = Unexpired(u)]
  /\ quota_ok' = FALSE
  /\ UNCHANGED <<now, sessions, fresh, last_active, due, stale, held,
                 last_clear, sent, cleared, clear_ok>>

(* Mutant: <= for <.                                                       *)
CoolingAtEdge(u) == \E t \in 0..now : /\ last_clear[u] = <<t>>
                                     /\ now - t <= CLEAR_COOLDOWN

Cooling(u) == \E t \in 0..now : /\ last_clear[u] = <<t>>
                               /\ now - t < CLEAR_COOLDOWN

try_consume_clear(u) ==
  /\ u \in sessions
  /\ clear_ok' = ~Cooling(u)
  /\ IF Cooling(u) THEN UNCHANGED <<last_clear, cleared>>
     ELSE /\ last_clear' = [last_clear EXCEPT ![u] = <<now>>]
          /\ cleared' = [cleared EXCEPT ![u] = Append(@, now)]
  /\ UNCHANGED <<now, sessions, fresh, last_active, due, stale, held,
                 message_window, sent, quota_ok>>

-----------------------------------------------------------------------------
(* sweeper                                                                 *)

(* Mutant: idle for a whole sweep interval longer than the timeout.        *)
IdleOneMore(u) == now - last_active[u] > SESSION_TIMEOUT + SWEEP_INTERVAL

Idle(u) == now - last_active[u] > SESSION_TIMEOUT

SweepScan ==
  /\ now = due
  /\ stale = {}
  /\ due' = due + SWEEP_INTERVAL
  /\ stale' = {u \in sessions : Idle(u)}
  /\ UNCHANGED <<now, sessions, fresh, last_active, held, limits>>

SweepRemove ==
  /\ stale # {}
  /\ sessions' = sessions \ stale
  /\ stale' = {}
  /\ UNCHANGED <<now, fresh, last_active, due, held, limits>>

-----------------------------------------------------------------------------
(* MessageStore                                                            *)

(* Mutant: the ring drops its oldest entry one push too late.              *)
PushLate ==
  /\ held' = (IF held > HISTORY_LEN THEN held - 1 ELSE held) + 1
  /\ UNCHANGED <<now, sessions, fresh, last_active, due, stale, limits>>

push ==
  /\ held' = (IF held = HISTORY_LEN THEN held - 1 ELSE held) + 1
  /\ UNCHANGED <<now, sessions, fresh, last_active, due, stale, limits>>

clear ==
  /\ held' = 0
  /\ UNCHANGED <<now, sessions, fresh, last_active, due, stale, limits>>

(* Encoded lengths: postcard writes lengths and integers as varints, a     *)
(* Uuid as 16 bytes with their length; a u64 takes up to ten bytes.        *)
varint(n) == IF n < 128 THEN 1 ELSE IF n < 16384 THEN 2 ELSE 3
Bytes(n) == varint(n) + n
Uuid == Bytes(16)
u64 == 10
MessageAd == Uuid + Bytes(MAX_USERNAME_LEN) + u64 + u64 + 1
RoomMessage ==
  Uuid + Bytes(MAX_USERNAME_LEN) + MessageAd + Bytes(MAX_CIPHERTEXT_LEN)
Welcome == 1 + Uuid + varint(held) + held * RoomMessage
transport_seal(n) == n + AEAD_TAG_LEN

-----------------------------------------------------------------------------

(* Time passes; the sweeper's timer fires first, and it does not dawdle.   *)
Tick ==
  /\ now < MAX_TIME
  /\ now < due
  /\ stale = {}
  /\ now' = now + 1
  /\ UNCHANGED <<sessions, fresh, last_active, due, stale, held, limits>>

Next ==
  \/ \E u \in Users : \/ insert(u) \/ touch(u) \/ remove(u)
                      \/ quota_allows(u) \/ quota_refuses(u)
                      \/ try_consume_clear(u)
  \/ SweepScan \/ SweepRemove
  \/ push \/ clear
  \/ Tick

Spec == Init /\ [][Next]_vars

-----------------------------------------------------------------------------

(* The message quota of a session is a sliding window: a message passes    *)
(* exactly when fewer than MSG_RATE_MAX passed within the window, also     *)
(* when its edge is met and after refusals that trimmed the queue.         *)
Quota == INSTANCE WindowLimiter
           WITH Keys <- Users, Max <- MSG_RATE_MAX, Window <- MSG_RATE_WINDOW,
                allowed <- sent, verdict <- quota_ok
QuotaIsWindow == Quota!Spec

(* The cooldown of /clear is a window as well, for one clear, which unlike *)
(* the message window is open at its edge: < in try_consume_clear lets a   *)
(* clear pass exactly CLEAR_COOLDOWN after the last one, and so the window *)
(* is one tick shorter.  The comment on the function says "longer than     *)
(* `CLEAR_COOLDOWN` ago", which would be CoolingAtEdge.                    *)
Cooldown == INSTANCE WindowLimiter
              WITH Keys <- Users, Max <- 1, Window <- CLEAR_COOLDOWN - 1,
                   allowed <- cleared, verdict <- clear_ok
CooldownIsWindow == Cooldown!Spec

(* No session outlives its last frame by more than the timeout and one     *)
(* sweep, wherever between two sweeps its timeout falls.                   *)
IdleBounded ==
  \A u \in sessions : now - last_active[u] <= SESSION_TIMEOUT + SWEEP_INTERVAL

(* A room full of the longest messages does not lock newcomers out: its    *)
(* Welcome fits into one Noise message and one frame of the codec          *)
(* (MAX_CIPHERTEXT_LEN and HISTORY_LEN are chosen for that).               *)
WelcomeFits ==
  /\ transport_seal(Welcome) <= NOISE_BUF
  /\ transport_seal(Welcome) <= MAX_FRAME_LEN
=============================================================================
