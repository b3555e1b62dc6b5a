------------------------------ MODULE ServerHub ------------------------------
(***************************************************************************)
(* From accept to registration: the accept loop of server::run, the first  *)
(* half of handle_connection with its connection slot and its three        *)
(* timers, and at the other end of the wire client::run up to its Welcome  *)
(* or any peer that does not keep to the protocol.  Registration and all   *)
(* that follows is one phase, "served": RoomServer takes it from there.    *)
(*                                                                         *)
(* up[c] and down[c] are all that was ever put on the wire of connection   *)
(* c; each end reads them in order, so its phase says how far it has read. *)
(* The frames of a handshake are small and the socket buffers empty: a     *)
(* write does not wait.  Whether the rate limiter lets an address pass is  *)
(* left open (see RateLimiter).                                            *)
(*                                                                         *)
(* The cryptography is external: derive_keys is injective, and a Noise     *)
(* message is accepted iff both ends mixed in the same psk and prologue.   *)
(***************************************************************************)
EXTENDS ConnGuard, Sequences

CONSTANTS
  Rooms,              \* the configured rooms
  Password,           \* what each of them was configured with
  OtherRooms,         \* well-formed names of no room
  BadRooms,           \* names that are empty or too long
  Clients,            \* per connection: what its peer may want, see Intent
  Junk,               \* per connection: the random bytes it would be given
  PROTOCOL_VERSION,
  HANDSHAKE_TIMEOUT   \* in clock ticks

(* Intent: the arguments a client was started with, and its own version.   *)
(* Random bytes do not repeat, and nobody guesses the 32 of a psk.         *)
ASSUME HubAssumption ==
  /\ HANDSHAKE_TIMEOUT \in Nat \ {0}
  /\ \A c \in Conns : Junk[c] \notin Rooms
  /\ \A c, d \in Conns : Junk[c] = Junk[d] => c = d
  /\ \A c \in Conns : \A i \in Clients[c] :
       /\ i.room \in Rooms \cup OtherRooms \cup BadRooms
       /\ \A d \in Conns : i.password # Junk[d]

VARIABLES
  phase,     \* where the server's side of a connection stands
  age,       \* ticks since the running timeout was started
  since,     \* during a handshake: ticks since the slot was taken
  shutdown,  \* the token
  intent, client,  \* the peer: what it wants, and where it stands
  up, down   \* frames sent to the server and to the peer

wire == <<up, down>>
hubVars == <<guardVars, phase, age, since, shutdown, intent, client, wire>>

(* Mutant: nobody watches the clock while the first Hello is awaited.      *)
TimedUntilNoise == {"select", "noise"}

(* The phases that run under tokio::time::timeout.                         *)
Timed == {"select", "noise", "first"}

Handshaking == {"select", "noise", "first"}

TooLong == 3 * HANDSHAKE_TIMEOUT + 1   \* bound: since is not told apart beyond

HubTypeOK ==
  /\ GuardTypeOK
  /\ phase \in [Conns -> {"backlog", "task", "refused", "served", "ended"}
                           \cup Handshaking]
  /\ age \in [Conns -> 0..HANDSHAKE_TIMEOUT]
  /\ since \in [Conns -> 0..TooLong]
  /\ shutdown \in BOOLEAN
  /\ \A c \in Conns : intent[c] \in Clients[c]
  /\ client \in [Conns -> {"start", "hello", "m1", "welcome", "joined",
                           "stray", "closed"}]
  /\ \A c \in Conns : Len(up[c]) <= 3 /\ Len(down[c]) <= 3

HubInit ==
  /\ GuardInit
  /\ phase = [c \in Conns |-> "backlog"]
  /\ age = [c \in Conns |-> 0]
  /\ since = [c \in Conns |-> 0]
  /\ shutdown = FALSE
  /\ intent \in {i \in [Conns -> UNION {Clients[c] : c \in Conns}] :
                  \A c \in Conns : i[c] \in Clients[c]}
  /\ client = [c \in Conns |-> "start"]
  /\ up = [c \in Conns |-> <<>>]
  /\ down = [c \in Conns |-> <<>>]

Go(c, from, to) ==
  /\ phase[c] = from
  /\ phase' = [phase EXCEPT ![c] = to]

Say(c, f) == down' = [down EXCEPT ![c] = Append(@, f)]

-----------------------------------------------------------------------------
(* The accept loop                                                         *)

(* Accepted: spawned, or dropped at once by the rate limiter.              *)
Accept(c) ==
  /\ ~shutdown
  /\ Go(c, "backlog", "task") \/ Go(c, "backlog", "ended")
  /\ UNCHANGED <<guardVars, age, since, shutdown, intent, client, wire>>

CtrlC ==
  /\ ~shutdown
  /\ shutdown' = TRUE
  /\ UNCHANGED <<guardVars, phase, age, since, intent, client, wire>>

(* drop(listener) resets what was not accepted.                            *)
DropListener(c) ==
  /\ shutdown
  /\ Go(c, "backlog", "ended")
  /\ UNCHANGED <<guardVars, age, since, shutdown, intent, client, wire>>

-----------------------------------------------------------------------------
(* handle_connection                                                       *)

TryAcquire(c) ==
  /\ FetchAdd(c)
  /\ Go(c, "task", IF guard'[c] = "held" THEN "select" ELSE "refused")
  /\ UNCHANGED <<age, since, shutdown, intent, client, wire>>

Refused(c) ==
  /\ RollBack(c)
  /\ Go(c, "refused", "ended")
  /\ UNCHANGED <<age, since, shutdown, intent, client, wire>>

(* Any return drops the guard and the socket.                              *)
Return(c) ==
  /\ DropGuard(c)
  /\ phase' = [phase EXCEPT ![c] = "ended"]
  /\ age' = [age EXCEPT ![c] = 0]
  /\ since' = [since EXCEPT ![c] = 0]
  /\ UNCHANGED <<shutdown, intent, client, up>>

(* The step to the next phase; its timeout, if it has one, starts anew.    *)
Proceed(c, from, to) ==
  /\ Go(c, from, to)
  /\ age' = [age EXCEPT ![c] = 0]
  /\ since' = [since EXCEPT ![c] = IF to = "served" THEN 0 ELSE @]
  /\ UNCHANGED <<guardVars, shutdown, intent, client, up>>

derive_keys(password, salt) == <<password, salt>>

build_prologue(room_id, salt, server_version) ==
  <<room_id, salt, server_version>>

(* Salt and psk are drawn anew for every connection that misses.           *)
fake_room(c, r) ==
  [room_id |-> r, salt |-> Junk[c], psk |-> <<Junk[c], Junk[c]>>]

(* Mutant: the salt is drawn when a client asks for it.                    *)
lookup_salted(c, r) ==
  IF r \in Rooms
    THEN [room_id |-> r, salt |-> Junk[c],
          psk |-> derive_keys(Password[r], Junk[c])]
    ELSE fake_room(c, r)

(* A room's salt was drawn once, by ServerHub::new: its name stands for it. *)
lookup(c, r) ==
  IF r \in Rooms
    THEN [room_id |-> r, salt |-> r, psk |-> derive_keys(Password[r], r)]
    ELSE fake_room(c, r)

(* Mutant: an unknown room is refused by an error of its own.              *)
SelectKnownRoom(c) ==
  /\ up[c] # <<>>
  /\ up[c][1].kind = "RoomSelect"
  /\ up[c][1].room \notin BadRooms
  /\ IF up[c][1].room \in Rooms
       THEN /\ Proceed(c, "select", "noise")
            /\ Say(c, [kind |-> "Hello", salt |-> lookup(c, up[c][1].room).salt,
                       version |-> PROTOCOL_VERSION])
       ELSE phase[c] = "select" /\ Return(c) /\ Say(c, [kind |-> "Error"])

(* RoomSelect, the lookup, and the plaintext Hello.                        *)
SelectRoom(c) ==
  /\ up[c] # <<>>
  /\ up[c][1].kind = "RoomSelect"
  /\ up[c][1].room \notin BadRooms
  /\ Proceed(c, "select", "noise")
  /\ Say(c, [kind |-> "Hello", salt |-> lookup(c, up[c][1].room).salt,
             version |-> PROTOCOL_VERSION])

(* Mutant: the prologue alone is compared.                                 *)
PrologueMatches(c) ==
  LET room == lookup(c, up[c][1].room)
  IN  /\ up[c][2].kind = "M0"
      /\ up[c][2].prologue =
           build_prologue(room.room_id, room.salt, PROTOCOL_VERSION)

(* Reading M0: its empty payload is sealed under psk and prologue.         *)
read_message(c) ==
  LET room == lookup(c, up[c][1].room)
  IN  /\ up[c][2].kind = "M0"
      /\ up[c][2].psk = room.psk
      /\ up[c][2].prologue =
           build_prologue(room.room_id, room.salt, PROTOCOL_VERSION)

handshake_responder(c) ==
  /\ Len(up[c]) >= 2
  /\ Proceed(c, "noise", "first")
  /\ read_message(c)
  /\ Say(c, [kind |-> "M1"])

(* A valid Hello registers the session, and Welcome is sent.               *)
Register(c) ==
  /\ Len(up[c]) >= 3
  /\ up[c][3].kind = "Hello"
  /\ up[c][3].valid
  /\ Proceed(c, "first", "served")
  /\ Say(c, [kind |-> "Welcome"])

(* Errors that are answered: BadFrame, then the task returns.              *)
RejectAloud(c) ==
  /\ \/ /\ phase[c] = "select"
        /\ up[c] # <<>>
        /\ up[c][1].kind = "RoomSelect"
        /\ up[c][1].room \in BadRooms
     \/ /\ phase[c] = "first"
        /\ Len(up[c]) >= 3
        /\ up[c][3].kind # "Garbage"
        /\ up[c][3].kind = "Hello" => ~up[c][3].valid
  /\ Say(c, [kind |-> "Error"])
  /\ Return(c)

(* Errors that are not: the wrong frame first, a bad M0, a bad tag.        *)
Reject(c) ==
  /\ \/ phase[c] = "select" /\ up[c] # <<>> /\ up[c][1].kind # "RoomSelect"
     \/ phase[c] = "noise" /\ Len(up[c]) >= 2 /\ ~read_message(c)
     \/ phase[c] = "first" /\ Len(up[c]) >= 3 /\ up[c][3].kind = "Garbage"
  /\ Return(c)
  /\ UNCHANGED down

Timeout(c) ==
  /\ phase[c] \in Timed
  /\ age[c] = HANDSHAKE_TIMEOUT
  /\ Return(c)
  /\ UNCHANGED down

(* End of stream or a failed write, once the peer has closed its socket.   *)
PeerGone(c) ==
  /\ phase[c] \in Handshaking
  /\ client[c] = "closed"
  /\ Return(c)
  /\ UNCHANGED down

(* Everything after registration, up to the return (RoomServer).           *)
ServedEnds(c) ==
  /\ phase[c] = "served"
  /\ Return(c)
  /\ UNCHANGED down

(* Time passes.  A timer that has run out fires before it does.            *)
Tick ==
  /\ \E c \in Conns : phase[c] \in Handshaking
  /\ \A c \in Conns : phase[c] \in Timed => age[c] < HANDSHAKE_TIMEOUT
  /\ age' = [c \in Conns |-> IF phase[c] \in Timed THEN age[c] + 1 ELSE age[c]]
  /\ since' = [c \in Conns |->
                 IF phase[c] \in Handshaking /\ since[c] < TooLong
                   THEN since[c] + 1 ELSE since[c]]
  /\ UNCHANGED <<guardVars, phase, shutdown, intent, client, wire>>

-----------------------------------------------------------------------------
(* client::run up to its Welcome, and peers that do otherwise              *)

PeerTurns(c, from, to) ==
  /\ client[c] = from
  /\ client' = [client EXCEPT ![c] = to]
  /\ UNCHANGED <<guardVars, phase, age, since, shutdown, intent, down>>

(* What the peer writes; on a socket that is closed it would only fail.    *)
Tell(c, f) ==
  /\ phase[c] # "ended"
  /\ up' = [up EXCEPT ![c] = Append(@, f)]

ClientSelect(c) ==
  /\ PeerTurns(c, "start", "hello")
  /\ Tell(c, [kind |-> "RoomSelect", room |-> intent[c].room])

handshake_initiator(c) ==
  /\ Len(down[c]) >= 1
  /\ down[c][1].kind = "Hello"
  /\ down[c][1].version = intent[c].version
  /\ PeerTurns(c, "hello", "m1")
  /\ Tell(c, [kind |-> "M0",
              psk |-> derive_keys(intent[c].password, down[c][1].salt),
              prologue |-> build_prologue(intent[c].room, down[c][1].salt,
                                          down[c][1].version)])

ClientHello(c) ==
  /\ Len(down[c]) >= 2
  /\ down[c][2].kind = "M1"
  /\ PeerTurns(c, "m1", "welcome")
  /\ Tell(c, [kind |-> "Hello", valid |-> intent[c].valid])

ClientJoins(c) ==
  /\ Len(down[c]) >= 3
  /\ down[c][3].kind = "Welcome"
  /\ PeerTurns(c, "welcome", "joined")
  /\ UNCHANGED up

(* An Error frame, another version, or the end of the stream: run returns. *)
ClientFails(c) ==
  /\ \/ client[c] = "hello" /\ Len(down[c]) >= 1
          /\ down[c][1].kind = "Hello" => down[c][1].version # intent[c].version
     \/ client[c] = "welcome" /\ Len(down[c]) >= 3 /\ down[c][3].kind = "Error"
     \/ phase[c] = "ended"
  /\ client[c] \notin {"joined", "closed"}
  /\ PeerTurns(c, client[c], "closed")
  /\ UNCHANGED up

(* A peer may hang up while it waits, or say something else and be silent. *)
Hangup(c) ==
  /\ phase[c] # "ended" \/ client[c] = "joined"
  /\ client[c] # "closed"
  /\ PeerTurns(c, client[c], "closed")
  /\ UNCHANGED up

Stray(c) ==
  /\ \/ client[c] = "start"
     \/ client[c] = "hello" /\ Len(down[c]) >= 1
     \/ client[c] = "m1" /\ Len(down[c]) >= 2
  /\ PeerTurns(c, client[c], "stray")
  /\ \E k \in {"Garbage", "Clear"} : Tell(c, [kind |-> k])

(* No task is left and no peer has anything to say.                        *)
AllEnded ==
  /\ \A c \in Conns : phase[c] = "ended" /\ client[c] = "closed"
  /\ UNCHANGED hubVars

-----------------------------------------------------------------------------

ServerStep(c) ==
  \/ TryAcquire(c) \/ Refused(c) \/ SelectRoom(c) \/ handshake_responder(c)
  \/ Register(c) \/ RejectAloud(c) \/ Reject(c) \/ Timeout(c) \/ PeerGone(c)

PeerStep(c) ==
  \/ ClientSelect(c) \/ handshake_initiator(c) \/ ClientHello(c)
  \/ ClientJoins(c) \/ ClientFails(c) \/ Hangup(c) \/ Stray(c)

HubNext ==
  \/ \E c \in Conns : \/ Accept(c) \/ DropListener(c) \/ ServerStep(c)
                      \/ ServedEnds(c) \/ PeerStep(c)
  \/ CtrlC
  \/ Tick
  \/ AllEnded

(* tokio polls every ready task and the accept loop, and time passes.      *)
(* Nothing is assumed of a peer, nor of a connection that is served: its   *)
(* writes wait for the peer and watch neither the token nor a timer.       *)
HubFairness ==
  /\ \A c \in Conns : /\ WF_hubVars(ServerStep(c))
                      /\ WF_hubVars(Accept(c) \/ DropListener(c))
  /\ WF_hubVars(Tick)

HubSpec == HubInit /\ [][HubNext]_hubVars /\ HubFairness

-----------------------------------------------------------------------------

(* Whom the room's password lets in.                                       *)
Member(i) ==
  i.room \in Rooms /\ i.password = Password[i.room]
    /\ i.version = PROTOCOL_VERSION

(* Only who knows the password of an existing room gets past the Noise     *)
(* handshake, and is registered under the room it asked for; a client that *)
(* believes it has joined is served, or was.                               *)
OnlyMembers ==
  \A c \in Conns :
    /\ phase[c] \in {"first", "served"} => Member(intent[c])
    /\ client[c] = "joined" => /\ phase[c] \in {"served", "ended"}
                               /\ Member(intent[c])
                               /\ intent[c].valid

(* Who asks for a well-formed name and is not a member.                    *)
Stranger(c) == ~Member(intent[c]) /\ intent[c].room \notin BadRooms

Silent(c) == down'[c] = down[c]

(* What a server without any room would do next on connection c: answer    *)
(* the first RoomSelect with a Hello, whatever its salt, and the second    *)
(* frame, whatever it holds, by closing.                                   *)
RoomlessStep(c) ==
  \/ phase'[c] = phase[c] /\ Silent(c)
  \/ /\ phase[c] \in {"backlog", "task", "refused"}
     /\ phase'[c] \in {"task", "refused", "select", "ended"}
     /\ Silent(c)
  \/ /\ phase[c] = "select" /\ phase'[c] = "noise"
     /\ up[c] # <<>> /\ up[c][1].kind = "RoomSelect"
     /\ down'[c] = <<[kind |-> "Hello", salt |-> down'[c][1].salt,
                      version |-> PROTOCOL_VERSION]>>
  \/ /\ phase[c] \in {"select", "noise"} /\ phase'[c] = "ended"
     /\ \/ age[c] = HANDSHAKE_TIMEOUT
        \/ client[c] = "closed"
        \/ phase[c] = "select" /\ up[c] # <<>> /\ up[c][1].kind # "RoomSelect"
        \/ phase[c] = "noise" /\ Len(up[c]) >= 2
     /\ Silent(c)

(* On a single connection nothing but the salt depends on whether the room *)
(* exists: every step the server takes for a stranger, who is wrong about  *)
(* the password or about the room, is one that a server without any room   *)
(* could take, so none of its errors, closes or timers is for one of the   *)
(* two cases only (fake_room).  It is no claim about two connections: see  *)
(* SaltPerRoom.                                                            *)
StrangersAlike ==
  [][\A c \in Conns : Stranger(c) => RoomlessStep(c)]_hubVars

Answered(c) == down[c] # <<>> /\ down[c][1].kind = "Hello"

(* Two connections are told the same salt exactly when they ask for the    *)
(* same room and it exists.  So all members of a room, whenever they come, *)
(* derive the same keys, and no other room's; and a name that is no room   *)
(* gets another salt each time, in which it differs from a room although   *)
(* a comment at the lookup says "an observer can't enumerate room names".  *)
SaltPerRoom ==
  \A c, d \in Conns :
    c # d /\ Answered(c) /\ Answered(d)
      => (down[c][1].salt = down[d][1].salt
            <=> intent[c].room = intent[d].room /\ intent[c].room \in Rooms)

(* A peer holds a slot without having registered for at most three times   *)
(* HANDSHAKE_TIMEOUT, however it spreads its frames: each of the three     *)
(* reads has a timeout of its own.                                         *)
HandshakeBounded ==
  \A c \in Conns : since[c] < TooLong

(* Every handshake comes to an end, also with a peer that says nothing.    *)
HandshakeSettles ==
  \A c \in Conns : phase[c] \in Handshaking ~> phase[c] \in {"served", "ended"}
=============================================================================
