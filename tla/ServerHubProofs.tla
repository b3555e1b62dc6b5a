--------------------------- MODULE ServerHubProofs ---------------------------
(***************************************************************************)
(* Theorems about ServerHub, for every set of connections, rooms and peers *)
(* and every cap: the connection cap holds; and the handshake, who gets    *)
(* past it, what the others learn, and how long it can last.               *)
(***************************************************************************)
EXTENDS ServerHub, FiniteSetTheorems, TLAPS

-----------------------------------------------------------------------------
(* The connection cap                                                      *)

(* CapHeld is not inductive: that a task which finds room may take a slot  *)
(* needs the counter to be exact.                                          *)
GuardInv == GuardTypeOK /\ CounterExact /\ CapHeld

(* Holders and overshooting tasks are finite in number.                    *)
LEMMA FiniteTasks ==
  ASSUME GuardAssumption
  PROVE  /\ IsFiniteSet(Holders)
         /\ IsFiniteSet(Overshooting)
         /\ Cardinality(Holders) \in Nat
         /\ Cardinality(Overshooting) \in Nat
<1>1. IsFiniteSet(Conns)
  BY DEF GuardAssumption
<1>2. Holders \subseteq Conns /\ Overshooting \subseteq Conns
  BY DEF Holders, Overshooting
<1>3. IsFiniteSet(Holders) /\ IsFiniteSet(Overshooting)
  BY <1>1, <1>2, FS_Subset
<1> QED
  BY <1>3, FS_CardinalityType

(* How the two sets change when a task turns from one state to another.    *)
LEMMA TurnEffect ==
  ASSUME GuardInv, NEW c \in Conns, NEW from, NEW to, Turn(c, from, to)
  PROVE  /\ Holders' = IF to = "held" THEN Holders \cup {c} ELSE Holders \ {c}
         /\ Overshooting' = IF to = "over" THEN Overshooting \cup {c}
                            ELSE Overshooting \ {c}
         /\ from = "held" <=> c \in Holders
         /\ from = "over" <=> c \in Overshooting
  BY DEF GuardInv, GuardTypeOK, Turn, Holders, Overshooting

(* A task that takes a slot, or overshoots, counts once.                   *)
LEMMA FetchAddInv ==
  ASSUME GuardAssumption, GuardInv, NEW c \in Conns, FetchAdd(c)
  PROVE  GuardInv'
<1> DEFINE to == IF active_conns >= MAX_ACTIVE_CONNS THEN "over" ELSE "held"
<1>1. Turn(c, "none", to) /\ active_conns' = active_conns + 1
  BY DEF FetchAdd
<1> HIDE DEF to
<1>2. /\ Holders' = IF to = "held" THEN Holders \cup {c} ELSE Holders \ {c}
      /\ Overshooting' = IF to = "over" THEN Overshooting \cup {c}
                         ELSE Overshooting \ {c}
      /\ c \notin Holders /\ c \notin Overshooting
  BY <1>1, TurnEffect
<1>3. to \in {"over", "held"}
  BY DEF to
<1>4. GuardTypeOK'
  BY <1>1, <1>3 DEF GuardInv, GuardTypeOK, Turn
<1>5. CASE active_conns >= MAX_ACTIVE_CONNS
  <2>1. Holders' = Holders /\ Overshooting' = Overshooting \cup {c}
    BY <1>2, <1>5 DEF to
  <2>2. Cardinality(Overshooting') = Cardinality(Overshooting) + 1
    BY <1>2, <2>1, FiniteTasks, FS_AddElement
  <2> QED
    BY <1>1, <1>4, <2>1, <2>2, FiniteTasks
    DEF GuardInv, CounterExact, CapHeld, GuardTypeOK
<1>6. CASE ~(active_conns >= MAX_ACTIVE_CONNS)
  <2>1. Holders' = Holders \cup {c} /\ Overshooting' = Overshooting
    BY <1>2, <1>6 DEF to
  <2>2. Cardinality(Holders') = Cardinality(Holders) + 1
    BY <1>2, <2>1, FiniteTasks, FS_AddElement
  <2> QED
    BY <1>1, <1>4, <1>6, <2>1, <2>2, FiniteTasks
    DEF GuardInv, CounterExact, CapHeld, GuardTypeOK, GuardAssumption
<1> QED
  BY <1>5, <1>6

(* A refused task takes back what it added.                                *)
LEMMA RollBackInv ==
  ASSUME GuardAssumption, GuardInv, NEW c \in Conns, RollBack(c)
  PROVE  GuardInv'
<1>1. Turn(c, "over", "done") /\ active_conns' = active_conns - 1
  BY DEF RollBack
<1>2. /\ c \in Overshooting /\ c \notin Holders
      /\ Holders' = Holders /\ Overshooting' = Overshooting \ {c}
  BY <1>1, TurnEffect
<1>3. Cardinality(Overshooting') = Cardinality(Overshooting) - 1
  BY <1>2, FiniteTasks, FS_RemoveElement
<1>4. Cardinality(Overshooting') \in Nat
  BY <1>2, FiniteTasks, FS_RemoveElement, FS_CardinalityType
<1>5. active_conns' = Cardinality(Holders') + Cardinality(Overshooting')
  BY <1>1, <1>2, <1>3, FiniteTasks DEF GuardInv, CounterExact
<1>6. GuardTypeOK'
  BY <1>1, <1>2, <1>4, <1>5, FiniteTasks DEF GuardInv, GuardTypeOK, Turn
<1> QED
  BY <1>2, <1>5, <1>6 DEF GuardInv, CounterExact, CapHeld

(* Dropping the guard gives the slot back.                                 *)
LEMMA DropGuardInv ==
  ASSUME GuardAssumption, GuardInv, NEW c \in Conns, DropGuard(c)
  PROVE  GuardInv'
<1>1. Turn(c, "held", "done") /\ active_conns' = active_conns - 1
  BY DEF DropGuard
<1>2. /\ c \in Holders /\ c \notin Overshooting
      /\ Overshooting' = Overshooting /\ Holders' = Holders \ {c}
  BY <1>1, TurnEffect
<1>3. Cardinality(Holders') = Cardinality(Holders) - 1
  BY <1>2, FiniteTasks, FS_RemoveElement
<1>4. Cardinality(Holders') \in Nat
  BY <1>2, FiniteTasks, FS_RemoveElement, FS_CardinalityType
<1>5. active_conns' = Cardinality(Holders') + Cardinality(Overshooting')
  BY <1>1, <1>2, <1>3, FiniteTasks DEF GuardInv, CounterExact
<1>6. GuardTypeOK'
  BY <1>1, <1>2, <1>4, <1>5, FiniteTasks DEF GuardInv, GuardTypeOK, Turn
<1>7. CapHeld'
  BY <1>3, <1>4, FiniteTasks DEF GuardInv, CapHeld, GuardAssumption
<1> QED
  BY <1>5, <1>6, <1>7 DEF GuardInv, CounterExact

(* Every step of the hub takes the counter and the guards from one step of *)
(* ConnGuard to the next, or leaves them alone.                            *)
LEMMA HubGuardStep ==
  ASSUME HubNext \/ UNCHANGED hubVars
  PROVE  \/ \E c \in Conns : FetchAdd(c) \/ RollBack(c) \/ DropGuard(c)
         \/ UNCHANGED guardVars
<1>1. ASSUME NEW c \in Conns, ServerStep(c) \/ ServedEnds(c)
      PROVE  FetchAdd(c) \/ RollBack(c) \/ DropGuard(c) \/ UNCHANGED guardVars
  BY <1>1
  DEF ServerStep, TryAcquire, Refused, SelectRoom, handshake_responder,
      Register, RejectAloud, Reject, Timeout, PeerGone, ServedEnds, Return,
      Proceed
<1>2. ASSUME NEW c \in Conns, Accept(c) \/ DropListener(c) \/ PeerStep(c)
      PROVE  UNCHANGED guardVars
  BY <1>2
  DEF Accept, DropListener, PeerStep, ClientSelect, handshake_initiator,
      ClientHello, ClientJoins, ClientFails, Hangup, Stray, PeerTurns
<1>3. ASSUME CtrlC \/ Tick \/ AllEnded \/ UNCHANGED hubVars
      PROVE  UNCHANGED guardVars
  BY <1>3 DEF CtrlC, Tick, AllEnded, hubVars
<1> QED
  BY <1>1, <1>2, <1>3 DEF HubNext

(* For any number of connections, any peers and any cap, the counter       *)
(* accounts for every task on every path through handle_connection, and at *)
(* most MAX_ACTIVE_CONNS of them hold a guard.                             *)
THEOREM GuardInvariant == HubSpec => [](GuardTypeOK /\ CounterExact /\ CapHeld)
<1> USE GuardAssumption
<1>1. HubInit => GuardInv
  <2> SUFFICES ASSUME HubInit PROVE GuardInv
    OBVIOUS
  <2>1. Holders = {} /\ Overshooting = {}
    BY DEF HubInit, GuardInit, Holders, Overshooting
  <2>2. Cardinality({}) = 0
    BY FS_EmptySet
  <2> QED
    BY <2>1, <2>2 DEF HubInit, GuardInit, GuardInv, GuardTypeOK, CounterExact,
                      CapHeld, GuardAssumption
<1>2. GuardInv /\ [HubNext]_hubVars => GuardInv'
  <2> SUFFICES ASSUME GuardInv, [HubNext]_hubVars PROVE GuardInv'
    OBVIOUS
  <2>1. CASE \E c \in Conns : FetchAdd(c) \/ RollBack(c) \/ DropGuard(c)
    BY <2>1, FetchAddInv, RollBackInv, DropGuardInv
  <2>2. CASE UNCHANGED guardVars
    BY <2>2 DEF guardVars, GuardInv, GuardTypeOK, CounterExact, CapHeld,
                Holders, Overshooting
  <2> QED
    BY <2>1, <2>2, HubGuardStep
<1>3. GuardInv => GuardTypeOK /\ CounterExact /\ CapHeld
  BY DEF GuardInv
<1> QED
  BY <1>1, <1>2, <1>3, PTL DEF HubSpec

-----------------------------------------------------------------------------
(* The handshake                                                           *)

(* The frames that c and the server may exchange, given what c wants.      *)
SelectFrame(c) == [kind |-> "RoomSelect", room |-> intent[c].room]
M0Frame(c) ==
  LET salt == lookup(c, intent[c].room).salt
  IN  [kind |-> "M0",
       psk |-> derive_keys(intent[c].password, salt),
       prologue |-> build_prologue(intent[c].room, salt, PROTOCOL_VERSION)]
FirstFrame(c) == [kind |-> "Hello", valid |-> intent[c].valid]
StrayFrames == {[kind |-> "Garbage"], [kind |-> "Clear"]}

HelloFrame(c) == [kind |-> "Hello", salt |-> lookup(c, intent[c].room).salt,
                  version |-> PROTOCOL_VERSION]
M1Frame == [kind |-> "M1"]
WelcomeFrame == [kind |-> "Welcome"]
ErrorFrame == [kind |-> "Error"]

UpFrames(c) == {SelectFrame(c), M0Frame(c), FirstFrame(c)} \cup StrayFrames
DownFrames(c) == {HelloFrame(c), M1Frame, WelcomeFrame, ErrorFrame}

(* What a peer has written, by where it stands.  Its M0 shows that both    *)
(* ends have the same version.                                             *)
UpInv(c) ==
  /\ up[c] \in Seq(UpFrames(c))
  /\ client[c] = "start" => Len(up[c]) = 0
  /\ client[c] = "hello" => Len(up[c]) = 1
  /\ client[c] = "m1" => Len(up[c]) = 2
  /\ Len(up[c]) <= 3
  /\ Len(up[c]) >= 1 => up[c][1] \in {SelectFrame(c)} \cup StrayFrames
  /\ Len(up[c]) >= 2 => \/ up[c][2] \in StrayFrames
                        \/ /\ up[c][2] = M0Frame(c)
                           /\ intent[c].version = PROTOCOL_VERSION
  /\ Len(up[c]) >= 3 => up[c][3] \in {FirstFrame(c)} \cup StrayFrames

(* What the server has written, by the phase of the connection.  It sends  *)
(* M1 to members only, and Welcome to those whose Hello is valid.          *)
DownInv(c) ==
  /\ down[c] \in Seq(DownFrames(c))
  /\ phase[c] \in {"backlog", "task", "refused", "select"} => Len(down[c]) = 0
  /\ phase[c] = "noise" => Len(down[c]) = 1
  /\ phase[c] = "first" => Len(down[c]) = 2
  /\ phase[c] = "served" => Len(down[c]) = 3
  /\ Len(down[c]) <= 3
  /\ Len(down[c]) >= 1 =>
       \/ down[c][1] = HelloFrame(c)
       \/ Len(down[c]) = 1 /\ down[c][1] = ErrorFrame /\ intent[c].room \in BadRooms
            /\ phase[c] = "ended"
  /\ Len(down[c]) >= 2 => down[c][2] = M1Frame /\ Member(intent[c])
  /\ Len(down[c]) >= 3 =>
       \/ down[c][3] = ErrorFrame
       \/ /\ down[c][3] = WelcomeFrame
          /\ intent[c].valid
          /\ phase[c] \in {"served", "ended"}

(* What the server has read: the room it looked up is the one c asked for. *)
ReadInv(c) ==
  /\ phase[c] \in {"noise", "first"} => Len(up[c]) >= 1 /\ up[c][1] = SelectFrame(c)
  /\ client[c] = "joined" => Len(down[c]) >= 3 /\ down[c][3] = WelcomeFrame

(* Every phase adds at most one timeout to the time the slot is held.      *)
TimeInv(c) ==
  /\ phase[c] \notin Timed => age[c] = 0 /\ since[c] = 0
  /\ phase[c] = "select" => since[c] <= age[c]
  /\ phase[c] = "noise" => since[c] <= HANDSHAKE_TIMEOUT + age[c]
  /\ phase[c] = "first" => since[c] <= 2 * HANDSHAKE_TIMEOUT + age[c]

ShapeInv ==
  /\ phase \in [Conns -> {"backlog", "task", "refused", "served", "ended"}
                           \cup Handshaking]
  /\ age \in [Conns -> 0..HANDSHAKE_TIMEOUT]
  /\ since \in [Conns -> Nat]
  /\ shutdown \in BOOLEAN
  /\ DOMAIN intent = Conns
  /\ \A c \in Conns : intent[c] \in Clients[c]
  /\ client \in [Conns -> {"start", "hello", "m1", "welcome", "joined",
                           "stray", "closed"}]
  /\ DOMAIN up = Conns /\ DOMAIN down = Conns

HandshakeInv ==
  /\ ShapeInv
  /\ \A c \in Conns : UpInv(c) /\ DownInv(c) /\ ReadInv(c) /\ TimeInv(c)

(* A step of one connection's ends leaves the others alone.                *)
Alone(c) ==
  \A d \in Conns \ {c} :
    /\ phase'[d] = phase[d] /\ age'[d] = age[d] /\ since'[d] = since[d]
    /\ client'[d] = client[d] /\ up'[d] = up[d] /\ down'[d] = down[d]

ConnStep(c) ==
  \/ Accept(c) \/ DropListener(c) \/ ServerStep(c) \/ ServedEnds(c)
  \/ PeerStep(c)

(* A step of c changes nothing of the other connections, and every         *)
(* variable keeps its shape.                                               *)
LEMMA ConnStepShape ==
  ASSUME HubAssumption, HandshakeInv, NEW c \in Conns, ConnStep(c)
  PROVE  ShapeInv' /\ Alone(c) /\ UNCHANGED intent
<1> USE DEF HandshakeInv, ShapeInv, Alone, Handshaking, HubAssumption
<1>t. 0 \in 0..HANDSHAKE_TIMEOUT /\ 0 \in Nat
  OBVIOUS
<1>1. CASE Accept(c) \/ DropListener(c)
  BY <1>1 DEF Accept, DropListener, Go, wire
<1>2. CASE ServerStep(c) \/ ServedEnds(c)
  <2>1. CASE TryAcquire(c) \/ Refused(c)
    BY <2>1 DEF TryAcquire, Refused, Go, wire
  <2>2. ASSUME NEW from, NEW to \in {"noise", "first", "served"}, NEW f,
               Proceed(c, from, to), Say(c, f)
        PROVE  ShapeInv' /\ Alone(c) /\ UNCHANGED intent
    BY <1>t, <2>2 DEF Proceed, Go, Say
  <2>3. ASSUME Return(c), UNCHANGED down \/ \E f : Say(c, f)
        PROVE  ShapeInv' /\ Alone(c) /\ UNCHANGED intent
    BY <1>t, <2>3 DEF Return, Say
  <2>4. CASE SelectRoom(c) \/ handshake_responder(c) \/ Register(c)
    BY <2>2, <2>4 DEF SelectRoom, handshake_responder, Register
  <2>5. CASE RejectAloud(c) \/ Reject(c) \/ Timeout(c) \/ PeerGone(c) \/ ServedEnds(c)
    BY <2>3, <2>5 DEF RejectAloud, Reject, Timeout, PeerGone, ServedEnds
  <2> QED
    BY <1>2, <2>1, <2>4, <2>5 DEF ServerStep
<1>3. CASE PeerStep(c)
  <2> HIDE DEF HandshakeInv, ShapeInv, Alone, HubAssumption
  <2>1. /\ UNCHANGED <<phase, age, since, shutdown, intent, down>>
        /\ UNCHANGED up \/ \E f : up' = [up EXCEPT ![c] = Append(@, f)]
        /\ \E to \in {"hello", "m1", "welcome", "joined", "stray", "closed"} :
             client' = [client EXCEPT ![c] = to]
    BY <1>3 DEF PeerStep, ClientSelect, handshake_initiator, ClientHello,
                ClientJoins, ClientFails, Hangup, Stray, PeerTurns, Tell
  <2>2. ShapeInv'
    BY <2>1 DEF HandshakeInv, ShapeInv
  <2>3. Alone(c)
    BY <2>1 DEF HandshakeInv, ShapeInv, Alone
  <2> QED
    BY <2>1, <2>2, <2>3
<1> QED
  BY <1>1, <1>2, <1>3 DEF ConnStep

ConnInv(c) == UpInv(c) /\ DownInv(c) /\ ReadInv(c) /\ TimeInv(c)

(* What is true of the other connections stays true.                       *)
LEMMA OthersAlone ==
  ASSUME HandshakeInv, NEW c \in Conns, Alone(c), UNCHANGED intent,
         NEW d \in Conns, d # c
  PROVE  ConnInv(d)'
<1>1. UpInv(d) /\ DownInv(d) /\ ReadInv(d) /\ TimeInv(d)
  BY DEF HandshakeInv
<1>2. /\ phase'[d] = phase[d] /\ age'[d] = age[d] /\ since'[d] = since[d]
      /\ client'[d] = client[d] /\ up'[d] = up[d] /\ down'[d] = down[d]
      /\ intent'[d] = intent[d]
  BY DEF Alone
<1>3. UpInv(d)'
  BY <1>1, <1>2 DEF UpInv, UpFrames, SelectFrame, M0Frame, FirstFrame
<1>4. DownInv(d)'
  BY <1>1, <1>2 DEF DownInv, DownFrames, HelloFrame
<1>5. ReadInv(d)' /\ TimeInv(d)'
  BY <1>1, <1>2 DEF ReadInv, TimeInv, SelectFrame
<1> QED
  BY <1>3, <1>4, <1>5 DEF ConnInv

(* A peer's step: what it writes fits where it stands.                     *)
LEMMA PeerStepInv ==
  ASSUME HubAssumption, HandshakeInv, NEW c \in Conns, PeerStep(c)
  PROVE  ConnInv(c)'
<1>1. /\ up[c] \in Seq(UpFrames(c)) /\ Len(up[c]) \in Nat
      /\ down[c] \in Seq(DownFrames(c)) /\ Len(down[c]) \in Nat
      /\ UpInv(c) /\ DownInv(c) /\ ReadInv(c) /\ TimeInv(c)
  BY DEF HandshakeInv, UpInv, DownInv
<1>2. /\ UNCHANGED <<phase, age, since, intent, down>>
      /\ UNCHANGED up \/ \E f : Tell(c, f)
  BY DEF PeerStep, ClientSelect, handshake_initiator, ClientHello,
         ClientJoins, ClientFails, Hangup, Stray, PeerTurns
<1>3. DownInv(c)' /\ TimeInv(c)'
  BY <1>1, <1>2 DEF DownInv, DownFrames, HelloFrame, TimeInv
<1>4. ASSUME NEW f \in UpFrames(c), Tell(c, f)
      PROVE  /\ up'[c] \in Seq(UpFrames(c))
             /\ Len(up'[c]) = Len(up[c]) + 1
             /\ up'[c][Len(up[c]) + 1] = f
             /\ \A i \in 1..Len(up[c]) : up'[c][i] = up[c][i]
  BY <1>1, <1>4 DEF Tell, HandshakeInv, ShapeInv
<1>5. ReadInv(c)'
  <2>1. UNCHANGED up \/ \E f : up' = [up EXCEPT ![c] = Append(@, f)]
    BY <1>2 DEF Tell
  <2>2. Len(up[c]) >= 1 => Len(up'[c]) >= 1 /\ up'[c][1] = up[c][1]
    <3>1. CASE UNCHANGED up
      BY <1>1, <3>1
    <3>2. ASSUME NEW f, up' = [up EXCEPT ![c] = Append(@, f)]
          PROVE  Len(up[c]) >= 1 => Len(up'[c]) >= 1 /\ up'[c][1] = up[c][1]
      <4>1. up'[c] = Append(up[c], f)
        BY <3>2 DEF HandshakeInv, ShapeInv
      <4>2. up[c] \in Seq(UpFrames(c) \cup {f}) /\ f \in UpFrames(c) \cup {f}
        BY <1>1
      <4> HIDE DEF UpFrames
      <4> QED
        BY <1>1, <4>1, <4>2
    <3> QED
      BY <2>1, <3>1, <3>2
  <2>3. client'[c] = "joined" => Len(down[c]) >= 3 /\ down[c][3] = WelcomeFrame
    <3>1. CASE ClientJoins(c)
      BY <1>1, <3>1
      DEF ClientJoins, DownInv, WelcomeFrame, ErrorFrame
    <3>2. CASE ~ClientJoins(c)
      BY <3>2
      DEF PeerStep, ClientSelect, handshake_initiator, ClientHello,
          ClientFails, Hangup, Stray, PeerTurns, HandshakeInv, ShapeInv
    <3> QED
      BY <3>1, <3>2
  <2> QED
    BY <1>1, <1>2, <2>2, <2>3 DEF ReadInv, SelectFrame
<1>6. UpInv(c)'
  <2>0. UpFrames(c)' = UpFrames(c) /\ SelectFrame(c)' = SelectFrame(c)
        /\ M0Frame(c)' = M0Frame(c) /\ FirstFrame(c)' = FirstFrame(c)
        /\ intent' = intent
    BY <1>2 DEF UpFrames, SelectFrame, M0Frame, FirstFrame
  <2>1. CASE ClientSelect(c)
    <3>1. SelectFrame(c) \in UpFrames(c) /\ Tell(c, SelectFrame(c))
          /\ client[c] = "start" /\ client'[c] = "hello"
      BY <2>1 DEF ClientSelect, PeerTurns, SelectFrame, UpFrames,
                  HandshakeInv, ShapeInv
    <3>2. up'[c] \in Seq(UpFrames(c)) /\ Len(up'[c]) = 1
          /\ up'[c][1] = SelectFrame(c)
      <4>1. Len(up[c]) = 0
        BY <1>1, <3>1 DEF UpInv
      <4> QED
        BY <1>4, <3>1, <4>1
    <3> QED
      BY <2>0, <3>1, <3>2 DEF UpInv
  <2>2. CASE handshake_initiator(c)
    <3>1. down[c][1] = HelloFrame(c) /\ intent[c].version = PROTOCOL_VERSION
      BY <1>1, <2>2 DEF handshake_initiator, DownInv, ErrorFrame, HelloFrame
    <3>2. M0Frame(c) \in UpFrames(c) /\ Tell(c, M0Frame(c))
          /\ client[c] = "hello" /\ client'[c] = "m1"
      BY <2>2, <3>1 DEF handshake_initiator, PeerTurns, HelloFrame, M0Frame,
                        UpFrames, HandshakeInv, ShapeInv
    <3>3. up'[c] \in Seq(UpFrames(c)) /\ Len(up'[c]) = 2
          /\ up'[c][1] \in {SelectFrame(c)} \cup StrayFrames
          /\ up'[c][2] = M0Frame(c)
      <4>1. Len(up[c]) = 1 /\ up[c][1] \in {SelectFrame(c)} \cup StrayFrames
        BY <1>1, <3>2 DEF UpInv
      <4> QED
        BY <1>4, <3>2, <4>1
    <3> QED
      BY <2>0, <3>1, <3>2, <3>3 DEF UpInv
  <2>3. CASE ClientHello(c)
    <3>1. FirstFrame(c) \in UpFrames(c) /\ Tell(c, FirstFrame(c))
          /\ client[c] = "m1" /\ client'[c] = "welcome"
      BY <2>3 DEF ClientHello, PeerTurns, FirstFrame, UpFrames,
                  HandshakeInv, ShapeInv
    <3>2. up'[c] \in Seq(UpFrames(c)) /\ Len(up'[c]) = 3
          /\ up'[c][1] = up[c][1] /\ up'[c][2] = up[c][2]
          /\ up'[c][3] = FirstFrame(c) /\ Len(up[c]) = 2
      <4>1. Len(up[c]) = 2
        BY <1>1, <3>1 DEF UpInv
      <4> QED
        BY <1>4, <3>1, <4>1
    <3> QED
      BY <1>1, <2>0, <3>1, <3>2 DEF UpInv
  <2>4. CASE Stray(c)
    <3>1. PICK f \in StrayFrames : Tell(c, f)
      BY <2>4 DEF Stray, StrayFrames
    <3>2. client[c] \in {"start", "hello", "m1"} /\ client'[c] = "stray"
          /\ f \in UpFrames(c)
      BY <2>4, <3>1 DEF Stray, PeerTurns, UpFrames, HandshakeInv, ShapeInv
    <3>3. /\ up'[c] \in Seq(UpFrames(c)) /\ Len(up'[c]) = Len(up[c]) + 1
          /\ up'[c][Len(up[c]) + 1] = f
          /\ \A i \in 1..Len(up[c]) : up'[c][i] = up[c][i]
      BY <1>4, <3>1, <3>2
    <3>4. CASE client[c] = "start"
      <4>1. Len(up[c]) = 0
        BY <1>1, <3>4 DEF UpInv
      <4>2. Len(up'[c]) = 1 /\ up'[c][1] = f
        BY <3>3, <4>1
      <4> QED
        BY <2>0, <3>1, <3>2, <3>3, <4>2 DEF UpInv
    <3>5. CASE client[c] = "hello"
      <4>1. Len(up[c]) = 1
        BY <1>1, <3>5 DEF UpInv
      <4>2. Len(up'[c]) = 2 /\ up'[c][1] = up[c][1] /\ up'[c][2] = f
        BY <3>3, <4>1
      <4> QED
        BY <1>1, <2>0, <3>1, <3>2, <3>3, <4>1, <4>2 DEF UpInv
    <3>6. CASE client[c] = "m1"
      <4>1. Len(up[c]) = 2
        BY <1>1, <3>6 DEF UpInv
      <4>2. /\ Len(up'[c]) = 3 /\ up'[c][1] = up[c][1]
            /\ up'[c][2] = up[c][2] /\ up'[c][3] = f
        BY <3>3, <4>1
      <4> QED
        BY <1>1, <2>0, <3>1, <3>2, <3>3, <4>1, <4>2 DEF UpInv
    <3> QED
      BY <3>2, <3>4, <3>5, <3>6
  <2>5. CASE ClientJoins(c) \/ ClientFails(c) \/ Hangup(c)
    <3>1. UNCHANGED up /\ client'[c] \in {"joined", "closed"}
      BY <2>5 DEF ClientJoins, ClientFails, Hangup, PeerTurns, HandshakeInv,
                  ShapeInv
    <3> QED
      BY <1>1, <2>0, <3>1 DEF UpInv
  <2> QED
    BY <2>1, <2>2, <2>3, <2>4, <2>5 DEF PeerStep
<1> QED
  BY <1>3, <1>5, <1>6 DEF ConnInv

(* Only a member's M0 is accepted: a client that does not know the         *)
(* password of the room it asked for, or asked for no room, holds another  *)
(* psk than the server.                                                    *)
LEMMA OnlyMembersPass ==
  ASSUME HubAssumption, HandshakeInv, NEW c \in Conns,
         phase[c] = "noise", Len(up[c]) >= 2, read_message(c)
  PROVE  Member(intent[c])
<1>1. up[c][1] = SelectFrame(c) /\ up[c][2].kind = "M0"
  BY DEF HandshakeInv, ReadInv, read_message
<1>2. up[c][2] = M0Frame(c) /\ intent[c].version = PROTOCOL_VERSION
  BY <1>1 DEF HandshakeInv, UpInv, StrayFrames
<1>3. M0Frame(c).psk = lookup(c, intent[c].room).psk
  BY <1>1, <1>2 DEF read_message, SelectFrame
<1>4. <<intent[c].password, lookup(c, intent[c].room).salt>>
        = lookup(c, intent[c].room).psk
  BY <1>3 DEF M0Frame, derive_keys
<1>5. intent[c].password # Junk[c]
  BY DEF HubAssumption, HandshakeInv, ShapeInv
<1>6. CASE intent[c].room \in Rooms
  BY <1>2, <1>4, <1>6 DEF lookup, derive_keys, Member
<1>7. CASE intent[c].room \notin Rooms
  BY <1>4, <1>5, <1>7 DEF lookup, fake_room
<1> QED
  BY <1>6, <1>7

(* What the server writes fits the phase it goes to.                       *)
LEMMA ServerStepInv ==
  ASSUME HubAssumption, HandshakeInv, NEW c \in Conns,
         \/ Accept(c) \/ DropListener(c) \/ ServerStep(c) \/ ServedEnds(c)
  PROVE  UpInv(c)' /\ DownInv(c)' /\ ReadInv(c)'
<1>1. /\ down[c] \in Seq(DownFrames(c)) /\ Len(down[c]) \in Nat
      /\ UpInv(c) /\ DownInv(c) /\ ReadInv(c)
  BY DEF HandshakeInv, DownInv
<1>2. UNCHANGED <<intent, client, up>>
  BY DEF Accept, DropListener, ServerStep, ServedEnds, TryAcquire, Refused,
         SelectRoom, handshake_responder, Register, RejectAloud, Reject,
         Timeout, PeerGone, Return, Proceed, wire
<1>3. /\ UpInv(c)'
      /\ DownFrames(c)' = DownFrames(c) /\ HelloFrame(c)' = HelloFrame(c)
      /\ SelectFrame(c)' = SelectFrame(c) /\ intent'[c] = intent[c]
      /\ client'[c] = client[c] /\ up'[c] = up[c]
  BY <1>1, <1>2 DEF UpInv, UpFrames, SelectFrame, M0Frame, FirstFrame,
                    DownFrames, HelloFrame
<1>4. ASSUME NEW f \in DownFrames(c), Say(c, f)
      PROVE  /\ down'[c] \in Seq(DownFrames(c))
             /\ Len(down'[c]) = Len(down[c]) + 1
             /\ down'[c][Len(down[c]) + 1] = f
             /\ \A i \in 1..Len(down[c]) : down'[c][i] = down[c][i]
  BY <1>1, <1>4 DEF Say, HandshakeInv, ShapeInv
<1>t. phase \in [Conns -> {"backlog", "task", "refused", "served", "ended"}
                            \cup Handshaking]
  BY DEF HandshakeInv, ShapeInv
<1>5. ASSUME UNCHANGED down,
             \/ phase'[c] = "ended"
             \/ /\ phase[c] \in {"backlog", "task"}
                /\ phase'[c] \in {"task", "refused", "select"}
      PROVE  DownInv(c)' /\ ReadInv(c)'
  BY <1>1, <1>3, <1>5 DEF DownInv, ReadInv
<1>6. CASE Accept(c) \/ DropListener(c) \/ TryAcquire(c) \/ Refused(c)
  BY <1>t, <1>3, <1>5, <1>6 DEF Accept, DropListener, TryAcquire, Refused, Go, wire
<1>7. CASE Reject(c) \/ Timeout(c) \/ PeerGone(c) \/ ServedEnds(c)
  BY <1>t, <1>3, <1>5, <1>7 DEF Reject, Timeout, PeerGone, ServedEnds, Return
<1>8. CASE SelectRoom(c)
  <2>1. /\ phase[c] = "select" /\ phase'[c] = "noise"
        /\ Len(up[c]) >= 1 /\ up[c][1] = SelectFrame(c)
    BY <1>t, <1>1, <1>8 DEF SelectRoom, Proceed, Go, UpInv, StrayFrames
  <2>2. HelloFrame(c) \in DownFrames(c) /\ Say(c, HelloFrame(c))
    BY <1>8, <2>1 DEF SelectRoom, HelloFrame, SelectFrame, DownFrames
  <2>3. Len(down[c]) = 0
    BY <1>1, <2>1 DEF DownInv
  <2>4. down'[c] \in Seq(DownFrames(c)) /\ Len(down'[c]) = 1
        /\ down'[c][1] = HelloFrame(c)
    BY <1>4, <2>2, <2>3
  <2>5. client[c] # "joined"
    BY <1>1, <2>3 DEF ReadInv
  <2> QED
    BY <1>3, <2>1, <2>4, <2>5 DEF DownInv, ReadInv
<1>9. CASE handshake_responder(c)
  <2>1. /\ phase[c] = "noise" /\ phase'[c] = "first"
        /\ Member(intent[c])
    BY <1>t, <1>9, OnlyMembersPass DEF handshake_responder, Proceed, Go
  <2>2. M1Frame \in DownFrames(c) /\ Say(c, M1Frame)
    BY <1>9 DEF handshake_responder, M1Frame, DownFrames
  <2>3. Len(down[c]) = 1 /\ down[c][1] = HelloFrame(c)
    BY <1>1, <2>1 DEF DownInv
  <2>4. down'[c] \in Seq(DownFrames(c)) /\ Len(down'[c]) = 2
        /\ down'[c][1] = HelloFrame(c) /\ down'[c][2] = M1Frame
    BY <1>4, <2>2, <2>3
  <2>5. client[c] # "joined"
    BY <1>1, <2>3 DEF ReadInv
  <2> QED
    BY <1>1, <1>3, <2>1, <2>4, <2>5 DEF DownInv, ReadInv
<1>10. ASSUME phase[c] = "first", NEW f \in {WelcomeFrame, ErrorFrame}, Say(c, f),
              phase'[c] \in {"served", "ended"},
              f = WelcomeFrame => intent[c].valid
       PROVE  DownInv(c)' /\ ReadInv(c)'
  <2>1. f \in DownFrames(c)
    BY DEF DownFrames
  <2>2. Len(down[c]) = 2 /\ down[c][1] = HelloFrame(c) /\ down[c][2] = M1Frame
        /\ Member(intent[c])
    BY <1>1, <1>10 DEF DownInv
  <2>3. down'[c] \in Seq(DownFrames(c)) /\ Len(down'[c]) = 3
        /\ down'[c][1] = HelloFrame(c) /\ down'[c][2] = M1Frame
        /\ down'[c][3] = f
    BY <1>4, <1>10, <2>1, <2>2
  <2>4. client[c] # "joined"
    BY <1>1, <2>2 DEF ReadInv
  <2> QED
    BY <1>3, <1>10, <2>2, <2>3, <2>4 DEF DownInv, ReadInv
<1>11. CASE Register(c)
  <2>1. up[c][3] = FirstFrame(c)
    BY <1>1, <1>11 DEF Register, UpInv, StrayFrames
  <2>2. /\ phase[c] = "first" /\ phase'[c] = "served" /\ intent[c].valid
        /\ Say(c, WelcomeFrame)
    BY <1>t, <1>11, <2>1 DEF Register, Proceed, Go, FirstFrame, WelcomeFrame
  <2> QED
    BY <1>3, <1>10, <2>2
<1>12. CASE RejectAloud(c)
  <2>1. phase'[c] = "ended" /\ Say(c, ErrorFrame) /\ ErrorFrame \in DownFrames(c)
    BY <1>t, <1>12 DEF RejectAloud, Return, ErrorFrame, DownFrames
  <2>2. CASE phase[c] = "first"
    BY <1>3, <1>10, <2>1, <2>2 DEF WelcomeFrame, ErrorFrame
  <2>3. CASE phase[c] = "select"
    <3>1. intent[c].room \in BadRooms
      BY <1>1, <1>12, <2>3 DEF RejectAloud, UpInv, StrayFrames, SelectFrame
    <3>2. Len(down[c]) = 0
      BY <1>1, <2>3 DEF DownInv
    <3>3. down'[c] \in Seq(DownFrames(c)) /\ Len(down'[c]) = 1
          /\ down'[c][1] = ErrorFrame
      BY <1>4, <2>1, <3>2
    <3>4. client[c] # "joined"
      BY <1>1, <3>2 DEF ReadInv
    <3> QED
      BY <1>3, <2>1, <3>1, <3>3, <3>4 DEF DownInv, ReadInv
  <2> QED
    BY <1>12, <2>2, <2>3 DEF RejectAloud
<1> QED
  BY <1>3, <1>6, <1>7, <1>8, <1>9, <1>11, <1>12 DEF ServerStep

(* A phase ends before its timeout does, and starts the next one at zero.  *)
LEMMA TimeStep ==
  ASSUME HubAssumption, HandshakeInv, NEW c \in Conns, ConnStep(c)
  PROVE  TimeInv(c)'
<1>1. /\ TimeInv(c) /\ age[c] \in 0..HANDSHAKE_TIMEOUT /\ since[c] \in Nat
      /\ HANDSHAKE_TIMEOUT \in Nat
      /\ age \in [Conns -> 0..HANDSHAKE_TIMEOUT] /\ since \in [Conns -> Nat]
      /\ phase \in [Conns -> {"backlog", "task", "refused", "served", "ended"}
                              \cup Handshaking]
  BY DEF HandshakeInv, ShapeInv, HubAssumption
<1>2. CASE Accept(c) \/ DropListener(c) \/ TryAcquire(c) \/ Refused(c)
  <2>1. /\ UNCHANGED <<age, since>>
        /\ phase[c] \in {"backlog", "task", "refused"}
        /\ phase'[c] \in {"task", "refused", "select", "ended"}
    BY <1>1, <1>2 DEF Accept, DropListener, TryAcquire, Refused, Go
  <2> QED
    BY <1>1, <2>1 DEF TimeInv, Timed
<1>3. CASE Return(c)
  <2>1. phase'[c] = "ended" /\ age'[c] = 0 /\ since'[c] = 0
    BY <1>1, <1>3 DEF Return
  <2> QED
    BY <2>1 DEF TimeInv, Timed
<1>4. ASSUME NEW from, NEW to, Proceed(c, from, to),
             \/ from = "select" /\ to = "noise"
             \/ from = "noise" /\ to = "first"
             \/ from = "first" /\ to = "served"
      PROVE  TimeInv(c)'
  <2>1. /\ phase[c] = from /\ phase'[c] = to /\ age'[c] = 0
        /\ since'[c] = IF to = "served" THEN 0 ELSE since[c]
    BY <1>1, <1>4 DEF Proceed, Go
  <2> QED
    BY <1>1, <1>4, <2>1 DEF TimeInv, Timed
<1>5. CASE SelectRoom(c) \/ handshake_responder(c) \/ Register(c)
  BY <1>4, <1>5 DEF SelectRoom, handshake_responder, Register
<1>6. CASE RejectAloud(c) \/ Reject(c) \/ Timeout(c) \/ PeerGone(c) \/ ServedEnds(c)
  BY <1>3, <1>6 DEF RejectAloud, Reject, Timeout, PeerGone, ServedEnds
<1>7. CASE PeerStep(c)
  <2>1. UNCHANGED <<phase, age, since>>
    BY <1>7 DEF PeerStep, ClientSelect, handshake_initiator, ClientHello,
                ClientJoins, ClientFails, Hangup, Stray, PeerTurns
  <2> QED
    BY <1>1, <2>1 DEF TimeInv
<1> QED
  BY <1>2, <1>5, <1>6, <1>7 DEF ConnStep, ServerStep

(* Time passes only where no timer has run out.                            *)
LEMMA TickInv ==
  ASSUME HubAssumption, HandshakeInv, Tick
  PROVE  HandshakeInv'
<1>1. UNCHANGED <<phase, shutdown, intent, client, up, down>>
  BY DEF Tick, wire
<1>2. ASSUME NEW c \in Conns PROVE UpInv(c)' /\ DownInv(c)' /\ ReadInv(c)'
  <2>1. UpInv(c) /\ DownInv(c) /\ ReadInv(c)
    BY DEF HandshakeInv
  <2> QED
    BY <1>1, <2>1
    DEF UpInv, DownInv, ReadInv, UpFrames, DownFrames, SelectFrame, M0Frame,
        FirstFrame, HelloFrame
<1>3. ASSUME NEW c \in Conns
      PROVE  TimeInv(c)' /\ age'[c] \in 0..HANDSHAKE_TIMEOUT /\ since'[c] \in Nat
  <2>1. /\ TimeInv(c) /\ age[c] \in 0..HANDSHAKE_TIMEOUT /\ since[c] \in Nat
        /\ HANDSHAKE_TIMEOUT \in Nat
    BY DEF HandshakeInv, ShapeInv, HubAssumption
  <2>2. /\ phase'[c] = phase[c]
        /\ phase[c] \in Timed =>
             /\ age[c] < HANDSHAKE_TIMEOUT
             /\ age'[c] = age[c] + 1
             /\ since'[c] = since[c] + 1 \/ since'[c] = since[c]
        /\ phase[c] \notin Timed => age'[c] = age[c] /\ since'[c] = since[c]
    BY <1>1 DEF Tick, Timed, Handshaking
  <2> QED
    BY <2>1, <2>2 DEF TimeInv, Timed
<1>4. ShapeInv'
  <2>1. age' \in [Conns -> 0..HANDSHAKE_TIMEOUT] /\ since' \in [Conns -> Nat]
    BY <1>3 DEF Tick
  <2> QED
    BY <1>1, <2>1 DEF HandshakeInv, ShapeInv
<1> QED
  BY <1>2, <1>3, <1>4 DEF HandshakeInv

(* The handshake invariant is inductive.                                   *)
LEMMA HandshakeInvariant == HubSpec => []HandshakeInv
<1> USE HubAssumption
<1>1. HubInit => HandshakeInv
  <2> SUFFICES ASSUME HubInit PROVE HandshakeInv
    OBVIOUS
  <2>1. ShapeInv
    <3>1. 0 \in 0..HANDSHAKE_TIMEOUT /\ 0 \in Nat
      BY DEF HubAssumption
    <3>2. DOMAIN intent = Conns /\ \A c \in Conns : intent[c] \in Clients[c]
      BY DEF HubInit
    <3> QED
      BY <3>1, <3>2 DEF HubInit, ShapeInv
  <2>2. ASSUME NEW c \in Conns
        PROVE  UpInv(c) /\ DownInv(c) /\ ReadInv(c) /\ TimeInv(c)
    BY DEF HubInit, UpInv, DownInv, ReadInv, TimeInv, Timed
  <2> QED
    BY <2>1, <2>2 DEF HandshakeInv
<1>2. HandshakeInv /\ [HubNext]_hubVars => HandshakeInv'
  <2> SUFFICES ASSUME HandshakeInv, [HubNext]_hubVars PROVE HandshakeInv'
    OBVIOUS
  <2>1. ASSUME NEW c \in Conns, ConnStep(c) PROVE HandshakeInv'
    <3>1. ShapeInv' /\ Alone(c) /\ UNCHANGED intent
      BY <2>1, ConnStepShape
    <3>2. ConnInv(c)'
      BY <2>1, PeerStepInv, ServerStepInv, TimeStep DEF ConnStep, ConnInv
    <3>3. ASSUME NEW d \in Conns PROVE ConnInv(d)'
      BY <3>1, <3>2, OthersAlone
    <3> QED
      BY <3>1, <3>3 DEF HandshakeInv, ConnInv
  <2>2. ASSUME CtrlC \/ AllEnded \/ UNCHANGED hubVars PROVE HandshakeInv'
    <3>1. /\ UNCHANGED <<phase, age, since, intent, client, up, down>>
          /\ shutdown' \in BOOLEAN
      BY <2>2 DEF CtrlC, AllEnded, hubVars, wire, HandshakeInv, ShapeInv
    <3>2. ASSUME NEW c \in Conns PROVE ConnInv(c)'
      <4>1. UpInv(c) /\ DownInv(c) /\ ReadInv(c) /\ TimeInv(c)
        BY DEF HandshakeInv
      <4> QED
        BY <3>1, <4>1
        DEF ConnInv, UpInv, DownInv, ReadInv, TimeInv, UpFrames, DownFrames,
            SelectFrame, M0Frame, FirstFrame, HelloFrame
    <3>3. ShapeInv'
      BY <3>1 DEF HandshakeInv, ShapeInv
    <3> QED
      BY <3>2, <3>3 DEF HandshakeInv, ConnInv
  <2> QED
    BY <2>1, <2>2, TickInv DEF HubNext, ConnStep
<1> QED
  BY <1>1, <1>2, PTL DEF HubSpec

(* Every variable of the hub keeps its type; neither end ever writes more  *)
(* than three frames, and no timer runs past its timeout.                  *)
THEOREM HubTypeCorrect == HubSpec => []HubTypeOK
<1>1. HandshakeInv /\ GuardTypeOK => HubTypeOK
  <2> SUFFICES ASSUME HandshakeInv, GuardTypeOK PROVE HubTypeOK
    OBVIOUS
  <2>1. ASSUME NEW c \in Conns PROVE since[c] \in 0..TooLong
    <3>1. /\ TimeInv(c) /\ age[c] \in 0..HANDSHAKE_TIMEOUT /\ since[c] \in Nat
          /\ HANDSHAKE_TIMEOUT \in Nat
      BY HubAssumption DEF HandshakeInv, ShapeInv, HubAssumption
    <3> QED
      BY <3>1 DEF TimeInv, Timed, TooLong
  <2>2. since \in [Conns -> 0..TooLong]
    BY <2>1 DEF HandshakeInv, ShapeInv
  <2>3. \A c \in Conns : Len(up[c]) <= 3 /\ Len(down[c]) <= 3
    BY DEF HandshakeInv, UpInv, DownInv
  <2> QED
    BY <2>2, <2>3 DEF HandshakeInv, ShapeInv, HubTypeOK
<1> QED
  BY <1>1, HandshakeInvariant, GuardInvariant, PTL

(* Only a peer that knows the password of an existing room, and speaks the *)
(* server's version, gets past the Noise handshake; who believes it has    *)
(* joined is a member whose Hello was valid and whom the server serves, or *)
(* served.  For any rooms, passwords and peers.                            *)
THEOREM OnlyMembersEnter == HubSpec => []OnlyMembers
<1>1. HandshakeInv => OnlyMembers
  <2> SUFFICES ASSUME HandshakeInv, NEW c \in Conns
               PROVE  /\ phase[c] \in {"first", "served"} => Member(intent[c])
                      /\ client[c] = "joined" =>
                           /\ phase[c] \in {"served", "ended"}
                           /\ Member(intent[c])
                           /\ intent[c].valid
    BY DEF OnlyMembers
  <2>1. DownInv(c) /\ ReadInv(c) /\ Len(down[c]) \in Nat
    BY DEF HandshakeInv, DownInv
  <2>2. Len(down[c]) >= 2 => Member(intent[c])
    BY <2>1 DEF DownInv
  <2>3. phase[c] \in {"first", "served"} => Len(down[c]) >= 2
    <3>1. /\ phase[c] = "first" => Len(down[c]) = 2
          /\ phase[c] = "served" => Len(down[c]) = 3
      BY <2>1, Zenon DEF DownInv
    <3> QED
      BY <3>1
  <2>4. client[c] = "joined" => /\ Len(down[c]) >= 2
                                /\ phase[c] \in {"served", "ended"}
                                /\ intent[c].valid
    BY <2>1 DEF DownInv, ReadInv, WelcomeFrame, ErrorFrame
  <2> QED
    BY <2>2, <2>3, <2>4
<1> QED
  BY <1>1, HandshakeInvariant, PTL

(* A stranger never gets past M0: beyond it the server serves members, and *)
(* the room a stranger asks for is the well-formed one of its intent.      *)
LEMMA StrangerStands ==
  ASSUME HandshakeInv, NEW c \in Conns, Stranger(c)
  PROVE  /\ phase[c] \notin {"first", "served"}
         /\ phase[c] = "select" => down[c] = <<>>
         /\ up[c] # <<>> /\ up[c][1].kind = "RoomSelect"
              => up[c][1] = SelectFrame(c) /\ up[c][1].room \notin BadRooms
<1>1. UpInv(c) /\ DownInv(c) /\ Len(down[c]) \in Nat
  BY DEF HandshakeInv, DownInv
<1>2. phase[c] \notin {"first", "served"}
  <2>1. /\ phase[c] = "first" => Len(down[c]) = 2
        /\ phase[c] = "served" => Len(down[c]) = 3
        /\ Len(down[c]) >= 2 => Member(intent[c])
    BY <1>1, Zenon DEF DownInv
  <2>2. ~Member(intent[c])
    BY DEF Stranger
  <2>3. ~(Len(down[c]) >= 2)
    BY <2>1, <2>2, Zenon
  <2>4. Len(down[c]) # 2 /\ Len(down[c]) # 3
    <3>1. \A n \in Nat : ~(n >= 2) => n # 2 /\ n # 3
      OBVIOUS
    <3> QED
      BY <1>1, <2>3, <3>1, Zenon
  <2> QED
    BY <2>1, <2>4
<1>3. phase[c] = "select" => down[c] = <<>>
  <2>1. phase[c] = "select" => Len(down[c]) = 0
    BY <1>1, Zenon DEF DownInv
  <2>2. down[c] \in Seq(DownFrames(c))
    BY <1>1 DEF DownInv
  <2> QED
    BY <2>1, <2>2
<1>4. up[c] # <<>> => Len(up[c]) >= 1
  BY <1>1 DEF UpInv
<1>5. up[c] # <<>> /\ up[c][1].kind = "RoomSelect" => up[c][1] = SelectFrame(c)
  BY <1>1, <1>4 DEF UpInv, StrayFrames
<1> QED
  BY <1>2, <1>3, <1>5 DEF Stranger, SelectFrame

(* The steps of the server on the connection of a stranger.                *)
LEMMA StrangerStep ==
  ASSUME HubAssumption, HandshakeInv, NEW c \in Conns, Stranger(c), ConnStep(c)
  PROVE  RoomlessStep(c)
<1>t. /\ phase \in [Conns -> {"backlog", "task", "refused", "served", "ended"}
                              \cup Handshaking]
      /\ DOMAIN down = Conns
  BY DEF HandshakeInv, ShapeInv
<1>s. /\ phase[c] \notin {"first", "served"}
      /\ phase[c] = "select" => down[c] = <<>>
      /\ up[c] # <<>> /\ up[c][1].kind = "RoomSelect"
           => up[c][1] = SelectFrame(c) /\ up[c][1].room \notin BadRooms
  BY StrangerStands
<1>1. CASE Accept(c) \/ DropListener(c) \/ TryAcquire(c) \/ Refused(c)
  BY <1>t, <1>1 DEF Accept, DropListener, TryAcquire, Refused, Go, wire,
                    RoomlessStep, Silent
<1>2. CASE PeerStep(c)
  <2>1. UNCHANGED <<phase, down>>
    BY <1>2 DEF PeerStep, ClientSelect, handshake_initiator, ClientHello,
                ClientJoins, ClientFails, Hangup, Stray, PeerTurns
  <2> QED
    BY <2>1 DEF RoomlessStep, Silent
<1>3. CASE SelectRoom(c)
  <2> DEFINE hello == [kind |-> "Hello",
                       salt |-> lookup(c, up[c][1].room).salt,
                       version |-> PROTOCOL_VERSION]
  <2>1. /\ phase[c] = "select" /\ phase'[c] = "noise"
        /\ up[c] # <<>> /\ up[c][1].kind = "RoomSelect"
        /\ Say(c, hello)
    BY <1>t, <1>3 DEF SelectRoom, Proceed, Go
  <2>2. hello = [kind |-> "Hello", salt |-> hello.salt,
                 version |-> PROTOCOL_VERSION]
    OBVIOUS
  <2> HIDE DEF hello
  <2>3. down'[c] = <<hello>> /\ down'[c][1] = hello
    BY <1>t, <1>s, <2>1 DEF Say
  <2> QED
    BY <2>1, <2>2, <2>3 DEF RoomlessStep
<1>4. CASE handshake_responder(c)
  BY <1>4, OnlyMembersPass DEF handshake_responder, Proceed, Go, Stranger
<1>5. CASE Register(c) \/ ServedEnds(c)
  BY <1>s, <1>5 DEF Register, ServedEnds, Proceed, Go
<1>6. CASE RejectAloud(c)
  BY <1>s, <1>6 DEF RejectAloud
<1>7. CASE Reject(c) \/ Timeout(c) \/ PeerGone(c)
  <2>1. phase'[c] = "ended" /\ down'[c] = down[c]
    BY <1>t, <1>7 DEF Reject, Timeout, PeerGone, Return
  <2>2. phase[c] \in {"select", "noise"}
    BY <1>s, <1>7 DEF Reject, Timeout, PeerGone, Timed, Handshaking
  <2>3. \/ age[c] = HANDSHAKE_TIMEOUT
        \/ client[c] = "closed"
        \/ phase[c] = "select" /\ up[c] # <<>> /\ up[c][1].kind # "RoomSelect"
        \/ phase[c] = "noise" /\ Len(up[c]) >= 2
    BY <1>7, <2>2 DEF Reject, Timeout, PeerGone
  <2> QED
    BY <2>1, <2>2, <2>3 DEF RoomlessStep, Silent
<1> QED
  BY <1>1, <1>2, <1>3, <1>4, <1>5, <1>6, <1>7 DEF ConnStep, ServerStep

(* For any rooms, passwords and peers: whatever a stranger sends, and when *)
(* ever, the server takes a step that one without rooms could take, the    *)
(* salt of its Hello apart.                                                *)
THEOREM RoomsStayHidden == HubSpec => StrangersAlike
<1>1. HandshakeInv /\ [HubNext]_hubVars
        => [\A c \in Conns : Stranger(c) => RoomlessStep(c)]_hubVars
  <2> SUFFICES ASSUME HandshakeInv, HubNext, NEW c \in Conns, Stranger(c)
               PROVE  RoomlessStep(c)
    OBVIOUS
  <2>1. CASE ConnStep(c)
    BY <2>1, StrangerStep, HubAssumption
  <2>2. ASSUME NEW d \in Conns, d # c, ConnStep(d) PROVE RoomlessStep(c)
    <3>1. Alone(d)
      BY <2>2, ConnStepShape, HubAssumption
    <3> QED
      BY <2>2, <3>1 DEF Alone, RoomlessStep, Silent
  <2>3. CASE CtrlC \/ Tick \/ AllEnded
    BY <2>3 DEF CtrlC, Tick, AllEnded, hubVars, wire, RoomlessStep, Silent
  <2> QED
    BY <2>1, <2>2, <2>3 DEF HubNext, ConnStep
<1> QED
  BY <1>1, HandshakeInvariant, PTL DEF HubSpec, StrangersAlike

(* For any rooms and peers: two connections are told the same salt exactly *)
(* when both ask for the same configured room.                             *)
THEOREM RoomsKeepTheirSalt == HubSpec => []SaltPerRoom
<1>1. HandshakeInv => SaltPerRoom
  <2> SUFFICES ASSUME HandshakeInv, NEW c \in Conns, NEW d \in Conns, c # d,
                      Answered(c), Answered(d)
               PROVE  down[c][1].salt = down[d][1].salt
                        <=> /\ intent[c].room = intent[d].room
                            /\ intent[c].room \in Rooms
    BY DEF SaltPerRoom
  <2>1. ASSUME NEW e \in Conns, Answered(e)
        PROVE  down[e][1].salt = lookup(e, intent[e].room).salt
    <3>1. DownInv(e) /\ down[e] # <<>> /\ down[e][1].kind = "Hello"
      BY <2>1 DEF HandshakeInv, Answered
    <3>2. Len(down[e]) >= 1
      BY <3>1 DEF DownInv
    <3>3. down[e][1] = HelloFrame(e)
      BY <3>1, <3>2 DEF DownInv, ErrorFrame
    <3> QED
      BY <3>3 DEF HelloFrame
  <2>2. ASSUME NEW e \in Conns
        PROVE  lookup(e, intent[e].room).salt =
                 IF intent[e].room \in Rooms THEN intent[e].room ELSE Junk[e]
    BY DEF lookup, fake_room
  <2>3. Junk[c] # Junk[d] /\ Junk[c] \notin Rooms /\ Junk[d] \notin Rooms
    BY HubAssumption DEF HubAssumption
  <2> QED
    BY <2>1, <2>2, <2>3
<1> QED
  BY <1>1, HandshakeInvariant, PTL

(* No peer holds a slot for more than three timeouts before it is          *)
(* registered, however it spreads its frames.                              *)
THEOREM HandshakeIsBounded == HubSpec => []HandshakeBounded
<1>1. HandshakeInv => HandshakeBounded
  <2> SUFFICES ASSUME HandshakeInv, NEW c \in Conns PROVE since[c] < TooLong
    BY DEF HandshakeBounded
  <2>1. /\ TimeInv(c) /\ age[c] \in 0..HANDSHAKE_TIMEOUT /\ since[c] \in Nat
        /\ HANDSHAKE_TIMEOUT \in Nat
    BY HubAssumption DEF HandshakeInv, ShapeInv, HubAssumption
  <2> QED
    BY <2>1 DEF TimeInv, Timed, TooLong
<1> QED
  BY <1>1, HandshakeInvariant, PTL
=============================================================================
