-------------------------- MODULE RoomServerProofs --------------------------
(***************************************************************************)
(* Theorems about RoomServer, for any set of connections, any frames the   *)
(* peers may send, and any capacity of the ring and of the outboxes.       *)
(***************************************************************************)
EXTENDS RoomServer, SequenceTheorems, TLAPS

-----------------------------------------------------------------------------
(* The frames the server builds are server frames                          *)

(* The Welcome of handle_connection carries the ring as it is.             *)
LEMMA WelcomeType ==
  ASSUME TypeOK, NEW u \in Users
  PROVE  Welcome(u) \in ServerFrame
  BY DEF TypeOK, Welcome, ServerFrame

(* The RoomMessage of handle_client_frame, and the frame around it.        *)
LEMMA MessageType ==
  ASSUME TypeOK, NEW u \in Users, input[u].kind = "Message"
  PROVE  LET m == [from |-> u, username |-> UsernameOf[u], ad |-> input[u].ad]
         IN  /\ m \in RoomMessage
             /\ [kind |-> "Message", msg |-> m] \in ServerFrame
<1>1. input[u] \in ClientFrame
  BY DEF TypeOK, NoFrame
<1>2. input[u].ad \in MessageAd
  BY <1>1 DEF ClientFrame
<1>3. UsernameOf[u] \in Usernames
  BY RoomAssumption DEF RoomAssumption
<1> QED
  BY <1>2, <1>3 DEF RoomMessage, ServerFrame

(* The counter that try_advance_counter stores is a number.                *)
LEMMA CounterType ==
  ASSUME TypeOK, NEW u \in Users, input[u].kind = "Message"
  PROVE  input[u].ad.counter \in Nat
<1>1. input[u] \in ClientFrame
  BY DEF TypeOK, NoFrame
<1> QED
  BY <1>1 DEF ClientFrame, MessageAd

(* The notice of a clear is a server frame.                                *)
LEMMA ClearedType ==
  ASSUME NEW u \in Users
  PROVE  [kind |-> "Cleared", by |-> u, username |-> UsernameOf[u]]
           \in ServerFrame
  BY RoomAssumption DEF RoomAssumption, ServerFrame

(* Pushing onto the ring keeps it a sequence of messages.                  *)
LEMMA PushType ==
  ASSUME NEW h \in Seq(RoomMessage), NEW m \in RoomMessage
  PROVE  push(h, m) \in Seq(RoomMessage)
<1>1. CASE Len(h) = HISTORY_LEN
  <2>1. h # <<>>
    BY <1>1, RoomAssumption DEF RoomAssumption
  <2> QED
    BY <1>1, <2>1 DEF push
<1>2. CASE Len(h) # HISTORY_LEN
  BY <1>2 DEF push
<1> QED
  BY <1>1, <1>2

-----------------------------------------------------------------------------
(* Type correctness.  TypeOK alone is not inductive: that what a task puts *)
(* on a socket or into an outbox is a frame depends on where the task is.  *)

OutputHeld ==
  \A u \in Users :
    task[u] \in {"welcoming", "writing", "announcing", "sending"}
      => output[u] \in ServerFrame

TypeInv == TypeOK /\ OutputHeld

(* The steps from accept to the pump keep the types.                       *)
LEMMA JoinTypes ==
  ASSUME TypeInv, NEW u \in Users,
         Accept(u) \/ HandshakeFails(u) \/ Register(u) \/ SnapshotHistory(u)
            \/ SendWelcome(u) \/ WelcomeFails(u)
  PROVE  TypeInv'
<1> USE DEF TypeInv, TypeOK, OutputHeld, Phases, Goto, sessionVars, tables,
            sweepVars, netVars, outside, JustGoto
<1>1. CASE Accept(u)
  BY <1>1 DEF Accept
<1>2. CASE HandshakeFails(u)
  BY <1>2 DEF HandshakeFails
<1>3. CASE Register(u)
  BY <1>3, RoomAssumption DEF Register, RoomAssumption
<1>4. CASE SnapshotHistory(u)
  BY <1>4, WelcomeType DEF SnapshotHistory, Welcome
<1>5. CASE SendWelcome(u)
  BY <1>5 DEF SendWelcome, WriteFrame
<1>6. CASE WelcomeFails(u)
  BY <1>6, RoomAssumption DEF WelcomeFails, RoomAssumption
<1> QED
  BY <1>1, <1>2, <1>3, <1>4, <1>5, <1>6

(* Steps of the pump and the cleanup after it keep the types.              *)
LEMMA PumpTypes ==
  ASSUME TypeInv, NEW u \in Users,
         PumpShutdown(u) \/ PumpTake(u) \/ PumpWrite(u) \/ PumpWriteFails(u)
            \/ PumpClosed(u) \/ PumpReadFails(u) \/ PumpRead(u)
            \/ CleanupSession(u) \/ CleanupConn(u)
  PROVE  TypeInv'
<1> USE DEF TypeInv, TypeOK, OutputHeld, Phases, Goto, sessionVars, tables,
            sweepVars, netVars, outside, JustGoto
<1>1. CASE PumpShutdown(u)
  BY <1>1 DEF PumpShutdown
<1>2. CASE PumpTake(u)
  <2>1. outbox[u] \in Seq(ServerFrame) /\ outbox[u] # <<>>
    BY <1>2 DEF PumpTake
  <2>2. /\ Head(outbox[u]) \in ServerFrame
        /\ Tail(outbox[u]) \in Seq(ServerFrame)
        /\ Len(Tail(outbox[u])) = Len(outbox[u]) - 1
    BY <2>1, HeadTailProperties
  <2>3. Len(Tail(outbox[u])) <= OUTBOX_DEPTH
    BY <2>1, <2>2, LenProperties, RoomAssumption DEF RoomAssumption
  <2> QED
    BY <1>2, <2>2, <2>3 DEF PumpTake
<1>3. CASE PumpWrite(u)
  BY <1>3 DEF PumpWrite, WriteFrame
<1>4. CASE PumpWriteFails(u)
  BY <1>4 DEF PumpWriteFails
<1>5. CASE PumpClosed(u)
  BY <1>5 DEF PumpClosed
<1>6. CASE PumpReadFails(u)
  BY <1>6 DEF PumpReadFails
<1>7. CASE PumpRead(u)
  BY <1>7, RoomAssumption DEF PumpRead, RoomAssumption, SocketArm
<1>8. CASE CleanupSession(u)
  BY <1>8 DEF CleanupSession
<1>9. CASE CleanupConn(u)
  BY <1>9, RoomAssumption DEF CleanupConn, RoomAssumption
<1> QED
  BY <1>1, <1>2, <1>3, <1>4, <1>5, <1>6, <1>7, <1>8, <1>9

(* Steps of handle_client_frame keep the types.                            *)
LEMMA FrameTypes ==
  ASSUME TypeInv, NEW u \in Users,
         \/ RejectFrame(u) \/ RejectOverQuota(u) \/ AcceptMessage(u)
         \/ AcceptClear(u) \/ StoreMessage(u) \/ StoreClear(u)
  PROVE  TypeInv'
<1> USE DEF TypeInv, TypeOK, OutputHeld, Phases, Goto, sessionVars, tables,
            sweepVars, netVars, outside, JustGoto
<1>1. CASE RejectFrame(u)
  BY <1>1 DEF RejectFrame
<1>2. CASE RejectOverQuota(u)
  <2>1. input[u].ad.counter \in Nat
    BY <1>2, CounterType DEF RejectOverQuota, IdentityOK
  <2> QED
    BY <1>2, <2>1 DEF RejectOverQuota
<1>3. CASE AcceptMessage(u)
  <2>1. input[u].ad.counter \in Nat
    BY <1>3, CounterType DEF AcceptMessage, IdentityOK
  <2> QED
    BY <1>3, <2>1 DEF AcceptMessage
<1>4. CASE AcceptClear(u)
  BY <1>4 DEF AcceptClear
<1>5. CASE StoreMessage(u)
  BY <1>5, MessageType, PushType DEF StoreMessage
<1>6. CASE StoreClear(u)
  BY <1>6, ClearedType DEF StoreClear
<1> QED
  BY <1>1, <1>2, <1>3, <1>4, <1>5, <1>6

(* Steps of broadcast keep the types: no outbox grows past its capacity.   *)
LEMMA BroadcastTypes ==
  ASSUME TypeInv, NEW u \in Users,
         SnapshotConns(u) \/ (\E v \in Users : TrySend(u, v)) \/ EvictDead(u)
  PROVE  TypeInv'
<1> USE DEF TypeInv, TypeOK, OutputHeld, Phases, Goto, sessionVars, tables,
            sweepVars, netVars, outside, JustGoto
<1>1. CASE SnapshotConns(u)
  BY <1>1 DEF SnapshotConns
<1>2. CASE \E v \in Users : TrySend(u, v)
  <2>1. PICK v \in Users : TrySend(u, v)
    BY <1>2
  <2>2. output[u] \in ServerFrame
    BY <2>1 DEF TrySend
  <2>3. CASE CanSend(v)
    <3>1. /\ outbox' = [outbox EXCEPT ![v] = Append(@, output[u])]
          /\ dead' = dead
      BY <2>1, <2>3 DEF TrySend
    <3>2. /\ Append(outbox[v], output[u]) \in Seq(ServerFrame)
          /\ Len(Append(outbox[v], output[u])) = Len(outbox[v]) + 1
      BY <2>2, AppendProperties
    <3>3. Len(Append(outbox[v], output[u])) <= OUTBOX_DEPTH
      BY <2>3, <3>2, LenProperties, RoomAssumption DEF CanSend, RoomAssumption
    <3> QED
      BY <2>1, <3>1, <3>2, <3>3 DEF TrySend
  <2>4. CASE ~CanSend(v)
    <3>1. /\ dead' = [dead EXCEPT ![u] = @ \cup {v}]
          /\ outbox' = outbox
      BY <2>1, <2>4 DEF TrySend
    <3>2. dead[u] \cup {v} \in SUBSET Users /\ todo[u] \ {v} \in SUBSET Users
      OBVIOUS
    <3>3. /\ dead' \in [Users -> SUBSET Users]
          /\ todo' \in [Users -> SUBSET Users]
      BY <2>1, <3>1, <3>2 DEF TrySend
    <3> QED
      BY <2>1, <3>1, <3>3 DEF TrySend
  <2> QED
    BY <2>3, <2>4
<1>3. CASE EvictDead(u)
  BY <1>3 DEF EvictDead
<1> QED
  BY <1>1, <1>2, <1>3

(* Steps of the sweeper and of the environment keep the types.             *)
LEMMA OtherTypes ==
  ASSUME TypeInv,
         \/ SweepScan \/ SweepRemove \/ SweepStop \/ CtrlC
         \/ \E u \in Users : Stall(u) \/ Hangup(u) \/ GoIdle(u)
  PROVE  TypeInv'
<1> USE DEF TypeInv, TypeOK, OutputHeld, sessionVars, tables, taskVars,
            netVars, sweepVars, outside
<1>1. CASE SweepScan \/ SweepRemove \/ SweepStop
  BY <1>1 DEF SweepScan, SweepRemove, SweepStop
<1>2. CASE CtrlC
  BY <1>2 DEF CtrlC
<1>3. ASSUME NEW u \in Users, Stall(u) \/ Hangup(u)
      PROVE  TypeInv'
  BY <1>3 DEF Stall, Hangup, PeerTurns
<1>4. ASSUME NEW u \in Users, GoIdle(u)
      PROVE  TypeInv'
  BY <1>4 DEF GoIdle
<1> QED
  BY <1>1, <1>2, <1>3, <1>4

(* Types and outputs together are preserved by every step.                 *)
LEMMA TypeInvariant == Spec => []TypeInv
<1>1. Init => TypeInv
  <2> SUFFICES ASSUME Init PROVE TypeInv
    OBVIOUS
  <2>1. 0 \in 0..MAX_READS /\ 0 <= OUTBOX_DEPTH
    BY RoomAssumption DEF RoomAssumption
  <2>2. OutputHeld
    BY DEF Init, OutputHeld
  <2>3. /\ history \in Seq(RoomMessage)
        /\ outbox \in [Users -> Seq(ServerFrame)]
        /\ got \in [Users -> Seq(ServerFrame)]
        /\ \A u \in Users : Len(outbox[u]) <= OUTBOX_DEPTH
    BY <2>1 DEF Init
  <2> QED
    BY <2>1, <2>2, <2>3 DEF Init, TypeInv, TypeOK, Phases
<1>2. TypeInv /\ [Next]_vars => TypeInv'
  <2> SUFFICES ASSUME TypeInv, [Next]_vars PROVE TypeInv'
    OBVIOUS
  <2>1. ASSUME NEW u \in Users, TaskStep(u) PROVE TypeInv'
    BY <2>1, JoinTypes, PumpTypes, FrameTypes, BroadcastTypes DEF TaskStep
  <2>2. ASSUME NEW u \in Users, Environment(u) PROVE TypeInv'
    BY <2>2, JoinTypes, PumpTypes, OtherTypes DEF Environment
  <2>3. CASE Sweep \/ CtrlC
    BY <2>3, OtherTypes DEF Sweep
  <2>4. CASE Returned \/ UNCHANGED vars
    BY <2>4 DEF Returned, vars, sessionVars, tables, taskVars, sweepVars,
                netVars, outside, TypeInv, TypeOK, OutputHeld
  <2> QED
    BY <2>1, <2>2, <2>3, <2>4 DEF Next
<1> QED
  BY <1>1, <1>2, PTL DEF Spec

(* Every variable keeps its type and every outbox its capacity, whatever   *)
(* the tasks, the sweeper and the peers do.                                *)
THEOREM TypeCorrect == Spec => []TypeOK
<1>1. TypeInv => TypeOK
  BY DEF TypeInv
<1> QED
  BY <1>1, TypeInvariant, PTL

-----------------------------------------------------------------------------
(* The tables and the life of a connection.  CleanExit needs to know that  *)
(* a task which ends without its cleanup block has written nothing yet.    *)

SilentUntilWelcomed ==
  \A u \in Users :
    task[u] \in {"unborn", "handshaking", "joining", "welcoming"}
      => got[u] = <<>>

(* Between the halves of a cleanup the session is gone for good.           *)
HalfRemoved == \A u \in Users : task[u] = "unlisting" => u \notin sessions

LifeInv == SendersTracked /\ CleanExit /\ SilentUntilWelcomed /\ HalfRemoved

(* Joining: session and Sender come together; a failed Welcome ends a task *)
(* that was silent.                                                        *)
LEMMA JoinLife ==
  ASSUME TypeOK, LifeInv, NEW u \in Users,
         \/ Accept(u) \/ HandshakeFails(u) \/ Register(u)
         \/ SnapshotHistory(u) \/ SendWelcome(u) \/ WelcomeFails(u)
  PROVE  LifeInv'
<1> USE DEF TypeOK, LifeInv, SendersTracked, CleanExit,
            SilentUntilWelcomed, HalfRemoved, Goto, JustGoto, sessionVars, tables,
            sweepVars, netVars, outside
<1>1. CASE Accept(u)
  BY <1>1 DEF Accept
<1>2. CASE HandshakeFails(u)
  BY <1>2 DEF HandshakeFails
<1>3. CASE Register(u)
  BY <1>3 DEF Register
<1>4. CASE SnapshotHistory(u)
  BY <1>4 DEF SnapshotHistory
<1>5. CASE SendWelcome(u)
  BY <1>5 DEF SendWelcome, WriteFrame
<1>6. CASE WelcomeFails(u)
  BY <1>6 DEF WelcomeFails
<1> QED
  BY <1>1, <1>2, <1>3, <1>4, <1>5, <1>6

(* The pump never ends a task by itself; the cleanup after it empties both *)
(* tables.                                                                 *)
LEMMA PumpLife ==
  ASSUME TypeOK, LifeInv, NEW u \in Users,
         \/ PumpShutdown(u) \/ PumpTake(u) \/ PumpWrite(u)
         \/ PumpWriteFails(u) \/ PumpClosed(u) \/ PumpReadFails(u)
         \/ PumpRead(u) \/ CleanupSession(u) \/ CleanupConn(u)
  PROVE  LifeInv'
<1> USE DEF TypeOK, LifeInv, SendersTracked, CleanExit,
            SilentUntilWelcomed, HalfRemoved, Goto, JustGoto, sessionVars, tables,
            sweepVars, netVars, outside
<1>1. CASE PumpShutdown(u)
  BY <1>1 DEF PumpShutdown
<1>2. CASE PumpClosed(u)
  BY <1>2 DEF PumpClosed
<1>3. CASE PumpReadFails(u)
  BY <1>3 DEF PumpReadFails
<1>4. CASE PumpTake(u)
  BY <1>4 DEF PumpTake
<1>5. CASE PumpWriteFails(u)
  BY <1>5 DEF PumpWriteFails
<1>6. CASE PumpWrite(u)
  BY <1>6 DEF PumpWrite, WriteFrame
<1>7. CASE PumpRead(u)
  BY <1>7 DEF PumpRead
<1>8. CASE CleanupSession(u)
  BY <1>8 DEF CleanupSession
<1>9. CASE CleanupConn(u)
  BY <1>9 DEF CleanupConn
<1> QED
  BY <1>1, <1>2, <1>3, <1>4, <1>5, <1>6, <1>7, <1>8, <1>9

(* Handling a frame adds to neither table; a broadcast may only evict.     *)
LEMMA FrameLife ==
  ASSUME TypeOK, LifeInv, NEW u \in Users,
         \/ RejectFrame(u) \/ RejectOverQuota(u) \/ AcceptMessage(u)
         \/ AcceptClear(u) \/ StoreMessage(u) \/ StoreClear(u)
         \/ SnapshotConns(u) \/ EvictDead(u)
         \/ \E v \in Users : TrySend(u, v)
  PROVE  LifeInv'
<1> USE DEF TypeOK, LifeInv, SendersTracked, CleanExit,
            SilentUntilWelcomed, HalfRemoved, Goto, JustGoto, sessionVars, tables,
            sweepVars, netVars, outside
<1>1. CASE RejectFrame(u)
  BY <1>1 DEF RejectFrame
<1>2. CASE RejectOverQuota(u)
  BY <1>2 DEF RejectOverQuota
<1>3. CASE AcceptMessage(u)
  BY <1>3 DEF AcceptMessage
<1>4. CASE AcceptClear(u)
  BY <1>4 DEF AcceptClear
<1>5. CASE StoreMessage(u)
  BY <1>5 DEF StoreMessage
<1>6. CASE StoreClear(u)
  BY <1>6 DEF StoreClear
<1>7. CASE SnapshotConns(u)
  BY <1>7 DEF SnapshotConns
<1>8. CASE EvictDead(u)
  BY <1>8 DEF EvictDead
<1>9. CASE \E v \in Users : TrySend(u, v)
  BY <1>9 DEF TrySend
<1> QED
  BY <1>1, <1>2, <1>3, <1>4, <1>5, <1>6, <1>7, <1>8, <1>9

(* The sweeper empties both tables alike; the environment touches neither. *)
LEMMA OtherLife ==
  ASSUME TypeOK, LifeInv,
         \/ SweepScan \/ SweepRemove \/ SweepStop \/ CtrlC
         \/ \E u \in Users : Stall(u) \/ Hangup(u) \/ GoIdle(u)
  PROVE  LifeInv'
<1> USE DEF TypeOK, LifeInv, SendersTracked, CleanExit,
            SilentUntilWelcomed, HalfRemoved, sessionVars, tables, taskVars,
            netVars, outside
<1>1. CASE SweepScan \/ SweepRemove \/ SweepStop \/ CtrlC
  BY <1>1 DEF SweepScan, SweepRemove, SweepStop, CtrlC
<1>2. ASSUME NEW u \in Users, Stall(u) \/ Hangup(u)
      PROVE  LifeInv'
  BY <1>2 DEF Stall, Hangup, PeerTurns
<1>3. ASSUME NEW u \in Users, GoIdle(u)
      PROVE  LifeInv'
  BY <1>3 DEF GoIdle
<1> QED
  BY <1>1, <1>2, <1>3

(* Whatever broadcasts, sweeps and disconnects overlap, a Sender outlives  *)
(* its session only between the two halves of its own task's cleanup, and  *)
(* a connection that was ever welcomed leaves neither.                     *)
THEOREM TablesConsistent == Spec => [](SendersTracked /\ CleanExit)
<1>1. Init => LifeInv
  BY DEF Init, LifeInv, SendersTracked, CleanExit, SilentUntilWelcomed,
         HalfRemoved
<1>2. TypeOK /\ LifeInv /\ [Next]_vars => LifeInv'
  <2> SUFFICES ASSUME TypeOK, LifeInv, [Next]_vars PROVE LifeInv'
    OBVIOUS
  <2>1. ASSUME NEW u \in Users, TaskStep(u) PROVE LifeInv'
    BY <2>1, JoinLife, PumpLife, FrameLife DEF TaskStep
  <2>2. ASSUME NEW u \in Users, Environment(u) PROVE LifeInv'
    BY <2>2, JoinLife, PumpLife, OtherLife DEF Environment
  <2>3. CASE Sweep \/ CtrlC
    BY <2>3, OtherLife DEF Sweep
  <2>4. CASE Returned \/ UNCHANGED vars
    BY <2>4 DEF Returned, vars, sessionVars, tables, taskVars, netVars,
                outside, LifeInv, SendersTracked, CleanExit,
                SilentUntilWelcomed, HalfRemoved
  <2> QED
    BY <2>1, <2>2, <2>3, <2>4 DEF Next
<1>3. LifeInv => SendersTracked /\ CleanExit
  BY DEF LifeInv
<1> QED
  BY <1>1, <1>2, <1>3, TypeCorrect, PTL DEF Spec
=============================================================================
