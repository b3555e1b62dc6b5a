--------------------------- MODULE RoomOrderProofs ---------------------------
(***************************************************************************)
(* What a connection of RoomServer is sent, and in which order: the        *)
(* messages of each sender by their counters (SenderOrder), a faithful     *)
(* replay (HistoryFaithful), and no gap between replay and live stream     *)
(* (JoinComplete).  A stream is a concatenation of three parts; the        *)
(* invariants speak of the parts, and the last lemmas put them together.   *)
(***************************************************************************)
EXTENDS RoomServerProofs

-----------------------------------------------------------------------------
(* Order of frames                                                         *)

(* f may precede g on a connection.                                        *)
Before(f, g) ==
  (/\ f.kind = "Message"
   /\ g.kind = "Message"
   /\ f.msg.from = g.msg.from)
    => f.msg.ad.counter < g.msg.ad.counter

Ordered(s) == \A i, j \in 1..Len(s) : i < j => Before(s[i], s[j])

(* A frame at the end of an ordered sequence that all others may precede.  *)
LEMMA OrderedAppend ==
  ASSUME NEW s \in Seq(ServerFrame), NEW f \in ServerFrame, Ordered(s),
         \A i \in 1..Len(s) : Before(s[i], f)
  PROVE  Ordered(Append(s, f))
<1>1. /\ Append(s, f) \in Seq(ServerFrame)
      /\ Len(Append(s, f)) = Len(s) + 1
      /\ \A i \in 1..Len(s) : Append(s, f)[i] = s[i]
      /\ Append(s, f)[Len(s) + 1] = f
      /\ Len(s) \in Nat
  BY AppendProperties, LenProperties
<1> SUFFICES ASSUME NEW i \in 1..Len(s) + 1, NEW j \in 1..Len(s) + 1, i < j
             PROVE  Before(Append(s, f)[i], Append(s, f)[j])
  BY <1>1 DEF Ordered
<1>2. i \in 1..Len(s)
  BY <1>1
<1>3. CASE j = Len(s) + 1
  BY <1>1, <1>2, <1>3
<1>4. CASE j \in 1..Len(s)
  BY <1>1, <1>2, <1>4 DEF Ordered
<1> QED
  BY <1>1, <1>3, <1>4

(* Taking the first frame of an outbox leaves the order of the rest.       *)
LEMMA OrderedTail ==
  ASSUME NEW s \in Seq(ServerFrame), s # <<>>, Ordered(s)
  PROVE  /\ Ordered(Tail(s))
         /\ \A i \in 1..Len(Tail(s)) : Before(Head(s), Tail(s)[i])
<1>1. /\ Len(Tail(s)) = Len(s) - 1
      /\ \A i \in 1..Len(Tail(s)) : Tail(s)[i] = s[i + 1]
      /\ Head(s) = s[1]
      /\ Len(s) \in Nat \ {0}
  BY HeadTailProperties, EmptySeq
<1>2. \A i \in 1..Len(Tail(s)) : i + 1 \in 1..Len(s) /\ 1 < i + 1
  BY <1>1
<1>3. Ordered(Tail(s))
  <2> SUFFICES ASSUME NEW i \in 1..Len(Tail(s)), NEW j \in 1..Len(Tail(s)),
                      i < j
               PROVE  Before(Tail(s)[i], Tail(s)[j])
    BY DEF Ordered
  <2>1. i + 1 < j + 1
    BY <1>1
  <2> QED
    BY <1>1, <1>2, <2>1 DEF Ordered
<1>4. ASSUME NEW i \in 1..Len(Tail(s)) PROVE Before(Head(s), Tail(s)[i])
  <2>1. 1 \in 1..Len(s)
    BY <1>1
  <2> QED
    BY <1>1, <1>2, <2>1 DEF Ordered
<1> QED
  BY <1>3, <1>4

(* The parts of a stream that are ordered, each before the next, make an   *)
(* ordered whole.                                                          *)
LEMMA OrderedConcat ==
  ASSUME NEW s \in Seq(ServerFrame), NEW t \in Seq(ServerFrame),
         Ordered(s), Ordered(t),
         \A i \in 1..Len(s), j \in 1..Len(t) : Before(s[i], t[j])
  PROVE  Ordered(s \o t)
<1>1. /\ Len(s \o t) = Len(s) + Len(t)
      /\ \A i \in 1..Len(s) + Len(t) :
           (s \o t)[i] = IF i <= Len(s) THEN s[i] ELSE t[i - Len(s)]
      /\ Len(s) \in Nat /\ Len(t) \in Nat
  BY ConcatProperties, LenProperties
<1> SUFFICES ASSUME NEW i \in 1..Len(s) + Len(t), NEW j \in 1..Len(s) + Len(t),
                    i < j
             PROVE  Before((s \o t)[i], (s \o t)[j])
  BY <1>1 DEF Ordered
<1>2. CASE j <= Len(s)
  <2>1. i \in 1..Len(s) /\ j \in 1..Len(s)
    BY <1>1, <1>2
  <2> QED
    BY <1>1, <1>2, <2>1 DEF Ordered
<1>3. CASE ~(j <= Len(s)) /\ i <= Len(s)
  <2>1. i \in 1..Len(s) /\ j - Len(s) \in 1..Len(t)
    BY <1>1, <1>3
  <2> QED
    BY <1>1, <1>3, <2>1
<1>4. CASE ~(j <= Len(s)) /\ ~(i <= Len(s))
  <2>1. /\ i - Len(s) \in 1..Len(t) /\ j - Len(s) \in 1..Len(t)
        /\ i - Len(s) < j - Len(s)
    BY <1>1, <1>4
  <2> QED
    BY <1>1, <1>4, <2>1 DEF Ordered
<1> QED
  BY <1>2, <1>3, <1>4

-----------------------------------------------------------------------------
(* What a step may do to the three parts of a stream                       *)

Writing(u) == task[u] \in {"welcoming", "writing"}

Untouched(u) ==
  /\ got'[u] = got[u] /\ outbox'[u] = outbox[u]
  /\ Writing(u)' <=> Writing(u)
  /\ Writing(u) => output'[u] = output[u]

Written(u) ==
  /\ peer[u] = "reading" /\ Writing(u) /\ ~Writing(u)'
  /\ got'[u] = Append(got[u], output[u]) /\ outbox'[u] = outbox[u]

(* A write that fails or is swallowed, and the end of a task.              *)
Dropped(u) ==
  /\ peer[u] = "closed" \/ task'[u] = "gone"
  /\ ~Writing(u)'
  /\ got'[u] = got[u]
  /\ outbox'[u] \in {outbox[u], <<>>}

Taken(u) ==
  /\ ~Writing(u) /\ Writing(u)' /\ outbox[u] # <<>>
  /\ got'[u] = got[u]
  /\ output'[u] = Head(outbox[u]) /\ outbox'[u] = Tail(outbox[u])

Received(u) ==
  \E s \in Users :
    /\ TrySend(s, u)
    /\ Writing(u)' <=> Writing(u)
    /\ got'[u] = got[u] /\ output'[u] = output[u]
    /\ outbox'[u] = Append(outbox[u], output[s])

Replayed(u) ==
  /\ ~Writing(u) /\ Writing(u)'
  /\ got'[u] = got[u] /\ outbox'[u] = outbox[u]
  /\ output'[u] = Welcome(u)
  /\ task[u] = "joining"
  /\ UNCHANGED history

WireStep(u) ==
  \/ Untouched(u) \/ Written(u) \/ Dropped(u)
  \/ Taken(u) \/ Received(u) \/ Replayed(u)

(* The steps of u's own task.                                              *)
LEMMA OwnWireStep ==
  ASSUME TypeInv, NEW u \in Users, TaskStep(u) \/ Environment(u),
         ~\E v \in Users : TrySend(u, v),
         NEW w \in Users
  PROVE  WireStep(w)
<1> USE DEF TypeInv, TypeOK, Goto, JustGoto, sessionVars, tables, taskVars,
            sweepVars, netVars, outside, Writing
<1>1. CASE Accept(u) \/ HandshakeFails(u) \/ Register(u)
  BY <1>1 DEF Accept, HandshakeFails, Register, WireStep, Untouched
<1>2. CASE SnapshotHistory(u)
  <2>1. CASE w = u
    BY <1>2, <2>1 DEF SnapshotHistory, WireStep, Replayed
  <2>2. CASE w # u
    BY <1>2, <2>2 DEF SnapshotHistory, WireStep, Untouched
  <2> QED
    BY <2>1, <2>2
<1>3. CASE SendWelcome(u) \/ PumpWrite(u)
  <2>1. CASE w = u /\ peer[u] = "reading"
    BY <1>3, <2>1 DEF SendWelcome, PumpWrite, WriteFrame, WireStep, Written
  <2>2. CASE w = u /\ peer[u] # "reading"
    BY <1>3, <2>2 DEF SendWelcome, PumpWrite, WriteFrame, WireStep, Dropped
  <2>3. CASE w # u
    BY <1>3, <2>3 DEF SendWelcome, PumpWrite, WriteFrame, WireStep, Untouched
  <2> QED
    BY <2>1, <2>2, <2>3
<1>4. CASE WelcomeFails(u) \/ PumpWriteFails(u) \/ CleanupConn(u)
  <2>1. CASE w = u
    BY <1>4, <2>1 DEF WelcomeFails, PumpWriteFails, CleanupConn, WireStep,
                      Dropped
  <2>2. CASE w # u
    BY <1>4, <2>2 DEF WelcomeFails, PumpWriteFails, CleanupConn, WireStep,
                      Untouched
  <2> QED
    BY <2>1, <2>2
<1>5. CASE PumpTake(u)
  <2>1. CASE w = u
    BY <1>5, <2>1 DEF PumpTake, WireStep, Taken
  <2>2. CASE w # u
    BY <1>5, <2>2 DEF PumpTake, WireStep, Untouched
  <2> QED
    BY <2>1, <2>2
<1>6. CASE \/ PumpShutdown(u) \/ PumpClosed(u) \/ PumpReadFails(u)
           \/ PumpRead(u) \/ CleanupSession(u)
  BY <1>6 DEF PumpShutdown, PumpClosed, PumpReadFails, PumpRead,
              CleanupSession, WireStep, Untouched
<1>7. CASE \/ RejectFrame(u) \/ RejectOverQuota(u) \/ AcceptMessage(u)
           \/ AcceptClear(u)
  BY <1>7 DEF RejectFrame, RejectOverQuota, AcceptMessage, AcceptClear,
              WireStep, Untouched
<1>8. CASE \/ StoreMessage(u) \/ StoreClear(u) \/ SnapshotConns(u)
           \/ EvictDead(u)
  BY <1>8 DEF StoreMessage, StoreClear, SnapshotConns, EvictDead, WireStep,
              Untouched
<1>9. CASE Stall(u) \/ Hangup(u) \/ GoIdle(u)
  BY <1>9 DEF Stall, Hangup, PeerTurns, GoIdle, WireStep, Untouched
<1> QED
  BY <1>1, <1>2, <1>3, <1>4, <1>5, <1>6, <1>7, <1>8, <1>9
  DEF TaskStep, Environment

(* Every step is one of the six for every connection.                      *)
LEMMA AnyWireStep ==
  ASSUME TypeInv, [Next]_vars, NEW w \in Users
  PROVE  WireStep(w)
<1> USE DEF TypeInv, TypeOK, sessionVars, tables, taskVars, sweepVars,
            netVars, outside, Writing
<1>1. ASSUME NEW u \in Users, NEW v \in Users, TrySend(u, v)
      PROVE  WireStep(w)
  <2>1. CASE w = v /\ CanSend(v)
    BY <1>1, <2>1 DEF TrySend, WireStep, Received
  <2>2. CASE w # v \/ ~CanSend(v)
    BY <1>1, <2>2 DEF TrySend, WireStep, Untouched
  <2> QED
    BY <2>1, <2>2
<1>2. ASSUME NEW u \in Users, TaskStep(u) \/ Environment(u)
      PROVE  WireStep(w)
  BY <1>1, <1>2, OwnWireStep
<1>3. CASE Sweep \/ CtrlC \/ Returned \/ UNCHANGED vars
  BY <1>3 DEF Sweep, SweepScan, SweepRemove, SweepStop, CtrlC, Returned, vars,
              WireStep, Untouched
<1> QED
  BY <1>2, <1>3 DEF Next

-----------------------------------------------------------------------------
(* The message a sender has in hand                                        *)

(* From try_advance_counter on, the frame in hand carries the sender's own *)
(* id and name and the counter its session has stored, which is not 0.     *)
HandInv(s) ==
  /\ task[s] = "publishing" /\ input[s].kind = "Message"
       => /\ IdentityOK(s, input[s])
          /\ input[s].ad.counter = last_counter[s] /\ last_counter[s] # 0
  /\ task[s] \in {"announcing", "sending"} /\ output[s].kind = "Message"
       => /\ output[s].msg.from = s /\ output[s].msg.ad.from = s
          /\ output[s].msg.ad.counter = last_counter[s] /\ last_counter[s] # 0
  /\ task[s] \in {"announcing", "sending"} => output[s].kind # "Welcome"

SenderInv == \A s \in Users : HandInv(s)

(* u has not been sent yet the message that s has in hand.                 *)
Pending(s, u) ==
  \/ task[s] = "publishing" /\ input[s].kind = "Message"
  \/ task[s] = "announcing" /\ output[s].kind = "Message"
  \/ task[s] = "sending" /\ output[s].kind = "Message" /\ u \in todo[s]

(* The message in hand is not in the history yet.                          *)
Unstored(s) == task[s] = "publishing" /\ input[s].kind = "Message"

Early == {"unborn", "handshaking"}

(* What a step may do to the counter of a sender and to what it has in     *)
(* hand for a connection.                                                  *)
Steady(s, u) ==
  /\ last_counter'[s] = last_counter[s]
  /\ Unstored(s)' => Unstored(s)
  /\ task'[s] \in Early => task[s] \in Early
  /\ Pending(s, u)' => Pending(s, u)

Advanced(s) ==
  /\ task[s] = "handling" /\ task'[s] \notin Early
  /\ last_counter'[s] \in Nat /\ last_counter'[s] > last_counter[s]

Registered(s) == task[s] = "handshaking"

SenderStep(s, u) == Steady(s, u) \/ Advanced(s) \/ Registered(s)

(* A task moves only its own counter, phase and frames.                    *)
LEMMA OthersKept ==
  ASSUME TypeInv, NEW t \in Users, TaskStep(t) \/ Environment(t),
         NEW s \in Users, s # t
  PROVE  UNCHANGED <<task[s], input[s], output[s], todo[s], dead[s],
                     last_counter[s]>>
<1> USE DEF TypeInv, TypeOK, Goto, JustGoto, sessionVars, tables, taskVars,
            sweepVars, netVars, outside
<1>1. CASE \/ Accept(t) \/ HandshakeFails(t) \/ Register(t)
           \/ SnapshotHistory(t) \/ SendWelcome(t) \/ WelcomeFails(t)
  BY <1>1 DEF Accept, HandshakeFails, Register, SnapshotHistory, SendWelcome,
              WelcomeFails, WriteFrame
<1>2. CASE \/ PumpTake(t) \/ PumpWrite(t) \/ PumpWriteFails(t)
           \/ CleanupSession(t) \/ CleanupConn(t)
           \/ PumpShutdown(t) \/ PumpClosed(t)
           \/ PumpReadFails(t) \/ PumpRead(t)
  BY <1>2 DEF PumpTake, PumpWrite, PumpWriteFails, CleanupSession,
              CleanupConn, WriteFrame, PumpShutdown, PumpClosed,
              PumpReadFails, PumpRead
<1>3. CASE \/ RejectFrame(t) \/ AcceptClear(t) \/ RejectOverQuota(t)
           \/ AcceptMessage(t) \/ StoreMessage(t) \/ StoreClear(t)
  BY <1>3 DEF RejectFrame, AcceptClear, RejectOverQuota, AcceptMessage,
              StoreMessage, StoreClear
<1>4. CASE \/ SnapshotConns(t) \/ EvictDead(t)
           \/ \E v \in Users : TrySend(t, v)
  BY <1>4 DEF SnapshotConns, EvictDead, TrySend
<1>5. CASE Stall(t) \/ Hangup(t) \/ GoIdle(t)
  BY <1>5 DEF Stall, Hangup, PeerTurns, GoIdle
<1> QED
  BY <1>1, <1>2, <1>3, <1>4, <1>5 DEF TaskStep, Environment

(* What the acting task may do to its own counter and frames.              *)
LEMMA OwnSenderStep ==
  ASSUME TypeInv, NEW t \in Users, TaskStep(t) \/ Environment(t), HandInv(t),
         NEW u \in Users
  PROVE  HandInv(t)' /\ SenderStep(t, u)
<1> USE DEF TypeInv, TypeOK, Goto, JustGoto, sessionVars, tables, taskVars,
            sweepVars, netVars, outside, HandInv, SenderStep, Pending,
            Steady, Unstored, Early
<1>1. CASE Accept(t) \/ HandshakeFails(t)
  BY <1>1 DEF Accept, HandshakeFails
<1>2. CASE Register(t)
  BY <1>2 DEF Register, Registered
<1>3. CASE SnapshotHistory(t) \/ SendWelcome(t) \/ WelcomeFails(t)
  BY <1>3 DEF SnapshotHistory, SendWelcome, WelcomeFails, WriteFrame
<1>4. CASE \/ PumpTake(t) \/ PumpWrite(t) \/ PumpWriteFails(t)
           \/ CleanupSession(t) \/ CleanupConn(t)
  BY <1>4 DEF PumpTake, PumpWrite, PumpWriteFails, CleanupSession,
              CleanupConn, WriteFrame
<1>5. CASE PumpShutdown(t) \/ PumpClosed(t) \/ PumpReadFails(t) \/ PumpRead(t)
  BY <1>5 DEF PumpShutdown, PumpClosed, PumpReadFails, PumpRead
<1>6. CASE RejectFrame(t) \/ AcceptClear(t)
  BY <1>6 DEF RejectFrame, AcceptClear
<1>7. CASE RejectOverQuota(t) \/ AcceptMessage(t)
  <2>1. input[t].ad.counter \in Nat /\ input[t].ad.counter > last_counter[t]
    BY <1>7, CounterType
    DEF RejectOverQuota, AcceptMessage, IdentityOK, try_advance_counter
  <2>2. HandInv(t)'
    <3>1. last_counter[t] \in Nat /\ input[t].ad.counter # 0
      BY <2>1
    <3> QED
      BY <1>7, <3>1 DEF RejectOverQuota, AcceptMessage, IdentityOK
  <2>3. SenderStep(t, u)
    BY <1>7, <2>1 DEF RejectOverQuota, AcceptMessage, Advanced
  <2> QED
    BY <2>2, <2>3
<1>8. CASE StoreMessage(t)
  BY <1>8 DEF StoreMessage, IdentityOK
<1>9. CASE StoreClear(t)
  BY <1>9 DEF StoreClear
<1>10. CASE SnapshotConns(t) \/ EvictDead(t)
  BY <1>10 DEF SnapshotConns, EvictDead
<1>11. CASE \E v \in Users : TrySend(t, v)
  BY <1>11 DEF TrySend
<1>12. CASE Stall(t) \/ Hangup(t) \/ GoIdle(t)
  BY <1>12 DEF Stall, Hangup, PeerTurns, GoIdle, IdentityOK
<1> QED
  BY <1>1, <1>2, <1>3, <1>4, <1>5, <1>6, <1>7, <1>8, <1>9, <1>10, <1>11, <1>12
  DEF TaskStep, Environment

(* Every step leaves a sender alone, advances its counter or registers it. *)
LEMMA AnySenderStep ==
  ASSUME TypeInv, SenderInv, [Next]_vars, NEW s \in Users, NEW u \in Users
  PROVE  HandInv(s)' /\ SenderStep(s, u)
<1>1. ASSUME UNCHANGED <<task[s], input[s], output[s], todo[s], last_counter[s]>>
      PROVE  HandInv(s)' /\ SenderStep(s, u)
  BY <1>1 DEF SenderInv, HandInv, IdentityOK, SenderStep, Steady, Pending,
              Unstored
<1>2. ASSUME NEW t \in Users, TaskStep(t) \/ Environment(t)
      PROVE  HandInv(s)' /\ SenderStep(s, u)
  BY <1>1, <1>2, OwnSenderStep, OthersKept DEF SenderInv
<1>3. CASE Sweep \/ CtrlC \/ Returned \/ UNCHANGED vars
  BY <1>1, <1>3
  DEF Sweep, SweepScan, SweepRemove, SweepStop, CtrlC, Returned, vars,
      sessionVars, tables, taskVars, outside
<1> QED
  BY <1>2, <1>3 DEF Next

-----------------------------------------------------------------------------
(* Order on every connection                                               *)

Items(seq) == {seq[i] : i \in 1..Len(seq)}

(* The frames of u's stream.                                               *)
OnWay(u) ==
  Items(got[u]) \cup Items(outbox[u])
    \cup (IF Writing(u) THEN {output[u]} ELSE {})

(* A send adds its frame to those of a channel.                            *)
LEMMA ItemsAppend ==
  ASSUME NEW seq \in Seq(ServerFrame), NEW f \in ServerFrame
  PROVE  Items(Append(seq, f)) = Items(seq) \cup {f}
<1>1. /\ Len(Append(seq, f)) = Len(seq) + 1
      /\ \A i \in 1..Len(seq) : Append(seq, f)[i] = seq[i]
      /\ Append(seq, f)[Len(seq) + 1] = f
      /\ Len(seq) \in Nat
  BY AppendProperties, LenProperties
<1>2. 1..(Len(seq) + 1) = 1..Len(seq) \cup {Len(seq) + 1}
  BY <1>1
<1> QED
  BY <1>1, <1>2 DEF Items

(* A receive takes the head out of the frames of a channel.                *)
LEMMA ItemsTail ==
  ASSUME NEW seq \in Seq(ServerFrame), seq # <<>>
  PROVE  Items(seq) = Items(Tail(seq)) \cup {Head(seq)}
<1>1. /\ Len(Tail(seq)) = Len(seq) - 1
      /\ \A i \in 1..Len(Tail(seq)) : Tail(seq)[i] = seq[i + 1]
      /\ Head(seq) = seq[1]
      /\ Len(seq) \in Nat \ {0}
  BY HeadTailProperties, EmptySeq
<1>2. \A i \in 1..Len(Tail(seq)) : i + 1 \in 1..Len(seq)
  BY <1>1
<1>3. \A i \in 1..Len(seq) : i = 1 \/ (i - 1) \in 1..Len(Tail(seq))
  BY <1>1
<1>4. \A i \in 1..Len(seq) : i # 1 => Tail(seq)[i - 1] = seq[i]
  BY <1>1, <1>3
<1>5. 1 \in 1..Len(seq)
  BY <1>1
<1>6. ASSUME NEW f \in Items(seq) PROVE f \in Items(Tail(seq)) \cup {Head(seq)}
  <2>1. PICK i \in 1..Len(seq) : f = seq[i]
    BY DEF Items
  <2> QED
    BY <1>1, <1>3, <1>4, <2>1 DEF Items
<1>7. Head(seq) \in Items(seq) /\ Items(Tail(seq)) \subseteq Items(seq)
  BY <1>1, <1>2, <1>5 DEF Items
<1> QED
  BY <1>6, <1>7

(* Every message on the way to u was counted by its sender's session, and  *)
(* is older than the one the sender has in hand for u.                     *)
Counted(u, s) ==
  \A f \in OnWay(u) : f.kind = "Message" /\ f.msg.from = s =>
    /\ f.msg.ad.counter <= last_counter[s]
    /\ task[s] \notin Early
    /\ Pending(s, u) => f.msg.ad.counter < last_counter[s]

CountedInv == \A u, s \in Users : Counted(u, s)

PartsOrdered(u) ==
  /\ Ordered(got[u])
  /\ Ordered(outbox[u])
  /\ \A i \in 1..Len(got[u]), j \in 1..Len(outbox[u]) :
       Before(got[u][i], outbox[u][j])
  /\ Writing(u) =>
       /\ \A i \in 1..Len(got[u]) : Before(got[u][i], output[u])
       /\ \A j \in 1..Len(outbox[u]) : Before(output[u], outbox[u][j])

OrderInv == SenderInv /\ CountedInv /\ \A u \in Users : PartsOrdered(u)

(* Whatever is on the way to a client is a frame of the server.            *)
LEMMA StreamTypes ==
  ASSUME TypeInv, NEW u \in Users
  PROVE  /\ OnWay(u) \subseteq ServerFrame
         /\ got[u] \in Seq(ServerFrame) /\ outbox[u] \in Seq(ServerFrame)
         /\ \A f \in ServerFrame : f.kind = "Message" =>
              f.msg.from \in Users /\ f.msg.ad.counter \in Nat
<1>1. got[u] \in Seq(ServerFrame) /\ outbox[u] \in Seq(ServerFrame)
  BY DEF TypeInv, TypeOK
<1>2. Items(got[u]) \subseteq ServerFrame /\ Items(outbox[u]) \subseteq ServerFrame
  BY <1>1, ElementOfSeq DEF Items
<1>3. Writing(u) => output[u] \in ServerFrame
  BY DEF TypeInv, OutputHeld, Writing
<1>4. \A f \in ServerFrame : f.kind = "Message" =>
         f.msg.from \in Users /\ f.msg.ad.counter \in Nat
  BY DEF ServerFrame, RoomMessage, MessageAd
<1> QED
  BY <1>1, <1>2, <1>3, <1>4 DEF OnWay

(* The frames a step can add to a stream.                                  *)
LEMMA OnWayStep ==
  ASSUME TypeInv, NEW u \in Users, WireStep(u)
  PROVE  \/ OnWay(u)' \subseteq OnWay(u)
         \/ \E s \in Users : /\ TrySend(s, u)
                            /\ OnWay(u)' \subseteq OnWay(u) \cup {output[s]}
         \/ /\ OnWay(u)' \subseteq OnWay(u) \cup {Welcome(u)}
            /\ UNCHANGED history
<1> USE StreamTypes
<1>1. CASE Untouched(u)
  BY <1>1 DEF Untouched, OnWay, Items
<1>2. CASE Written(u)
  <2>1. output[u] \in ServerFrame
    BY <1>2 DEF Written, Writing, TypeInv, OutputHeld
  <2>2. Items(got[u])' = Items(got[u]) \cup {output[u]}
    BY <1>2, <2>1, ItemsAppend DEF Written, Items
  <2> QED
    BY <1>2, <2>2 DEF Written, OnWay, Items
<1>3. CASE Dropped(u)
  <2>1. Items(outbox[u])' \subseteq Items(outbox[u])
    BY <1>3 DEF Dropped, Items
  <2> QED
    BY <1>3, <2>1 DEF Dropped, OnWay, Items
<1>4. CASE Taken(u)
  <2>1. Items(outbox[u]) = Items(Tail(outbox[u])) \cup {Head(outbox[u])}
    BY <1>4, ItemsTail DEF Taken
  <2>2. Items(outbox[u])' = Items(Tail(outbox[u])) /\ Items(got[u])' = Items(got[u])
    BY <1>4 DEF Taken, Items
  <2> QED
    BY <1>4, <2>1, <2>2 DEF Taken, OnWay
<1>5. CASE Received(u)
  <2>1. PICK s \in Users :
          /\ TrySend(s, u)
          /\ Writing(u)' <=> Writing(u)
          /\ got'[u] = got[u] /\ output'[u] = output[u]
          /\ outbox'[u] = Append(outbox[u], output[s])
    BY <1>5 DEF Received
  <2>2. output[s] \in ServerFrame
    BY <2>1 DEF TrySend, TypeInv, OutputHeld
  <2>3. Items(outbox[u])' = Items(outbox[u]) \cup {output[s]}
    BY <2>1, <2>2, ItemsAppend DEF Items
  <2>4. Items(got[u])' = Items(got[u])
    BY <2>1 DEF Items
  <2> QED
    BY <2>1, <2>3, <2>4 DEF OnWay
<1>6. CASE Replayed(u)
  <2>1. Items(outbox[u])' = Items(outbox[u]) /\ Items(got[u])' = Items(got[u])
    BY <1>6 DEF Replayed, Items
  <2> QED
    BY <1>6, <2>1 DEF Replayed, OnWay
<1> QED
  BY <1>1, <1>2, <1>3, <1>4, <1>5, <1>6 DEF WireStep

(* Sending to u takes u off the list: nothing is in hand for u any more.   *)
LEMMA SentIsNotPending ==
  ASSUME TypeInv, NEW s \in Users, NEW u \in Users, TrySend(s, u)
  PROVE  /\ ~Pending(s, u)'
         /\ UNCHANGED <<last_counter, task>>
         /\ output[s].kind = "Message" => Pending(s, u)
         /\ task[s] = "sending"
  BY DEF TypeInv, TypeOK, TrySend, Pending, tables, sessionVars

(* A message on the way has a counter its sender has already used up, and  *)
(* one the broadcast still owes this client has the last of them.          *)
LEMMA CountedStep ==
  ASSUME TypeInv, SenderInv, CountedInv, [Next]_vars, NEW u \in Users,
         NEW s \in Users
  PROVE  Counted(u, s)'
<1>1. WireStep(u) /\ SenderStep(s, u)
  BY AnyWireStep, AnySenderStep
<1>2. Counted(u, s)
  BY DEF CountedInv
<1>3. last_counter[s] \in Nat /\ OnWay(u) \subseteq ServerFrame
  BY StreamTypes DEF TypeInv, TypeOK
<1>4. ASSUME NEW f \in OnWay(u), f.kind = "Message", f.msg.from = s
      PROVE  /\ f.msg.ad.counter <= last_counter'[s]
             /\ task'[s] \notin Early
             /\ Pending(s, u)' => f.msg.ad.counter < last_counter'[s]
  <2>1. f.msg.ad.counter \in Nat
    BY <1>3, <1>4, StreamTypes
  <2>2. CASE Steady(s, u)
    BY <1>2, <1>4, <2>2 DEF Counted, Steady
  <2>3. CASE Advanced(s)
    BY <1>2, <1>3, <1>4, <2>1, <2>3 DEF Counted, Advanced
  <2>4. CASE Registered(s)
    BY <1>2, <1>4, <2>4 DEF Counted, Registered, Early
  <2> QED
    BY <1>1, <2>2, <2>3, <2>4 DEF SenderStep
<1>5. CASE OnWay(u)' \subseteq OnWay(u) \cup {Welcome(u)}
  BY <1>4, <1>5 DEF Counted, Welcome
<1>6. ASSUME NEW t \in Users, TrySend(t, u),
             OnWay(u)' \subseteq OnWay(u) \cup {output[t]}
      PROVE  Counted(u, s)'
  <2>1. output[t].kind = "Message" =>
          /\ output[t].msg.from = t
          /\ output[t].msg.ad.counter = last_counter[t]
    BY <1>6, SentIsNotPending DEF SenderInv, HandInv
  <2>2. /\ ~Pending(t, u)' /\ last_counter' = last_counter
        /\ task'[t] \notin Early
    BY <1>6, SentIsNotPending DEF Early
  <2>3. last_counter[t] \in Nat
    BY DEF TypeInv, TypeOK
  <2>4. output[t].kind = "Message" /\ output[t].msg.from = s =>
          /\ output[t].msg.ad.counter <= last_counter'[s]
          /\ task'[s] \notin Early
          /\ Pending(s, u)' => output[t].msg.ad.counter < last_counter'[s]
    BY <2>1, <2>2, <2>3
  <2> QED
    BY <1>4, <1>6, <2>4 DEF Counted
<1> QED
  BY <1>1, <1>5, <1>6, OnWayStep

(* However a client's stream grows, each of its parts stays in the         *)
(* senders' order.                                                         *)
LEMMA PartsStep ==
  ASSUME TypeInv, OrderInv, NEW u \in Users, WireStep(u)
  PROVE  PartsOrdered(u)'
<1> USE StreamTypes
<1>1. PartsOrdered(u)
  BY DEF OrderInv
<1>2. CASE Untouched(u)
  BY <1>1, <1>2 DEF Untouched, PartsOrdered, Ordered
<1>3. CASE Written(u)
  <2>1. output[u] \in ServerFrame
    BY <1>3 DEF Written, Writing, TypeInv, OutputHeld
  <2>2. /\ Ordered(got[u])
        /\ \A i \in 1..Len(got[u]) : Before(got[u][i], output[u])
        /\ \A j \in 1..Len(outbox[u]) : Before(output[u], outbox[u][j])
    BY <1>1, <1>3 DEF Written, PartsOrdered
  <2>3. Ordered(got'[u])
    BY <1>3, <2>1, <2>2, OrderedAppend DEF Written
  <2>4. /\ Len(got'[u]) = Len(got[u]) + 1
        /\ \A i \in 1..Len(got[u]) : got'[u][i] = got[u][i]
        /\ got'[u][Len(got[u]) + 1] = output[u]
        /\ Len(got[u]) \in Nat
    BY <1>3, <2>1, AppendProperties, LenProperties DEF Written
  <2>5. ASSUME NEW i \in 1..Len(got'[u]), NEW j \in 1..Len(outbox[u])
        PROVE  Before(got'[u][i], outbox[u][j])
    <3>1. CASE i \in 1..Len(got[u])
      BY <1>1, <2>4, <3>1 DEF PartsOrdered
    <3>2. CASE i = Len(got[u]) + 1
      BY <2>2, <2>4, <3>2
    <3> QED
      BY <2>4, <3>1, <3>2
  <2> QED
    BY <1>1, <1>3, <2>3, <2>5 DEF Written, PartsOrdered, Ordered
<1>4. CASE Dropped(u)
  <2>1. CASE outbox'[u] = outbox[u]
    BY <1>1, <1>4, <2>1 DEF Dropped, PartsOrdered, Ordered
  <2>2. CASE outbox'[u] = <<>>
    BY <1>1, <1>4, <2>2 DEF Dropped, PartsOrdered, Ordered
  <2> QED
    BY <1>4, <2>1, <2>2 DEF Dropped
<1>5. CASE Taken(u)
  <2>1. /\ Ordered(Tail(outbox[u]))
        /\ \A i \in 1..Len(Tail(outbox[u])) :
             Before(Head(outbox[u]), Tail(outbox[u])[i])
    BY <1>1, <1>5, OrderedTail DEF Taken, PartsOrdered
  <2>2. /\ Len(Tail(outbox[u])) = Len(outbox[u]) - 1
        /\ \A i \in 1..Len(Tail(outbox[u])) : Tail(outbox[u])[i] = outbox[u][i + 1]
        /\ Head(outbox[u]) = outbox[u][1]
        /\ Len(outbox[u]) \in Nat \ {0}
    BY <1>5, HeadTailProperties, EmptySeq DEF Taken
  <2>3. /\ 1 \in 1..Len(outbox[u])
        /\ \A i \in 1..Len(Tail(outbox[u])) : i + 1 \in 1..Len(outbox[u])
    BY <2>2
  <2>4. \A i \in 1..Len(got[u]), j \in 1..Len(Tail(outbox[u])) :
          Before(got[u][i], Tail(outbox[u])[j])
    BY <1>1, <2>2, <2>3 DEF PartsOrdered
  <2>5. \A i \in 1..Len(got[u]) : Before(got[u][i], Head(outbox[u]))
    BY <1>1, <2>2, <2>3 DEF PartsOrdered
  <2> QED
    BY <1>1, <1>5, <2>1, <2>4, <2>5 DEF Taken, PartsOrdered, Ordered
<1>6. CASE Received(u)
  <2>1. PICK s \in Users :
          /\ TrySend(s, u)
          /\ Writing(u)' <=> Writing(u)
          /\ got'[u] = got[u] /\ output'[u] = output[u]
          /\ outbox'[u] = Append(outbox[u], output[s])
    BY <1>6 DEF Received
  <2>2. output[s] \in ServerFrame
    BY <2>1 DEF TrySend, TypeInv, OutputHeld
  <2>3. output[s].kind = "Message" =>
          /\ output[s].msg.from = s
          /\ output[s].msg.ad.counter = last_counter[s]
          /\ Pending(s, u)
    BY <2>1, SentIsNotPending DEF OrderInv, SenderInv, HandInv
  <2>4. \A f \in OnWay(u) : Before(f, output[s])
    BY <2>3 DEF OrderInv, CountedInv, Counted, Before
  <2>5. /\ \A i \in 1..Len(got[u]) : Before(got[u][i], output[s])
        /\ \A i \in 1..Len(outbox[u]) : Before(outbox[u][i], output[s])
        /\ Writing(u) => Before(output[u], output[s])
    BY <2>4 DEF OnWay, Items
  <2>6. /\ Len(outbox'[u]) = Len(outbox[u]) + 1
        /\ \A i \in 1..Len(outbox[u]) : outbox'[u][i] = outbox[u][i]
        /\ outbox'[u][Len(outbox[u]) + 1] = output[s]
        /\ Len(outbox[u]) \in Nat
    BY <2>1, <2>2, AppendProperties, LenProperties
  <2>7. \A j \in 1..Len(outbox'[u]) :
          \/ j \in 1..Len(outbox[u]) /\ outbox'[u][j] = outbox[u][j]
          \/ outbox'[u][j] = output[s]
    BY <2>6
  <2>8. Ordered(outbox'[u])
    BY <1>1, <2>1, <2>2, <2>5, OrderedAppend DEF PartsOrdered
  <2>9. \A i \in 1..Len(got[u]), j \in 1..Len(outbox'[u]) :
          Before(got[u][i], outbox'[u][j])
    BY <1>1, <2>5, <2>7 DEF PartsOrdered
  <2>10. Writing(u) => \A j \in 1..Len(outbox'[u]) : Before(output[u], outbox'[u][j])
    BY <1>1, <2>5, <2>7 DEF PartsOrdered
  <2> QED
    BY <1>1, <2>1, <2>8, <2>9, <2>10 DEF PartsOrdered, Ordered
<1>7. CASE Replayed(u)
  <2>1. \A f : Before(f, output'[u]) /\ Before(output'[u], f)
    BY <1>7 DEF Replayed, Before, Welcome
  <2> QED
    BY <1>1, <1>7, <2>1 DEF Replayed, PartsOrdered, Ordered
<1> QED
  BY <1>2, <1>3, <1>4, <1>5, <1>6, <1>7 DEF WireStep

(* The order invariant holds throughout.                                   *)
LEMMA OrderInvariant == Spec => []OrderInv
<1>1. Init => OrderInv
  BY DEF Init, OrderInv, SenderInv, HandInv, CountedInv, Counted, OnWay, Items,
         Writing, PartsOrdered, Ordered
<1>2. TypeInv /\ OrderInv /\ [Next]_vars => OrderInv'
  <2> SUFFICES ASSUME TypeInv, OrderInv, [Next]_vars PROVE OrderInv'
    OBVIOUS
  <2>1. SenderInv'
    BY AnySenderStep DEF OrderInv, SenderInv
  <2>2. CountedInv'
    BY CountedStep DEF OrderInv, CountedInv
  <2>3. \A u \in Users : PartsOrdered(u)'
    BY AnyWireStep, PartsStep
  <2> QED
    BY <2>1, <2>2, <2>3 DEF OrderInv
<1> QED
  BY <1>1, <1>2, TypeInvariant, PTL DEF Spec

(* The part of a stream between socket and channel.                        *)
InHand(u) == IF Writing(u) THEN <<output[u]>> ELSE <<>>

(* A stream is what was written, the frame in hand and the channel.        *)
LEMMA StreamParts ==
  ASSUME TypeInv, NEW u \in Users
  PROVE  /\ Stream(u) = (got[u] \o InHand(u)) \o outbox[u]
         /\ InHand(u) \in Seq(ServerFrame)
         /\ got[u] \o InHand(u) \in Seq(ServerFrame)
         /\ \A j \in 1..Len(InHand(u)) :
              Writing(u) /\ j = 1 /\ InHand(u)[j] = output[u]
         /\ Writing(u) => Len(InHand(u)) = 1 /\ InHand(u)[1] = output[u]
<1>1. InHand(u) \in Seq(ServerFrame)
  BY DEF InHand, Writing, TypeInv, OutputHeld
<1>2. got[u] \in Seq(ServerFrame)
  BY StreamTypes
<1>3. got[u] \o InHand(u) \in Seq(ServerFrame)
  BY <1>1, <1>2, ConcatProperties
<1>4. Stream(u) = (got[u] \o InHand(u)) \o outbox[u]
  BY DEF Stream, InHand, Writing
<1>5. CASE Writing(u)
  <2>1. Len(InHand(u)) = 1 /\ InHand(u)[1] = output[u]
    BY <1>5 DEF InHand
  <2> QED
    BY <1>1, <1>3, <1>4, <1>5, <2>1
<1>6. CASE ~Writing(u)
  <2>1. Len(InHand(u)) = 0
    BY <1>6 DEF InHand
  <2> QED
    BY <1>1, <1>3, <1>4, <1>6, <2>1
<1> QED
  BY <1>5, <1>6

(* For any number of clients, whatever they send and however the tasks     *)
(* overlap, every connection gets the messages of one sender in the order  *)
(* of their counters and none twice.                                       *)
THEOREM SenderOrdered == Spec => []SenderOrder
<1>1. TypeInv /\ OrderInv => SenderOrder
  <2> SUFFICES ASSUME TypeInv, OrderInv, NEW u \in Users
               PROVE  Ordered(Stream(u))
    BY DEF SenderOrder, Ordered, Before
  <2> USE StreamTypes, StreamParts
  <2>1. PartsOrdered(u)
    BY DEF OrderInv
  <2>2. Ordered(InHand(u))
    <3> SUFFICES ASSUME NEW i \in 1..Len(InHand(u)), NEW j \in 1..Len(InHand(u))
                 PROVE  ~(i < j)
      BY DEF Ordered
    <3>1. i = 1 /\ j = 1
      OBVIOUS
    <3> QED
      BY <3>1
  <2>3. \A i \in 1..Len(got[u]), j \in 1..Len(InHand(u)) :
          Before(got[u][i], InHand(u)[j])
    BY <2>1 DEF PartsOrdered
  <2>4. Ordered(got[u] \o InHand(u))
    BY <2>1, <2>2, <2>3, OrderedConcat DEF PartsOrdered
  <2>5. \A i \in 1..Len(got[u] \o InHand(u)), j \in 1..Len(outbox[u]) :
          Before((got[u] \o InHand(u))[i], outbox[u][j])
    <3>1. /\ Len(got[u] \o InHand(u)) = Len(got[u]) + Len(InHand(u))
          /\ \A i \in 1..Len(got[u]) + Len(InHand(u)) :
               (got[u] \o InHand(u))[i] =
                 IF i <= Len(got[u]) THEN got[u][i] ELSE InHand(u)[i - Len(got[u])]
          /\ Len(got[u]) \in Nat /\ Len(InHand(u)) \in Nat
      BY ConcatProperties, LenProperties
    <3> SUFFICES ASSUME NEW i \in 1..Len(got[u]) + Len(InHand(u)),
                        NEW j \in 1..Len(outbox[u])
                 PROVE  Before((got[u] \o InHand(u))[i], outbox[u][j])
      BY <3>1
    <3>2. CASE i <= Len(got[u])
      <4>1. i \in 1..Len(got[u])
        BY <3>1, <3>2
      <4> QED
        BY <2>1, <3>1, <3>2, <4>1 DEF PartsOrdered
    <3>3. CASE ~(i <= Len(got[u]))
      <4>1. i - Len(got[u]) \in 1..Len(InHand(u))
        BY <3>1, <3>3
      <4>2. Writing(u) /\ i - Len(got[u]) = 1
        BY <3>1, <4>1
      <4> QED
        BY <2>1, <3>1, <3>3, <4>2 DEF PartsOrdered
    <3> QED
      BY <3>2, <3>3
  <2>6. Ordered((got[u] \o InHand(u)) \o outbox[u])
    <3>1. Ordered(outbox[u])
      BY <2>1 DEF PartsOrdered
    <3> QED
      BY <2>4, <2>5, <3>1, OrderedConcat
  <2> QED
    BY <2>6
<1> QED
  BY <1>1, TypeInvariant, OrderInvariant, PTL

-----------------------------------------------------------------------------
(* The join replay                                                         *)

(* The message m may follow those of h in the ring.                        *)
MayFollow(h, m) ==
  /\ ~m.ad.ephemeral
  /\ m.from = m.ad.from
  /\ m.username = UsernameOf[m.from]
  /\ m.ad.username = m.username
  /\ \A i \in 1..Len(h) : h[i].from = m.from => h[i].ad.counter < m.ad.counter

(* A ring that is pushed to keeps its newest entries in their order.       *)
LEMMA PushEffect ==
  ASSUME NEW h \in Seq(RoomMessage), NEW m \in RoomMessage,
         Len(h) <= HISTORY_LEN
  PROVE  /\ Len(push(h, m)) \in 1..HISTORY_LEN
         /\ push(h, m)[Len(push(h, m))] = m
         /\ \E d \in {0, 1} :
              /\ Len(h) + 1 = Len(push(h, m)) + d
              /\ \A i \in 1..(Len(push(h, m)) - 1) :
                   i + d \in 1..Len(h) /\ push(h, m)[i] = h[i + d]
<1> USE RoomAssumption DEF RoomAssumption
<1>1. CASE Len(h) = HISTORY_LEN
  <2>1. h # <<>> /\ Len(h) \in Nat
    BY <1>1, LenProperties
  <2>2. /\ Tail(h) \in Seq(RoomMessage)
        /\ Len(Tail(h)) = Len(h) - 1
        /\ \A i \in 1..Len(Tail(h)) : Tail(h)[i] = h[i + 1]
    BY <2>1, HeadTailProperties
  <2>3. push(h, m) = Append(Tail(h), m)
    BY <1>1 DEF push
  <2>4. /\ Len(push(h, m)) = Len(h)
        /\ \A i \in 1..(Len(h) - 1) : push(h, m)[i] = Tail(h)[i]
        /\ push(h, m)[Len(h)] = m
    BY <1>1, <2>1, <2>2, <2>3, AppendProperties
  <2>5. \A i \in 1..(Len(h) - 1) : i + 1 \in 1..Len(h) /\ push(h, m)[i] = h[i + 1]
    BY <2>1, <2>2, <2>4
  <2> QED
    BY <1>1, <2>1, <2>4, <2>5
<1>2. CASE Len(h) # HISTORY_LEN
  <2>1. push(h, m) = Append(h, m) /\ Len(h) \in Nat
    BY <1>2, LenProperties DEF push
  <2>2. /\ Len(push(h, m)) = Len(h) + 1
        /\ \A i \in 1..Len(h) : push(h, m)[i] = h[i]
        /\ push(h, m)[Len(h) + 1] = m
    BY <2>1, AppendProperties
  <2> QED
    BY <1>2, <2>1, <2>2
<1> QED
  BY <1>1, <1>2

(* Pushing a message that may follow keeps the ring replayable.            *)
LEMMA PushReplayable ==
  ASSUME NEW h \in Seq(RoomMessage), NEW m \in RoomMessage,
         Replayable(h), MayFollow(h, m)
  PROVE  Replayable(push(h, m))
<1> DEFINE p == push(h, m)
<1>1. Len(h) <= HISTORY_LEN /\ Len(h) \in Nat
  BY LenProperties DEF Replayable
<1>2. /\ Len(p) \in 1..HISTORY_LEN
      /\ p[Len(p)] = m
      /\ \E d \in {0, 1} :
           /\ Len(h) + 1 = Len(p) + d
           /\ \A i \in 1..(Len(p) - 1) : i + d \in 1..Len(h) /\ p[i] = h[i + d]
  BY <1>1, PushEffect
<1>3. PICK d \in {0, 1} :
        /\ Len(h) + 1 = Len(p) + d
        /\ \A i \in 1..(Len(p) - 1) : i + d \in 1..Len(h) /\ p[i] = h[i + d]
  BY <1>2
<1> HIDE DEF p
<1>4. ASSUME NEW i \in 1..Len(p)
      PROVE  /\ ~p[i].ad.ephemeral
             /\ p[i].from = p[i].ad.from
             /\ p[i].username = UsernameOf[p[i].from]
             /\ p[i].ad.username = p[i].username
             /\ \A j \in 1..(i - 1) :
                  p[j].from = p[i].from => p[j].ad.counter < p[i].ad.counter
  <2>1. \A j \in 1..(i - 1) : j \in 1..(Len(p) - 1)
    BY <1>2, <1>4
  <2>2. CASE i = Len(p)
    BY <1>2, <1>3, <2>1, <2>2 DEF MayFollow
  <2>3. CASE i # Len(p)
    <3>1. i \in 1..(Len(p) - 1)
      BY <1>2, <2>3
    <3>2. i + d \in 1..Len(h) /\ p[i] = h[i + d]
      BY <1>3, <3>1
    <3>3. ASSUME NEW j \in 1..(i - 1)
          PROVE  j + d \in 1..((i + d) - 1) /\ p[j] = h[j + d]
      <4>1. i \in Nat /\ d \in Nat /\ Len(p) \in Nat
        BY <1>2
      <4>2. j + d \in 1..((i + d) - 1)
        BY <4>1
      <4> QED
        BY <1>3, <2>1, <4>2
    <3> QED
      BY <3>2, <3>3 DEF Replayable
  <2> QED
    BY <2>2, <2>3
<1>5. Len(p) <= HISTORY_LEN
  BY <1>2, RoomAssumption DEF RoomAssumption
<1> QED
  BY <1>4, <1>5 DEF p, Replayable

(* A message of the history was counted by its sender's session, and is    *)
(* older than one its sender has accepted and not stored yet.              *)
StoredCounted(m) ==
  /\ m.ad.counter <= last_counter[m.from]
  /\ task[m.from] \notin Early
  /\ Unstored(m.from) => m.ad.counter < last_counter[m.from]

(* A Welcome has a faithful replay, a live message its sender's id and a   *)
(* counter that a client which has seen none of that sender accepts.       *)
FaithfulFrame(f) ==
  /\ f.kind = "Welcome" => Replayable(f.history)
  /\ f.kind = "Message" =>
       f.msg.from = f.msg.ad.from /\ f.msg.ad.counter # 0

HistoryInv ==
  /\ Replayable(history)
  /\ \A m \in Items(history) : StoredCounted(m)
  /\ \A u \in Users : \A f \in OnWay(u) : FaithfulFrame(f)

TheMessage(t) ==
  [from |-> t, username |-> UsernameOf[t], ad |-> input[t].ad]

(* What a step may do to the ring: nothing, wipe it, or push the message   *)
(* that a task has in hand.                                                *)
LEMMA HistoryStep ==
  ASSUME TypeInv, [Next]_vars
  PROVE  \/ UNCHANGED history
         \/ history' = <<>>
         \/ \E t \in Users :
              /\ Unstored(t) /\ ~Unstored(t)' /\ ~input[t].ad.ephemeral
              /\ history' = push(history, TheMessage(t))
              /\ output'[t] = [kind |-> "Message", msg |-> TheMessage(t)]
              /\ task'[t] = "announcing"
              /\ UNCHANGED last_counter
<1> USE DEF sessionVars, tables, taskVars, sweepVars, netVars, outside
<1>1. ASSUME NEW t \in Users, StoreMessage(t)
      PROVE  \/ UNCHANGED history
             \/ /\ Unstored(t) /\ ~Unstored(t)' /\ ~input[t].ad.ephemeral
                /\ history' = push(history, TheMessage(t))
                /\ output'[t] = [kind |-> "Message", msg |-> TheMessage(t)]
                /\ task'[t] = "announcing"
                /\ UNCHANGED last_counter
  <2>1. task'[t] = "announcing" /\ ~Unstored(t)'
    BY <1>1 DEF TypeInv, TypeOK, StoreMessage, Goto, Unstored
  <2>2. output'[t] = [kind |-> "Message", msg |-> TheMessage(t)]
    BY <1>1 DEF TypeInv, TypeOK, StoreMessage, TheMessage
  <2> QED
    BY <1>1, <2>1, <2>2 DEF StoreMessage, Goto, Unstored, TheMessage
<1>2. ASSUME NEW t \in Users, StoreClear(t) PROVE history' = <<>>
  BY <1>2 DEF StoreClear
<1>3. ASSUME NEW t \in Users, TaskStep(t) \/ Environment(t),
             ~StoreMessage(t), ~StoreClear(t)
      PROVE  UNCHANGED history
  BY <1>3
  DEF TaskStep, Environment, JustGoto, Accept, HandshakeFails, Register,
      SnapshotHistory, SendWelcome, WelcomeFails, PumpShutdown, PumpTake,
      PumpWrite, PumpWriteFails, PumpClosed, PumpReadFails, PumpRead,
      CleanupSession, CleanupConn,
      RejectFrame, RejectOverQuota, AcceptMessage, AcceptClear, SnapshotConns,
      TrySend, EvictDead, Stall, Hangup, PeerTurns, GoIdle
<1>4. ASSUME Sweep \/ CtrlC \/ Returned \/ UNCHANGED vars
      PROVE  UNCHANGED history
  BY <1>4 DEF Sweep, SweepScan, SweepRemove, SweepStop, CtrlC, Returned, vars
<1> QED
  BY <1>1, <1>2, <1>3, <1>4 DEF Next

(* A message that stays in the ring stays counted.                         *)
LEMMA StoredStep ==
  ASSUME TypeInv, SenderInv, [Next]_vars, NEW m \in RoomMessage,
         StoredCounted(m)
  PROVE  StoredCounted(m)'
<1>1. m.from \in Users /\ m.ad.counter \in Nat
  BY DEF RoomMessage, MessageAd
<1>2. SenderStep(m.from, m.from) /\ last_counter[m.from] \in Nat
  BY <1>1, AnySenderStep DEF TypeInv, TypeOK
<1>3. CASE Steady(m.from, m.from)
  BY <1>3 DEF Steady, StoredCounted
<1>4. CASE Advanced(m.from)
  BY <1>1, <1>2, <1>4 DEF Advanced, StoredCounted
<1>5. CASE Registered(m.from)
  BY <1>5 DEF Registered, StoredCounted, Early
<1> QED
  BY <1>2, <1>3, <1>4, <1>5 DEF SenderStep

(* The ring after a step.                                                  *)
LEMMA RingStep ==
  ASSUME TypeInv, SenderInv, HistoryInv, [Next]_vars
  PROVE  /\ Replayable(history')
         /\ \A m \in Items(history') : StoredCounted(m)'
<1>1. history \in Seq(RoomMessage) /\ Len(history) \in Nat
  BY LenProperties DEF TypeInv, TypeOK
<1>2. Items(history) \subseteq RoomMessage
  BY <1>1, ElementOfSeq DEF Items
<1>3. \A m \in Items(history) : StoredCounted(m) /\ StoredCounted(m)'
  BY <1>2, StoredStep DEF HistoryInv
<1>4. CASE UNCHANGED history
  BY <1>3, <1>4 DEF HistoryInv
<1>5. CASE history' = <<>>
  BY <1>5, RoomAssumption DEF Replayable, RoomAssumption, Items
<1>6. ASSUME NEW t \in Users, Unstored(t), ~Unstored(t)',
             ~input[t].ad.ephemeral,
             history' = push(history, TheMessage(t)), UNCHANGED last_counter
      PROVE  /\ Replayable(history')
             /\ \A m \in Items(history') : StoredCounted(m)'
  <2> DEFINE new == TheMessage(t)
  <2>1. new \in RoomMessage
    BY <1>6, MessageType DEF TypeInv, Unstored, TheMessage
  <2>2. IdentityOK(t, input[t]) /\ input[t].ad.counter = last_counter[t]
    BY <1>6 DEF SenderInv, HandInv, Unstored
  <2>3. new.from = t /\ new.username = UsernameOf[t] /\ new.ad = input[t].ad
    BY DEF TheMessage
  <2>4. \A m \in Items(history) : m.from = t => m.ad.counter < new.ad.counter
    BY <1>3, <1>6, <2>2, <2>3 DEF StoredCounted
  <2> HIDE DEF new
  <2>5. MayFollow(history, new)
    BY <1>6, <2>2, <2>3, <2>4 DEF MayFollow, IdentityOK, Items
  <2>6. Replayable(history) /\ Len(history) <= HISTORY_LEN
    BY DEF HistoryInv, Replayable
  <2>7. Replayable(push(history, new))
    BY <1>1, <2>1, <2>5, <2>6, PushReplayable
  <2>8. task'[t] \notin Early
    <3>1. SenderStep(t, t) /\ task[t] = "publishing"
      BY <1>6, AnySenderStep DEF Unstored
    <3> QED
      BY <3>1 DEF SenderStep, Steady, Advanced, Registered, Early
  <2>9. \A m \in RoomMessage : m = new => StoredCounted(m)'
    <3>1. input[t].ad.counter \in Nat
      BY <1>6, CounterType DEF TypeInv, Unstored
    <3> QED
      BY <1>6, <2>2, <2>3, <2>8, <3>1 DEF StoredCounted
  <2>10. Items(history') \subseteq Items(history) \cup {new}
    <3>1. /\ Len(history') \in Nat
          /\ history'[Len(history')] = new
          /\ \E d \in {0, 1} :
               \A i \in 1..(Len(history') - 1) :
                 i + d \in 1..Len(history) /\ history'[i] = history[i + d]
      BY <1>1, <1>6, <2>1, <2>6, PushEffect DEF new
    <3>2. \A i \in 1..Len(history') :
            i \in 1..(Len(history') - 1) \/ i = Len(history')
      BY <3>1
    <3> QED
      BY <3>1, <3>2 DEF Items
  <2> QED
    BY <1>3, <1>6, <2>1, <2>7, <2>9, <2>10 DEF new
<1> QED
  BY <1>4, <1>5, <1>6, HistoryStep

(* The invariant of the message store holds throughout.                    *)
LEMMA HistoryInvariant == Spec => []HistoryInv
<1>1. Init => HistoryInv
  BY RoomAssumption
  DEF Init, HistoryInv, Replayable, OnWay, Items, Writing, RoomAssumption
<1>2. TypeInv /\ OrderInv /\ HistoryInv /\ [Next]_vars => HistoryInv'
  <2> SUFFICES ASSUME TypeInv, OrderInv, HistoryInv, [Next]_vars
               PROVE  HistoryInv'
    OBVIOUS
  <2>1. Replayable(history') /\ \A m \in Items(history') : StoredCounted(m)'
    BY RingStep DEF OrderInv
  <2>2. ASSUME NEW u \in Users, NEW f \in OnWay(u)'
        PROVE  FaithfulFrame(f)
    <3>1. \A g \in OnWay(u) : FaithfulFrame(g)
      BY DEF HistoryInv
    <3>2. FaithfulFrame(Welcome(u))
      BY DEF FaithfulFrame, Welcome, HistoryInv
    <3>3. \A s \in Users : TrySend(s, u) => FaithfulFrame(output[s])
      BY DEF OrderInv, SenderInv, HandInv, TrySend, FaithfulFrame
    <3> QED
      BY <2>2, <3>1, <3>2, <3>3, AnyWireStep, OnWayStep
  <2> QED
    BY <2>1, <2>2 DEF HistoryInv, Replayable, FaithfulFrame
<1> QED
  BY <1>1, <1>2, TypeInvariant, OrderInvariant, PTL DEF Spec

(* The frames at the indices of a stream are those of its parts.           *)
LEMMA StreamItems ==
  ASSUME TypeInv, NEW u \in Users
  PROVE  Items(Stream(u)) = OnWay(u)
<1>1. \A s \in Seq(ServerFrame) : Items(s) = Range(s)
  BY RangeEquality DEF Items
<1>2. ASSUME NEW s \in Seq(ServerFrame), NEW t \in Seq(ServerFrame)
      PROVE  Items(s \o t) = Items(s) \cup Items(t)
  <2>1. s \o t \in Seq(ServerFrame)
    BY <1>2, ConcatProperties
  <2>2. Range(s \o t) = Range(s) \cup Range(t)
    BY <1>2, RangeConcatenation
  <2> QED
    BY <1>1, <1>2, <2>1, <2>2, Zenon
<1>3. Items(InHand(u)) = IF Writing(u) THEN {output[u]} ELSE {}
  <2>1. CASE Writing(u)
    <3>1. Len(InHand(u)) = 1 /\ InHand(u)[1] = output[u]
      BY <2>1, StreamParts
    <3> QED
      BY <2>1, <3>1 DEF Items
  <2>2. CASE ~Writing(u)
    BY <2>2, StreamParts DEF Items
  <2> QED
    BY <2>1, <2>2
<1>4. Items(got[u] \o InHand(u)) = Items(got[u]) \cup Items(InHand(u))
  BY <1>2, StreamTypes, StreamParts
<1>5. Items(Stream(u)) = Items(got[u] \o InHand(u)) \cup Items(outbox[u])
  BY <1>2, StreamTypes, StreamParts
<1> QED
  BY <1>3, <1>4, <1>5 DEF OnWay

(* The ring, and every Welcome that was sent or is being sent, holds at    *)
(* most HISTORY_LEN messages, none ephemeral, each under the id and name   *)
(* of its sender and in the order of the sender's counters.                *)
THEOREM HistoryIsFaithful == Spec => []HistoryFaithful
<1>1. TypeInv /\ HistoryInv => HistoryFaithful
  <2> SUFFICES ASSUME TypeInv, HistoryInv PROVE HistoryFaithful
    OBVIOUS
  <2>1. ASSUME NEW u \in Users, NEW i \in 1..Len(Stream(u))
        PROVE  FaithfulFrame(Stream(u)[i])
    <3>1. Stream(u)[i] \in Items(Stream(u))
      BY DEF Items
    <3> QED
      BY <3>1, StreamItems DEF HistoryInv
  <2> QED
    BY <2>1 DEF HistoryInv, HistoryFaithful, FaithfulFrame
<1> QED
  BY <1>1, TypeInvariant, HistoryInvariant, PTL

-----------------------------------------------------------------------------
(* No gap between replay and live stream                                   *)

Reached(u, m) == \E f \in OnWay(u) : CarriesMessage(f, m)

JoinInv ==
  \A u \in Users : Joined(u) =>
    \A m \in Items(history) : Reached(u, m) \/ StillToSend(u, m)

(* Nobody is joined again: a joined connection was, or takes its snapshot. *)
LEMMA JoinedStep ==
  ASSUME TypeInv, [Next]_vars, NEW u \in Users, Joined(u)'
  PROVE  /\ Joined(u) \/ task[u] = "joining"
         /\ peer[u] # "closed"
<1> USE DEF TypeInv, TypeOK, Joined, Goto, JustGoto, sessionVars, tables,
            taskVars, sweepVars, netVars, outside
<1>1. peer[u] # "closed"
  <2>1. ASSUME NEW t \in Users, TaskStep(t) \/ Environment(t)
        PROVE  UNCHANGED peer \/ Stall(t) \/ Hangup(t)
    BY <2>1
    DEF TaskStep, Environment, Accept, HandshakeFails, Register,
        SnapshotHistory, SendWelcome, WelcomeFails, PumpShutdown, PumpTake,
        PumpWrite, PumpWriteFails, PumpClosed, PumpReadFails, PumpRead,

        CleanupSession, CleanupConn, RejectFrame, RejectOverQuota,
        AcceptMessage, AcceptClear,
        StoreMessage, StoreClear, SnapshotConns, TrySend, EvictDead, GoIdle
  <2>2. ASSUME NEW t \in Users, Stall(t) \/ Hangup(t) PROVE peer[u] # "closed"
    BY <2>2 DEF Stall, Hangup, PeerTurns
  <2>3. ASSUME Sweep \/ CtrlC \/ Returned \/ UNCHANGED vars
        PROVE  UNCHANGED peer
    BY <2>3 DEF Sweep, SweepScan, SweepRemove, SweepStop, CtrlC, Returned, vars
  <2> QED
    BY <2>1, <2>2, <2>3 DEF Next
<1>2. u \in conns \/ task[u] = "handshaking"
  <2>1. ASSUME NEW t \in Users, TaskStep(t) \/ Environment(t)
        PROVE  conns' \subseteq conns \/ Register(t)
    BY <2>1
    DEF TaskStep, Environment, Accept, HandshakeFails,
        SnapshotHistory, SendWelcome, WelcomeFails, PumpShutdown, PumpTake,
        PumpWrite, PumpWriteFails, PumpClosed, PumpReadFails, PumpRead,

        CleanupSession, CleanupConn, RejectFrame, RejectOverQuota,
        AcceptMessage, AcceptClear,
        StoreMessage, StoreClear, SnapshotConns, TrySend, EvictDead, GoIdle,
        Stall, Hangup, PeerTurns
  <2>2. ASSUME NEW t \in Users, Register(t)
        PROVE  u \in conns \/ task[u] = "handshaking"
    BY <2>2 DEF Register
  <2>3. ASSUME Sweep \/ CtrlC \/ Returned \/ UNCHANGED vars
        PROVE  conns' \subseteq conns
    BY <2>3 DEF Sweep, SweepScan, SweepRemove, SweepStop, CtrlC, Returned, vars
  <2> QED
    BY <2>1, <2>2, <2>3 DEF Next
<1>3. task[u] \notin {"unborn", "handshaking", "leaving", "unlisting", "gone"}
  <2>1. ASSUME NEW t \in Users, TaskStep(t) \/ Environment(t)
        PROVE  task[u] \notin {"unborn", "handshaking", "leaving", "unlisting", "gone"}
    <3>1. CASE t # u
      BY <2>1, <3>1, OthersKept
    <3>2. CASE t = u
      BY <2>1, <3>2
      DEF TaskStep, Environment, Accept, HandshakeFails, Register,
          SnapshotHistory, SendWelcome, WelcomeFails, PumpShutdown, PumpTake,
          PumpWrite, PumpWriteFails, PumpClosed, PumpReadFails, PumpRead,

          CleanupSession, CleanupConn, RejectFrame, RejectOverQuota,
          AcceptMessage, AcceptClear,
          StoreMessage, StoreClear, SnapshotConns, TrySend, EvictDead, GoIdle,
          Stall, Hangup, PeerTurns
    <3> QED
      BY <3>1, <3>2
  <2>2. ASSUME Sweep \/ CtrlC \/ Returned \/ UNCHANGED vars
        PROVE  UNCHANGED task
    BY <2>2 DEF Sweep, SweepScan, SweepRemove, SweepStop, CtrlC, Returned, vars
  <2> QED
    BY <2>1, <2>2 DEF Next
<1> QED
  BY <1>1, <1>2, <1>3

(* What is on the way to a joined peer is not lost.                        *)
LEMMA NothingLost ==
  ASSUME TypeInv, NEW u \in Users, WireStep(u), Joined(u)', peer[u] # "closed"
  PROVE  OnWay(u) \subseteq OnWay(u)'
<1> USE StreamTypes
<1>1. CASE Untouched(u)
  BY <1>1 DEF Untouched, OnWay, Items
<1>2. CASE Written(u)
  <2>1. output[u] \in ServerFrame
    BY <1>2 DEF Written, Writing, TypeInv, OutputHeld
  <2>2. Items(got[u])' = Items(got[u]) \cup {output[u]}
    BY <1>2, <2>1, ItemsAppend DEF Written, Items
  <2> QED
    BY <1>2, <2>2 DEF Written, OnWay, Items
<1>3. CASE Dropped(u)
  BY <1>3 DEF Dropped, Joined
<1>4. CASE Taken(u)
  <2>1. Items(outbox[u]) = Items(Tail(outbox[u])) \cup {Head(outbox[u])}
    BY <1>4, ItemsTail DEF Taken
  <2>2. Items(outbox[u])' = Items(Tail(outbox[u])) /\ Items(got[u])' = Items(got[u])
    BY <1>4 DEF Taken, Items
  <2> QED
    BY <1>4, <2>1, <2>2 DEF Taken, OnWay
<1>5. CASE Received(u)
  <2>1. PICK s \in Users :
          /\ TrySend(s, u)
          /\ Writing(u)' <=> Writing(u)
          /\ got'[u] = got[u] /\ output'[u] = output[u]
          /\ outbox'[u] = Append(outbox[u], output[s])
    BY <1>5 DEF Received
  <2>2. output[s] \in ServerFrame
    BY <2>1 DEF TrySend, TypeInv, OutputHeld
  <2>3. Items(outbox[u])' = Items(outbox[u]) \cup {output[s]}
    BY <2>1, <2>2, ItemsAppend DEF Items
  <2>4. Items(got[u])' = Items(got[u])
    BY <2>1 DEF Items
  <2> QED
    BY <2>1, <2>3, <2>4 DEF OnWay
<1>6. CASE Replayed(u)
  <2>1. Items(outbox[u])' = Items(outbox[u]) /\ Items(got[u])' = Items(got[u])
    BY <1>6 DEF Replayed, Items
  <2> QED
    BY <1>6, <2>1 DEF Replayed, OnWay
<1> QED
  BY <1>1, <1>2, <1>3, <1>4, <1>5, <1>6 DEF WireStep

(* A message that is still to be sent to u stays so, reaches u, or u loses *)
(* its Sender.                                                             *)
LEMMA StillStep ==
  ASSUME TypeInv, [Next]_vars, NEW u \in Users, NEW m, StillToSend(u, m),
         Joined(u)'
  PROVE  Reached(u, m)' \/ StillToSend(u, m)'
<1>1. PICK s \in Users :
        /\ output[s] = [kind |-> "Message", msg |-> m]
        /\ \/ task[s] = "announcing"
           \/ task[s] = "sending" /\ u \in todo[s] \cup dead[s]
  BY DEF StillToSend
<1>2. ASSUME UNCHANGED <<task[s], output[s], todo[s], dead[s]>>
      PROVE  StillToSend(u, m)'
  BY <1>1, <1>2 DEF StillToSend
<1>3. CASE SnapshotConns(s)
  <2>1. u \in conns
    BY <1>3 DEF SnapshotConns, tables, Joined
  <2>2. /\ output'[s] = output[s] /\ task'[s] = "sending" /\ u \in todo'[s]
    BY <1>3, <2>1 DEF TypeInv, TypeOK, SnapshotConns, Goto
  <2> QED
    BY <1>1, <2>2 DEF StillToSend
<1>4. ASSUME NEW v \in Users, TrySend(s, v)
      PROVE  Reached(u, m)' \/ StillToSend(u, m)'
  <2>1. output'[s] = output[s] /\ task'[s] = "sending" /\ task[s] = "sending"
    BY <1>4 DEF TypeInv, TypeOK, TrySend
  <2>2. CASE u # v \/ ~CanSend(v)
    <3>1. u \in todo'[s] \cup dead'[s]
      BY <1>1, <1>4, <2>1, <2>2 DEF TypeInv, TypeOK, TrySend
    <3> QED
      BY <1>1, <2>1, <3>1 DEF StillToSend
  <2>3. CASE u = v /\ CanSend(v)
    <3>1. outbox'[u] = Append(outbox[u], output[s])
      BY <1>4, <2>3 DEF TypeInv, TypeOK, TrySend
    <3>2. outbox[u] \in Seq(ServerFrame) /\ output[s] \in ServerFrame
      BY <2>1 DEF TypeInv, TypeOK, OutputHeld
    <3>3. output[s] \in Items(outbox'[u])
      BY <3>1, <3>2, ItemsAppend
    <3>4. output[s] \in OnWay(u)'
      BY <3>3 DEF OnWay
    <3>5. CarriesMessage(output[s], m)
      BY <1>1 DEF CarriesMessage
    <3>6. \A f \in OnWay(u)' : CarriesMessage(f, m) => Reached(u, m)'
      BY DEF Reached, CarriesMessage
    <3> QED
      BY <3>4, <3>5, <3>6
  <2> QED
    BY <2>2, <2>3
<1>5. CASE EvictDead(s)
  BY <1>1, <1>5 DEF EvictDead, Goto, Joined
<1>6. CASE Stall(s) \/ Hangup(s) \/ GoIdle(s)
  BY <1>2, <1>6 DEF Stall, Hangup, PeerTurns, GoIdle, taskVars
<1>7. ASSUME TaskStep(s) \/ Environment(s)
      PROVE  Reached(u, m)' \/ StillToSend(u, m)'
  <2>1. \/ SnapshotConns(s) \/ (\E v \in Users : TrySend(s, v))
        \/ EvictDead(s) \/ Stall(s) \/ Hangup(s) \/ GoIdle(s)
    BY <1>1, <1>7
    DEF TaskStep, Environment, Goto, JustGoto, Accept, HandshakeFails,
        Register, SnapshotHistory, SendWelcome, WelcomeFails, PumpShutdown,
        PumpTake, PumpWrite, PumpWriteFails, PumpClosed, PumpReadFails,
        PumpRead,
        CleanupSession, CleanupConn, RejectFrame, RejectOverQuota,
        AcceptMessage,
        AcceptClear, StoreMessage, StoreClear
  <2> QED
    BY <1>3, <1>4, <1>5, <1>6, <2>1
<1>8. ASSUME NEW t \in Users, t # s, TaskStep(t) \/ Environment(t)
      PROVE  StillToSend(u, m)'
  BY <1>2, <1>8, OthersKept
<1>9. CASE Sweep \/ CtrlC \/ Returned \/ UNCHANGED vars
  BY <1>2, <1>9 DEF Sweep, SweepScan, SweepRemove, SweepStop, CtrlC, Returned,
                    vars, taskVars
<1> QED
  BY <1>7, <1>8, <1>9 DEF Next

(* No step loses a message between the store and a welcomed client.        *)
LEMMA JoinStep ==
  ASSUME TypeInv, OrderInv, HistoryInv, JoinInv, [Next]_vars
  PROVE  JoinInv'
<1> SUFFICES ASSUME NEW u \in Users, Joined(u)', NEW m \in Items(history')
             PROVE  Reached(u, m)' \/ StillToSend(u, m)'
  BY DEF JoinInv
<1>1. WireStep(u)
  BY AnyWireStep
<1>2. (Joined(u) \/ task[u] = "joining") /\ peer[u] # "closed"
  BY JoinedStep
<1>3. OnWay(u) \subseteq OnWay(u)'
  BY <1>1, <1>2, NothingLost
<1>4. history \in Seq(RoomMessage) /\ Len(history) <= HISTORY_LEN
  BY DEF TypeInv, TypeOK, HistoryInv, Replayable
<1>5. \/ m \in Items(history)
      \/ \E t \in Users : /\ task'[t] = "announcing"
                          /\ output'[t] = [kind |-> "Message", msg |-> m]
  <2>1. ASSUME NEW t \in Users, Unstored(t),
               history' = push(history, TheMessage(t)),
               output'[t] = [kind |-> "Message", msg |-> TheMessage(t)],
               task'[t] = "announcing"
        PROVE  m \in Items(history) \/ output'[t] = [kind |-> "Message", msg |-> m]
    <3>1. TheMessage(t) \in RoomMessage
      BY <2>1, MessageType DEF TypeInv, Unstored, TheMessage
    <3>2. /\ Len(history') \in Nat
          /\ history'[Len(history')] = TheMessage(t)
          /\ \E d \in {0, 1} :
               \A i \in 1..(Len(history') - 1) :
                 i + d \in 1..Len(history) /\ history'[i] = history[i + d]
      BY <1>4, <2>1, <3>1, PushEffect
    <3>3. PICK i \in 1..Len(history') : m = history'[i]
      BY DEF Items
    <3>4. i \in 1..(Len(history') - 1) \/ i = Len(history')
      BY <3>2
    <3>5. m \in Items(history) \/ m = TheMessage(t)
      BY <3>2, <3>3, <3>4 DEF Items
    <3> QED
      BY <2>1, <3>5
  <2>2. CASE history' = <<>>
    BY <2>2 DEF Items
  <2> QED
    BY <2>1, <2>2, HistoryStep
<1>6. CASE \E t \in Users : /\ task'[t] = "announcing"
                            /\ output'[t] = [kind |-> "Message", msg |-> m]
  BY <1>6 DEF StillToSend
<1>7. CASE m \in Items(history) /\ Joined(u)
  <2>1. Reached(u, m) \/ StillToSend(u, m)
    BY <1>7 DEF JoinInv
  <2>2. Reached(u, m) => Reached(u, m)'
    BY <1>3 DEF Reached, CarriesMessage
  <2> QED
    BY <2>1, <2>2, StillStep
<1>8. CASE m \in Items(history) /\ task[u] = "joining"
  <2>1. task'[u] # "joining"
    BY DEF Joined
  <2>2. ASSUME UNCHANGED task[u] PROVE FALSE
    BY <1>8, <2>1, <2>2
  <2>3. SnapshotHistory(u)
    <3>1. ASSUME NEW t \in Users, t # u, TaskStep(t) \/ Environment(t)
          PROVE  FALSE
      BY <2>2, <3>1, OthersKept
    <3>2. ASSUME Sweep \/ CtrlC \/ Returned \/ UNCHANGED vars
          PROVE  FALSE
      BY <2>2, <3>2 DEF Sweep, SweepScan, SweepRemove, SweepStop, CtrlC,
                        Returned, vars, taskVars
    <3>3. ASSUME TaskStep(u) \/ Environment(u), ~SnapshotHistory(u)
          PROVE  FALSE
      BY <1>8, <2>2, <3>3
      DEF TaskStep, Environment, Goto, JustGoto, Accept, HandshakeFails,
          Register, SendWelcome, WelcomeFails, PumpShutdown, PumpTake,
          PumpWrite, PumpWriteFails, PumpClosed, PumpReadFails, PumpRead,

          CleanupSession, CleanupConn, RejectFrame, RejectOverQuota,
          AcceptMessage, AcceptClear,
          StoreMessage, StoreClear, SnapshotConns, TrySend, EvictDead, GoIdle,
          Stall, Hangup, PeerTurns, taskVars
    <3> QED
      BY <3>1, <3>2, <3>3 DEF Next
  <2>4. Welcome(u) \in OnWay(u)'
    BY <2>3 DEF TypeInv, TypeOK, SnapshotHistory, Goto, OnWay, Writing
  <2>5. CarriesMessage(Welcome(u), m)
    BY <1>8 DEF CarriesMessage, Welcome, Items
  <2>6. \A f \in OnWay(u)' : CarriesMessage(f, m) => Reached(u, m)'
    BY DEF Reached, CarriesMessage
  <2> QED
    BY <2>4, <2>5, <2>6
<1> QED
  BY <1>2, <1>5, <1>6, <1>7, <1>8

(* The inductive form of JoinComplete, over sets of frames.                *)
LEMMA JoinInvariant == Spec => []JoinInv
<1>1. Init => JoinInv
  BY DEF Init, JoinInv, Items
<1>2. TypeInv /\ OrderInv /\ HistoryInv /\ JoinInv /\ [Next]_vars => JoinInv'
  BY JoinStep
<1> QED
  BY <1>1, <1>2, TypeInvariant, OrderInvariant, HistoryInvariant, PTL DEF Spec

(* A joined peer misses nothing of the replay: each message of the history *)
(* is in its Welcome, in its live stream, or about to be sent to it, since *)
(* the Sender is in the table before the history is read.                  *)
THEOREM JoinIsComplete == Spec => []JoinComplete
<1>1. TypeInv /\ JoinInv => JoinComplete
  <2> SUFFICES ASSUME TypeInv, JoinInv, NEW u \in Users, Joined(u),
                      NEW k \in 1..Len(history),
                      ~StillToSend(u, history[k])
               PROVE  \E i \in 1..Len(Stream(u)) :
                        CarriesMessage(Stream(u)[i], history[k])
    BY DEF JoinComplete
  <2>1. history[k] \in Items(history)
    BY DEF Items
  <2>2. PICK f \in OnWay(u) : CarriesMessage(f, history[k])
    BY <2>1 DEF JoinInv, Reached
  <2>3. PICK i \in 1..Len(Stream(u)) : f = Stream(u)[i]
    BY <2>2, StreamItems DEF Items
  <2> QED
    BY <2>2, <2>3
<1> QED
  BY <1>1, TypeInvariant, JoinInvariant, PTL
=============================================================================
