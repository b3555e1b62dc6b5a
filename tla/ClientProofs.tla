---------------------------- MODULE ClientProofs ----------------------------
(***************************************************************************)
(* What a client makes of its stream, for any number of clients, any       *)
(* frames they send and any capacity of ring, outbox and screen: it shows  *)
(* the messages of each sender in order and once (ShownOnceInOrder), its   *)
(* replay filter hides no message of the room's history (HistoryShown),    *)
(* and the history of a lone client is what it was echoed (SoloReplay).    *)
(* The module WindowProofs is here for its lemma Least.                    *)
(***************************************************************************)
EXTENDS ChatClient, RoomOrderProofs, WindowProofs

-----------------------------------------------------------------------------
(* The Welcome comes first, and only once                                  *)

BeforePump == {"unborn", "handshaking", "joining", "welcoming"}

Opening(u) ==
  /\ \A f \in Items(outbox[u]) : f.kind # "Welcome"
  /\ \A i \in 1..Len(got[u]) : (got[u][i].kind = "Welcome") <=> i = 1
  /\ task[u] = "welcoming" => output[u].kind = "Welcome"
  /\ task[u] = "writing" => output[u].kind # "Welcome"
  /\ task[u] \in BeforePump => got[u] = <<>>
  /\ task[u] \notin BeforePump /\ task[u] # "gone" /\ got[u] = <<>>
       => peer[u] = "closed"

OpeningInv == \A u \in Users : Opening(u)

(* A frame other than a Welcome at the end of what was written after the   *)
(* Welcome, or a Welcome as the first.                                     *)
LEMMA OpeningWrite ==
  ASSUME NEW s \in Seq(ServerFrame), NEW f \in ServerFrame,
         \A i \in 1..Len(s) : (s[i].kind = "Welcome") <=> i = 1,
         (f.kind = "Welcome") <=> s = <<>>
  PROVE  /\ \A i \in 1..Len(Append(s, f)) :
              (Append(s, f)[i].kind = "Welcome") <=> i = 1
         /\ Append(s, f) # <<>>
<1>1. /\ Len(Append(s, f)) = Len(s) + 1
      /\ \A i \in 1..Len(s) : Append(s, f)[i] = s[i]
      /\ Append(s, f)[Len(s) + 1] = f
      /\ Len(s) \in Nat
      /\ s = <<>> <=> Len(s) = 0
  BY AppendProperties, LenProperties, EmptySeq
<1>2. ASSUME NEW i \in 1..(Len(s) + 1)
      PROVE  (Append(s, f)[i].kind = "Welcome") <=> i = 1
  <2>1. CASE i \in 1..Len(s)
    BY <1>1, <2>1
  <2>2. CASE i = Len(s) + 1
    <3>1. i = 1 <=> s = <<>>
      BY <1>1, <2>2
    <3> QED
      BY <1>1, <2>2, <3>1
  <2> QED
    BY <1>1, <2>1, <2>2
<1>3. Append(s, f) # <<>>
  <2>1. Len(Append(s, f)) # 0
    BY <1>1
  <2> QED
    BY <2>1
<1> QED
  BY <1>1, <1>2, <1>3

(* The steps of u's own task.                                              *)
LEMMA OwnOpening ==
  ASSUME TypeInv, NEW u \in Users, Opening(u), TaskStep(u) \/ Environment(u),
         ~\E v \in Users : TrySend(u, v)
  PROVE  Opening(u)'
<1> USE DEF TypeInv, TypeOK, Goto, JustGoto, sessionVars, tables, taskVars,
            sweepVars, netVars, outside, Opening, BeforePump, Items
<1>1. CASE Accept(u) \/ HandshakeFails(u) \/ Register(u)
  BY <1>1 DEF Accept, HandshakeFails, Register
<1>2. CASE SnapshotHistory(u)
  BY <1>2 DEF SnapshotHistory, Welcome
<1>3. CASE SendWelcome(u) \/ PumpWrite(u)
  <2>1. CASE peer[u] = "reading"
    <3>1. got'[u] = Append(got[u], output[u]) /\ task'[u] = "pumping"
      BY <1>3, <2>1 DEF SendWelcome, PumpWrite, WriteFrame
    <3>2. output[u] \in ServerFrame /\ got[u] \in Seq(ServerFrame)
      BY <1>3 DEF SendWelcome, PumpWrite, OutputHeld
    <3>3. (output[u].kind = "Welcome") <=> got[u] = <<>>
      BY <1>3, <2>1 DEF SendWelcome, PumpWrite
    <3>4. \A i \in 1..Len(got[u]) : (got[u][i].kind = "Welcome") <=> i = 1
      OBVIOUS
    <3>5. /\ \A i \in 1..Len(got'[u]) : (got'[u][i].kind = "Welcome") <=> i = 1
          /\ got'[u] # <<>>
      <4> HIDE DEF TypeInv, TypeOK, Opening, Items
      <4> QED
        BY <3>1, <3>2, <3>3, <3>4, OpeningWrite
    <3>6. outbox' = outbox
      BY <1>3 DEF SendWelcome, PumpWrite
    <3> QED
      BY <3>1, <3>5, <3>6
  <2>2. CASE peer[u] # "reading"
    <3>1. peer[u] = "closed"
      BY <1>3, <2>2 DEF SendWelcome, PumpWrite, WriteFrame
    <3> QED
      BY <1>3, <2>2, <3>1 DEF SendWelcome, PumpWrite, WriteFrame
  <2> QED
    BY <2>1, <2>2
<1>4. CASE \/ WelcomeFails(u) \/ PumpWriteFails(u)
           \/ CleanupSession(u) \/ CleanupConn(u)
  BY <1>4 DEF WelcomeFails, PumpWriteFails, CleanupSession, CleanupConn
<1>5. CASE PumpTake(u)
  <2>1. /\ outbox[u] # <<>> /\ outbox[u] \in Seq(ServerFrame)
        /\ output'[u] = Head(outbox[u]) /\ outbox'[u] = Tail(outbox[u])
        /\ task'[u] = "writing" /\ task[u] = "pumping"
        /\ got' = got /\ peer' = peer
    BY <1>5 DEF PumpTake
  <2>2. Items(outbox[u]) = Items(outbox'[u]) \cup {output'[u]}
    <3> HIDE DEF TypeInv, TypeOK, Opening, Items
    <3> QED
      BY <2>1, ItemsTail
  <2>3. \A f \in Items(outbox[u]) : f.kind # "Welcome"
    OBVIOUS
  <2>4. \A f \in Items(outbox'[u]) \cup {output'[u]} : f.kind # "Welcome"
    <3> HIDE DEF Items
    <3> QED
      BY <2>2, <2>3
  <2> QED
    BY <2>1, <2>4
<1>6. CASE PumpShutdown(u) \/ PumpClosed(u) \/ PumpReadFails(u) \/ PumpRead(u)
  BY <1>6 DEF PumpShutdown, PumpClosed, PumpReadFails, PumpRead
<1>7. CASE \/ RejectFrame(u) \/ RejectOverQuota(u) \/ AcceptMessage(u)
           \/ AcceptClear(u)
  BY <1>7 DEF RejectFrame, RejectOverQuota, AcceptMessage, AcceptClear
<1>8. CASE \/ StoreMessage(u) \/ StoreClear(u) \/ SnapshotConns(u)
           \/ EvictDead(u)
  BY <1>8 DEF StoreMessage, StoreClear, SnapshotConns, EvictDead
<1>9. CASE Stall(u) \/ Hangup(u) \/ GoIdle(u)
  BY <1>9 DEF Stall, Hangup, PeerTurns, GoIdle
<1> QED
  BY <1>1, <1>2, <1>3, <1>4, <1>5, <1>6, <1>7, <1>8, <1>9
  DEF TaskStep, Environment

(* A broadcast, whoever sends it, and the steps of the other tasks.        *)
LEMMA OpeningStep ==
  ASSUME TypeInv, SenderInv, NEW u \in Users, Opening(u), [Next]_vars
  PROVE  Opening(u)'
<1>1. ASSUME NEW t \in Users, NEW v \in Users, TrySend(t, v)
      PROVE  Opening(u)'
  <2>1. /\ UNCHANGED <<task, output, got, peer>>
        /\ outbox'[u] = outbox[u] \/ outbox'[u] = Append(outbox[u], output[t])
    BY <1>1 DEF TypeInv, TypeOK, TrySend, outside, netVars
  <2>2. output[t] \in ServerFrame /\ output[t].kind # "Welcome"
    BY <1>1 DEF TrySend, TypeInv, OutputHeld, SenderInv, HandInv
  <2>3. outbox[u] \in Seq(ServerFrame)
    BY DEF TypeInv, TypeOK
  <2>4. Items(outbox'[u]) \subseteq Items(outbox[u]) \cup {output[t]}
    BY <2>1, <2>2, <2>3, ItemsAppend
  <2>5. \A f \in Items(outbox'[u]) : f.kind # "Welcome"
    BY <2>2, <2>4 DEF Opening
  <2> QED
    BY <2>1, <2>5 DEF Opening, Items
<1>2. ASSUME UNCHANGED <<task[u], output[u], got[u], outbox[u]>>,
             peer[u] = "closed" => peer'[u] = "closed"
      PROVE  Opening(u)'
  BY <1>2 DEF Opening, Items
<1>3. ASSUME NEW t \in Users, TaskStep(t) \/ Environment(t), t # u,
             ~\E v \in Users : TrySend(t, v)
      PROVE  Opening(u)'
  <2>1. UNCHANGED <<task[u], output[u]>>
    BY <1>3, OthersKept
  <2>2. UNCHANGED <<got[u], outbox[u]>>
    BY <1>3
    DEF TypeInv, TypeOK, TaskStep, Environment, Goto, JustGoto, sessionVars,
        tables, taskVars, sweepVars, netVars, outside, Accept, HandshakeFails,
        Register, SnapshotHistory, SendWelcome, WelcomeFails, PumpShutdown,
        PumpTake, PumpWrite, PumpWriteFails, PumpClosed, PumpReadFails,
        PumpRead,
        CleanupSession, CleanupConn, RejectFrame, RejectOverQuota,
        AcceptMessage,
        AcceptClear, StoreMessage, StoreClear, SnapshotConns, EvictDead,
        Stall, Hangup, PeerTurns, GoIdle, WriteFrame
  <2>3. peer'[u] = peer[u]
    BY <1>3
    DEF TypeInv, TypeOK, TaskStep, Environment, JustGoto, netVars, outside,
        Accept, HandshakeFails,
        Register, SnapshotHistory, SendWelcome, WelcomeFails, PumpShutdown,
        PumpTake, PumpWrite, PumpWriteFails, PumpClosed, PumpReadFails,
        PumpRead,
        CleanupSession, CleanupConn, RejectFrame, RejectOverQuota,
        AcceptMessage,
        AcceptClear, StoreMessage, StoreClear, SnapshotConns, EvictDead,
        Stall, Hangup, PeerTurns, GoIdle
  <2> QED
    BY <1>2, <2>1, <2>2, <2>3
<1>4. CASE Sweep \/ CtrlC \/ Returned \/ UNCHANGED vars
  BY <1>2, <1>4 DEF Sweep, SweepScan, SweepRemove, SweepStop, CtrlC, Returned,
                    vars, taskVars, netVars, outside
<1>5. ASSUME TaskStep(u) \/ Environment(u), ~\E v \in Users : TrySend(u, v)
      PROVE  Opening(u)'
  BY <1>5, OwnOpening
<1> QED
  BY <1>1, <1>3, <1>4, <1>5 DEF Next

(* The Welcome opens every stream, throughout.                             *)
LEMMA OpeningInvariant == Spec => []OpeningInv
<1>1. Init => OpeningInv
  BY DEF Init, OpeningInv, Opening, Items, BeforePump
<1>2. TypeInv /\ OrderInv /\ OpeningInv /\ [Next]_vars => OpeningInv'
  BY OpeningStep DEF OpeningInv, OrderInv
<1> QED
  BY <1>1, <1>2, TypeInvariant, OrderInvariant, PTL DEF Spec

-----------------------------------------------------------------------------
(* What a Welcome leaves out is newer than what it has                     *)

(* Every message of a Welcome was counted by its sender's session, and the *)
(* ring has no message of that sender that is older and not in it.         *)
WelcomeClosed(w) ==
  \A m \in Items(w.history) :
    /\ StoredCounted(m)
    /\ \A k \in Items(history) :
         k.from = m.from /\ k.ad.counter <= m.ad.counter
           => k \in Items(w.history)

WelcomeInv ==
  \A u \in Users : \A w \in OnWay(u) : w.kind = "Welcome" => WelcomeClosed(w)

(* What a step adds to the ring is newer than all its sender has stored.   *)
LEMMA NewInRing ==
  ASSUME TypeInv, SenderInv, HistoryInv, [Next]_vars, NEW m \in RoomMessage,
         StoredCounted(m), NEW k \in Items(history')
  PROVE  k \in Items(history) \/ ~(k.from = m.from /\ k.ad.counter <= m.ad.counter)
<1>1. history \in Seq(RoomMessage) /\ Len(history) <= HISTORY_LEN
  BY DEF TypeInv, TypeOK, HistoryInv, Replayable
<1>2. CASE UNCHANGED history
  BY <1>2
<1>3. CASE history' = <<>>
  BY <1>3 DEF Items
<1>4. ASSUME NEW t \in Users, Unstored(t),
             history' = push(history, TheMessage(t))
      PROVE  \/ k \in Items(history)
             \/ ~(k.from = m.from /\ k.ad.counter <= m.ad.counter)
  <2>1. TheMessage(t) \in RoomMessage
    BY <1>4, MessageType DEF TypeInv, Unstored, TheMessage
  <2>2. /\ Len(history') \in 1..HISTORY_LEN
        /\ history'[Len(history')] = TheMessage(t)
        /\ \E d \in {0, 1} :
             \A i \in 1..(Len(history') - 1) :
               i + d \in 1..Len(history) /\ history'[i] = history[i + d]
    BY <1>1, <1>4, <2>1, PushEffect
  <2>3. PICK i \in 1..Len(history') : k = history'[i]
    BY DEF Items
  <2>4. i \in 1..(Len(history') - 1) \/ i = Len(history')
    BY <2>2
  <2>5. k \in Items(history) \/ k = TheMessage(t)
    BY <2>2, <2>3, <2>4 DEF Items
  <2>6. /\ TheMessage(t).from = t
        /\ TheMessage(t).ad.counter = last_counter[t]
    BY <1>4 DEF TheMessage, SenderInv, HandInv, Unstored
  <2>7. m.from = t => m.ad.counter < last_counter[t]
    BY <1>4 DEF StoredCounted
  <2>8. m.ad.counter \in Nat /\ last_counter[t] \in Nat
    BY DEF RoomMessage, MessageAd, TypeInv, TypeOK
  <2> QED
    BY <2>5, <2>6, <2>7, <2>8
<1> QED
  BY <1>2, <1>3, <1>4, HistoryStep

(* No step breaks what is known of the Welcomes that are on their way.     *)
LEMMA WelcomeStep ==
  ASSUME TypeInv, OrderInv, HistoryInv, WelcomeInv, [Next]_vars
  PROVE  WelcomeInv'
<1> SUFFICES ASSUME NEW u \in Users, NEW w \in OnWay(u)', w.kind = "Welcome",
                    NEW m \in Items(w.history)
             PROVE  /\ StoredCounted(m)'
                    /\ \A k \in Items(history') :
                         k.from = m.from /\ k.ad.counter <= m.ad.counter
                           => k \in Items(w.history)
  BY DEF WelcomeInv, WelcomeClosed, Items
<1>1. SenderInv
  BY DEF OrderInv
<1>2. CASE w \in OnWay(u)
  <2>1. w \in ServerFrame
    BY <1>2, StreamTypes
  <2>2. w.history \in Seq(RoomMessage)
    BY <2>1 DEF ServerFrame
  <2>3. m \in RoomMessage
    BY <2>2, ElementOfSeq DEF Items
  <2>4. WelcomeClosed(w)
    BY <1>2 DEF WelcomeInv
  <2>5. StoredCounted(m)
    BY <2>4 DEF WelcomeClosed
  <2>6. StoredCounted(m)'
    BY <1>1, <2>3, <2>5, StoredStep
  <2>7. ASSUME NEW k \in Items(history'),
               k.from = m.from /\ k.ad.counter <= m.ad.counter
        PROVE  k \in Items(w.history)
    <3>1. k \in Items(history)
      BY <1>1, <2>3, <2>5, <2>7, NewInRing
    <3> QED
      BY <2>4, <2>7, <3>1 DEF WelcomeClosed
  <2> QED
    BY <2>6, <2>7
<1>3. CASE w = Welcome(u) /\ UNCHANGED history
  <2>1. w.history = history
    BY <1>3 DEF Welcome
  <2>2. history \in Seq(RoomMessage)
    BY DEF TypeInv, TypeOK
  <2>3. m \in RoomMessage
    BY <2>1, <2>2, ElementOfSeq DEF Items
  <2>4. StoredCounted(m)
    BY <2>1 DEF HistoryInv
  <2>5. StoredCounted(m)'
    BY <1>1, <2>3, <2>4, StoredStep
  <2> QED
    BY <1>3, <2>1, <2>5
<1>4. ASSUME NEW s \in Users, TrySend(s, u), w = output[s]
      PROVE  FALSE
  BY <1>1, <1>4 DEF SenderInv, HandInv, TrySend
<1> QED
  BY <1>2, <1>3, <1>4, AnyWireStep, OnWayStep

(* The invariant of the Welcomes holds throughout.                         *)
LEMMA WelcomeInvariant == Spec => []WelcomeInv
<1>1. Init => WelcomeInv
  BY DEF Init, WelcomeInv, OnWay, Items, Writing
<1>2. TypeInv /\ OrderInv /\ HistoryInv /\ WelcomeInv /\ [Next]_vars
        => WelcomeInv'
  BY WelcomeStep
<1> QED
  BY <1>1, <1>2, TypeInvariant, OrderInvariant, HistoryInvariant, PTL DEF Spec

-----------------------------------------------------------------------------
(* The client's state                                                      *)

Lines == RoomMessage \cup {SystemLine}

UiState ==
  [seen_counters: [Users -> Nat], messages: Seq(Lines),
   shown: Seq(RoomMessage)]

(* A line on the screen changes neither the filter nor what was shown.     *)
LEMMA PushLineEffect ==
  ASSUME NEW st \in UiState, NEW line \in Lines
  PROVE  /\ push_line(st, line) \in UiState
         /\ push_line(st, line).seen_counters = st.seen_counters
         /\ push_line(st, line).shown = st.shown
<1>1. st.messages \in Seq(Lines)
  BY DEF UiState
<1>2. Len(st.messages) = HISTORY_CAP => Tail(st.messages) \in Seq(Lines)
  <2>1. HISTORY_CAP # 0
    BY CapAssumption DEF CapAssumption
  <2> QED
    BY <1>1, <2>1, EmptySeq, HeadTailProperties
<1> DEFINE ms == Append(IF Len(st.messages) = HISTORY_CAP THEN Tail(st.messages)
                        ELSE st.messages, line)
<1>3. ms \in Seq(Lines)
  BY <1>1, <1>2, AppendProperties
<1>4. push_line(st, line) = [st EXCEPT !.messages = ms]
  BY DEF push_line
<1> HIDE DEF ms
<1> QED
  BY <1>3, <1>4 DEF UiState

(* The screen is wiped and told so; filter and record stay.                *)
LEMMA ClearedEffect ==
  ASSUME NEW st \in UiState
  PROVE  /\ push_line([st EXCEPT !.messages = <<>>], SystemLine) \in UiState
         /\ push_line([st EXCEPT !.messages = <<>>], SystemLine).seen_counters
              = st.seen_counters
         /\ push_line([st EXCEPT !.messages = <<>>], SystemLine).shown = st.shown
<1> DEFINE wiped == [st EXCEPT !.messages = <<>>]
<1>1. <<>> \in Seq(Lines) /\ SystemLine \in Lines
  BY DEF Lines
<1>2. /\ wiped \in UiState /\ wiped.seen_counters = st.seen_counters
      /\ wiped.shown = st.shown
  BY <1>1 DEF UiState
<1> HIDE DEF wiped
<1>3. /\ push_line(wiped, SystemLine) \in UiState
      /\ push_line(wiped, SystemLine).seen_counters = wiped.seen_counters
      /\ push_line(wiped, SystemLine).shown = wiped.shown
  BY <1>1, <1>2, PushLineEffect
<1> QED
  BY <1>2, <1>3 DEF wiped

(* A message is shown, and the filter remembers a higher counter.          *)
LEMMA SeedEffect ==
  ASSUME NEW st \in UiState, NEW m \in RoomMessage
  PROVE  /\ SeedHistory(st, m) \in UiState
         /\ SeedHistory(st, m).shown = Append(st.shown, m)
         /\ SeedHistory(st, m).seen_counters =
              IF m.ad.counter > st.seen_counters[m.ad.from]
                THEN [st.seen_counters EXCEPT ![m.ad.from] = m.ad.counter]
                ELSE st.seen_counters
<1> DEFINE ac == try_accept_counter(st, m)
           sh == [ac EXCEPT !.shown = Append(ac.shown, m)]
<1>1. m.ad.from \in Users /\ m.ad.counter \in Nat
  BY DEF RoomMessage, MessageAd
<1>2. /\ ac \in UiState
      /\ ac.shown = st.shown
      /\ ac.seen_counters =
           IF m.ad.counter > st.seen_counters[m.ad.from]
             THEN [st.seen_counters EXCEPT ![m.ad.from] = m.ad.counter]
             ELSE st.seen_counters
  BY <1>1 DEF UiState, try_accept_counter, exceeds_seen_counter
<1>3. SeedHistory(st, m) = push_line(sh, m)
  BY DEF SeedHistory, Display
<1> HIDE DEF ac
<1>4. Append(ac.shown, m) \in Seq(RoomMessage)
  BY <1>2, AppendProperties DEF UiState
<1>5. /\ sh \in UiState /\ sh.shown = Append(ac.shown, m)
      /\ sh.seen_counters = ac.seen_counters
  BY <1>2, <1>4 DEF UiState
<1> HIDE DEF sh
<1>6. m \in Lines
  BY DEF Lines
<1>7. /\ push_line(sh, m) \in UiState
      /\ push_line(sh, m).seen_counters = sh.seen_counters
      /\ push_line(sh, m).shown = sh.shown
  BY <1>5, <1>6, PushLineEffect
<1> QED
  BY <1>2, <1>3, <1>5, <1>7

-----------------------------------------------------------------------------
(* Seeding from the Welcome                                                *)

IsSeeded(f, st, h, n) ==
  f = [i \in 0..n |-> IF i = 0 THEN st ELSE SeedHistory(f[i - 1], h[i])]

(* The recursive function behind SeedAll exists.                           *)
LEMMA SeededExists ==
  ASSUME NEW st, NEW h, NEW n \in Nat
  PROVE  \E f : IsSeeded(f, st, h, n)
<1> DEFINE T == {k \in Nat : ~ \E f : IsSeeded(f, st, h, k)}
<1>1. SUFFICES ASSUME T # {} PROVE FALSE
  OBVIOUS
<1>2. PICK k \in T : \A m \in T : k <= m
  <2>1. T \subseteq Nat
    OBVIOUS
  <2> HIDE DEF T
  <2> QED
    BY <1>1, <2>1, Least
<1>3. k # 0
  <2>1. IsSeeded([i \in 0..0 |-> st], st, h, 0)
    BY DEF IsSeeded
  <2> QED
    BY <1>2, <2>1
<1>4. k \in Nat /\ k - 1 \in Nat /\ k - 1 \notin T
  BY <1>2, <1>3
<1>5. PICK f : IsSeeded(f, st, h, k - 1)
  BY <1>4
<1> DEFINE g == [i \in 0..k |-> IF i = k THEN SeedHistory(f[k - 1], h[k])
                                ELSE f[i]]
<1>6. ASSUME NEW i \in 0..k
      PROVE  g[i] = IF i = 0 THEN st ELSE SeedHistory(g[i - 1], h[i])
  <2>1. CASE i = k
    <3>1. g[i] = SeedHistory(f[k - 1], h[k]) /\ i # 0 /\ g[i - 1] = f[i - 1]
      BY <1>3, <1>4, <2>1
    <3> QED
      BY <2>1, <3>1
  <2>2. CASE i # k
    <3>1. i \in 0..(k - 1) /\ g[i] = f[i]
      BY <1>4, <2>2
    <3>2. f[i] = IF i = 0 THEN st ELSE SeedHistory(f[i - 1], h[i])
      BY <1>5, <3>1 DEF IsSeeded
    <3>3. i # 0 => g[i - 1] = f[i - 1]
      BY <1>4, <2>2, <3>1
    <3> QED
      BY <3>1, <3>2, <3>3
  <2> QED
    BY <2>1, <2>2
<1>7. g = [i \in 0..k |-> g[i]]
  OBVIOUS
<1> HIDE DEF g
<1>8. IsSeeded(g, st, h, k)
  BY <1>6, <1>7 DEF IsSeeded
<1> QED
  BY <1>2, <1>8

(* The client after n messages of the history h: they are what it shows,   *)
(* and its filter holds counters of theirs.                                *)
Seeded(st, h, n) ==
  /\ st \in UiState
  /\ Len(st.shown) = n
  /\ \A i \in 1..n : st.shown[i] = h[i]
  /\ \A i \in 1..n : h[i].ad.counter <= st.seen_counters[h[i].from]
  /\ \A s \in Users : \/ st.seen_counters[s] = 0
                      \/ \E i \in 1..n : /\ h[i].from = s
                                         /\ h[i].ad.counter = st.seen_counters[s]

(* One message more.                                                       *)
LEMMA SeededStep ==
  ASSUME NEW h \in Seq(RoomMessage), Replayable(h), NEW n \in 1..Len(h),
         NEW st, Seeded(st, h, n - 1), NEW r, r = SeedHistory(st, h[n])
  PROVE  Seeded(r, h, n)
<1> DEFINE m == h[n]
<1>0. Len(h) \in Nat /\ n \in Nat /\ n - 1 \in Nat
  BY LenProperties
<1>1. m \in RoomMessage
  BY <1>0, ElementOfSeq
<1>2. /\ m.from \in Users /\ m.ad.from = m.from /\ m.ad.counter \in Nat
  BY <1>0, <1>1 DEF Replayable, RoomMessage, MessageAd
<1>3. st \in UiState /\ st.seen_counters \in [Users -> Nat]
      /\ st.shown \in Seq(RoomMessage) /\ Len(st.shown) = n - 1
  BY DEF Seeded, UiState
<1>4. /\ r \in UiState
      /\ r.shown = Append(st.shown, m)
      /\ r.seen_counters =
           IF m.ad.counter > st.seen_counters[m.ad.from]
             THEN [st.seen_counters EXCEPT ![m.ad.from] = m.ad.counter]
             ELSE st.seen_counters
  BY <1>1, <1>3, SeedEffect
<1> HIDE DEF m
<1>5. /\ Len(r.shown) = n
      /\ \A i \in 1..(n - 1) : r.shown[i] = st.shown[i]
      /\ r.shown[n] = m
  <2>1. /\ Len(Append(st.shown, m)) = Len(st.shown) + 1
        /\ \A i \in 1..Len(st.shown) : Append(st.shown, m)[i] = st.shown[i]
        /\ Append(st.shown, m)[Len(st.shown) + 1] = m
    BY <1>1, <1>3, AppendProperties
  <2>2. (n - 1) + 1 = n
    BY <1>0
  <2> QED
    BY <1>3, <1>4, <2>1, <2>2
<1>6. \A i \in 1..n : i \in 1..(n - 1) \/ i = n
  BY <1>0
<1>7. \A i \in 1..n : r.shown[i] = h[i]
  BY <1>5, <1>6 DEF Seeded, m
<1>8. /\ r.seen_counters \in [Users -> Nat]
      /\ m.ad.counter <= r.seen_counters[m.from]
      /\ \A s \in Users : st.seen_counters[s] <= r.seen_counters[s]
      /\ \A s \in Users : \/ r.seen_counters[s] = st.seen_counters[s]
                          \/ s = m.from /\ r.seen_counters[s] = m.ad.counter
  <2>1. st.seen_counters[m.from] \in Nat
    BY <1>2, <1>3
  <2>2. CASE m.ad.counter > st.seen_counters[m.from]
    <3>1. r.seen_counters = [st.seen_counters EXCEPT ![m.from] = m.ad.counter]
      BY <1>2, <1>4, <2>2
    <3>2. ASSUME NEW s \in Users
          PROVE  r.seen_counters[s] = IF s = m.from THEN m.ad.counter
                                      ELSE st.seen_counters[s]
      BY <1>3, <3>1
    <3>3. st.seen_counters[m.from] <= m.ad.counter /\ m.ad.counter <= m.ad.counter
      BY <1>2, <2>1, <2>2
    <3>4. \A s \in Users : st.seen_counters[s] <= st.seen_counters[s]
      BY <1>3
    <3>5. r.seen_counters \in [Users -> Nat]
      BY <1>2, <1>3, <3>1
    <3> QED
      BY <1>2, <3>2, <3>3, <3>4, <3>5
  <2>3. CASE ~(m.ad.counter > st.seen_counters[m.from])
    <3>1. r.seen_counters = st.seen_counters
      BY <1>2, <1>4, <2>3
    <3>2. m.ad.counter <= st.seen_counters[m.from]
      BY <1>2, <2>1, <2>3
    <3>3. \A s \in Users : st.seen_counters[s] <= st.seen_counters[s]
      BY <1>3
    <3> QED
      BY <1>3, <3>1, <3>2, <3>3
  <2> QED
    BY <2>2, <2>3
<1>9. ASSUME NEW i \in 1..n
      PROVE  h[i].ad.counter <= r.seen_counters[h[i].from]
  <2>1. CASE i = n
    BY <1>8, <2>1 DEF m
  <2>2. CASE i \in 1..(n - 1)
    <3>1. h[i] \in RoomMessage
      BY <1>0, <2>2, ElementOfSeq
    <3>2. h[i].from \in Users /\ h[i].ad.counter \in Nat
      BY <3>1 DEF RoomMessage, MessageAd
    <3>3. h[i].ad.counter <= st.seen_counters[h[i].from]
      BY <2>2 DEF Seeded
    <3>4. st.seen_counters[h[i].from] <= r.seen_counters[h[i].from]
      BY <1>8, <3>2
    <3>5. st.seen_counters[h[i].from] \in Nat /\ r.seen_counters[h[i].from] \in Nat
      BY <1>3, <1>8, <3>2
    <3> QED
      BY <3>2, <3>3, <3>4, <3>5
  <2> QED
    BY <1>6, <2>1, <2>2
<1>10. ASSUME NEW s \in Users
       PROVE  \/ r.seen_counters[s] = 0
              \/ \E i \in 1..n : /\ h[i].from = s
                                 /\ h[i].ad.counter = r.seen_counters[s]
  <2>1. \A i \in 1..(n - 1) : i \in 1..n
    BY <1>0
  <2>2. n \in 1..n
    BY <1>0
  <2>3. CASE r.seen_counters[s] = st.seen_counters[s]
    BY <2>1, <2>3 DEF Seeded
  <2>4. CASE s = m.from /\ r.seen_counters[s] = m.ad.counter
    BY <2>2, <2>4 DEF m
  <2> QED
    BY <1>8, <2>3, <2>4
<1> QED
  BY <1>4, <1>5, <1>7, <1>9, <1>10 DEF Seeded

(* After its Welcome a client shows the replayed history, message by       *)
(* message.                                                                *)
LEMMA SeedAllEffect ==
  ASSUME NEW h \in Seq(RoomMessage), Replayable(h)
  PROVE  Seeded(SeedAll(UiState0, h), h, Len(h))
<1> DEFINE f == CHOOSE g : IsSeeded(g, UiState0, h, Len(h))
<1>0. Len(h) \in Nat
  OBVIOUS
<1>1. IsSeeded(f, UiState0, h, Len(h))
  BY <1>0, SeededExists, Zenon
<1>2. SeedAll(UiState0, h) = f[Len(h)]
  BY DEF SeedAll, IsSeeded
<1> HIDE DEF f
<1> DEFINE T == {n \in 0..Len(h) : ~Seeded(f[n], h, n)}
<1>3. T = {}
  <2> SUFFICES ASSUME T # {} PROVE FALSE
    OBVIOUS
  <2>1. PICK n \in T : \A m \in T : n <= m
    <3>1. T \subseteq Nat
      BY <1>0
    <3> HIDE DEF T
    <3> QED
      BY <3>1, Least
  <2>2. n \in 0..Len(h) /\ ~Seeded(f[n], h, n)
    BY <2>1
  <2>3. f[n] = IF n = 0 THEN UiState0 ELSE SeedHistory(f[n - 1], h[n])
    BY <1>1, <2>2 DEF IsSeeded
  <2>4. n # 0
    <3>1. Seeded(UiState0, h, 0)
      BY DEF Seeded, UiState0, UiState
    <3> QED
      BY <2>2, <2>3, <3>1
  <2>5. n - 1 \in 0..Len(h) /\ n \in 1..Len(h) /\ ~(n <= n - 1)
    BY <1>0, <2>2, <2>4
  <2>6. Seeded(f[n - 1], h, n - 1)
    BY <2>1, <2>5
  <2>7. f[n] = SeedHistory(f[n - 1], h[n])
    BY <2>3, <2>4
  <2>8. Seeded(f[n], h, n)
    BY <2>5, <2>6, <2>7, SeededStep
  <2> QED
    BY <2>2, <2>8
<1>4. Len(h) \in 0..Len(h)
  BY <1>0
<1> QED
  BY <1>2, <1>3, <1>4

-----------------------------------------------------------------------------
(* Reading the stream                                                      *)

(* What the server writes to a connection: a Welcome, then other frames,   *)
(* the messages of each sender by their counters.                          *)
Orderly(frames) ==
  /\ frames \in Seq(ServerFrame)
  /\ Ordered(frames)
  /\ \A i \in 1..Len(frames) : (frames[i].kind = "Welcome") <=> i = 1
  /\ \A i \in 1..Len(frames) : FaithfulFrame(frames[i])

InOrder(shown) ==
  \A i, j \in 1..Len(shown) :
    i < j /\ shown[i].from = shown[j].from
      => shown[i].ad.counter < shown[j].ad.counter

(* The message m is newer than all of its sender in the replay h.          *)
NewerThan(m, h) ==
  \A k \in Items(h) : k.from = m.from => k.ad.counter < m.ad.counter

(* The counter c is that of a live message of s among the first n frames.  *)
LiveCounter(frames, n, s, c) ==
  \E i \in 2..n : /\ frames[i].kind = "Message"
                  /\ frames[i].msg.from = s
                  /\ frames[i].msg.ad.counter = c

ReplayCounter(h, s, c) == \E m \in Items(h) : m.from = s /\ m.ad.counter = c

(* The client after n frames: what it shows is in order and known to the   *)
(* filter; it has shown the replay and every live message that is newer;   *)
(* and its filter holds counters of these messages.                        *)
ReadInv(st, frames, n) ==
  /\ st \in UiState
  /\ InOrder(st.shown)
  /\ \A m \in Items(st.shown) : m.ad.counter <= st.seen_counters[m.from]
  /\ Items(frames[1].history) \subseteq Items(st.shown)
  /\ \A i \in 2..n :
       frames[i].kind = "Message" /\ NewerThan(frames[i].msg, frames[1].history)
         => frames[i].msg \in Items(st.shown)
  /\ \A s \in Users :
       \/ st.seen_counters[s] = 0
       \/ ReplayCounter(frames[1].history, s, st.seen_counters[s])
       \/ LiveCounter(frames, n, s, st.seen_counters[s])

(* The Welcome.                                                            *)
LEMMA ReadWelcome ==
  ASSUME NEW frames, Orderly(frames), frames # <<>>,
         NEW r, r = handle_server_frame(UiState0, frames[1])
  PROVE  ReadInv(r, frames, 1)
<1>1. /\ Len(frames) \in Nat \ {0} /\ 1 \in 1..Len(frames)
      /\ frames[1] \in ServerFrame /\ frames[1].kind = "Welcome"
  <2>1. Len(frames) \in Nat \ {0}
    BY EmptySeq DEF Orderly
  <2>2. 1 \in 1..Len(frames)
    BY <2>1
  <2> QED
    BY <2>1, <2>2, ElementOfSeq DEF Orderly
<1> DEFINE h == frames[1].history
<1>2. h \in Seq(RoomMessage)
  BY <1>1 DEF ServerFrame
<1>3. Replayable(h)
  BY <1>1 DEF Orderly, FaithfulFrame
<1>4. r = SeedAll(UiState0, h)
  BY <1>1 DEF handle_server_frame
<1> HIDE DEF h
<1>5. Seeded(r, h, Len(h))
  BY <1>2, <1>3, <1>4, SeedAllEffect
<1>6. /\ r \in UiState /\ Len(r.shown) = Len(h) /\ Len(h) \in Nat
      /\ \A i \in 1..Len(h) : r.shown[i] = h[i]
  BY <1>2, <1>5 DEF Seeded
<1>7. Items(r.shown) = Items(h)
  BY <1>6 DEF Items
<1>8. InOrder(r.shown)
  <2> SUFFICES ASSUME NEW i \in 1..Len(h), NEW j \in 1..Len(h), i < j,
                      h[i].from = h[j].from
               PROVE  h[i].ad.counter < h[j].ad.counter
    BY <1>6 DEF InOrder
  <2>1. i \in 1..(j - 1)
    BY <1>6
  <2> QED
    BY <1>3, <2>1 DEF Replayable
<1>9. \A m \in Items(h) : m.ad.counter <= r.seen_counters[m.from]
  BY <1>5 DEF Seeded, Items
<1>10. \A s \in Users : \/ r.seen_counters[s] = 0
                        \/ ReplayCounter(h, s, r.seen_counters[s])
  BY <1>5 DEF Seeded, Items, ReplayCounter
<1>11. \A i \in 2..1 : FALSE
  OBVIOUS
<1> QED
  BY <1>6, <1>7, <1>8, <1>9, <1>10, <1>11 DEF ReadInv, h

(* One message more on the screen.                                         *)
LEMMA ShowMore ==
  ASSUME NEW shown \in Seq(RoomMessage), NEW m \in RoomMessage,
         InOrder(shown),
         \A k \in Items(shown) : k.from = m.from => k.ad.counter < m.ad.counter
  PROVE  /\ Items(Append(shown, m)) = Items(shown) \cup {m}
         /\ InOrder(Append(shown, m))
<1>1. /\ Len(Append(shown, m)) = Len(shown) + 1
      /\ \A i \in 1..Len(shown) : Append(shown, m)[i] = shown[i]
      /\ Append(shown, m)[Len(shown) + 1] = m
      /\ Len(shown) \in Nat
  BY AppendProperties, LenProperties
<1>2. 1..(Len(shown) + 1) = 1..Len(shown) \cup {Len(shown) + 1}
  BY <1>1
<1>3. Items(Append(shown, m)) = Items(shown) \cup {m}
  BY <1>1, <1>2 DEF Items
<1>4. ASSUME NEW i \in 1..(Len(shown) + 1), NEW j \in 1..(Len(shown) + 1), i < j,
             Append(shown, m)[i].from = Append(shown, m)[j].from
      PROVE  Append(shown, m)[i].ad.counter < Append(shown, m)[j].ad.counter
  <2>1. i \in 1..Len(shown) /\ (j \in 1..Len(shown) \/ j = Len(shown) + 1)
    BY <1>1, <1>4
  <2>2. CASE j \in 1..Len(shown)
    BY <1>1, <1>4, <2>1, <2>2 DEF InOrder
  <2>3. CASE j = Len(shown) + 1
    <3>1. shown[i] \in Items(shown)
      BY <2>1 DEF Items
    <3> QED
      BY <1>1, <1>4, <2>1, <2>3, <3>1
  <2> QED
    BY <2>1, <2>2, <2>3
<1> QED
  BY <1>1, <1>3, <1>4 DEF InOrder

(* A frame that shows nothing new keeps what is known of the client, if it *)
(* is no message that had to be shown.                                     *)
LEMMA ReadQuiet ==
  ASSUME NEW frames, NEW n \in Nat, NEW st, ReadInv(st, frames, n - 1), 2 <= n,
         NEW r \in UiState, r.shown = st.shown,
         r.seen_counters = st.seen_counters,
         ~(/\ frames[n].kind = "Message"
           /\ NewerThan(frames[n].msg, frames[1].history))
  PROVE  ReadInv(r, frames, n)
<1>1. \A i \in 2..n : i \in 2..(n - 1) \/ i = n
  OBVIOUS
<1>2. \A i \in 2..(n - 1) : i \in 2..n
  OBVIOUS
<1>3. \A s \in Users :
        LiveCounter(frames, n - 1, s, st.seen_counters[s])
          => LiveCounter(frames, n, s, st.seen_counters[s])
  BY <1>2 DEF LiveCounter
<1>4. \A i \in 2..n :
        frames[i].kind = "Message" /\ NewerThan(frames[i].msg, frames[1].history)
          => frames[i].msg \in Items(st.shown)
  BY <1>1 DEF ReadInv
<1> QED
  BY <1>3, <1>4 DEF ReadInv

(* A message the filter lets pass.                                         *)
LEMMA ReadAccepted ==
  ASSUME NEW frames, Orderly(frames), NEW n \in 2..Len(frames),
         NEW st, ReadInv(st, frames, n - 1),
         frames[n].kind = "Message", exceeds_seen_counter(st, frames[n].msg),
         NEW r, r = handle_server_frame(st, frames[n])
  PROVE  ReadInv(r, frames, n)
<1> DEFINE m == frames[n].msg
<1>0. Len(frames) \in Nat /\ n \in Nat /\ n \in 1..Len(frames)
  BY LenProperties DEF Orderly
<1>1. frames[n] \in ServerFrame /\ m.from = m.ad.from
  BY <1>0, ElementOfSeq DEF Orderly, FaithfulFrame
<1>2. /\ m \in RoomMessage /\ m.from \in Users /\ m.ad.counter \in Nat
  BY <1>1 DEF ServerFrame, RoomMessage, MessageAd
<1>3. /\ st \in UiState /\ st.seen_counters \in [Users -> Nat]
      /\ st.shown \in Seq(RoomMessage)
  BY DEF ReadInv, UiState
<1>4. r = SeedHistory(st, m)
  BY DEF handle_server_frame, SeedHistory
<1>5. m.ad.counter > st.seen_counters[m.from]
  BY <1>1 DEF exceeds_seen_counter
<1>6. /\ r \in UiState
      /\ r.shown = Append(st.shown, m)
      /\ r.seen_counters = [st.seen_counters EXCEPT ![m.from] = m.ad.counter]
  BY <1>1, <1>2, <1>3, <1>4, <1>5, SeedEffect
<1> HIDE DEF m
<1>7. Items(st.shown) \subseteq RoomMessage
  BY <1>3, ElementOfSeq DEF Items
<1>8. \A k \in RoomMessage : k.from \in Users /\ k.ad.counter \in Nat
  BY DEF RoomMessage, MessageAd
<1>9. \A k \in Items(st.shown) : k.from = m.from => k.ad.counter < m.ad.counter
  <2> SUFFICES ASSUME NEW k \in Items(st.shown), k.from = m.from
               PROVE  k.ad.counter < m.ad.counter
    OBVIOUS
  <2>1. k.ad.counter \in Nat /\ st.seen_counters[m.from] \in Nat
    BY <1>2, <1>3, <1>7, <1>8
  <2>2. k.ad.counter <= st.seen_counters[m.from]
    BY DEF ReadInv
  <2> QED
    BY <1>2, <1>5, <2>1, <2>2
<1>10. Items(r.shown) = Items(st.shown) \cup {m} /\ InOrder(r.shown)
  <2>1. InOrder(st.shown)
    BY DEF ReadInv
  <2> QED
    BY <1>2, <1>3, <1>6, <1>9, <2>1, ShowMore
<1>11. \A s \in Users : r.seen_counters[s] =
          IF s = m.from THEN m.ad.counter ELSE st.seen_counters[s]
  BY <1>3, <1>6
<1>12. ASSUME NEW k \in Items(r.shown)
       PROVE  k.ad.counter <= r.seen_counters[k.from]
  <2>1. CASE k = m
    BY <1>2, <1>11, <2>1
  <2>2. CASE k \in Items(st.shown) /\ k.from = m.from
    <3>1. k.ad.counter < m.ad.counter /\ k.ad.counter \in Nat
      BY <1>7, <1>8, <1>9, <2>2
    <3>2. r.seen_counters[k.from] = m.ad.counter
      BY <1>2, <1>11, <2>2
    <3> QED
      BY <1>2, <3>1, <3>2
  <2>3. CASE k \in Items(st.shown) /\ k.from # m.from
    <3>1. k.ad.counter <= st.seen_counters[k.from]
      BY <2>3 DEF ReadInv
    <3> QED
      BY <1>7, <1>8, <1>11, <2>3, <3>1
  <2> QED
    BY <1>10, <2>1, <2>2, <2>3
<1>13. Items(frames[1].history) \subseteq Items(r.shown)
  BY <1>10 DEF ReadInv
<1>14. ASSUME NEW i \in 2..n, frames[i].kind = "Message",
              NewerThan(frames[i].msg, frames[1].history)
       PROVE  frames[i].msg \in Items(r.shown)
  <2>1. i \in 2..(n - 1) \/ i = n
    BY <1>0
  <2>2. CASE i = n
    BY <1>10, <2>2 DEF m
  <2>3. CASE i \in 2..(n - 1)
    BY <1>10, <1>14, <2>3 DEF ReadInv
  <2> QED
    BY <2>1, <2>2, <2>3
<1>15. ASSUME NEW s \in Users
       PROVE  \/ r.seen_counters[s] = 0
              \/ ReplayCounter(frames[1].history, s, r.seen_counters[s])
              \/ LiveCounter(frames, n, s, r.seen_counters[s])
  <2>1. CASE s = m.from
    <3>1. n \in 2..n /\ r.seen_counters[s] = m.ad.counter
      BY <1>0, <1>11, <2>1
    <3> QED
      BY <2>1, <3>1 DEF LiveCounter, m
  <2>2. CASE s # m.from
    <3>1. r.seen_counters[s] = st.seen_counters[s]
      BY <1>11, <2>2
    <3>2. \A i \in 2..(n - 1) : i \in 2..n
      BY <1>0
    <3>3. \A c : LiveCounter(frames, n - 1, s, c) => LiveCounter(frames, n, s, c)
      BY <3>2 DEF LiveCounter
    <3> QED
      BY <3>1, <3>3 DEF ReadInv
  <2> QED
    BY <2>1, <2>2
<1> QED
  BY <1>6, <1>10, <1>12, <1>13, <1>14, <1>15 DEF ReadInv

(* A message the filter refuses is one that the replay overtook.           *)
LEMMA ReadRefused ==
  ASSUME NEW frames, Orderly(frames), NEW n \in 2..Len(frames),
         NEW st, ReadInv(st, frames, n - 1),
         frames[n].kind = "Message", ~exceeds_seen_counter(st, frames[n].msg)
  PROVE  ~NewerThan(frames[n].msg, frames[1].history)
<1> DEFINE m == frames[n].msg
           c == st.seen_counters[m.from]
<1>0. /\ Len(frames) \in Nat /\ n \in Nat /\ n \in 1..Len(frames)
      /\ 1 \in 1..Len(frames)
  BY LenProperties DEF Orderly
<1>1. /\ frames[n] \in ServerFrame /\ m.from = m.ad.from /\ m.ad.counter # 0
      /\ frames[1] \in ServerFrame /\ frames[1].kind = "Welcome"
  BY <1>0, ElementOfSeq DEF Orderly, FaithfulFrame
<1>2. /\ m \in RoomMessage /\ m.from \in Users /\ m.ad.counter \in Nat
  BY <1>1 DEF ServerFrame, RoomMessage, MessageAd
<1>3. c \in Nat
  BY <1>2 DEF ReadInv, UiState
<1>4. m.ad.counter <= c
  BY <1>1, <1>2, <1>3 DEF exceeds_seen_counter
<1>5. c # 0
  BY <1>1, <1>2, <1>3, <1>4
<1>6. ~LiveCounter(frames, n - 1, m.from, c)
  <2> SUFFICES ASSUME NEW i \in 2..(n - 1), frames[i].kind = "Message",
                      frames[i].msg.from = m.from, frames[i].msg.ad.counter = c
               PROVE  FALSE
    BY DEF LiveCounter
  <2>1. i \in 1..Len(frames) /\ i < n
    BY <1>0
  <2>2. c < m.ad.counter
    BY <1>0, <2>1 DEF Orderly, Ordered, Before
  <2> QED
    BY <1>2, <1>3, <1>4, <2>2
<1>7. ReplayCounter(frames[1].history, m.from, c)
  BY <1>2, <1>5, <1>6 DEF ReadInv
<1>8. PICK k \in Items(frames[1].history) : k.from = m.from /\ k.ad.counter = c
  BY <1>7 DEF ReplayCounter
<1>9. ~(k.ad.counter < m.ad.counter)
  BY <1>2, <1>3, <1>4, <1>8
<1> QED
  BY <1>8, <1>9 DEF NewerThan

(* Whatever frame comes after the Welcome.                                 *)
LEMMA ReadStep ==
  ASSUME NEW frames, Orderly(frames), NEW n \in 2..Len(frames),
         NEW st, ReadInv(st, frames, n - 1),
         NEW r, r = handle_server_frame(st, frames[n])
  PROVE  ReadInv(r, frames, n)
<1>0. /\ Len(frames) \in Nat /\ n \in Nat /\ 2 <= n /\ n \in 1..Len(frames)
      /\ n # 1
  BY LenProperties DEF Orderly
<1>1. frames[n] \in ServerFrame /\ frames[n].kind # "Welcome"
  BY <1>0, ElementOfSeq DEF Orderly
<1>2. st \in UiState /\ SystemLine \in Lines
  BY DEF ReadInv, Lines
<1>3. CASE frames[n].kind = "Message" /\ exceeds_seen_counter(st, frames[n].msg)
  BY <1>3, ReadAccepted
<1>4. CASE frames[n].kind = "Message" /\ ~exceeds_seen_counter(st, frames[n].msg)
  <2>1. r = push_line(st, SystemLine)
    BY <1>4 DEF handle_server_frame
  <2>2. /\ r \in UiState /\ r.shown = st.shown
        /\ r.seen_counters = st.seen_counters
    BY <1>2, <2>1, PushLineEffect
  <2>3. ~NewerThan(frames[n].msg, frames[1].history)
    BY <1>4, ReadRefused
  <2> QED
    BY <1>0, <2>2, <2>3, ReadQuiet
<1>5. CASE frames[n].kind = "Cleared"
  <2>1. r = push_line([st EXCEPT !.messages = <<>>], SystemLine)
    BY <1>5 DEF handle_server_frame
  <2>2. /\ r \in UiState /\ r.shown = st.shown
        /\ r.seen_counters = st.seen_counters
    BY <1>2, <2>1, ClearedEffect
  <2> QED
    BY <1>0, <1>5, <2>2, ReadQuiet
<1>6. frames[n].kind \in {"Message", "Cleared"}
  BY <1>1 DEF ServerFrame
<1> QED
  BY <1>3, <1>4, <1>5, <1>6

IsRead(f, frames, n) ==
  f = [i \in 0..n |-> IF i = 0 THEN UiState0
                      ELSE handle_server_frame(f[i - 1], frames[i])]

(* The recursive function behind Read exists.                              *)
LEMMA ReadExists ==
  ASSUME NEW frames, NEW n \in Nat
  PROVE  \E f : IsRead(f, frames, n)
<1> DEFINE T == {k \in Nat : ~ \E f : IsRead(f, frames, k)}
<1>1. SUFFICES ASSUME T # {} PROVE FALSE
  OBVIOUS
<1>2. PICK k \in T : \A m \in T : k <= m
  <2>1. T \subseteq Nat
    OBVIOUS
  <2> HIDE DEF T
  <2> QED
    BY <1>1, <2>1, Least
<1>3. k # 0
  <2>1. IsRead([i \in 0..0 |-> UiState0], frames, 0)
    BY DEF IsRead
  <2> QED
    BY <1>2, <2>1
<1>4. k \in Nat /\ k - 1 \in Nat /\ k - 1 \notin T
  BY <1>2, <1>3
<1>5. PICK f : IsRead(f, frames, k - 1)
  BY <1>4
<1> DEFINE g == [i \in 0..k |-> IF i = k
                                  THEN handle_server_frame(f[k - 1], frames[k])
                                  ELSE f[i]]
<1>6. ASSUME NEW i \in 0..k
      PROVE  g[i] = IF i = 0 THEN UiState0
                    ELSE handle_server_frame(g[i - 1], frames[i])
  <2>1. CASE i = k
    <3>1. /\ g[i] = handle_server_frame(f[k - 1], frames[k])
          /\ i # 0 /\ g[i - 1] = f[i - 1]
      BY <1>3, <1>4, <2>1
    <3> QED
      BY <2>1, <3>1
  <2>2. CASE i # k
    <3>1. i \in 0..(k - 1) /\ g[i] = f[i]
      BY <1>4, <2>2
    <3>2. f[i] = IF i = 0 THEN UiState0
                 ELSE handle_server_frame(f[i - 1], frames[i])
      BY <1>5, <3>1 DEF IsRead
    <3>3. i # 0 => g[i - 1] = f[i - 1]
      BY <1>4, <2>2, <3>1
    <3> QED
      BY <3>1, <3>2, <3>3
  <2> QED
    BY <2>1, <2>2
<1>7. g = [i \in 0..k |-> g[i]]
  OBVIOUS
<1> HIDE DEF g
<1>8. IsRead(g, frames, k)
  BY <1>6, <1>7 DEF IsRead
<1> QED
  BY <1>2, <1>8

(* The client that has read an orderly stream.                             *)
LEMMA ReadEffect ==
  ASSUME NEW frames, Orderly(frames)
  PROVE  IF frames = <<>> THEN Read(frames) = UiState0
         ELSE ReadInv(Read(frames), frames, Len(frames))
<1> DEFINE f == CHOOSE g : IsRead(g, frames, Len(frames))
<1>0. Len(frames) \in Nat
  BY LenProperties DEF Orderly
<1>1. IsRead(f, frames, Len(frames))
  BY <1>0, ReadExists, Zenon
<1>2. Read(frames) = f[Len(frames)]
  BY DEF Read, IsRead
<1> HIDE DEF f
<1>3. \A n \in 0..Len(frames) :
        f[n] = IF n = 0 THEN UiState0
               ELSE handle_server_frame(f[n - 1], frames[n])
  BY <1>1 DEF IsRead
<1>4. CASE frames = <<>>
  <2>1. Len(frames) = 0
    BY <1>4
  <2> QED
    BY <1>2, <1>3, <1>4, <2>1
<1>5. CASE frames # <<>>
  <2>0. Len(frames) # 0
    BY <1>5, EmptySeq DEF Orderly
  <2> DEFINE T == {n \in 1..Len(frames) : ~ReadInv(f[n], frames, n)}
  <2>1. T = {}
    <3> SUFFICES ASSUME T # {} PROVE FALSE
      OBVIOUS
    <3>1. PICK n \in T : \A m \in T : n <= m
      <4>1. T \subseteq Nat
        BY <1>0
      <4> HIDE DEF T
      <4> QED
        BY <4>1, Least
    <3>2. n \in 1..Len(frames) /\ ~ReadInv(f[n], frames, n)
      BY <3>1
    <3>3. f[n] = handle_server_frame(f[n - 1], frames[n])
      <4>1. n \in 0..Len(frames) /\ n # 0
        BY <1>0, <3>2
      <4> QED
        BY <1>3, <4>1
    <3>4. CASE n = 1
      <4>1. 0 \in 0..Len(frames) /\ n - 1 = 0
        BY <1>0, <3>4
      <4>2. f[1] = handle_server_frame(UiState0, frames[1])
        BY <1>3, <3>3, <3>4, <4>1
      <4> QED
        BY <1>5, <3>2, <3>4, <4>2, ReadWelcome
    <3>5. CASE n # 1
      <4>1. n \in 2..Len(frames) /\ n - 1 \in 1..Len(frames) /\ ~(n <= n - 1)
        BY <1>0, <3>2, <3>5
      <4>2. ReadInv(f[n - 1], frames, n - 1)
        BY <3>1, <4>1
      <4> QED
        BY <3>2, <3>3, <4>1, <4>2, ReadStep
    <3> QED
      BY <3>4, <3>5
  <2>2. Len(frames) \in 1..Len(frames)
    BY <1>0, <2>0
  <2> QED
    BY <1>2, <1>5, <2>1, <2>2
<1> QED
  BY <1>4, <1>5

(* What a peer has read is such a stream.                                  *)
LEMMA WrittenIsOrderly ==
  ASSUME TypeInv, OrderInv, HistoryInv, OpeningInv, NEW u \in Users
  PROVE  Orderly(got[u])
<1>1. got[u] \in Seq(ServerFrame)
  BY StreamTypes
<1>2. Ordered(got[u])
  BY DEF OrderInv, PartsOrdered
<1>3. \A i \in 1..Len(got[u]) : (got[u][i].kind = "Welcome") <=> i = 1
  BY DEF OpeningInv, Opening
<1>4. \A i \in 1..Len(got[u]) : FaithfulFrame(got[u][i])
  BY DEF HistoryInv, OnWay, Items
<1> QED
  BY <1>1, <1>2, <1>3, <1>4 DEF Orderly

(* For any number of clients, any interleaving and any capacities, what a  *)
(* client has put on its screen are the messages of each sender in the     *)
(* order of their counters and none twice: the replay filter of            *)
(* handle_server_frame, seeded from the Welcome, catches every message     *)
(* that comes in both the replay and the live stream.                      *)
THEOREM ShownIsOrdered == Spec => []ShownOnceInOrder
<1>1. TypeInv /\ OrderInv /\ HistoryInv /\ OpeningInv => ShownOnceInOrder
  <2> SUFFICES ASSUME TypeInv, OrderInv, HistoryInv, OpeningInv, NEW u \in Users
               PROVE  InOrder(Client(u).shown)
    BY DEF ShownOnceInOrder, InOrder
  <2>1. IF got[u] = <<>> THEN Client(u) = UiState0
        ELSE ReadInv(Client(u), got[u], Len(got[u]))
    BY WrittenIsOrderly, ReadEffect DEF Client
  <2>2. InOrder(UiState0.shown)
    BY DEF InOrder, UiState0
  <2> QED
    BY <2>1, <2>2 DEF ReadInv
<1> QED
  BY <1>1, TypeInvariant, OrderInvariant, HistoryInvariant, OpeningInvariant, PTL

(* For any number of clients, any interleaving and any capacities, a       *)
(* client that has read all that was sent to it has shown every message of *)
(* the room's history: a message that its replay filter swallows was in    *)
(* its Welcome, because a Welcome has all that is older than its newest.   *)
THEOREM HistoryIsShown == Spec => []HistoryShown
<1>1. TypeInv /\ OrderInv /\ HistoryInv /\ JoinInv /\ OpeningInv /\ WelcomeInv
        => HistoryShown
  <2> SUFFICES ASSUME TypeInv, OrderInv, HistoryInv, JoinInv, OpeningInv,
                      WelcomeInv, NEW u \in Users, CaughtUp(u),
                      NEW k \in 1..Len(history)
               PROVE  history[k] \in Items(Client(u).shown)
    BY DEF HistoryShown, Contains, Items
  <2> DEFINE m == history[k]
             h == got[u][1].history
  <2>1. m \in Items(history) /\ ~StillToSend(u, m) /\ Joined(u)
    BY DEF Items, CaughtUp, StillToSend
  <2>2. got[u] # <<>> /\ outbox[u] = <<>> /\ ~Writing(u)
    BY DEF CaughtUp, OpeningInv, Opening, BeforePump, Writing
  <2>3. OnWay(u) = Items(got[u])
    BY <2>2 DEF OnWay, Items
  <2>4. PICK f \in Items(got[u]) : CarriesMessage(f, m)
    BY <2>1, <2>3 DEF JoinInv, Reached
  <2>5. PICK i \in 1..Len(got[u]) : f = got[u][i]
    BY DEF Items
  <2>6. ReadInv(Client(u), got[u], Len(got[u])) /\ Orderly(got[u])
    BY <2>2, WrittenIsOrderly, ReadEffect DEF Client
  <2>7. Len(got[u]) \in Nat /\ 1 \in 1..Len(got[u])
    BY <2>5, <2>6, LenProperties DEF Orderly
  <2>8. CASE m \in Items(h)
    BY <2>6, <2>8 DEF ReadInv
  <2>9. CASE m \notin Items(h)
    <3>1. f.kind = "Message" /\ f.msg = m
      <4>1. f.kind = "Welcome" => i = 1
        BY <2>5, <2>6 DEF Orderly
      <4>2. f.kind = "Welcome" => f.history = h
        BY <2>5, <4>1
      <4> QED
        BY <2>4, <2>9, <4>2 DEF CarriesMessage, Items
    <3>2. i \in 2..Len(got[u])
      <4>1. i # 1
        BY <2>5, <2>6, <2>7, <3>1 DEF Orderly
      <4> QED
        BY <2>7, <4>1
    <3>3. got[u][1] \in OnWay(u) /\ got[u][1].kind = "Welcome"
      BY <2>3, <2>6, <2>7 DEF Orderly, Items
    <3>4. WelcomeClosed(got[u][1])
      BY <3>3 DEF WelcomeInv
    <3>5. NewerThan(m, h)
      <4> SUFFICES ASSUME NEW n \in Items(h), n.from = m.from
                   PROVE  n.ad.counter < m.ad.counter
        BY DEF NewerThan
      <4>1. ~(m.ad.counter <= n.ad.counter)
        BY <2>1, <2>9, <3>4 DEF WelcomeClosed
      <4>2. m \in RoomMessage
        BY ElementOfSeq DEF TypeInv, TypeOK
      <4>3. n \in RoomMessage
        <5>1. got[u][1] \in ServerFrame
          BY <3>3, StreamTypes
        <5>2. h \in Seq(RoomMessage)
          BY <3>3, <5>1 DEF ServerFrame
        <5> QED
          BY <5>2, ElementOfSeq DEF Items
      <4>4. m.ad.counter \in Nat /\ n.ad.counter \in Nat
        BY <4>2, <4>3 DEF RoomMessage, MessageAd
      <4> QED
        BY <4>1, <4>4
    <3> QED
      BY <2>5, <2>6, <3>1, <3>2, <3>5 DEF ReadInv
  <2> QED
    BY <2>8, <2>9
<1> QED
  BY <1>1, TypeInvariant, OrderInvariant, HistoryInvariant, JoinInvariant,
     OpeningInvariant, WelcomeInvariant, PTL

-----------------------------------------------------------------------------
(* What a stream leaves for the replay                                     *)

(* What the frame f makes of the messages kept so far.                     *)
Echo(kept, f) ==
  IF f.kind = "Cleared" THEN <<>>
  ELSE IF f.kind = "Message" /\ ~f.msg.ad.ephemeral THEN Append(kept, f.msg)
  ELSE kept

IsKept(g, st, n) ==
  g = [i \in 0..n |->
         IF i = 0 \/ st[i].kind = "Cleared" THEN <<>>
         ELSE IF st[i].kind = "Message" /\ ~st[i].msg.ad.ephemeral
                THEN Append(g[i - 1], st[i].msg)
                ELSE g[i - 1]]

(* The same, as a base case and a step.                                    *)
LEMMA KeptByEcho ==
  ASSUME NEW g, NEW st, NEW n \in Nat, IsKept(g, st, n)
  PROVE  /\ g[0] = <<>>
         /\ \A i \in 1..n : g[i] = Echo(g[i - 1], st[i])
<1>1. 0 \in 0..n /\ \A i \in 1..n : i \in 0..n /\ i # 0
  OBVIOUS
<1> QED
  BY <1>1 DEF IsKept, Echo

(* The recursive function behind SinceClear exists.                        *)
LEMMA KeptExists ==
  ASSUME NEW st, NEW n \in Nat
  PROVE  \E g : IsKept(g, st, n)
<1> DEFINE T == {k \in Nat : ~ \E g : IsKept(g, st, k)}
<1>1. SUFFICES ASSUME T # {} PROVE FALSE
  OBVIOUS
<1>2. PICK k \in T : \A m \in T : k <= m
  <2>1. T \subseteq Nat
    OBVIOUS
  <2> HIDE DEF T
  <2> QED
    BY <1>1, <2>1, Least
<1>3. k # 0
  <2>1. IsKept([i \in 0..0 |-> <<>>], st, 0)
    BY DEF IsKept
  <2> QED
    BY <1>2, <2>1
<1>4. k \in Nat /\ k - 1 \in Nat /\ k - 1 \notin T
  BY <1>2, <1>3
<1>5. PICK f : IsKept(f, st, k - 1)
  BY <1>4
<1> DEFINE g == [i \in 0..k |-> IF i = k THEN Echo(f[k - 1], st[k]) ELSE f[i]]
<1>6. ASSUME NEW i \in 0..k
      PROVE  g[i] = IF i = 0 THEN <<>> ELSE Echo(g[i - 1], st[i])
  <2>1. CASE i = k
    <3>1. g[i] = Echo(f[k - 1], st[k]) /\ i # 0 /\ g[i - 1] = f[i - 1]
      BY <1>3, <1>4, <2>1
    <3> QED
      BY <2>1, <3>1
  <2>2. CASE i # k
    <3>1. i \in 0..(k - 1) /\ g[i] = f[i]
      BY <1>4, <2>2
    <3>2. f[i] = IF i = 0 THEN <<>> ELSE Echo(f[i - 1], st[i])
      BY <1>5, <3>1 DEF IsKept, Echo
    <3>3. i # 0 => g[i - 1] = f[i - 1]
      BY <1>4, <2>2, <3>1
    <3> QED
      BY <3>1, <3>2, <3>3
  <2> QED
    BY <2>1, <2>2
<1>7. g = [i \in 0..k |-> g[i]]
  OBVIOUS
<1> HIDE DEF g
<1>8. IsKept(g, st, k)
  BY <1>6, <1>7 DEF IsKept, Echo
<1> QED
  BY <1>2, <1>8

(* Two streams that agree on their first n frames leave the same of them.  *)
LEMMA KeptAgree ==
  ASSUME NEW st, NEW su, NEW n \in Nat, NEW l \in Nat, n <= l,
         NEW f, IsKept(f, st, n), NEW g, IsKept(g, su, l),
         \A i \in 1..n : st[i] = su[i]
  PROVE  f[n] = g[n]
<1>1. /\ f[0] = <<>> /\ g[0] = <<>>
      /\ \A i \in 1..n : f[i] = Echo(f[i - 1], st[i])
      /\ \A i \in 1..l : g[i] = Echo(g[i - 1], su[i])
  BY KeptByEcho
<1> DEFINE T == {i \in 0..n : f[i] # g[i]}
<1>2. T = {}
  <2> SUFFICES ASSUME T # {} PROVE FALSE
    OBVIOUS
  <2>1. PICK i \in T : \A j \in T : i <= j
    <3>1. T \subseteq Nat
      OBVIOUS
    <3> HIDE DEF T
    <3> QED
      BY <3>1, Least
  <2>2. i \in 0..n /\ f[i] # g[i]
    BY <2>1
  <2>3. i # 0
    BY <1>1, <2>2
  <2>4. /\ i \in 1..n /\ i \in 1..l
        /\ i - 1 \in 0..n /\ ~(i <= i - 1)
    BY <2>2, <2>3
  <2>5. f[i - 1] = g[i - 1]
    BY <2>1, <2>4
  <2>6. f[i] = Echo(f[i - 1], st[i]) /\ g[i] = Echo(g[i - 1], su[i])
    BY <1>1, <2>4
  <2>7. st[i] = su[i]
    BY <2>4
  <2> QED
    BY <2>2, <2>5, <2>6, <2>7
<1>3. n \in 0..n
  OBVIOUS
<1> QED
  BY <1>2, <1>3

(* A frame at the end of a stream is echoed last; nothing comes of none.   *)
LEMMA SinceClearAppend ==
  ASSUME NEW st \in Seq(ServerFrame), NEW f \in ServerFrame
  PROVE  SinceClear(Append(st, f)) = Echo(SinceClear(st), f)
<1> DEFINE su == Append(st, f)
           a == CHOOSE g : IsKept(g, st, Len(st))
           b == CHOOSE g : IsKept(g, su, Len(su))
<1>1. /\ Len(st) \in Nat /\ Len(su) = Len(st) + 1
      /\ \A i \in 1..Len(st) : su[i] = st[i]
      /\ su[Len(st) + 1] = f
  BY AppendProperties, LenProperties
<1>2. Len(su) \in Nat /\ Len(su) # 0 /\ Len(st) <= Len(su)
  BY <1>1
<1>3. SinceClear(st) = a[Len(st)] /\ SinceClear(su) = b[Len(su)]
  BY DEF SinceClear, IsKept
<1> HIDE DEF su
<1>4. IsKept(a, st, Len(st))
  BY <1>1, KeptExists, Zenon
<1>5. IsKept(b, su, Len(su))
  BY <1>2, KeptExists, Zenon
<1> HIDE DEF a, b
<1>6. a[Len(st)] = b[Len(st)]
  <2>1. \A i \in 1..Len(st) : st[i] = su[i]
    BY <1>1
  <2> QED
    BY <1>1, <1>2, <1>4, <1>5, <2>1, KeptAgree
<1>7. Len(su) \in 1..Len(su) /\ Len(su) - 1 = Len(st)
  BY <1>1
<1>8. \A i \in 1..Len(su) : b[i] = Echo(b[i - 1], su[i])
  BY <1>2, <1>5, KeptByEcho
<1>9. b[Len(su)] = Echo(b[Len(st)], su[Len(su)])
  BY <1>7, <1>8
<1> QED
  BY <1>1, <1>3, <1>6, <1>9 DEF su

(* Nothing is left of nothing.                                             *)
LEMMA SinceClearEmpty == SinceClear(<<>>) = <<>>
<1> DEFINE a == CHOOSE g : IsKept(g, <<>>, 0)
<1>1. SinceClear(<<>>) = a[0]
  BY DEF SinceClear, IsKept
<1>2. IsKept(a, <<>>, 0)
  BY KeptExists, Zenon
<1> HIDE DEF a
<1> QED
  BY <1>1, <1>2, KeptByEcho

(* What is left are messages.                                              *)
LEMMA SinceClearType ==
  ASSUME NEW st \in Seq(ServerFrame)
  PROVE  SinceClear(st) \in Seq(RoomMessage)
<1> DEFINE a == CHOOSE g : IsKept(g, st, Len(st))
<1>1. Len(st) \in Nat
  BY LenProperties
<1>2. SinceClear(st) = a[Len(st)]
  BY DEF SinceClear, IsKept
<1>3. IsKept(a, st, Len(st))
  BY <1>1, KeptExists, Zenon
<1> HIDE DEF a
<1>4. a[0] = <<>> /\ \A i \in 1..Len(st) : a[i] = Echo(a[i - 1], st[i])
  BY <1>1, <1>3, KeptByEcho
<1> DEFINE T == {i \in 0..Len(st) : a[i] \notin Seq(RoomMessage)}
<1>5. T = {}
  <2> SUFFICES ASSUME T # {} PROVE FALSE
    OBVIOUS
  <2>1. PICK i \in T : \A j \in T : i <= j
    <3>1. T \subseteq Nat
      BY <1>1
    <3> HIDE DEF T
    <3> QED
      BY <3>1, Least
  <2>2. i \in 0..Len(st) /\ a[i] \notin Seq(RoomMessage)
    BY <2>1
  <2>3. i # 0
    <3>1. <<>> \in Seq(RoomMessage)
      OBVIOUS
    <3> QED
      BY <1>4, <2>2, <3>1, Zenon
  <2>4. i \in 1..Len(st) /\ i - 1 \in 0..Len(st) /\ ~(i <= i - 1)
    BY <1>1, <2>2, <2>3
  <2>5. a[i - 1] \in Seq(RoomMessage)
    BY <2>1, <2>4
  <2>6. st[i] \in ServerFrame
    BY <2>4, ElementOfSeq
  <2>7. st[i].kind = "Message" => st[i].msg \in RoomMessage
    BY <2>6 DEF ServerFrame
  <2>8. Echo(a[i - 1], st[i]) \in Seq(RoomMessage)
    BY <2>5, <2>7, AppendProperties DEF Echo
  <2> QED
    BY <1>4, <2>2, <2>4, <2>8
<1>6. Len(st) \in 0..Len(st)
  BY <1>1
<1> QED
  BY <1>2, <1>5, <1>6

(* The ring is the end of the list: one message more in the list, one push.*)
LEMMA LastOfAppend ==
  ASSUME NEW e \in Seq(RoomMessage), NEW m \in RoomMessage
  PROVE  LastOf(Append(e, m)) = push(LastOf(e), m)
<1> USE RoomAssumption DEF RoomAssumption
<1> DEFINE H == HISTORY_LEN
           a == Append(e, m)
           n == IF Len(e) < H THEN Len(e) ELSE H
           k == IF Len(a) < H THEN Len(a) ELSE H
           p == push(LastOf(e), m)
<1>1. H \in Nat \ {0} /\ Len(e) \in Nat
  BY LenProperties
<1>2. /\ a \in Seq(RoomMessage) /\ Len(a) = Len(e) + 1
      /\ \A i \in 1..Len(e) : a[i] = e[i]
      /\ a[Len(e) + 1] = m
  BY AppendProperties
<1>3. LastOf(e) = [i \in 1..n |-> e[Len(e) - n + i]]
  BY DEF LastOf
<1>4. LastOf(a) = [i \in 1..k |-> a[Len(a) - k + i]]
  BY DEF LastOf
<1>5. n \in Nat /\ \A i \in 1..n : Len(e) - n + i \in 1..Len(e)
  BY <1>1
<1>6. k \in Nat /\ \A i \in 1..k : Len(a) - k + i \in 1..Len(a)
  BY <1>1, <1>2
<1>7. LastOf(e) \in Seq(RoomMessage) /\ Len(LastOf(e)) = n
  <2>1. \A i \in 1..n : e[Len(e) - n + i] \in RoomMessage
    BY <1>5, ElementOfSeq
  <2> HIDE DEF n
  <2> QED
    BY <1>3, <1>5, <2>1
<1>8. LastOf(a) \in Seq(RoomMessage) /\ Len(LastOf(a)) = k
  <2>1. \A i \in 1..k : a[Len(a) - k + i] \in RoomMessage
    BY <1>2, <1>6, ElementOfSeq
  <2> HIDE DEF k, a
  <2> QED
    BY <1>4, <1>6, <2>1
<1>9. \A i \in 1..n : LastOf(e)[i] = e[Len(e) - n + i]
  BY <1>3
<1>10. \A i \in 1..k : LastOf(a)[i] = a[Len(a) - k + i]
  BY <1>4
<1>11. /\ p \in Seq(RoomMessage) /\ Len(p) \in 1..H
       /\ p[Len(p)] = m
       /\ \E d \in {0, 1} :
            /\ n + 1 = Len(p) + d
            /\ \A i \in 1..(Len(p) - 1) :
                 i + d \in 1..n /\ p[i] = LastOf(e)[i + d]
  <2>1. Len(LastOf(e)) <= H
    BY <1>1, <1>7
  <2>2. p \in Seq(RoomMessage)
    BY <1>1, <1>7, PushType
  <2> DEFINE q == LastOf(e)
  <2>3. q \in Seq(RoomMessage) /\ Len(q) = n /\ Len(q) <= HISTORY_LEN
    BY <1>7, <2>1
  <2>4. p = push(q, m)
    OBVIOUS
  <2> HIDE DEF p, q, n
  <2>5. /\ Len(push(q, m)) \in 1..HISTORY_LEN
        /\ push(q, m)[Len(push(q, m))] = m
        /\ \E d \in {0, 1} :
             /\ Len(q) + 1 = Len(push(q, m)) + d
             /\ \A i \in 1..(Len(push(q, m)) - 1) :
                  i + d \in 1..Len(q) /\ push(q, m)[i] = q[i + d]
    BY <2>3, PushEffect
  <2>6. /\ Len(p) \in 1..HISTORY_LEN
        /\ p[Len(p)] = m
        /\ \E d \in {0, 1} :
             /\ Len(q) + 1 = Len(p) + d
             /\ \A i \in 1..(Len(p) - 1) :
                  i + d \in 1..Len(q) /\ p[i] = q[i + d]
    BY <2>4, <2>5
  <2> QED
    BY <2>2, <2>3, <2>6 DEF q
<1>12. PICK d \in {0, 1} :
         /\ n + 1 = Len(p) + d
         /\ \A i \in 1..(Len(p) - 1) :
              i + d \in 1..n /\ p[i] = LastOf(e)[i + d]
  BY <1>11
<1>13. Len(p) = k
  <2> DEFINE lp == Len(p)
  <2>0. lp \in 1..H /\ n + 1 = lp + d /\ d \in {0, 1}
    BY <1>11, <1>12
  <2>1. n = H => d = 1
    <3> HIDE DEF p
    <3> QED
      BY <1>1, <1>5, <2>0
  <2>2. n # H => d = 0
    <3>1. CASE n # H
      <4>1. p = Append(LastOf(e), m)
        BY <1>7, <3>1 DEF push
      <4>2. lp = n + 1
        BY <1>7, <4>1, AppendProperties
      <4> HIDE DEF lp, n
      <4> QED
        BY <1>5, <2>0, <4>2
    <3> QED
      BY <3>1
  <2> HIDE DEF lp
  <2>3. lp = k
    BY <1>1, <1>2, <2>0, <2>1, <2>2
  <2> QED
    BY <2>3 DEF lp
<1>14. ASSUME NEW i \in 1..k PROVE LastOf(a)[i] = p[i]
  <2>1. LastOf(a)[i] = a[Len(a) - k + i]
    BY <1>10
  <2>2. CASE i = k
    <3>1. Len(a) - k + i = Len(e) + 1
      BY <1>1, <1>2, <1>6, <2>2
    <3> QED
      BY <1>2, <1>11, <1>13, <2>1, <2>2, <3>1
  <2>3. CASE i # k
    <3>1. i \in 1..(k - 1)
      BY <1>6, <2>3
    <3>2. i + d \in 1..n /\ p[i] = LastOf(e)[i + d]
      BY <1>12, <1>13, <3>1
    <3>3. p[i] = e[Len(e) - n + (i + d)]
      BY <1>9, <3>2
    <3>4. n + 1 = k + d
      BY <1>12, <1>13
    <3>5. Len(a) - k + i = Len(e) - n + (i + d)
      <4>1. /\ Len(a) = Len(e) + 1 /\ Len(e) \in Nat /\ n \in Nat
            /\ k \in Nat /\ d \in Nat /\ i \in Nat
        BY <1>1, <1>2, <1>5, <1>6
      <4> HIDE DEF a, k, n
      <4> QED
        BY <3>4, <4>1
    <3>6. Len(e) - n + (i + d) \in 1..Len(e)
      BY <1>5, <3>2
    <3> QED
      BY <1>2, <2>1, <3>3, <3>5, <3>6
  <2> QED
    BY <2>2, <2>3
<1> HIDE DEF p, k, a
<1>15. LastOf(a) = p
  BY <1>8, <1>11, <1>13, <1>14, SeqEqual
<1> QED
  BY <1>15 DEF a, p

(* Nothing sent, nothing stored.                                           *)
LEMMA LastOfEmpty == LastOf(<<>>) = <<>>
<1>1. Len(<<>>) = 0 /\ 0 < HISTORY_LEN
  BY RoomAssumption DEF RoomAssumption
<1>2. LastOf(<<>>) = [i \in 1..0 |-> <<>>[0 - 0 + i]]
  BY <1>1 DEF LastOf
<1>3. 1..0 = {}
  OBVIOUS
<1> QED
  BY <1>2, <1>3

-----------------------------------------------------------------------------
(* A lone client                                                           *)

(* No other client has ever connected.                                     *)
Solo(u) == \A v \in Users \ {u} : task[v] = "unborn"

(* The frame that u's own broadcast has not put into u's outbox.           *)
Owes(u) ==
  \/ task[u] = "announcing"
  \/ task[u] = "sending" /\ u \in todo[u] \cup dead[u]

Owed(u) == IF Owes(u) THEN <<output[u]>> ELSE <<>>

(* The dead of a broadcast are those it has tried; what is owed is what    *)
(* the stream of a lone client lacks to explain the history.               *)
AloneInv(u) ==
  /\ task[u] # "sending" => dead[u] = {}
  /\ todo[u] \cap dead[u] = {}
  /\ Solo(u) /\ task[u] \in {"unborn", "handshaking", "joining"}
       => history = <<>> /\ outbox[u] = <<>>
  /\ Solo(u) /\ Joined(u)
       => history = LastOf(SinceClear(Stream(u) \o Owed(u)))

SoloInv == \A u \in Users : AloneInv(u)

(* The parts of a stream may be put together in any order.                 *)
LEMMA ConcatFrames ==
  \A a, b, c \in Seq(ServerFrame) : (a \o b) \o c = a \o (b \o c)
  BY ConcatAssociative

(* A frame moves from the channel to the task and on to the socket without *)
(* changing the stream.                                                    *)
LEMMA StreamKept ==
  ASSUME TypeInv, NEW u \in Users, Untouched(u) \/ Written(u) \/ Taken(u)
  PROVE  Stream(u)' = Stream(u)
<1>1. /\ Stream(u) = (got[u] \o InHand(u)) \o outbox[u]
      /\ Stream(u)' = (got'[u] \o InHand(u)') \o outbox'[u]
  BY DEF Stream, InHand, Writing
<1>2. got[u] \in Seq(ServerFrame) /\ outbox[u] \in Seq(ServerFrame)
  BY StreamTypes
<1>3. CASE Untouched(u)
  <2>1. InHand(u)' = InHand(u)
    <3>1. CASE Writing(u)
      BY <1>3, <3>1 DEF Untouched, InHand
    <3>2. CASE ~Writing(u)
      BY <1>3, <3>2 DEF Untouched, InHand
    <3> QED
      BY <3>1, <3>2
  <2> QED
    BY <1>1, <1>3, <2>1 DEF Untouched
<1>4. CASE Written(u)
  <2>1. output[u] \in ServerFrame
    BY <1>4 DEF Written, Writing, TypeInv, OutputHeld
  <2>2. InHand(u) = <<output[u]>> /\ InHand(u)' = <<>>
    BY <1>4 DEF Written, InHand
  <2>3. Append(got[u], output[u]) = got[u] \o <<output[u]>>
    BY <1>2, <2>1, AppendIsConcat
  <2>4. Append(got[u], output[u]) \in Seq(ServerFrame)
    BY <1>2, <2>1, AppendProperties
  <2>5. Append(got[u], output[u]) \o <<>> = Append(got[u], output[u])
    BY <2>4, ConcatEmptySeq
  <2> QED
    BY <1>1, <1>4, <2>2, <2>3, <2>5 DEF Written
<1>5. CASE Taken(u)
  <2> DEFINE f == Head(outbox[u])
             rest == Tail(outbox[u])
  <2>1. f \in ServerFrame /\ rest \in Seq(ServerFrame)
    BY <1>2, <1>5, HeadTailProperties DEF Taken
  <2>2. InHand(u) = <<>> /\ InHand(u)' = <<f>>
    BY <1>5 DEF Taken, InHand
  <2>3. <<f>> \in Seq(ServerFrame)
    BY <2>1
  <2>4. <<f>> \o rest = outbox[u]
    <3>1. /\ Len(rest) = Len(outbox[u]) - 1 /\ Len(outbox[u]) \in Nat \ {0}
          /\ \A i \in 1..Len(rest) : rest[i] = outbox[u][i + 1]
          /\ f = outbox[u][1]
      BY <1>2, <1>5, HeadTailProperties, EmptySeq DEF Taken
    <3> DEFINE c == <<f>> \o rest
    <3>2. Len(<<f>>) = 1 /\ <<f>>[1] = f
      OBVIOUS
    <3>3. /\ c \in Seq(ServerFrame) /\ Len(c) = 1 + Len(rest)
          /\ \A i \in 1..(1 + Len(rest)) :
               c[i] = IF i <= 1 THEN <<f>>[i] ELSE rest[i - 1]
      <4> HIDE DEF f, rest
      <4>1. /\ c \in Seq(ServerFrame) /\ Len(c) = Len(<<f>>) + Len(rest)
            /\ \A i \in 1..(Len(<<f>>) + Len(rest)) :
                 c[i] = IF i <= Len(<<f>>) THEN <<f>>[i]
                        ELSE rest[i - Len(<<f>>)]
        BY <2>1, <2>3, ConcatProperties
      <4> HIDE DEF c
      <4> QED
        BY <3>2, <4>1
    <3> HIDE DEF c, f, rest
    <3>4. Len(c) = Len(outbox[u])
      BY <3>1, <3>3
    <3>5. ASSUME NEW i \in 1..Len(c) PROVE c[i] = outbox[u][i]
      <4>1. CASE i = 1
        BY <3>1, <3>2, <3>3, <4>1
      <4>2. CASE i # 1
        <5>1. ~(i <= 1) /\ i - 1 \in 1..Len(rest) /\ (i - 1) + 1 = i
          BY <3>1, <3>3, <4>2
        <5>2. i \in 1..(1 + Len(rest))
          BY <3>3
        <5>3. c[i] = rest[i - 1]
          BY <3>3, <5>1, <5>2
        <5>4. rest[i - 1] = outbox[u][(i - 1) + 1]
          BY <3>1, <5>1
        <5> QED
          BY <5>1, <5>3, <5>4
      <4> QED
        BY <4>1, <4>2
    <3> QED
      BY <1>2, <3>3, <3>4, <3>5, SeqEqual DEF c
  <2>5. got[u] \o <<>> = got[u]
    BY <1>2, ConcatEmptySeq
  <2>6. (got[u] \o <<f>>) \o rest = got[u] \o (<<f>> \o rest)
    <3> HIDE DEF f, rest
    <3> QED
      BY <1>2, <2>1, <2>3, ConcatFrames
  <2> QED
    BY <1>1, <1>5, <2>2, <2>4, <2>5, <2>6 DEF Taken
<1> QED
  BY <1>3, <1>4, <1>5

(* A send adds its frame at the end of the stream.                         *)
LEMMA StreamSent ==
  ASSUME TypeInv, NEW u \in Users, NEW f \in ServerFrame,
         got'[u] = got[u], InHand(u)' = InHand(u),
         outbox'[u] = Append(outbox[u], f)
  PROVE  /\ Stream(u)' = Append(Stream(u), f)
         /\ Stream(u) \in Seq(ServerFrame)
<1> DEFINE front == got[u] \o InHand(u)
<1>1. /\ Stream(u) = front \o outbox[u]
      /\ Stream(u)' = front \o Append(outbox[u], f)
  BY DEF Stream, InHand, Writing
<1>2. front \in Seq(ServerFrame) /\ outbox[u] \in Seq(ServerFrame)
  BY StreamTypes, StreamParts
<1> HIDE DEF front
<1>3. /\ front \o outbox[u] \in Seq(ServerFrame) /\ <<f>> \in Seq(ServerFrame)
  BY <1>2, ConcatProperties
<1>4. Append(outbox[u], f) = outbox[u] \o <<f>>
  BY <1>2, AppendIsConcat
<1>5. Append(front \o outbox[u], f) = (front \o outbox[u]) \o <<f>>
  BY <1>3, AppendIsConcat
<1>6. (front \o outbox[u]) \o <<f>> = front \o (outbox[u] \o <<f>>)
  BY <1>2, <1>3, ConcatFrames
<1> QED
  BY <1>1, <1>3, <1>4, <1>5, <1>6

(* A stream is a sequence of frames.                                       *)
LEMMA StreamType ==
  ASSUME TypeInv, NEW u \in Users
  PROVE  Stream(u) \in Seq(ServerFrame)
<1>1. /\ Stream(u) = (got[u] \o InHand(u)) \o outbox[u]
      /\ got[u] \o InHand(u) \in Seq(ServerFrame)
      /\ outbox[u] \in Seq(ServerFrame)
  BY StreamParts, StreamTypes
<1> QED
  BY <1>1, ConcatProperties

(* A broadcast marks dead whom it has tried and nobody else, and forgets   *)
(* them when it ends.                                                      *)
LEMMA DeadStep ==
  ASSUME TypeInv, NEW u \in Users, [Next]_vars,
         task[u] # "sending" => dead[u] = {}, todo[u] \cap dead[u] = {}
  PROVE  /\ task'[u] # "sending" => dead'[u] = {}
         /\ todo'[u] \cap dead'[u] = {}
<1> USE DEF TypeInv, TypeOK, Goto, JustGoto, sessionVars, tables, taskVars,
            sweepVars, netVars, outside
<1>1. ASSUME UNCHANGED <<task[u], todo[u], dead[u]>>
      PROVE  /\ task'[u] # "sending" => dead'[u] = {}
             /\ todo'[u] \cap dead'[u] = {}
  BY <1>1
<1>2. ASSUME NEW v \in Users, TrySend(u, v)
      PROVE  /\ task'[u] # "sending" => dead'[u] = {}
             /\ todo'[u] \cap dead'[u] = {}
  BY <1>2 DEF TrySend
<1>3. CASE SnapshotConns(u) \/ EvictDead(u)
  BY <1>3 DEF SnapshotConns, EvictDead
<1>4. ASSUME TaskStep(u) \/ Environment(u), ~SnapshotConns(u), ~EvictDead(u),
             ~\E v \in Users : TrySend(u, v)
      PROVE  /\ UNCHANGED <<todo[u], dead[u]>>
             /\ task'[u] = "sending" <=> task[u] = "sending"
  BY <1>4
  DEF TaskStep, Environment, Accept, HandshakeFails, Register,
      SnapshotHistory, SendWelcome, WelcomeFails, PumpShutdown, PumpTake,
      PumpWrite, PumpWriteFails, PumpClosed, PumpReadFails, PumpRead,
      CleanupSession, CleanupConn,
      RejectFrame, RejectOverQuota, AcceptMessage, AcceptClear, StoreMessage,
      StoreClear, Stall, Hangup, PeerTurns, GoIdle, WriteFrame
<1>5. ASSUME NEW t \in Users, t # u, TaskStep(t) \/ Environment(t)
      PROVE  UNCHANGED <<task[u], todo[u], dead[u]>>
  BY <1>5, OthersKept
<1>6. CASE Sweep \/ CtrlC \/ Returned \/ UNCHANGED vars
  BY <1>1, <1>6 DEF Sweep, SweepScan, SweepRemove, SweepStop, CtrlC, Returned,
                    vars
<1> QED
  BY <1>1, <1>2, <1>3, <1>4, <1>5, <1>6 DEF Next

(* A lone client was alone before, and only its own task can have touched  *)
(* the room.                                                               *)
LEMMA SoloStep ==
  ASSUME TypeInv, NEW u \in Users, [Next]_vars, Solo(u)'
  PROVE  /\ Solo(u)
         /\ \/ TaskStep(u) \/ Environment(u)
            \/ UNCHANGED <<history, outbox, taskVars, got, peer>>
<1> USE DEF TypeInv, TypeOK, Goto, JustGoto, sessionVars, tables, taskVars,
            sweepVars, netVars, outside
<1>1. ASSUME NEW t \in Users, TaskStep(t) \/ Environment(t), t # u,
             task'[t] = "unborn"
      PROVE  task[t] = "unborn" /\ GoIdle(t)
  BY <1>1
  DEF TaskStep, Environment, Accept, HandshakeFails, Register,
      SnapshotHistory, SendWelcome, WelcomeFails, PumpShutdown, PumpTake,
      PumpWrite, PumpWriteFails, PumpClosed, PumpReadFails, PumpRead,
      CleanupSession, CleanupConn,
      RejectFrame, RejectOverQuota, AcceptMessage, AcceptClear, StoreMessage,
      StoreClear, SnapshotConns, TrySend, EvictDead, Stall, Hangup, PeerTurns,
      GoIdle
<1>2. ASSUME NEW t \in Users, TaskStep(t) \/ Environment(t), t # u
      PROVE  Solo(u) /\ UNCHANGED <<history, outbox, taskVars, got, peer>>
  <2>1. task'[t] = "unborn"
    BY <1>2 DEF Solo
  <2>2. GoIdle(t)
    BY <1>1, <1>2, <2>1
  <2> QED
    BY <2>2 DEF GoIdle, Solo
<1>3. ASSUME TaskStep(u) \/ Environment(u) PROVE Solo(u)
  BY <1>3, OthersKept DEF Solo
<1>4. CASE Sweep \/ CtrlC \/ Returned \/ UNCHANGED vars
  BY <1>4 DEF Sweep, SweepScan, SweepRemove, SweepStop, CtrlC, Returned, vars,
              Solo
<1> QED
  BY <1>2, <1>3, <1>4 DEF Next

(* The steps of a lone client's task that store nothing: what was sent and *)
(* what is owed stay together what they were.                              *)
LEMMA WholeKept ==
  ASSUME TypeInv, NEW u \in Users, Solo(u), Joined(u), Joined(u)',
         TaskStep(u) \/ Environment(u), ~StoreMessage(u), ~StoreClear(u),
         AloneInv(u), peer[u] # "closed"
  PROVE  /\ (Stream(u) \o Owed(u))' = Stream(u) \o Owed(u)
         /\ UNCHANGED history
<1> USE DEF TypeInv, TypeOK, Goto, JustGoto, sessionVars, tables, taskVars,
            sweepVars, netVars, outside
<1>1. UNCHANGED history
  <2> USE DEF TaskStep, Environment
  <2> QED
    BY DEF Accept, HandshakeFails, Register,
      SnapshotHistory, SendWelcome, WelcomeFails, PumpShutdown, PumpTake,
      PumpWrite, PumpWriteFails, PumpClosed, PumpReadFails, PumpRead,
      CleanupSession, CleanupConn,
      RejectFrame, RejectOverQuota, AcceptMessage, AcceptClear,
      SnapshotConns, TrySend, EvictDead, Stall, Hangup, PeerTurns, GoIdle
<1>2. ASSUME NEW v \in Users, TrySend(u, v), v = u, CanSend(u)
      PROVE  (Stream(u) \o Owed(u))' = Stream(u) \o Owed(u)
  <2>1. output[u] \in ServerFrame
    BY <1>2 DEF TrySend, OutputHeld
  <2>2. /\ got'[u] = got[u] /\ InHand(u)' = InHand(u)
        /\ outbox'[u] = Append(outbox[u], output[u])
    BY <1>2 DEF TrySend, InHand, Writing
  <2>3. Stream(u)' = Append(Stream(u), output[u]) /\ Stream(u) \in Seq(ServerFrame)
    BY <2>1, <2>2, StreamSent
  <2>4. Owed(u) = <<output[u]>>
    BY <1>2 DEF TrySend, Owed, Owes
  <2>5. Owed(u)' = <<>>
    BY <1>2 DEF TrySend, Owed, Owes, AloneInv
  <2>6. Append(Stream(u), output[u]) \in Seq(ServerFrame)
    BY <2>1, <2>3, AppendProperties
  <2>7. Append(Stream(u), output[u]) \o <<>> = Append(Stream(u), output[u])
    BY <2>6, ConcatEmptySeq
  <2>8. Append(Stream(u), output[u]) = Stream(u) \o <<output[u]>>
    BY <2>1, <2>3, AppendIsConcat
  <2> QED
    BY <2>3, <2>4, <2>5, <2>7, <2>8
<1>3. ASSUME NEW v \in Users, TrySend(u, v), v # u \/ ~CanSend(u)
      PROVE  (Stream(u) \o Owed(u))' = Stream(u) \o Owed(u)
  <2>1. Stream(u)' = Stream(u)
    BY <1>3 DEF TrySend, Stream
  <2>2. Owed(u)' = Owed(u)
    BY <1>3 DEF TrySend, Owed, Owes
  <2> QED
    BY <2>1, <2>2
<1>4. ASSUME ~\E v \in Users : TrySend(u, v)
      PROVE  (Stream(u) \o Owed(u))' = Stream(u) \o Owed(u)
  <2>1. WireStep(u)
    BY <1>4, OwnWireStep
  <2>2. ~Dropped(u)
    BY DEF Dropped, Joined
  <2>3. ~Received(u)
    <3>1. \A s \in Users : TrySend(s, u) => s = u
      BY DEF TrySend, Solo
    <3> QED
      BY <1>4, <3>1 DEF Received
  <2>4. ~Replayed(u)
    BY DEF Replayed, Joined
  <2>5. Stream(u)' = Stream(u)
    BY <2>1, <2>2, <2>3, <2>4, StreamKept DEF WireStep
  <2>6. Owes(u)' = Owes(u) /\ (Owes(u) => output'[u] = output[u])
    <3>1. CASE SnapshotConns(u)
      BY <3>1 DEF SnapshotConns, Owes, Joined
    <3>2. CASE EvictDead(u)
      BY <3>2 DEF EvictDead, Owes, Joined
    <3>3. CASE Stall(u) \/ Hangup(u) \/ GoIdle(u)
      BY <3>3 DEF Stall, Hangup, PeerTurns, GoIdle, Owes
    <3>4. CASE ~(SnapshotConns(u) \/ EvictDead(u) \/ Stall(u) \/ Hangup(u)
                 \/ GoIdle(u))
      <4>1. /\ task[u] \notin {"announcing", "sending"}
            /\ task'[u] \notin {"announcing", "sending"}
        BY <1>4, <3>4
        DEF TaskStep, Environment, Accept, HandshakeFails, Register,
            SnapshotHistory, SendWelcome, WelcomeFails, PumpShutdown,
            PumpTake, PumpWrite, PumpWriteFails, PumpClosed, PumpReadFails,
            PumpRead,
            CleanupSession, CleanupConn, RejectFrame, RejectOverQuota,
            AcceptMessage,
            AcceptClear
      <4> QED
        BY <4>1 DEF Owes
    <3> QED
      BY <3>1, <3>2, <3>3, <3>4
  <2>7. Owed(u)' = Owed(u)
    <3>1. CASE Owes(u)
      BY <2>6, <3>1 DEF Owed
    <3>2. CASE ~Owes(u)
      BY <2>6, <3>2 DEF Owed
    <3> QED
      BY <3>1, <3>2
  <2> QED
    BY <2>5, <2>7
<1> QED
  BY <1>1, <1>2, <1>3, <1>4

(* A message or a clear of a lone client: stored, and owed to the client.  *)
LEMMA WholeStored ==
  ASSUME TypeInv, TypeInv', NEW u \in Users, Joined(u), AloneInv(u),
         StoreMessage(u) \/ StoreClear(u),
         history = LastOf(SinceClear(Stream(u) \o Owed(u)))
  PROVE  history' = LastOf(SinceClear((Stream(u) \o Owed(u))'))
<1> DEFINE e == SinceClear(Stream(u))
           f == output'[u]
<1>1. Stream(u) \in Seq(ServerFrame)
  BY StreamType
<1>2. /\ task[u] = "publishing" /\ task'[u] = "announcing"
      /\ UNCHANGED <<got, outbox>>
  BY DEF StoreMessage, StoreClear, Goto, outside, netVars, TypeInv, TypeOK
<1>3. Stream(u)' = Stream(u)
  BY <1>2 DEF Stream
<1>4. Owed(u) = <<>> /\ Owed(u)' = <<f>>
  BY <1>2 DEF Owed, Owes
<1>5. history = LastOf(e)
  <2>1. Stream(u) \o <<>> = Stream(u)
    BY <1>1, ConcatEmptySeq
  <2> QED
    BY <1>4, <2>1
<1>6. f \in ServerFrame
  BY <1>2 DEF TypeInv, OutputHeld
<1>7. e \in Seq(RoomMessage)
  BY <1>1, SinceClearType
<1>8. (Stream(u) \o Owed(u))' = Append(Stream(u), f)
  <2>1. (Stream(u) \o Owed(u))' = Stream(u) \o <<f>>
    BY <1>3, <1>4
  <2> HIDE DEF f
  <2> QED
    BY <1>1, <1>6, <2>1, AppendIsConcat
<1>9. SinceClear(Append(Stream(u), f)) = Echo(e, f)
  <2> HIDE DEF f
  <2> QED
    BY <1>1, <1>6, SinceClearAppend
<1>10. CASE StoreClear(u)
  <2>1. f.kind = "Cleared" /\ history' = <<>>
    BY <1>10 DEF StoreClear, TypeInv, TypeOK
  <2>2. Echo(e, f) = <<>>
    BY <2>1 DEF Echo
  <2> QED
    BY <1>8, <1>9, <2>1, <2>2, LastOfEmpty
<1>11. CASE StoreMessage(u)
  <2>1. /\ f.kind = "Message" /\ f.msg = TheMessage(u)
        /\ history' = IF TheMessage(u).ad.ephemeral THEN history
                      ELSE push(history, TheMessage(u))
    BY <1>11 DEF StoreMessage, TypeInv, TypeOK, TheMessage
  <2>2. f.msg \in RoomMessage
    <3>1. f \in ServerFrame /\ f.kind = "Message"
      BY <1>6, <2>1
    <3> HIDE DEF f
    <3> QED
      BY <3>1 DEF ServerFrame
  <2>3. CASE f.msg.ad.ephemeral
    <3>1. Echo(e, f) = e
      BY <2>1, <2>3 DEF Echo
    <3> QED
      BY <1>5, <1>8, <1>9, <2>1, <2>3, <3>1
  <2>4. CASE ~f.msg.ad.ephemeral
    <3>1. Echo(e, f) = Append(e, f.msg)
      BY <2>1, <2>4 DEF Echo
    <3>2. LastOf(Append(e, f.msg)) = push(LastOf(e), f.msg)
      <4> HIDE DEF e, f
      <4> QED
        BY <1>7, <2>2, LastOfAppend
    <3>3. history' = push(history, f.msg)
      BY <2>1, <2>4
    <3> QED
      BY <1>5, <1>8, <1>9, <3>1, <3>2, <3>3
  <2> QED
    BY <2>3, <2>4
<1> QED
  BY <1>10, <1>11

(* The snapshot of a lone client: there is nothing to replay yet.          *)
LEMMA WholeOpens ==
  ASSUME TypeInv, NEW u \in Users, SnapshotHistory(u), got[u] = <<>>,
         outbox[u] = <<>>, history = <<>>
  PROVE  history' = LastOf(SinceClear((Stream(u) \o Owed(u))'))
<1> DEFINE w == Welcome(u)
<1>1. /\ task'[u] = "welcoming" /\ output'[u] = w /\ got'[u] = <<>>
      /\ outbox'[u] = <<>> /\ history' = <<>>
  BY DEF SnapshotHistory, Goto, TypeInv, TypeOK, tables, outside, netVars
<1>2. w \in ServerFrame /\ w.kind = "Welcome"
  BY WelcomeType DEF TypeInv, Welcome
<1>3. Stream(u)' = (<<>> \o <<w>>) \o <<>> /\ Owed(u)' = <<>>
  BY <1>1 DEF Stream, Owed, Owes
<1> HIDE DEF w
<1>4. <<w>> \in Seq(ServerFrame) /\ <<>> \in Seq(ServerFrame)
  BY <1>2
<1>5. <<>> \o <<w>> = <<w>> /\ <<w>> \o <<>> = <<w>>
  BY <1>4, ConcatEmptySeq
<1>6. (Stream(u) \o Owed(u))' = <<w>>
  BY <1>3, <1>5
<1>7. <<w>> = Append(<<>>, w)
  BY <1>2, <1>4, <1>5, AppendIsConcat
<1>8. SinceClear(Append(<<>>, w)) = Echo(SinceClear(<<>>), w)
  BY <1>2, <1>4, SinceClearAppend
<1>9. SinceClear(Append(<<>>, w)) = <<>>
  BY <1>2, <1>8, SinceClearEmpty DEF Echo
<1> QED
  BY <1>1, <1>6, <1>7, <1>9, LastOfEmpty

(* Every step of a lone client keeps history and stream together.          *)
LEMMA AloneStep ==
  ASSUME TypeInv, TypeInv', OpeningInv, SoloInv, [Next]_vars, NEW u \in Users
  PROVE  AloneInv(u)'
<1>1. AloneInv(u) /\ Opening(u)
  BY DEF SoloInv, OpeningInv
<1>2. /\ task'[u] # "sending" => dead'[u] = {}
      /\ todo'[u] \cap dead'[u] = {}
  BY <1>1, DeadStep DEF AloneInv
<1>3. ASSUME Solo(u)', task'[u] \in {"unborn", "handshaking", "joining"}
      PROVE  history' = <<>> /\ outbox'[u] = <<>>
  <2>1. /\ Solo(u)
        /\ \/ TaskStep(u) \/ Environment(u)
           \/ UNCHANGED <<history, outbox, taskVars, got, peer>>
    BY <1>3, SoloStep
  <2>2. CASE UNCHANGED <<history, outbox, taskVars, got, peer>>
    BY <1>1, <1>3, <2>1, <2>2 DEF AloneInv, taskVars
  <2>3. CASE TaskStep(u) \/ Environment(u)
    <3>1. ASSUME NEW v \in Users, TrySend(u, v)
          PROVE  task'[u] = "sending"
      BY <3>1 DEF TrySend, TypeInv, TypeOK
    <3>2. ~ \E v \in Users : TrySend(u, v)
      BY <1>3, <3>1
    <3>3. \/ Accept(u) \/ Register(u) \/ Stall(u) \/ Hangup(u)
          \/ GoIdle(u)
      <4>1. /\ ~HandshakeFails(u) /\ ~SnapshotHistory(u)
            /\ ~SendWelcome(u) /\ ~WelcomeFails(u)
        BY <1>3
        DEF TypeInv, TypeOK, Goto, JustGoto, HandshakeFails, SnapshotHistory,
            SendWelcome, WelcomeFails
      <4>2. /\ ~PumpShutdown(u) /\ ~PumpTake(u) /\ ~PumpWrite(u)
            /\ ~PumpWriteFails(u) /\ ~PumpClosed(u) /\ ~PumpReadFails(u)
            /\ ~PumpRead(u) /\ ~CleanupSession(u) /\ ~CleanupConn(u)
        BY <1>3
        DEF TypeInv, TypeOK, Goto, JustGoto, PumpShutdown, PumpTake,
            PumpWrite, PumpWriteFails, PumpClosed, PumpReadFails, PumpRead,
            CleanupSession, CleanupConn
      <4>3. /\ ~RejectFrame(u) /\ ~RejectOverQuota(u) /\ ~AcceptMessage(u)
            /\ ~AcceptClear(u) /\ ~StoreMessage(u) /\ ~StoreClear(u)
            /\ ~SnapshotConns(u) /\ ~EvictDead(u)
        BY <1>3
        DEF TypeInv, TypeOK, Goto, JustGoto, RejectFrame, RejectOverQuota,
            AcceptMessage, AcceptClear, StoreMessage, StoreClear,
            SnapshotConns, EvictDead
      <4> QED
        BY <2>3, <3>2, <4>1, <4>2, <4>3 DEF TaskStep, Environment
    <3>4. /\ task[u] \in {"unborn", "handshaking", "joining"}
          /\ UNCHANGED <<history, outbox>>
      BY <1>3, <3>3
      DEF Accept, Register, Stall, Hangup, GoIdle, PeerTurns, Goto,
          JustGoto, TypeInv, TypeOK, tables, taskVars, sessionVars, outside,
          netVars, sweepVars
    <3> QED
      BY <1>1, <2>1, <3>4 DEF AloneInv
  <2> QED
    BY <2>1, <2>2, <2>3
<1>4. ASSUME Solo(u)', Joined(u)'
      PROVE  history' = LastOf(SinceClear((Stream(u) \o Owed(u))'))
  <2>1. /\ Solo(u)
        /\ \/ TaskStep(u) \/ Environment(u)
           \/ UNCHANGED <<history, outbox, taskVars, got, peer>>
    BY <1>4, SoloStep
  <2>2. (Joined(u) \/ task[u] = "joining") /\ peer[u] # "closed"
    BY <1>4, JoinedStep
  <2>3. CASE UNCHANGED <<history, outbox, taskVars, got, peer>>
    <3>1. Joined(u)
      BY <1>4, <2>2, <2>3 DEF Joined, taskVars
    <3>2. (Stream(u) \o Owed(u))' = Stream(u) \o Owed(u)
      BY <2>3 DEF Stream, Owed, Owes, taskVars
    <3> QED
      BY <1>1, <2>1, <2>3, <3>1, <3>2 DEF AloneInv
  <2>4. CASE (TaskStep(u) \/ Environment(u)) /\ Joined(u)
    <3>1. history = LastOf(SinceClear(Stream(u) \o Owed(u)))
      BY <1>1, <2>1, <2>4 DEF AloneInv
    <3>2. CASE StoreMessage(u) \/ StoreClear(u)
      BY <1>1, <2>4, <3>1, <3>2, WholeStored
    <3>3. CASE ~StoreMessage(u) /\ ~StoreClear(u)
      <4>1. /\ (Stream(u) \o Owed(u))' = Stream(u) \o Owed(u)
            /\ UNCHANGED history
        BY <1>1, <1>4, <2>1, <2>2, <2>4, <3>3, WholeKept
      <4> QED
        BY <3>1, <4>1
    <3> QED
      BY <3>2, <3>3
  <2>5. CASE (TaskStep(u) \/ Environment(u)) /\ task[u] = "joining"
    <3>1. SnapshotHistory(u)
      <4>1. task'[u] # "joining"
        BY <1>4 DEF Joined
      <4> QED
        BY <2>5, <4>1
        DEF TaskStep, Environment, Goto, JustGoto, Accept, HandshakeFails,
            Register, SendWelcome, WelcomeFails, PumpShutdown, PumpTake,
            PumpWrite, PumpWriteFails, PumpClosed, PumpReadFails, PumpRead,

            CleanupSession, CleanupConn, RejectFrame, RejectOverQuota,
            AcceptMessage, AcceptClear,
            StoreMessage, StoreClear, SnapshotConns, TrySend, EvictDead,
            GoIdle, Stall, Hangup, PeerTurns, taskVars
    <3>2. history = <<>> /\ outbox[u] = <<>> /\ got[u] = <<>>
      BY <1>1, <2>1, <2>5 DEF AloneInv, Opening, BeforePump
    <3> QED
      BY <3>1, <3>2, WholeOpens
  <2> QED
    BY <2>1, <2>2, <2>3, <2>4, <2>5
<1> QED
  BY <1>2, <1>3, <1>4 DEF AloneInv

(* For any frames and capacities, while a single client has ever connected *)
(* the history is the last HISTORY_LEN messages that were echoed to it     *)
(* since its last clear: what StoreMessage and StoreClear do to the ring   *)
(* and what the broadcast then tells the client agree.                     *)
THEOREM SoloReplayed == Spec => []SoloReplay
<1>1. Init => SoloInv
  BY DEF Init, SoloInv, AloneInv, Joined
<1>2. TypeInv /\ TypeInv' /\ OpeningInv /\ SoloInv /\ [Next]_vars => SoloInv'
  BY AloneStep DEF SoloInv
<1>3. TypeInv /\ SoloInv => SoloReplay
  <2> SUFFICES ASSUME TypeInv, SoloInv, NEW u \in Users, Solo(u), Joined(u),
                      task[u] \in {"pumping", "writing", "handling"}
               PROVE  history = LastOf(SinceClear(Stream(u)))
    BY DEF SoloReplay, Solo
  <2>1. Owed(u) = <<>>
    BY DEF Owed, Owes
  <2>2. Stream(u) \o <<>> = Stream(u)
    BY StreamType, ConcatEmptySeq
  <2> QED
    BY <2>1, <2>2 DEF SoloInv, AloneInv
<1> QED
  BY <1>1, <1>2, <1>3, TypeInvariant, OpeningInvariant, PTL DEF Spec
=============================================================================
