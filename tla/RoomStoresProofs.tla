-------------------------- MODULE RoomStoresProofs --------------------------
(***************************************************************************)
(* The stores of a room, for any users, limits and intervals: the bound on *)
(* idle sessions, the quota and the cooldown as sliding windows, and the   *)
(* size of a Welcome.                                                      *)
(***************************************************************************)
EXTENDS RoomStores, WindowProofs

(* The sweeper is due within one interval, and early enough for every      *)
(* session it has not found stale already.                                 *)
SweepInv ==
  /\ now \in 0..MAX_TIME
  /\ sessions \subseteq Users \ fresh
  /\ last_active \in [Users -> Nat]
  /\ \A u \in Users : last_active[u] <= now
  /\ due \in Nat /\ now <= due /\ due <= now + SWEEP_INTERVAL
  /\ stale \subseteq Users
  /\ held \in 0..HISTORY_LEN
  /\ \A u \in sessions \ stale :
       due <= last_active[u] + SESSION_TIMEOUT + SWEEP_INTERVAL
  /\ \A u \in sessions :
       now <= last_active[u] + SESSION_TIMEOUT + SWEEP_INTERVAL

(* SweepInv is inductive.                                                  *)
LEMMA SweepInvariant == Spec => []SweepInv
<1>a. /\ SWEEP_INTERVAL \in Nat \ {0} /\ HISTORY_LEN \in Nat \ {0}
      /\ SESSION_TIMEOUT \in Nat /\ MAX_TIME \in Nat
  BY StoresAssumption DEF StoresAssumption
<1>1. Init => SweepInv
  BY <1>a DEF Init, SweepInv
<1>2. SweepInv /\ [Next]_vars => SweepInv'
  <2> SUFFICES ASSUME SweepInv, [Next]_vars PROVE SweepInv'
    OBVIOUS
  <2> USE <1>a DEF SweepInv
  <2>0. now \in Nat /\ held \in Nat
    OBVIOUS
  <2>1. ASSUME NEW u \in Users, insert(u) PROVE SweepInv'
    BY <2>1 DEF insert
  <2>2. ASSUME NEW u \in Users, touch(u) PROVE SweepInv'
    BY <2>2 DEF touch
  <2>3. ASSUME NEW u \in Users, remove(u) PROVE SweepInv'
    BY <2>3 DEF remove
  <2>4. ASSUME NEW u \in Users,
               quota_allows(u) \/ quota_refuses(u) \/ try_consume_clear(u)
        PROVE  SweepInv'
    BY <2>4 DEF quota_allows, quota_refuses, try_consume_clear
  <2>5. CASE SweepScan
    BY <2>0, <2>5 DEF SweepScan, Idle
  <2>6. CASE SweepRemove
    BY <2>6 DEF SweepRemove
  <2>7. CASE push \/ clear
    BY <2>7 DEF push, clear
  <2>8. CASE Tick
    BY <2>8 DEF Tick
  <2>9. CASE UNCHANGED vars
    BY <2>9 DEF vars
  <2> QED
    BY <2>1, <2>2, <2>3, <2>4, <2>5, <2>6, <2>7, <2>8, <2>9 DEF Next
<1> QED
  BY <1>1, <1>2, PTL DEF Spec

(* No session outlives its last frame by more than the timeout and one     *)
(* sweep, for any timeout and interval.                                    *)
THEOREM IdleIsBounded == Spec => []IdleBounded
<1>1. SweepInv => IdleBounded
  BY StoresAssumption DEF SweepInv, IdleBounded, StoresAssumption
<1> QED
  BY <1>1, SweepInvariant, PTL

(* The limits that src/proto.rs and src/crypto/noise.rs set.               *)
CodeSizes ==
  /\ HISTORY_LEN = 15 /\ MAX_CIPHERTEXT_LEN = 4096 /\ MAX_USERNAME_LEN = 32
  /\ MAX_FRAME_LEN = 65536 /\ NOISE_BUF = 65535 /\ AEAD_TAG_LEN = 16

(* With the limits of the code, the Welcome of a room that is full of the  *)
(* longest messages fits into a Noise message and a frame.                 *)
THEOREM WelcomeAlwaysFits ==
  ASSUME CodeSizes
  PROVE  Spec => []WelcomeFits
<1>1. SweepInv => WelcomeFits
  <2> SUFFICES ASSUME SweepInv PROVE WelcomeFits
    OBVIOUS
  <2>1. held \in 0..15
    BY DEF SweepInv, CodeSizes
  <2>2. RoomMessage = 4219
    BY DEF CodeSizes, RoomMessage, MessageAd, Uuid, u64, Bytes, varint
  <2>3. transport_seal(Welcome) = 1 + 17 + 1 + held * 4219 + 16
    BY <2>1, <2>2
    DEF CodeSizes, transport_seal, Welcome, Uuid, Bytes, varint
  <2> QED
    BY <2>1, <2>3 DEF CodeSizes, WelcomeFits
<1> QED
  BY <1>1, SweepInvariant, PTL

-----------------------------------------------------------------------------
(* The message quota                                                       *)

QuotaInv ==
  /\ DOMAIN message_window = Users /\ DOMAIN sent = Users
  /\ \A u \in Users :
       /\ Tracks(message_window[u], sent[u], now, MSG_RATE_WINDOW)
       /\ Len(message_window[u]) <= MSG_RATE_MAX

(* What the loop at the start of try_consume_message_quota leaves.         *)
LEMMA UnexpiredTracks ==
  ASSUME QuotaInv, NEW u \in Users
  PROVE  /\ Tracks(Unexpired(u), sent[u], now, MSG_RATE_WINDOW)
         /\ Len(Unexpired(u)) <= MSG_RATE_MAX
         /\ Quota!Cardinality(Quota!Recent(u)) = Len(Unexpired(u))
<1>1. {t \in 0..now : Slid(t)} = Gone(now, MSG_RATE_WINDOW)
  BY DEF Gone, Slid
<1>2. Unexpired(u) = PopWhile(message_window[u], Gone(now, MSG_RATE_WINDOW))
  BY <1>1 DEF Unexpired
<1>3. /\ Tracks(Unexpired(u), sent[u], now, MSG_RATE_WINDOW)
      /\ Len(Unexpired(u)) <= Len(message_window[u])
      /\ Cardinality(RecentIn(sent[u], now, MSG_RATE_WINDOW)) = Len(Unexpired(u))
  BY <1>2, TrimTracks DEF QuotaInv
<1>4. /\ Len(message_window[u]) \in Nat /\ Len(Unexpired(u)) \in Nat
      /\ MSG_RATE_MAX \in Nat
  BY <1>3, StoresAssumption DEF QuotaInv, Tracks, StoresAssumption
<1>5. Len(Unexpired(u)) <= MSG_RATE_MAX
  BY <1>3, <1>4 DEF QuotaInv
<1>6. Quota!Recent(u) = RecentIn(sent[u], now, MSG_RATE_WINDOW)
  BY DEF Quota!Recent, RecentIn
<1>7. \A S : Quota!Cardinality(S) = Cardinality(S)
  BY DEF Quota!Cardinality, Cardinality
<1> QED
  BY <1>3, <1>5, <1>6, <1>7

(* QuotaInv is inductive: only the quota and the clock touch it.           *)
LEMMA QuotaInvariant == Spec => []QuotaInv
<1>1. Init => QuotaInv
  <2> SUFFICES ASSUME Init PROVE QuotaInv
    OBVIOUS
  <2>1. MSG_RATE_WINDOW \in Nat /\ MSG_RATE_MAX \in Nat
    BY StoresAssumption DEF StoresAssumption
  <2>2. Tracks(<<>>, <<>>, 0, MSG_RATE_WINDOW)
    BY <2>1 DEF Tracks, Sorted
  <2> QED
    BY <2>1, <2>2 DEF Init, QuotaInv
<1>2. QuotaInv /\ [Next]_vars => QuotaInv'
  <2> SUFFICES ASSUME QuotaInv, [Next]_vars PROVE QuotaInv'
    OBVIOUS
  <2>1. ASSUME NEW u \in Users, quota_allows(u) PROVE QuotaInv'
    <3> DEFINE q == Unexpired(u)
    <3>1. /\ Len(q) < MSG_RATE_MAX /\ now' = now
          /\ message_window' = [message_window EXCEPT ![u] = Append(q, now)]
          /\ sent' = [sent EXCEPT ![u] = Append(@, now)]
      BY <2>1 DEF quota_allows
    <3>2. Tracks(q, sent[u], now, MSG_RATE_WINDOW)
      BY UnexpiredTracks
    <3> HIDE DEF q
    <3>3. Tracks(Append(q, now), Append(sent[u], now), now, MSG_RATE_WINDOW)
      BY <3>2, AppendTracks
    <3>4. Len(Append(q, now)) <= MSG_RATE_MAX
      <4>1. q \in Seq(Nat) /\ Len(q) \in Nat /\ MSG_RATE_MAX \in Nat
        BY <3>2, StoresAssumption DEF Tracks, StoresAssumption
      <4> QED
        BY <3>1, <4>1
    <3> QED
      BY <3>1, <3>3, <3>4 DEF QuotaInv
  <2>2. ASSUME NEW u \in Users, quota_refuses(u) PROVE QuotaInv'
    <3>1. /\ now' = now /\ sent' = sent
          /\ message_window' = [message_window EXCEPT ![u] = Unexpired(u)]
      BY <2>2 DEF quota_refuses
    <3>2. Tracks(Unexpired(u), sent[u], now, MSG_RATE_WINDOW)
          /\ Len(Unexpired(u)) <= MSG_RATE_MAX
      BY UnexpiredTracks
    <3> QED
      BY <3>1, <3>2 DEF QuotaInv
  <2>3. CASE Tick
    <3>1. now' = now + 1 /\ message_window' = message_window /\ sent' = sent
      BY <2>3 DEF Tick, limits
    <3>2. \A u \in Users : Tracks(message_window[u], sent[u], now + 1, MSG_RATE_WINDOW)
      BY LaterTracks DEF QuotaInv
    <3> QED
      BY <3>1, <3>2 DEF QuotaInv
  <2>4. ASSUME UNCHANGED <<now, message_window, sent>> PROVE QuotaInv'
    BY <2>4 DEF QuotaInv
  <2>5. ASSUME NEW u \in Users, insert(u) \/ touch(u) \/ remove(u) \/ try_consume_clear(u)
        PROVE  UNCHANGED <<now, message_window, sent>>
    BY <2>5 DEF insert, touch, remove, try_consume_clear, limits
  <2>6. ASSUME SweepScan \/ SweepRemove \/ push \/ clear \/ UNCHANGED vars
        PROVE  UNCHANGED <<now, message_window, sent>>
    BY <2>6 DEF SweepScan, SweepRemove, push, clear, vars, limits
  <2> QED
    BY <2>1, <2>2, <2>3, <2>4, <2>5, <2>6 DEF Next
<1> QED
  BY <1>1, <1>2, PTL DEF Spec

(* try_consume_message_quota implements the sliding window that never      *)
(* forgets, for any maximum and window.                                    *)
THEOREM QuotaRefines == Spec => QuotaIsWindow
<1>1. Init => Quota!Init
  BY DEF Init, Quota!Init
<1>2. QuotaInv /\ [Next]_vars => [Quota!Next]_Quota!vars
  <2> SUFFICES ASSUME QuotaInv, [Next]_vars PROVE [Quota!Next]_Quota!vars
    OBVIOUS
  <2>1. ASSUME NEW u \in Users, quota_allows(u) PROVE Quota!Allow(u)
    <3>1. Quota!Cardinality(Quota!Recent(u)) < MSG_RATE_MAX
      BY <2>1, UnexpiredTracks DEF quota_allows
    <3> QED
      BY <2>1, <3>1 DEF quota_allows, Quota!Allow
  <2>2. ASSUME NEW u \in Users, quota_refuses(u) PROVE Quota!Refuse(u)
    <3>1. Quota!Cardinality(Quota!Recent(u)) >= MSG_RATE_MAX
      BY <2>2, UnexpiredTracks DEF quota_refuses
    <3> QED
      BY <2>2, <3>1 DEF quota_refuses, Quota!Refuse
  <2>3. CASE Tick
    BY <2>3 DEF Tick, limits, Quota!Tick, Quota!Next
  <2>4. ASSUME NEW u \in Users, insert(u) \/ touch(u) \/ remove(u) \/ try_consume_clear(u)
        PROVE  UNCHANGED Quota!vars
    BY <2>4 DEF insert, touch, remove, try_consume_clear, limits, Quota!vars
  <2>5. ASSUME SweepScan \/ SweepRemove \/ push \/ clear \/ UNCHANGED vars
        PROVE  UNCHANGED Quota!vars
    BY <2>5 DEF SweepScan, SweepRemove, push, clear, vars, limits, Quota!vars
  <2> QED
    BY <2>1, <2>2, <2>3, <2>4, <2>5 DEF Next, Quota!Next
<1> QED
  BY <1>1, <1>2, QuotaInvariant, PTL DEF Spec, QuotaIsWindow, Quota!Spec

-----------------------------------------------------------------------------
(* The cooldown of /clear                                                  *)

(* last_clear is the last of the clears that passed, which are in the      *)
(* order of time.                                                          *)
ClearInv ==
  /\ DOMAIN last_clear = Users /\ DOMAIN cleared = Users
  /\ now \in Nat
  /\ \A u \in Users :
       /\ cleared[u] \in Seq(Nat)
       /\ Sorted(cleared[u])
       /\ \A i \in 1..Len(cleared[u]) : cleared[u][i] <= now
       /\ last_clear[u] = IF cleared[u] = <<>> THEN <<>>
                          ELSE <<cleared[u][Len(cleared[u])]>>

(* One instant is as good as the whole list: a session cools down exactly  *)
(* when some clear passed within the window.                               *)
LEMMA CoolingIsRecent ==
  ASSUME ClearInv, NEW u \in Users
  PROVE  /\ Cooling(u) => Cooldown!Cardinality(Cooldown!Recent(u)) >= 1
         /\ ~Cooling(u) => Cooldown!Cardinality(Cooldown!Recent(u)) < 1
<1> DEFINE a == cleared[u]
           R == Cooldown!Recent(u)
<1>1. /\ a \in Seq(Nat) /\ Sorted(a) /\ \A i \in 1..Len(a) : a[i] <= now
      /\ last_clear[u] = IF a = <<>> THEN <<>> ELSE <<a[Len(a)]>>
      /\ now \in Nat /\ CLEAR_COOLDOWN \in Nat \ {0}
  BY StoresAssumption DEF ClearInv, StoresAssumption
<1>2. R = {i \in 1..Len(a) : now - a[i] <= CLEAR_COOLDOWN - 1}
  BY DEF Cooldown!Recent
<1>3. Len(a) \in Nat /\ \A i \in 1..Len(a) : a[i] \in Nat
  BY <1>1
<1>4. Cooldown!Cardinality(R) = Cardinality(R)
  BY DEF Cooldown!Cardinality, Cardinality
<1> HIDE DEF a, R
<1>5. ASSUME Cooling(u) PROVE R # {}
  <2>1. PICK t \in 0..now : last_clear[u] = <<t>> /\ now - t < CLEAR_COOLDOWN
    BY <1>5 DEF Cooling
  <2>2. a # <<>> /\ a[Len(a)] = t
    <3>1. <<t>> # <<>> /\ <<t>>[1] = t /\ <<a[Len(a)]>>[1] = a[Len(a)]
      OBVIOUS
    <3>2. a # <<>>
      BY <1>1, <2>1, <3>1, Zenon
    <3>3. <<t>> = <<a[Len(a)]>>
      BY <1>1, <2>1, <3>2, Zenon
    <3> QED
      BY <3>1, <3>2, <3>3, Zenon
  <2>3. Len(a) \in 1..Len(a)
    BY <1>1, <1>3, <2>2
  <2>4. now - a[Len(a)] <= CLEAR_COOLDOWN - 1
    BY <1>1, <2>1, <2>2
  <2>5. Len(a) \in R
    BY <1>2, <2>3, <2>4
  <2> QED
    BY <2>5
<1>6. ASSUME ~Cooling(u) PROVE R = {}
  <2> SUFFICES ASSUME NEW i \in R PROVE FALSE
    OBVIOUS
  <2>1. i \in 1..Len(a) /\ now - a[i] <= CLEAR_COOLDOWN - 1
    BY <1>2
  <2>2. Len(a) \in 1..Len(a) /\ i <= Len(a) /\ a # <<>>
    BY <1>3, <2>1
  <2>3. a[i] <= a[Len(a)] /\ a[Len(a)] <= now /\ a[Len(a)] \in Nat /\ a[i] \in Nat
    BY <1>1, <1>3, <2>1, <2>2 DEF Sorted
  <2>4. a[Len(a)] \in 0..now /\ now - a[Len(a)] < CLEAR_COOLDOWN
    BY <1>1, <2>1, <2>3
  <2>5. last_clear[u] = <<a[Len(a)]>>
    BY <1>1, <2>2
  <2> QED
    BY <1>6, <2>4, <2>5 DEF Cooling
<1>7. IsFiniteSet(R) /\ Cardinality(R) \in Nat
  <2>1. R \subseteq 1..Len(a) /\ IsFiniteSet(1..Len(a))
    BY <1>2, <1>3, FS_Interval
  <2> QED
    BY <2>1, FS_Subset, FS_CardinalityType
<1>8. R # {} => Cardinality(R) >= 1
  BY <1>7, FS_EmptySet
<1>9. R = {} => Cardinality(R) < 1
  BY FS_EmptySet
<1> QED
  BY <1>4, <1>5, <1>6, <1>8, <1>9 DEF R

(* ClearInv is inductive.                                                  *)
LEMMA ClearInvariant == Spec => []ClearInv
<1>1. Init => ClearInv
  BY DEF Init, ClearInv, Sorted
<1>2. ClearInv /\ [Next]_vars => ClearInv'
  <2> SUFFICES ASSUME ClearInv, [Next]_vars PROVE ClearInv'
    OBVIOUS
  <2>1. ASSUME UNCHANGED <<now, last_clear, cleared>> PROVE ClearInv'
    BY <2>1 DEF ClearInv, Sorted
  <2>2. ASSUME NEW u \in Users, try_consume_clear(u), ~Cooling(u)
        PROVE  ClearInv'
    <3> DEFINE a == cleared[u]
               b == Append(a, now)
    <3>1. /\ last_clear' = [last_clear EXCEPT ![u] = <<now>>]
          /\ cleared' = [cleared EXCEPT ![u] = b]
          /\ now' = now
      BY <2>2 DEF try_consume_clear
    <3>2. /\ a \in Seq(Nat) /\ Sorted(a) /\ now \in Nat
          /\ \A i \in 1..Len(a) : a[i] <= now
      BY DEF ClearInv
    <3> HIDE DEF a
    <3>3. /\ b \in Seq(Nat) /\ Len(b) = Len(a) + 1 /\ b[Len(b)] = now
          /\ b # <<>> /\ Len(a) \in Nat
          /\ \A i \in 1..Len(a) : b[i] = a[i]
      BY <3>2
    <3> HIDE DEF b
    <3>4. ASSUME NEW i \in 1..Len(b) PROVE b[i] <= now
      <4>1. i \in 1..Len(a) \/ i = Len(b)
        BY <3>3
      <4> QED
        BY <3>2, <3>3, <4>1
    <3>5. ASSUME NEW i \in 1..Len(b), NEW j \in 1..Len(b), i <= j
          PROVE  b[i] <= b[j]
      <4>0. Len(b) = Len(a) + 1 /\ Len(a) \in Nat
        BY <3>3
      <4>1. j = Len(b) \/ (i \in 1..Len(a) /\ j \in 1..Len(a))
        BY <3>5, <4>0
      <4> QED
        BY <3>2, <3>3, <3>4, <3>5, <4>1 DEF Sorted
    <3>6. Sorted(b)
      BY <3>5 DEF Sorted
    <3>7. /\ DOMAIN last_clear' = Users /\ DOMAIN cleared' = Users
          /\ last_clear'[u] = <<now>> /\ cleared'[u] = b
          /\ \A v \in Users \ {u} : /\ last_clear'[v] = last_clear[v]
                                    /\ cleared'[v] = cleared[v]
      BY <3>1 DEF ClearInv
    <3>8. ASSUME NEW v \in Users
          PROVE  /\ cleared'[v] \in Seq(Nat)
                 /\ Sorted(cleared'[v])
                 /\ \A i \in 1..Len(cleared'[v]) : cleared'[v][i] <= now
                 /\ last_clear'[v] = IF cleared'[v] = <<>> THEN <<>>
                                     ELSE <<cleared'[v][Len(cleared'[v])]>>
      <4>1. CASE v = u
        BY <3>3, <3>4, <3>6, <3>7, <4>1
      <4>2. CASE v # u
        BY <3>7, <4>2 DEF ClearInv
      <4> QED
        BY <4>1, <4>2
    <3> QED
      BY <3>1, <3>2, <3>7, <3>8 DEF ClearInv, Sorted
  <2>3. CASE Tick
    <3>1. now' = now + 1 /\ last_clear' = last_clear /\ cleared' = cleared
      BY <2>3 DEF Tick, limits
    <3>2. now + 1 \in Nat
          /\ \A u \in Users : \A i \in 1..Len(cleared[u]) : cleared[u][i] <= now + 1
      BY DEF ClearInv
    <3> QED
      BY <3>1, <3>2 DEF ClearInv, Sorted
  <2>4. ASSUME NEW u \in Users, try_consume_clear(u), Cooling(u)
        PROVE  UNCHANGED <<now, last_clear, cleared>>
    BY <2>4 DEF try_consume_clear
  <2>5. ASSUME NEW u \in Users,
               \/ insert(u) \/ touch(u) \/ remove(u)
               \/ quota_allows(u) \/ quota_refuses(u)
        PROVE  UNCHANGED <<now, last_clear, cleared>>
    BY <2>5 DEF insert, touch, remove, quota_allows, quota_refuses, limits
  <2>6. ASSUME SweepScan \/ SweepRemove \/ push \/ clear \/ UNCHANGED vars
        PROVE  UNCHANGED <<now, last_clear, cleared>>
    BY <2>6 DEF SweepScan, SweepRemove, push, clear, vars, limits
  <2> QED
    BY <2>1, <2>2, <2>3, <2>4, <2>5, <2>6 DEF Next
<1> QED
  BY <1>1, <1>2, PTL DEF Spec

(* try_consume_clear implements a window for a single clear: keeping only  *)
(* the last instant loses nothing.                                         *)
THEOREM CooldownRefines == Spec => CooldownIsWindow
<1>1. Init => Cooldown!Init
  BY DEF Init, Cooldown!Init
<1>2. ClearInv /\ [Next]_vars => [Cooldown!Next]_Cooldown!vars
  <2> SUFFICES ASSUME ClearInv, [Next]_vars PROVE [Cooldown!Next]_Cooldown!vars
    OBVIOUS
  <2>1. ASSUME NEW u \in Users, try_consume_clear(u)
        PROVE  Cooldown!Allow(u) \/ Cooldown!Refuse(u)
    <3>1. CASE Cooling(u)
      BY <2>1, <3>1, CoolingIsRecent DEF try_consume_clear, Cooldown!Refuse
    <3>2. CASE ~Cooling(u)
      BY <2>1, <3>2, CoolingIsRecent DEF try_consume_clear, Cooldown!Allow
    <3> QED
      BY <3>1, <3>2
  <2>2. CASE Tick
    BY <2>2 DEF Tick, limits, Cooldown!Tick, Cooldown!Next
  <2>3. ASSUME NEW u \in Users,
               \/ insert(u) \/ touch(u) \/ remove(u)
               \/ quota_allows(u) \/ quota_refuses(u)
        PROVE  UNCHANGED Cooldown!vars
    BY <2>3 DEF insert, touch, remove, quota_allows, quota_refuses, limits,
                Cooldown!vars
  <2>4. ASSUME SweepScan \/ SweepRemove \/ push \/ clear \/ UNCHANGED vars
        PROVE  UNCHANGED Cooldown!vars
    BY <2>4 DEF SweepScan, SweepRemove, push, clear, vars, limits, Cooldown!vars
  <2> QED
    BY <2>1, <2>2, <2>3, <2>4 DEF Next, Cooldown!Next
<1> QED
  BY <1>1, <1>2, ClearInvariant, PTL
  DEF Spec, CooldownIsWindow, Cooldown!Spec

(* Every store keeps its type: the window of a session never holds more    *)
(* than MSG_RATE_MAX instants, none of them in the future, and the sweeper *)
(* is never late.                                                          *)
THEOREM StoresTypeCorrect == Spec => []TypeOK
<1>1. SweepInv /\ QuotaInv /\ ClearInv => TypeOK
  <2> SUFFICES ASSUME SweepInv, QuotaInv, ClearInv PROVE TypeOK
    OBVIOUS
  <2>1. last_active \in [Users -> 0..now]
    BY DEF SweepInv
  <2>2. ASSUME NEW u \in Users PROVE message_window[u] \in Seq(0..now)
    BY BoundedTracks DEF QuotaInv
  <2>3. ASSUME NEW u \in Users
        PROVE  last_clear[u] \in {<<>>} \cup {<<t>> : t \in 0..now}
    <3> DEFINE a == cleared[u]
    <3>1. /\ a \in Seq(Nat) /\ now \in Nat
          /\ \A i \in 1..Len(a) : a[i] <= now
          /\ last_clear[u] = IF a = <<>> THEN <<>> ELSE <<a[Len(a)]>>
      BY DEF ClearInv
    <3> HIDE DEF a
    <3>2. CASE a # <<>>
      <4>1. Len(a) \in 1..Len(a)
        BY <3>1, <3>2
      <4>2. a[Len(a)] \in 0..now
        BY <3>1, <4>1
      <4> QED
        BY <3>1, <3>2, <4>2
    <3> QED
      BY <3>1, <3>2
  <2> QED
    BY <2>1, <2>2, <2>3 DEF SweepInv, QuotaInv, TypeOK
<1> QED
  BY <1>1, SweepInvariant, QuotaInvariant, ClearInvariant, PTL
=============================================================================
