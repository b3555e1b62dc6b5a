-------------------------- MODULE RateLimiterProofs --------------------------
(***************************************************************************)
(* The rate limiter, for any addresses, cap and window: the cap holds in   *)
(* every window, and the limiter implements the one that never forgets.    *)
(***************************************************************************)
EXTENDS RateLimiter, WindowProofs

(* The queue of an address keeps track of what was allowed, never holds    *)
(* more than max, and what was allowed is spread out accordingly.          *)
AddressInv(ip) ==
  /\ Tracks(entry(ip), allowed[ip], now, window)
  /\ Len(entry(ip)) <= max
  /\ Spread(allowed[ip], max, window)

LimiterInv ==
  /\ now \in 0..MAX_TIME
  /\ DOMAIN by_ip \subseteq Ips
  /\ DOMAIN allowed = Ips
  /\ allowed = [ip \in Ips |-> allowed[ip]]
  /\ verdict \in BOOLEAN
  /\ \A ip \in Ips : AddressInv(ip)

(* What check and cleanup leave of a queue.                                *)
LEMMA FreshTracks ==
  ASSUME LimiterAssumption, NEW ip \in Ips, AddressInv(ip)
  PROVE  /\ Tracks(Fresh(entry(ip)), allowed[ip], now, window)
         /\ Len(Fresh(entry(ip))) <= max
         /\ Reference!Cardinality(Reference!Recent(ip)) = Len(Fresh(entry(ip)))
<1>1. {t \in 0..now : Expired(t)} = Gone(now, window)
  BY DEF Gone, Expired
<1>2. Fresh(entry(ip)) = PopWhile(entry(ip), Gone(now, window))
  BY <1>1 DEF Fresh
<1>3. /\ Tracks(Fresh(entry(ip)), allowed[ip], now, window)
      /\ Len(Fresh(entry(ip))) <= Len(entry(ip))
      /\ Cardinality(RecentIn(allowed[ip], now, window)) = Len(Fresh(entry(ip)))
  BY <1>2, TrimTracks DEF AddressInv
<1>4. Len(entry(ip)) \in Nat /\ Len(Fresh(entry(ip))) \in Nat
  BY <1>3 DEF AddressInv, Tracks
<1>5. Len(Fresh(entry(ip))) <= max
  BY <1>3, <1>4 DEF AddressInv, LimiterAssumption
<1>6. Reference!Recent(ip) = RecentIn(allowed[ip], now, window)
  BY DEF Reference!Recent, RecentIn
<1>7. \A S : Reference!Cardinality(S) = Cardinality(S)
  BY DEF Reference!Cardinality, Cardinality
<1> QED
  BY <1>3, <1>5, <1>6, <1>7

(* Writing one entry of the map leaves the others.                         *)
LEMMA PutEntryEffect ==
  ASSUME LimiterInv, NEW ip \in Ips, NEW q, PutEntry(ip, q)
  PROVE  /\ DOMAIN by_ip' \subseteq Ips
         /\ entry(ip)' = q
         /\ \A x \in Ips \ {ip} : entry(x)' = entry(x)
  BY DEF LimiterInv, PutEntry, entry

(* check, when it lets the connection pass.                                *)
LEMMA AllowsInv ==
  ASSUME LimiterAssumption, LimiterInv, NEW ip \in Ips, CheckAllows(ip)
  PROVE  LimiterInv'
<1> DEFINE q == Fresh(entry(ip))
<1>1. /\ PutEntry(ip, Append(q, now)) /\ Len(q) < max
      /\ allowed' = [allowed EXCEPT ![ip] = Append(@, now)]
      /\ verdict' = TRUE /\ now' = now
  BY DEF CheckAllows
<1>2. Tracks(q, allowed[ip], now, window) /\ AddressInv(ip)
  BY FreshTracks DEF LimiterInv
<1> HIDE DEF q
<1>3. /\ DOMAIN by_ip' \subseteq Ips
      /\ entry(ip)' = Append(q, now)
      /\ \A x \in Ips \ {ip} : entry(x)' = entry(x)
  BY <1>1, PutEntryEffect
<1>4. /\ allowed'[ip] = Append(allowed[ip], now)
      /\ \A x \in Ips \ {ip} : allowed'[x] = allowed[x]
      /\ DOMAIN allowed' = Ips /\ allowed' = [x \in Ips |-> allowed'[x]]
  BY <1>1 DEF LimiterInv
<1>5. Tracks(Append(q, now), Append(allowed[ip], now), now, window)
  BY <1>2, AppendTracks
<1>6. Spread(Append(allowed[ip], now), max, window)
  BY <1>1, <1>2, AppendSpread DEF LimiterAssumption, AddressInv
<1>7. Len(Append(q, now)) <= max
  <2>1. q \in Seq(Nat) /\ Len(q) \in Nat /\ max \in Nat
    BY <1>2 DEF Tracks, LimiterAssumption
  <2> QED
    BY <1>1, <2>1
<1>8. ASSUME NEW x \in Ips PROVE AddressInv(x)'
  <2>1. CASE x = ip
    BY <1>1, <1>3, <1>4, <1>5, <1>6, <1>7, <2>1 DEF AddressInv
  <2>2. CASE x # ip
    BY <1>1, <1>3, <1>4, <2>2 DEF AddressInv, LimiterInv
  <2> QED
    BY <2>1, <2>2
<1> QED
  BY <1>1, <1>3, <1>4, <1>8 DEF LimiterInv

(* check, when it refuses: only the queue is trimmed.                      *)
LEMMA RefusesInv ==
  ASSUME LimiterAssumption, LimiterInv, NEW ip \in Ips, CheckRefuses(ip)
  PROVE  LimiterInv'
<1> DEFINE q == Fresh(entry(ip))
<1>1. PutEntry(ip, q) /\ verdict' = FALSE /\ now' = now /\ allowed' = allowed
  BY DEF CheckRefuses
<1>2. /\ Tracks(q, allowed[ip], now, window) /\ Len(q) <= max
      /\ AddressInv(ip)
  BY FreshTracks DEF LimiterInv
<1> HIDE DEF q
<1>3. /\ DOMAIN by_ip' \subseteq Ips
      /\ entry(ip)' = q
      /\ \A x \in Ips \ {ip} : entry(x)' = entry(x)
  BY <1>1, PutEntryEffect
<1>4. ASSUME NEW x \in Ips PROVE AddressInv(x)'
  <2>1. CASE x = ip
    BY <1>1, <1>2, <1>3, <2>1 DEF AddressInv
  <2>2. CASE x # ip
    BY <1>1, <1>3, <2>2 DEF AddressInv, LimiterInv
  <2> QED
    BY <2>1, <2>2
<1> QED
  BY <1>1, <1>3, <1>4 DEF LimiterInv

(* cleanup trims every queue; an entry it drops was trimmed to nothing.    *)
LEMMA CleanupInv ==
  ASSUME LimiterAssumption, LimiterInv, cleanup
  PROVE  LimiterInv'
<1>1. /\ DOMAIN by_ip' \subseteq Ips
      /\ now' = now /\ allowed' = allowed /\ verdict' = verdict
  BY DEF cleanup, LimiterInv
<1>2. ASSUME NEW x \in Ips PROVE entry(x)' = Fresh(entry(x)) \/ entry(x)' = entry(x)
  <2>1. CASE x \in DOMAIN by_ip
    BY <2>1 DEF cleanup, entry
  <2>2. CASE x \notin DOMAIN by_ip
    BY <2>2 DEF cleanup, entry
  <2> QED
    BY <2>1, <2>2
<1>3. ASSUME NEW x \in Ips PROVE AddressInv(x)'
  <2>1. /\ AddressInv(x)
        /\ Tracks(Fresh(entry(x)), allowed[x], now, window)
        /\ Len(Fresh(entry(x))) <= max
    BY FreshTracks DEF LimiterInv
  <2> QED
    BY <1>1, <1>2, <2>1 DEF AddressInv
<1> QED
  BY <1>1, <1>3 DEF LimiterInv

(* The invariant is inductive.                                             *)
LEMMA LimiterInvariant == Spec => []LimiterInv
<1> USE LimiterAssumption
<1>1. Init => LimiterInv
  <2> SUFFICES ASSUME Init PROVE LimiterInv
    OBVIOUS
  <2>1. ASSUME NEW ip \in Ips PROVE AddressInv(ip)
    <3>1. entry(ip) = <<>> /\ allowed[ip] = <<>> /\ now = 0
      BY DEF Init, entry
    <3>2. Tracks(<<>>, <<>>, 0, window) /\ Spread(<<>>, max, window)
      BY DEF Tracks, Sorted, Spread, LimiterAssumption
    <3> QED
      BY <3>1, <3>2 DEF AddressInv, LimiterAssumption
  <2>2. 0 \in 0..MAX_TIME
    BY DEF LimiterAssumption
  <2> QED
    BY <2>1, <2>2 DEF Init, LimiterInv
<1>2. LimiterInv /\ [Next]_vars => LimiterInv'
  <2> SUFFICES ASSUME LimiterInv, [Next]_vars PROVE LimiterInv'
    OBVIOUS
  <2>1. CASE Tick
    <3>1. now' = now + 1 /\ now' \in 0..MAX_TIME /\ UNCHANGED <<by_ip, allowed, verdict>>
      BY <2>1 DEF Tick, LimiterInv, LimiterAssumption
    <3>2. ASSUME NEW ip \in Ips PROVE AddressInv(ip)'
      <4>1. Tracks(entry(ip), allowed[ip], now + 1, window)
        BY LaterTracks DEF LimiterInv, AddressInv
      <4> QED
        BY <3>1, <4>1 DEF LimiterInv, AddressInv, entry
    <3> QED
      BY <3>1, <3>2 DEF LimiterInv
  <2>2. CASE UNCHANGED vars
    BY <2>2 DEF vars, LimiterInv, AddressInv, entry
  <2> QED
    BY <2>1, <2>2, AllowsInv, RefusesInv, CleanupInv DEF Next
<1> QED
  BY <1>1, <1>2, PTL DEF Spec

(* Every queue holds at most max instants, none in the future.             *)
THEOREM LimiterTypeCorrect == Spec => []TypeOK
<1>1. LimiterInv => TypeOK
  <2> SUFFICES ASSUME LimiterInv PROVE TypeOK
    OBVIOUS
  <2>1. ASSUME NEW ip \in Ips
        PROVE  allowed[ip] \in Seq(0..now) /\ entry(ip) \in Seq(0..now)
    BY BoundedTracks DEF LimiterInv, AddressInv
  <2>2. allowed \in [Ips -> Seq(0..now)]
    BY <2>1 DEF LimiterInv
  <2>3. ASSUME NEW ip \in DOMAIN by_ip
        PROVE  by_ip[ip] \in Seq(0..now) /\ Len(by_ip[ip]) <= max
    <3>1. ip \in Ips /\ entry(ip) = by_ip[ip]
      BY DEF LimiterInv, entry
    <3> QED
      BY <2>1, <3>1 DEF LimiterInv, AddressInv
  <2> QED
    BY <2>2, <2>3 DEF LimiterInv, TypeOK
<1> QED
  BY <1>1, LimiterInvariant, PTL

(* For every cap and window: any max + 1 connections of one address that   *)
(* were allowed span more than the window, however often cleanup ran.      *)
THEOREM WindowCapHolds == Spec => []WindowCap
<1>1. LimiterInv => WindowCap
  BY DEF LimiterInv, AddressInv, Spread, WindowCap
<1> QED
  BY <1>1, LimiterInvariant, PTL

(* The queue of an address is the end of its allowed connections, and what *)
(* is missing from it has expired.                                         *)
THEOREM QueueRemembersEnough == Spec => []QueueIsRecent
<1>1. LimiterInv => QueueIsRecent
  <2> SUFFICES ASSUME LimiterInv, NEW ip \in Ips
               PROVE  LET dropped == Len(allowed[ip]) - Len(entry(ip))
                      IN  /\ Len(entry(ip)) <= Len(allowed[ip])
                          /\ entry(ip) = SubSeq(allowed[ip], dropped + 1, Len(allowed[ip]))
                          /\ \A i \in 1..dropped : Expired(allowed[ip][i])
    BY DEF QueueIsRecent
  <2> DEFINE q == entry(ip)
             a == allowed[ip]
             d == Len(a) - Len(q)
  <2>1. Tracks(q, a, now, window)
    BY DEF LimiterInv, AddressInv
  <2> HIDE DEF q, a
  <2>2. /\ q \in Seq(Nat) /\ a \in Seq(Nat) /\ Len(q) \in Nat /\ Len(a) \in Nat
        /\ Len(q) <= Len(a) /\ d \in Nat
        /\ \A i \in 1..Len(q) : q[i] = a[d + i]
        /\ \A i \in 1..d : now - a[i] > window
    BY <2>1 DEF Tracks
  <2>3. q = SubSeq(a, d + 1, Len(a))
    <3>1. /\ SubSeq(a, d + 1, Len(a)) \in Seq(Nat)
          /\ Len(SubSeq(a, d + 1, Len(a))) =
               IF d + 1 <= Len(a) THEN Len(a) - (d + 1) + 1 ELSE 0
          /\ \A i \in 1..(Len(a) - (d + 1) + 1) :
               SubSeq(a, d + 1, Len(a))[i] = a[(d + 1) + i - 1]
      <4>1. d + 1 \in Int /\ Len(a) \in Int
        BY <2>2
      <4>2. \A i \in (d + 1)..Len(a) : a[i] \in Nat
        BY <2>2
      <4> QED
        BY <4>1, <4>2, SubSeqProperties
    <3>2. Len(SubSeq(a, d + 1, Len(a))) = Len(q)
      BY <2>2, <3>1
    <3>3. ASSUME NEW i \in 1..Len(q) PROVE q[i] = SubSeq(a, d + 1, Len(a))[i]
      <4>1. i \in 1..(Len(a) - (d + 1) + 1) /\ (d + 1) + i - 1 = d + i
        BY <2>2
      <4> QED
        BY <2>2, <3>1, <4>1
    <3> QED
      BY <2>2, <3>1, <3>2, <3>3, SeqEqual
  <2> QED
    BY <2>2, <2>3 DEF q, a, Expired
<1> QED
  BY <1>1, LimiterInvariant, PTL

(* check and cleanup implement the limiter that never forgets: the initial *)
(* states map to its initial states, check to Allow or Refuse, and cleanup *)
(* to a stutter.                                                           *)
THEOREM LimiterRefines == Spec => ImplementsWindow
<1>1. Init => Reference!Init
  BY DEF Init, Reference!Init
<1>2. LimiterInv /\ [Next]_vars => [Reference!Next]_Reference!vars
  <2> SUFFICES ASSUME LimiterInv, [Next]_vars
               PROVE  [Reference!Next]_Reference!vars
    OBVIOUS
  <2>1. ASSUME NEW ip \in Ips
        PROVE  Reference!Cardinality(Reference!Recent(ip)) = Len(Fresh(entry(ip)))
    BY LimiterAssumption, FreshTracks DEF LimiterInv
  <2>2. ASSUME NEW ip \in Ips, CheckAllows(ip) PROVE Reference!Allow(ip)
    <3>1. Len(Fresh(entry(ip))) < max
      BY <2>2 DEF CheckAllows
    <3>2. Reference!Cardinality(Reference!Recent(ip)) < max
      BY <2>1, <3>1
    <3> QED
      BY <2>2, <3>2 DEF CheckAllows, Reference!Allow
  <2>3. ASSUME NEW ip \in Ips, CheckRefuses(ip) PROVE Reference!Refuse(ip)
    <3>1. Len(Fresh(entry(ip))) >= max
      BY <2>3 DEF CheckRefuses
    <3>2. Reference!Cardinality(Reference!Recent(ip)) >= max
      BY <2>1, <3>1
    <3> QED
      BY <2>3, <3>2 DEF CheckRefuses, Reference!Refuse
  <2>4. CASE cleanup \/ UNCHANGED vars
    BY <2>4 DEF cleanup, vars, Reference!vars
  <2>5. CASE Tick
    BY <2>5 DEF Tick, Reference!Tick, Reference!Next
  <2> QED
    BY <2>2, <2>3, <2>4, <2>5 DEF Next, Reference!Next
<1> QED
  BY <1>1, <1>2, LimiterInvariant, PTL
  DEF Spec, ImplementsWindow, Reference!Spec
=============================================================================
