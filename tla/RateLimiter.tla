---------------------------- MODULE RateLimiter ----------------------------
(***************************************************************************)
(* The per-source-IP connection limiter: a map from addresses to queues of *)
(* instants.  check expires the front of one queue and admits or refuses;  *)
(* cleanup, called by the sweeper, expires every queue and drops the empty *)
(* ones.  Both hold the map's mutex from start to end, so each is a step.  *)
(* Nothing panics while holding it, so it is never poisoned.               *)
(***************************************************************************)
EXTENDS SlidingWindow, FiniteSets

CONSTANTS
  Ips,       \* source addresses
  max,       \* RATELIMIT_MAX
  window,    \* RATELIMIT_WINDOW, in clock ticks
  MAX_TIME   \* bound: the clock stops there

ASSUME LimiterAssumption ==
  /\ max \in Nat \ {0}
  /\ window \in Nat
  /\ MAX_TIME \in Nat

VARIABLES
  by_ip,    \* the map; an address without an entry is not in its domain
  now,      \* Instant::now()
  allowed,  \* history: when each allowed connection of an address came
  verdict   \* what the last check returned

vars == <<by_ip, now, allowed, verdict>>

(* Mutant: an instant exactly window old has expired already.              *)
ExpiredEarly(t) == now - t >= window

Expired(t) == now - t > window

(* pop_front while the front has expired.                                  *)
Fresh(q) == PopWhile(q, {t \in 0..now : Expired(t)})

entry(ip) == IF ip \in DOMAIN by_ip THEN by_ip[ip] ELSE <<>>

TypeOK ==
  /\ now \in 0..MAX_TIME
  /\ DOMAIN by_ip \subseteq Ips
  /\ \A ip \in DOMAIN by_ip :
       by_ip[ip] \in Seq(0..now) /\ Len(by_ip[ip]) <= max
  /\ allowed \in [Ips -> Seq(0..now)]
  /\ verdict \in BOOLEAN

Init ==
  /\ by_ip = [ip \in {} |-> <<>>]
  /\ now = 0
  /\ allowed = [ip \in Ips |-> <<>>]
  /\ verdict = TRUE

PutEntry(ip, q) ==
  by_ip' = [x \in DOMAIN by_ip \cup {ip} |-> IF x = ip THEN q ELSE by_ip[x]]

(* Mutant: a refused attempt is recorded as well.                          *)
RecordAndRefuse(ip) ==
  LET q == Fresh(entry(ip))
  IN  /\ Len(q) >= max
      /\ PutEntry(ip, Append(q, now))
      /\ verdict' = FALSE
      /\ UNCHANGED <<now, allowed>>

(* The expired front goes and the entry stays, also when it refuses.       *)
CheckRefuses(ip) ==
  LET q == Fresh(entry(ip))
  IN  /\ Len(q) >= max
      /\ PutEntry(ip, q)
      /\ verdict' = FALSE
      /\ UNCHANGED <<now, allowed>>

CheckAllows(ip) ==
  LET q == Fresh(entry(ip))
  IN  /\ Len(q) < max
      /\ PutEntry(ip, Append(q, now))
      /\ allowed' = [allowed EXCEPT ![ip] = Append(@, now)]
      /\ verdict' = TRUE
      /\ UNCHANGED now

(* Mutant: an entry whose front has expired is dropped as a whole.         *)
CleanupDropsLive ==
  /\ by_ip' = [ip \in {x \in DOMAIN by_ip : ~Expired(by_ip[x][1])}
                 |-> by_ip[ip]]
  /\ UNCHANGED <<now, allowed, verdict>>

cleanup ==
  /\ by_ip' = [ip \in {x \in DOMAIN by_ip : Fresh(by_ip[x]) # <<>>}
                 |-> Fresh(by_ip[ip])]
  /\ UNCHANGED <<now, allowed, verdict>>

Tick ==
  /\ now < MAX_TIME
  /\ now' = now + 1
  /\ UNCHANGED <<by_ip, allowed, verdict>>

Next ==
  \/ \E ip \in Ips : CheckAllows(ip) \/ CheckRefuses(ip)
  \/ cleanup
  \/ Tick

Spec == Init /\ [][Next]_vars

-----------------------------------------------------------------------------

(* Any max + 1 successive connections of one address that were allowed     *)
(* span more than the window, wherever the window is put and however often *)
(* the sweeper's cleanup ran in between.                                   *)
WindowCap ==
  \A ip \in Ips : \A i \in 1..Len(allowed[ip]) :
    i + max <= Len(allowed[ip])
      => allowed[ip][i + max] - allowed[ip][i] > window

(* The queue of an address is the end of its list of allowed connections,  *)
(* and what check and cleanup have thrown away has expired for good.       *)
QueueIsRecent ==
  \A ip \in Ips :
    LET dropped == Len(allowed[ip]) - Len(entry(ip))
    IN  /\ Len(entry(ip)) <= Len(allowed[ip])
        /\ entry(ip) = SubSeq(allowed[ip], dropped + 1, Len(allowed[ip]))
        /\ \A i \in 1..dropped : Expired(allowed[ip][i])

(* The limiter forgets instants and whole entries, and still gives the     *)
(* answers of one that remembers everything: check and cleanup implement   *)
(* WindowLimiter, cleanup by doing nothing visible.                        *)
Reference == INSTANCE WindowLimiter
               WITH Keys <- Ips, Max <- max, Window <- window
ImplementsWindow == Reference!Spec
=============================================================================
