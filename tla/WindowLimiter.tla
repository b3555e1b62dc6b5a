--------------------------- MODULE WindowLimiter ---------------------------
(***************************************************************************)
(* What a sliding-window limiter promises: a request is allowed exactly    *)
(* when fewer than Max requests of the same key were allowed within the    *)
(* last Window units of time.  It remembers every request it allowed.      *)
(***************************************************************************)
EXTENDS Naturals, Sequences, FiniteSets

CONSTANTS Keys, Max, Window

VARIABLES
  now,      \* the clock
  allowed,  \* per key: when each allowed request came
  verdict   \* the last answer

vars == <<now, allowed, verdict>>

Recent(k) == {i \in 1..Len(allowed[k]) : now - allowed[k][i] <= Window}

Init ==
  /\ now = 0
  /\ allowed = [k \in Keys |-> <<>>]
  /\ verdict = TRUE

Allow(k) ==
  /\ Cardinality(Recent(k)) < Max
  /\ allowed' = [allowed EXCEPT ![k] = Append(@, now)]
  /\ verdict' = TRUE
  /\ UNCHANGED now

Refuse(k) ==
  /\ Cardinality(Recent(k)) >= Max
  /\ verdict' = FALSE
  /\ UNCHANGED <<now, allowed>>

Tick == now' = now + 1 /\ UNCHANGED <<allowed, verdict>>

Next == Tick \/ \E k \in Keys : Allow(k) \/ Refuse(k)

Spec == Init /\ [][Next]_vars
=============================================================================
