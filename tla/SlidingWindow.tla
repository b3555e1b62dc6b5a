--------------------------- MODULE SlidingWindow ---------------------------
(***************************************************************************)
(* The loop that the rate limiter and the message quota share: pop_front   *)
(* while the front of the queue has expired.                               *)
(***************************************************************************)
EXTENDS Naturals, Sequences

(* The front n elements of q are in S and the next one is not.             *)
StopsAt(q, S, n) ==
  /\ \A i \in 1..n : q[i] \in S
  /\ n = Len(q) \/ q[n + 1] \notin S

(* What is left of q when its front is popped as long as it is in S.       *)
PopWhile(q, S) ==
  LET k == CHOOSE n \in 0..Len(q) : StopsAt(q, S, n)
  IN  SubSeq(q, k + 1, Len(q))
=============================================================================
