------------------------------ MODULE ConnGuard ------------------------------
(***************************************************************************)
(* ServerHub::active_conns and its RAII guard.  A connection task takes a  *)
(* slot with an optimistic fetch_add, rolls back when it crossed the cap,  *)
(* and gives the slot back when the guard is dropped, on whichever path    *)
(* handle_connection returns.  Each atomic operation is one step; ServerHub *)
(* says when the tasks take them.                                          *)
(***************************************************************************)
EXTENDS Integers, FiniteSets

CONSTANTS
  Conns,             \* connections
  MAX_ACTIVE_CONNS   \* the cap

ASSUME GuardAssumption ==
  /\ IsFiniteSet(Conns)
  /\ MAX_ACTIVE_CONNS \in Nat \ {0}

VARIABLES
  active_conns,  \* the shared AtomicUsize
  guard          \* per connection: "none" yet, "over" the cap and not rolled
                 \* back, "held", or "done"

guardVars == <<active_conns, guard>>

GuardTypeOK ==
  /\ active_conns \in Nat
  /\ guard \in [Conns -> {"none", "over", "held", "done"}]

GuardInit ==
  /\ active_conns = 0
  /\ guard = [c \in Conns |-> "none"]

Turn(c, from, to) ==
  /\ guard[c] = from
  /\ guard' = [guard EXCEPT ![c] = to]

(* Mutant: > for >=.                                                       *)
FetchAddOffByOne(c) ==
  /\ Turn(c, "none",
          IF active_conns > MAX_ACTIVE_CONNS THEN "over" ELSE "held")
  /\ active_conns' = active_conns + 1

(* fetch_add returns the old value: at the cap or above it, no guard.      *)
FetchAdd(c) ==
  /\ Turn(c, "none",
          IF active_conns >= MAX_ACTIVE_CONNS THEN "over" ELSE "held")
  /\ active_conns' = active_conns + 1

(* Mutant: the refusal returns without undoing its increment.              *)
NoRollBack(c) ==
  /\ Turn(c, "over", "done")
  /\ UNCHANGED active_conns

(* Mutant: the guard already exists when the cap is checked, so that       *)
(* dropping it decrements once more.                                       *)
RollBackAndDrop(c) ==
  /\ Turn(c, "over", "done")
  /\ active_conns' = active_conns - 2

RollBack(c) ==
  /\ Turn(c, "over", "done")
  /\ active_conns' = active_conns - 1

DropGuard(c) ==
  /\ Turn(c, "held", "done")
  /\ active_conns' = active_conns - 1

-----------------------------------------------------------------------------

Holders == {c \in Conns : guard[c] = "held"}
Overshooting == {c \in Conns : guard[c] = "over"}

(* The counter accounts for every task: it is the number of guards held    *)
(* plus the increments not rolled back yet, so it never goes below zero    *)
(* and no early return leaks a slot.                                       *)
CounterExact == active_conns = Cardinality(Holders) + Cardinality(Overshooting)

(* However the attempts overlap, no more than MAX_ACTIVE_CONNS connections *)
(* are served at once; only the counter overshoots.                        *)
CapHeld == Cardinality(Holders) <= MAX_ACTIVE_CONNS
=============================================================================
