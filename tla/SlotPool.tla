------------------------------ MODULE SlotPool ------------------------------
(***************************************************************************)
(* What "hard limits for Project / API Key ... concurrency" promises: each *)
(* scope is a counting semaphore.  A request takes a slot of a scope only  *)
(* while fewer than a limit of the scope are taken, keeps it, and gives    *)
(* back its own slot and no other.                                         *)
(***************************************************************************)
EXTENDS Integers, FiniteSets

CONSTANTS
  Requests,
  Scopes,
  Capacities   (* The limits that each scope can be given.                 *)

VARIABLE held   (* The requests that hold a slot of each scope.            *)

Take(s, r) ==
  /\ r \notin held[s]
  /\ \E cap \in Capacities[s] : Cardinality(held[s]) < cap
  /\ held' = [held EXCEPT ![s] = @ \cup {r}]

Give(s, r) ==
  /\ r \in held[s]
  /\ held' = [held EXCEPT ![s] = @ \ {r}]

Init == held = [s \in Scopes |-> {}]

Next == \E s \in Scopes, r \in Requests : Take(s, r) \/ Give(s, r)

Spec == Init /\ [][Next]_held
=============================================================================
