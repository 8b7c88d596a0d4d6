---------------------------- MODULE SlidingWindow ----------------------------
(***************************************************************************)
(* The limiters kept in process memory: rate_limit_exceeded of             *)
(* src/src/saas/auth.rs and check_and_record_ip_claim of                   *)
(* src/src/free_token/mod.rs.  Each key has a queue of the times at which  *)
(* it was let through.  Times are kept as ages, oldest first, so that runs *)
(* need no clock.  The code drops what is too old at the next call; here   *)
(* it goes as soon as it is, too.                                          *)
(***************************************************************************)
EXTENDS Naturals, Sequences, FiniteSets

(* What is left when the entries at the front that are older than w went.  *)
Within(q, w) == SubSeq(q, Cardinality({i \in DOMAIN q : q[i] > w}) + 1, Len(q))

AllOlder(q, w) == Within([i \in DOMAIN q |-> q[i] + 1], w)

LetThrough(q, w, max) == Len(Within(q, w)) < max

(* The queue after a call: it records the call if it lets it through.      *)
AfterCall(q, w, max) ==
  IF LetThrough(q, w, max) THEN Append(Within(q, w), 0) ELSE Within(q, w)
=============================================================================
