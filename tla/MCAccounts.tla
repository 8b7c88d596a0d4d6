----------------------------- MODULE MCAccounts -----------------------------
(* A small instance of Accounts for TLC: perhaps an account with a legacy  *)
(* hash, and one or two to be registered.                                  *)
EXTENDS Accounts
LOCAL INSTANCE TLC

CONSTANTS h1, h2, e1, e2, p1, p2, u0, u1, c1, c2, t1

Alike == Permutations({h1, h2}) \cup Permutations({c1, c2})
           \cup Permutations({e1, e2}) \cup Permutations({p1, p2})
=============================================================================
