----------------------------- MODULE MCFreePool -----------------------------
(* A small instance of FreePool for TLC.                                   *)
EXTENDS FreePool
LOCAL INSTANCE TLC

CONSTANTS h1, h2, k1, k2

Alike == Permutations({h1, h2}) \cup Permutations({k1, k2})
=============================================================================
