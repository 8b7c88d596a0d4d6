------------------------------- MODULE MCWarm -------------------------------
(* Small instances of WarmStore for TLC.                                   *)
EXTENDS WarmStore, TLC

CONSTANTS t1, t2, c1, m1, m2, h1, h2

Two == {t1, t2}
AnyName == Permutations(Models) \cup Permutations(Contents) \cup Permutations(Tasks)
=============================================================================
