------------------------------- MODULE MCSync -------------------------------
(* Small instances of PoolSync for TLC.                                    *)
EXTENDS PoolSync

CONSTANTS a1, a2, q1, s1, s2
=============================================================================
