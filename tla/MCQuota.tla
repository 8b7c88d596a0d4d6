------------------------------ MODULE MCQuota ------------------------------
(* Small instances of QuotaLifecycle for TLC.                              *)
EXTENDS QuotaLifecycle, TLC

CONSTANTS r1, r2, r3, k1, k2, p1

OneProject == [k \in Keys |-> p1]
Two == {k1, k2}
One == {k1}

Lim(rpm, conc) == [rpm |-> rpm, conc |-> conc]
MCKeyOne == {Lim(None, 1)}
MCKeyAny == {Lim(None, None), Lim(None, 1)}
MCProjectTwo == {Lim(None, 2)}
MCProjectAny == {Lim(None, None), Lim(None, 2)}
MCRpmKey == {Lim(1, None)}
MCRpmProject == {Lim(2, None)}

AnyRequest == Permutations(Requests)
=============================================================================
