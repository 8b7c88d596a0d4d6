------------------------------ MODULE MCCatalog ------------------------------
(* Small instances of Catalog for TLC: two projects of two organizations,  *)
(* a service of each kind, and an account that two endpoints share.        *)
EXTENDS Catalog
LOCAL INSTANCE TLC

CONSTANTS h1, h2, o1, o2, j1, j2, a1, a2, a3, e1, e2, e3, p1, p2, p3, m1, m2, m3, k1, k2, v1, v2

TwoOrgs == [j \in Projects |-> IF j = j1 THEN o1 ELSE o2]

SharedAccount ==
  {<<"account", a1, o1>>, <<"account", a2, o2>>,
   <<"endpoint", e1, a1>>, <<"endpoint", e2, a1>>,
   <<"pool", p1, o1>>, <<"pool", p2, o1>>,
   <<"member", p1, e1>>, <<"member", p2, e2>>,
   <<"model", m1, p1>>, <<"model", m2, p2>>,
   <<"grant", j1, m1>>, <<"grant", j1, m2>>,
   <<"key", k1, j1>>, <<"key_grant", k1, m1>>}

Alike == Permutations({h1, h2}) \cup Permutations({v1, v2})

OneDatabase == {SharedAccount}
=============================================================================
