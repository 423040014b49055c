----------------------------- MODULE MCToegang -----------------------------
(* Small instance of Toegang for TLC.  p is a platform administrator with  *)
(* a tenant of its own, a the administrator of another one, b was invited  *)
(* there and has not logged in yet, c is a free row.                       *)
EXTENDS Toegang, TLC

MCGebruiker(t, e, i, k, tot) ==
    [thuis |-> t, email |-> e, subject |-> i, uitnodiging |-> k, tot |-> tot]
MCBeginGebruiker ==
    [p |-> MCGebruiker("t0", "ep", "ip", Geen, 0), a |-> MCGebruiker("t1", "ea", "ia", Geen, 0),
     b |-> MCGebruiker("t1", "eb", Geen, "k1", 1), c |-> GeenGebruiker]

MCLid(rol, actief) == [GeenLid EXCEPT !.rol = rol, !.actief = actief]
MCBeginLid ==
    LET In(x, rij) == [t \in Tenants |-> IF t = x THEN rij ELSE GeenLid] IN
    [p |-> In("t0", MCLid("admin", TRUE)), a |-> In("t1", MCLid("admin", TRUE)),
     b |-> In("t1", MCLid("admin", TRUE)), c |-> In("t1", GeenLid)]

MCAdresVan  == [ip |-> "ep", ia |-> "ea", ib |-> "eb"]
MCSymmetrie == Permutations(Verzoeken)
=============================================================================
