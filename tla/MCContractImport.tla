-------------------------- MODULE MCContractImport --------------------------
(* Small instance of ContractImport for TLC: a file with a new vendor in   *)
(* two rows and a row the preview rejected, and a file that meets the same *)
(* category and area in the opposite order.                                *)
EXTENDS ContractImport

MCRij(mag, n, cat, con, geb) ==
    [importable |-> mag, nummer |-> n, categorie |-> cat, contact |-> con, gebied |-> geb]

MCRijen == [j1 |-> <<MCRij(TRUE, "n1", "ict", "p1", "anf"), MCRij(FALSE, Geen, Geen, Geen, Geen),
                     MCRij(TRUE, "n1", Geen, "p1", Geen)>>,
            j2 |-> <<MCRij(TRUE, Geen, Geen, Geen, "anf"), MCRij(TRUE, "n2", "ict", "p1", Geen),
                     MCRij(TRUE, "n0", "ict", "p2", Geen)>>]
=============================================================================
