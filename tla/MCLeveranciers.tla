--------------------------- MODULE MCLeveranciers ---------------------------
(* Small instance of Leveranciers: a supplier with two contacts, a         *)
(* contract and one of two areas, a category, and room for another one.    *)
EXTENDS Leveranciers, TLC

CONSTANTS l1, l2, c1, c2, c3, k1, g1, g2, gebieden, k2, cat, n1, n2

MCBeginRij == [r \in RijSleutels |->
    CASE r = l1 -> NieuweLeverancier("kvk1", Geen)
      [] r \in {c1, c2} -> [GeenRij EXCEPT !.stand = "live", !.van = l1, !.primair = (r = c1)]
      [] r = k1 -> NieuwContract(l1, c1)
      [] r \in {g1, n1, cat} -> [GeenRij EXCEPT !.stand = "live"]
      [] OTHER  -> GeenRij]

MCLijstVan == [y \in Koppelrijen |-> gebieden]
MCCodeVan == [y \in Koppelrijen |-> IF y = g1 THEN n1 ELSE n2]
MCEigenaarVan == [x \in {gebieden} |-> k1]
MCSymmetrie == Permutations(Verzoeken)
=============================================================================
