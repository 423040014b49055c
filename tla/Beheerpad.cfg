\* Two concurrent administrators, two vendors, one supplier request.
CONSTANTS
    Vendors = {v1, v2}
    Verzoeken = {r1}
    Beheerders = {b1, b2}
    Tokens = {t1, t2, t3}
    AantalVragen = 1
    Verplicht <- MCVerplicht
    Geldigheid = 1
    Sluittijden <- MCSluittijden
    MaxTijd = 0
    Geen = Geen
SPECIFICATION Spec
SYMMETRY Symmetrie
\* Once everything is handled nothing more need happen.
CHECK_DEADLOCK FALSE
INVARIANTS
    HandmatigBijHuidigeLink
PROPERTIES
    LinkAlleenNaIntrekken
