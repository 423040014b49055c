\* A statement of the repository that the code does not keep.
CONSTANTS
    Vendors = {v1}
    Verzoeken = {r1, r2}
    Beheerders = {b1}
    Tokens = {t1, t2}
    AantalVragen = 2
    Verplicht <- MCVerplicht
    Geldigheid = 1
    Sluittijden <- MCSluittijden
    MaxTijd = 1
    Geen = Geen
SPECIFICATION Spec
SYMMETRY Symmetrie
\* Once everything is handled nothing more need happen.
CHECK_DEADLOCK FALSE
PROPERTY
    IngediendeAntwoordenBlijven
