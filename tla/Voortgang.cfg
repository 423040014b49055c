\* Liveness of supplier requests; no symmetry.
CONSTANTS
    Vendors = {v1}
    Verzoeken = {r1, r2}
    Beheerders = {b1}
    Tokens = {t1}
    AantalVragen = 2
    Verplicht <- MCVerplicht
    Geldigheid = 1
    Sluittijden <- MCSluittijden
    MaxTijd = 0
    Geen = Geen
SPECIFICATION EerlijkeSpec
CHECK_DEADLOCK FALSE
PROPERTIES
    VerzoekEindigt
