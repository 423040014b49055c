\* Three confirmations, of the same or of different files.
CONSTANTS
    Jobs = {"j1", "j2"}
    Verzoeken = {r1, r2, r3}
    Nummers = {"n0", "n1", "n2"}
    Categorieen = {"ict"}
    Contacten = {"p1", "p2"}
    Gebieden = {"anf"}
    Rijen <- MCRijen
    Bekend = {"n0"}
    Geen = Geen
SPECIFICATION EerlijkeSpec
\* When every confirmation has ended nothing more need happen.
CHECK_DEADLOCK FALSE
INVARIANTS
    TypeOK
    AllesOfNiets
    EenVendorPerNummer
    RijVerwijst
PROPERTY ImportEindigt
