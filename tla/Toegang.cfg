\* Three requests over the whole of login, members and platform management.
CONSTANTS
    Gebruikers = {"p", "a", "b", "c"}
    Tenants = {"t0", "t1", "t2"}
    Identiteiten = {"ip", "ia", "ib"}
    Adressen = {"ep", "ea", "eb"}
    AdresVan <- MCAdresVan
    Uitnodigingen = {"k1", "k2"}
    TOEGESTANE_ROLLEN = {"admin", "user"}
    Verzoeken = {v1, v2, v3}
    Platformbeheerders = {"p"}
    BeginTenants = {"t0", "t1"}
    BeginGebruiker <- MCBeginGebruiker
    BeginLid <- MCBeginLid
    Venster = 1
    UitnodigingGeldig = 1
    MaxTijd = 1
    Geen = Geen
SPECIFICATION Spec
SYMMETRY MCSymmetrie
\* A request runs once; when all have ended nothing more need happen.
CHECK_DEADLOCK FALSE
INVARIANTS
    TypeOK
PROPERTIES
    AlleenGenodigdeGekoppeld
    GeenSessieInGeslotenTenant
    LaatsteAdminAlleenBijOverlap
    SessieEindigtVoorgoed
