\* Three requests, two at a time, on the responses of a round and on dossiers.
CONSTANTS
    Responsen = {r1}
    Oordelen = {o1, o2}
    Notities = {n1}
    Beoordelaars = {u1}
    Dossierrijen = {d1}
    Dossiernotities = {m1, m2}
    Dossierbijlagen = {b1, b2}
    Dossierlinks = {k1}
    DossierVan <- MCDossierVan
    MAX_BIJLAGEN_PER_ENGAGEMENT = 1
    Verzoeken = {v1, v2, v3}
    MaxOpen = 2
    Geen = Geen
SPECIFICATION Spec
SYMMETRY MCSymmetrie
\* A request runs once; when all have ended nothing more need happen.
CHECK_DEADLOCK FALSE
INVARIANTS
    TypeOK
    LaatsteOordeelTelt
    SchermenKloppen
PROPERTIES
    DossierKlopt
