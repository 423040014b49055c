\* Three requests, two at a time, on two templates and two new ones.
CONSTANTS
    t1 = t1  t2 = t2  t3 = t3  t4 = t4  r1 = r1  r2 = r2  kosten = kosten
    Templates = {t1, t2, t3, t4}
    Rondes = {r1, r2}
    Documenten <- MCDocumenten
    ExtraCategorie <- MCExtraCategorie
    ExtraVraag <- MCExtraVraag
    Slug <- MCSlug
    BeginRij <- MCBeginRij
    Verzoeken = {v1, v2, v3}
    MaxOpen = 2
    Geen = Geen
    Onzin = Onzin
SPECIFICATION Spec
SYMMETRY MCSymmetrie
\* A request runs once; when all have ended nothing more need happen.
CHECK_DEADLOCK FALSE
INVARIANTS
    LopendeRondeVast
    HeleVragenlijst
