\* Requests one after another: a supplier gets a category, then the category is deleted.
CONSTANTS
    l1 = l1  l2 = l2  c1 = c1  c2 = c2  c3 = c3  k1 = k1  k2 = k2  g1 = g1  g2 = g2
    gebieden = gebieden  cat = cat  n1 = n1  n2 = n2
    Leveranciers = {l1, l2}
    Contacten = {c1, c2, c3}
    Contracten = {k1, k2}
    KvkNummers = {"kvk1", "kvk2"}
    Koppelrijen = {g1, g2}
    LijstVan <- MCLijstVan
    Categorieen = {cat}
    Gebieden = {n1, n2}
    CodeVan <- MCCodeVan
    EigenaarVan <- MCEigenaarVan
    BeginRij <- MCBeginRij
    Verzoeken = {v1, v2}
    MaxOpen = 1
    Geen = Geen
SPECIFICATION Spec
SYMMETRY MCSymmetrie
\* A request runs once; when all have ended nothing more need happen.
CHECK_DEADLOCK FALSE
INVARIANT CategorieVerwijderbaar
