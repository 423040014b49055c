------------------------------ MODULE Dossiers ------------------------------
(***************************************************************************)
(* Supplier dossiers (VendorEngagementService): an open or closed dossier  *)
(* with notes, links to contracts and responses, and attachments, of which *)
(* the bytes are in the file store (BestandOpslagService).  The file is    *)
(* stored inside the transaction, before its row.                          *)
(*                                                                         *)
(* Dossiers can be linked to responses, and the same employees work on     *)
(* both, so this module extends Beoordeling and Spec is about the two      *)
(* together.                                                               *)
(***************************************************************************)
EXTENDS Beoordeling

CONSTANTS
    Dossierrijen,         \* keys of clm.vendor_engagement
    Dossiernotities,      \* keys of clm.vendor_engagement_note
    Dossierbijlagen,      \* keys of attachments, each with its storage key
    Dossierlinks,         \* the link rows there can be: a dossier and a target
    DossierVan,           \* the dossier of each link row
    MAX_BIJLAGEN_PER_ENGAGEMENT

ASSUME DossiersMaximum == MAX_BIJLAGEN_PER_ENGAGEMENT \in Nat \ {0}

DossierSleutels == Dossierrijen \cup Dossiernotities \cup Dossierbijlagen \cup Dossierlinks

(* Each table has keys of its own.                                         *)
ASSUME DossiersSleutels ==
    /\ Oordelen \cap (Notities \cup Beoordelaars \cup DossierSleutels) = {}
    /\ Notities \cap (Beoordelaars \cup DossierSleutels) = {}
    /\ Beoordelaars \cap DossierSleutels = {}
    /\ Dossierrijen \cap (Dossiernotities \cup Dossierbijlagen \cup Dossierlinks) = {}
    /\ Dossiernotities \cap (Dossierbijlagen \cup Dossierlinks) = {}
    /\ Dossierbijlagen \cap Dossierlinks = {}
    /\ Geen \notin Oordelen \cup Notities \cup Beoordelaars \cup DossierSleutels

VARIABLES
    bestanden,   \* the storage keys for which the store has a file
    gesloten     \* per dossier, how often it was closed

dvars == <<bestanden, gesloten>>
vars == <<rij, verzoek, bvars, dvars>>

GeenDossier == [stand |-> "geen", status |-> "open", afgerondOp |-> FALSE, stap |-> FALSE]
GeenDossiernotitie == [stand |-> "geen", van |-> Geen, uitkomst |-> FALSE]
GeenBijlage == [stand |-> "geen", van |-> Geen]

Init ==
    /\ BeoordelingInit
    /\ rij = [r \in DOMAIN BeginBeoordeling \cup DossierSleutels |->
         IF r \in Dossierrijen THEN GeenDossier
         ELSE IF r \in Dossiernotities THEN GeenDossiernotitie
         ELSE IF r \in Dossierbijlagen THEN GeenBijlage
         ELSE IF r \in Dossierlinks THEN GeenKoppel
         ELSE BeginBeoordeling[r]]
    /\ verzoek = [q \in Verzoeken |-> NieuwVerzoek]
    /\ bestanden = {} /\ gesloten = [d \in Dossierrijen |-> 0]

-----------------------------------------------------------------------------
(* Requests.                                                               *)

Overig == UNCHANGED <<rij, uitvraag, volgorde, beeld, dvars>>
Vaststaat == UNCHANGED <<rij, bvars, dvars>>

(* aanmaken: the dossier, its first note and its links L; d is a new key.  *)
Aanmaken(q, d, n, L) ==
    /\ Onbenut(d) /\ Onbenut(n)
    /\ BegintBij(q, "aanmaken", d, [GeenInvoer EXCEPT !.doel = d, !.extra = n, !.waarde = L],
                 "dossierNieuw")
    /\ Overig

(* notitieToevoegen and linkToevoegen: the dossier is there when looked at.*)
NotitieToevoegen(q, d, n) ==
    /\ Onbenut(n) /\ rij[d].stand = "live"
    /\ BegintBij(q, "dossiernotitie", d, [GeenInvoer EXCEPT !.doel = n], "dossierrij")
    /\ Overig

LinkToevoegen(q, k) ==
    /\ rij[DossierVan[k]].stand = "live"
    /\ BegintBij(q, "link", DossierVan[k], [GeenInvoer EXCEPT !.doel = k], "link")
    /\ Overig

(* notitieIntrekken, bijlageIntrekken.                                     *)
RijIntrekken(q, r) ==
    /\ rij[r].stand # "geen"
    /\ BegintBij(q, "rijIntrekken", rij[r].van, [GeenInvoer EXCEPT !.doel = r], "rijWeg")
    /\ Overig

(* bijlageToevoegen, after the validation of the bytes.                    *)
BijlageToevoegen(q, d, b) ==
    /\ Onbenut(b) /\ b \notin bestanden /\ rij[d].stand # "geen"
    /\ BegintBij(q, "bijlage", d, [GeenInvoer EXCEPT !.doel = b], "slot")
    /\ Overig

(* afronden, heropenen, volgendeStapZetten and engagementIntrekken are one *)
(* conditional UPDATE each; afronden adds a note with the outcome.         *)
DossierWijzigen(q, d, wat, n) ==
    /\ rij[d].stand # "geen"
    /\ IF wat = "afronden" THEN n # Geen /\ Onbenut(n) ELSE n = Geen
    /\ BegintBij(q, wat, d, [GeenInvoer EXCEPT !.doel = d, !.extra = n], "dossier")
    /\ Overig

-----------------------------------------------------------------------------
(* Their steps.                                                            *)

(* Mutant of NieuweNotitie: the dossier left open.                         *)
NotitieZonderDossier(d, uitkomst) == [stand |-> "live", van |-> "geen", uitkomst |-> uitkomst]

NieuweNotitie(d, uitkomst) == [stand |-> "live", van |-> d, uitkomst |-> uitkomst]

SchrijfDossierNieuw(q) ==
    LET d == Wat(q).doel   n == Wat(q).extra   R == {d, n} \cup Wat(q).waarde IN
    /\ verzoek[q].pc = "dossierNieuw"
    /\ Schrijft(q, R, [r \in R |->
         IF r = d THEN [GeenDossier EXCEPT !.stand = "live"]
         ELSE IF r = n THEN NieuweNotitie(d, FALSE) ELSE [stand |-> "live"]], "commit")
    /\ Vaststaat

SchrijfDossierrij(q) ==
    /\ verzoek[q].pc = "dossierrij"
    /\ Schrijft(q, {Wat(q).doel}, [r \in {Wat(q).doel} |-> NieuweNotitie(Wat(q).van, FALSE)],
                "commit")
    /\ Vaststaat

(* INSERT ... ON CONFLICT DO NOTHING; no row means a status 400.           *)
SchrijfLink(q) ==
    LET k == Wat(q).doel IN
    /\ verzoek[q].pc = "link"
    /\ Vrij(q, {k})
    /\ IF rij[k].stand = "geen"
       THEN Schrijft(q, {k}, [r \in {k} |-> [stand |-> "live"]], "commit")
       ELSE Weigert(q)
    /\ Vaststaat

SchrijfRijWeg(q) ==
    LET r == Wat(q).doel IN
    /\ verzoek[q].pc = "rijWeg"
    /\ Vrij(q, {r})
    /\ IF rij[r].stand = "live"
       THEN Schrijft(q, {r}, [x \in {r} |-> [rij[r] EXCEPT !.stand = "weg"]], "commit")
       ELSE Weigert(q)
    /\ Vaststaat

Wijzigbaar(d, wat) ==
    /\ rij[d].stand = "live"
    /\ wat \in {"afronden", "stap", "geenStap"} => rij[d].status = "open"
    /\ wat = "heropenen" => rij[d].status = "afgerond"

Gewijzigd(d, wat) ==
    CASE wat = "afronden"  -> [rij[d] EXCEPT !.status = "afgerond", !.afgerondOp = TRUE, !.stap = FALSE]
      [] wat = "heropenen" -> [rij[d] EXCEPT !.status = "open", !.afgerondOp = FALSE]
      [] wat = "stap"      -> [rij[d] EXCEPT !.stap = TRUE]
      [] wat = "geenStap" -> [rij[d] EXCEPT !.stap = FALSE]
      [] wat = "intrekken" -> [rij[d] EXCEPT !.stand = "weg"]

SchrijfDossier(q) ==
    LET d == Wat(q).doel   n == Wat(q).extra   R == {d, n} \ {Geen} IN
    /\ verzoek[q].pc = "dossier"
    /\ Vrij(q, {d})
    /\ IF Wijzigbaar(d, verzoek[q].op)
       THEN Schrijft(q, R, [r \in R |-> IF r = d THEN Gewijzigd(d, verzoek[q].op)
                                        ELSE NieuweNotitie(d, TRUE)], "commit")
       ELSE Weigert(q)
    /\ Vaststaat

(* Mutant of Vergrendel: without FOR UPDATE.                               *)
KijktAlleen(q) ==
    /\ verzoek[q].pc = "slot"
    /\ IF rij[Wat(q).van].stand = "live" THEN Naar(q, "tel") ELSE Weigert(q)
    /\ Vaststaat

(* SELECT ... FOR UPDATE on the dossier: the row is locked, unchanged.     *)
Vergrendel(q) ==
    LET d == Wat(q).van IN
    /\ verzoek[q].pc = "slot"
    /\ Vrij(q, {d})
    /\ IF rij[d].stand = "live"
       THEN Schrijft(q, {d}, [r \in {d} |-> rij[d]], "tel")
       ELSE Weigert(q)
    /\ Vaststaat

BijlagenVan(d) == {b \in Dossierbijlagen : rij[b].stand = "live" /\ rij[b].van = d}

Vol(d) == Cardinality(BijlagenVan(d)) >= MAX_BIJLAGEN_PER_ENGAGEMENT

TelBijlagen(q) ==
    /\ verzoek[q].pc = "tel"
    /\ IF Vol(Wat(q).van) THEN Weigert(q) ELSE Naar(q, "bewaar")
    /\ Vaststaat

(* The file is stored; that it cannot be stored is a Rollback.             *)
Bewaar(q) ==
    /\ verzoek[q].pc = "bewaar"
    /\ bestanden' = bestanden \cup {Wat(q).doel}
    /\ Naar(q, "bijlage")
    /\ UNCHANGED <<rij, bvars, gesloten>>

SchrijfBijlage(q) ==
    LET b == Wat(q).doel IN
    /\ verzoek[q].pc = "bijlage"
    /\ Schrijft(q, {b}, [r \in {b} |-> [stand |-> "live", van |-> Wat(q).van]], "commit")
    /\ Vaststaat

-----------------------------------------------------------------------------
(* COMMIT also tells the history: which verdict came last, which dossier   *)
(* was closed.                                                             *)
Vastleggen(q) ==
    /\ Commit(q)
    /\ volgorde' = IF verzoek[q].op = "oordeel" THEN Append(volgorde, Wat(q).doel) ELSE volgorde
    /\ gesloten' = IF verzoek[q].op = "afronden"
                   THEN [gesloten EXCEPT ![Wat(q).van] = @ + 1] ELSE gesloten
    /\ UNCHANGED <<uitvraag, samen, beeld, bestanden>>

Terugdraaien(q) ==
    /\ Rollback(q)
    /\ beeld' = [beeld EXCEPT ![q] = GeenBeeld]
    /\ UNCHANGED <<uitvraag, volgorde, samen, dvars>>

DossierVraag(q) ==
    \/ \E d \in Dossierrijen :
         \/ \E n \in Dossiernotities :
              \/ NotitieToevoegen(q, d, n)
              \/ \E L \in SUBSET {k \in Dossierlinks : DossierVan[k] = d} : Aanmaken(q, d, n, L)
         \/ \E b \in Dossierbijlagen : BijlageToevoegen(q, d, b)
         \/ \E wat \in {"afronden", "heropenen", "stap", "geenStap", "intrekken"},
               n \in Dossiernotities \cup {Geen} : DossierWijzigen(q, d, wat, n)
    \/ \E k \in Dossierlinks : LinkToevoegen(q, k)
    \/ \E r \in Dossiernotities \cup Dossierbijlagen : RijIntrekken(q, r)

DossierStap(q) ==
    SchrijfDossierNieuw(q) \/ SchrijfDossierrij(q) \/ SchrijfLink(q) \/ SchrijfRijWeg(q)
    \/ SchrijfDossier(q) \/ Vergrendel(q) \/ TelBijlagen(q) \/ Bewaar(q) \/ SchrijfBijlage(q)

Next ==
    \/ \E q \in Verzoeken :
         \/ (BeoordelingVraag(q) \/ BeoordelingStap(q)) /\ UNCHANGED dvars
         \/ DossierVraag(q) \/ DossierStap(q) \/ Vastleggen(q) \/ Terugdraaien(q)
    \/ UitvraagStap /\ UNCHANGED dvars

Spec == Init /\ [][Next]_vars

-----------------------------------------------------------------------------
(* The rows of every table have their shape; what a request wrote has the  *)
(* shape of the row it replaces.                                           *)
RijSoort(r) ==
    CASE r \in Oordelen ->
           [stand : {"geen", "live", "weg"}, van : Responsen \cup {Geen},
            oordeel : OORDELEN \cup {Geen}, sinds : Nat]
      [] r \in Notities ->
           [stand : {"geen", "live", "weg"}, van : Responsen \cup {Geen}]
      [] r \in Beoordelaars \cup Dossierlinks -> [stand : {"geen", "live"}]
      [] r \in Dossierrijen ->
           [stand : {"geen", "live", "weg"}, status : {"open", "afgerond"},
            afgerondOp : BOOLEAN, stap : BOOLEAN]
      [] r \in Dossiernotities ->
           [stand : {"geen", "live", "weg"}, van : Dossierrijen \cup {Geen}, uitkomst : BOOLEAN]
      [] r \in Dossierbijlagen ->
           [stand : {"geen", "live", "weg"}, van : Dossierrijen \cup {Geen}]

TypeOK ==
    /\ respons \in [Responsen -> [stand : {"geen", "open", "ingediend", "ingetrokken"},
                                  apart : BOOLEAN]]
    /\ bestanden \subseteq Dossierbijlagen
    /\ \A r \in DOMAIN rij : rij[r] \in RijSoort(r)
    /\ \A q \in Verzoeken : \A r \in DOMAIN verzoek[q].schrijf :
         r \in DOMAIN rij /\ verzoek[q].schrijf[r] \in RijSoort(r)

(* A response has verdicts only once it is back, and the verdict that sets *)
(* its status is the one that was saved last among those not withdrawn.    *)
(* created_at is the start of the transaction, so the second half needs    *)
(* that no two requests worked on the response at the same time.           *)
LaatsteOordeelTelt ==
    \A r \in Responsen :
      /\ Levend(r) # {} => respons[r].stand = "ingediend"
      /\ r \notin samen => \A i \in 1..Len(volgorde) :
           /\ volgorde[i] \in Levend(r)
           /\ \A j \in i+1..Len(volgorde) : volgorde[j] \notin Levend(r)
           => LaatsteOordeel(r) = rij[volgorde[i]].oordeel

(* The status overview shows a supplier whose response did not change      *)
(* while it was read once, and leaves it out only when its one response    *)
(* was withdrawn or its round archived.  The page of a round never counts  *)
(* a submission it does not list.  What waits for a reviewer is back, and  *)
(* in the overview too.                                                    *)
SchermenKloppen ==
    /\ \A q \in Verzoeken : Compleet(q) =>
         IF beeld[q].scherm = "ronde" THEN beeld[q].eerst \subseteq beeld[q].dan
         ELSE \A r \in beeld[q].stil :
                /\ ~ (r \in beeld[q].eerst /\ r \in beeld[q].dan)
                /\ r \notin beeld[q].eerst \cup beeld[q].dan =>
                     respons[r].stand = "ingetrokken" \/ ronde.status = "archived"
    /\ \A u \in Beoordelaars : \A r \in Werkvoorraad(u) :
         r \in Haal /\ Status(r) \notin {"te_laat", "apart_verzonden", "opgestuurd"}

(* What a dossier holds: at most the maximum of attachments, each with its *)
(* file in the store; a date of closing and no next step when it is closed;*)
(* and one outcome among its notes for every time it was closed.           *)
Inhoud ==
    /\ \A b \in Dossierbijlagen : rij[b].stand # "geen" => b \in bestanden
    /\ \A d \in Dossierrijen :
         /\ Cardinality(BijlagenVan(d)) <= MAX_BIJLAGEN_PER_ENGAGEMENT
         /\ (rij[d].status = "afgerond") = rij[d].afgerondOp
         /\ rij[d].afgerondOp => ~ rij[d].stap
         /\ gesloten[d] = Cardinality({n \in Dossiernotities : rij[n].van = d /\ rij[n].uitkomst})

(* Every step leaves dossiers whose Inhoud is right, and what it adds to a *)
(* withdrawn one is at most a note, whose request the withdrawal           *)
(* overlapped: an attachment is added under a lock on the dossier.         *)
DossierKlopt ==
    [][/\ Inhoud'
       /\ \A r \in Dossiernotities \cup Dossierbijlagen :
            rij[r].stand = "geen" /\ rij'[r].stand = "live" /\ rij[rij'[r].van].stand = "weg"
            => r \in Dossiernotities /\ rij'[r].van \in samen]_vars
=============================================================================
