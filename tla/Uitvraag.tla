------------------------------ MODULE Uitvraag ------------------------------
(***************************************************************************)
(* One survey round (clm.survey_run), the responses of its vendors         *)
(* (clm.survey_response), their answers (clm.survey_answer) and the audit  *)
(* lines of submissions, worked on by concurrent supplier requests and     *)
(* administrator requests.                                                 *)
(*                                                                         *)
(* Every HTTP request runs in one READ COMMITTED transaction               *)
(* (DatabaseService.withTenant).  The isolation level is what makes the    *)
(* system hard: a statement decides on the snapshot it starts with, waits  *)
(* for row locks, and then acts; a commit publishes all rows of a          *)
(* transaction at once.  The model therefore has one step for the snapshot *)
(* of a statement and one for its effect wherever the two can differ, and  *)
(* keeps the rows a transaction wrote in the request's own record until    *)
(* its COMMIT.                                                             *)
(*                                                                         *)
(* Not in the model: tenants (row level security separates them), the      *)
(* content of an answer (only who wrote it), attachments, mail.            *)
(***************************************************************************)
EXTENDS Integers

CONSTANTS
    Vendors,       \* the vendors that can be invited to the round
    Verzoeken,     \* the supplier requests (POST answers, PUT concept)
    Beheerders,    \* the administrator connections
    Tokens,        \* the link tokens randomBytes(32) can produce
    AantalVragen,  \* number of questions of the template, by position
    Verplicht,     \* the questions with is_required
    Geldigheid,    \* geldigheidDagen, in clock ticks
    Sluittijden,   \* the closes_at values a round may be created with
    MaxTijd,       \* bound: the clock stops here
    Geen           \* SQL NULL

Vragen == 1..AantalVragen
Tijd   == 0..MaxTijd

ASSUME VragenAanname == AantalVragen \in Nat \ {0} /\ Verplicht \subseteq Vragen
ASSUME TijdAanname   == /\ MaxTijd \in Nat
                        /\ Geldigheid \in Nat \ {0}
                        /\ Sluittijden \subseteq Tijd \cup {Geen}
ASSUME GeenAanname   == /\ Geen \notin Int
                        /\ Geen \notin Vendors \cup Verzoeken \cup Tokens

RunStatussen     == {"draft", "active", "finished", "archived"}
ResponsStatussen == {"geen", "pending", "submitted", "revoked"}
Vervaltijd       == 0..(MaxTijd + Geldigheid)

InTransactie == {"schrijven", "gelezen", "afsluiten", "besloten", "vastleggen"}
Lopend       == {"toegelaten"} \cup InTransactie
Afgelopen    == {"geweigerd", "ongeldig", "niet-meer-open", "geweigerd-door-rls",
                 "opgeslagen", "ingediend", "afgebroken"}

VARIABLES
    runStatus,     \* survey_run.status, "geen" before the row exists
    closesAt,      \* survey_run.closes_at
    tijd,          \* the database clock
    vendorActief,  \* vendor.deleted_at IS NULL
    respons,       \* per vendor, the survey_response row of this round
    antwoord,      \* per vendor and question, the request whose answer is committed
    audit,         \* per vendor, the number of survey_response_ingediend lines
    uitgegeven,    \* the tokens ever minted
    verzoek,       \* the supplier requests
    beheer         \* the administrator requests between their SELECT and their write

ronde == <<runStatus, closesAt>>
vars  == <<runStatus, closesAt, tijd, vendorActief, respons, antwoord, audit,
           uitgegeven, verzoek, beheer>>

GeenRij == [status |-> "geen", token |-> Geen, expiresAt |-> 0,
            submittedAt |-> Geen, handmatig |-> Geen]

NieuwVerzoek == [pc |-> "nieuw", soort |-> Geen, vendor |-> Geen, token |-> Geen,
                 start |-> 0, wil |-> {}, geschreven |-> {}]

Vrij == [op |-> "vrij", naar |-> Geen, doel |-> {}, verloopt |-> 0]

Init ==
    /\ runStatus = "geen" /\ closesAt = Geen /\ tijd = 0
    /\ vendorActief = [v \in Vendors |-> TRUE]
    /\ respons = [v \in Vendors |-> GeenRij]
    /\ antwoord = [v \in Vendors |-> [q \in Vragen |-> Geen]]
    /\ audit = [v \in Vendors |-> 0]
    /\ uitgegeven = {}
    /\ verzoek = [r \in Verzoeken |-> NieuwVerzoek]
    /\ beheer = [b \in Beheerders |-> Vrij]

-----------------------------------------------------------------------------
(* Supplier requests: the guard, then the transaction of the handler.      *)

(* run_closed of resolve_survey_token; survey_run.revoked_at is never set. *)
RunGesloten == closesAt # Geen /\ closesAt < tijd

(* Mutant of Toegang: the guard as it was before migration 0006, without   *)
(* the status of the round.                                                *)
ToegangZonderRonde(v) ==
    /\ respons[v].status = "pending"
    /\ respons[v].expiresAt > tijd
    /\ ~RunGesloten
    /\ vendorActief[v]

(* The admission test of SurveyTokenService.controleer, for the response   *)
(* that carries the token.                                                 *)
Toegang(v) ==
    /\ respons[v].status = "pending"
    /\ respons[v].expiresAt > tijd
    /\ ~RunGesloten
    /\ runStatus = "active"
    /\ vendorActief[v]

(* A request that ended leaves its outcome and the link it came with.      *)
Einde(r, uitkomst) ==
    verzoek' = [verzoek EXCEPT ![r] =
        [NieuwVerzoek EXCEPT !.pc = uitkomst, !.vendor = verzoek[r].vendor,
                             !.token = verzoek[r].token]]

(* The guard runs before the handler, in a statement of its own.  It hands *)
(* the handler the response, not the token.                                *)
Controleer(r, t, soort, wil) ==
    /\ verzoek[r].pc = "nieuw"
    /\ \/ \E v \in Vendors :
            /\ respons[v].token = t /\ Toegang(v)
            /\ verzoek' = [verzoek EXCEPT ![r] =
                 [NieuwVerzoek EXCEPT !.pc = "toegelaten", !.soort = soort,
                    !.vendor = v, !.token = t, !.wil = wil]]
       \/ /\ ~\E v \in Vendors : respons[v].token = t /\ Toegang(v)
          /\ Einde(r, "geweigerd")
    /\ UNCHANGED <<ronde, tijd, vendorActief, respons, antwoord, audit,
                   uitgegeven, beheer>>

(* Mutant of Geldig: submitting validates like saving.                     *)
GeldigAlsConcept(soort, wil) == TRUE

(* valideerAntwoorden wants every required question, valideerConcept any   *)
(* subset; a body either refuses for its form is left out.                 *)
Geldig(soort, wil) == soort = "dienIn" => Verplicht \subseteq wil

(* What a transaction does once it has written `geschreven`.               *)
Vervolg(soort, wil, geschreven) ==
    IF wil # geschreven THEN "schrijven"
    ELSE IF soort = "dienIn" THEN "afsluiten" ELSE "vastleggen"

(* BEGIN: now() is fixed here for the whole transaction; an invalid body   *)
(* is refused before anything is written.                                  *)
BeginTransactie(r) ==
    /\ verzoek[r].pc = "toegelaten"
    /\ \/ /\ Geldig(verzoek[r].soort, verzoek[r].wil)
          /\ verzoek' = [verzoek EXCEPT
               ![r].pc = Vervolg(verzoek[r].soort, verzoek[r].wil, {}),
               ![r].start = tijd]
       \/ ~Geldig(verzoek[r].soort, verzoek[r].wil) /\ Einde(r, "ongeldig")
    /\ UNCHANGED <<ronde, tijd, vendorActief, respons, antwoord, audit,
                   uitgegeven, beheer>>

(* Mutant of IsVolgende: the answers in the order of the request body.     *)
IsVolgendeInInvoer(r, q) == q \in verzoek[r].wil \ verzoek[r].geschreven

(* schrijfAntwoorden walks the answers in the order the validation put     *)
(* them in: by position of the question, not in the order of the body.     *)
IsVolgende(r, q) ==
    /\ q \in verzoek[r].wil \ verzoek[r].geschreven
    /\ \A p \in verzoek[r].wil \ verzoek[r].geschreven : q <= p

(* The snapshot of one upsert: the WITH CHECK policy on survey_answer asks *)
(* for a pending response, and asks it of this snapshot only.              *)
LeesVoorSchrijven(r) ==
    /\ verzoek[r].pc = "schrijven"
    /\ IF respons[verzoek[r].vendor].status = "pending"
       THEN verzoek' = [verzoek EXCEPT ![r].pc = "gelezen"]
       ELSE Einde(r, "geweigerd-door-rls")
    /\ UNCHANGED <<ronde, tijd, vendorActief, respons, antwoord, audit,
                   uitgegeven, beheer>>

(* Request s holds the row (response, q): it wrote it and has not ended.   *)
HoudtRij(s, v, q) ==
    /\ verzoek[s].pc \in InTransactie
    /\ verzoek[s].vendor = v
    /\ q \in verzoek[s].geschreven

(* The upsert itself, once no other transaction holds the row.             *)
Schrijf(r, q) ==
    /\ verzoek[r].pc = "gelezen"
    /\ IsVolgende(r, q)
    /\ \A s \in Verzoeken \ {r} : ~HoudtRij(s, verzoek[r].vendor, q)
    /\ verzoek' = [verzoek EXCEPT
         ![r].geschreven = @ \cup {q},
         ![r].pc = Vervolg(verzoek[r].soort, verzoek[r].wil,
                           verzoek[r].geschreven \cup {q})]
    /\ UNCHANGED <<ronde, tijd, vendorActief, respons, antwoord, audit,
                   uitgegeven, beheer>>

(* The answers a request leaves behind when it commits.                    *)
Vastgelegd(r) ==
    [antwoord EXCEPT ![verzoek[r].vendor] =
        [q \in Vragen |-> IF q \in verzoek[r].geschreven THEN r ELSE @[q]]]

(* COMMIT of AntwoordConceptService.bewaar.                                *)
ConceptCommit(r) ==
    /\ verzoek[r].pc = "vastleggen"
    /\ antwoord' = Vastgelegd(r)
    /\ Einde(r, "opgeslagen")
    /\ UNCHANGED <<ronde, tijd, vendorActief, respons, audit, uitgegeven, beheer>>

(* Mutants of NogOpen: the WHERE without one of its two conditions.        *)
NogOpenOngeachtStatus(r) ==
    respons[verzoek[r].vendor].expiresAt > verzoek[r].start
NogOpenOngeachtTermijn(r) ==
    respons[verzoek[r].vendor].status = "pending"

(* The WHERE of the closing UPDATE, on the response row ...                *)
NogOpen(r) ==
    /\ respons[verzoek[r].vendor].status = "pending"
    /\ respons[verzoek[r].vendor].expiresAt > verzoek[r].start

(* ... and its EXISTS on the round, which sees the snapshot only.          *)
LeesVoorAfsluiten(r) ==
    /\ verzoek[r].pc = "afsluiten"
    /\ IF NogOpen(r) /\ runStatus = "active"
       THEN verzoek' = [verzoek EXCEPT ![r].pc = "besloten"]
       ELSE Einde(r, "niet-meer-open")
    /\ UNCHANGED <<ronde, tijd, vendorActief, respons, antwoord, audit,
                   uitgegeven, beheer>>

(* UPDATE, audit line and COMMIT of AntwoordIndienService.dienIn.  When    *)
(* the row changed after the snapshot, READ COMMITTED evaluates the WHERE  *)
(* on the response again; zero rows throws NietMeerOpenError, which rolls  *)
(* the answers back.                                                       *)
Afsluiten(r) ==
    /\ verzoek[r].pc = "besloten"
    /\ NogOpen(r)
    /\ LET v == verzoek[r].vendor IN
         /\ respons' = [respons EXCEPT ![v].status = "submitted",
                                       ![v].submittedAt = verzoek[r].start]
         /\ audit' = [audit EXCEPT ![v] = @ + 1]
    /\ antwoord' = Vastgelegd(r)
    /\ Einde(r, "ingediend")
    /\ UNCHANGED <<ronde, tijd, vendorActief, uitgegeven, beheer>>

NietMeerOpen(r) ==
    /\ verzoek[r].pc = "besloten"
    /\ ~NogOpen(r)
    /\ Einde(r, "niet-meer-open")
    /\ UNCHANGED <<ronde, tijd, vendorActief, respons, antwoord, audit,
                   uitgegeven, beheer>>

(* A crash, a lost connection or a database error: ROLLBACK.               *)
VerzoekBreektAf(r) ==
    /\ verzoek[r].pc \in Lopend
    /\ Einde(r, "afgebroken")
    /\ UNCHANGED <<ronde, tijd, vendorActief, respons, antwoord, audit,
                   uitgegeven, beheer>>

-----------------------------------------------------------------------------
(* Administrator requests: a SELECT that decides, then a write.  A request *)
(* the SELECT refuses (404, 409, or nothing to do) changes nothing.        *)

(* Mutant of OVERGANGEN: a status the CHECK constraint does not know.      *)
OVERGANGENMetClosed(van) ==
    CASE van = "draft"    -> {"active"}
      [] van = "active"   -> {"finished", "closed"}
      [] van = "finished" -> {"archived", "active"}
      [] OTHER            -> {}

(* The arrows of ronde-invoer.ts; the row exists from draft on.            *)
OVERGANGEN(van) ==
    CASE van = "draft"    -> {"active"}
      [] van = "active"   -> {"finished"}
      [] van = "finished" -> {"archived", "active"}
      [] OTHER            -> {}

(* leesSluitdatum refuses a closing date that is not in the future.        *)
MaakRonde(sluit) ==
    /\ runStatus = "geen"
    /\ sluit # Geen => sluit > tijd
    /\ runStatus' = "draft" /\ closesAt' = sluit
    /\ UNCHANGED <<tijd, vendorActief, respons, antwoord, audit, uitgegeven,
                   verzoek, beheer>>

Leest(b, op, naar, doel, verloopt) ==
    /\ beheer[b] = Vrij
    /\ beheer' = [beheer EXCEPT ![b] =
         [op |-> op, naar |-> naar, doel |-> doel, verloopt |-> verloopt]]
    /\ UNCHANGED <<ronde, tijd, vendorActief, respons, antwoord, audit,
                   uitgegeven, verzoek>>

(* wijzigStatus; only for a `naar` that an arrow leads to.                 *)
LeesWijzigStatus(b, naar) ==
    Leest(b, "status", naar, {}, 0)

(* archiveer walks draft, active, finished, archived itself and then does  *)
(* the same unconditional UPDATE as wijzigStatus.                          *)
LeesArchiveer(b) ==
    /\ runStatus \in {"draft", "active", "finished"}
    /\ Leest(b, "status", "archived", {}, 0)

SchrijfStatus(b) ==
    /\ beheer[b].op = "status"
    /\ runStatus' = beheer[b].naar
    /\ beheer' = [beheer EXCEPT ![b] = Vrij]
    /\ UNCHANGED <<closesAt, tijd, vendorActief, respons, antwoord, audit,
                   uitgegeven, verzoek>>

LeesIntrekken(b, v) ==
    respons[v].status = "pending" /\ Leest(b, "intrekken", Geen, {v}, 0)

(* Mutant of CheckSubmittedConsistent: the constraint does not exist.      *)
ZonderCheck(rij) == TRUE

(* survey_response_submitted_consistent_check: submitted iff submitted_at. *)
CheckSubmittedConsistent(rij) ==
    (rij.status = "submitted") <=> (rij.submittedAt # Geen)

(* The UPDATE of trekDeelnemerIn has no condition on the status; only the  *)
(* CHECK constraint stands between it and a response submitted meanwhile.  *)
SchrijfIntrekken(b, v) ==
    /\ beheer[b].op = "intrekken" /\ v \in beheer[b].doel
    /\ CheckSubmittedConsistent([respons[v] EXCEPT !.status = "revoked"])
    /\ respons' = [respons EXCEPT ![v].status = "revoked"]
    /\ beheer' = [beheer EXCEPT ![b] = Vrij]
    /\ UNCHANGED <<ronde, tijd, vendorActief, antwoord, audit, uitgegeven, verzoek>>

LeesHeruitnodigen(b, v) ==
    /\ respons[v].status = "revoked"
    /\ Leest(b, "heruitnodigen", Geen, {v}, tijd + Geldigheid)

(* A new answer row takes a KEY SHARE lock on its response (foreign key),  *)
(* and an UPDATE that changes the unique token_hash waits for those.       *)
HoudtSleutel(s, v) ==
    \E q \in Vragen : HoudtRij(s, v, q) /\ antwoord[v][q] = Geen

(* Mutant of NogIngetrokken: the UPDATE trusts the SELECT before it.       *)
VertrouwtOpSelect(v) == TRUE

(* AND status = 'revoked' in the UPDATE of heruitnodigen.                  *)
NogIngetrokken(v) == respons[v].status = "revoked"

(* Mutant of Heruitgenodigd: the old mailing date stays.                   *)
HeruitgenodigdMetOudeDatum(rij, t, verloopt) ==
    [rij EXCEPT !.status = "pending", !.token = t, !.expiresAt = verloopt]

(* Its SET clause.                                                         *)
Heruitgenodigd(rij, t, verloopt) ==
    [rij EXCEPT !.status = "pending", !.token = t, !.expiresAt = verloopt,
                !.handmatig = Geen]

SchrijfHeruitnodigen(b, v, t) ==
    /\ beheer[b].op = "heruitnodigen" /\ v \in beheer[b].doel
    /\ \A s \in Verzoeken : ~HoudtSleutel(s, v)
    /\ NogIngetrokken(v)
    /\ t \in Tokens \ uitgegeven
    /\ respons' = [respons EXCEPT ![v] = Heruitgenodigd(@, t, beheer[b].verloopt)]
    /\ uitgegeven' = uitgegeven \cup {t}
    /\ beheer' = [beheer EXCEPT ![b] = Vrij]
    /\ UNCHANGED <<ronde, tijd, vendorActief, antwoord, audit, verzoek>>

(* Vendors already invited are skipped; an unknown or deleted vendor, or   *)
(* nobody left to invite, refuses the whole request.                       *)
LeesUitnodigen(b, wie) ==
    LET teDoen == {v \in wie : respons[v].status = "geen"} IN
    /\ runStatus \in {"draft", "active"}
    /\ \A v \in wie : vendorActief[v]
    /\ teDoen # {}
    /\ Leest(b, "uitnodigen", Geen, teDoen, tijd + Geldigheid)

(* All rows in one transaction, each with a token of its own; the unique   *)
(* index (run_id, vendor_id) refuses a vendor invited meanwhile.           *)
SchrijfUitnodigen(b, token) ==
    LET doel == beheer[b].doel IN
    /\ beheer[b].op = "uitnodigen"
    /\ \A v \in doel : respons[v].status = "geen"
    /\ respons' = [v \in Vendors |->
         IF v \in doel
         THEN [GeenRij EXCEPT !.status = "pending", !.token = token[v],
                              !.expiresAt = beheer[b].verloopt]
         ELSE respons[v]]
    /\ uitgegeven' = uitgegeven \cup {token[v] : v \in doel}
    /\ beheer' = [beheer EXCEPT ![b] = Vrij]
    /\ UNCHANGED <<ronde, tijd, vendorActief, antwoord, audit, verzoek>>

NieuweTokens(doel) ==
    {f \in [doel -> Tokens \ uitgegeven] : \A v, w \in doel : f[v] = f[w] => v = w}

(* Any pending administrator request may end without effect: the zero rows *)
(* of heruitnodigen (409), the constraint errors above, a crash.           *)
BeheerRoltTerug(b) ==
    /\ beheer[b] # Vrij
    /\ beheer' = [beheer EXCEPT ![b] = Vrij]
    /\ UNCHANGED <<ronde, tijd, vendorActief, respons, antwoord, audit,
                   uitgegeven, verzoek>>

(* registreerHandmatigeVerzending is one UPDATE, whatever the status.  The *)
(* date is abstracted to the link it was registered for.                   *)
RegistreerHandmatig(v) ==
    /\ respons[v].status # "geen"
    /\ respons' = [respons EXCEPT ![v].handmatig = respons[v].token]
    /\ UNCHANGED <<ronde, tijd, vendorActief, antwoord, audit, uitgegeven,
                   verzoek, beheer>>

VerwijderVendor(v) ==
    /\ vendorActief[v]
    /\ vendorActief' = [vendorActief EXCEPT ![v] = FALSE]
    /\ UNCHANGED <<ronde, tijd, respons, antwoord, audit, uitgegeven, verzoek, beheer>>

Tik ==
    /\ tijd < MaxTijd
    /\ tijd' = tijd + 1
    /\ UNCHANGED <<ronde, vendorActief, respons, antwoord, audit, uitgegeven,
                   verzoek, beheer>>

-----------------------------------------------------------------------------
(* The server's own steps of a request that the guard let in.              *)
VerzoekStap(r) ==
    \/ BeginTransactie(r)
    \/ LeesVoorSchrijven(r)
    \/ \E q \in Vragen : Schrijf(r, q)
    \/ ConceptCommit(r)
    \/ LeesVoorAfsluiten(r)
    \/ Afsluiten(r)
    \/ NietMeerOpen(r)

Leverancier(r) ==
    \/ \E t \in uitgegeven, soort \in {"dienIn", "concept"}, wil \in SUBSET Vragen :
         Controleer(r, t, soort, wil)
    \/ VerzoekStap(r)
    \/ VerzoekBreektAf(r)

BeheerLeest(b) ==
    \/ \E naar \in OVERGANGEN(runStatus) : LeesWijzigStatus(b, naar)
    \/ LeesArchiveer(b)
    \/ \E v \in Vendors : LeesIntrekken(b, v) \/ LeesHeruitnodigen(b, v)
    \/ \E wie \in SUBSET Vendors : LeesUitnodigen(b, wie)

BeheerSchrijft(b) ==
    \/ SchrijfStatus(b)
    \/ \E v \in Vendors : SchrijfIntrekken(b, v)
    \/ \E v \in Vendors, t \in Tokens : SchrijfHeruitnodigen(b, v, t)
    \/ \E token \in NieuweTokens(beheer[b].doel) : SchrijfUitnodigen(b, token)
    \/ BeheerRoltTerug(b)

Omgeving ==
    \/ \E sluit \in Sluittijden : MaakRonde(sluit)
    \/ \E v \in Vendors : RegistreerHandmatig(v) \/ VerwijderVendor(v)
    \/ Tik

Next ==
    \/ \E r \in Verzoeken : Leverancier(r)
    \/ \E b \in Beheerders : BeheerLeest(b) \/ BeheerSchrijft(b)
    \/ Omgeving

Spec == Init /\ [][Next]_vars

(* The server keeps working on a request it let in; nothing is assumed of  *)
(* suppliers, administrators or the clock.                                 *)
EerlijkeSpec == Spec /\ \A r \in Verzoeken : WF_vars(VerzoekStap(r))

-----------------------------------------------------------------------------
(* Properties.                                                             *)

Respons  == [status : ResponsStatussen, token : Tokens \cup {Geen},
             expiresAt : Vervaltijd, submittedAt : Tijd \cup {Geen},
             handmatig : Tokens \cup {Geen}]

Verzoek  == [pc : {"nieuw"} \cup Lopend \cup Afgelopen,
             soort : {"dienIn", "concept", Geen},
             vendor : Vendors \cup {Geen}, token : Tokens \cup {Geen},
             start : Tijd, wil : SUBSET Vragen, geschreven : SUBSET Vragen]

BeheerOp == [op : {"vrij", "status", "intrekken", "heruitnodigen", "uitnodigen"},
             naar : RunStatussen \cup {Geen}, doel : SUBSET Vendors,
             verloopt : Vervaltijd]

(* The types, among them the CHECK constraints on the two status columns:  *)
(* no request ever makes the database refuse a status value.               *)
TypeOK ==
    /\ runStatus \in {"geen"} \cup RunStatussen
    /\ closesAt \in Sluittijden \cup {Geen}
    /\ tijd \in Tijd
    /\ vendorActief \in [Vendors -> BOOLEAN]
    /\ respons \in [Vendors -> Respons]
    /\ antwoord \in [Vendors -> [Vragen -> Verzoeken \cup {Geen}]]
    /\ audit \in [Vendors -> Nat]
    /\ uitgegeven \in SUBSET Tokens
    /\ verzoek \in [Verzoeken -> Verzoek]
    /\ beheer \in [Beheerders -> BeheerOp]
    /\ \A b \in Beheerders : beheer[b].op = "status" => beheer[b].naar \in RunStatussen

(* A submitted response has an answer to every required question, whatever *)
(* was saved, withdrawn, re-invited or submitted concurrently.             *)
IngediendIsCompleet ==
    \A v \in Vendors : respons[v].status = "submitted" =>
        \A q \in Verplicht : antwoord[v][q] # Geen

(* "Een auditregel voor iets dat niet gebeurd is, is erger dan geen        *)
(* auditregel": exactly one line for a submitted response, none otherwise. *)
EenAuditregelPerIndiening ==
    \A v \in Vendors :
        audit[v] = IF respons[v].status = "submitted" THEN 1 ELSE 0

(* A response is submitted before its link expires: the moment recorded as *)
(* submitted_at lies before the expires_at of the link then in force.      *)
IngediendBinnenTermijn ==
    \A v \in Vendors : respons[v].status = "submitted" =>
        /\ respons[v].submittedAt # Geen
        /\ respons[v].submittedAt < respons[v].expiresAt

(* Before a round is started nothing of a supplier gets in: no request is  *)
(* past the guard and there is no answer and no submission.                *)
NietsVoorDeStart ==
    runStatus \in {"geen", "draft"} =>
        /\ \A r \in Verzoeken : verzoek[r].pc \in {"nieuw", "geweigerd"}
        /\ \A v \in Vendors : /\ respons[v].status # "submitted"
                              /\ \A q \in Vragen : antwoord[v][q] = Geen

(* Request r waits for a row that request s holds.                         *)
WachtOp(r, s) ==
    /\ r # s
    /\ verzoek[r].pc = "gelezen"
    /\ \E q \in Vragen : IsVolgende(r, q) /\ HoudtRij(s, verzoek[r].vendor, q)

(* No group of requests waits on itself: saving and submitting the same    *)
(* questionnaire from two windows never needs PostgreSQL's deadlock abort. *)
GeenWachtcyclus ==
    ~\E groep \in SUBSET Verzoeken :
        groep # {} /\ \A r \in groep : \E s \in groep : WachtOp(r, s)

(* A registration of a manual mailing is about the link that works now.    *)
HandmatigBijHuidigeLink ==
    \A v \in Vendors : respons[v].handmatig \in {Geen, respons[v].token}

(* A submission is final ("Eenmalig en onomkeerbaar", OV-3, AC12): no step *)
(* of anybody changes the row again, the note on manual mailing excepted.  *)
RijBlijft(v) ==
    respons[v].status = "submitted" =>
        [respons'[v] EXCEPT !.handmatig = Geen] = [respons[v] EXCEPT !.handmatig = Geen]
IngediendIsDefinitief == [][\A v \in Vendors : RijBlijft(v)]_vars

(* A link in force is never replaced silently: only a response that was    *)
(* withdrawn, or that did not exist, gets a new one.                       *)
LinkBlijft(v) ==
    respons'[v].token # respons[v].token => respons[v].status \in {"geen", "revoked"}
LinkAlleenNaIntrekken == [][\A v \in Vendors : LinkBlijft(v)]_vars

(* A request that the guard let in always ends, without help of clients.   *)
VerzoekEindigt ==
    \A r \in Verzoeken : verzoek[r].pc \in Lopend ~> verzoek[r].pc \in Afgelopen

(* The round implements the abstract life of a response.                   *)
Fase(status) ==
    CASE status = "geen"      -> "geen"
      [] status = "pending"   -> "open"
      [] status = "revoked"   -> "ingetrokken"
      [] status = "submitted" -> "ingediend"

RL == INSTANCE ResponsLeven WITH
        Links      <- Tokens,
        GeenLink   <- Geen,
        fase       <- [v \in Vendors |-> Fase(respons[v].status)],
        link       <- [v \in Vendors |-> respons[v].token],
        gebruikt   <- uitgegeven,
        beantwoord <- [v \in Vendors |-> {q \in Vragen : antwoord[v][q] # Geen}],
        bewijs     <- audit

ImplementeertResponsLeven == RL!RLSpec

-----------------------------------------------------------------------------
(* A statement of the repository that the code does not keep.              *)

(* uitnodiging-bericht.ts: "Na het indienen kan de vragenlijst niet meer   *)
(* gewijzigd worden."                                                      *)
IngediendeAntwoordenBlijven ==
    [][\A v \in Vendors : respons[v].status = "submitted" =>
          antwoord'[v] = antwoord[v]]_vars
=============================================================================
