---------------------------- MODULE Beoordeling ----------------------------
(***************************************************************************)
(* What employees record about the responses of one round, and what the    *)
(* screens make of it: verdicts (BeoordelingService), notes                *)
(* (NotitieService), who reviews a questionnaire (BeoordelaarService), the *)
(* status overview (ContractmanagerService), the review queue and the page *)
(* of a round (VragenlijstBeheerService).                                  *)
(*                                                                         *)
(* The responses themselves are changed by module Uitvraag's operations;   *)
(* here each of these is one step.  A response is named after its          *)
(* supplier.  created_at of a verdict is the start of its transaction:     *)
(* the number of requests that had begun.                                  *)
(***************************************************************************)
EXTENDS Transacties, Sequences

CONSTANTS
    Responsen,       \* the suppliers that can be invited
    Oordelen,        \* keys of clm.survey_review
    Notities,        \* keys of clm.response_note
    Beoordelaars     \* users who can be coupled to the questionnaire

OORDELEN == {"goed", "nadere_vragen", "niet_goed", "goedgekeurd"}

VARIABLES
    respons,    \* per supplier its response, as the supplier and the round leave it
    ronde,      \* status of the round, and whether closes_at has passed
    volgorde,   \* the verdicts in the order in which they were committed
    samen,      \* rows on which two transactions have worked at the same time
    beeld       \* what each request for a screen has read so far

uitvraag == <<respons, ronde>>
bvars == <<respons, ronde, volgorde, samen, beeld>>

GeenRespons == [stand |-> "geen", apart |-> FALSE]
GeenOordeel == [stand |-> "geen", van |-> Geen, oordeel |-> Geen, sinds |-> 0]
GeenNotitie == [stand |-> "geen", van |-> Geen]
GeenKoppel  == [stand |-> "geen"]
GeenBeeld   == [scherm |-> Geen, gelezen |-> {}, eerst |-> {}, dan |-> {}, stil |-> {}]

BeginBeoordeling ==
    [r \in Oordelen \cup Notities \cup Beoordelaars |->
       IF r \in Oordelen THEN GeenOordeel ELSE IF r \in Notities THEN GeenNotitie ELSE GeenKoppel]

BeoordelingInit ==
    /\ respons = [r \in Responsen |-> GeenRespons]
    /\ ronde = [status |-> "active", voorbij |-> FALSE]
    /\ volgorde = <<>> /\ samen = {}
    /\ beeld = [q \in Verzoeken |-> GeenBeeld]

-----------------------------------------------------------------------------
(* What the queries compute.                                               *)

Levend(r) == {o \in Oordelen : rij[o].stand = "live" /\ rij[o].van = r}

(* Mutant of LaatsteOordeel: the oldest row.                               *)
EersteOordeel(r) ==
    IF Levend(r) = {} THEN Geen
    ELSE rij[CHOOSE o \in Levend(r) : \A x \in Levend(r) : rij[o].sinds <= rij[x].sinds].oordeel

(* ORDER BY created_at DESC LIMIT 1, in the three queries that ask for it. *)
LaatsteOordeel(r) ==
    IF Levend(r) = {} THEN Geen
    ELSE rij[CHOOSE o \in Levend(r) : \A x \in Levend(r) : rij[x].sinds <= rij[o].sinds].oordeel

(* bepaalStatus.                                                           *)
Status(r) ==
    LET o == LaatsteOordeel(r) IN
    CASE respons[r].stand # "ingediend" /\ ronde.status = "active" /\ ronde.voorbij -> "te_laat"
      [] respons[r].stand # "ingediend" /\ ~ (ronde.status = "active" /\ ronde.voorbij) ->
           IF respons[r].apart THEN "apart_verzonden" ELSE "opgestuurd"
      [] respons[r].stand = "ingediend" /\ o = Geen -> "terug"
      [] respons[r].stand = "ingediend" /\ o = "goedgekeurd" -> "goedgekeurd"
      [] respons[r].stand = "ingediend" /\ o = "niet_goed" -> "afgekeurd"
      [] OTHER -> "beoordeeld"

(* ContractmanagerService.haal: responses that count.                      *)
Haal == {r \in Responsen : respons[r].stand \in {"open", "ingediend"} /\ ronde.status # "archived"}

(* haalGeplandeVendors: no response at all, not even a withdrawn one.      *)
HaalGeplandeVendors == {r \in Responsen : respons[r].stand = "geen"}

(* BeoordelaarService.werkvoorraad of user u.                              *)
Werkvoorraad(u) ==
    {r \in Responsen : respons[r].stand = "ingediend" /\ rij[u].stand = "live"
                       /\ ronde.status # "archived"}

-----------------------------------------------------------------------------
(* Verdicts and notes.                                                     *)

Begonnen == Cardinality({q \in Verzoeken : verzoek[q].pc # "nieuw"})
Wat(q) == verzoek[q].invoer
Onbenut(r) == rij[r].stand = "geen" /\ \A p \in Lopend : Wat(p).doel # r /\ Wat(p).extra # r

(* BEGIN of a request about row van, noting an overlap with another one.   *)
BegintBij(q, op, van, invoer, pc) ==
    /\ Begint(q, op, [invoer EXCEPT !.van = van], pc)
    /\ samen' = IF \E p \in Lopend : Wat(p).van = van THEN samen \cup {van} ELSE samen

GeenInvoer == [van |-> Geen, doel |-> Geen, extra |-> Geen, waarde |-> Geen, sinds |-> 0]

TeBeoordelen(r) == respons[r].stand = "ingediend"

(* BeoordelingService.voegToe: the response is back, then INSERT.          *)
VoegOordeelToe(q, r, o, oordeel) ==
    /\ Onbenut(o) /\ TeBeoordelen(r)
    /\ BegintBij(q, "oordeel", r, [GeenInvoer EXCEPT !.doel = o, !.waarde = oordeel,
                                                     !.sinds = Begonnen], "invoegen")
    /\ UNCHANGED <<rij, uitvraag, volgorde, beeld>>

(* NotitieService.voegToe: also before the response is back.               *)
VoegNotitieToe(q, r, n) ==
    /\ Onbenut(n) /\ respons[r].stand # "geen"
    /\ BegintBij(q, "notitie", r, [GeenInvoer EXCEPT !.doel = n], "invoegen")
    /\ UNCHANGED <<rij, uitvraag, volgorde, beeld>>

(* trekIn of either service.                                               *)
TrekIn(q, o) ==
    /\ rij[o].stand # "geen"
    /\ BegintBij(q, "trekIn", rij[o].van, [GeenInvoer EXCEPT !.doel = o], "intrekken")
    /\ UNCHANGED <<rij, uitvraag, volgorde, beeld>>

(* BeoordelaarService.koppel and ontkoppel; ON CONFLICT DO NOTHING.        *)
Koppel(q, u, aan) ==
    /\ BegintBij(q, "koppel", u, [GeenInvoer EXCEPT !.doel = u,
                                    !.waarde = IF aan THEN "live" ELSE "geen"], "koppelen")
    /\ UNCHANGED <<rij, uitvraag, volgorde, beeld>>

InvoegenRij(q) ==
    LET w == Wat(q) IN
    /\ verzoek[q].op \in {"oordeel", "notitie"} /\ verzoek[q].pc = "invoegen"
    /\ Schrijft(q, {w.doel}, [o \in {w.doel} |->
         IF verzoek[q].op = "oordeel"
         THEN [stand |-> "live", van |-> w.van, oordeel |-> w.waarde, sinds |-> w.sinds]
         ELSE [stand |-> "live", van |-> w.van]], "commit")
    /\ UNCHANGED <<rij, bvars>>

IntrekkenRij(q) ==
    LET o == Wat(q).doel IN
    /\ verzoek[q].op = "trekIn" /\ verzoek[q].pc = "intrekken"
    /\ Vrij(q, {o})
    /\ IF rij[o].stand = "live"
       THEN Schrijft(q, {o}, [x \in {o} |-> [rij[o] EXCEPT !.stand = "weg"]], "commit")
       ELSE Weigert(q)
    /\ UNCHANGED <<rij, bvars>>

KoppelenRij(q) ==
    /\ verzoek[q].pc = "koppelen"
    /\ Schrijft(q, {Wat(q).doel}, [x \in {Wat(q).doel} |-> [stand |-> Wat(q).waarde]], "commit")
    /\ UNCHANGED <<rij, bvars>>

-----------------------------------------------------------------------------
(* Screens that are read in two statements, with others in between.        *)

(* The status overview (volledigOverzicht) runs two transactions side by   *)
(* side; the page of a round counts first and lists its participants then. *)
OpenScherm(q, scherm) ==
    /\ verzoek[q].pc = "nieuw" /\ Cardinality(Lopend) < MaxOpen
    /\ verzoek' = [verzoek EXCEPT ![q].pc = "scherm", ![q].op = "scherm",
                                  ![q].invoer = GeenInvoer]
    /\ beeld' = [beeld EXCEPT ![q] = [GeenBeeld EXCEPT !.scherm = scherm, !.stil = Responsen]]
    /\ UNCHANGED <<rij, uitvraag, volgorde, samen>>

LeesOverzicht(q) ==
    /\ verzoek[q].pc = "scherm" /\ beeld[q].scherm = "overzicht"
    /\ \/ /\ "haal" \notin beeld[q].gelezen
          /\ beeld' = [beeld EXCEPT ![q].eerst = Haal, ![q].gelezen = @ \cup {"haal"}]
       \/ /\ "gepland" \notin beeld[q].gelezen
          /\ beeld' = [beeld EXCEPT ![q].dan = HaalGeplandeVendors,
                                    ![q].gelezen = @ \cup {"gepland"}]
    /\ UNCHANGED <<rij, verzoek, uitvraag, volgorde, samen>>

Ingediend == {r \in Responsen : respons[r].stand = "ingediend"}

(* Mutant of LeesRonde: the list before the count.                         *)
LeesRondeOmgekeerd(q) ==
    /\ verzoek[q].pc = "scherm" /\ beeld[q].scherm = "ronde"
    /\ IF "lijst" \in beeld[q].gelezen
       THEN beeld' = [beeld EXCEPT ![q].eerst = Ingediend, ![q].gelezen = {"tel", "lijst"}]
       ELSE beeld' = [beeld EXCEPT ![q].dan = Ingediend, ![q].gelezen = {"lijst"}]
    /\ UNCHANGED <<rij, verzoek, uitvraag, volgorde, samen>>

(* VragenlijstBeheerService.ronde.                                         *)
LeesRonde(q) ==
    /\ verzoek[q].pc = "scherm" /\ beeld[q].scherm = "ronde"
    /\ IF "tel" \in beeld[q].gelezen
       THEN beeld' = [beeld EXCEPT ![q].dan = Ingediend, ![q].gelezen = {"tel", "lijst"}]
       ELSE beeld' = [beeld EXCEPT ![q].eerst = Ingediend, ![q].gelezen = {"tel"}]
    /\ UNCHANGED <<rij, verzoek, uitvraag, volgorde, samen>>

Compleet(q) == Cardinality(beeld[q].gelezen) = 2

ToonScherm(q) ==
    /\ verzoek[q].pc = "scherm" /\ Compleet(q)
    /\ verzoek' = [verzoek EXCEPT ![q] = [NieuwVerzoek EXCEPT !.pc = "klaar"]]
    /\ beeld' = [beeld EXCEPT ![q] = GeenBeeld]
    /\ UNCHANGED <<rij, uitvraag, volgorde, samen>>

-----------------------------------------------------------------------------
(* Suppliers and the administration of the round.                          *)

Verandert(R) == beeld' = [q \in Verzoeken |-> [beeld[q] EXCEPT !.stil = @ \ R]]

ResponsNaar(r, van, naar) ==
    /\ respons[r].stand \in van /\ ronde.status = "active"
    /\ respons' = [respons EXCEPT ![r] = [stand |-> naar, apart |-> @.apart /\ naar # "open"]]
    /\ Verandert({r})
    /\ UNCHANGED <<rij, verzoek, ronde, volgorde, samen>>

NodigUit(r)  == ResponsNaar(r, {"geen", "ingetrokken"}, "open")
DienIn(r)    == ~ ronde.voorbij /\ ResponsNaar(r, {"open"}, "ingediend")
TrekTerug(r) == ResponsNaar(r, {"open"}, "ingetrokken")

RegistreerApart(r) ==
    /\ respons[r].stand = "open" /\ ~ respons[r].apart
    /\ respons' = [respons EXCEPT ![r].apart = TRUE]
    /\ UNCHANGED <<rij, verzoek, ronde, volgorde, samen, beeld>>

(* closes_at passes, or the round is finished and archived.                *)
RondeVerder ==
    /\ \/ ~ ronde.voorbij /\ ronde' = [ronde EXCEPT !.voorbij = TRUE]
       \/ ronde.status = "active" /\ ronde' = [ronde EXCEPT !.status = "finished"]
       \/ ronde.status = "finished" /\ ronde' = [ronde EXCEPT !.status = "archived"]
    /\ Verandert(IF ronde'.status = "archived" THEN Responsen ELSE {})
    /\ UNCHANGED <<rij, verzoek, respons, volgorde, samen>>

-----------------------------------------------------------------------------
BeoordelingVraag(q) ==
    \/ \E r \in Responsen :
         \/ \E o \in Oordelen, oordeel \in OORDELEN : VoegOordeelToe(q, r, o, oordeel)
         \/ \E n \in Notities : VoegNotitieToe(q, r, n)
    \/ \E o \in Oordelen \cup Notities : TrekIn(q, o)
    \/ \E u \in Beoordelaars, aan \in BOOLEAN : Koppel(q, u, aan)
    \/ \E scherm \in {"overzicht", "ronde"} : OpenScherm(q, scherm)

BeoordelingStap(q) ==
    InvoegenRij(q) \/ IntrekkenRij(q) \/ KoppelenRij(q)
    \/ LeesOverzicht(q) \/ LeesRonde(q) \/ ToonScherm(q)

UitvraagStap ==
    \/ \E r \in Responsen : NodigUit(r) \/ DienIn(r) \/ TrekTerug(r) \/ RegistreerApart(r)
    \/ RondeVerder
=============================================================================
