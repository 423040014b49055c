--------------------------- MODULE DossiersProofs ---------------------------
(***************************************************************************)
(* Proofs about Dossiers and Beoordeling, for any number of responses,     *)
(* verdicts, dossiers, attachments and requests.                           *)
(*                                                                         *)
(* The screens (Schermen) depend on the responses only and are proved      *)
(* apart.  For verdicts and dossiers (Kern) an open request is described   *)
(* by its input (Vraagt), the rows it has written (Geschrift, Rijen) and   *)
(* what it may still rely on while others commit (Nieuwe, Weet): the keys  *)
(* of its new rows are its own (EigenSleutels), a row it wrote has no      *)
(* other writer (Slot), and others about the same row are noted (Alleen).  *)
(***************************************************************************)
EXTENDS Dossiers, TransactiesProofs, FiniteSetTheorems, SequenceTheorems

Rust == {"nieuw", "klaar", "geweigerd", "dubbel", "gebruikt", "fout"}
Alle == Oordelen \cup Notities \cup Beoordelaars \cup DossierSleutels
Wijzigt == {"afronden", "heropenen", "stap", "geenStap", "intrekken"}

Geschreven(q) == DOMAIN verzoek[q].schrijf
Wordt(q, r) == verzoek[q].schrijf[r]
Bezig == {q \in Verzoeken : verzoek[q].pc # "nieuw"}

-----------------------------------------------------------------------------
(* Screens.                                                                *)

Beeldsoort ==
    [scherm : {Geen, "overzicht", "ronde"}, gelezen : SUBSET {"haal", "gepland", "tel", "lijst"},
     eerst : SUBSET Responsen, dan : SUBSET Responsen, stil : SUBSET Responsen]

(* What the first and the second statement of a screen found is still so   *)
(* for the responses that did not change.                                  *)
OverzichtGoed(b) ==
    /\ b.gelezen \subseteq {"haal", "gepland"}
    /\ "haal" \in b.gelezen => \A r \in b.stil : r \in b.eerst <=> r \in Haal
    /\ "gepland" \in b.gelezen => \A r \in b.stil : r \in b.dan <=> r \in HaalGeplandeVendors

RondeGoed(b) ==
    /\ b.gelezen \in {{}, {"tel"}, {"tel", "lijst"}}
    /\ "tel" \in b.gelezen => b.eerst \subseteq Ingediend
    /\ "lijst" \in b.gelezen => b.eerst \subseteq b.dan

BeeldGoed(b) ==
    /\ b \in Beeldsoort
    /\ IF b.scherm = "ronde" THEN RondeGoed(b) ELSE OverzichtGoed(b)

ResponsGoed ==
    /\ respons \in [Responsen -> [stand : {"geen", "open", "ingediend", "ingetrokken"},
                                  apart : BOOLEAN]]
    /\ ronde \in [status : {"active", "finished", "archived"}, voorbij : BOOLEAN]

Schermen ==
    /\ ResponsGoed
    /\ beeld = [q \in Verzoeken |-> beeld[q]]
    /\ \A q \in Verzoeken : BeeldGoed(beeld[q])

-----------------------------------------------------------------------------
(* Requests.                                                               *)

(* What an open request was asked.                                         *)
Vraagt(q) ==
    /\ verzoek[q].op \in {"oordeel", "notitie", "trekIn", "koppel", "scherm", "aanmaken",
                          "dossiernotitie", "link", "rijIntrekken", "bijlage"} \cup Wijzigt
    /\ verzoek[q].op = "oordeel" =>
         /\ Wat(q).van \in Responsen /\ Wat(q).doel \in Oordelen
         /\ Wat(q).waarde \in OORDELEN /\ Wat(q).sinds \in Nat
    /\ verzoek[q].op = "notitie" => Wat(q).van \in Responsen /\ Wat(q).doel \in Notities
    /\ verzoek[q].op = "trekIn" => Wat(q).doel \in Oordelen \cup Notities
    /\ verzoek[q].op = "koppel" =>
         Wat(q).doel \in Beoordelaars /\ Wat(q).waarde \in {"live", "geen"}
    /\ verzoek[q].op = "aanmaken" =>
         /\ Wat(q).doel \in Dossierrijen /\ Wat(q).van = Wat(q).doel
         /\ Wat(q).extra \in Dossiernotities /\ Wat(q).waarde \subseteq Dossierlinks
    /\ verzoek[q].op = "dossiernotitie" =>
         Wat(q).van \in Dossierrijen /\ Wat(q).doel \in Dossiernotities
    /\ verzoek[q].op = "link" => Wat(q).doel \in Dossierlinks
    /\ verzoek[q].op = "rijIntrekken" => Wat(q).doel \in Dossiernotities \cup Dossierbijlagen
    /\ verzoek[q].op = "bijlage" => Wat(q).van \in Dossierrijen /\ Wat(q).doel \in Dossierbijlagen
    /\ verzoek[q].op \in Wijzigt =>
         /\ Wat(q).doel \in Dossierrijen /\ Wat(q).van = Wat(q).doel
         /\ IF verzoek[q].op = "afronden" THEN Wat(q).extra \in Dossiernotities
            ELSE Wat(q).extra = Geen

Slotstap == {"tel", "bewaar", "bijlage"}

Statement(q) ==
    /\ verzoek[q].pc = "invoegen" => verzoek[q].op \in {"oordeel", "notitie"}
    /\ verzoek[q].pc = "intrekken" => verzoek[q].op = "trekIn"
    /\ verzoek[q].pc = "koppelen" => verzoek[q].op = "koppel"
    /\ verzoek[q].pc = "scherm" <=> verzoek[q].op = "scherm"
    /\ verzoek[q].pc = "dossierNieuw" => verzoek[q].op = "aanmaken"
    /\ verzoek[q].pc = "dossierrij" => verzoek[q].op = "dossiernotitie"
    /\ verzoek[q].pc = "link" => verzoek[q].op = "link"
    /\ verzoek[q].pc = "rijWeg" => verzoek[q].op = "rijIntrekken"
    /\ verzoek[q].pc \in {"slot"} \cup Slotstap => verzoek[q].op = "bijlage"
    /\ verzoek[q].pc = "dossier" => verzoek[q].op \in Wijzigt

(* The keys of the rows a request makes, and of all the rows it writes.    *)
Nieuw(q) ==
    IF verzoek[q].op \in {"oordeel", "notitie", "dossiernotitie", "bijlage"} THEN {Wat(q).doel}
    ELSE IF verzoek[q].op = "aanmaken" THEN {Wat(q).doel, Wat(q).extra}
    ELSE IF verzoek[q].op = "afronden" THEN {Wat(q).extra}
    ELSE {}

Doelrijen(q) ==
    IF verzoek[q].op = "aanmaken" THEN {Wat(q).doel, Wat(q).extra} \cup Wat(q).waarde
    ELSE IF verzoek[q].op = "afronden" THEN {Wat(q).doel, Wat(q).extra}
    ELSE IF verzoek[q].op = "bijlage" THEN {Wat(q).van, Wat(q).doel}
    ELSE {Wat(q).doel}

Geschrift(q) ==
    /\ verzoek[q].pc \notin Slotstap \cup {"commit"} => Geschreven(q) = {}
    /\ verzoek[q].pc \in Slotstap => Geschreven(q) = {Wat(q).van}
    /\ verzoek[q].pc = "commit" => Geschreven(q) = Doelrijen(q)

(* What a row was written as.                                              *)
RijGoed(q, r, w) ==
    /\ verzoek[q].op # "scherm"
    /\ verzoek[q].op = "oordeel" =>
         /\ r = Wat(q).doel
         /\ w = [stand |-> "live", van |-> Wat(q).van, oordeel |-> Wat(q).waarde,
                 sinds |-> Wat(q).sinds]
    /\ verzoek[q].op = "notitie" => r = Wat(q).doel /\ w = [stand |-> "live", van |-> Wat(q).van]
    /\ verzoek[q].op \in {"trekIn", "rijIntrekken"} =>
         r = Wat(q).doel /\ rij[r].stand = "live" /\ w = [rij[r] EXCEPT !.stand = "weg"]
    /\ verzoek[q].op = "koppel" => r = Wat(q).doel /\ w = [stand |-> Wat(q).waarde]
    /\ verzoek[q].op = "link" => r = Wat(q).doel /\ w = [stand |-> "live"]
    /\ verzoek[q].op = "dossiernotitie" => r = Wat(q).doel /\ w = NieuweNotitie(Wat(q).van, FALSE)
    /\ verzoek[q].op = "aanmaken" =>
         \/ r = Wat(q).doel /\ w = [GeenDossier EXCEPT !.stand = "live"]
         \/ r = Wat(q).extra /\ w = NieuweNotitie(Wat(q).doel, FALSE)
         \/ r \in Wat(q).waarde /\ w = [stand |-> "live"]
    /\ verzoek[q].op = "bijlage" =>
         \/ r = Wat(q).van /\ rij[r].stand = "live" /\ w = rij[r]
         \/ r = Wat(q).doel /\ w = [stand |-> "live", van |-> Wat(q).van]
    /\ verzoek[q].op \in Wijzigt =>
         \/ r = Wat(q).doel /\ Wijzigbaar(r, verzoek[q].op) /\ w = Gewijzigd(r, verzoek[q].op)
         \/ verzoek[q].op = "afronden" /\ r = Wat(q).extra /\ w = NieuweNotitie(Wat(q).doel, TRUE)

Rijen(q) == \A r \in Geschreven(q) : RijGoed(q, r, Wordt(q, r))

(* The new keys are unused.                                                *)
Nieuwe(q) == \A r \in Nieuw(q) : rij[r].stand = "geen"

(* What a request found, and what still holds of it.                       *)
Weet(q) ==
    /\ verzoek[q].op = "oordeel" =>
         /\ Wat(q).van \in Ingediend /\ Wat(q).sinds < Begonnen
         /\ Wat(q).van \notin samen =>
              \A o \in Oordelen : rij[o].stand # "geen" /\ rij[o].van = Wat(q).van
                                  => rij[o].sinds < Wat(q).sinds
    /\ verzoek[q].op = "dossiernotitie" /\ Wat(q).van \notin samen => rij[Wat(q).van].stand = "live"
    /\ verzoek[q].pc \in {"bewaar", "bijlage"} => ~ Vol(Wat(q).van)
    /\ verzoek[q].op = "bijlage" /\ verzoek[q].pc = "commit" => ~ Vol(Wat(q).van)
    /\ verzoek[q].pc = "bijlage" => Wat(q).doel \in bestanden
    /\ verzoek[q].op = "bijlage" /\ verzoek[q].pc = "commit" => Wat(q).doel \in bestanden

Lokaal(q) ==
    /\ q \notin Lopend => Geschreven(q) = {}
    /\ q \in Lopend => /\ Vraagt(q) /\ Statement(q) /\ Geschrift(q)
                       /\ Rijen(q) /\ Nieuwe(q) /\ Weet(q)

(* Two requests about the same row at the same time are noted.             *)
Alleen ==
    \A p, q \in Lopend : p # q /\ verzoek[p].op # "scherm" /\ verzoek[q].op # "scherm"
        /\ Wat(p).van = Wat(q).van => Wat(p).van \in samen

EigenSleutels == \A p, q \in Lopend : p # q => Nieuw(p) \cap Nieuw(q) = {}

-----------------------------------------------------------------------------
(* What is committed.                                                      *)

Velden ==
    /\ rij = [r \in Alle |-> rij[r]]
    /\ \A r \in Alle : rij[r] \in RijSoort(r)
    /\ bestanden \subseteq Dossierbijlagen
    /\ gesloten \in [Dossierrijen -> Nat]
    /\ volgorde \in Seq(Oordelen)
    /\ IsFiniteSet(Bezig)

(* Verdicts are on responses that are back, are in the history, and, when  *)
(* no two requests met on the response, were committed in the order of     *)
(* their time.                                                             *)
Oordeelrijen ==
    /\ \A o \in Oordelen : rij[o].stand # "geen" =>
         /\ rij[o].van \in Ingediend /\ rij[o].sinds < Begonnen
         /\ \E i \in 1..Len(volgorde) : volgorde[i] = o
    /\ \A i \in 1..Len(volgorde) : rij[volgorde[i]].stand # "geen"
    /\ \A i, j \in 1..Len(volgorde) :
         i < j /\ rij[volgorde[i]].van = rij[volgorde[j]].van /\ rij[volgorde[i]].van \notin samen
         => rij[volgorde[i]].sinds < rij[volgorde[j]].sinds

Uitkomsten(d) == {n \in Dossiernotities : rij[n].van = d /\ rij[n].uitkomst}

Dossierinhoud ==
    /\ Inhoud
    /\ \A n \in Dossiernotities : rij[n].stand = "geen" => ~ rij[n].uitkomst
    /\ \A d \in Dossierrijen : IsFiniteSet(BijlagenVan(d)) /\ IsFiniteSet(Uitkomsten(d))

Kern ==
    /\ Vorm /\ Slot /\ Velden
    /\ \A q \in Verzoeken : Lokaal(q)
    /\ Alleen /\ EigenSleutels /\ Oordeelrijen /\ Dossierinhoud

IInv == Schermen /\ Kern

-----------------------------------------------------------------------------
(* The screens.                                                            *)

LEMMA BeeldBegin == BeeldGoed(GeenBeeld)
  BY DEF BeeldGoed, Beeldsoort, GeenBeeld, OverzichtGoed, RondeGoed

LEMMA SchermenBlijven ==
    ASSUME Schermen, UNCHANGED <<uitvraag, beeld>>
    PROVE  Schermen'
  BY DEF Schermen, ResponsGoed, uitvraag, BeeldGoed, OverzichtGoed, RondeGoed, Haal,
         HaalGeplandeVendors, Ingediend

(* One picture changes.                                                    *)
LEMMA BeeldNieuw ==
    ASSUME Schermen, NEW q \in Verzoeken, NEW b, BeeldGoed(b), UNCHANGED uitvraag,
           beeld' = [beeld EXCEPT ![q] = b]
    PROVE  Schermen'
  <1>1. \A p \in Verzoeken : BeeldGoed(beeld'[p])
    BY DEF Schermen
  <1>2. ResponsGoed' /\ \A c : BeeldGoed(c) => BeeldGoed(c)'
    BY DEF Schermen, ResponsGoed, uitvraag, BeeldGoed, OverzichtGoed, RondeGoed, Haal,
           HaalGeplandeVendors, Ingediend
  <1> QED BY <1>1, <1>2 DEF Schermen

(* A picture that is thrown away.                                          *)
LEMMA BeeldWeg ==
    ASSUME Schermen, NEW q \in Verzoeken, UNCHANGED uitvraag,
           beeld' = [beeld EXCEPT ![q] = GeenBeeld]
    PROVE  Schermen'
  BY BeeldBegin, BeeldNieuw

LEMMA OpenSchermBeeld ==
    ASSUME Schermen, NEW q \in Verzoeken, NEW scherm \in {"overzicht", "ronde"},
           OpenScherm(q, scherm)
    PROVE  Schermen'
  <1> DEFINE b == [GeenBeeld EXCEPT !.scherm = scherm, !.stil = Responsen]
  <1>1. BeeldGoed(b)
    BY DEF BeeldGoed, Beeldsoort, GeenBeeld, OverzichtGoed, RondeGoed
  <1> HIDE DEF b
  <1>2. beeld' = [beeld EXCEPT ![q] = b] /\ UNCHANGED uitvraag
    BY DEF OpenScherm, b
  <1> QED BY <1>1, <1>2, BeeldNieuw

LEMMA LeesOverzichtBeeld ==
    ASSUME Schermen, NEW q \in Verzoeken, LeesOverzicht(q)
    PROVE  Schermen'
  <1>1. BeeldGoed(beeld[q]) /\ beeld[q].scherm = "overzicht" /\ UNCHANGED uitvraag
    BY DEF Schermen, LeesOverzicht
  <1>2. CASE beeld' = [beeld EXCEPT ![q].eerst = Haal, ![q].gelezen = @ \cup {"haal"}]
    <2> DEFINE b == [beeld[q] EXCEPT !.eerst = Haal, !.gelezen = @ \cup {"haal"}]
    <2>1. BeeldGoed(b)
      BY <1>1 DEF BeeldGoed, Beeldsoort, OverzichtGoed, Haal
    <2>2. beeld' = [beeld EXCEPT ![q] = b]
      BY <1>2 DEF Schermen
    <2> HIDE DEF b
    <2> QED BY <1>1, <2>1, <2>2, BeeldNieuw
  <1>3. CASE beeld' = [beeld EXCEPT ![q].dan = HaalGeplandeVendors,
                                    ![q].gelezen = @ \cup {"gepland"}]
    <2> DEFINE b == [beeld[q] EXCEPT !.dan = HaalGeplandeVendors, !.gelezen = @ \cup {"gepland"}]
    <2>1. BeeldGoed(b)
      BY <1>1 DEF BeeldGoed, Beeldsoort, OverzichtGoed, HaalGeplandeVendors
    <2>2. beeld' = [beeld EXCEPT ![q] = b]
      BY <1>3 DEF Schermen
    <2> HIDE DEF b
    <2> QED BY <1>1, <2>1, <2>2, BeeldNieuw
  <1> QED BY <1>2, <1>3 DEF LeesOverzicht

LEMMA LeesRondeBeeld ==
    ASSUME Schermen, NEW q \in Verzoeken, LeesRonde(q)
    PROVE  Schermen'
  <1>1. BeeldGoed(beeld[q]) /\ beeld[q].scherm = "ronde" /\ UNCHANGED uitvraag
    BY DEF Schermen, LeesRonde
  <1>2. CASE "tel" \in beeld[q].gelezen
    <2> DEFINE b == [beeld[q] EXCEPT !.dan = Ingediend, !.gelezen = {"tel", "lijst"}]
    <2>1. BeeldGoed(b)
      BY <1>1, <1>2 DEF BeeldGoed, Beeldsoort, RondeGoed, Ingediend
    <2>2. beeld' = [beeld EXCEPT ![q] = b]
      BY <1>2 DEF Schermen, LeesRonde
    <2> HIDE DEF b
    <2> QED BY <1>1, <2>1, <2>2, BeeldNieuw
  <1>3. CASE "tel" \notin beeld[q].gelezen
    <2> DEFINE b == [beeld[q] EXCEPT !.eerst = Ingediend, !.gelezen = {"tel"}]
    <2>1. BeeldGoed(b)
      BY <1>1 DEF BeeldGoed, Beeldsoort, RondeGoed, Ingediend
    <2>2. beeld' = [beeld EXCEPT ![q] = b]
      BY <1>3 DEF Schermen, LeesRonde
    <2> HIDE DEF b
    <2> QED BY <1>1, <2>1, <2>2, BeeldNieuw
  <1> QED BY <1>2, <1>3

(* A response or the round changes.                                        *)
LEMMA VerandertBeeld ==
    ASSUME Schermen, NEW R, R \subseteq Responsen, Verandert(R), ResponsGoed',
           Ingediend \subseteq Ingediend',
           \A r \in Responsen \ R : /\ r \in Haal <=> r \in Haal'
                                    /\ r \in HaalGeplandeVendors <=> r \in HaalGeplandeVendors'
    PROVE  Schermen'
  <1> SUFFICES ASSUME NEW q \in Verzoeken PROVE BeeldGoed(beeld[q])'
    BY DEF Schermen, Verandert
  <1> DEFINE b == beeld[q]
  <1>1. BeeldGoed(b)
    BY DEF Schermen
  <1>2. beeld'[q] = [b EXCEPT !.stil = @ \ R]
    BY DEF Verandert
  <1> HIDE DEF b
  <1>3. /\ beeld'[q] \in Beeldsoort
        /\ beeld'[q].scherm = b.scherm /\ beeld'[q].gelezen = b.gelezen
        /\ beeld'[q].eerst = b.eerst /\ beeld'[q].dan = b.dan /\ beeld'[q].stil = b.stil \ R
        /\ b.stil \subseteq Responsen
    BY <1>1, <1>2 DEF BeeldGoed, Beeldsoort
  <1>4. CASE b.scherm = "ronde"
    BY <1>1, <1>3, <1>4 DEF BeeldGoed, Beeldsoort, RondeGoed
  <1>5. CASE b.scherm # "ronde"
    <2>1. OverzichtGoed(b)
      BY <1>1, <1>5 DEF BeeldGoed
    <2>2. OverzichtGoed(beeld[q])'
      BY <1>3, <2>1 DEF OverzichtGoed
    <2> QED BY <1>3, <1>5, <2>2 DEF BeeldGoed, Beeldsoort
  <1> QED BY <1>4, <1>5

LEMMA ResponsNaarBeeld ==
    ASSUME Schermen, NEW r \in Responsen, NEW van, NEW naar, "ingediend" \notin van,
           naar \in {"open", "ingediend", "ingetrokken"}, ResponsNaar(r, van, naar)
    PROVE  Schermen' /\ Ingediend \subseteq Ingediend'
  <1>1. respons[r] \in [stand : {"geen", "open", "ingediend", "ingetrokken"}, apart : BOOLEAN]
    BY DEF Schermen, ResponsGoed
  <1> DEFINE v == [stand |-> naar, apart |-> respons[r].apart /\ naar # "open"]
  <1>0. /\ v \in [stand : {"geen", "open", "ingediend", "ingetrokken"}, apart : BOOLEAN]
        /\ v.stand = naar
    BY <1>1
  <1>2. respons' = [respons EXCEPT ![r] = v] /\ ronde' = ronde
    BY DEF ResponsNaar
  <1> HIDE DEF v
  <1>3. ResponsGoed'
    BY <1>0, <1>2 DEF Schermen, ResponsGoed
  <1>4. Ingediend \subseteq Ingediend'
    BY <1>0, <1>2 DEF Ingediend, ResponsNaar, Schermen, ResponsGoed
  <1>5. \A x \in Responsen \ {r} : /\ x \in Haal <=> x \in Haal'
                                   /\ x \in HaalGeplandeVendors <=> x \in HaalGeplandeVendors'
    BY <1>2 DEF Haal, HaalGeplandeVendors, Schermen, ResponsGoed
  <1>6. Verandert({r})
    BY DEF ResponsNaar
  <1> QED BY <1>3, <1>4, <1>5, <1>6, VerandertBeeld

LEMMA UitvraagBeeld ==
    ASSUME Schermen, UitvraagStap
    PROVE  Schermen' /\ Ingediend \subseteq Ingediend'
  <1>1. CASE \E r \in Responsen : NodigUit(r) \/ DienIn(r) \/ TrekTerug(r)
    BY <1>1, ResponsNaarBeeld DEF NodigUit, DienIn, TrekTerug
  <1>2. ASSUME NEW r \in Responsen, RegistreerApart(r)
        PROVE  Schermen' /\ Ingediend \subseteq Ingediend'
    <2>1. respons[r] \in [stand : {"geen", "open", "ingediend", "ingetrokken"}, apart : BOOLEAN]
      BY DEF Schermen, ResponsGoed
    <2>2. /\ \A x \in Responsen : respons'[x].stand = respons[x].stand
          /\ ResponsGoed' /\ ronde' = ronde /\ beeld' = beeld
      BY <1>2, <2>1 DEF RegistreerApart, Schermen, ResponsGoed
    <2>3. Haal' = Haal /\ HaalGeplandeVendors' = HaalGeplandeVendors /\ Ingediend' = Ingediend
      BY <2>2 DEF Haal, HaalGeplandeVendors, Ingediend
    <2> QED BY <2>2, <2>3 DEF Schermen, BeeldGoed, OverzichtGoed, RondeGoed
  <1>3. CASE RondeVerder
    <2> DEFINE R == IF ronde'.status = "archived" THEN Responsen ELSE {}
    <2>1. ronde \in [status : {"active", "finished", "archived"}, voorbij : BOOLEAN]
      BY DEF Schermen, ResponsGoed
    <2>2. /\ ronde' \in [status : {"active", "finished", "archived"}, voorbij : BOOLEAN]
          /\ ronde.status = "archived" => ronde'.status = "archived"
      BY <1>3, <2>1 DEF RondeVerder
    <2>3. respons' = respons /\ Verandert(R)
      BY <1>3 DEF RondeVerder
    <2>4. ResponsGoed' /\ Ingediend' = Ingediend
      BY <2>2, <2>3 DEF Schermen, ResponsGoed, Ingediend
    <2>5. \A x \in Responsen \ R : /\ x \in Haal <=> x \in Haal'
                                   /\ x \in HaalGeplandeVendors <=> x \in HaalGeplandeVendors'
      BY <2>2, <2>3 DEF Haal, HaalGeplandeVendors
    <2>6. R \subseteq Responsen
      OBVIOUS
    <2> HIDE DEF R
    <2> QED BY <2>3, <2>4, <2>5, <2>6, VerandertBeeld
  <1> QED BY <1>1, <1>2, <1>3 DEF UitvraagStap

LEMMA SchermenStap ==
    ASSUME Schermen, [Next]_vars
    PROVE  Schermen' /\ Ingediend \subseteq Ingediend'
  <1>1. UNCHANGED uitvraag => Ingediend' = Ingediend
    BY DEF uitvraag, Ingediend
  <1>2. CASE UNCHANGED vars
    BY <1>1, <1>2, SchermenBlijven DEF vars, bvars, uitvraag
  <1>3. CASE UitvraagStap
    BY <1>3, UitvraagBeeld
  <1>4. ASSUME NEW q \in Verzoeken, BeoordelingVraag(q) \/ BeoordelingStap(q)
        PROVE  Schermen' /\ UNCHANGED uitvraag
    <2>1. CASE \E scherm \in {"overzicht", "ronde"} : OpenScherm(q, scherm)
      BY <2>1, OpenSchermBeeld DEF OpenScherm
    <2>2. CASE LeesOverzicht(q) \/ LeesRonde(q)
      BY <2>2, LeesOverzichtBeeld, LeesRondeBeeld DEF LeesOverzicht, LeesRonde
    <2>3. CASE ToonScherm(q)
      BY <2>3, BeeldWeg DEF ToonScherm
    <2>4. CASE UNCHANGED <<uitvraag, beeld>>
      BY <2>4, SchermenBlijven
    <2> QED
      BY <1>4, <2>1, <2>2, <2>3, <2>4 DEF BeoordelingVraag, BeoordelingStap, VoegOordeelToe,
         VoegNotitieToe, TrekIn, Koppel, InvoegenRij, IntrekkenRij, KoppelenRij, bvars, uitvraag
  <1>5. ASSUME NEW q \in Verzoeken, DossierVraag(q) \/ DossierStap(q)
        PROVE  UNCHANGED <<uitvraag, beeld>>
    <2>1. CASE DossierVraag(q)
      BY <2>1 DEF DossierVraag, NotitieToevoegen, Aanmaken, BijlageToevoegen, DossierWijzigen,
         LinkToevoegen, RijIntrekken, Overig, uitvraag
    <2>2. CASE DossierStap(q)
      BY <2>2 DEF DossierStap, SchrijfDossierNieuw, SchrijfDossierrij, SchrijfLink, SchrijfRijWeg,
         SchrijfDossier, Vergrendel, TelBijlagen, Bewaar, SchrijfBijlage, Vaststaat, bvars, uitvraag
    <2> QED BY <1>5, <2>1, <2>2
  <1>6. ASSUME NEW q \in Verzoeken, Vastleggen(q)
        PROVE  UNCHANGED <<uitvraag, beeld>>
    BY <1>6 DEF Vastleggen
  <1>7. ASSUME NEW q \in Verzoeken, Terugdraaien(q)
        PROVE  Schermen' /\ UNCHANGED uitvraag
    BY <1>7, BeeldWeg DEF Terugdraaien
  <1> QED BY <1>1, <1>2, <1>3, <1>4, <1>5, <1>6, <1>7, SchermenBlijven DEF Next

(* What the screens show, from the pictures being right.                   *)
LEMMA BeeldenTonen ==
    ASSUME Schermen
    PROVE  SchermenKloppen
  <1>1. \A q \in Verzoeken : Compleet(q) /\ beeld[q].scherm = "ronde" =>
          beeld[q].eerst \subseteq beeld[q].dan
    <2> SUFFICES ASSUME NEW q \in Verzoeken, Compleet(q), beeld[q].scherm = "ronde"
                 PROVE  beeld[q].eerst \subseteq beeld[q].dan
      OBVIOUS
    <2>1. RondeGoed(beeld[q])
      BY DEF Schermen, BeeldGoed
    <2>2. Cardinality({}) = 0 /\ Cardinality({"tel"}) = 1
      BY FS_EmptySet, FS_Singleton
    <2>3. beeld[q].gelezen = {"tel", "lijst"}
      BY <2>1, <2>2 DEF RondeGoed, Compleet
    <2> QED BY <2>1, <2>3 DEF RondeGoed
  <1>2. ASSUME NEW q \in Verzoeken, Compleet(q), beeld[q].scherm # "ronde", NEW r \in beeld[q].stil
        PROVE  /\ ~ (r \in beeld[q].eerst /\ r \in beeld[q].dan)
               /\ r \notin beeld[q].eerst \cup beeld[q].dan =>
                    respons[r].stand = "ingetrokken" \/ ronde.status = "archived"
    <2>1. OverzichtGoed(beeld[q]) /\ beeld[q] \in Beeldsoort
      BY <1>2 DEF Schermen, BeeldGoed
    <2>2. IsFiniteSet({"haal", "gepland"}) /\ Cardinality({"haal", "gepland"}) = 2
      <3>1. IsFiniteSet({"haal"}) /\ Cardinality({"haal"}) = 1
        BY FS_Singleton
      <3>2. IsFiniteSet({"haal"} \cup {"gepland"}) /\ Cardinality({"haal"} \cup {"gepland"}) = 1 + 1
        <4>1. "gepland" \notin {"haal"}
          OBVIOUS
        <4> QED BY <3>1, <4>1, FS_AddElement
      <3>3. {"haal"} \cup {"gepland"} = {"haal", "gepland"}
        OBVIOUS
      <3> QED BY <3>2, <3>3
    <2>3. beeld[q].gelezen = {"haal", "gepland"}
      BY <1>2, <2>1, <2>2, FS_Subset DEF OverzichtGoed, Compleet
    <2>4. r \in Responsen /\ (r \in beeld[q].eerst <=> r \in Haal)
          /\ (r \in beeld[q].dan <=> r \in HaalGeplandeVendors)
      BY <1>2, <2>1, <2>3 DEF OverzichtGoed, Beeldsoort
    <2>5. respons[r].stand \in {"geen", "open", "ingediend", "ingetrokken"}
      BY <2>4 DEF Schermen, ResponsGoed
    <2> QED BY <2>4, <2>5 DEF Haal, HaalGeplandeVendors
  <1>3. ASSUME NEW u \in Beoordelaars, NEW r \in Werkvoorraad(u)
        PROVE  r \in Haal /\ Status(r) \notin {"te_laat", "apart_verzonden", "opgestuurd"}
    <2>1. r \in Responsen /\ respons[r].stand = "ingediend" /\ ronde.status # "archived"
      BY <1>3 DEF Werkvoorraad
    <2>2. Status(r) \in {"terug", "goedgekeurd", "afgekeurd", "beoordeeld"}
      BY <2>1 DEF Status
    <2> QED BY <2>1, <2>2 DEF Haal
  <1>4. \A q \in Verzoeken : Compleet(q) =>
          IF beeld[q].scherm = "ronde" THEN beeld[q].eerst \subseteq beeld[q].dan
          ELSE \A r \in beeld[q].stil :
                 /\ ~ (r \in beeld[q].eerst /\ r \in beeld[q].dan)
                 /\ r \notin beeld[q].eerst \cup beeld[q].dan =>
                      respons[r].stand = "ingetrokken" \/ ronde.status = "archived"
    BY <1>1, <1>2
  <1> QED BY <1>3, <1>4 DEF SchermenKloppen

-----------------------------------------------------------------------------
(* Rows and their tables.                                                  *)

LEMMA Soorten ==
    /\ \A r \in Oordelen : RijSoort(r) =
         [stand : {"geen", "live", "weg"}, van : Responsen \cup {Geen},
          oordeel : OORDELEN \cup {Geen}, sinds : Nat]
    /\ \A r \in Notities : RijSoort(r) =
         [stand : {"geen", "live", "weg"}, van : Responsen \cup {Geen}]
    /\ \A r \in Beoordelaars \cup Dossierlinks : RijSoort(r) = [stand : {"geen", "live"}]
    /\ \A r \in Dossierrijen : RijSoort(r) =
         [stand : {"geen", "live", "weg"}, status : {"open", "afgerond"},
          afgerondOp : BOOLEAN, stap : BOOLEAN]
    /\ \A r \in Dossiernotities : RijSoort(r) =
         [stand : {"geen", "live", "weg"}, van : Dossierrijen \cup {Geen}, uitkomst : BOOLEAN]
    /\ \A r \in Dossierbijlagen : RijSoort(r) =
         [stand : {"geen", "live", "weg"}, van : Dossierrijen \cup {Geen}]
  <1>1. \A r \in Oordelen : RijSoort(r) =
         [stand : {"geen", "live", "weg"}, van : Responsen \cup {Geen},
          oordeel : OORDELEN \cup {Geen}, sinds : Nat]
    BY DossiersSleutels DEF RijSoort, DossierSleutels
  <1>2. \A r \in Notities : RijSoort(r) =
         [stand : {"geen", "live", "weg"}, van : Responsen \cup {Geen}]
    BY DossiersSleutels DEF RijSoort, DossierSleutels
  <1>3. \A r \in Beoordelaars \cup Dossierlinks : RijSoort(r) = [stand : {"geen", "live"}]
    BY DossiersSleutels DEF RijSoort, DossierSleutels
  <1>4. \A r \in Dossierrijen : RijSoort(r) =
         [stand : {"geen", "live", "weg"}, status : {"open", "afgerond"},
          afgerondOp : BOOLEAN, stap : BOOLEAN]
    BY DossiersSleutels DEF RijSoort, DossierSleutels
  <1>5. \A r \in Dossiernotities : RijSoort(r) =
         [stand : {"geen", "live", "weg"}, van : Dossierrijen \cup {Geen}, uitkomst : BOOLEAN]
    BY DossiersSleutels DEF RijSoort, DossierSleutels
  <1>6. \A r \in Dossierbijlagen : RijSoort(r) =
         [stand : {"geen", "live", "weg"}, van : Dossierrijen \cup {Geen}]
    BY DossiersSleutels DEF RijSoort, DossierSleutels
  <1> QED BY <1>1, <1>2, <1>3, <1>4, <1>5, <1>6

LEMMA RijVelden ==
    ASSUME Velden
    PROVE  /\ \A r \in Oordelen :
                rij[r].stand \in {"geen", "live", "weg"} /\ rij[r].sinds \in Nat
           /\ \A r \in Dossiernotities \cup Dossierbijlagen : rij[r].stand \in {"geen", "live", "weg"}
           /\ \A r \in Dossiernotities : rij[r].uitkomst \in BOOLEAN
  <1>1. ASSUME NEW r \in Oordelen
        PROVE  rij[r].stand \in {"geen", "live", "weg"} /\ rij[r].sinds \in Nat
    <2>1. rij[r] \in RijSoort(r)
      BY DEF Velden, Alle
    <2>2. rij[r] \in [stand : {"geen", "live", "weg"}, van : Responsen \cup {Geen},
                      oordeel : OORDELEN \cup {Geen}, sinds : Nat]
      BY <2>1, Soorten
    <2> QED BY <2>2
  <1>2. ASSUME NEW r \in Dossiernotities
        PROVE  rij[r].stand \in {"geen", "live", "weg"} /\ rij[r].uitkomst \in BOOLEAN
    <2>1. rij[r] \in RijSoort(r)
      BY DEF Velden, Alle, DossierSleutels
    <2>2. rij[r] \in [stand : {"geen", "live", "weg"}, van : Dossierrijen \cup {Geen},
                      uitkomst : BOOLEAN]
      BY <2>1, Soorten
    <2> QED BY <2>2
  <1>3. ASSUME NEW r \in Dossierbijlagen
        PROVE  rij[r].stand \in {"geen", "live", "weg"}
    <2>1. rij[r] \in RijSoort(r)
      BY DEF Velden, Alle, DossierSleutels
    <2>2. rij[r] \in [stand : {"geen", "live", "weg"}, van : Dossierrijen \cup {Geen}]
      BY <2>1, Soorten
    <2> QED BY <2>2
  <1> QED BY <1>1, <1>2, <1>3

(* A dossier keeps its shape, and the rules about its closing, under each  *)
(* of the five UPDATEs.                                                    *)
LEMMA GewijzigdGoed ==
    ASSUME NEW d \in Dossierrijen, NEW wat \in Wijzigt, rij[d] \in RijSoort(d), Wijzigbaar(d, wat)
    PROVE  /\ Gewijzigd(d, wat) \in RijSoort(d)
           /\ Gewijzigd(d, wat).stand \in {"live", "weg"}
           /\ wat = "afronden" => Gewijzigd(d, wat).stand = "live"
           /\ (rij[d].status = "afgerond") = rij[d].afgerondOp
                /\ (rij[d].afgerondOp => ~ rij[d].stap) =>
                /\ (Gewijzigd(d, wat).status = "afgerond") = Gewijzigd(d, wat).afgerondOp
                /\ Gewijzigd(d, wat).afgerondOp => ~ Gewijzigd(d, wat).stap
  <1>1. rij[d] \in [stand : {"geen", "live", "weg"}, status : {"open", "afgerond"},
                    afgerondOp : BOOLEAN, stap : BOOLEAN]
    BY Soorten
  <1>2. RijSoort(d) = [stand : {"geen", "live", "weg"}, status : {"open", "afgerond"},
                       afgerondOp : BOOLEAN, stap : BOOLEAN]
    BY Soorten
  <1>3. CASE wat = "afronden"
    BY <1>1, <1>2, <1>3 DEF Wijzigbaar, Gewijzigd
  <1>4. CASE wat = "heropenen"
    BY <1>1, <1>2, <1>4 DEF Wijzigbaar, Gewijzigd
  <1>5. CASE wat = "stap"
    BY <1>1, <1>2, <1>5 DEF Wijzigbaar, Gewijzigd
  <1>6. CASE wat = "geenStap"
    BY <1>1, <1>2, <1>6 DEF Wijzigbaar, Gewijzigd
  <1>7. CASE wat = "intrekken"
    BY <1>1, <1>2, <1>7 DEF Wijzigbaar, Gewijzigd
  <1> QED BY <1>3, <1>4, <1>5, <1>6, <1>7 DEF Wijzigt

(* A row that is withdrawn keeps the rest of what it was.                  *)
LEMMA WegGoed ==
    ASSUME NEW r \in Oordelen \cup Notities \cup Dossiernotities \cup Dossierbijlagen,
           NEW w, w \in RijSoort(r)
    PROVE  /\ [w EXCEPT !.stand = "weg"] \in RijSoort(r)
           /\ [w EXCEPT !.stand = "weg"].stand = "weg" /\ [w EXCEPT !.stand = "weg"].van = w.van
           /\ r \in Oordelen => [w EXCEPT !.stand = "weg"].sinds = w.sinds
           /\ r \in Dossiernotities => [w EXCEPT !.stand = "weg"].uitkomst = w.uitkomst
  <1>0. Dossiernotities \cap (Oordelen \cup Notities \cup Dossierbijlagen) = {}
        /\ Oordelen \cap (Notities \cup Dossierbijlagen) = {}
    BY DossiersSleutels DEF DossierSleutels
  <1>1. CASE r \in Oordelen
    <2> DEFINE S == [stand : {"geen", "live", "weg"}, van : Responsen \cup {Geen},
                     oordeel : OORDELEN \cup {Geen}, sinds : Nat]
    <2>1. RijSoort(r) = S /\ r \notin Dossiernotities
      BY <1>0, <1>1, Soorten
    <2> QED BY <2>1
  <1>2. CASE r \in Notities
    <2> DEFINE S == [stand : {"geen", "live", "weg"}, van : Responsen \cup {Geen}]
    <2>1. RijSoort(r) = S /\ r \notin Dossiernotities /\ r \notin Oordelen
      BY <1>0, <1>2, Soorten
    <2> QED BY <2>1
  <1>3. CASE r \in Dossiernotities
    <2> DEFINE S == [stand : {"geen", "live", "weg"}, van : Dossierrijen \cup {Geen},
                     uitkomst : BOOLEAN]
    <2>1. RijSoort(r) = S /\ r \notin Oordelen
      BY <1>0, <1>3, Soorten
    <2> QED BY <2>1
  <1>4. CASE r \in Dossierbijlagen
    <2> DEFINE S == [stand : {"geen", "live", "weg"}, van : Dossierrijen \cup {Geen}]
    <2>1. RijSoort(r) = S /\ r \notin Dossiernotities /\ r \notin Oordelen
      BY <1>0, <1>4, Soorten
    <2> QED BY <2>1
  <1> QED BY <1>1, <1>2, <1>3, <1>4

(* What a request writes is a row of one of the tables, of its shape.      *)
LEMMA GeschrevenSoort ==
    ASSUME Velden, NEW q, Vraagt(q), NEW r, NEW w, RijGoed(q, r, w)
    PROVE  r \in Alle /\ w \in RijSoort(r)
  <1>1. CASE verzoek[q].op = "oordeel"
    BY <1>1, Soorten DEF Vraagt, RijGoed, Alle
  <1>2. CASE verzoek[q].op = "notitie"
    BY <1>2, Soorten DEF Vraagt, RijGoed, Alle
  <1>3. CASE verzoek[q].op \in {"trekIn", "rijIntrekken"}
    <2>1. /\ r \in Oordelen \cup Notities \cup Dossiernotities \cup Dossierbijlagen
          /\ w = [rij[r] EXCEPT !.stand = "weg"] /\ r \in Alle
      BY <1>3 DEF Vraagt, RijGoed, Alle, DossierSleutels
    <2>2. rij[r] \in RijSoort(r)
      BY <2>1 DEF Velden
    <2> QED BY <2>1, <2>2, WegGoed
  <1>4. CASE verzoek[q].op = "koppel"
    BY <1>4, Soorten DEF Vraagt, RijGoed, Alle
  <1>5. CASE verzoek[q].op = "link"
    BY <1>5, Soorten DEF Vraagt, RijGoed, Alle, DossierSleutels
  <1>6. CASE verzoek[q].op = "dossiernotitie"
    BY <1>6, Soorten DEF Vraagt, RijGoed, Alle, DossierSleutels, NieuweNotitie
  <1>7. CASE verzoek[q].op = "aanmaken"
    <2>1. /\ Wat(q).doel \in Dossierrijen /\ Wat(q).extra \in Dossiernotities
          /\ Wat(q).waarde \subseteq Dossierlinks
          /\ \/ r = Wat(q).doel /\ w = [GeenDossier EXCEPT !.stand = "live"]
             \/ r = Wat(q).extra /\ w = NieuweNotitie(Wat(q).doel, FALSE)
             \/ r \in Wat(q).waarde /\ w = [stand |-> "live"]
      BY <1>7 DEF Vraagt, RijGoed
    <2>2. r \in Alle
      BY <2>1 DEF Alle, DossierSleutels
    <2>3. CASE r = Wat(q).doel /\ w = [GeenDossier EXCEPT !.stand = "live"]
      BY <2>1, <2>2, <2>3, Soorten DEF GeenDossier
    <2>4. CASE r = Wat(q).extra /\ w = NieuweNotitie(Wat(q).doel, FALSE)
      BY <2>1, <2>2, <2>4, Soorten DEF NieuweNotitie
    <2>5. CASE r \in Wat(q).waarde /\ w = [stand |-> "live"]
      BY <2>1, <2>2, <2>5, Soorten
    <2> QED BY <2>1, <2>3, <2>4, <2>5
  <1>8. CASE verzoek[q].op = "bijlage"
    <2>1. /\ Wat(q).van \in Dossierrijen /\ Wat(q).doel \in Dossierbijlagen
          /\ \/ r = Wat(q).van /\ w = rij[r]
             \/ r = Wat(q).doel /\ w = [stand |-> "live", van |-> Wat(q).van]
      BY <1>8 DEF Vraagt, RijGoed
    <2>2. r \in Alle
      BY <2>1 DEF Alle, DossierSleutels
    <2>3. CASE r = Wat(q).doel /\ w = [stand |-> "live", van |-> Wat(q).van]
      BY <2>1, <2>3, <2>2, Soorten
    <2> QED BY <2>1, <2>2, <2>3 DEF Velden
  <1>9. CASE verzoek[q].op \in Wijzigt
    <2>1. /\ Wat(q).doel \in Dossierrijen
          /\ verzoek[q].op = "afronden" => Wat(q).extra \in Dossiernotities
          /\ \/ r = Wat(q).doel /\ Wijzigbaar(r, verzoek[q].op) /\ w = Gewijzigd(r, verzoek[q].op)
             \/ verzoek[q].op = "afronden" /\ r = Wat(q).extra /\ w = NieuweNotitie(Wat(q).doel, TRUE)
      BY <1>9 DEF Vraagt, RijGoed
    <2>2. r \in Alle
      BY <2>1 DEF Alle, DossierSleutels
    <2>3. CASE r = Wat(q).doel /\ Wijzigbaar(r, verzoek[q].op) /\ w = Gewijzigd(r, verzoek[q].op)
      BY <1>9, <2>1, <2>2, <2>3, GewijzigdGoed DEF Velden
    <2>4. CASE r = Wat(q).extra /\ w = NieuweNotitie(Wat(q).doel, TRUE)
                 /\ verzoek[q].op = "afronden"
      BY <2>1, <2>2, <2>4, Soorten DEF NieuweNotitie
    <2> QED BY <2>1, <2>3, <2>4
  <1>10. verzoek[q].op \in {"oordeel", "notitie", "trekIn", "koppel", "aanmaken", "dossiernotitie",
                            "link", "rijIntrekken", "bijlage"} \cup Wijzigt
    BY DEF Vraagt, RijGoed
  <1> QED BY <1>1, <1>2, <1>3, <1>4, <1>5, <1>6, <1>7, <1>8, <1>9, <1>10

-----------------------------------------------------------------------------
(* Steps that commit nothing.                                              *)

LEMMA BegonnenGroeit ==
    ASSUME IsFiniteSet(Bezig), NEW q \in Verzoeken, Anders(q), verzoek'[q].pc # "nieuw"
    PROVE  /\ IsFiniteSet(Bezig') /\ Begonnen \in Nat /\ Begonnen' \in Nat
           /\ Begonnen <= Begonnen'
           /\ verzoek[q].pc = "nieuw" => Begonnen < Begonnen'
  <1>1. Bezig' = Bezig \cup {q}
    BY DEF Bezig, Anders
  <1>2. verzoek[q].pc = "nieuw" => q \notin Bezig
    BY DEF Bezig
  <1>3. Begonnen = Cardinality(Bezig) /\ Begonnen' = Cardinality(Bezig')
    BY DEF Begonnen, Bezig
  <1>4. /\ IsFiniteSet(Bezig \cup {q}) /\ Cardinality(Bezig) \in Nat
        /\ Cardinality(Bezig \cup {q}) =
             IF q \in Bezig THEN Cardinality(Bezig) ELSE Cardinality(Bezig) + 1
    BY FS_AddElement, FS_CardinalityType
  <1> QED BY <1>1, <1>2, <1>3, <1>4

(* What is committed, and what is only ever added to.                      *)
Groeit ==
    /\ rij' = rij /\ volgorde' = volgorde /\ gesloten' = gesloten
    /\ bestanden \subseteq bestanden' /\ bestanden' \subseteq Dossierbijlagen
    /\ samen \subseteq samen' /\ Ingediend \subseteq Ingediend'
    /\ Begonnen \in Nat /\ Begonnen' \in Nat /\ Begonnen <= Begonnen'

LEMMA DezeRijGoedBlijft ==
    ASSUME NEW q, NEW r, rij'[r] = rij[r], verzoek'[q].op = verzoek[q].op, Wat(q)' = Wat(q)
    PROVE  \A w : RijGoed(q, r, w) => RijGoed(q, r, w)'
  <1> SUFFICES ASSUME NEW w, RijGoed(q, r, w) PROVE RijGoed(q, r, w)'
    OBVIOUS
  <1>1. Wijzigbaar(r, verzoek[q].op)' <=> Wijzigbaar(r, verzoek[q].op)
    BY DEF Wijzigbaar
  <1>2. Gewijzigd(r, verzoek[q].op)' = Gewijzigd(r, verzoek[q].op)
    BY DEF Gewijzigd
  <1> QED BY <1>1, <1>2 DEF RijGoed

LEMMA RijGoedBlijft ==
    ASSUME NEW q, rij' = rij, verzoek'[q].op = verzoek[q].op, Wat(q)' = Wat(q)
    PROVE  \A r, w : RijGoed(q, r, w) => RijGoed(q, r, w)'
  BY DezeRijGoedBlijft

LEMMA SindsGroeit ==
    ASSUME Groeit, NEW n, n \in Nat, n < Begonnen
    PROVE  n < Begonnen'
  BY DEF Groeit

LEMMA LokaalBlijft ==
    ASSUME Kern, Groeit, NEW p \in Verzoeken, verzoek'[p] = verzoek[p]
    PROVE  Lokaal(p)'
  <1>1. Wat(p)' = Wat(p) /\ (p \in Lopend') = (p \in Lopend) /\ Geschreven(p)' = Geschreven(p)
    BY DEF Wat, Lopend, Geschreven
  <1>2. Lokaal(p)
    BY DEF Kern
  <1>3. p \notin Lopend => Geschreven(p)' = {}
    BY <1>1, <1>2 DEF Lokaal
  <1>4. ASSUME p \in Lopend
        PROVE  /\ Vraagt(p)' /\ Statement(p)' /\ Geschrift(p)'
               /\ Rijen(p)' /\ Nieuwe(p)' /\ Weet(p)'
    <2>1. /\ Vraagt(p) /\ Statement(p) /\ Geschrift(p) /\ Rijen(p) /\ Nieuwe(p) /\ Weet(p)
      BY <1>2, <1>4 DEF Lokaal
    <2>2. Vraagt(p)' /\ Statement(p)'
      BY <1>1, <2>1 DEF Vraagt, Statement
    <2>3. Geschrift(p)'
      BY <1>1, <2>1 DEF Geschrift, Doelrijen
    <2>4. Rijen(p)'
      <3>1. \A r, w : RijGoed(p, r, w) => RijGoed(p, r, w)'
        BY <1>1, RijGoedBlijft DEF Groeit
      <3>2. \A r \in Geschreven(p) : Wordt(p, r)' = Wordt(p, r)
        BY DEF Wordt
      <3> QED BY <1>1, <2>1, <3>1, <3>2 DEF Rijen
    <2>5. Nieuwe(p)'
      BY <1>1, <2>1 DEF Nieuwe, Nieuw, Groeit
    <2>6. Weet(p)'
      <3>1. Vol(Wat(p).van)' = Vol(Wat(p).van)
        BY <1>1 DEF Vol, BijlagenVan, Groeit
      <3>2. verzoek[p].op = "oordeel" => Wat(p).sinds \in Nat
        BY <2>1 DEF Vraagt
      <3>3. verzoek[p].op = "oordeel" => Wat(p).sinds < Begonnen'
        BY <2>1, <3>2, SindsGroeit DEF Weet
      <3> QED BY <1>1, <2>1, <3>1, <3>3 DEF Weet, Groeit
    <2> QED BY <2>2, <2>3, <2>4, <2>5, <2>6
  <1> QED BY <1>1, <1>3, <1>4 DEF Lokaal

LEMMA VastBlijft ==
    ASSUME Kern, Groeit
    PROVE  Oordeelrijen' /\ Dossierinhoud'
  <1>1. \A o \in Oordelen : rij[o].sinds \in Nat
    BY RijVelden DEF Kern
  <1>2. \A o \in Oordelen : rij[o].sinds < Begonnen => rij[o].sinds < Begonnen'
    BY <1>1, SindsGroeit
  <1>3. Oordeelrijen'
    BY <1>2 DEF Kern, Oordeelrijen, Groeit
  <1>4. Dossierinhoud'
    BY DEF Kern, Dossierinhoud, Inhoud, BijlagenVan, Uitkomsten, Groeit
  <1> QED BY <1>3, <1>4

(* A step of request q that commits nothing, its own part given.           *)
LEMMA StapGoed ==
    ASSUME Kern, NEW q \in Verzoeken, Vorm', Slot', Anders(q), verzoek'[q].pc # "nieuw",
           rij' = rij, volgorde' = volgorde, gesloten' = gesloten,
           bestanden \subseteq bestanden', bestanden' \subseteq Dossierbijlagen,
           samen \subseteq samen', Ingediend \subseteq Ingediend',
           Lokaal(q)', Alleen', EigenSleutels'
    PROVE  Kern'
  <1>1. /\ IsFiniteSet(Bezig') /\ Begonnen \in Nat /\ Begonnen' \in Nat /\ Begonnen <= Begonnen'
    BY BegonnenGroeit DEF Kern, Velden
  <1>2. Groeit
    BY <1>1 DEF Groeit
  <1>3. \A p \in Verzoeken : Lokaal(p)'
    BY <1>2, LokaalBlijft DEF Anders
  <1>4. Velden'
    BY <1>1 DEF Kern, Velden, RijSoort
  <1> QED BY <1>2, <1>3, <1>4, VastBlijft DEF Kern

LEMMA SamenBlijven ==
    ASSUME Kern, NEW q \in Lopend, Anders(q), verzoek'[q].op = verzoek[q].op, Wat(q)' = Wat(q),
           samen \subseteq samen'
    PROVE  Alleen' /\ EigenSleutels'
  <1>1. \A p \in Lopend' : p \in Lopend /\ verzoek'[p].op = verzoek[p].op /\ Wat(p)' = Wat(p)
    BY DEF Lopend, Anders, Wat
  <1>2. \A p \in Lopend' : Nieuw(p)' = Nieuw(p)
    BY <1>1 DEF Nieuw
  <1> QED BY <1>1, <1>2 DEF Kern, Alleen, EigenSleutels

(* A request that ends without COMMIT.                                     *)
LEMMA EindeStap ==
    ASSUME Kern, NEW q \in Verzoeken, NEW uitkomst \in Rust, uitkomst # "nieuw",
           verzoek' = [verzoek EXCEPT ![q] = [NieuwVerzoek EXCEPT !.pc = uitkomst]],
           UNCHANGED <<rij, volgorde, gesloten, bestanden, samen>>, Ingediend \subseteq Ingediend'
    PROVE  Kern'
  <1>1. /\ Vorm' /\ Anders(q) /\ verzoek'[q].pc = uitkomst /\ Geschreven(q)' = {}
    BY EindeFeit DEF Kern, Geschreven
  <1>2. Slot'
    BY <1>1, SlotBlijft DEF Kern, Geschreven
  <1>3. q \notin Lopend'
    BY <1>1 DEF Lopend, Rust
  <1>4. Lokaal(q)'
    BY <1>1, <1>3 DEF Lokaal
  <1>5. Lopend' \subseteq Lopend
        /\ \A p \in Lopend' : verzoek'[p].op = verzoek[p].op /\ Wat(p)' = Wat(p)
    BY <1>1, <1>3 DEF Lopend, Anders, Wat
  <1>6. \A p \in Lopend' : Nieuw(p)' = Nieuw(p)
    BY <1>5 DEF Nieuw
  <1>7. Alleen' /\ EigenSleutels'
    BY <1>5, <1>6 DEF Kern, Alleen, EigenSleutels
  <1>8. bestanden' \subseteq Dossierbijlagen
    BY DEF Kern, Velden
  <1> QED BY <1>1, <1>2, <1>4, <1>7, <1>8, StapGoed

-----------------------------------------------------------------------------
(* BEGIN.                                                                  *)

(* Request q has begun.                                                    *)
Begon(q, op, v, pc) ==
    /\ Anders(q) /\ verzoek[q].pc = "nieuw" /\ q \notin Lopend
    /\ verzoek'[q].pc = pc /\ verzoek'[q].op = op /\ Wat(q)' = v
    /\ Geschreven(q)' = {} /\ samen \subseteq samen'
    /\ \A p \in Lopend : Wat(p).van = v.van => v.van \in samen'

LEMMA BegonFeit ==
    ASSUME Kern, NEW q \in Verzoeken, NEW op, NEW van, NEW pc, NEW invoer,
           NEW v, v = [invoer EXCEPT !.van = van], v.van = van,
           BegintBij(q, op, van, invoer, pc)
    PROVE  Vorm' /\ Slot' /\ Begon(q, op, v, pc)
  <1>1. Begint(q, op, v, pc)
    BY DEF BegintBij
  <1>2. /\ Vorm' /\ Anders(q) /\ verzoek[q].pc = "nieuw" /\ verzoek'[q].schrijf = verzoek[q].schrijf
        /\ verzoek'[q].pc = pc /\ verzoek'[q].op = op /\ Wat(q)' = v
    BY <1>1, BegintFeit DEF Kern, Wat
  <1>3. q \notin Lopend
    BY <1>2 DEF Lopend
  <1>4. Geschreven(q) = {} /\ Geschreven(q)' = {}
    BY <1>2, <1>3 DEF Kern, Lokaal, Geschreven
  <1>5. Slot'
    BY <1>2, SlotBlijft DEF Kern
  <1>6. samen \subseteq samen' /\ \A p \in Lopend : Wat(p).van = van => van \in samen'
    BY DEF BegintBij
  <1> QED BY <1>2, <1>3, <1>4, <1>5, <1>6 DEF Begon

LEMMA OnbenutFeit ==
    ASSUME NEW r, Onbenut(r)
    PROVE  rij[r].stand = "geen" /\ \A p \in Lopend : r \notin Nieuw(p)
  BY DEF Onbenut, Nieuw

Beginnend == {"invoegen", "intrekken", "koppelen", "dossierNieuw", "dossierrij", "link", "rijWeg",
              "dossier", "slot"}

(* What is left to show of a BEGIN.                                        *)
LEMMA BegintStap ==
    ASSUME Kern, NEW q \in Verzoeken, NEW op, NEW v, NEW pc,
           pc \in Beginnend, op # "scherm",
           Vorm', Slot', Begon(q, op, v, pc), Overig, Ingediend \subseteq Ingediend',
           Vraagt(q)', Statement(q)', Weet(q)', \A r \in Nieuw(q)' : Onbenut(r)
    PROVE  Kern'
  <1>1. \A p \in Lopend' \ {q} : p \in Lopend /\ verzoek'[p].op = verzoek[p].op /\ Wat(p)' = Wat(p)
    BY DEF Begon, Lopend, Anders, Wat
  <1>2. Alleen'
    BY <1>1 DEF Kern, Alleen, Begon
  <1>3. \A p \in Lopend' \ {q} : Nieuw(p)' = Nieuw(p)
    BY <1>1 DEF Nieuw
  <1>4. \A p \in Lopend' \ {q} : Nieuw(p)' \cap Nieuw(q)' = {}
    BY <1>1, <1>3, OnbenutFeit
  <1>5. EigenSleutels'
    BY <1>1, <1>3, <1>4 DEF Kern, EigenSleutels
  <1>6. q \in Lopend'
    BY DEF Begon, Lopend, Beginnend
  <1>7. rij' = rij /\ volgorde' = volgorde /\ gesloten' = gesloten /\ bestanden' = bestanden
    BY DEF Overig, dvars
  <1>8. Geschrift(q)'
    BY DEF Begon, Geschrift, Slotstap, Beginnend
  <1>9. Rijen(q)'
    BY DEF Begon, Rijen
  <1>10. Nieuwe(q)'
    BY <1>7, OnbenutFeit DEF Nieuwe
  <1>11. Lokaal(q)'
    BY <1>6, <1>8, <1>9, <1>10 DEF Lokaal
  <1>12. verzoek'[q].pc # "nieuw" /\ Anders(q) /\ samen \subseteq samen'
    BY DEF Begon, Beginnend
  <1>13. bestanden \subseteq bestanden' /\ bestanden' \subseteq Dossierbijlagen
    BY <1>7 DEF Kern, Velden
  <1> QED BY <1>2, <1>5, <1>7, <1>11, <1>12, <1>13, StapGoed

LEMMA VoegOordeelToeGoed ==
    ASSUME Kern, NEW q \in Verzoeken, NEW r \in Responsen, NEW o \in Oordelen,
           NEW oordeel \in OORDELEN, VoegOordeelToe(q, r, o, oordeel), UNCHANGED dvars,
           Ingediend \subseteq Ingediend'
    PROVE  Kern'
  <1> DEFINE invoer == [GeenInvoer EXCEPT !.doel = o, !.waarde = oordeel, !.sinds = Begonnen]
             v == [invoer EXCEPT !.van = r]
  <1>1. /\ v.van = r /\ v.doel = o /\ v.waarde = oordeel /\ v.sinds = Begonnen
    BY DEF GeenInvoer
  <1>2. Vorm' /\ Slot' /\ Begon(q, "oordeel", v, "invoegen")
    BY <1>1, BegonFeit DEF VoegOordeelToe
  <1> HIDE DEF v
  <1>3. Begonnen \in Nat /\ Begonnen' \in Nat /\ Begonnen < Begonnen'
    BY <1>2, BegonnenGroeit DEF Begon, Kern, Velden
  <1>4. Onbenut(o) /\ r \in Ingediend /\ rij' = rij
    BY DEF VoegOordeelToe, TeBeoordelen, Ingediend
  <1>5. Vraagt(q)' /\ Statement(q)'
    BY <1>1, <1>2, <1>3 DEF Begon, Vraagt, Statement, Wijzigt, Slotstap
  <1>6. Weet(q)'
    <2>1. r \in Ingediend' /\ v.sinds < Begonnen'
      BY <1>1, <1>3, <1>4
    <2>2. \A x \in Oordelen : rij[x].stand # "geen" => rij[x].sinds < v.sinds
      BY <1>1 DEF Kern, Oordeelrijen
    <2> QED BY <1>1, <1>2, <1>4, <2>1, <2>2 DEF Begon, Weet
  <1>7. \A x \in Nieuw(q)' : Onbenut(x)
    BY <1>1, <1>2, <1>4 DEF Begon, Nieuw
  <1>8. Overig
    BY DEF VoegOordeelToe, Overig
  <1> QED BY <1>2, <1>5, <1>6, <1>7, <1>8, BegintStap DEF Beginnend

LEMMA VoegNotitieToeGoed ==
    ASSUME Kern, NEW q \in Verzoeken, NEW r \in Responsen, NEW n \in Notities,
           VoegNotitieToe(q, r, n), UNCHANGED dvars, Ingediend \subseteq Ingediend'
    PROVE  Kern'
  <1> DEFINE v == [[GeenInvoer EXCEPT !.doel = n] EXCEPT !.van = r]
  <1>1. /\ v.van = r /\ v.doel = n
    BY DEF GeenInvoer
  <1>2. Vorm' /\ Slot' /\ Begon(q, "notitie", v, "invoegen")
    BY <1>1, BegonFeit DEF VoegNotitieToe
  <1> HIDE DEF v
  <1>3. Vraagt(q)' /\ Statement(q)' /\ Weet(q)'
    BY <1>1, <1>2 DEF Begon, Vraagt, Statement, Weet, Wijzigt, Slotstap
  <1>4. \A x \in Nieuw(q)' : Onbenut(x)
    BY <1>1, <1>2 DEF Begon, Nieuw, VoegNotitieToe
  <1>5. Overig
    BY DEF VoegNotitieToe, Overig
  <1> QED BY <1>2, <1>3, <1>4, <1>5, BegintStap DEF Beginnend

LEMMA TrekInGoed ==
    ASSUME Kern, NEW q \in Verzoeken, NEW o \in Oordelen \cup Notities, TrekIn(q, o),
           UNCHANGED dvars, Ingediend \subseteq Ingediend'
    PROVE  Kern'
  <1> DEFINE v == [[GeenInvoer EXCEPT !.doel = o] EXCEPT !.van = rij[o].van]
  <1>1. /\ v.van = rij[o].van /\ v.doel = o
    BY DEF GeenInvoer
  <1>2. Vorm' /\ Slot' /\ Begon(q, "trekIn", v, "intrekken")
    BY <1>1, BegonFeit DEF TrekIn
  <1> HIDE DEF v
  <1>3. Vraagt(q)' /\ Statement(q)' /\ Weet(q)'
    BY <1>1, <1>2 DEF Begon, Vraagt, Statement, Weet, Wijzigt, Slotstap
  <1>4. Nieuw(q)' = {}
    BY <1>2 DEF Begon, Nieuw
  <1>5. Overig
    BY DEF TrekIn, Overig
  <1> QED BY <1>2, <1>3, <1>4, <1>5, BegintStap DEF Beginnend

LEMMA KoppelGoed ==
    ASSUME Kern, NEW q \in Verzoeken, NEW u \in Beoordelaars, NEW aan \in BOOLEAN,
           Koppel(q, u, aan), UNCHANGED dvars, Ingediend \subseteq Ingediend'
    PROVE  Kern'
  <1> DEFINE invoer == [GeenInvoer EXCEPT !.doel = u, !.waarde = IF aan THEN "live" ELSE "geen"]
             v == [invoer EXCEPT !.van = u]
  <1>1. /\ v.van = u /\ v.doel = u /\ v.waarde \in {"live", "geen"}
    BY DEF GeenInvoer
  <1>2. Vorm' /\ Slot' /\ Begon(q, "koppel", v, "koppelen")
    BY <1>1, BegonFeit DEF Koppel
  <1> HIDE DEF v
  <1>3. Vraagt(q)' /\ Statement(q)' /\ Weet(q)'
    BY <1>1, <1>2 DEF Begon, Vraagt, Statement, Weet, Wijzigt, Slotstap
  <1>4. Nieuw(q)' = {}
    BY <1>2 DEF Begon, Nieuw
  <1>5. Overig
    BY DEF Koppel, Overig
  <1> QED BY <1>2, <1>3, <1>4, <1>5, BegintStap DEF Beginnend

LEMMA AanmakenGoed ==
    ASSUME Kern, NEW q \in Verzoeken, NEW d \in Dossierrijen, NEW n \in Dossiernotities,
           NEW L, L \subseteq Dossierlinks, Aanmaken(q, d, n, L), Ingediend \subseteq Ingediend'
    PROVE  Kern'
  <1> DEFINE invoer == [GeenInvoer EXCEPT !.doel = d, !.extra = n, !.waarde = L]
             v == [invoer EXCEPT !.van = d]
  <1>1. v.van = d /\ v.doel = d /\ v.extra = n /\ v.waarde = L
    BY DEF GeenInvoer
  <1>2. Vorm' /\ Slot' /\ Begon(q, "aanmaken", v, "dossierNieuw")
    BY <1>1, BegonFeit DEF Aanmaken
  <1> HIDE DEF v
  <1>3. Vraagt(q)' /\ Statement(q)' /\ Weet(q)'
    BY <1>1, <1>2 DEF Begon, Vraagt, Statement, Weet, Wijzigt, Slotstap
  <1>4. \A x \in Nieuw(q)' : Onbenut(x)
    BY <1>1, <1>2 DEF Begon, Nieuw, Aanmaken
  <1>5. Overig
    BY DEF Aanmaken
  <1> QED BY <1>2, <1>3, <1>4, <1>5, BegintStap DEF Beginnend

LEMMA NotitieToevoegenGoed ==
    ASSUME Kern, NEW q \in Verzoeken, NEW d \in Dossierrijen, NEW n \in Dossiernotities,
           NotitieToevoegen(q, d, n), Ingediend \subseteq Ingediend'
    PROVE  Kern'
  <1> DEFINE v == [[GeenInvoer EXCEPT !.doel = n] EXCEPT !.van = d]
  <1>1. v.van = d /\ v.doel = n
    BY DEF GeenInvoer
  <1>2. Vorm' /\ Slot' /\ Begon(q, "dossiernotitie", v, "dossierrij")
    BY <1>1, BegonFeit DEF NotitieToevoegen
  <1> HIDE DEF v
  <1>3. rij' = rij /\ rij[d].stand = "live"
    BY DEF NotitieToevoegen, Overig
  <1>4. Vraagt(q)' /\ Statement(q)' /\ Weet(q)'
    BY <1>1, <1>2, <1>3 DEF Begon, Vraagt, Statement, Weet, Wijzigt, Slotstap
  <1>5. \A x \in Nieuw(q)' : Onbenut(x)
    BY <1>1, <1>2 DEF Begon, Nieuw, NotitieToevoegen
  <1>6. Overig
    BY DEF NotitieToevoegen
  <1> QED BY <1>2, <1>4, <1>5, <1>6, BegintStap DEF Beginnend

LEMMA LinkToevoegenGoed ==
    ASSUME Kern, NEW q \in Verzoeken, NEW k \in Dossierlinks, LinkToevoegen(q, k),
           Ingediend \subseteq Ingediend'
    PROVE  Kern'
  <1> DEFINE v == [[GeenInvoer EXCEPT !.doel = k] EXCEPT !.van = DossierVan[k]]
  <1>1. v.van = DossierVan[k] /\ v.doel = k
    BY DEF GeenInvoer
  <1>2. Vorm' /\ Slot' /\ Begon(q, "link", v, "link")
    BY <1>1, BegonFeit DEF LinkToevoegen
  <1> HIDE DEF v
  <1>3. Vraagt(q)' /\ Statement(q)' /\ Weet(q)'
    BY <1>1, <1>2 DEF Begon, Vraagt, Statement, Weet, Wijzigt, Slotstap
  <1>4. Nieuw(q)' = {}
    BY <1>2 DEF Begon, Nieuw
  <1>5. Overig
    BY DEF LinkToevoegen
  <1> QED BY <1>2, <1>3, <1>4, <1>5, BegintStap DEF Beginnend

LEMMA RijIntrekkenGoed ==
    ASSUME Kern, NEW q \in Verzoeken, NEW r \in Dossiernotities \cup Dossierbijlagen,
           RijIntrekken(q, r), Ingediend \subseteq Ingediend'
    PROVE  Kern'
  <1> DEFINE v == [[GeenInvoer EXCEPT !.doel = r] EXCEPT !.van = rij[r].van]
  <1>1. v.van = rij[r].van /\ v.doel = r
    BY DEF GeenInvoer
  <1>2. Vorm' /\ Slot' /\ Begon(q, "rijIntrekken", v, "rijWeg")
    BY <1>1, BegonFeit DEF RijIntrekken
  <1> HIDE DEF v
  <1>3. Vraagt(q)' /\ Statement(q)' /\ Weet(q)'
    BY <1>1, <1>2 DEF Begon, Vraagt, Statement, Weet, Wijzigt, Slotstap
  <1>4. Nieuw(q)' = {}
    BY <1>2 DEF Begon, Nieuw
  <1>5. Overig
    BY DEF RijIntrekken
  <1> QED BY <1>2, <1>3, <1>4, <1>5, BegintStap DEF Beginnend

LEMMA BijlageToevoegenGoed ==
    ASSUME Kern, NEW q \in Verzoeken, NEW d \in Dossierrijen, NEW b \in Dossierbijlagen,
           BijlageToevoegen(q, d, b), Ingediend \subseteq Ingediend'
    PROVE  Kern'
  <1> DEFINE v == [[GeenInvoer EXCEPT !.doel = b] EXCEPT !.van = d]
  <1>1. v.van = d /\ v.doel = b
    BY DEF GeenInvoer
  <1>2. Vorm' /\ Slot' /\ Begon(q, "bijlage", v, "slot")
    BY <1>1, BegonFeit DEF BijlageToevoegen
  <1> HIDE DEF v
  <1>3. Vraagt(q)' /\ Statement(q)' /\ Weet(q)'
    BY <1>1, <1>2 DEF Begon, Vraagt, Statement, Weet, Wijzigt, Slotstap
  <1>4. \A x \in Nieuw(q)' : Onbenut(x)
    BY <1>1, <1>2 DEF Begon, Nieuw, BijlageToevoegen
  <1>5. Overig
    BY DEF BijlageToevoegen
  <1> QED BY <1>2, <1>3, <1>4, <1>5, BegintStap DEF Beginnend

LEMMA DossierWijzigenGoed ==
    ASSUME Kern, NEW q \in Verzoeken, NEW d \in Dossierrijen, NEW wat \in Wijzigt,
           NEW n \in Dossiernotities \cup {Geen}, DossierWijzigen(q, d, wat, n),
           Ingediend \subseteq Ingediend'
    PROVE  Kern'
  <1> DEFINE invoer == [GeenInvoer EXCEPT !.doel = d, !.extra = n]
             v == [invoer EXCEPT !.van = d]
  <1>1. v.van = d /\ v.doel = d /\ v.extra = n
    BY DEF GeenInvoer
  <1>2. Vorm' /\ Slot' /\ Begon(q, wat, v, "dossier")
    BY <1>1, BegonFeit DEF DossierWijzigen
  <1> HIDE DEF v
  <1>3. IF wat = "afronden" THEN n \in Dossiernotities /\ Onbenut(n) ELSE n = Geen
    BY DEF DossierWijzigen
  <1>4. Vraagt(q)' /\ Statement(q)' /\ Weet(q)'
    BY <1>1, <1>2, <1>3 DEF Begon, Vraagt, Statement, Weet, Wijzigt, Slotstap
  <1>5. \A x \in Nieuw(q)' : Onbenut(x)
    BY <1>1, <1>2, <1>3 DEF Begon, Nieuw, Wijzigt
  <1>6. Overig
    BY DEF DossierWijzigen
  <1>7. wat # "scherm"
    BY DEF Wijzigt
  <1> QED BY <1>2, <1>4, <1>5, <1>6, <1>7, BegintStap DEF Beginnend

LEMMA OpenSchermGoed ==
    ASSUME Kern, NEW q \in Verzoeken, NEW scherm, OpenScherm(q, scherm), UNCHANGED dvars,
           Ingediend \subseteq Ingediend'
    PROVE  Kern'
  <1>1. Begint(q, "scherm", GeenInvoer, "scherm") /\ rij' = rij /\ volgorde' = volgorde
        /\ samen' = samen /\ bestanden' = bestanden /\ gesloten' = gesloten
    BY DEF OpenScherm, Begint, dvars
  <1>2. /\ Vorm' /\ Anders(q) /\ verzoek[q].pc = "nieuw" /\ verzoek'[q].schrijf = verzoek[q].schrijf
        /\ verzoek'[q].pc = "scherm" /\ verzoek'[q].op = "scherm"
    BY <1>1, BegintFeit DEF Kern
  <1>3. q \notin Lopend /\ q \in Lopend'
    BY <1>2 DEF Lopend
  <1>4. Geschreven(q)' = {}
    BY <1>2, <1>3 DEF Kern, Lokaal, Geschreven
  <1>5. Slot'
    BY <1>2, SlotBlijft DEF Kern
  <1>6. \A p \in Lopend' \ {q} : p \in Lopend /\ verzoek'[p].op = verzoek[p].op /\ Wat(p)' = Wat(p)
    BY <1>2 DEF Lopend, Anders, Wat
  <1>7. \A p \in Lopend' \ {q} : Nieuw(p)' = Nieuw(p)
    BY <1>6 DEF Nieuw
  <1>8. Nieuw(q)' = {}
    BY <1>2 DEF Nieuw
  <1>9. Alleen' /\ EigenSleutels'
    BY <1>1, <1>2, <1>6, <1>7, <1>8 DEF Kern, Alleen, EigenSleutels
  <1>10. /\ Vraagt(q)' /\ Statement(q)' /\ Geschrift(q)' /\ Rijen(q)' /\ Nieuwe(q)' /\ Weet(q)'
    BY <1>2, <1>4, <1>8 DEF Vraagt, Statement, Geschrift, Rijen, Nieuwe, Weet, Wijzigt, Slotstap
  <1>11. Lokaal(q)'
    BY <1>3, <1>10 DEF Lokaal
  <1>12. verzoek'[q].pc # "nieuw" /\ bestanden' \subseteq Dossierbijlagen
    BY <1>1, <1>2 DEF Kern, Velden
  <1> QED BY <1>1, <1>2, <1>5, <1>9, <1>11, <1>12, StapGoed

-----------------------------------------------------------------------------
(* Statements.                                                             *)

LEMMA Stilstand ==
    ASSUME Kern, UNCHANGED <<rij, verzoek, volgorde, gesloten, bestanden, samen>>,
           Ingediend \subseteq Ingediend'
    PROVE  Kern'
  <1>1. Begonnen' = Begonnen /\ Begonnen \in Nat
    BY FS_CardinalityType DEF Begonnen, Bezig, Kern, Velden
  <1>2. Groeit
    BY <1>1 DEF Groeit, Kern, Velden
  <1>3. \A p \in Verzoeken : Lokaal(p)'
    BY <1>2, LokaalBlijft
  <1>4. Vorm' /\ Slot' /\ Velden'
    BY DEF Kern, Vorm, Slot, Velden, RijSoort, Bezig
  <1>5. Lopend' = Lopend /\ \A p \in Lopend : Wat(p)' = Wat(p) /\ Nieuw(p)' = Nieuw(p)
    BY DEF Lopend, Wat, Nieuw
  <1>6. Alleen' /\ EigenSleutels'
    BY <1>5 DEF Kern, Alleen, EigenSleutels
  <1> QED BY <1>2, <1>3, <1>4, <1>6, VastBlijft DEF Kern

(* Request q is at its next statement, having written the rows R more.     *)
Schreef(q, R, pc) ==
    /\ Anders(q) /\ q \in Lopend /\ verzoek'[q].pc = pc
    /\ verzoek'[q].op = verzoek[q].op /\ Wat(q)' = Wat(q)
    /\ Geschreven(q)' = Geschreven(q) \cup R

Vervolg == {"commit"} \cup Slotstap

LEMMA VervolgStap ==
    ASSUME Kern, NEW q \in Verzoeken, NEW R, NEW pc \in Vervolg, Vorm', Slot', Schreef(q, R, pc),
           UNCHANGED <<rij, volgorde, gesloten, samen>>, Ingediend \subseteq Ingediend',
           bestanden \subseteq bestanden', bestanden' \subseteq Dossierbijlagen,
           Statement(q)', Geschrift(q)', Rijen(q)', Weet(q)'
    PROVE  Kern'
  <1>1. q \in Lopend /\ Vraagt(q) /\ Nieuwe(q)
    BY DEF Kern, Lokaal, Schreef
  <1>2. Vraagt(q)' /\ Nieuwe(q)'
    BY <1>1 DEF Schreef, Vraagt, Nieuwe, Nieuw
  <1>3. q \in Lopend' /\ verzoek'[q].pc # "nieuw"
    BY DEF Schreef, Lopend, Vervolg, Slotstap
  <1>4. Lokaal(q)'
    BY <1>2, <1>3 DEF Lokaal
  <1>5. Alleen' /\ EigenSleutels'
    BY SamenBlijven DEF Schreef
  <1>6. Anders(q)
    BY DEF Schreef
  <1> QED BY <1>3, <1>4, <1>5, <1>6, StapGoed

LEMMA SchreefFeit ==
    ASSUME Kern, NEW q \in Lopend, NEW R, NEW wordt, NEW pc, Schrijft(q, R, wordt, pc), rij' = rij,
           \A r \in R : RijGoed(q, r, wordt[r])
    PROVE  Vorm' /\ Slot' /\ Schreef(q, R, pc) /\ Rijen(q)'
  <1>0. q \in Verzoeken
    BY DEF Lopend
  <1>1. /\ Vorm' /\ Anders(q) /\ verzoek'[q].pc = pc /\ verzoek'[q].op = verzoek[q].op
        /\ Wat(q)' = Wat(q) /\ Geschreven(q)' = Geschreven(q) \cup R
        /\ \A r \in Geschreven(q)' : Wordt(q, r)' = IF r \in R THEN wordt[r] ELSE Wordt(q, r)
    BY <1>0, SchrijftFeit DEF Kern, Wat, Geschreven, Wordt
  <1>2. Slot'
    BY <1>0, SlotSchrijft DEF Kern
  <1>3. \A r \in Geschreven(q) : RijGoed(q, r, Wordt(q, r))
    BY <1>0 DEF Kern, Lokaal, Rijen
  <1>4. \A r, w : RijGoed(q, r, w) => RijGoed(q, r, w)'
    BY <1>1, RijGoedBlijft
  <1>5. \A r \in DOMAIN verzoek'[q].schrijf : RijGoed(q, r, verzoek'[q].schrijf[r])
    BY <1>1, <1>3 DEF Geschreven, Wordt
  <1>6. Rijen(q)'
    BY <1>4, <1>5 DEF Rijen, Geschreven, Wordt
  <1> QED BY <1>1, <1>2, <1>6 DEF Schreef

(* An INSERT, UPDATE or DELETE that is the last statement before COMMIT.   *)
LEMMA SchrijftLaatst ==
    ASSUME Kern, NEW q \in Lopend, NEW R, NEW wordt, Schrijft(q, R, wordt, "commit"),
           UNCHANGED <<rij, volgorde, gesloten, bestanden, samen>>, Ingediend \subseteq Ingediend',
           verzoek[q].pc # "scherm", \A r \in R : RijGoed(q, r, wordt[r]),
           Geschreven(q) \cup R = Doelrijen(q),
           verzoek[q].op = "bijlage" => ~ Vol(Wat(q).van) /\ Wat(q).doel \in bestanden
    PROVE  Kern'
  <1>0. q \in Verzoeken
    BY DEF Lopend
  <1>1. Vorm' /\ Slot' /\ Schreef(q, R, "commit") /\ Rijen(q)'
    BY SchreefFeit
  <1>2. Vraagt(q) /\ Statement(q) /\ Weet(q)
    BY <1>0 DEF Kern, Lokaal
  <1>3. Statement(q)'
    BY <1>1, <1>2 DEF Schreef, Statement, Slotstap
  <1>4. Doelrijen(q)' = Doelrijen(q)
    BY <1>1 DEF Schreef, Doelrijen
  <1>5. Geschrift(q)'
    BY <1>1, <1>4 DEF Schreef, Geschrift, Slotstap
  <1>6. Weet(q)'
    <2>1. Vol(Wat(q).van)' = Vol(Wat(q).van)
      BY <1>1 DEF Schreef, Vol, BijlagenVan
    <2>2. /\ IsFiniteSet(Bezig) /\ verzoek'[q].pc # "nieuw" /\ Anders(q)
      BY <1>1 DEF Kern, Velden, Schreef
    <2>3. Begonnen \in Nat /\ Begonnen' \in Nat /\ Begonnen <= Begonnen'
      BY <1>0, <2>2, BegonnenGroeit
    <2>4. verzoek[q].op = "oordeel" => Wat(q).sinds < Begonnen'
      BY <1>2, <2>3 DEF Weet, Vraagt
    <2> QED BY <1>1, <1>2, <2>1, <2>4 DEF Schreef, Weet
  <1>7. "commit" \in Vervolg /\ bestanden' \subseteq Dossierbijlagen
    BY DEF Vervolg, Kern, Velden
  <1> QED BY <1>0, <1>1, <1>3, <1>5, <1>6, <1>7, VervolgStap

LEMMA WeigertStap ==
    ASSUME Kern, NEW q \in Verzoeken, Weigert(q),
           UNCHANGED <<rij, volgorde, gesloten, bestanden, samen>>, Ingediend \subseteq Ingediend'
    PROVE  Kern'
  BY EindeStap DEF Weigert, Rust

LEMMA AanDeBeurt ==
    ASSUME Kern, NEW q \in Verzoeken,
           verzoek[q].pc \in Beginnend \cup Slotstap \cup {"commit", "scherm"}
    PROVE  /\ q \in Lopend /\ Vraagt(q) /\ Statement(q) /\ Geschrift(q) /\ Rijen(q)
           /\ Nieuwe(q) /\ Weet(q)
  <1>1. q \in Lopend
    BY DEF Lopend, Beginnend, Slotstap
  <1> QED BY <1>1 DEF Kern, Lokaal

LEMMA InvoegenRijGoed ==
    ASSUME Kern, NEW q \in Verzoeken, InvoegenRij(q), UNCHANGED dvars,
           Ingediend \subseteq Ingediend'
    PROVE  Kern'
  <1>1. /\ verzoek[q].pc = "invoegen" /\ verzoek[q].op \in {"oordeel", "notitie"}
        /\ UNCHANGED <<rij, volgorde, gesloten, bestanden, samen>>
    BY DEF InvoegenRij, bvars, dvars
  <1>2. q \in Lopend /\ Geschreven(q) = {}
    BY <1>1, AanDeBeurt DEF Beginnend, Geschrift, Slotstap
  <1> DEFINE R == {Wat(q).doel}
             wordt == [o \in R |->
               IF verzoek[q].op = "oordeel"
               THEN [stand |-> "live", van |-> Wat(q).van, oordeel |-> Wat(q).waarde,
                     sinds |-> Wat(q).sinds]
               ELSE [stand |-> "live", van |-> Wat(q).van]]
  <1>3. Schrijft(q, R, wordt, "commit")
    BY DEF InvoegenRij
  <1>4. \A r \in R : RijGoed(q, r, wordt[r])
    BY <1>1 DEF RijGoed, Wijzigt
  <1>5. Geschreven(q) \cup R = Doelrijen(q)
    BY <1>1, <1>2 DEF Doelrijen
  <1> HIDE DEF wordt, R
  <1> QED BY <1>1, <1>2, <1>3, <1>4, <1>5, SchrijftLaatst

LEMMA IntrekkenRijGoed ==
    ASSUME Kern, NEW q \in Verzoeken, IntrekkenRij(q), UNCHANGED dvars,
           Ingediend \subseteq Ingediend'
    PROVE  Kern'
  <1>1. /\ verzoek[q].pc = "intrekken" /\ verzoek[q].op = "trekIn"
        /\ UNCHANGED <<rij, volgorde, gesloten, bestanden, samen>>
    BY DEF IntrekkenRij, bvars, dvars
  <1>2. q \in Lopend /\ Geschreven(q) = {}
    BY <1>1, AanDeBeurt DEF Beginnend, Geschrift, Slotstap
  <1>3. CASE rij[Wat(q).doel].stand = "live"
    <2> DEFINE R == {Wat(q).doel}
               wordt == [x \in R |-> [rij[Wat(q).doel] EXCEPT !.stand = "weg"]]
    <2>3. Schrijft(q, R, wordt, "commit")
      BY <1>3 DEF IntrekkenRij
    <2>4. \A r \in R : RijGoed(q, r, wordt[r])
      BY <1>1, <1>3 DEF RijGoed, Wijzigt
    <2>5. Geschreven(q) \cup R = Doelrijen(q)
      BY <1>1, <1>2 DEF Doelrijen
    <2> HIDE DEF wordt, R
    <2> QED BY <1>1, <1>2, <2>3, <2>4, <2>5, SchrijftLaatst
  <1>4. CASE rij[Wat(q).doel].stand # "live"
    BY <1>1, <1>4, WeigertStap DEF IntrekkenRij
  <1> QED BY <1>3, <1>4

LEMMA KoppelenRijGoed ==
    ASSUME Kern, NEW q \in Verzoeken, KoppelenRij(q), UNCHANGED dvars,
           Ingediend \subseteq Ingediend'
    PROVE  Kern'
  <1>1. /\ verzoek[q].pc = "koppelen" /\ UNCHANGED <<rij, volgorde, gesloten, bestanden, samen>>
    BY DEF KoppelenRij, bvars, dvars
  <1>2. q \in Lopend /\ Geschreven(q) = {} /\ verzoek[q].op = "koppel"
    BY <1>1, AanDeBeurt DEF Beginnend, Geschrift, Statement, Slotstap
  <1> DEFINE R == {Wat(q).doel}
             wordt == [x \in R |-> [stand |-> Wat(q).waarde]]
  <1>3. Schrijft(q, R, wordt, "commit")
    BY DEF KoppelenRij
  <1>4. \A r \in R : RijGoed(q, r, wordt[r])
    BY <1>2 DEF RijGoed, Wijzigt
  <1>5. Geschreven(q) \cup R = Doelrijen(q)
    BY <1>2 DEF Doelrijen
  <1> HIDE DEF wordt, R
  <1> QED BY <1>1, <1>2, <1>3, <1>4, <1>5, SchrijftLaatst

LEMMA SchrijfDossierNieuwGoed ==
    ASSUME Kern, NEW q \in Verzoeken, SchrijfDossierNieuw(q), Ingediend \subseteq Ingediend'
    PROVE  Kern'
  <1>1. /\ verzoek[q].pc = "dossierNieuw"
        /\ UNCHANGED <<rij, volgorde, gesloten, bestanden, samen>>
    BY DEF SchrijfDossierNieuw, Vaststaat, bvars, dvars
  <1>2. q \in Lopend /\ Geschreven(q) = {} /\ verzoek[q].op = "aanmaken" /\ Vraagt(q)
    BY <1>1, AanDeBeurt DEF Beginnend, Geschrift, Statement, Slotstap
  <1> DEFINE d == Wat(q).doel
             n == Wat(q).extra
             R == {d, n} \cup Wat(q).waarde
             wordt == [r \in R |->
               IF r = d THEN [GeenDossier EXCEPT !.stand = "live"]
               ELSE IF r = n THEN NieuweNotitie(d, FALSE) ELSE [stand |-> "live"]]
  <1>3. Schrijft(q, R, wordt, "commit")
    BY DEF SchrijfDossierNieuw
  <1>4. \A r \in R : RijGoed(q, r, wordt[r])
    BY <1>2 DEF RijGoed, Wijzigt
  <1>5. Geschreven(q) \cup R = Doelrijen(q)
    BY <1>2 DEF Doelrijen
  <1> HIDE DEF wordt, R
  <1> QED BY <1>1, <1>2, <1>3, <1>4, <1>5, SchrijftLaatst

LEMMA SchrijfDossierrijGoed ==
    ASSUME Kern, NEW q \in Verzoeken, SchrijfDossierrij(q), Ingediend \subseteq Ingediend'
    PROVE  Kern'
  <1>1. /\ verzoek[q].pc = "dossierrij"
        /\ UNCHANGED <<rij, volgorde, gesloten, bestanden, samen>>
    BY DEF SchrijfDossierrij, Vaststaat, bvars, dvars
  <1>2. q \in Lopend /\ Geschreven(q) = {} /\ verzoek[q].op = "dossiernotitie"
    BY <1>1, AanDeBeurt DEF Beginnend, Geschrift, Statement, Slotstap
  <1> DEFINE R == {Wat(q).doel}
             wordt == [r \in R |-> NieuweNotitie(Wat(q).van, FALSE)]
  <1>3. Schrijft(q, R, wordt, "commit")
    BY DEF SchrijfDossierrij
  <1>4. \A r \in R : RijGoed(q, r, wordt[r])
    BY <1>2 DEF RijGoed, Wijzigt
  <1>5. Geschreven(q) \cup R = Doelrijen(q)
    BY <1>2 DEF Doelrijen
  <1> HIDE DEF wordt, R
  <1> QED BY <1>1, <1>2, <1>3, <1>4, <1>5, SchrijftLaatst

LEMMA SchrijfLinkGoed ==
    ASSUME Kern, NEW q \in Verzoeken, SchrijfLink(q), Ingediend \subseteq Ingediend'
    PROVE  Kern'
  <1>1. /\ verzoek[q].pc = "link" /\ UNCHANGED <<rij, volgorde, gesloten, bestanden, samen>>
    BY DEF SchrijfLink, Vaststaat, bvars, dvars
  <1>2. q \in Lopend /\ Geschreven(q) = {} /\ verzoek[q].op = "link"
    BY <1>1, AanDeBeurt DEF Beginnend, Geschrift, Statement, Slotstap
  <1>3. CASE rij[Wat(q).doel].stand = "geen"
    <2> DEFINE R == {Wat(q).doel}
               wordt == [r \in R |-> [stand |-> "live"]]
    <2>3. Schrijft(q, R, wordt, "commit")
      BY <1>3 DEF SchrijfLink
    <2>4. \A r \in R : RijGoed(q, r, wordt[r])
      BY <1>2 DEF RijGoed, Wijzigt
    <2>5. Geschreven(q) \cup R = Doelrijen(q)
      BY <1>2 DEF Doelrijen
    <2> HIDE DEF wordt, R
    <2> QED BY <1>1, <1>2, <2>3, <2>4, <2>5, SchrijftLaatst
  <1>4. CASE rij[Wat(q).doel].stand # "geen"
    BY <1>1, <1>4, WeigertStap DEF SchrijfLink
  <1> QED BY <1>3, <1>4

LEMMA SchrijfRijWegGoed ==
    ASSUME Kern, NEW q \in Verzoeken, SchrijfRijWeg(q), Ingediend \subseteq Ingediend'
    PROVE  Kern'
  <1>1. /\ verzoek[q].pc = "rijWeg" /\ UNCHANGED <<rij, volgorde, gesloten, bestanden, samen>>
    BY DEF SchrijfRijWeg, Vaststaat, bvars, dvars
  <1>2. q \in Lopend /\ Geschreven(q) = {} /\ verzoek[q].op = "rijIntrekken"
    BY <1>1, AanDeBeurt DEF Beginnend, Geschrift, Statement, Slotstap
  <1>3. CASE rij[Wat(q).doel].stand = "live"
    <2> DEFINE R == {Wat(q).doel}
               wordt == [x \in R |-> [rij[Wat(q).doel] EXCEPT !.stand = "weg"]]
    <2>3. Schrijft(q, R, wordt, "commit")
      BY <1>3 DEF SchrijfRijWeg
    <2>4. \A r \in R : RijGoed(q, r, wordt[r])
      BY <1>2, <1>3 DEF RijGoed, Wijzigt
    <2>5. Geschreven(q) \cup R = Doelrijen(q)
      BY <1>2 DEF Doelrijen
    <2> HIDE DEF wordt, R
    <2> QED BY <1>1, <1>2, <2>3, <2>4, <2>5, SchrijftLaatst
  <1>4. CASE rij[Wat(q).doel].stand # "live"
    BY <1>1, <1>4, WeigertStap DEF SchrijfRijWeg
  <1> QED BY <1>3, <1>4

LEMMA SchrijfDossierGoed ==
    ASSUME Kern, NEW q \in Verzoeken, SchrijfDossier(q), Ingediend \subseteq Ingediend'
    PROVE  Kern'
  <1>1. /\ verzoek[q].pc = "dossier" /\ UNCHANGED <<rij, volgorde, gesloten, bestanden, samen>>
    BY DEF SchrijfDossier, Vaststaat, bvars, dvars
  <1>2. q \in Lopend /\ Geschreven(q) = {} /\ verzoek[q].op \in Wijzigt /\ Vraagt(q)
    BY <1>1, AanDeBeurt DEF Beginnend, Geschrift, Statement, Slotstap
  <1>3. CASE Wijzigbaar(Wat(q).doel, verzoek[q].op)
    <2> DEFINE d == Wat(q).doel
               n == Wat(q).extra
               R == {d, n} \ {Geen}
               wordt == [r \in R |-> IF r = d THEN Gewijzigd(d, verzoek[q].op)
                                     ELSE NieuweNotitie(d, TRUE)]
    <2>1. /\ d \in Dossierrijen /\ d # Geen
          /\ IF verzoek[q].op = "afronden" THEN n \in Dossiernotities /\ n # Geen ELSE n = Geen
      BY <1>2, DossiersSleutels DEF Vraagt, DossierSleutels
    <2>2. R = IF verzoek[q].op = "afronden" THEN {d, n} ELSE {d}
      BY <2>1
    <2>3. Schrijft(q, R, wordt, "commit")
      BY <1>3 DEF SchrijfDossier
    <2>4. \A r \in R : RijGoed(q, r, wordt[r])
      <3>1. verzoek[q].op \notin {"oordeel", "notitie", "trekIn", "rijIntrekken", "koppel", "link",
                                  "scherm", "dossiernotitie", "aanmaken", "bijlage"}
        BY <1>2 DEF Wijzigt
      <3>2. ASSUME NEW r \in R
            PROVE  \/ r = d /\ wordt[r] = Gewijzigd(r, verzoek[q].op)
                   \/ verzoek[q].op = "afronden" /\ r = n /\ wordt[r] = NieuweNotitie(d, TRUE)
        BY <2>2
      <3> QED BY <1>3, <3>1, <3>2 DEF RijGoed
    <2>5. Geschreven(q) \cup R = Doelrijen(q)
      BY <1>2, <2>2 DEF Doelrijen, Wijzigt
    <2>6. verzoek[q].op # "bijlage"
      BY <1>2 DEF Wijzigt
    <2> HIDE DEF wordt, R
    <2> QED BY <1>1, <1>2, <2>3, <2>4, <2>5, <2>6, SchrijftLaatst
  <1>4. CASE ~ Wijzigbaar(Wat(q).doel, verzoek[q].op)
    BY <1>1, <1>4, WeigertStap DEF SchrijfDossier
  <1> QED BY <1>3, <1>4

(* The lock: the row is written as it is.                                  *)
LEMMA VergrendelGoed ==
    ASSUME Kern, NEW q \in Verzoeken, Vergrendel(q), Ingediend \subseteq Ingediend'
    PROVE  Kern'
  <1>1. /\ verzoek[q].pc = "slot" /\ UNCHANGED <<rij, volgorde, gesloten, bestanden, samen>>
    BY DEF Vergrendel, Vaststaat, bvars, dvars
  <1>2. q \in Lopend /\ Geschreven(q) = {} /\ verzoek[q].op = "bijlage"
    BY <1>1, AanDeBeurt DEF Beginnend, Geschrift, Statement, Slotstap
  <1>3. CASE rij[Wat(q).van].stand = "live"
    <2> DEFINE R == {Wat(q).van}
               wordt == [r \in R |-> rij[Wat(q).van]]
    <2>3. Schrijft(q, R, wordt, "tel")
      BY <1>3 DEF Vergrendel
    <2>4. \A r \in R : RijGoed(q, r, wordt[r])
      BY <1>2, <1>3 DEF RijGoed, Wijzigt
    <2>a. R = {Wat(q).van}
      OBVIOUS
    <2> HIDE DEF wordt, R
    <2>5. Vorm' /\ Slot' /\ Schreef(q, R, "tel") /\ Rijen(q)'
      BY <1>1, <1>2, <2>3, <2>4, SchreefFeit
    <2>6. Statement(q)' /\ Geschrift(q)' /\ Weet(q)'
      BY <1>2, <2>a, <2>5 DEF Schreef, Statement, Geschrift, Weet, Slotstap
    <2>7. "tel" \in Vervolg /\ bestanden' \subseteq Dossierbijlagen
      BY <1>1 DEF Vervolg, Slotstap, Kern, Velden
    <2> QED BY <1>1, <2>5, <2>6, <2>7, VervolgStap
  <1>4. CASE rij[Wat(q).van].stand # "live"
    BY <1>1, <1>4, WeigertStap DEF Vergrendel
  <1> QED BY <1>3, <1>4

(* A next statement without a write.                                       *)
LEMMA NaarGedaan ==
    ASSUME Kern, NEW q \in Lopend, NEW pc, Naar(q, pc), rij' = rij
    PROVE  Vorm' /\ Slot' /\ Schreef(q, {}, pc) /\ Rijen(q)'
  <1>0. q \in Verzoeken
    BY DEF Lopend
  <1>1. /\ Vorm' /\ Anders(q) /\ verzoek'[q].pc = pc /\ verzoek'[q].op = verzoek[q].op
        /\ Wat(q)' = Wat(q) /\ verzoek'[q].schrijf = verzoek[q].schrijf
    BY <1>0, NaarFeit DEF Kern, Wat
  <1>2. Slot'
    BY <1>0, <1>1, SlotBlijft DEF Kern
  <1>3. \A r \in Geschreven(q) : RijGoed(q, r, verzoek[q].schrijf[r])
    BY <1>0 DEF Kern, Lokaal, Rijen, Wordt
  <1>4. \A r, w : RijGoed(q, r, w) => RijGoed(q, r, w)'
    BY <1>1, RijGoedBlijft
  <1>5. Rijen(q)'
    BY <1>1, <1>3, <1>4 DEF Rijen, Geschreven, Wordt
  <1> QED BY <1>1, <1>2, <1>5 DEF Schreef, Geschreven

LEMMA TelBijlagenGoed ==
    ASSUME Kern, NEW q \in Verzoeken, TelBijlagen(q), Ingediend \subseteq Ingediend'
    PROVE  Kern'
  <1>1. /\ verzoek[q].pc = "tel" /\ UNCHANGED <<rij, volgorde, gesloten, bestanden, samen>>
    BY DEF TelBijlagen, Vaststaat, bvars, dvars
  <1>2. q \in Lopend /\ Geschreven(q) = {Wat(q).van} /\ verzoek[q].op = "bijlage"
    BY <1>1, AanDeBeurt DEF Geschrift, Statement, Slotstap
  <1>3. CASE ~ Vol(Wat(q).van)
    <2>1. Vorm' /\ Slot' /\ Schreef(q, {}, "bewaar") /\ Rijen(q)'
      BY <1>1, <1>2, <1>3, NaarGedaan DEF TelBijlagen
    <2>2. Vol(Wat(q).van)' = Vol(Wat(q).van)
      BY <1>1, <2>1 DEF Schreef, Vol, BijlagenVan
    <2>3. Statement(q)' /\ Geschrift(q)' /\ Weet(q)'
      BY <1>2, <1>3, <2>1, <2>2 DEF Schreef, Statement, Geschrift, Weet, Slotstap
    <2>4. "bewaar" \in Vervolg /\ bestanden' \subseteq Dossierbijlagen
      BY <1>1 DEF Vervolg, Slotstap, Kern, Velden
    <2> QED BY <1>1, <2>1, <2>3, <2>4, VervolgStap
  <1>4. CASE Vol(Wat(q).van)
    BY <1>1, <1>4, WeigertStap DEF TelBijlagen
  <1> QED BY <1>3, <1>4

LEMMA BewaarGoed ==
    ASSUME Kern, NEW q \in Verzoeken, Bewaar(q), Ingediend \subseteq Ingediend'
    PROVE  Kern'
  <1>1. /\ verzoek[q].pc = "bewaar" /\ UNCHANGED <<rij, volgorde, gesloten, samen>>
        /\ bestanden' = bestanden \cup {Wat(q).doel}
    BY DEF Bewaar, bvars
  <1>2. /\ q \in Lopend /\ Geschreven(q) = {Wat(q).van} /\ verzoek[q].op = "bijlage"
        /\ Wat(q).doel \in Dossierbijlagen /\ ~ Vol(Wat(q).van)
    BY <1>1, AanDeBeurt DEF Geschrift, Statement, Slotstap, Vraagt, Weet
  <1>3. Vorm' /\ Slot' /\ Schreef(q, {}, "bijlage") /\ Rijen(q)'
    BY <1>1, <1>2, NaarGedaan DEF Bewaar
  <1>4. Vol(Wat(q).van)' = Vol(Wat(q).van)
    BY <1>1, <1>3 DEF Schreef, Vol, BijlagenVan
  <1>5. Statement(q)' /\ Geschrift(q)' /\ Weet(q)'
    BY <1>1, <1>2, <1>3, <1>4 DEF Schreef, Statement, Geschrift, Weet, Slotstap
  <1>6. "bijlage" \in Vervolg /\ bestanden' \subseteq Dossierbijlagen
    BY <1>1, <1>2 DEF Vervolg, Slotstap, Kern, Velden
  <1> QED BY <1>1, <1>3, <1>5, <1>6, VervolgStap

LEMMA SchrijfBijlageGoed ==
    ASSUME Kern, NEW q \in Verzoeken, SchrijfBijlage(q), Ingediend \subseteq Ingediend'
    PROVE  Kern'
  <1>1. /\ verzoek[q].pc = "bijlage" /\ UNCHANGED <<rij, volgorde, gesloten, bestanden, samen>>
    BY DEF SchrijfBijlage, Vaststaat, bvars, dvars
  <1>2. /\ q \in Lopend /\ Geschreven(q) = {Wat(q).van} /\ verzoek[q].op = "bijlage"
        /\ ~ Vol(Wat(q).van) /\ Wat(q).doel \in bestanden
    BY <1>1, AanDeBeurt DEF Geschrift, Statement, Slotstap, Weet
  <1> DEFINE R == {Wat(q).doel}
             wordt == [r \in R |-> [stand |-> "live", van |-> Wat(q).van]]
  <1>3. Schrijft(q, R, wordt, "commit")
    BY DEF SchrijfBijlage
  <1>4. \A r \in R : RijGoed(q, r, wordt[r])
    BY <1>2 DEF RijGoed, Wijzigt
  <1>5. Geschreven(q) \cup R = Doelrijen(q)
    BY <1>2 DEF Doelrijen
  <1> HIDE DEF wordt, R
  <1> QED BY <1>1, <1>2, <1>3, <1>4, <1>5, SchrijftLaatst

(* Reading a screen, and the end of one.                                   *)
LEMMA SchermGoed ==
    ASSUME Kern, NEW q \in Verzoeken, LeesOverzicht(q) \/ LeesRonde(q) \/ ToonScherm(q),
           UNCHANGED dvars, Ingediend \subseteq Ingediend'
    PROVE  Kern'
  <1>1. UNCHANGED <<rij, volgorde, gesloten, bestanden, samen>>
    BY DEF LeesOverzicht, LeesRonde, ToonScherm, dvars
  <1>2. CASE LeesOverzicht(q) \/ LeesRonde(q)
    BY <1>1, <1>2, Stilstand DEF LeesOverzicht, LeesRonde
  <1>3. CASE ToonScherm(q)
    BY <1>1, <1>3, EindeStap DEF ToonScherm, Rust
  <1> QED BY <1>2, <1>3

-----------------------------------------------------------------------------
(* COMMIT: what becomes of the rows of each table.                         *)

(* The rows a request wrote become what it wrote, the others stay.         *)
Komt(q) ==
    /\ Anders(q) /\ q \in Lopend /\ q \notin Lopend' /\ verzoek'[q].pc = "klaar"
    /\ Vraagt(q) /\ Nieuwe(q) /\ Weet(q) /\ verzoek[q].pc = "commit"
    /\ Geschreven(q) = Doelrijen(q) /\ Geschreven(q)' = {}
    /\ rij' = [r \in Alle |-> rij'[r]]
    /\ \A r \in Alle : IF r \in Geschreven(q) THEN RijGoed(q, r, rij'[r]) ELSE rij'[r] = rij[r]

LEMMA KomtFeit ==
    ASSUME Kern, NEW q \in Verzoeken, Commit(q)
    PROVE  Vorm' /\ Slot' /\ Komt(q)
  <1>1. /\ Vorm' /\ Anders(q) /\ verzoek[q].pc = "commit"
        /\ verzoek'[q].pc = "klaar" /\ DOMAIN verzoek'[q].schrijf = {}
        /\ rij' = [r \in DOMAIN rij |-> Zicht(q)[r]]
        /\ \A r \in DOMAIN rij : rij'[r] = Zicht(q)[r]
    BY CommitFeit DEF Kern
  <1>2. DOMAIN rij = Alle
    BY DEF Kern, Velden
  <1>3. \A r \in Alle : rij'[r] = IF r \in Geschreven(q) THEN Wordt(q, r) ELSE rij[r]
    BY <1>1, <1>2, ZichtFeit DEF Geschreven, Wordt
  <1>4. /\ q \in Lopend /\ Vraagt(q) /\ Statement(q) /\ Geschrift(q) /\ Rijen(q)
        /\ Nieuwe(q) /\ Weet(q)
    BY <1>1, AanDeBeurt
  <1>5. \A r \in Alle : IF r \in Geschreven(q) THEN RijGoed(q, r, rij'[r]) ELSE rij'[r] = rij[r]
    BY <1>3, <1>4 DEF Rijen
  <1>6. Slot'
    BY <1>1, SlotBlijft DEF Kern
  <1>7. q \notin Lopend'
    BY <1>1 DEF Lopend
  <1>8. Geschreven(q) = Doelrijen(q) /\ Geschreven(q)' = {}
    BY <1>1, <1>4 DEF Geschrift, Geschreven
  <1>9. rij' = [r \in Alle |-> rij'[r]]
    BY <1>1, <1>2
  <1> QED BY <1>1, <1>4, <1>5, <1>6, <1>7, <1>8, <1>9 DEF Komt

LEMMA KomtOordeel ==
    ASSUME Kern, NEW q, Komt(q), NEW o \in Oordelen
    PROVE  \/ rij'[o] = rij[o] /\ (verzoek[q].op = "oordeel" => o # Wat(q).doel)
           \/ /\ verzoek[q].op = "trekIn" /\ rij[o].stand = "live"
              /\ rij'[o].stand = "weg" /\ rij'[o].van = rij[o].van /\ rij'[o].sinds = rij[o].sinds
           \/ /\ verzoek[q].op = "oordeel" /\ o = Wat(q).doel
              /\ rij'[o] = [stand |-> "live", van |-> Wat(q).van, oordeel |-> Wat(q).waarde,
                            sinds |-> Wat(q).sinds]
  <1>0. o \in Alle /\ Vraagt(q)
    BY DEF Alle, Komt
  <1>1. CASE o \notin Geschreven(q)
    BY <1>0, <1>1 DEF Komt, Doelrijen
  <1>2. CASE o \in Geschreven(q)
    <2>1. RijGoed(q, o, rij'[o])
      BY <1>0, <1>2 DEF Komt
    <2>2. o \notin Notities \cup Beoordelaars \cup DossierSleutels
      BY DossiersSleutels
    <2>3. verzoek[q].op \in {"oordeel", "trekIn"}
      BY <1>0, <2>1, <2>2 DEF RijGoed, Vraagt, DossierSleutels
    <2>4. CASE verzoek[q].op = "oordeel"
      BY <2>1, <2>4 DEF RijGoed
    <2>5. CASE verzoek[q].op = "trekIn"
      <3>1. rij[o].stand = "live" /\ rij'[o] = [rij[o] EXCEPT !.stand = "weg"]
        BY <2>1, <2>5 DEF RijGoed
      <3>2. rij[o] \in RijSoort(o)
        BY <1>0 DEF Kern, Velden
      <3> QED BY <2>5, <3>1, <3>2, WegGoed
    <2> QED BY <2>3, <2>4, <2>5
  <1> QED BY <1>1, <1>2

LEMMA KomtBijlage ==
    ASSUME Kern, NEW q, Komt(q), NEW b \in Dossierbijlagen
    PROVE  \/ rij'[b] = rij[b]
           \/ rij[b].stand = "live" /\ rij'[b].stand = "weg" /\ rij'[b].van = rij[b].van
           \/ /\ verzoek[q].op = "bijlage" /\ b = Wat(q).doel
              /\ rij'[b] = [stand |-> "live", van |-> Wat(q).van]
  <1>0. b \in Alle /\ Vraagt(q)
    BY DEF Alle, Komt, DossierSleutels
  <1>1. CASE b \notin Geschreven(q)
    BY <1>0, <1>1 DEF Komt
  <1>2. CASE b \in Geschreven(q)
    <2>1. RijGoed(q, b, rij'[b])
      BY <1>0, <1>2 DEF Komt
    <2>2. b \notin Oordelen \cup Notities \cup Beoordelaars \cup Dossierrijen \cup Dossiernotities
                     \cup Dossierlinks
      BY DossiersSleutels DEF DossierSleutels
    <2>3. verzoek[q].op \in {"bijlage", "rijIntrekken"}
      BY <1>0, <2>1, <2>2 DEF RijGoed, Vraagt
    <2>4. CASE verzoek[q].op = "bijlage"
      BY <1>0, <2>1, <2>2, <2>4 DEF RijGoed, Vraagt
    <2>5. CASE verzoek[q].op = "rijIntrekken"
      <3>1. rij[b].stand = "live" /\ rij'[b] = [rij[b] EXCEPT !.stand = "weg"]
        BY <2>1, <2>5 DEF RijGoed
      <3>2. rij[b] \in RijSoort(b)
        BY <1>0 DEF Kern, Velden
      <3> QED BY <3>1, <3>2, WegGoed
    <2> QED BY <2>3, <2>4, <2>5
  <1> QED BY <1>1, <1>2

LEMMA KomtNotitie ==
    ASSUME Kern, NEW q, Komt(q), NEW n \in Dossiernotities
    PROVE  \/ rij'[n] = rij[n] /\ (verzoek[q].op = "afronden" => n # Wat(q).extra)
           \/ /\ verzoek[q].op = "rijIntrekken" /\ rij[n].stand = "live" /\ rij'[n].stand = "weg"
              /\ rij'[n].van = rij[n].van /\ rij'[n].uitkomst = rij[n].uitkomst
           \/ /\ n \in Nieuw(q) /\ verzoek[q].op \in {"aanmaken", "dossiernotitie", "afronden"}
              /\ verzoek[q].op = "afronden" => n = Wat(q).extra
              /\ rij'[n] = NieuweNotitie(Wat(q).van, verzoek[q].op = "afronden")
  <1>0. n \in Alle /\ Vraagt(q)
    BY DEF Alle, Komt, DossierSleutels
  <1>1. CASE n \notin Geschreven(q)
    BY <1>0, <1>1 DEF Komt, Doelrijen
  <1>2. CASE n \in Geschreven(q)
    <2>1. RijGoed(q, n, rij'[n])
      BY <1>0, <1>2 DEF Komt
    <2>2. n \notin Oordelen \cup Notities \cup Beoordelaars \cup Dossierrijen \cup Dossierbijlagen
                     \cup Dossierlinks
      BY DossiersSleutels DEF DossierSleutels
    <2>3. verzoek[q].op \in {"aanmaken", "dossiernotitie", "afronden", "rijIntrekken"}
      BY <1>0, <2>1, <2>2 DEF RijGoed, Vraagt
    <2>4. CASE verzoek[q].op = "aanmaken"
      <3>1. n = Wat(q).extra /\ rij'[n] = NieuweNotitie(Wat(q).doel, FALSE)
            /\ Wat(q).van = Wat(q).doel
        BY <1>0, <2>1, <2>2, <2>4 DEF RijGoed, Vraagt
      <3>2. n \in Nieuw(q) /\ (verzoek[q].op = "afronden") = FALSE
        BY <2>4, <3>1 DEF Nieuw
      <3> QED BY <2>4, <3>1, <3>2
    <2>5. CASE verzoek[q].op = "dossiernotitie"
      <3>1. n \in Nieuw(q) /\ (verzoek[q].op = "afronden") = FALSE
            /\ rij'[n] = NieuweNotitie(Wat(q).van, FALSE)
        BY <2>1, <2>5 DEF Nieuw, RijGoed
      <3> QED BY <2>5, <3>1
    <2>6. CASE verzoek[q].op = "afronden"
      <3>1. n = Wat(q).extra /\ rij'[n] = NieuweNotitie(Wat(q).doel, TRUE)
            /\ Wat(q).van = Wat(q).doel
        BY <1>0, <2>1, <2>2, <2>6 DEF RijGoed, Vraagt, Wijzigt
      <3>2. n \in Nieuw(q) /\ (verzoek[q].op = "afronden") = TRUE
        BY <2>6, <3>1 DEF Nieuw
      <3> QED BY <2>6, <3>1, <3>2
    <2>7. CASE verzoek[q].op = "rijIntrekken"
      <3>1. rij[n].stand = "live" /\ rij'[n] = [rij[n] EXCEPT !.stand = "weg"]
        BY <2>1, <2>7 DEF RijGoed
      <3>2. rij[n] \in RijSoort(n)
        BY <1>0 DEF Kern, Velden
      <3> QED BY <2>7, <3>1, <3>2, WegGoed
    <2> QED BY <2>3, <2>4, <2>5, <2>6, <2>7
  <1> QED BY <1>1, <1>2

LEMMA KomtDossier ==
    ASSUME Kern, NEW q, Komt(q), NEW d \in Dossierrijen
    PROVE  \/ rij'[d] = rij[d]
           \/ /\ verzoek[q].op = "aanmaken" /\ d = Wat(q).van /\ rij[d].stand = "geen"
              /\ rij'[d] = [GeenDossier EXCEPT !.stand = "live"]
           \/ /\ verzoek[q].op \in Wijzigt /\ d = Wat(q).van
              /\ Wijzigbaar(d, verzoek[q].op) /\ rij'[d] = Gewijzigd(d, verzoek[q].op)
  <1>0. d \in Alle /\ Vraagt(q)
    BY DEF Alle, Komt, DossierSleutels
  <1>1. CASE d \notin Geschreven(q)
    BY <1>0, <1>1 DEF Komt
  <1>2. CASE d \in Geschreven(q)
    <2>1. RijGoed(q, d, rij'[d])
      BY <1>0, <1>2 DEF Komt
    <2>2. d \notin Oordelen \cup Notities \cup Beoordelaars \cup Dossiernotities
                     \cup Dossierbijlagen \cup Dossierlinks
      BY DossiersSleutels DEF DossierSleutels
    <2>3. verzoek[q].op \in {"aanmaken", "bijlage"} \cup Wijzigt
      BY <1>0, <2>1, <2>2 DEF RijGoed, Vraagt
    <2>4. CASE verzoek[q].op = "aanmaken"
      <3>1. /\ d = Wat(q).doel /\ Wat(q).van = Wat(q).doel
            /\ rij'[d] = [GeenDossier EXCEPT !.stand = "live"]
        BY <1>0, <2>1, <2>2, <2>4 DEF RijGoed, Vraagt
      <3>2. rij[d].stand = "geen"
        BY <2>4, <3>1 DEF Komt, Nieuwe, Nieuw
      <3> QED BY <2>4, <3>1, <3>2
    <2>5. CASE verzoek[q].op = "bijlage"
      BY <1>0, <2>1, <2>2, <2>5 DEF RijGoed, Vraagt
    <2>6. CASE verzoek[q].op \in Wijzigt
      BY <1>0, <2>1, <2>2, <2>6 DEF RijGoed, Vraagt
    <2> QED BY <2>3, <2>4, <2>5, <2>6
  <1> QED BY <1>1, <1>2

-----------------------------------------------------------------------------
(* COMMIT: what it leaves the other requests.                              *)

LEMMA NieuweBlijven ==
    ASSUME Kern, NEW q \in Verzoeken, Komt(q), NEW p \in Lopend, p # q, NEW r \in Nieuw(p)
    PROVE  rij'[r] = rij[r]
  <1>0. Vraagt(p) /\ Nieuwe(p) /\ Vraagt(q) /\ q \in Lopend
    BY DEF Kern, Lokaal, Lopend, Komt
  <1>1. r \in Oordelen \cup Notities \cup Dossierrijen \cup Dossiernotities \cup Dossierbijlagen
    BY <1>0 DEF Vraagt, Nieuw, Wijzigt
  <1>2. r \notin Beoordelaars \cup Dossierlinks /\ r \in Alle
    BY <1>1, DossiersSleutels DEF DossierSleutels, Alle
  <1>3. rij[r].stand = "geen" /\ r \notin Nieuw(q)
    BY <1>0 DEF Nieuwe, Kern, EigenSleutels
  <1>4. ASSUME NEW w, RijGoed(q, r, w)
        PROVE  FALSE
    <2>1. CASE verzoek[q].op \in {"oordeel", "notitie", "dossiernotitie"}
      BY <1>3, <1>4, <2>1 DEF RijGoed, Nieuw
    <2>2. CASE verzoek[q].op \in {"trekIn", "rijIntrekken"}
      BY <1>3, <1>4, <2>2 DEF RijGoed
    <2>3. CASE verzoek[q].op \in {"koppel", "link"}
      BY <1>0, <1>2, <1>4, <2>3 DEF RijGoed, Vraagt
    <2>4. CASE verzoek[q].op = "aanmaken"
      BY <1>0, <1>2, <1>3, <1>4, <2>4 DEF RijGoed, Vraagt, Nieuw
    <2>5. CASE verzoek[q].op = "bijlage"
      BY <1>3, <1>4, <2>5 DEF RijGoed, Nieuw
    <2>6. CASE verzoek[q].op \in Wijzigt
      BY <1>3, <1>4, <2>6 DEF RijGoed, Nieuw, Wijzigbaar, Wijzigt
    <2>7. verzoek[q].op # "scherm"
      BY <1>4 DEF RijGoed
    <2> QED BY <1>0, <2>1, <2>2, <2>3, <2>4, <2>5, <2>6, <2>7 DEF Vraagt
  <1> QED BY <1>2, <1>4 DEF Komt

LEMMA NietVoller ==
    ASSUME Kern, NEW q \in Verzoeken, Komt(q), NEW d \in Dossierrijen,
           verzoek[q].op = "bijlage" => d # Wat(q).van
    PROVE  /\ IsFiniteSet(BijlagenVan(d)') /\ Cardinality(BijlagenVan(d)') <= Cardinality(BijlagenVan(d))
           /\ Vol(d)' => Vol(d)
  <1>1. ASSUME NEW b \in BijlagenVan(d)'
        PROVE  b \in BijlagenVan(d)
    <2>1. b \in Dossierbijlagen /\ rij'[b].stand = "live" /\ rij'[b].van = d
      BY DEF BijlagenVan
    <2>2. \/ rij'[b] = rij[b]
          \/ rij[b].stand = "live" /\ rij'[b].stand = "weg" /\ rij'[b].van = rij[b].van
          \/ /\ verzoek[q].op = "bijlage" /\ b = Wat(q).doel
             /\ rij'[b] = [stand |-> "live", van |-> Wat(q).van]
      BY <2>1, KomtBijlage
    <2> QED BY <2>1, <2>2 DEF BijlagenVan
  <1>2. IsFiniteSet(BijlagenVan(d))
    BY DEF Kern, Dossierinhoud
  <1>3. IsFiniteSet(BijlagenVan(d)') /\ Cardinality(BijlagenVan(d)') <= Cardinality(BijlagenVan(d))
    BY <1>1, <1>2, FS_Subset
  <1>4. Cardinality(BijlagenVan(d)) \in Nat /\ Cardinality(BijlagenVan(d)') \in Nat
    BY <1>2, <1>3, FS_CardinalityType
  <1> QED BY <1>3, <1>4, DossiersMaximum DEF Vol

LEMMA AnderWeet ==
    ASSUME Kern, NEW q \in Verzoeken, Komt(q), NEW p \in Lopend, p # q,
           UNCHANGED <<samen, bestanden>>, Ingediend \subseteq Ingediend'
    PROVE  Weet(p)'
  <1>0. /\ Vraagt(p) /\ Statement(p) /\ Geschrift(p) /\ Weet(p) /\ verzoek'[p] = verzoek[p]
        /\ Wat(p)' = Wat(p)
        /\ q \in Lopend /\ verzoek[q].op # "scherm"
    <2>1. /\ Vraagt(p) /\ Statement(p) /\ Geschrift(p) /\ Weet(p) /\ verzoek'[p] = verzoek[p]
      BY DEF Kern, Lokaal, Lopend, Komt, Anders
    <2>2. q \in Lopend /\ Statement(q) /\ verzoek[q].pc = "commit"
      BY DEF Kern, Lokaal, Lopend, Komt
    <2> QED BY <2>1, <2>2 DEF Statement, Wat
  <1>1. ASSUME verzoek[p].op # "scherm", Wat(p).van = Wat(q).van
        PROVE  Wat(p).van \in samen
    BY <1>0, <1>1 DEF Kern, Alleen
  <1>2. /\ Begonnen \in Nat /\ Begonnen' \in Nat /\ Begonnen <= Begonnen'
    BY BegonnenGroeit DEF Kern, Velden, Komt
  <1>3. ASSUME verzoek[p].op = "oordeel"
        PROVE  /\ Wat(p).van \in Ingediend' /\ Wat(p).sinds < Begonnen'
               /\ Wat(p).van \notin samen =>
                    \A o \in Oordelen : rij'[o].stand # "geen" /\ rij'[o].van = Wat(p).van
                                        => rij'[o].sinds < Wat(p).sinds
    <2>1. Wat(p).van \in Ingediend' /\ Wat(p).sinds < Begonnen'
      BY <1>0, <1>2, <1>3 DEF Weet, Vraagt
    <2>2. ASSUME Wat(p).van \notin samen, NEW o \in Oordelen, rij'[o].stand # "geen",
                 rij'[o].van = Wat(p).van
          PROVE  rij'[o].sinds < Wat(p).sinds
      <3>1. CASE rij'[o] = rij[o]
        BY <1>0, <1>3, <2>2, <3>1 DEF Weet
      <3>2. CASE rij[o].stand = "live" /\ rij'[o].van = rij[o].van /\ rij'[o].sinds = rij[o].sinds
        BY <1>0, <1>3, <2>2, <3>2 DEF Weet
      <3>3. rij'[o] # [stand |-> "live", van |-> Wat(q).van, oordeel |-> Wat(q).waarde,
                       sinds |-> Wat(q).sinds]
        BY <1>1, <1>3, <2>2
      <3> QED BY <3>1, <3>2, <3>3, KomtOordeel
    <2> QED BY <2>1, <2>2
  <1>4. ASSUME verzoek[p].op = "dossiernotitie", Wat(p).van \notin samen
        PROVE  rij'[Wat(p).van].stand = "live"
    <2>1. Wat(p).van \in Dossierrijen /\ rij[Wat(p).van].stand = "live"
      BY <1>0, <1>4 DEF Vraagt, Weet
    <2>2. Wat(p).van # Wat(q).van
      BY <1>1, <1>4
    <2> QED BY <2>1, <2>2, KomtDossier
  <1>5. ASSUME verzoek[p].op = "bijlage", verzoek[p].pc \in Slotstap \cup {"commit"},
               ~ Vol(Wat(p).van)
        PROVE  ~ Vol(Wat(p).van)'
    <2>1. Wat(p).van \in Dossierrijen /\ Wat(p).van \in Geschreven(p)
      BY <1>0, <1>5 DEF Vraagt, Geschrift, Doelrijen
    <2>2. Wat(p).van \notin Geschreven(q)
      BY <2>1 DEF Kern, Slot, Geschreven, Lopend
    <2>3. verzoek[q].op = "bijlage" => Wat(p).van # Wat(q).van
      BY <2>2 DEF Komt, Doelrijen
    <2>4. \A d \in Dossierrijen :
            Vol(d)' => Vol(d) \/ (verzoek[q].op = "bijlage" /\ d = Wat(q).van)
      BY NietVoller
    <2> QED BY <1>0, <1>5, <2>1, <2>3, <2>4 DEF Vol, BijlagenVan
  <1>6. verzoek[p].pc \in Slotstap => verzoek[p].op = "bijlage"
    BY <1>0 DEF Statement
  <1> QED BY <1>0, <1>3, <1>4, <1>5, <1>6 DEF Weet, Slotstap

LEMMA AnderLokaal ==
    ASSUME Kern, NEW q \in Verzoeken, Komt(q), NEW p \in Verzoeken, p # q,
           UNCHANGED <<samen, bestanden>>, Ingediend \subseteq Ingediend'
    PROVE  Lokaal(p)'
  <1>1. /\ verzoek'[p] = verzoek[p] /\ Wat(p)' = Wat(p) /\ (p \in Lopend') = (p \in Lopend)
        /\ Geschreven(p)' = Geschreven(p) /\ Lokaal(p)
    BY DEF Kern, Komt, Anders, Wat, Lopend, Geschreven
  <1>2. p \notin Lopend => Geschreven(p)' = {}
    BY <1>1 DEF Lokaal
  <1>3. ASSUME p \in Lopend
        PROVE  /\ Vraagt(p)' /\ Statement(p)' /\ Geschrift(p)'
               /\ Rijen(p)' /\ Nieuwe(p)' /\ Weet(p)'
    <2>1. /\ Vraagt(p) /\ Statement(p) /\ Geschrift(p) /\ Rijen(p) /\ Nieuwe(p)
      BY <1>1, <1>3 DEF Lokaal
    <2>2. Vraagt(p)' /\ Statement(p)'
      BY <1>1, <2>1 DEF Vraagt, Statement
    <2>3. Geschrift(p)'
      BY <1>1, <2>1 DEF Geschrift, Doelrijen
    <2>4. Rijen(p)'
      <3>1. ASSUME NEW r \in Geschreven(p)
            PROVE  RijGoed(p, r, verzoek[p].schrijf[r])'
        <4>1. RijGoed(p, r, verzoek[p].schrijf[r])
          BY <2>1 DEF Rijen, Wordt
        <4>2. r \in Alle /\ r \notin Geschreven(q)
          BY <2>1, <4>1, GeschrevenSoort DEF Kern, Slot, Geschreven
        <4>3. rij'[r] = rij[r]
          BY <4>2 DEF Komt
        <4>4. \A w : RijGoed(p, r, w) => RijGoed(p, r, w)'
          BY <1>1, <4>3, DezeRijGoedBlijft
        <4>5. \A w : w = verzoek[p].schrijf[r] => RijGoed(p, r, w)'
          BY <4>1, <4>4
        <4> QED BY <1>1, <4>5
      <3> QED BY <1>1, <3>1 DEF Rijen, Wordt
    <2>5. Nieuwe(p)'
      BY <1>1, <1>3, <2>1, NieuweBlijven DEF Nieuwe, Nieuw
    <2>6. Weet(p)'
      BY <1>3, AnderWeet
    <2> QED BY <2>2, <2>3, <2>4, <2>5, <2>6
  <1> QED BY <1>1, <1>2, <1>3 DEF Lokaal

-----------------------------------------------------------------------------
(* COMMIT: what it leaves in the tables.                                   *)

LEMMA OudOordeel ==
    ASSUME Kern, NEW q \in Verzoeken, Komt(q), NEW o \in Oordelen, rij[o].stand # "geen"
    PROVE  rij'[o].stand # "geen" /\ rij'[o].van = rij[o].van /\ rij'[o].sinds = rij[o].sinds
  <1>1. ~ (verzoek[q].op = "oordeel" /\ o = Wat(q).doel)
    BY DEF Komt, Nieuwe, Nieuw
  <1> QED BY <1>1, KomtOordeel

LEMMA NieuwOordeel ==
    ASSUME Kern, NEW q \in Verzoeken, Komt(q), verzoek[q].op = "oordeel"
    PROVE  /\ Wat(q).doel \in Oordelen
           /\ rij'[Wat(q).doel] = [stand |-> "live", van |-> Wat(q).van, oordeel |-> Wat(q).waarde,
                                   sinds |-> Wat(q).sinds]
  <1>1. Wat(q).doel \in Oordelen /\ Wat(q).doel \in Geschreven(q)
    BY DEF Komt, Vraagt, Doelrijen
  <1>2. RijGoed(q, Wat(q).doel, rij'[Wat(q).doel])
    BY <1>1 DEF Komt, Alle
  <1> QED BY <1>1, <1>2 DEF RijGoed

LEMMA OordelenVast ==
    ASSUME Kern, NEW q \in Verzoeken, Komt(q), UNCHANGED samen, Ingediend \subseteq Ingediend',
           volgorde' = IF verzoek[q].op = "oordeel" THEN Append(volgorde, Wat(q).doel) ELSE volgorde
    PROVE  Oordeelrijen' /\ volgorde' \in Seq(Oordelen)
  <1>1. /\ Begonnen \in Nat /\ Begonnen' \in Nat /\ Begonnen <= Begonnen'
    BY BegonnenGroeit DEF Kern, Velden, Komt
  <1>2. /\ volgorde \in Seq(Oordelen) /\ Len(volgorde) \in Nat
        /\ \A i \in 1..Len(volgorde) : volgorde[i] \in Oordelen /\ rij[volgorde[i]].stand # "geen"
    BY DEF Kern, Velden, Oordeelrijen
  <1>3. \A o \in Oordelen : rij[o].sinds < Begonnen => rij[o].sinds < Begonnen'
    BY <1>1, RijVelden DEF Kern
  <1>4. CASE verzoek[q].op # "oordeel"
    <2>1. volgorde' = volgorde
      BY <1>4
    <2>2. \A o \in Oordelen : rij'[o].stand # "geen" => rij[o].stand # "geen"
      BY <1>4, KomtOordeel
    <2>3. \A o \in Oordelen : rij'[o].stand # "geen" =>
            /\ rij'[o].van \in Ingediend' /\ rij'[o].sinds < Begonnen'
            /\ \E i \in 1..Len(volgorde') : volgorde'[i] = o
      BY <1>3, <2>1, <2>2, OudOordeel DEF Kern, Oordeelrijen
    <2>4. \A i \in 1..Len(volgorde') : rij'[volgorde'[i]].stand # "geen"
      BY <1>2, <2>1, OudOordeel
    <2>5. \A i, j \in 1..Len(volgorde') :
            i < j /\ rij'[volgorde'[i]].van = rij'[volgorde'[j]].van
              /\ rij'[volgorde'[i]].van \notin samen'
            => rij'[volgorde'[i]].sinds < rij'[volgorde'[j]].sinds
      <3>1. \A i \in 1..Len(volgorde) :
              /\ rij'[volgorde[i]].van = rij[volgorde[i]].van
              /\ rij'[volgorde[i]].sinds = rij[volgorde[i]].sinds
        BY <1>2, OudOordeel
      <3> QED BY <2>1, <3>1 DEF Kern, Oordeelrijen
    <2> QED BY <1>2, <2>1, <2>3, <2>4, <2>5 DEF Oordeelrijen
  <1>5. CASE verzoek[q].op = "oordeel"
    <2> DEFINE d == Wat(q).doel
               n == Len(volgorde) + 1
    <2>1. /\ d \in Oordelen /\ rij'[d].stand = "live" /\ rij'[d].van = Wat(q).van
          /\ rij'[d].sinds = Wat(q).sinds
      <3>1. \A r : r = [stand |-> "live", van |-> Wat(q).van, oordeel |-> Wat(q).waarde,
                        sinds |-> Wat(q).sinds]
              => r.stand = "live" /\ r.van = Wat(q).van /\ r.sinds = Wat(q).sinds
        OBVIOUS
      <3> QED BY <1>5, <3>1, NieuwOordeel
    <2>2. /\ volgorde' \in Seq(Oordelen) /\ Len(volgorde') = n /\ volgorde'[n] = d
          /\ \A i \in 1..Len(volgorde) : volgorde'[i] = volgorde[i]
      BY <1>2, <1>5, <2>1, AppendProperties
    <2>3. /\ Wat(q).van \in Ingediend' /\ Wat(q).sinds < Begonnen'
          /\ Wat(q).van \notin samen =>
               \A o \in Oordelen : rij[o].stand # "geen" /\ rij[o].van = Wat(q).van
                                   => rij[o].sinds < Wat(q).sinds
      BY <1>1, <1>5 DEF Komt, Weet, Vraagt
    <2> HIDE DEF d, n
    <2>a. n = Len(volgorde) + 1 /\ n \in Nat
      BY <1>2 DEF n
    <2>4. 1..Len(volgorde') = (1..Len(volgorde)) \cup {n} /\ n \in 1..Len(volgorde')
      BY <1>2, <2>2, <2>a
    <2>5. ASSUME NEW o \in Oordelen, rij'[o].stand # "geen"
          PROVE  /\ rij'[o].van \in Ingediend' /\ rij'[o].sinds < Begonnen'
                 /\ \E i \in 1..Len(volgorde') : volgorde'[i] = o
      <3>1. CASE o = d
        BY <2>1, <2>2, <2>3, <2>4, <3>1
      <3>2. CASE o # d
        <4>1. rij[o].stand # "geen"
          BY <1>5, <2>5, <3>2, KomtOordeel DEF d
        <4>2. /\ rij[o].van \in Ingediend /\ rij[o].sinds < Begonnen
              /\ \E i \in 1..Len(volgorde) : volgorde[i] = o
          BY <4>1 DEF Kern, Oordeelrijen
        <4> QED BY <1>3, <2>2, <2>4, <4>1, <4>2, OudOordeel
      <3> QED BY <3>1, <3>2
    <2>6. \A i \in 1..Len(volgorde) :
            /\ rij'[volgorde'[i]].stand # "geen"
            /\ rij'[volgorde'[i]].van = rij[volgorde[i]].van
            /\ rij'[volgorde'[i]].sinds = rij[volgorde[i]].sinds
      BY <1>2, <2>2, OudOordeel
    <2>7. \A i \in 1..Len(volgorde') : rij'[volgorde'[i]].stand # "geen"
      BY <2>1, <2>2, <2>4, <2>6
    <2>8. ASSUME NEW i \in 1..Len(volgorde'), NEW j \in 1..Len(volgorde'), i < j,
                 rij'[volgorde'[i]].van = rij'[volgorde'[j]].van,
                 rij'[volgorde'[i]].van \notin samen
          PROVE  rij'[volgorde'[i]].sinds < rij'[volgorde'[j]].sinds
      <3>1. i \in 1..Len(volgorde)
        BY <1>2, <2>2, <2>8, <2>a
      <3>2. CASE j \in 1..Len(volgorde)
        <4>1. rij[volgorde[i]].sinds < rij[volgorde[j]].sinds
          BY <2>6, <2>8, <3>1, <3>2 DEF Kern, Oordeelrijen
        <4> QED BY <2>6, <3>1, <3>2, <4>1
      <3>3. CASE j = n
        <4>1. rij'[volgorde'[j]].van = Wat(q).van /\ rij'[volgorde'[j]].sinds = Wat(q).sinds
          BY <2>1, <2>2, <3>3
        <4>2. /\ volgorde[i] \in Oordelen /\ rij[volgorde[i]].stand # "geen"
              /\ rij[volgorde[i]].van = Wat(q).van /\ Wat(q).van \notin samen
          BY <1>2, <2>6, <2>8, <3>1, <4>1
        <4>3. rij[volgorde[i]].sinds < Wat(q).sinds
          BY <2>3, <4>2
        <4> QED BY <2>6, <3>1, <4>1, <4>3
      <3> QED BY <2>4, <3>2, <3>3
    <2> QED BY <2>2, <2>5, <2>7, <2>8 DEF Oordeelrijen
  <1> QED BY <1>4, <1>5

(* Attachments: one more only under the lock, and with room for it.        *)
LEMMA BijlagenVast ==
    ASSUME Kern, NEW q \in Verzoeken, Komt(q), UNCHANGED bestanden
    PROVE  /\ \A b \in Dossierbijlagen : rij'[b].stand # "geen" => b \in bestanden'
           /\ \A d \in Dossierrijen :
                /\ IsFiniteSet(BijlagenVan(d)')
                /\ Cardinality(BijlagenVan(d)') <= MAX_BIJLAGEN_PER_ENGAGEMENT
  <1>1. verzoek[q].op = "bijlage" => Wat(q).doel \in bestanden /\ ~ Vol(Wat(q).van)
    BY DEF Komt, Weet
  <1>2. ASSUME NEW b \in Dossierbijlagen, rij'[b].stand # "geen"
        PROVE  b \in bestanden'
    <2>1. rij[b].stand # "geen" => b \in bestanden
      BY DEF Kern, Dossierinhoud, Inhoud
    <2> QED BY <1>1, <1>2, <2>1, KomtBijlage
  <1>3. ASSUME NEW d \in Dossierrijen
        PROVE  /\ IsFiniteSet(BijlagenVan(d)')
               /\ Cardinality(BijlagenVan(d)') <= MAX_BIJLAGEN_PER_ENGAGEMENT
    <2> DEFINE S == BijlagenVan(d)
    <2>1. IsFiniteSet(S) /\ Cardinality(S) <= MAX_BIJLAGEN_PER_ENGAGEMENT
      BY DEF Kern, Dossierinhoud, Inhoud
    <2>2. Cardinality(S) \in Nat
      BY <2>1, FS_CardinalityType
    <2>3. CASE verzoek[q].op = "bijlage" /\ d = Wat(q).van
      <3>1. Cardinality(S) < MAX_BIJLAGEN_PER_ENGAGEMENT
        BY <1>1, <2>2, <2>3, DossiersMaximum DEF Vol
      <3>2. ASSUME NEW b \in S' PROVE b \in S \cup {Wat(q).doel}
        <4>1. b \in Dossierbijlagen /\ rij'[b].stand = "live" /\ rij'[b].van = d
          BY <3>2 DEF BijlagenVan
        <4> QED BY <4>1, KomtBijlage DEF BijlagenVan
      <3>3. /\ IsFiniteSet(S \cup {Wat(q).doel})
            /\ Cardinality(S \cup {Wat(q).doel}) <= Cardinality(S) + 1
            /\ Cardinality(S \cup {Wat(q).doel}) \in Nat
        <4> HIDE DEF S
        <4>1. /\ IsFiniteSet(S \cup {Wat(q).doel})
              /\ Cardinality(S \cup {Wat(q).doel}) =
                   IF Wat(q).doel \in S THEN Cardinality(S) ELSE Cardinality(S) + 1
          BY <2>1, FS_AddElement
        <4> QED BY <2>2, <4>1
      <3>4. /\ IsFiniteSet(S') /\ Cardinality(S') <= Cardinality(S \cup {Wat(q).doel})
        <4>1. S' \in SUBSET (S \cup {Wat(q).doel})
          BY <3>2
        <4> HIDE DEF S
        <4> QED BY <3>3, <4>1, FS_Subset
      <3>5. Cardinality(S') \in Nat
        BY <3>4, FS_CardinalityType
      <3> HIDE DEF S
      <3>6. Cardinality(S') <= MAX_BIJLAGEN_PER_ENGAGEMENT
        BY <2>2, <3>1, <3>3, <3>4, <3>5, DossiersMaximum
      <3> QED BY <3>4, <3>6 DEF S
    <2>4. CASE ~ (verzoek[q].op = "bijlage" /\ d = Wat(q).van)
      <3>1. IsFiniteSet(S') /\ Cardinality(S') <= Cardinality(S)
        BY <2>4, NietVoller
      <3>2. Cardinality(S') \in Nat
        BY <3>1, FS_CardinalityType
      <3> QED BY <2>1, <2>2, <3>1, <3>2, DossiersMaximum
    <2> QED BY <2>3, <2>4
  <1> QED BY <1>2, <1>3

(* Notes with the outcome: one more with every closing.                    *)
LEMMA UitkomstenVast ==
    ASSUME Kern, NEW q \in Verzoeken, Komt(q), NEW d \in Dossierrijen
    PROVE  IF verzoek[q].op = "afronden" /\ d = Wat(q).van
           THEN /\ Uitkomsten(d)' = Uitkomsten(d) \cup {Wat(q).extra}
                /\ Wat(q).extra \notin Uitkomsten(d)
           ELSE Uitkomsten(d)' = Uitkomsten(d)
  <1>0. \A n \in Dossiernotities : n \in Nieuw(q) => ~ rij[n].uitkomst
    BY DEF Komt, Nieuwe, Kern, Dossierinhoud
  <1>1. \A n : /\ NieuweNotitie(n, TRUE).van = n /\ NieuweNotitie(n, TRUE).uitkomst
               /\ NieuweNotitie(n, FALSE).van = n /\ ~ NieuweNotitie(n, FALSE).uitkomst
    BY DEF NieuweNotitie
  <1>2. CASE verzoek[q].op = "afronden"
    <2> DEFINE e == Wat(q).extra
    <2>1. e \in Dossiernotities /\ e \in Geschreven(q) /\ e \in Nieuw(q) /\ e \in Alle
          /\ Wat(q).van = Wat(q).doel /\ Wat(q).doel \in Dossierrijen
      BY <1>2 DEF Komt, Vraagt, Doelrijen, Wijzigt, Nieuw, Alle, DossierSleutels
    <2>2. e # Wat(q).doel
      BY <2>1, DossiersSleutels DEF DossierSleutels
    <2>3. rij'[e] = NieuweNotitie(Wat(q).van, TRUE)
      <3>1. RijGoed(q, e, rij'[e])
        BY <2>1 DEF Komt
      <3> QED BY <1>2, <2>1, <2>2, <3>1 DEF RijGoed, Wijzigt
    <2>4. \A n \in Dossiernotities : n # e =>
            rij'[n].van = rij[n].van /\ rij'[n].uitkomst = rij[n].uitkomst
      BY ONLY <1>2, KomtNotitie, Kern, Komt(q)
    <2>5. rij'[e].van = Wat(q).van /\ rij'[e].uitkomst /\ ~ rij[e].uitkomst
      BY <1>0, <1>1, <2>1, <2>3
    <2> HIDE DEF e
    <2>6. e = Wat(q).extra /\ e \in Dossiernotities
      BY <2>1 DEF e
    <2>7. CASE d = Wat(q).van
      <3>1. Uitkomsten(d)' = Uitkomsten(d) \cup {e} /\ e \notin Uitkomsten(d)
        BY <2>4, <2>5, <2>6, <2>7 DEF Uitkomsten
      <3> QED BY <1>2, <2>6, <2>7, <3>1
    <2>8. CASE d # Wat(q).van
      BY <1>2, <2>4, <2>5, <2>6, <2>8 DEF Uitkomsten
    <2> QED BY <2>7, <2>8
  <1>3. CASE verzoek[q].op # "afronden"
    <2>1. (verzoek[q].op = "afronden") = FALSE
      BY <1>3
    <2>2. ASSUME NEW n \in Dossiernotities
          PROVE  (rij'[n].van = d /\ rij'[n].uitkomst) <=> (rij[n].van = d /\ rij[n].uitkomst)
      <3>1. CASE rij'[n].van = rij[n].van /\ rij'[n].uitkomst = rij[n].uitkomst
        BY <3>1
      <3>2. CASE n \in Nieuw(q) /\ rij'[n] = NieuweNotitie(Wat(q).van, FALSE)
        BY <1>0, <1>1, <3>2
      <3> QED BY <2>1, <3>1, <3>2, KomtNotitie
    <2>3. Uitkomsten(d)' = Uitkomsten(d)
      BY <2>2 DEF Uitkomsten
    <2> QED BY <1>3, <2>3
  <1> QED BY <1>2, <1>3

LEMMA DossiersVast ==
    ASSUME Kern, NEW q \in Verzoeken, Komt(q), UNCHANGED bestanden,
           gesloten' = IF verzoek[q].op = "afronden"
                       THEN [gesloten EXCEPT ![Wat(q).van] = @ + 1] ELSE gesloten
    PROVE  Dossierinhoud' /\ gesloten' \in [Dossierrijen -> Nat]
  <1>1. \A b \in Dossierbijlagen : rij'[b].stand # "geen" => b \in bestanden'
    BY BijlagenVast
  <1>2. \A d \in Dossierrijen :
          /\ IsFiniteSet(BijlagenVan(d)')
          /\ Cardinality(BijlagenVan(d)') <= MAX_BIJLAGEN_PER_ENGAGEMENT
    BY BijlagenVast
  <1>3. ASSUME NEW d \in Dossierrijen
        PROVE  /\ (rij'[d].status = "afgerond") = rij'[d].afgerondOp
               /\ rij'[d].afgerondOp => ~ rij'[d].stap
    <2>1. /\ rij[d] \in RijSoort(d)
          /\ (rij[d].status = "afgerond") = rij[d].afgerondOp /\ (rij[d].afgerondOp => ~ rij[d].stap)
      BY DEF Kern, Velden, Alle, DossierSleutels, Dossierinhoud, Inhoud
    <2>2. CASE rij'[d] = rij[d]
      BY <2>1, <2>2
    <2>3. CASE rij'[d] = [GeenDossier EXCEPT !.stand = "live"]
      BY <2>3 DEF GeenDossier
    <2>4. CASE /\ verzoek[q].op \in Wijzigt
               /\ Wijzigbaar(d, verzoek[q].op) /\ rij'[d] = Gewijzigd(d, verzoek[q].op)
      BY <2>1, <2>4, GewijzigdGoed
    <2> QED BY <2>2, <2>3, <2>4, KomtDossier
  <1>4. gesloten \in [Dossierrijen -> Nat]
    BY DEF Kern, Velden
  <1>5. verzoek[q].op = "afronden" => Wat(q).van \in Dossierrijen
    BY DEF Komt, Vraagt, Wijzigt
  <1>6. gesloten' \in [Dossierrijen -> Nat]
    BY <1>4, <1>5
  <1>7. ASSUME NEW d \in Dossierrijen
        PROVE  gesloten'[d] = Cardinality(Uitkomsten(d)') /\ IsFiniteSet(Uitkomsten(d)')
    <2> DEFINE U == Uitkomsten(d)
               e == Wat(q).extra
    <2>1. gesloten[d] = Cardinality(U) /\ IsFiniteSet(U)
      BY DEF Kern, Dossierinhoud, Inhoud, Uitkomsten
    <2>2. IF verzoek[q].op = "afronden" /\ d = Wat(q).van
          THEN U' = U \cup {e} /\ e \notin U ELSE U' = U
      BY UitkomstenVast
    <2> HIDE DEF U, e
    <2>3. CASE verzoek[q].op = "afronden" /\ d = Wat(q).van
      <3>1. IsFiniteSet(U \cup {e}) /\ Cardinality(U \cup {e}) = Cardinality(U) + 1
        BY <2>1, <2>2, <2>3, FS_AddElement
      <3>2. gesloten'[d] = gesloten[d] + 1
        BY <1>4, <2>3
      <3>3. U' = U \cup {e}
        BY <2>2, <2>3
      <3>4. Cardinality(U') = Cardinality(U) + 1 /\ IsFiniteSet(U')
        BY <3>1, <3>3
      <3> QED BY <2>1, <3>2, <3>4 DEF U
    <2>4. CASE ~ (verzoek[q].op = "afronden" /\ d = Wat(q).van)
      <3>1. U' = U /\ gesloten'[d] = gesloten[d]
        BY <1>4, <1>5, <2>2, <2>4
      <3>2. Cardinality(U') = Cardinality(U) /\ IsFiniteSet(U')
        BY <2>1, <3>1
      <3> QED BY <2>1, <3>1, <3>2 DEF U
    <2> QED BY <2>3, <2>4
  <1>8. ASSUME NEW n \in Dossiernotities, rij'[n].stand = "geen"
        PROVE  ~ rij'[n].uitkomst
    <2>1. rij[n].stand = "geen" => ~ rij[n].uitkomst
      BY DEF Kern, Dossierinhoud
    <2>2. \A u : NieuweNotitie(Wat(q).van, u).stand = "live"
      BY DEF NieuweNotitie
    <2> QED BY <1>8, <2>1, <2>2, KomtNotitie
  <1>9. Inhoud'
    BY <1>1, <1>2, <1>3, <1>7 DEF Inhoud, Uitkomsten
  <1> QED BY <1>2, <1>6, <1>7, <1>8, <1>9 DEF Dossierinhoud

LEMMA KomtGoed ==
    ASSUME Kern, NEW q \in Verzoeken, Komt(q), Vorm', Slot', UNCHANGED <<samen, bestanden>>,
           Ingediend \subseteq Ingediend',
           volgorde' = IF verzoek[q].op = "oordeel" THEN Append(volgorde, Wat(q).doel) ELSE volgorde,
           gesloten' = IF verzoek[q].op = "afronden"
                       THEN [gesloten EXCEPT ![Wat(q).van] = @ + 1] ELSE gesloten
    PROVE  Kern'
  <1>1. Oordeelrijen' /\ volgorde' \in Seq(Oordelen)
    BY OordelenVast
  <1>2. Dossierinhoud' /\ gesloten' \in [Dossierrijen -> Nat]
    BY DossiersVast
  <1>3. \A r \in Alle : rij'[r] \in RijSoort(r)
    <2> SUFFICES ASSUME NEW r \in Alle PROVE rij'[r] \in RijSoort(r)
      OBVIOUS
    <2>1. CASE r \in Geschreven(q)
      BY <2>1, GeschrevenSoort DEF Komt, Kern
    <2>2. CASE r \notin Geschreven(q)
      BY <2>2 DEF Komt, Kern, Velden
    <2> QED BY <2>1, <2>2
  <1>4. IsFiniteSet(Bezig')
    BY BegonnenGroeit DEF Komt, Kern, Velden
  <1>5. Velden'
    BY <1>1, <1>2, <1>3, <1>4 DEF Velden, Komt, Kern, RijSoort
  <1>6. \A p \in Verzoeken : Lokaal(p)'
    <2>1. Lokaal(q)'
      BY DEF Komt, Lokaal
    <2> QED BY <2>1, AnderLokaal
  <1>7. Lopend' \subseteq Lopend
        /\ \A p \in Lopend' : verzoek'[p].op = verzoek[p].op /\ Wat(p)' = Wat(p)
    BY DEF Komt, Lopend, Anders, Wat
  <1>8. \A p \in Lopend' : Nieuw(p)' = Nieuw(p)
    BY <1>7 DEF Nieuw
  <1>9. Alleen' /\ EigenSleutels'
    BY <1>7, <1>8 DEF Kern, Alleen, EigenSleutels
  <1> QED BY <1>1, <1>2, <1>5, <1>6, <1>9 DEF Kern

-----------------------------------------------------------------------------
(* The invariant.                                                          *)

LEMMA SchermenBegin == Init => Schermen
  BY BeeldBegin DEF Init, BeoordelingInit, Schermen, ResponsGoed, GeenRespons

LEMMA KernBegin == Init => Kern
  <1> SUFFICES ASSUME Init PROVE Kern
    OBVIOUS
  <1>1. \A q \in Verzoeken : verzoek[q] = NieuwVerzoek /\ verzoek[q].pc = "nieuw"
                             /\ verzoek[q].schrijf = Leeg
    BY DEF Init, NieuwVerzoek
  <1>2. Vorm
    <2>1. IsVerzoek(NieuwVerzoek)
      BY DEF IsVerzoek, NieuwVerzoek
    <2> QED BY <1>1, <2>1 DEF Vorm, Init
  <1>3. Slot
    BY <1>1, LeegDomein DEF Slot
  <1>4. Lopend = {} /\ Bezig = {}
    BY <1>1 DEF Lopend, Bezig
  <1>5. \A q \in Verzoeken : Lokaal(q)
    BY <1>1, <1>4, LeegDomein DEF Lokaal, Geschreven
  <1>6. Alleen /\ EigenSleutels
    BY <1>4 DEF Alleen, EigenSleutels
  <1>7. /\ rij = [r \in Alle |-> rij[r]]
        /\ \A r \in Oordelen : rij[r] = GeenOordeel
        /\ \A r \in Notities : rij[r] = GeenNotitie
        /\ \A r \in Beoordelaars \cup Dossierlinks : rij[r] = GeenKoppel
        /\ \A r \in Dossierrijen : rij[r] = GeenDossier
        /\ \A r \in Dossiernotities : rij[r] = GeenDossiernotitie
        /\ \A r \in Dossierbijlagen : rij[r] = GeenBijlage
    <2>1. rij = [r \in Alle |->
            IF r \in Dossierrijen THEN GeenDossier
            ELSE IF r \in Dossiernotities THEN GeenDossiernotitie
            ELSE IF r \in Dossierbijlagen THEN GeenBijlage
            ELSE IF r \in Dossierlinks THEN GeenKoppel
            ELSE BeginBeoordeling[r]]
      BY DEF Init, Alle, BeginBeoordeling
    <2>2. \A r \in Dossierrijen \cup Dossiernotities \cup Dossierbijlagen \cup Dossierlinks :
            r \in Alle
      BY DEF Alle, DossierSleutels
    <2>3. \A r \in Oordelen \cup Notities \cup Beoordelaars :
            r \in Alle /\ rij[r] = BeginBeoordeling[r]
      BY <2>1, DossiersSleutels DEF Alle, DossierSleutels
    <2>4. /\ \A r \in Oordelen : rij[r] = GeenOordeel
          /\ \A r \in Notities : rij[r] = GeenNotitie
          /\ \A r \in Beoordelaars : rij[r] = GeenKoppel
      BY <2>3, DossiersSleutels DEF BeginBeoordeling
    <2>5. /\ \A r \in Dossierlinks : rij[r] = GeenKoppel
          /\ \A r \in Dossierrijen : rij[r] = GeenDossier
          /\ \A r \in Dossiernotities : rij[r] = GeenDossiernotitie
          /\ \A r \in Dossierbijlagen : rij[r] = GeenBijlage
      BY <2>1, <2>2, DossiersSleutels
    <2> QED BY <2>1, <2>4, <2>5
  <1>8. \A r \in Alle : rij[r] \in RijSoort(r)
    <2>1. \A r \in Oordelen : rij[r] \in RijSoort(r)
      BY <1>7, Soorten DEF GeenOordeel
    <2>2. \A r \in Notities : rij[r] \in RijSoort(r)
      BY <1>7, Soorten DEF GeenNotitie
    <2>3. \A r \in Beoordelaars \cup Dossierlinks : rij[r] \in RijSoort(r)
      BY <1>7, Soorten DEF GeenKoppel
    <2>4. \A r \in Dossierrijen : rij[r] \in RijSoort(r)
      BY <1>7, Soorten DEF GeenDossier
    <2>5. \A r \in Dossiernotities : rij[r] \in RijSoort(r)
      BY <1>7, Soorten DEF GeenDossiernotitie
    <2>6. \A r \in Dossierbijlagen : rij[r] \in RijSoort(r)
      BY <1>7, Soorten DEF GeenBijlage
    <2> QED BY <2>1, <2>2, <2>3, <2>4, <2>5, <2>6 DEF Alle, DossierSleutels
  <1>9. Velden
    <2>1. /\ bestanden = {} /\ gesloten \in [Dossierrijen -> Nat] /\ volgorde \in Seq(Oordelen)
      BY DEF Init, BeoordelingInit
    <2> QED BY <1>4, <1>7, <1>8, <2>1, FS_EmptySet DEF Velden
  <1>10. Oordeelrijen
    <2>1. Len(volgorde) = 0
      BY DEF Init, BeoordelingInit
    <2> QED BY <1>7, <2>1 DEF Oordeelrijen, GeenOordeel
  <1>11. Dossierinhoud
    <2>1. \A d \in Dossierrijen : BijlagenVan(d) = {} /\ Uitkomsten(d) = {}
      BY <1>7 DEF BijlagenVan, Uitkomsten, GeenBijlage, GeenDossiernotitie
    <2>2. \A d \in Dossierrijen :
            /\ Cardinality(BijlagenVan(d)) <= MAX_BIJLAGEN_PER_ENGAGEMENT
            /\ gesloten[d] = Cardinality(Uitkomsten(d))
            /\ IsFiniteSet(BijlagenVan(d)) /\ IsFiniteSet(Uitkomsten(d))
      BY <2>1, FS_EmptySet, DossiersMaximum DEF Init
    <2>3. \A b \in Dossierbijlagen : rij[b].stand = "geen"
      BY <1>7 DEF GeenBijlage
    <2>4. \A n \in Dossiernotities : ~ rij[n].uitkomst
      BY <1>7 DEF GeenDossiernotitie
    <2>5. \A d \in Dossierrijen :
            (rij[d].status = "afgerond") = rij[d].afgerondOp /\ ~ rij[d].afgerondOp
      <3>1. \A d \in Dossierrijen : rij[d].status = "open" /\ rij[d].afgerondOp = FALSE
        BY <1>7 DEF GeenDossier
      <3>2. ("open" = "afgerond") = FALSE
        OBVIOUS
      <3> QED BY <3>1, <3>2
    <2>6. Inhoud
      BY <2>2, <2>3, <2>5 DEF Inhoud, Uitkomsten
    <2> QED BY <2>2, <2>4, <2>6 DEF Dossierinhoud
  <1> QED BY <1>2, <1>3, <1>5, <1>6, <1>9, <1>10, <1>11 DEF Kern

LEMMA KernStap ==
    ASSUME Kern, [Next]_vars, Ingediend \subseteq Ingediend'
    PROVE  Kern'
  <1>1. CASE UNCHANGED vars
    BY <1>1, Stilstand DEF vars, bvars, dvars
  <1>2. CASE UitvraagStap /\ UNCHANGED dvars
    <2>1. UNCHANGED <<rij, verzoek, volgorde, samen>>
      BY <1>2 DEF UitvraagStap, NodigUit, DienIn, TrekTerug, ResponsNaar, RegistreerApart,
         RondeVerder
    <2> QED BY <1>2, <2>1, Stilstand DEF dvars
  <1>3. ASSUME NEW q \in Verzoeken, BeoordelingVraag(q), UNCHANGED dvars
        PROVE  Kern'
    BY <1>3, VoegOordeelToeGoed, VoegNotitieToeGoed, TrekInGoed, KoppelGoed, OpenSchermGoed
       DEF BeoordelingVraag
  <1>4. ASSUME NEW q \in Verzoeken, BeoordelingStap(q), UNCHANGED dvars
        PROVE  Kern'
    BY <1>4, InvoegenRijGoed, IntrekkenRijGoed, KoppelenRijGoed, SchermGoed DEF BeoordelingStap
  <1>5. ASSUME NEW q \in Verzoeken, DossierVraag(q)
        PROVE  Kern'
    BY <1>5, AanmakenGoed, NotitieToevoegenGoed, LinkToevoegenGoed, RijIntrekkenGoed,
       BijlageToevoegenGoed, DossierWijzigenGoed DEF DossierVraag, Wijzigt
  <1>6. ASSUME NEW q \in Verzoeken, DossierStap(q)
        PROVE  Kern'
    BY <1>6, SchrijfDossierNieuwGoed, SchrijfDossierrijGoed, SchrijfLinkGoed, SchrijfRijWegGoed,
       SchrijfDossierGoed, VergrendelGoed, TelBijlagenGoed, BewaarGoed, SchrijfBijlageGoed
       DEF DossierStap
  <1>7. ASSUME NEW q \in Verzoeken, Vastleggen(q)
        PROVE  Kern'
    BY <1>7, KomtFeit, KomtGoed DEF Vastleggen
  <1>8. ASSUME NEW q \in Verzoeken, Terugdraaien(q)
        PROVE  Kern'
    BY <1>8, EindeStap DEF Terugdraaien, Rollback, dvars, Rust
  <1> QED BY <1>1, <1>2, <1>3, <1>4, <1>5, <1>6, <1>7, <1>8 DEF Next

(* The invariant of all that follows, for every value of the constants.    *)
THEOREM DossiersInvariant == Spec => []IInv
  <1>1. Init => IInv
    BY SchermenBegin, KernBegin DEF IInv
  <1>2. IInv /\ [Next]_vars => IInv'
    BY SchermenStap, KernStap DEF IInv
  <1> QED BY <1>1, <1>2, PTL DEF Spec

(* Every row, committed or written by an open transaction, has the shape   *)
(* of its table.                                                           *)
THEOREM DossiersTypes == Spec => []TypeOK
  <1>1. IInv => TypeOK
    <2> SUFFICES ASSUME IInv PROVE TypeOK
      OBVIOUS
    <2>1. DOMAIN rij = Alle /\ Velden /\ ResponsGoed
      BY DEF IInv, Kern, Velden, Schermen
    <2>2. ASSUME NEW q \in Verzoeken, NEW r \in DOMAIN verzoek[q].schrijf
          PROVE  r \in Alle /\ verzoek[q].schrijf[r] \in RijSoort(r)
      <3>1. q \in Lopend /\ Vraagt(q) /\ RijGoed(q, r, verzoek[q].schrijf[r])
        BY <2>2 DEF IInv, Kern, Lokaal, Geschreven, Rijen, Wordt
      <3> QED BY <2>1, <3>1, GeschrevenSoort
    <2> QED BY <2>1, <2>2 DEF TypeOK, Velden, ResponsGoed
  <1> QED BY <1>1, DossiersInvariant, PTL

(* A response has verdicts only once it is back; and of those on which no  *)
(* two requests worked at the same time, the live verdict that the screens *)
(* use is the one that was committed last, whatever the times of the       *)
(* transactions.                                                           *)
THEOREM LaatsteTelt == Spec => []LaatsteOordeelTelt
  <1>1. IInv => LaatsteOordeelTelt
    <2> SUFFICES ASSUME IInv, NEW r \in Responsen
                 PROVE  /\ Levend(r) # {} => respons[r].stand = "ingediend"
                        /\ r \notin samen => \A i \in 1..Len(volgorde) :
                             /\ volgorde[i] \in Levend(r)
                             /\ \A j \in i+1..Len(volgorde) : volgorde[j] \notin Levend(r)
                             => LaatsteOordeel(r) = rij[volgorde[i]].oordeel
      BY DEF LaatsteOordeelTelt
    <2>0. Oordeelrijen /\ Velden
      BY DEF IInv, Kern
    <2>1. Levend(r) # {} => respons[r].stand = "ingediend"
      BY <2>0 DEF Oordeelrijen, Levend, Ingediend
    <2>2. ASSUME r \notin samen, NEW i \in 1..Len(volgorde), volgorde[i] \in Levend(r),
                 \A j \in i+1..Len(volgorde) : volgorde[j] \notin Levend(r)
          PROVE  LaatsteOordeel(r) = rij[volgorde[i]].oordeel
      <3> DEFINE o == volgorde[i]
                 Jongste(y) == \A x \in Levend(r) : rij[x].sinds <= rij[y].sinds
      <3>1. Len(volgorde) \in Nat /\ \A x \in Levend(r) : rij[x].sinds \in Nat
        BY <2>0, RijVelden DEF Velden, Levend
      <3>2. ASSUME NEW x \in Levend(r), x # o
            PROVE  rij[x].sinds < rij[o].sinds
        <4>1. PICK k \in 1..Len(volgorde) : volgorde[k] = x
          BY <2>0 DEF Oordeelrijen, Levend
        <4>2. k < i
          BY <2>2, <3>1, <3>2, <4>1
        <4>3. rij[volgorde[k]].van = r /\ rij[volgorde[i]].van = r
          BY <2>2, <4>1 DEF Levend
        <4> QED BY <2>0, <2>2, <4>1, <4>2, <4>3 DEF Oordeelrijen
      <3>3. Jongste(o)
        BY <2>2, <3>1, <3>2
      <3>4. \A y \in Levend(r) : Jongste(y) => y = o
        BY <2>2, <3>1, <3>2
      <3>5. (CHOOSE y \in Levend(r) : Jongste(y)) = o
        BY <2>2, <3>3, <3>4
      <3> QED BY <2>2, <3>5 DEF LaatsteOordeel
    <2> QED BY <2>1, <2>2
  <1> QED BY <1>1, DossiersInvariant, PTL

(* A screen that is read in two statements, with others in between, shows  *)
(* every response that did not change meanwhile once, and never counts one *)
(* that it does not list; what waits for a reviewer is back.               *)
THEOREM SchermenTonen == Spec => []SchermenKloppen
  <1>1. IInv => SchermenKloppen
    BY BeeldenTonen DEF IInv
  <1> QED BY <1>1, DossiersInvariant, PTL

-----------------------------------------------------------------------------
(* What a step adds to a dossier.                                          *)

(* The action of DossierKlopt.                                             *)
HoudtDossier ==
    /\ Inhoud'
    /\ \A r \in Dossiernotities \cup Dossierbijlagen :
         rij[r].stand = "geen" /\ rij'[r].stand = "live" /\ rij[rij'[r].van].stand = "weg"
         => r \in Dossiernotities /\ rij'[r].van \in samen

(* The dossier of a new attachment was locked while it was live.           *)
LEMMA BijlageBijLevend ==
    ASSUME Kern, NEW q, Komt(q), NEW b \in Dossierbijlagen, rij[b].stand = "geen",
           rij'[b].stand = "live"
    PROVE  rij[rij'[b].van].stand = "live"
  <1>1. verzoek[q].op = "bijlage" /\ rij'[b].van = Wat(q).van
    <2>1. \/ rij'[b] = rij[b]
          \/ rij[b].stand = "live"
          \/ verzoek[q].op = "bijlage" /\ rij'[b] = [stand |-> "live", van |-> Wat(q).van]
      BY KomtBijlage
    <2> QED BY <2>1
  <1>2. Wat(q).van \in Dossierrijen /\ Wat(q).doel \in Dossierbijlagen
    BY <1>1 DEF Komt, Vraagt
  <1>3. Wat(q).van # Wat(q).doel /\ Wat(q).van \in Alle /\ Wat(q).van \in Geschreven(q)
    BY <1>1, <1>2, DossiersSleutels DEF Komt, Doelrijen, Alle, DossierSleutels
  <1>4. RijGoed(q, Wat(q).van, rij'[Wat(q).van])
    BY <1>3 DEF Komt
  <1> QED BY <1>1, <1>3, <1>4 DEF RijGoed

(* That of a new note is new, open, or one others worked on meanwhile.     *)
LEMMA NotitieBijLevend ==
    ASSUME Kern, NEW q, Komt(q), NEW n \in Dossiernotities, rij[n].stand = "geen",
           rij'[n].stand = "live"
    PROVE  rij[rij'[n].van].stand = "weg" => rij'[n].van \in samen
  <1>1. /\ verzoek[q].op \in {"aanmaken", "dossiernotitie", "afronden"}
        /\ rij'[n].van = Wat(q).van
    <2>1. \/ rij'[n] = rij[n]
          \/ rij[n].stand = "live"
          \/ /\ verzoek[q].op \in {"aanmaken", "dossiernotitie", "afronden"}
             /\ rij'[n] = NieuweNotitie(Wat(q).van, verzoek[q].op = "afronden")
      BY KomtNotitie
    <2>2. \A u : NieuweNotitie(Wat(q).van, u).van = Wat(q).van
      BY DEF NieuweNotitie
    <2> QED BY <2>1, <2>2
  <1>2. Vraagt(q) /\ Nieuwe(q) /\ Weet(q)
    BY DEF Komt
  <1>3. CASE verzoek[q].op = "aanmaken"
    BY <1>1, <1>2, <1>3 DEF Vraagt, Nieuwe, Nieuw
  <1>4. CASE verzoek[q].op = "dossiernotitie"
    BY <1>1, <1>2, <1>4 DEF Weet
  <1>5. CASE verzoek[q].op = "afronden"
    <2>1. /\ Wat(q).van \in Dossierrijen /\ Wat(q).van = Wat(q).doel
          /\ Wat(q).extra \in Dossiernotities
      BY <1>2, <1>5 DEF Vraagt, Wijzigt
    <2>2. Wat(q).van # Wat(q).extra /\ Wat(q).van \in Alle /\ Wat(q).van \in Geschreven(q)
      BY <1>5, <2>1, DossiersSleutels DEF Komt, Doelrijen, Alle, DossierSleutels
    <2>3. RijGoed(q, Wat(q).van, rij'[Wat(q).van])
      BY <2>2 DEF Komt
    <2>4. Wijzigbaar(Wat(q).van, verzoek[q].op)
      BY <1>5, <2>2, <2>3 DEF RijGoed, Wijzigt
    <2> QED BY <1>1, <2>4 DEF Wijzigbaar
  <1> QED BY <1>1, <1>3, <1>4, <1>5

(* Only COMMIT changes a row.                                              *)
LEMMA RijAlleenDoorCommit ==
    ASSUME [Next]_vars
    PROVE  rij' = rij \/ \E q \in Verzoeken : Vastleggen(q)
  <1>1. CASE UitvraagStap
    BY <1>1 DEF UitvraagStap, NodigUit, DienIn, TrekTerug, ResponsNaar, RegistreerApart, RondeVerder
  <1>2. ASSUME NEW q \in Verzoeken, BeoordelingVraag(q)
        PROVE  rij' = rij
    BY <1>2 DEF BeoordelingVraag, VoegOordeelToe, VoegNotitieToe, TrekIn, Koppel, OpenScherm
  <1>3. ASSUME NEW q \in Verzoeken, BeoordelingStap(q)
        PROVE  rij' = rij
    BY <1>3 DEF BeoordelingStap, InvoegenRij, IntrekkenRij, KoppelenRij, LeesOverzicht, LeesRonde,
       ToonScherm
  <1>4. ASSUME NEW q \in Verzoeken, DossierVraag(q)
        PROVE  rij' = rij
    BY <1>4 DEF DossierVraag, NotitieToevoegen, Aanmaken, BijlageToevoegen, DossierWijzigen,
       LinkToevoegen, RijIntrekken, Overig
  <1>5. ASSUME NEW q \in Verzoeken, DossierStap(q)
        PROVE  rij' = rij
    BY <1>5 DEF DossierStap, SchrijfDossierNieuw, SchrijfDossierrij, SchrijfLink, SchrijfRijWeg,
       SchrijfDossier, Vergrendel, TelBijlagen, Bewaar, SchrijfBijlage, Vaststaat
  <1>6. ASSUME NEW q \in Verzoeken, Terugdraaien(q)
        PROVE  rij' = rij
    BY <1>6 DEF Terugdraaien, Rollback
  <1>7. CASE UNCHANGED vars
    BY <1>7 DEF vars
  <1> QED BY <1>1, <1>2, <1>3, <1>4, <1>5, <1>6, <1>7 DEF Next

LEMMA HoudtDossierStap ==
    ASSUME IInv, IInv', [Next]_vars
    PROVE  HoudtDossier
  <1>1. Inhoud'
    BY DEF IInv, Kern, Dossierinhoud
  <1>2. ASSUME NEW r \in Dossiernotities \cup Dossierbijlagen, rij[r].stand = "geen",
               rij'[r].stand = "live", rij[rij'[r].van].stand = "weg"
        PROVE  r \in Dossiernotities /\ rij'[r].van \in samen
    <2>1. PICK q \in Verzoeken : Vastleggen(q)
      BY <1>2, RijAlleenDoorCommit
    <2>2. Kern /\ Komt(q)
      BY <2>1, KomtFeit DEF IInv, Vastleggen
    <2> QED BY <1>2, <2>2, BijlageBijLevend, NotitieBijLevend
  <1> QED BY <1>1, <1>2 DEF HoudtDossier

(* Every step leaves dossiers with at most the maximum of attachments,     *)
(* each with its file, with an outcome for every closing; and adds to a    *)
(* withdrawn dossier at most a note, of a request that the withdrawal      *)
(* overlapped.                                                             *)
THEOREM DossiersKloppen == Spec => DossierKlopt
  <1>1. IInv /\ IInv' /\ [Next]_vars => [HoudtDossier]_vars
    BY HoudtDossierStap
  <1>2. [HoudtDossier]_vars
        => [/\ Inhoud'
            /\ \A r \in Dossiernotities \cup Dossierbijlagen :
                 rij[r].stand = "geen" /\ rij'[r].stand = "live" /\ rij[rij'[r].van].stand = "weg"
                 => r \in Dossiernotities /\ rij'[r].van \in samen]_vars
    BY DEF HoudtDossier
  <1> QED BY <1>1, <1>2, DossiersInvariant, PTL DEF Spec, DossierKlopt
=============================================================================
