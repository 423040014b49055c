--------------------------- MODULE UitvraagProofs ---------------------------
(***************************************************************************)
(* Proofs about Uitvraag, for any number of vendors, requests,             *)
(* administrators, tokens and questions.                                   *)
(***************************************************************************)
EXTENDS Uitvraag, WellFoundedInduction, TLAPS

-----------------------------------------------------------------------------
(* The inductive invariant.                                                *)

(* The row of a response: the CHECK constraint of 0003_survey_token.sql,   *)
(* and no link before the row exists.                                      *)
RijInv(v) ==
    /\ CheckSubmittedConsistent(respons[v])
    /\ respons[v].status = "geen" => respons[v].token = Geen
    /\ respons[v].handmatig \in {Geen, respons[v].token}
    /\ respons[v].status = "submitted" => respons[v].submittedAt < respons[v].expiresAt
    /\ audit[v] = IF respons[v].status = "submitted" THEN 1 ELSE 0
    /\ respons[v].status = "submitted" => \A q \in Verplicht : antwoord[v][q] # Geen

(* A request past the guard works on an existing response, has passed its  *)
(* validation, and has written its answers from the first one up.          *)
VerzoekInv(r) ==
    verzoek[r].pc \in Lopend =>
        /\ verzoek[r].vendor \in Vendors
        /\ respons[verzoek[r].vendor].status # "geen"
        /\ verzoek[r].geschreven \subseteq verzoek[r].wil
        /\ \A p \in verzoek[r].geschreven, q \in verzoek[r].wil \ verzoek[r].geschreven :
               p < q
        /\ verzoek[r].pc \in InTransactie => Geldig(verzoek[r].soort, verzoek[r].wil)
        /\ verzoek[r].pc = "toegelaten" => verzoek[r].geschreven = {}
        /\ verzoek[r].pc \in {"afsluiten", "besloten"} =>
               verzoek[r].soort = "dienIn" /\ verzoek[r].geschreven = verzoek[r].wil

(* A pending administrator request changes the status of an existing round *)
(* along an arrow, and touches only rows it saw.                           *)
BeheerInv(b) ==
    /\ beheer[b].op = "status" =>
           runStatus # "geen" /\ beheer[b].naar \in {"active", "finished", "archived"}
    /\ beheer[b].op = "intrekken" => \A v \in beheer[b].doel : respons[v].status # "geen"

IInv ==
    /\ TypeOK
    /\ \A v \in Vendors : RijInv(v)
    /\ \A r \in Verzoeken : VerzoekInv(r)
    /\ \A b \in Beheerders : BeheerInv(b)
    /\ NietsVoorDeStart

-----------------------------------------------------------------------------
(* Type correctness.  The invariant is inductive by itself.                *)

LEMMA RijTypen ==
    ASSUME TypeOK
    PROVE  /\ \A v \in Vendors :
                 /\ respons[v] \in Respons
                 /\ respons[v].status \in ResponsStatussen
                 /\ respons[v].token \in Tokens \cup {Geen}
                 /\ respons[v].expiresAt \in Int
                 /\ respons[v].submittedAt \in Tijd \cup {Geen}
           /\ \A r \in Verzoeken :
                 /\ verzoek[r] \in Verzoek
                 /\ verzoek[r].start \in Tijd
                 /\ verzoek[r].wil \subseteq Vragen
                 /\ verzoek[r].geschreven \subseteq Vragen
           /\ \A b \in Beheerders : beheer[b] \in BeheerOp
  BY DEF TypeOK, Respons, Verzoek, BeheerOp, Vervaltijd

LEMMA EindeTypen ==
    ASSUME TypeOK, NEW r \in Verzoeken, NEW uitkomst \in Afgelopen, Einde(r, uitkomst)
    PROVE  verzoek' \in [Verzoeken -> Verzoek]
<1> DEFINE na == [NieuwVerzoek EXCEPT !.pc = uitkomst, !.vendor = verzoek[r].vendor,
                                      !.token = verzoek[r].token]
<1>1. 0 \in Tijd
  BY TijdAanname DEF Tijd
<1>2. /\ verzoek[r].vendor \in Vendors \cup {Geen}
      /\ verzoek[r].token \in Tokens \cup {Geen}
  BY DEF TypeOK, Verzoek
<1>3. na \in Verzoek
  BY <1>1, <1>2 DEF NieuwVerzoek, Verzoek
<1>4. verzoek' = [verzoek EXCEPT ![r] = na]
  BY DEF Einde
<1> HIDE DEF na
<1> QED BY <1>3, <1>4 DEF TypeOK

LEMMA PcTypen ==
    ASSUME TypeOK, NEW r \in Verzoeken, NEW pc \in Lopend,
           verzoek' = [verzoek EXCEPT ![r].pc = pc]
    PROVE  verzoek' \in [Verzoeken -> Verzoek]
<1>1. [verzoek[r] EXCEPT !.pc = pc] \in Verzoek
  BY DEF TypeOK, Verzoek
<1>2. verzoek' = [verzoek EXCEPT ![r] = [verzoek[r] EXCEPT !.pc = pc]]
  BY DEF TypeOK, Verzoek
<1> QED BY <1>1, <1>2 DEF TypeOK

LEMMA VervolgType ==
    ASSUME NEW soort, NEW wil, NEW geschreven
    PROVE  Vervolg(soort, wil, geschreven) \in {"schrijven", "afsluiten", "vastleggen"}
  BY DEF Vervolg

LEMMA LeestTypen ==
    ASSUME TypeOK, NEW b \in Beheerders, NEW op, NEW naar, NEW doel, NEW verloopt,
           [op |-> op, naar |-> naar, doel |-> doel, verloopt |-> verloopt] \in BeheerOp,
           op = "status" => naar \in RunStatussen,
           Leest(b, op, naar, doel, verloopt)
    PROVE  TypeOK'
  BY DEF TypeOK, Leest, ronde

LEMMA InitType == Init => TypeOK
  BY VragenAanname, TijdAanname
  DEF Init, TypeOK, GeenRij, NieuwVerzoek, Vrij, Respons, Verzoek, BeheerOp,
      ResponsStatussen, Vervaltijd, Tijd, Lopend, InTransactie, Afgelopen

LEMMA TypeLeverancier ==
    ASSUME TypeOK, NEW r \in Verzoeken, Leverancier(r)
    PROVE  TypeOK'
<1> USE DEF ronde
<1>1. ASSUME NEW t \in uitgegeven, NEW soort \in {"dienIn", "concept"},
             NEW wil \in SUBSET Vragen, Controleer(r, t, soort, wil)
      PROVE  TypeOK'
  <2>1. verzoek' \in [Verzoeken -> Verzoek]
    <3>1. CASE Einde(r, "geweigerd")
      BY <3>1, EindeTypen DEF Afgelopen
    <3>2. CASE ~Einde(r, "geweigerd")
      <4>1. PICK v \in Vendors :
              verzoek' = [verzoek EXCEPT ![r] =
                 [NieuwVerzoek EXCEPT !.pc = "toegelaten", !.soort = soort,
                    !.vendor = v, !.token = t, !.wil = wil]]
        BY <1>1, <3>2 DEF Controleer
      <4>2. [NieuwVerzoek EXCEPT !.pc = "toegelaten", !.soort = soort,
                !.vendor = v, !.token = t, !.wil = wil] \in Verzoek
        <5>1. 0 \in Tijd
          BY TijdAanname DEF Tijd
        <5>2. t \in Tokens
          BY DEF TypeOK
        <5>3. "toegelaten" \in Lopend
          BY DEF Lopend
        <5> QED BY <5>1, <5>2, <5>3 DEF NieuwVerzoek, Verzoek
      <4> QED BY <4>1, <4>2 DEF TypeOK
    <3> QED BY <3>1, <3>2
  <2> QED BY <1>1, <2>1 DEF Controleer, TypeOK
<1>2. CASE BeginTransactie(r)
  <2>1. verzoek' \in [Verzoeken -> Verzoek]
    <3>1. CASE Einde(r, "ongeldig")
      BY <3>1, EindeTypen DEF Afgelopen
    <3>2. CASE ~Einde(r, "ongeldig")
      <4> DEFINE pc == Vervolg(verzoek[r].soort, verzoek[r].wil, {})
      <4>1. pc \in Lopend
        BY VervolgType DEF Lopend, InTransactie
      <4>2. [verzoek[r] EXCEPT !.pc = pc, !.start = tijd] \in Verzoek
        BY <4>1 DEF TypeOK, Verzoek
      <4>3. verzoek' = [verzoek EXCEPT ![r].pc = pc, ![r].start = tijd]
        BY <1>2, <3>2 DEF BeginTransactie
      <4> HIDE DEF pc
      <4>4. verzoek' = [verzoek EXCEPT ![r] = [verzoek[r] EXCEPT !.pc = pc, !.start = tijd]]
        BY <4>3 DEF TypeOK, Verzoek
      <4> QED BY <4>2, <4>4 DEF TypeOK
    <3> QED BY <3>1, <3>2
  <2> QED BY <1>2, <2>1 DEF BeginTransactie, TypeOK
<1>3. CASE LeesVoorSchrijven(r)
  <2>1. verzoek' \in [Verzoeken -> Verzoek]
    <3>1. CASE Einde(r, "geweigerd-door-rls")
      BY <3>1, EindeTypen DEF Afgelopen
    <3>2. CASE ~Einde(r, "geweigerd-door-rls")
      BY <1>3, <3>2, PcTypen DEF LeesVoorSchrijven, Lopend, InTransactie
    <3> QED BY <3>1, <3>2
  <2> QED BY <1>3, <2>1 DEF LeesVoorSchrijven, TypeOK
<1>4. ASSUME NEW q \in Vragen, Schrijf(r, q)
      PROVE  TypeOK'
  <2>1. verzoek' \in [Verzoeken -> Verzoek]
    <3> DEFINE na == verzoek[r].geschreven \cup {q}
               pc == Vervolg(verzoek[r].soort, verzoek[r].wil, na)
    <3>1. pc \in Lopend
      BY VervolgType DEF Lopend, InTransactie
    <3>2. na \in SUBSET Vragen
      BY <1>4 DEF TypeOK, Verzoek
    <3>3. verzoek' = [verzoek EXCEPT ![r].geschreven = na, ![r].pc = pc]
      BY <1>4 DEF Schrijf
    <3> HIDE DEF na, pc
    <3>4. [verzoek[r] EXCEPT !.geschreven = na, !.pc = pc] \in Verzoek
      BY <3>1, <3>2 DEF TypeOK, Verzoek
    <3>5. verzoek' = [verzoek EXCEPT ![r] = [verzoek[r] EXCEPT !.geschreven = na, !.pc = pc]]
      BY <3>3 DEF TypeOK, Verzoek
    <3> QED BY <3>4, <3>5 DEF TypeOK
  <2> QED BY <1>4, <2>1 DEF Schrijf, TypeOK
<1>5. Vastgelegd(r) \in [Vendors -> [Vragen -> Verzoeken \cup {Geen}]]
  BY DEF Vastgelegd, TypeOK
<1>6. CASE ConceptCommit(r)
  <2>1. verzoek' \in [Verzoeken -> Verzoek]
    BY <1>6, EindeTypen DEF ConceptCommit, Afgelopen
  <2> QED BY <1>5, <1>6, <2>1 DEF ConceptCommit, TypeOK
<1>7. CASE LeesVoorAfsluiten(r)
  <2>1. verzoek' \in [Verzoeken -> Verzoek]
    <3>1. CASE Einde(r, "niet-meer-open")
      BY <3>1, EindeTypen DEF Afgelopen
    <3>2. CASE ~Einde(r, "niet-meer-open")
      BY <1>7, <3>2, PcTypen DEF LeesVoorAfsluiten, Lopend, InTransactie
    <3> QED BY <3>1, <3>2
  <2> QED BY <1>7, <2>1 DEF LeesVoorAfsluiten, TypeOK
<1>8. CASE Afsluiten(r)
  <2>1. verzoek' \in [Verzoeken -> Verzoek]
    BY <1>8, EindeTypen DEF Afsluiten, Afgelopen
  <2>2. respons' \in [Vendors -> Respons]
    <3> DEFINE v == verzoek[r].vendor
               na == [respons[v] EXCEPT !.status = "submitted", !.submittedAt = verzoek[r].start]
    <3>1. respons' = [respons EXCEPT ![v].status = "submitted",
                                     ![v].submittedAt = verzoek[r].start]
      BY <1>8 DEF Afsluiten
    <3>2. verzoek[r].start \in Tijd
      BY DEF TypeOK, Verzoek
    <3>3. CASE v \in Vendors
      <4>1. na \in Respons
        <5>1. respons[v] \in Respons
          BY <3>3 DEF TypeOK
        <5>2. "submitted" \in ResponsStatussen
          BY DEF ResponsStatussen
        <5> HIDE DEF v
        <5> QED BY <3>2, <5>1, <5>2 DEF Respons
      <4>2. respons' = [respons EXCEPT ![v] = na]
        BY <3>1, <3>3 DEF TypeOK, Respons
      <4> HIDE DEF na, v
      <4> QED BY <4>1, <4>2 DEF TypeOK
    <3>4. CASE v \notin Vendors
      <4>1. respons' = respons
        BY <3>1, <3>4 DEF TypeOK
      <4> QED BY <4>1 DEF TypeOK
    <3> QED BY <3>3, <3>4
  <2>3. audit' \in [Vendors -> Nat]
    <3> DEFINE v == verzoek[r].vendor
    <3>1. audit' = [audit EXCEPT ![v] = audit[v] + 1]
      BY <1>8 DEF Afsluiten
    <3> HIDE DEF v
    <3>2. CASE v \in Vendors
      BY <3>1, <3>2 DEF TypeOK
    <3>3. CASE v \notin Vendors
      BY <3>1, <3>3 DEF TypeOK
    <3> QED BY <3>2, <3>3
  <2> QED BY <1>5, <1>8, <2>1, <2>2, <2>3 DEF Afsluiten, TypeOK
<1>9. CASE NietMeerOpen(r)
  <2>1. verzoek' \in [Verzoeken -> Verzoek]
    BY <1>9, EindeTypen DEF NietMeerOpen, Afgelopen
  <2> QED BY <1>9, <2>1 DEF NietMeerOpen, TypeOK
<1>10. CASE VerzoekBreektAf(r)
  <2>1. verzoek' \in [Verzoeken -> Verzoek]
    BY <1>10, EindeTypen DEF VerzoekBreektAf, Afgelopen
  <2> QED BY <1>10, <2>1 DEF VerzoekBreektAf, TypeOK
<1> QED BY <1>1, <1>2, <1>3, <1>4, <1>6, <1>7, <1>8, <1>9, <1>10
        DEF Leverancier, VerzoekStap
LEMMA TypeBeheer ==
    ASSUME TypeOK, NEW b \in Beheerders, BeheerLeest(b) \/ BeheerSchrijft(b)
    PROVE  TypeOK'
<1> USE DEF ronde
<1>1. Vrij \in BeheerOp /\ 0 \in Vervaltijd
  BY TijdAanname DEF Vrij, BeheerOp, Vervaltijd
<1>2. tijd + Geldigheid \in Vervaltijd
  BY TijdAanname DEF TypeOK, Tijd, Vervaltijd
<1>3. ASSUME NEW naar \in OVERGANGEN(runStatus), LeesWijzigStatus(b, naar)
      PROVE  TypeOK'
  <2>1. naar \in RunStatussen
    BY <1>3 DEF OVERGANGEN, RunStatussen
  <2> QED BY <1>1, <1>3, <2>1, LeestTypen DEF LeesWijzigStatus, BeheerOp
<1>4. CASE LeesArchiveer(b)
  BY <1>1, <1>4, LeestTypen DEF LeesArchiveer, BeheerOp, RunStatussen
<1>5. ASSUME NEW v \in Vendors, LeesIntrekken(b, v)
      PROVE  TypeOK'
  BY <1>1, <1>5, LeestTypen DEF LeesIntrekken, BeheerOp
<1>6. ASSUME NEW v \in Vendors, LeesHeruitnodigen(b, v)
      PROVE  TypeOK'
  BY <1>2, <1>6, LeestTypen DEF LeesHeruitnodigen, BeheerOp
<1>7. ASSUME NEW wie \in SUBSET Vendors, LeesUitnodigen(b, wie)
      PROVE  TypeOK'
  BY <1>2, <1>7, LeestTypen DEF LeesUitnodigen, BeheerOp
<1>8. beheer' = [beheer EXCEPT ![b] = Vrij] =>
        /\ beheer' \in [Beheerders -> BeheerOp]
        /\ \A c \in Beheerders : beheer'[c].op = "status" => beheer'[c].naar \in RunStatussen
  BY <1>1 DEF TypeOK, Vrij
<1>9. beheer[b].naar \in RunStatussen \cup {Geen} /\ beheer[b].verloopt \in Vervaltijd
  BY DEF TypeOK, BeheerOp
<1>10. CASE SchrijfStatus(b)
  BY <1>8, <1>10 DEF SchrijfStatus, TypeOK
<1>11. ASSUME NEW v \in Vendors, SchrijfIntrekken(b, v)
       PROVE  TypeOK'
  BY <1>8, <1>11 DEF SchrijfIntrekken, TypeOK, Respons, ResponsStatussen
<1>12. ASSUME NEW v \in Vendors, NEW t \in Tokens, SchrijfHeruitnodigen(b, v, t)
       PROVE  TypeOK'
  <2>1. Heruitgenodigd(respons[v], t, beheer[b].verloopt) \in Respons
    BY <1>9 DEF Heruitgenodigd, TypeOK, Respons, ResponsStatussen
  <2> QED BY <1>8, <1>12, <2>1 DEF SchrijfHeruitnodigen, TypeOK
<1>13. ASSUME NEW token \in NieuweTokens(beheer[b].doel), SchrijfUitnodigen(b, token)
       PROVE  TypeOK'
  <2> DEFINE doel == beheer[b].doel
             nieuw(v) == [GeenRij EXCEPT !.status = "pending", !.token = token[v],
                                         !.expiresAt = beheer[b].verloopt]
  <2>1. \A v \in doel : token[v] \in Tokens
    BY <1>13 DEF NieuweTokens
  <2>2. \A v \in doel : nieuw(v) \in Respons
    BY <1>9, <2>1 DEF GeenRij, Respons, ResponsStatussen
  <2>3. respons' = [v \in Vendors |-> IF v \in doel THEN nieuw(v) ELSE respons[v]]
    BY <1>13 DEF SchrijfUitnodigen
  <2>4. uitgegeven' = uitgegeven \cup {token[v] : v \in doel}
    BY <1>13 DEF SchrijfUitnodigen
  <2>5. uitgegeven' \in SUBSET Tokens
    BY <2>1, <2>4 DEF TypeOK
  <2> HIDE DEF doel, nieuw
  <2>6. respons' \in [Vendors -> Respons]
    BY <2>2, <2>3 DEF TypeOK
  <2> QED BY <1>8, <1>13, <2>5, <2>6 DEF SchrijfUitnodigen, TypeOK
<1>14. CASE BeheerRoltTerug(b)
  BY <1>8, <1>14 DEF BeheerRoltTerug, TypeOK
<1> QED BY <1>3, <1>4, <1>5, <1>6, <1>7, <1>10, <1>11, <1>12, <1>13, <1>14
        DEF BeheerLeest, BeheerSchrijft

LEMMA TypeOmgeving ==
    ASSUME TypeOK, Omgeving
    PROVE  TypeOK'
<1> USE DEF ronde
<1>1. ASSUME NEW sluit \in Sluittijden, MaakRonde(sluit)
      PROVE  TypeOK'
  BY <1>1 DEF MaakRonde, TypeOK, RunStatussen
<1>2. ASSUME NEW v \in Vendors, RegistreerHandmatig(v)
      PROVE  TypeOK'
  BY <1>2 DEF RegistreerHandmatig, TypeOK, Respons
<1>3. ASSUME NEW v \in Vendors, VerwijderVendor(v)
      PROVE  TypeOK'
  BY <1>3 DEF VerwijderVendor, TypeOK
<1>4. CASE Tik
  BY <1>4, TijdAanname DEF Tik, TypeOK, Tijd
<1> QED BY <1>1, <1>2, <1>3, <1>4 DEF Omgeving

LEMMA TypeStutter ==
    ASSUME TypeOK, UNCHANGED vars
    PROVE  TypeOK'
  BY DEF TypeOK, vars

LEMMA TypeStap ==
    ASSUME TypeOK, [Next]_vars
    PROVE  TypeOK'
  BY TypeLeverancier, TypeBeheer, TypeOmgeving, TypeStutter DEF Next

(* Type correctness of every reachable state, for every instance.          *)
THEOREM TypeCorrect == Spec => []TypeOK
<1>1. Init => TypeOK
  BY InitType
<1>2. TypeOK /\ [Next]_vars => TypeOK'
  BY TypeStap
<1> QED BY <1>1, <1>2, PTL DEF Spec
-----------------------------------------------------------------------------
(* The inductive invariant is preserved.                                   *)

LEMMA InitInv == Init => IInv
<1> SUFFICES ASSUME Init PROVE IInv
  OBVIOUS
<1>1. TypeOK
  BY InitType
<1>2. \A v \in Vendors : RijInv(v)
  BY DEF Init, RijInv, GeenRij, CheckSubmittedConsistent
<1>3. \A r \in Verzoeken : VerzoekInv(r)
  BY DEF Init, VerzoekInv, NieuwVerzoek, Lopend, InTransactie
<1>4. \A b \in Beheerders : BeheerInv(b)
  BY DEF Init, BeheerInv, Vrij
<1>5. NietsVoorDeStart
  BY DEF Init, NietsVoorDeStart, GeenRij, NieuwVerzoek
<1> QED BY <1>1, <1>2, <1>3, <1>4, <1>5 DEF IInv

(* A step of one request that leaves the database alone.                   *)
LEMMA AlleenVerzoek ==
    ASSUME IInv, TypeOK', NEW r \in Verzoeken,
           UNCHANGED <<runStatus, respons, antwoord, audit, beheer>>,
           \A s \in Verzoeken \ {r} : verzoek'[s] = verzoek[s],
           VerzoekInv(r)',
           runStatus \in {"geen", "draft"} => verzoek'[r].pc \in {"nieuw", "geweigerd"}
    PROVE  IInv'
<1>1. \A v \in Vendors : RijInv(v)'
  BY DEF IInv, RijInv, CheckSubmittedConsistent
<1>2. \A s \in Verzoeken : VerzoekInv(s)'
  BY DEF IInv, VerzoekInv
<1>3. \A b \in Beheerders : BeheerInv(b)'
  BY DEF IInv, BeheerInv
<1>4. NietsVoorDeStart'
  BY DEF IInv, NietsVoorDeStart
<1> QED BY <1>1, <1>2, <1>3, <1>4 DEF IInv

LEMMA EindeVerzoek ==
    ASSUME TypeOK, NEW r \in Verzoeken, NEW uitkomst \in Afgelopen, Einde(r, uitkomst)
    PROVE  /\ \A s \in Verzoeken \ {r} : verzoek'[s] = verzoek[s]
           /\ verzoek'[r].pc = uitkomst
           /\ VerzoekInv(r)'
<1>1. verzoek'[r].pc = uitkomst
  BY DEF Einde, TypeOK, NieuwVerzoek
<1>2. uitkomst \notin Lopend
  BY DEF Afgelopen, Lopend, InTransactie
<1> QED BY <1>1, <1>2 DEF Einde, TypeOK, VerzoekInv

(* Once a request is past the guard the round has been started.            *)
LEMMA LopendNaStart ==
    ASSUME IInv, NEW r \in Verzoeken, verzoek[r].pc \in Lopend
    PROVE  runStatus \notin {"geen", "draft"}
  BY DEF IInv, NietsVoorDeStart, Lopend, InTransactie

(* A request that ends without touching the database.                      *)
LEMMA EindeInv ==
    ASSUME IInv, TypeOK', NEW r \in Verzoeken, NEW uitkomst \in Afgelopen,
           Einde(r, uitkomst),
           UNCHANGED <<runStatus, respons, antwoord, audit, beheer>>,
           verzoek[r].pc \in Lopend \/ uitkomst = "geweigerd"
    PROVE  IInv'
<1>1. TypeOK
  BY DEF IInv
<1> QED BY <1>1, EindeVerzoek, AlleenVerzoek, LopendNaStart

LEMMA InvLeverancierLeest ==
    ASSUME IInv, TypeOK', NEW r \in Verzoeken,
           \/ \E t \in uitgegeven, soort \in {"dienIn", "concept"},
                 wil \in SUBSET Vragen : Controleer(r, t, soort, wil)
           \/ BeginTransactie(r)
           \/ LeesVoorSchrijven(r)
           \/ LeesVoorAfsluiten(r)
           \/ NietMeerOpen(r)
           \/ VerzoekBreektAf(r)
    PROVE  IInv'
<1> USE DEF ronde
<1>0. TypeOK /\ VerzoekInv(r)
  BY DEF IInv
<1>1. ASSUME NEW t \in uitgegeven, NEW soort \in {"dienIn", "concept"},
             NEW wil \in SUBSET Vragen, Controleer(r, t, soort, wil)
      PROVE  IInv'
  <2>1. CASE Einde(r, "geweigerd")
    BY <1>1, <2>1, EindeInv DEF Controleer, Afgelopen
  <2>2. CASE ~Einde(r, "geweigerd")
    <3>1. PICK v \in Vendors :
            /\ Toegang(v)
            /\ verzoek' = [verzoek EXCEPT ![r] =
                 [NieuwVerzoek EXCEPT !.pc = "toegelaten", !.soort = soort,
                    !.vendor = v, !.token = t, !.wil = wil]]
      BY <1>1, <2>2 DEF Controleer
    <3>2. /\ verzoek'[r].pc = "toegelaten" /\ verzoek'[r].vendor = v
          /\ verzoek'[r].geschreven = {} /\ verzoek'[r].wil = wil
      BY <1>0, <3>1 DEF TypeOK, NieuwVerzoek
    <3>3. respons'[v].status # "geen"
      BY <1>1, <3>1 DEF Controleer, Toegang
    <3>4. VerzoekInv(r)'
      BY <3>2, <3>3 DEF VerzoekInv, InTransactie
    <3>5. runStatus \notin {"geen", "draft"}
      BY <3>1 DEF Toegang
    <3>6. \A s \in Verzoeken \ {r} : verzoek'[s] = verzoek[s]
      BY <1>0, <3>1 DEF TypeOK
    <3> QED BY <1>1, <3>4, <3>5, <3>6, AlleenVerzoek DEF Controleer
  <2> QED BY <2>1, <2>2
<1>2. CASE BeginTransactie(r)
  <2>1. verzoek[r].pc \in Lopend
    BY <1>2 DEF BeginTransactie, Lopend
  <2>2. CASE Einde(r, "ongeldig")
    BY <1>2, <2>1, <2>2, EindeInv DEF BeginTransactie, Afgelopen
  <2>3. CASE ~Einde(r, "ongeldig")
    <3> DEFINE pc == Vervolg(verzoek[r].soort, verzoek[r].wil, {})
    <3>1. /\ Geldig(verzoek[r].soort, verzoek[r].wil)
          /\ verzoek' = [verzoek EXCEPT ![r].pc = pc, ![r].start = tijd]
      BY <1>2, <2>3 DEF BeginTransactie
    <3>2. /\ verzoek'[r].pc = pc /\ verzoek'[r].vendor = verzoek[r].vendor
          /\ verzoek'[r].soort = verzoek[r].soort /\ verzoek'[r].wil = verzoek[r].wil
          /\ verzoek'[r].geschreven = verzoek[r].geschreven
          /\ \A s \in Verzoeken \ {r} : verzoek'[s] = verzoek[s]
      BY <1>0, <3>1 DEF TypeOK, Verzoek
    <3>3. verzoek[r].geschreven = {}
      BY <1>0, <1>2, <2>1 DEF VerzoekInv, BeginTransactie
    <3>4. /\ pc \in {"schrijven", "afsluiten", "vastleggen"}
          /\ pc = "afsluiten" => verzoek[r].soort = "dienIn" /\ verzoek[r].wil = {}
      BY DEF Vervolg
    <3>5. verzoek[r].vendor \in Vendors /\ respons'[verzoek[r].vendor].status # "geen"
      BY <1>0, <1>2, <2>1 DEF VerzoekInv, BeginTransactie
    <3> HIDE DEF pc
    <3>6. VerzoekInv(r)'
      <4>1. Geldig(verzoek'[r].soort, verzoek'[r].wil)
        BY <3>1, <3>2 DEF Geldig
      <4>2. verzoek'[r].geschreven = {}
        BY <3>2, <3>3
      <4>3. /\ verzoek'[r].pc # "toegelaten"
            /\ verzoek'[r].pc \in {"afsluiten", "besloten"} =>
                 verzoek'[r].soort = "dienIn" /\ verzoek'[r].geschreven = verzoek'[r].wil
        BY <3>2, <3>3, <3>4
      <4>4. verzoek'[r].vendor \in Vendors /\ respons'[verzoek'[r].vendor].status # "geen"
        BY <3>2, <3>5
      <4> QED BY <4>1, <4>2, <4>3, <4>4 DEF VerzoekInv
    <3> QED BY <1>2, <2>1, <3>2, <3>6, AlleenVerzoek, LopendNaStart DEF BeginTransactie
  <2> QED BY <2>2, <2>3
<1>3. ASSUME NEW van \in InTransactie, NEW naar \in {"gelezen", "besloten"},
             verzoek[r].pc = van,
             naar = "besloten" => van = "afsluiten",
             verzoek' = [verzoek EXCEPT ![r].pc = naar],
             UNCHANGED <<runStatus, respons, antwoord, audit, beheer>>
      PROVE  IInv'
  <2>1. verzoek[r].pc \in Lopend
    BY <1>3 DEF Lopend
  <2>2. /\ verzoek'[r].pc = naar /\ verzoek'[r].vendor = verzoek[r].vendor
        /\ verzoek'[r].soort = verzoek[r].soort /\ verzoek'[r].wil = verzoek[r].wil
        /\ verzoek'[r].geschreven = verzoek[r].geschreven
        /\ \A s \in Verzoeken \ {r} : verzoek'[s] = verzoek[s]
    BY <1>0, <1>3 DEF TypeOK, Verzoek
  <2>3. VerzoekInv(r)'
    BY <1>0, <1>3, <2>1, <2>2 DEF VerzoekInv, Geldig
  <2> QED BY <1>3, <2>1, <2>2, <2>3, AlleenVerzoek, LopendNaStart
<1>4. CASE LeesVoorSchrijven(r)
  BY <1>3, <1>4, EindeInv DEF LeesVoorSchrijven, InTransactie, Lopend, Afgelopen
<1>5. CASE LeesVoorAfsluiten(r)
  BY <1>3, <1>5, EindeInv DEF LeesVoorAfsluiten, InTransactie, Lopend, Afgelopen
<1>6. CASE NietMeerOpen(r)
  BY <1>6, EindeInv DEF NietMeerOpen, InTransactie, Lopend, Afgelopen
<1>7. CASE VerzoekBreektAf(r)
  BY <1>7, EindeInv DEF VerzoekBreektAf, Afgelopen
<1> QED BY <1>1, <1>2, <1>4, <1>5, <1>6, <1>7
(* The upsert keeps the written questions a lower segment of the body.     *)
LEMMA InvSchrijf ==
    ASSUME IInv, TypeOK', NEW r \in Verzoeken, NEW q \in Vragen, Schrijf(r, q)
    PROVE  IInv'
<1> DEFINE na == verzoek[r].geschreven \cup {q}
           pc == Vervolg(verzoek[r].soort, verzoek[r].wil, na)
<1>1. TypeOK /\ VerzoekInv(r)
  BY DEF IInv
<1>2. verzoek[r].pc = "gelezen" /\ IsVolgende(r, q)
  BY DEF Schrijf
<1>3. verzoek' = [verzoek EXCEPT ![r].geschreven = na, ![r].pc = pc]
  BY DEF Schrijf
<1>4. verzoek[r].pc \in Lopend /\ verzoek[r].pc \in InTransactie
  BY <1>2 DEF Lopend, InTransactie
<1> HIDE DEF na, pc
<1>5. /\ verzoek'[r].pc = pc /\ verzoek'[r].vendor = verzoek[r].vendor
      /\ verzoek'[r].soort = verzoek[r].soort /\ verzoek'[r].wil = verzoek[r].wil
      /\ verzoek'[r].geschreven = na
      /\ \A s \in Verzoeken \ {r} : verzoek'[s] = verzoek[s]
  BY <1>1, <1>3 DEF TypeOK, Verzoek
<1> USE DEF na, pc
<1>6. \A p \in na, w \in verzoek[r].wil \ na : p < w
  <2>1. q \in Int /\ \A w \in verzoek[r].wil : w \in Int
    BY <1>1, VragenAanname DEF TypeOK, Verzoek, Vragen
  <2>2. \A w \in verzoek[r].wil \ na : q <= w /\ q # w
    BY <1>2 DEF IsVolgende
  <2>3. \A w \in verzoek[r].wil \ na : q < w
    BY <2>1, <2>2
  <2>4. \A p \in verzoek[r].geschreven, w \in verzoek[r].wil \ na : p < w
    BY <1>1, <1>4 DEF VerzoekInv
  <2> QED BY <2>3, <2>4
<1>7. na \subseteq verzoek[r].wil
  BY <1>1, <1>2, <1>4 DEF VerzoekInv, IsVolgende
<1>8. /\ pc \in {"schrijven", "afsluiten", "vastleggen"}
      /\ pc = "afsluiten" => verzoek[r].soort = "dienIn" /\ na = verzoek[r].wil
  BY DEF Vervolg
<1>9. UNCHANGED <<runStatus, respons, antwoord, audit, beheer>>
  BY DEF Schrijf, ronde
<1>10. /\ verzoek[r].vendor \in Vendors /\ respons[verzoek[r].vendor].status # "geen"
       /\ Geldig(verzoek[r].soort, verzoek[r].wil)
  BY <1>1, <1>4 DEF VerzoekInv
<1> HIDE DEF na, pc
<1>11. Geldig(verzoek'[r].soort, verzoek'[r].wil)
  BY <1>5, <1>10 DEF Geldig
<1>12. VerzoekInv(r)'
  BY <1>5, <1>6, <1>7, <1>8, <1>9, <1>10, <1>11 DEF VerzoekInv
<1> QED BY <1>4, <1>5, <1>9, <1>12, AlleenVerzoek, LopendNaStart

(* What a commit publishes, for the vendor of the request and the others.  *)
LEMMA VastgelegdFeit ==
    ASSUME TypeOK, NEW r \in Verzoeken, NEW v \in Vendors, NEW q \in Vragen
    PROVE  Vastgelegd(r)[v][q] = IF v = verzoek[r].vendor /\ q \in verzoek[r].geschreven
                                 THEN r ELSE antwoord[v][q]
  BY DEF Vastgelegd, TypeOK

LEMMA InvConceptCommit ==
    ASSUME IInv, TypeOK', NEW r \in Verzoeken, ConceptCommit(r)
    PROVE  IInv'
<1> USE DEF ronde
<1>1. TypeOK /\ runStatus \notin {"geen", "draft"}
  BY LopendNaStart DEF IInv, ConceptCommit, Lopend, InTransactie
<1>2. /\ \A s \in Verzoeken \ {r} : verzoek'[s] = verzoek[s]
      /\ VerzoekInv(r)'
  BY <1>1, EindeVerzoek DEF ConceptCommit, Afgelopen
<1>3. UNCHANGED <<runStatus, respons, audit, beheer>> /\ antwoord' = Vastgelegd(r)
  BY DEF ConceptCommit
<1>4. \A v \in Vendors, q \in Vragen : antwoord[v][q] # Geen => antwoord'[v][q] # Geen
  BY <1>1, <1>3, VastgelegdFeit, GeenAanname
<1>5. \A v \in Vendors : RijInv(v)'
  BY <1>3, <1>4, VragenAanname DEF IInv, RijInv, CheckSubmittedConsistent
<1>6. \A s \in Verzoeken : VerzoekInv(s)'
  BY <1>2, <1>3 DEF IInv, VerzoekInv
<1>7. \A b \in Beheerders : BeheerInv(b)'
  BY <1>3 DEF IInv, BeheerInv
<1>8. NietsVoorDeStart'
  BY <1>1, <1>3 DEF NietsVoorDeStart
<1> QED BY <1>5, <1>6, <1>7, <1>8 DEF IInv

(* The one step that submits: the WHERE gives pending and in time, the     *)
(* validation and the finished loop give every required answer.            *)
LEMMA InvAfsluiten ==
    ASSUME IInv, TypeOK', NEW r \in Verzoeken, Afsluiten(r)
    PROVE  IInv'
<1> USE DEF ronde
<1>1. TypeOK /\ runStatus \notin {"geen", "draft"} /\ verzoek[r].pc = "besloten"
  BY LopendNaStart DEF IInv, Afsluiten, Lopend, InTransactie
<1>2. /\ \A s \in Verzoeken \ {r} : verzoek'[s] = verzoek[s]
      /\ VerzoekInv(r)'
  BY <1>1, EindeVerzoek DEF Afsluiten, Afgelopen
<1>3. /\ verzoek[r].vendor \in Vendors /\ verzoek[r].soort = "dienIn"
      /\ verzoek[r].geschreven = verzoek[r].wil
      /\ Verplicht \subseteq verzoek[r].wil
  BY <1>1 DEF IInv, VerzoekInv, Lopend, InTransactie, Geldig
<1> PICK v \in Vendors : v = verzoek[r].vendor
  BY <1>3
<1>4. /\ respons' = [respons EXCEPT ![v].status = "submitted",
                                    ![v].submittedAt = verzoek[r].start]
      /\ audit' = [audit EXCEPT ![v] = @ + 1]
      /\ antwoord' = Vastgelegd(r)
      /\ UNCHANGED <<runStatus, beheer>>
      /\ respons[v].status = "pending"
      /\ respons[v].expiresAt > verzoek[r].start
  BY DEF Afsluiten, NogOpen
<1>5. verzoek[r].start \in Int /\ verzoek[r].start # Geen /\ respons[v].expiresAt \in Int
  BY <1>1, <1>3, RijTypen, GeenAanname, TijdAanname DEF Tijd
<1>6. /\ respons'[v].status = "submitted"
      /\ respons'[v].submittedAt = verzoek[r].start
      /\ respons'[v].expiresAt = respons[v].expiresAt
      /\ respons'[v].token = respons[v].token
      /\ respons'[v].handmatig = respons[v].handmatig
      /\ audit'[v] = audit[v] + 1
      /\ \A w \in Vendors \ {v} : respons'[w] = respons[w] /\ audit'[w] = audit[w]
  BY <1>1, <1>3, <1>4 DEF TypeOK, Respons
<1>7. \A w \in Vendors, q \in Vragen : antwoord[w][q] # Geen => antwoord'[w][q] # Geen
  BY <1>1, <1>4, VastgelegdFeit, GeenAanname
<1>8. \A q \in Verplicht : antwoord'[v][q] # Geen
  <2> SUFFICES ASSUME NEW q \in Verplicht PROVE antwoord'[v][q] # Geen
    OBVIOUS
  <2>1. q \in Vragen /\ q \in verzoek[r].geschreven
    BY <1>3, VragenAanname
  <2>2. antwoord'[v][q] = r
    BY <1>1, <1>3, <1>4, <2>1, VastgelegdFeit
  <2> QED BY <2>2, GeenAanname
<1>9. audit[v] = 0 /\ respons[v].handmatig \in {Geen, respons[v].token}
  BY <1>3, <1>4 DEF IInv, RijInv
<1>10. RijInv(v)'
  BY <1>4, <1>5, <1>6, <1>8, <1>9 DEF RijInv, CheckSubmittedConsistent
<1>11. \A w \in Vendors \ {v} : RijInv(w)'
  BY <1>6, <1>7, VragenAanname DEF IInv, RijInv, CheckSubmittedConsistent
<1>12. \A w \in Vendors : respons[w].status # "geen" => respons'[w].status # "geen"
  BY <1>6
<1>13. \A s \in Verzoeken : VerzoekInv(s)'
  BY <1>2, <1>12 DEF IInv, VerzoekInv
<1>14. \A b \in Beheerders : beheer[b].doel \subseteq Vendors
  BY <1>1 DEF TypeOK, BeheerOp
<1>15. \A b \in Beheerders : BeheerInv(b)'
  BY <1>4, <1>12, <1>14 DEF IInv, BeheerInv
<1>16. NietsVoorDeStart'
  BY <1>1, <1>4 DEF NietsVoorDeStart
<1> QED BY <1>10, <1>11, <1>13, <1>15, <1>16 DEF IInv
(* An administrator step that leaves round, answers and requests alone and *)
(* keeps the rows of responses well-formed.                                *)
LEMMA AlleenRespons ==
    ASSUME IInv, TypeOK',
           UNCHANGED <<antwoord, audit, verzoek>>,
           runStatus' = runStatus \/ runStatus' \notin {"geen", "draft"}
               \/ (runStatus = "geen" /\ runStatus' = "draft"),
           \A v \in Vendors : RijInv(v)',
           \A v \in Vendors : respons[v].status # "geen" => respons'[v].status # "geen",
           \A v \in Vendors : respons'[v].status = "submitted"
                                => respons[v].status = "submitted",
           \A b \in Beheerders : BeheerInv(b)'
    PROVE  IInv'
<1>1. \A r \in Verzoeken : VerzoekInv(r)'
  BY DEF IInv, VerzoekInv
<1>2. NietsVoorDeStart'
  BY DEF IInv, NietsVoorDeStart
<1> QED BY <1>1, <1>2 DEF IInv

LEMMA BeheerVerder ==
    ASSUME IInv, NEW b \in Beheerders,
           \A c \in Beheerders \ {b} : beheer'[c] = beheer[c],
           BeheerInv(b)',
           runStatus # "geen" => runStatus' # "geen",
           \A v \in Vendors : respons[v].status # "geen" => respons'[v].status # "geen"
    PROVE  \A c \in Beheerders : BeheerInv(c)'
<1>1. \A c \in Beheerders : beheer[c].doel \subseteq Vendors
  BY DEF IInv, TypeOK, BeheerOp
<1> QED BY <1>1 DEF IInv, BeheerInv

LEMMA LeestInv ==
    ASSUME IInv, TypeOK', NEW b \in Beheerders, NEW op, NEW naar, NEW doel, NEW verloopt,
           Leest(b, op, naar, doel, verloopt),
           op = "status" => runStatus # "geen" /\ naar \in {"active", "finished", "archived"},
           op = "intrekken" => \A v \in doel : respons[v].status # "geen"
    PROVE  IInv'
<1> USE DEF ronde
<1>1. /\ UNCHANGED <<runStatus, respons, antwoord, audit, verzoek>>
      /\ beheer'[b] = [op |-> op, naar |-> naar, doel |-> doel, verloopt |-> verloopt]
      /\ \A c \in Beheerders \ {b} : beheer'[c] = beheer[c]
  BY DEF Leest, IInv, TypeOK
<1>2. BeheerInv(b)'
  BY <1>1 DEF BeheerInv
<1>3. \A v \in Vendors : RijInv(v)'
  BY <1>1 DEF IInv, RijInv, CheckSubmittedConsistent
<1> QED BY <1>1, <1>2, <1>3, BeheerVerder, AlleenRespons

LEMMA InvBeheerLeest ==
    ASSUME IInv, TypeOK', NEW b \in Beheerders, BeheerLeest(b)
    PROVE  IInv'
<1>1. ASSUME NEW naar \in OVERGANGEN(runStatus), LeesWijzigStatus(b, naar)
      PROVE  IInv'
  <2>1. runStatus # "geen" /\ naar \in {"active", "finished", "archived"}
    BY <1>1 DEF OVERGANGEN
  <2> QED BY <1>1, <2>1, LeestInv DEF LeesWijzigStatus
<1>2. CASE LeesArchiveer(b)
  BY <1>2, LeestInv DEF LeesArchiveer
<1>3. ASSUME NEW v \in Vendors, LeesIntrekken(b, v)
      PROVE  IInv'
  BY <1>3, LeestInv DEF LeesIntrekken
<1>4. ASSUME NEW v \in Vendors, LeesHeruitnodigen(b, v)
      PROVE  IInv'
  BY <1>4, LeestInv DEF LeesHeruitnodigen
<1>5. ASSUME NEW wie \in SUBSET Vendors, LeesUitnodigen(b, wie)
      PROVE  IInv'
  BY <1>5, LeestInv DEF LeesUitnodigen
<1> QED BY <1>1, <1>2, <1>3, <1>4, <1>5 DEF BeheerLeest

(* What the writes do to a row.                                            *)
LEMMA IntrekkenFeit ==
    ASSUME IInv, NEW b \in Beheerders, NEW v \in Vendors, SchrijfIntrekken(b, v)
    PROVE  /\ respons[v].status \in {"pending", "revoked"}
           /\ respons'[v] = [respons[v] EXCEPT !.status = "revoked"]
           /\ \A w \in Vendors \ {v} : respons'[w] = respons[w]
<1>1. TypeOK /\ respons[v] \in Respons /\ respons[v].status \in ResponsStatussen
  BY RijTypen DEF IInv
<1>2. respons[v].status # "geen"
  BY DEF IInv, BeheerInv, SchrijfIntrekken
<1>3. respons[v].submittedAt = Geen
  BY <1>1 DEF SchrijfIntrekken, CheckSubmittedConsistent, Respons
<1>4. respons[v].status # "submitted"
  BY <1>3 DEF IInv, RijInv, CheckSubmittedConsistent
<1> QED BY <1>1, <1>2, <1>4 DEF SchrijfIntrekken, ResponsStatussen, TypeOK

LEMMA HeruitnodigenFeit ==
    ASSUME TypeOK, NEW b \in Beheerders, NEW v \in Vendors, NEW t \in Tokens,
           SchrijfHeruitnodigen(b, v, t)
    PROVE  /\ respons[v].status = "revoked"
           /\ respons'[v].status = "pending" /\ respons'[v].token = t
           /\ respons'[v].handmatig = Geen
           /\ respons'[v].submittedAt = respons[v].submittedAt
           /\ \A w \in Vendors \ {v} : respons'[w] = respons[w]
  BY DEF SchrijfHeruitnodigen, NogIngetrokken, Heruitgenodigd, TypeOK, Respons

LEMMA UitnodigenFeit ==
    ASSUME NEW b \in Beheerders, NEW token, SchrijfUitnodigen(b, token)
    PROVE  /\ \A v \in Vendors \ beheer[b].doel : respons'[v] = respons[v]
           /\ \A v \in Vendors \cap beheer[b].doel :
                /\ respons[v].status = "geen"
                /\ respons'[v].status = "pending" /\ respons'[v].token = token[v]
                /\ respons'[v].submittedAt = Geen /\ respons'[v].handmatig = Geen
  BY DEF SchrijfUitnodigen, GeenRij

LEMMA InvBeheerSchrijft ==
    ASSUME IInv, TypeOK', NEW b \in Beheerders, BeheerSchrijft(b)
    PROVE  IInv'
<1> USE DEF ronde
<1>1. TypeOK
  BY DEF IInv
<1>2. ASSUME beheer' = [beheer EXCEPT ![b] = Vrij]
      PROVE  /\ BeheerInv(b)'
             /\ \A c \in Beheerders \ {b} : beheer'[c] = beheer[c]
  BY <1>1, <1>2 DEF TypeOK, BeheerInv, Vrij
<1>3. CASE SchrijfStatus(b)
  <2>1. runStatus' \in {"active", "finished", "archived"}
    BY <1>3 DEF SchrijfStatus, IInv, BeheerInv
  <2>2. UNCHANGED <<respons, antwoord, audit, verzoek>>
    BY <1>3 DEF SchrijfStatus
  <2>3. \A v \in Vendors : RijInv(v)'
    BY <2>2 DEF IInv, RijInv, CheckSubmittedConsistent
  <2>4. \A c \in Beheerders : BeheerInv(c)'
    BY <1>2, <1>3, <2>1, <2>2, BeheerVerder DEF SchrijfStatus
  <2> QED BY <2>1, <2>2, <2>3, <2>4, AlleenRespons
<1>4. ASSUME NEW v \in Vendors, SchrijfIntrekken(b, v)
      PROVE  IInv'
  <2>1. /\ respons[v].status \in {"pending", "revoked"}
        /\ respons'[v] = [respons[v] EXCEPT !.status = "revoked"]
        /\ \A w \in Vendors \ {v} : respons'[w] = respons[w]
    BY <1>4, IntrekkenFeit
  <2>2. /\ respons'[v].status = "revoked" /\ respons'[v].token = respons[v].token
        /\ respons'[v].handmatig = respons[v].handmatig
        /\ respons'[v].submittedAt = respons[v].submittedAt
    BY <1>1, <2>1 DEF TypeOK, Respons
  <2>3. UNCHANGED <<runStatus, antwoord, audit, verzoek>>
    BY <1>4 DEF SchrijfIntrekken
  <2>4. \A w \in Vendors : RijInv(w)'
    <3>1. RijInv(v)'
      BY <2>1, <2>2, <2>3 DEF IInv, RijInv, CheckSubmittedConsistent
    <3>2. \A w \in Vendors \ {v} : RijInv(w)'
      BY <2>1, <2>3 DEF IInv, RijInv, CheckSubmittedConsistent
    <3> QED BY <3>1, <3>2
  <2>5. \A c \in Beheerders : BeheerInv(c)'
    BY <1>2, <1>4, <2>1, <2>2, <2>3, BeheerVerder DEF SchrijfIntrekken
  <2> QED BY <2>1, <2>2, <2>3, <2>4, <2>5, AlleenRespons
<1>5. ASSUME NEW v \in Vendors, NEW t \in Tokens, SchrijfHeruitnodigen(b, v, t)
      PROVE  IInv'
  <2>1. /\ respons[v].status = "revoked"
        /\ respons'[v].status = "pending" /\ respons'[v].token = t
        /\ respons'[v].handmatig = Geen
        /\ respons'[v].submittedAt = respons[v].submittedAt
        /\ \A w \in Vendors \ {v} : respons'[w] = respons[w]
    BY <1>1, <1>5, HeruitnodigenFeit
  <2>2. UNCHANGED <<runStatus, antwoord, audit, verzoek>>
    BY <1>5 DEF SchrijfHeruitnodigen
  <2>3. \A w \in Vendors : RijInv(w)'
    BY <2>1, <2>2 DEF IInv, RijInv, CheckSubmittedConsistent
  <2>4. \A c \in Beheerders : BeheerInv(c)'
    BY <1>2, <1>5, <2>1, <2>2, BeheerVerder DEF SchrijfHeruitnodigen
  <2> QED BY <2>1, <2>2, <2>3, <2>4, AlleenRespons
<1>6. ASSUME NEW token \in NieuweTokens(beheer[b].doel), SchrijfUitnodigen(b, token)
      PROVE  IInv'
  <2>1. /\ \A v \in Vendors \ beheer[b].doel : respons'[v] = respons[v]
        /\ \A v \in Vendors \cap beheer[b].doel :
             /\ respons[v].status = "geen"
             /\ respons'[v].status = "pending"
             /\ respons'[v].submittedAt = Geen /\ respons'[v].handmatig = Geen
    BY <1>6, UitnodigenFeit
  <2>2. UNCHANGED <<runStatus, antwoord, audit, verzoek>>
    BY <1>6 DEF SchrijfUitnodigen
  <2>3. \A w \in Vendors : RijInv(w)'
    BY <2>1, <2>2 DEF IInv, RijInv, CheckSubmittedConsistent
  <2>4. \A c \in Beheerders : BeheerInv(c)'
    BY <1>2, <1>6, <2>1, <2>2, BeheerVerder DEF SchrijfUitnodigen
  <2> QED BY <2>1, <2>2, <2>3, <2>4, AlleenRespons
<1>7. CASE BeheerRoltTerug(b)
  <2>1. UNCHANGED <<runStatus, respons, antwoord, audit, verzoek>>
    BY <1>7 DEF BeheerRoltTerug
  <2>2. \A v \in Vendors : RijInv(v)'
    BY <2>1 DEF IInv, RijInv, CheckSubmittedConsistent
  <2>3. \A c \in Beheerders : BeheerInv(c)'
    BY <1>2, <1>7, <2>1, BeheerVerder DEF BeheerRoltTerug
  <2> QED BY <2>1, <2>2, <2>3, AlleenRespons
<1> QED BY <1>3, <1>4, <1>5, <1>6, <1>7 DEF BeheerSchrijft

LEMMA InvOmgeving ==
    ASSUME IInv, TypeOK', Omgeving
    PROVE  IInv'
<1> USE DEF ronde
<1>1. ASSUME UNCHANGED <<antwoord, audit, verzoek, beheer>>,
             runStatus' = runStatus \/ (runStatus = "geen" /\ runStatus' = "draft"),
             \A v \in Vendors : RijInv(v)',
             \A v \in Vendors : respons'[v].status = respons[v].status
      PROVE  IInv'
  <2>1. \A b \in Beheerders : beheer[b].doel \subseteq Vendors
    BY DEF IInv, TypeOK, BeheerOp
  <2>2. \A b \in Beheerders : BeheerInv(b)'
    BY <1>1, <2>1 DEF IInv, BeheerInv
  <2> QED BY <1>1, <2>2, AlleenRespons
<1>2. ASSUME UNCHANGED <<respons, antwoord, audit>>
      PROVE  \A v \in Vendors : RijInv(v)'
  BY <1>2 DEF IInv, RijInv, CheckSubmittedConsistent
<1>3. ASSUME NEW sluit \in Sluittijden, MaakRonde(sluit)
      PROVE  IInv'
  BY <1>1, <1>2, <1>3 DEF MaakRonde
<1>4. ASSUME NEW v \in Vendors, RegistreerHandmatig(v)
      PROVE  IInv'
  <2>1. /\ respons'[v] = [respons[v] EXCEPT !.handmatig = respons[v].token]
        /\ \A w \in Vendors \ {v} : respons'[w] = respons[w]
        /\ UNCHANGED <<runStatus, antwoord, audit, verzoek, beheer>>
    BY <1>4 DEF RegistreerHandmatig, IInv, TypeOK
  <2>2. /\ respons'[v].status = respons[v].status
        /\ respons'[v].token = respons[v].token
        /\ respons'[v].handmatig = respons[v].token
        /\ respons'[v].submittedAt = respons[v].submittedAt
        /\ respons'[v].expiresAt = respons[v].expiresAt
    BY <2>1 DEF IInv, TypeOK, Respons
  <2>3. \A w \in Vendors : RijInv(w)'
    <3>1. RijInv(v)'
      BY <2>1, <2>2 DEF IInv, RijInv, CheckSubmittedConsistent
    <3>2. \A w \in Vendors \ {v} : RijInv(w)'
      BY <2>1 DEF IInv, RijInv, CheckSubmittedConsistent
    <3> QED BY <3>1, <3>2
  <2> QED BY <1>1, <2>1, <2>2, <2>3
<1>5. ASSUME NEW v \in Vendors, VerwijderVendor(v)
      PROVE  IInv'
  BY <1>1, <1>2, <1>5 DEF VerwijderVendor
<1>6. CASE Tik
  BY <1>1, <1>2, <1>6 DEF Tik
<1> QED BY <1>3, <1>4, <1>5, <1>6 DEF Omgeving

LEMMA InvStutter ==
    ASSUME IInv, UNCHANGED vars
    PROVE  IInv'
<1> USE DEF vars
<1>1. \A v \in Vendors : RijInv(v)'
  BY DEF IInv, RijInv, CheckSubmittedConsistent
<1>2. \A r \in Verzoeken : VerzoekInv(r)'
  BY DEF IInv, VerzoekInv
<1>3. \A b \in Beheerders : BeheerInv(b)'
  BY DEF IInv, BeheerInv
<1>4. TypeOK' /\ NietsVoorDeStart'
  BY DEF IInv, TypeOK, NietsVoorDeStart
<1> QED BY <1>1, <1>2, <1>3, <1>4 DEF IInv

LEMMA InvStap ==
    ASSUME IInv, [Next]_vars
    PROVE  IInv'
<1>1. TypeOK'
  BY TypeStap DEF IInv
<1>2. ASSUME NEW r \in Verzoeken, Leverancier(r)
      PROVE  IInv'
  BY <1>1, <1>2, InvLeverancierLeest, InvSchrijf, InvConceptCommit, InvAfsluiten
     DEF Leverancier, VerzoekStap
<1> QED BY <1>1, <1>2, InvBeheerLeest, InvBeheerSchrijft, InvOmgeving, InvStutter DEF Next

THEOREM Invariant == Spec => []IInv
<1>1. Init => IInv
  BY InitInv
<1>2. IInv /\ [Next]_vars => IInv'
  BY InvStap
<1> QED BY <1>1, <1>2, PTL DEF Spec
-----------------------------------------------------------------------------
(* The safety invariants.                                                  *)

(* Every submitted response has all its required answers.                  *)
THEOREM Compleet == Spec => []IngediendIsCompleet
<1>1. IInv => IngediendIsCompleet
  BY DEF IInv, RijInv, IngediendIsCompleet
<1> QED BY <1>1, Invariant, PTL

(* One audit line per submission, and none without one.                    *)
THEOREM EenAuditregel == Spec => []EenAuditregelPerIndiening
<1>1. IInv => EenAuditregelPerIndiening
  BY DEF IInv, RijInv, EenAuditregelPerIndiening
<1> QED BY <1>1, Invariant, PTL

(* A submission lies before the expiry of the link in force.               *)
THEOREM BinnenTermijn == Spec => []IngediendBinnenTermijn
<1>1. IInv => IngediendBinnenTermijn
  BY DEF IInv, RijInv, CheckSubmittedConsistent, IngediendBinnenTermijn
<1> QED BY <1>1, Invariant, PTL

(* Nothing of a supplier gets in before the round is started.              *)
THEOREM VoorDeStart == Spec => []NietsVoorDeStart
<1>1. IInv => NietsVoorDeStart
  BY DEF IInv
<1> QED BY <1>1, Invariant, PTL

(* A note on a manual mailing is about the link in force.                  *)
THEOREM HandmatigKlopt == Spec => []HandmatigBijHuidigeLink
<1>1. IInv => HandmatigBijHuidigeLink
  BY DEF IInv, RijInv, HandmatigBijHuidigeLink
<1> QED BY <1>1, Invariant, PTL

(* A group that waits on itself would give an endless climb in 1..N.       *)
LEMMA GeenCyclus == IInv => GeenWachtcyclus
<1> SUFFICES ASSUME IInv, NEW groep \in SUBSET Verzoeken, groep # {},
                    \A r \in groep : \E s \in groep : WachtOp(r, s)
             PROVE  FALSE
  BY DEF GeenWachtcyclus
<1> DEFINE gewild == {q \in Vragen : \E r \in groep : IsVolgende(r, q)}
           R == OpToRel(<, Nat)
<1>1. gewild \subseteq Nat
  BY VragenAanname DEF Vragen
<1>2. gewild # {}
  <2>1. PICK r \in groep : TRUE
    OBVIOUS
  <2>2. PICK s \in groep : WachtOp(r, s)
    BY <2>1
  <2> QED BY <2>1, <2>2 DEF WachtOp
<1>3. \A p \in gewild : \E q \in gewild : p < q
  <2> SUFFICES ASSUME NEW p \in gewild PROVE \E q \in gewild : p < q
    OBVIOUS
  <2>1. PICK r \in groep : IsVolgende(r, p)
    OBVIOUS
  <2>2. PICK s \in groep : WachtOp(r, s)
    BY <2>1
  <2>3. PICK u \in groep : WachtOp(s, u)
    BY <2>2
  <2>4. PICK q \in Vragen : IsVolgende(s, q)
    BY <2>3 DEF WachtOp
  <2>5. p \in verzoek[s].geschreven
    <3>1. PICK p2 \in Vragen : IsVolgende(r, p2) /\ p2 \in verzoek[s].geschreven
      BY <2>2 DEF WachtOp, HoudtRij
    <3>2. p2 = p
      BY <2>1, <3>1, VragenAanname DEF IsVolgende, Vragen
    <3> QED BY <3>1, <3>2
  <2>6. verzoek[s].pc = "gelezen"
    BY <2>3 DEF WachtOp
  <2>7. p < q
    BY <2>4, <2>5, <2>6 DEF IInv, VerzoekInv, IsVolgende, Lopend, InTransactie
  <2> QED BY <2>4, <2>7
<1> DEFINE afstand == {AantalVragen - q : q \in gewild}
<1>4. afstand \subseteq Nat /\ afstand # {}
  BY <1>1, <1>2, VragenAanname DEF Vragen
<1>5. PICK x \in afstand : \A y \in afstand : ~(<<y, x>> \in R)
  <2> HIDE DEF afstand, R
  <2>1. IsWellFoundedOn(R, Nat)
    BY NatLessThanWellFounded DEF R
  <2> QED BY <1>4, <2>1, WFMin
<1>6. PICK p \in gewild : x = AantalVragen - p
  OBVIOUS
<1>7. PICK q \in gewild : p < q
  BY <1>3
<1>8. /\ AantalVragen - q \in afstand /\ AantalVragen - q < x
      /\ AantalVragen - q \in Nat /\ x \in Nat
  BY <1>1, <1>4, <1>6, <1>7, VragenAanname
<1>9. <<AantalVragen - q, x>> \in R
  BY <1>8 DEF OpToRel
<1> QED BY <1>5, <1>8, <1>9

(* Saving and submitting never wait on each other in a circle.             *)
THEOREM GeenDeadlock == Spec => []GeenWachtcyclus
  BY Invariant, GeenCyclus, PTL

-----------------------------------------------------------------------------
(* What no step may do.                                                    *)

(* How a step can touch the row of a response.                             *)
LEMMA RespStap ==
    ASSUME IInv, [Next]_vars, NEW v \in Vendors, respons'[v] # respons[v]
    PROVE  \/ /\ respons[v].status = "pending"
              /\ respons'[v].token = respons[v].token
           \/ respons[v].status \in {"geen", "revoked"}
           \/ /\ respons'[v] = [respons[v] EXCEPT !.handmatig = respons[v].token]
<1> USE DEF ronde
<1>1. TypeOK
  BY DEF IInv
<1>2. ASSUME NEW r \in Verzoeken, Afsluiten(r)
      PROVE  respons[v].status = "pending" /\ respons'[v].token = respons[v].token
  <2>1. verzoek[r].vendor = v
    BY <1>1, <1>2 DEF Afsluiten, TypeOK
  <2> QED BY <1>1, <1>2, <2>1 DEF Afsluiten, NogOpen, TypeOK, Respons
<1>3. ASSUME NEW b \in Beheerders, NEW w \in Vendors, SchrijfIntrekken(b, w)
      PROVE  \/ respons[v].status = "pending" /\ respons'[v].token = respons[v].token
             \/ respons[v].status = "revoked"
  <2>1. /\ respons[w].status \in {"pending", "revoked"}
        /\ respons'[w] = [respons[w] EXCEPT !.status = "revoked"]
        /\ \A x \in Vendors \ {w} : respons'[x] = respons[x]
    BY <1>3, IntrekkenFeit
  <2>2. w = v
    BY <2>1
  <2>3. respons'[v].token = respons[v].token
    BY <1>1, <2>1, <2>2 DEF TypeOK, Respons
  <2> QED BY <2>1, <2>2, <2>3
<1>4. ASSUME NEW b \in Beheerders, NEW w \in Vendors, NEW t \in Tokens,
             SchrijfHeruitnodigen(b, w, t)
      PROVE  respons[v].status = "revoked"
  BY <1>1, <1>4, HeruitnodigenFeit
<1>5. ASSUME NEW b \in Beheerders, NEW token, SchrijfUitnodigen(b, token)
      PROVE  respons[v].status = "geen"
  BY <1>5, UitnodigenFeit
<1>6. ASSUME NEW w \in Vendors, RegistreerHandmatig(w)
      PROVE  respons'[v] = [respons[v] EXCEPT !.handmatig = respons[v].token]
  BY <1>1, <1>6 DEF RegistreerHandmatig, TypeOK
<1>7. CASE UNCHANGED respons
  BY <1>7
<1> QED
  BY <1>2, <1>3, <1>4, <1>5, <1>6, <1>7
  DEF Next, Leverancier, VerzoekStap, BeheerLeest, BeheerSchrijft, Omgeving, vars,
      Controleer, BeginTransactie, LeesVoorSchrijven, Schrijf, ConceptCommit,
      LeesVoorAfsluiten, NietMeerOpen, VerzoekBreektAf, LeesWijzigStatus, LeesArchiveer,
      LeesIntrekken, LeesHeruitnodigen, LeesUitnodigen, Leest, SchrijfStatus,
      BeheerRoltTerug, MaakRonde, VerwijderVendor, Tik

(* A submission is final.                                                  *)
THEOREM Definitief == Spec => IngediendIsDefinitief
<1>1. ASSUME IInv, [Next]_vars, NEW v \in Vendors
      PROVE  RijBlijft(v)
  <2>1. CASE respons'[v] = respons[v]
    BY <2>1 DEF RijBlijft
  <2>2. CASE respons'[v] = [respons[v] EXCEPT !.handmatig = respons[v].token]
    BY <1>1, <2>2 DEF RijBlijft, IInv, TypeOK, Respons
  <2>3. CASE respons[v].status # "submitted"
    BY <2>3 DEF RijBlijft
  <2> QED BY <1>1, <2>1, <2>2, <2>3, RespStap
<1>2. IInv /\ [Next]_vars => [\A v \in Vendors : RijBlijft(v)]_vars
  BY <1>1
<1> QED BY <1>2, Invariant, PTL DEF Spec, IngediendIsDefinitief

(* A link in force is never replaced.                                      *)
THEOREM LinkBlijftStaan == Spec => LinkAlleenNaIntrekken
<1>1. ASSUME IInv, [Next]_vars, NEW v \in Vendors
      PROVE  LinkBlijft(v)
  <2>1. CASE respons'[v] = [respons[v] EXCEPT !.handmatig = respons[v].token]
    BY <1>1, <2>1 DEF LinkBlijft, IInv, TypeOK, Respons
  <2> QED BY <1>1, <2>1, RespStap DEF LinkBlijft
<1>2. IInv /\ [Next]_vars => [\A v \in Vendors : LinkBlijft(v)]_vars
  BY <1>1
<1> QED BY <1>2, Invariant, PTL DEF Spec, LinkAlleenNaIntrekken
-----------------------------------------------------------------------------
(* The round implements ResponsLeven.                                      *)

LEMMA VerfijningInit == Init => RL!RLInit
  BY DEF Init, RL!RLInit, GeenRij, Fase

(* A step that the abstract life of a response does not see.               *)
LEMMA Onzichtbaar ==
    ASSUME UNCHANGED <<antwoord, audit, uitgegeven>>,
           \A v \in Vendors : /\ respons'[v].status = respons[v].status
                             /\ respons'[v].token = respons[v].token
    PROVE  UNCHANGED RL!rlVars
  BY DEF RL!rlVars

(* What a transaction adds to the answers of one vendor, read abstractly.  *)
LEMMA BeantwoordErbij ==
    ASSUME NEW v \in Vendors, NEW vragen \in SUBSET Vragen,
           \A w \in Vendors, q \in Vragen :
             antwoord'[w][q] # Geen <=> antwoord[w][q] # Geen \/ (w = v /\ q \in vragen)
    PROVE  [w \in Vendors |-> {q \in Vragen : antwoord'[w][q] # Geen}] =
             [[w \in Vendors |-> {q \in Vragen : antwoord[w][q] # Geen}]
                EXCEPT ![v] = @ \cup vragen]
<1>1. {q \in Vragen : antwoord'[v][q] # Geen} = {q \in Vragen : antwoord[v][q] # Geen} \cup vragen
  OBVIOUS
<1>2. \A w \in Vendors \ {v} :
        {q \in Vragen : antwoord'[w][q] # Geen} = {q \in Vragen : antwoord[w][q] # Geen}
  OBVIOUS
<1> DEFINE oudV(w) == {q \in Vragen : antwoord[w][q] # Geen}
           nieuwV(w) == {q \in Vragen : antwoord'[w][q] # Geen}
<1>3. nieuwV(v) = oudV(v) \cup vragen /\ \A w \in Vendors \ {v} : nieuwV(w) = oudV(w)
  BY <1>1, <1>2
<1> HIDE DEF oudV, nieuwV
<1>4. [w \in Vendors |-> nieuwV(w)] = [[w \in Vendors |-> oudV(w)] EXCEPT ![v] = @ \cup vragen]
  BY <1>3
<1> QED BY <1>4 DEF oudV, nieuwV

(* Each operation that touches a response, as its abstract counterpart.    *)
LEMMA VerfijningConceptCommit ==
    ASSUME IInv, NEW r \in Verzoeken, ConceptCommit(r)
    PROVE  \E v \in Vendors, vragen \in SUBSET Vragen : RL!Bewaren(v, vragen)
<1>1. TypeOK
  BY DEF IInv
<1>2. /\ verzoek[r].vendor \in Vendors
      /\ respons[verzoek[r].vendor].status # "geen"
  BY DEF IInv, VerzoekInv, ConceptCommit, Lopend, InTransactie
<1> PICK v \in Vendors : v = verzoek[r].vendor
  BY <1>2
<1> PICK vragen : vragen = verzoek[r].geschreven
  OBVIOUS
<1>3. vragen \in SUBSET Vragen
  BY <1>1, RijTypen
<1>4. antwoord' = Vastgelegd(r) /\ UNCHANGED <<respons, audit, uitgegeven>>
  BY DEF ConceptCommit
<1>5. \A w \in Vendors, q \in Vragen :
        antwoord'[w][q] # Geen <=> antwoord[w][q] # Geen \/ (w = v /\ q \in vragen)
  BY <1>1, <1>4, VastgelegdFeit, GeenAanname
<1>6. Fase(respons[v].status) # "geen"
  BY <1>1, <1>2, RijTypen DEF Fase, ResponsStatussen
<1>7. [w \in Vendors |-> {q \in Vragen : antwoord'[w][q] # Geen}] =
        [[w \in Vendors |-> {q \in Vragen : antwoord[w][q] # Geen}]
           EXCEPT ![v] = @ \cup vragen]
  BY <1>3, <1>5, BeantwoordErbij
<1>8. RL!Bewaren(v, vragen)
  BY <1>4, <1>6, <1>7 DEF RL!Bewaren
<1> QED BY <1>3, <1>8

LEMMA VerfijningAfsluiten ==
    ASSUME IInv, NEW r \in Verzoeken, Afsluiten(r)
    PROVE  \E v \in Vendors, vragen \in SUBSET Vragen : RL!Indienen(v, vragen)
<1>1. TypeOK
  BY DEF IInv
<1>2. /\ verzoek[r].vendor \in Vendors
      /\ Verplicht \subseteq verzoek[r].geschreven
  BY DEF IInv, VerzoekInv, Afsluiten, Lopend, InTransactie, Geldig
<1> PICK v \in Vendors : v = verzoek[r].vendor
  BY <1>2
<1> PICK vragen : vragen = verzoek[r].geschreven
  OBVIOUS
<1>3. vragen \in SUBSET Vragen
  BY <1>1, RijTypen
<1>4. /\ respons' = [respons EXCEPT ![v].status = "submitted",
                                    ![v].submittedAt = verzoek[r].start]
      /\ audit' = [audit EXCEPT ![v] = @ + 1]
      /\ antwoord' = Vastgelegd(r) /\ uitgegeven' = uitgegeven
      /\ respons[v].status = "pending"
  BY DEF Afsluiten, NogOpen
<1>5. \A w \in Vendors, q \in Vragen :
        antwoord'[w][q] # Geen <=> antwoord[w][q] # Geen \/ (w = v /\ q \in vragen)
  BY <1>1, <1>4, VastgelegdFeit, GeenAanname
<1>6. [w \in Vendors |-> {q \in Vragen : antwoord'[w][q] # Geen}] =
        [[w \in Vendors |-> {q \in Vragen : antwoord[w][q] # Geen}]
           EXCEPT ![v] = @ \cup vragen]
  BY <1>3, <1>5, BeantwoordErbij
<1>7. /\ respons'[v].status = "submitted" /\ respons'[v].token = respons[v].token
      /\ \A w \in Vendors \ {v} : respons'[w] = respons[w]
  BY <1>1, <1>4 DEF TypeOK, Respons
<1>8. [w \in Vendors |-> Fase(respons'[w].status)] =
        [[w \in Vendors |-> Fase(respons[w].status)] EXCEPT ![v] = "ingediend"]
  <2>1. Fase(respons'[v].status) = "ingediend"
    BY <1>7 DEF Fase
  <2>2. \A w \in Vendors \ {v} : Fase(respons'[w].status) = Fase(respons[w].status)
    BY <1>7
  <2> QED BY <2>1, <2>2
<1>9. [w \in Vendors |-> respons'[w].token] = [w \in Vendors |-> respons[w].token]
  BY <1>7
<1>10. Fase(respons[v].status) = "open"
  BY <1>4 DEF Fase
<1>11. RL!Indienen(v, vragen)
  BY <1>2, <1>4, <1>6, <1>8, <1>9, <1>10 DEF RL!Indienen
<1> QED BY <1>3, <1>11

LEMMA VerfijningIntrekken ==
    ASSUME IInv, NEW b \in Beheerders, NEW v \in Vendors, SchrijfIntrekken(b, v)
    PROVE  RL!Intrekken(v) \/ UNCHANGED RL!rlVars
<1>1. TypeOK
  BY DEF IInv
<1>2. /\ respons[v].status \in {"pending", "revoked"}
      /\ respons'[v] = [respons[v] EXCEPT !.status = "revoked"]
      /\ \A w \in Vendors \ {v} : respons'[w] = respons[w]
  BY IntrekkenFeit
<1>3. respons'[v].status = "revoked" /\ respons'[v].token = respons[v].token
  BY <1>1, <1>2 DEF TypeOK, Respons
<1>4. UNCHANGED <<antwoord, audit, uitgegeven>>
  BY DEF SchrijfIntrekken
<1>5. CASE respons[v].status = "revoked"
  BY <1>2, <1>3, <1>4, <1>5, Onzichtbaar
<1>6. CASE respons[v].status = "pending"
  <2>1. [w \in Vendors |-> Fase(respons'[w].status)] =
          [[w \in Vendors |-> Fase(respons[w].status)] EXCEPT ![v] = "ingetrokken"]
    <3>1. Fase(respons'[v].status) = "ingetrokken"
      BY <1>3, <1>2 DEF Fase, TypeOK, Respons
    <3>2. \A w \in Vendors \ {v} : Fase(respons'[w].status) = Fase(respons[w].status)
      BY <1>2
    <3> QED BY <3>1, <3>2
  <2>2. [w \in Vendors |-> respons'[w].token] = [w \in Vendors |-> respons[w].token]
    BY <1>2, <1>3
  <2>3. Fase(respons[v].status) = "open"
    BY <1>6 DEF Fase
  <2> QED BY <1>4, <2>1, <2>2, <2>3 DEF RL!Intrekken
<1> QED BY <1>2, <1>5, <1>6

LEMMA VerfijningHeruitnodigen ==
    ASSUME TypeOK, NEW b \in Beheerders, NEW v \in Vendors, NEW t \in Tokens,
           SchrijfHeruitnodigen(b, v, t)
    PROVE  RL!Heruitnodigen(v, t)
<1>1. /\ respons[v].status = "revoked"
      /\ respons'[v].status = "pending" /\ respons'[v].token = t
      /\ \A w \in Vendors \ {v} : respons'[w] = respons[w]
  BY HeruitnodigenFeit
<1>2. /\ UNCHANGED <<antwoord, audit>>
      /\ t \in Tokens \ uitgegeven /\ uitgegeven' = uitgegeven \cup {t}
  BY DEF SchrijfHeruitnodigen
<1>3. [w \in Vendors |-> Fase(respons'[w].status)] =
        [[w \in Vendors |-> Fase(respons[w].status)] EXCEPT ![v] = "open"]
  <2>1. Fase(respons'[v].status) = "open"
    BY <1>1 DEF Fase
  <2>2. \A w \in Vendors \ {v} : Fase(respons'[w].status) = Fase(respons[w].status)
    BY <1>1
  <2> QED BY <2>1, <2>2
<1>4. [w \in Vendors |-> respons'[w].token] =
        [[w \in Vendors |-> respons[w].token] EXCEPT ![v] = t]
  BY <1>1
<1>5. Fase(respons[v].status) = "ingetrokken"
  BY <1>1 DEF Fase
<1> QED BY <1>2, <1>3, <1>4, <1>5 DEF RL!Heruitnodigen

LEMMA VerfijningUitnodigen ==
    ASSUME TypeOK, TypeOK', NEW b \in Beheerders,
           NEW token \in NieuweTokens(beheer[b].doel), SchrijfUitnodigen(b, token),
           beheer[b].doel # {}
    PROVE  \E wie \in SUBSET Vendors : RL!Uitnodigen(wie)
<1> PICK wie \in SUBSET Vendors : wie = beheer[b].doel
  BY RijTypen DEF BeheerOp
<1>1. /\ \A v \in Vendors \ wie : respons'[v] = respons[v]
      /\ \A v \in wie : /\ respons[v].status = "geen"
                        /\ respons'[v].status = "pending"
                        /\ respons'[v].token = token[v]
  BY UitnodigenFeit
<1>2. /\ \A v \in wie : token[v] \in Tokens \ uitgegeven
      /\ \A v, w \in wie : token[v] = token[w] => v = w
  BY DEF NieuweTokens
<1>3. /\ UNCHANGED <<antwoord, audit>>
      /\ uitgegeven' = uitgegeven \cup {token[v] : v \in wie}
  BY DEF SchrijfUitnodigen
<1>4. uitgegeven' = uitgegeven \cup {[w \in Vendors |-> respons'[w].token][v] : v \in wie}
  <2>1. \A v \in wie : [w \in Vendors |-> respons'[w].token][v] = token[v]
    BY <1>1
  <2>2. {[w \in Vendors |-> respons'[w].token][v] : v \in wie} = {token[v] : v \in wie}
    BY <2>1
  <2> QED BY <1>3, <2>2
<1>5. [w \in Vendors |-> respons'[w].token] \in [Vendors -> Tokens \cup {Geen}]
  BY DEF TypeOK, Respons
<1>6. [w \in Vendors |-> Fase(respons'[w].status)] =
        [v \in Vendors |-> IF v \in wie THEN "open"
                           ELSE [w \in Vendors |-> Fase(respons[w].status)][v]]
  <2>1. \A v \in wie : Fase(respons'[v].status) = "open"
    BY <1>1 DEF Fase
  <2>2. \A v \in Vendors \ wie : Fase(respons'[v].status) = Fase(respons[v].status)
    BY <1>1
  <2> QED BY <2>1, <2>2
<1>7. \A v \in wie : [w \in Vendors |-> Fase(respons[w].status)][v] = "geen"
  <2>1. \A v \in wie : Fase(respons[v].status) = "geen"
    BY <1>1 DEF Fase
  <2> QED BY <2>1
<1>8. /\ \A v \in Vendors \ wie :
           [w \in Vendors |-> respons'[w].token][v] = [w \in Vendors |-> respons[w].token][v]
      /\ \A v \in wie : [w \in Vendors |-> respons'[w].token][v] = token[v]
  BY <1>1
<1>9. /\ \A v \in wie : [w \in Vendors |-> respons'[w].token][v] \in Tokens \ uitgegeven
      /\ \A v, x \in wie : [w \in Vendors |-> respons'[w].token][v] =
                           [w \in Vendors |-> respons'[w].token][x] => v = x
  <2> DEFINE nieuweLink == [w \in Vendors |-> respons'[w].token]
  <2>1. \A v \in wie : nieuweLink[v] = token[v]
    BY <1>8
  <2> HIDE DEF nieuweLink
  <2>2. \A v \in wie : nieuweLink[v] \in Tokens \ uitgegeven
    BY <1>2, <2>1
  <2>3. \A v, x \in wie : nieuweLink[v] = nieuweLink[x] => v = x
    <3> SUFFICES ASSUME NEW v \in wie, NEW x \in wie, nieuweLink[v] = nieuweLink[x]
                 PROVE  v = x
      OBVIOUS
    <3>1. token[v] = token[x]
      BY <2>1
    <3> QED BY <1>2, <3>1
  <2> QED BY <2>2, <2>3 DEF nieuweLink
<1>10. wie # {}
  OBVIOUS
<1>11. [w \in Vendors |-> {q \in Vragen : antwoord'[w][q] # Geen}] =
         [w \in Vendors |-> {q \in Vragen : antwoord[w][q] # Geen}]
  BY <1>3
<1>12. RL!Uitnodigen(wie)
  <2> HIDE DEF Fase
  <2> QED BY <1>3, <1>4, <1>5, <1>6, <1>7, <1>8, <1>9, <1>10, <1>11, Zenon DEF RL!Uitnodigen
<1> QED BY <1>12

LEMMA VerfijningStap ==
    ASSUME IInv, [Next]_vars
    PROVE  [RL!RLNext]_(RL!rlVars)
<1> USE DEF ronde
<1>1. TypeOK /\ TypeOK'
  BY TypeStap DEF IInv
<1>2. ASSUME NEW v \in Vendors, RegistreerHandmatig(v)
      PROVE  UNCHANGED RL!rlVars
  <2>1. \A w \in Vendors : /\ respons'[w].status = respons[w].status
                           /\ respons'[w].token = respons[w].token
    BY <1>1, <1>2 DEF RegistreerHandmatig, TypeOK, Respons
  <2> QED BY <1>2, <2>1, Onzichtbaar DEF RegistreerHandmatig
<1>3. ASSUME UNCHANGED <<respons, antwoord, audit, uitgegeven>>
      PROVE  UNCHANGED RL!rlVars
  BY <1>3, Onzichtbaar
<1>4. ASSUME NEW b \in Beheerders, BeheerSchrijft(b)
      PROVE  [RL!RLNext]_(RL!rlVars)
  <2>1. CASE SchrijfStatus(b) \/ BeheerRoltTerug(b)
    BY <1>3, <2>1 DEF SchrijfStatus, BeheerRoltTerug
  <2>2. ASSUME NEW v \in Vendors, SchrijfIntrekken(b, v)
        PROVE  [RL!RLNext]_(RL!rlVars)
    BY <2>2, VerfijningIntrekken DEF RL!RLNext
  <2>3. ASSUME NEW v \in Vendors, NEW t \in Tokens, SchrijfHeruitnodigen(b, v, t)
        PROVE  [RL!RLNext]_(RL!rlVars)
    BY <1>1, <2>3, VerfijningHeruitnodigen DEF RL!RLNext
  <2>4. ASSUME NEW token \in NieuweTokens(beheer[b].doel), SchrijfUitnodigen(b, token)
        PROVE  [RL!RLNext]_(RL!rlVars)
    <3>1. CASE beheer[b].doel # {}
      BY <1>1, <2>4, <3>1, VerfijningUitnodigen DEF RL!RLNext
    <3>2. CASE beheer[b].doel = {}
      <4>1. \A v \in Vendors : respons'[v] = respons[v]
        BY <2>4, <3>2, UitnodigenFeit
      <4>2. UNCHANGED <<antwoord, audit, uitgegeven>>
        BY <2>4, <3>2 DEF SchrijfUitnodigen
      <4> QED BY <4>1, <4>2, Onzichtbaar
    <3> QED BY <3>1, <3>2
  <2> QED BY <1>4, <2>1, <2>2, <2>3, <2>4 DEF BeheerSchrijft
<1>5. ASSUME NEW r \in Verzoeken, Leverancier(r)
      PROVE  [RL!RLNext]_(RL!rlVars)
  <2>1. CASE ConceptCommit(r)
    BY <2>1, VerfijningConceptCommit DEF RL!RLNext
  <2>2. CASE Afsluiten(r)
    BY <2>2, VerfijningAfsluiten DEF RL!RLNext
  <2>3. CASE UNCHANGED <<respons, antwoord, audit, uitgegeven>>
    BY <1>3, <2>3
  <2> QED BY <1>5, <2>1, <2>2, <2>3
          DEF Leverancier, VerzoekStap, Controleer, BeginTransactie, LeesVoorSchrijven,
              Schrijf, LeesVoorAfsluiten, NietMeerOpen, VerzoekBreektAf
<1>6. ASSUME NEW b \in Beheerders, BeheerLeest(b)
      PROVE  UNCHANGED RL!rlVars
  BY <1>3, <1>6 DEF BeheerLeest, LeesWijzigStatus, LeesArchiveer, LeesIntrekken,
                    LeesHeruitnodigen, LeesUitnodigen, Leest
<1>7. CASE Omgeving
  BY <1>2, <1>3, <1>7 DEF Omgeving, MaakRonde, VerwijderVendor, Tik
<1>8. CASE UNCHANGED vars
  BY <1>3, <1>8 DEF vars
<1> QED BY <1>4, <1>5, <1>6, <1>7, <1>8 DEF Next

(* Whatever transactions, snapshots and locks do, seen from outside every  *)
(* response lives the abstract life.                                       *)
THEOREM Verfijning == Spec => ImplementeertResponsLeven
<1>1. Init => RL!RLInit
  BY VerfijningInit
<1>2. IInv /\ [Next]_vars => [RL!RLNext]_(RL!rlVars)
  BY VerfijningStap
<1> QED BY <1>1, <1>2, Invariant, PTL DEF Spec, ImplementeertResponsLeven, RL!RLSpec
=============================================================================
