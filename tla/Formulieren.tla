---------------------------- MODULE Formulieren ----------------------------
(***************************************************************************)
(* What a browser sends to a form: the *-invoer.ts files read a body of    *)
(* type unknown field by field, and the validation of uploads looks at the *)
(* bytes.                                                                  *)
(*                                                                         *)
(* A value is absent (Geen), null (Nul), of a type no field has (Onzin),   *)
(* or a record.  A text has lengte and kaal, its UTF-16 length before and  *)
(* after trim(), and inh, what it spells.  What a reader refuses is Onzin, *)
(* what it stores as NULL is Geen.                                         *)
(***************************************************************************)
EXTENDS Integers, Sequences, FiniteSets, SequencesExt

CONSTANTS
    Geen, Onzin,
    Vandaag       \* now, as a day

D == INSTANCE Importbestand

Nul == [soort |-> "null"]
Tekst(n, spaties, inh) == [soort |-> "tekst", lengte |-> n + spaties, kaal |-> n, inh |-> inh]
Ja(b) == [soort |-> "bool", b |-> b]
Getal(n, heel, groot) == [soort |-> "getal", n |-> n, heel |-> heel, groot |-> groot]
Lijst(s) == [soort |-> "lijst", s |-> s]

(* What a text spells.                                                     *)
Vrij == [vorm |-> "vrij"]
Woord(w) == [vorm |-> "woord", w |-> w]
Uuid(id, hoofdletters) == [vorm |-> "uuid", id |-> id, hoofdletters |-> hoofdletters]
Code(c) == [vorm |-> "code", c |-> c]
Datum(j, m, d) == [vorm |-> "datum", dag |-> [jaar |-> j, maand |-> m, dag |-> d]]
(* local@part.part: the length of each, 0 for an empty one; eind is what   *)
(* the last character of all is.                                           *)
Adres(lokaal, delen, eind) == [vorm |-> "adres", lokaal |-> lokaal, delen |-> delen, eind |-> eind]
(* Digits, with blanks or points between them, or one point and decimals.  *)
Cijfers(aantal, tussen, decimalen, n, nul) ==
    [vorm |-> "cijfers", aantal |-> aantal, tussen |-> tussen, decimalen |-> decimalen,
     n |-> n, nul |-> nul, groot |-> aantal > 10]
Macht(n) == [vorm |-> "macht", n |-> n]     \* 1e2

(* What a browser can send, as far as the readers look at it.              *)
Gesoort(w) == "soort" \in DOMAIN w /\ w = [x \in DOMAIN w |-> w[x]]

Inhoud(inh) ==
    /\ inh.vorm = "cijfers" => inh.n \in Nat /\ inh.aantal \in Nat
    /\ inh.vorm = "adres" => inh.delen \in Seq(Nat)

EenTekst(w) ==
    /\ w = [x \in {"soort", "lengte", "kaal", "inh"} |-> w[x]]
    /\ w.lengte \in Nat /\ w.kaal \in 0..w.lengte /\ Inhoud(w.inh)

EenLijst(w) == w = Lijst(w.s) /\ w.s \in Seq(ToSet(w.s))

Waarde(w) ==
    \/ w \in {Geen, Onzin, Nul}
    \/ /\ Gesoort(w)
       /\ w.soort = "tekst" => EenTekst(w)
       /\ w.soort = "lijst" => EenLijst(w)

-----------------------------------------------------------------------------
(* Readers of one value.                                                   *)
IsTekst(w) == w \notin {Geen, Onzin, Nul} /\ w.soort = "tekst"
Vorm(w, vorm) == IsTekst(w) /\ w.inh.vorm = vorm
Ontbreekt(w) == w \in {Geen, Nul}
Leeg(w) == Ontbreekt(w) \/ (IsTekst(w) /\ w.lengte = 0)
Strak(w) == w.lengte = w.kaal
Knip(w) == [w EXCEPT !.lengte = w.kaal]
Als(goed, w) == IF goed THEN w ELSE Onzin

VerplichteTekst(w, max) == IF IsTekst(w) /\ w.kaal \in 1..max THEN Knip(w) ELSE Onzin

OptioneleTekst(w, max) ==
    IF Ontbreekt(w) \/ (IsTekst(w) /\ w.kaal = 0) THEN Geen ELSE VerplichteTekst(w, max)

(* Of vendor-engagement-invoer.ts: the length counts before trim().        *)
RuweTekst(w, max) == Als(IsTekst(w) /\ w.kaal > 0 /\ w.lengte <= max, IF IsTekst(w) THEN Knip(w) ELSE w)
RuweStap(w, max) ==
    IF Ontbreekt(w) \/ (IsTekst(w) /\ w.kaal = 0 /\ w.lengte <= max) THEN Geen ELSE RuweTekst(w, max)

KvkNummer(w) ==
    LET t == OptioneleTekst(w, 20) IN
    IF t \in {Geen, Onzin} THEN t
    ELSE IF t.inh.vorm = "cijfers" /\ t.inh.aantal + t.inh.decimalen = 8
         THEN Tekst(8, 0, Cijfers(8, 0, 0, t.inh.n, t.inh.nul)) ELSE Onzin

IsGeldigMailadres(w) ==
    /\ Vorm(w, "adres") /\ w.kaal <= 254 /\ w.inh.lokaal > 0
    /\ Len(w.inh.delen) >= 2 /\ \A i \in DOMAIN w.inh.delen : w.inh.delen[i] > 0

(* A last part of one letter, or a hyphen at the end.                      *)
VerdachtDomein(w) ==
    w.inh.eind = "-" \/ (w.inh.delen[Len(w.inh.delen)] = 1 /\ w.inh.eind = "letter")

EmailAdres(w) ==
    LET t == OptioneleTekst(w, 100) IN
    IF t \in {Geen, Onzin} THEN t ELSE Als(IsGeldigMailadres(t) /\ ~VerdachtDomein(t), t)

(* platform-invoer.ts: something, an @, something, a point, something.     *)
PlatformAdres(w) ==
    /\ Vorm(w, "adres") /\ w.inh.lokaal > 0
    /\ LET d == w.inh.delen   som(s) == FoldSeq(+, 0, s) IN
       \E i \in 1 .. Len(d) - 1 :
         som(SubSeq(d, 1, i)) + i - 1 >= 1 /\ som(SubSeq(d, i + 1, Len(d))) + Len(d) - i - 1 >= 1

PlatformEmail(w) == LET t == VerplichteTekst(w, 320) IN Als(t # Onzin /\ PlatformAdres(t), t)
PlatformOptioneelEmail(w) ==
    IF Ontbreekt(w) \/ (IsTekst(w) /\ w.kaal = 0) THEN Geen ELSE PlatformEmail(w)

(* tenant-invoer.ts and tenant-leden-invoer.ts; the second keeps the       *)
(* blanks around the address.                                              *)
AntwoordEmail(w) ==
    IF Ontbreekt(w) \/ (IsTekst(w) /\ w.kaal = 0) THEN Geen
    ELSE IF IsGeldigMailadres(w) THEN Knip(w) ELSE Onzin
LidEmail(w) == Als(IsGeldigMailadres(w), w)

Reden(w) == LET t == VerplichteTekst(w, 500) IN Als(t # Onzin /\ t.kaal >= 10, t)

IsUuid(w) == Vorm(w, "uuid") /\ Strak(w)
OptioneleUuid(w) == IF Leeg(w) THEN Geen ELSE Als(IsUuid(w), w)
VerplichteUuid(w) == Als(IsUuid(w), w)
UuidOfNiet(w) == IF Ontbreekt(w) THEN Geen ELSE Als(IsUuid(w), w)

OptioneleDatum(w) == IF Leeg(w) THEN Geen ELSE Als(Vorm(w, "datum") /\ Strak(w), w)

(* new Date(...): a day up to 31 in a month up to 12, carried over.        *)
JsDatum(w) == Vorm(w, "datum") /\ Strak(w) /\ w.inh.dag.maand \in 1..12 /\ w.inh.dag.dag \in 1..31
StapDatum(w) == IF Leeg(w) THEN Geen ELSE Als(JsDatum(w), w)
Sluitdatum(w) ==
    IF Leeg(w) THEN Geen ELSE Als(JsDatum(w) /\ D!Eerder(Vandaag, D!DateUTC(w.inh.dag)), w)
VerzondenOp(w) == Als(JsDatum(w) /\ ~D!Eerder(Vandaag, D!DateUTC(w.inh.dag)), w)

OptioneelBedrag(w) ==
    IF Leeg(w) THEN Geen
    ELSE Als(Vorm(w, "cijfers") /\ Strak(w) /\ w.inh.tussen = 0 /\ w.inh.decimalen <= 2, w)

(* parseInt of the text must spell the text again.                         *)
OptioneelPositiefGeheelGetal(w) ==
    IF Leeg(w) THEN Geen
    ELSE IF w # Onzin /\ w.soort = "getal" THEN Als(w.heel /\ w.n >= 0, w)
    ELSE IF Vorm(w, "cijfers") /\ w.inh.tussen = 0 /\ w.inh.decimalen = 0 /\ ~w.inh.nul
         THEN Getal(w.inh.n, TRUE, w.inh.groot) ELSE Onzin
Waarschuwingstermijn(w) ==
    LET n == OptioneelPositiefGeheelGetal(w) IN IF n = Geen THEN Getal(90, TRUE, FALSE) ELSE n

IsJa(w) == w \notin {Geen, Onzin, Nul} /\ w.soort = "bool"

(* Number(): true is 1, a text of blanks 0, a leading zero no matter.      *)
AlsNumber(w) ==
    IF w # Onzin /\ w.soort = "getal" THEN w
    ELSE IF IsJa(w) THEN Getal(IF w.b THEN 1 ELSE 0, TRUE, FALSE)
    ELSE IF ~IsTekst(w) THEN Onzin
    ELSE IF w.kaal = 0 THEN Getal(0, TRUE, FALSE)
    ELSE CASE w.inh.vorm = "macht" -> Getal(w.inh.n, TRUE, FALSE)
           [] w.inh.vorm = "cijfers" /\ w.inh.tussen = 0 ->
                Getal(w.inh.n, w.inh.decimalen = 0, w.inh.groot)
           [] OTHER -> Onzin
Geldigheid(w) ==
    IF Leeg(w) THEN Getal(30, TRUE, FALSE)
    ELSE LET n == AlsNumber(w) IN Als(n # Onzin /\ n.heel /\ ~n.groot /\ n.n \in 1..180, n)

Boolean(w) == Als(IsJa(w), w)
OptioneelBoolean(w) == IF Ontbreekt(w) THEN Geen ELSE Boolean(w)
StandaardJa(w) == IF Ontbreekt(w) THEN Ja(TRUE) ELSE Boolean(w)
AlleenJa(w) == Ja(w = Ja(TRUE))

IsWoord(w, W) == Vorm(w, "woord") /\ Strak(w) /\ w.inh.w \in W
STATUSSEN == {"draft", "active", "finished", "archived"}
Prototype == {"toString", "constructor"}     \* `in` finds these in OVERGANGEN

(* Oordeel: null is no text, absent is an empty one.                       *)
Toelichting(w) == IF w = Geen THEN Tekst(0, 0, Vrij) ELSE IF IsTekst(w) THEN Knip(w) ELSE Onzin

IsCode(w) == Vorm(w, "code") /\ Strak(w) /\ w.kaal <= 50
IsLijst(w) == w \notin {Geen, Onzin, Nul} /\ w.soort = "lijst"

(* The elements of s at the places I.                                      *)
Deelrij(s, I) ==
    [n \in 1..Cardinality(I) |-> s[CHOOSE i \in I : Cardinality({j \in I : j <= i}) = n]]

(* [...new Set(...)]: the first of equal texts.                            *)
Uniek(s) == Deelrij(s, {i \in DOMAIN s : \A j \in 1 .. i - 1 : s[j] # s[i]})
Set(w) == Lijst(Uniek(w.s))
Elk(w, P(_)) == IsLijst(w) /\ \A i \in DOMAIN w.s : P(w.s[i])

VendorIds(w) ==
    Als(/\ Elk(w, IsUuid) /\ Len(w.s) \in 1..200
        /\ Cardinality({w.s[i].inh.id : i \in DOMAIN w.s}) = Len(w.s), w)
IdLijst(w) == IF w = Geen THEN Lijst(<<>>) ELSE IF Elk(w, IsUuid) THEN Set(w) ELSE Onzin
TemplateIds(w) == IF w = Geen THEN Onzin ELSE IdLijst(w)
ThemaCodes(w) ==
    LET gevuld(x) == IsTekst(x) /\ x.kaal > 0 IN IF Elk(w, gevuld) THEN Set(w) ELSE Onzin
Gebiedscodes(w) == IF Elk(w, IsCode) THEN Set(w) ELSE Onzin
Links(w) ==
    IF w = Geen THEN Lijst(<<>>)
    ELSE LET link(x) == x \notin {Geen, Onzin, Nul} /\ x.soort = "link" /\ IsUuid(x.id)
                        /\ x.type \in {"contract", "survey_response"} IN
         Als(Elk(w, link), w)

-----------------------------------------------------------------------------
(* The forms: of each field its column, its reader and its limit.          *)
Veld(kolom, lezer, max) == [kolom |-> kolom, lezer |-> lezer, max |-> max]
Keuzeveld(kolom, woorden) == [kolom |-> kolom, lezer |-> "woord", max |-> woorden]
(* @@, which the provers have no definition of.                            *)
En(a, b) == [x \in DOMAIN a \cup DOMAIN b |-> IF x \in DOMAIN a THEN a[x] ELSE b[x]]

LeesVeld(v, w) ==
    CASE v.lezer = "verplicht" -> VerplichteTekst(w, v.max)
      [] v.lezer = "optioneel" -> OptioneleTekst(w, v.max)
      [] v.lezer = "ruw" -> RuweTekst(w, v.max)
      [] v.lezer = "ruwe_stap" -> RuweStap(w, v.max)
      [] v.lezer = "kvk" -> KvkNummer(w)
      [] v.lezer = "email" -> EmailAdres(w)
      [] v.lezer = "platform_email" -> PlatformEmail(w)
      [] v.lezer = "platform_optioneel" -> PlatformOptioneelEmail(w)
      [] v.lezer = "antwoord_email" -> AntwoordEmail(w)
      [] v.lezer = "lid_email" -> LidEmail(w)
      [] v.lezer = "reden" -> Reden(w)
      [] v.lezer = "uuid" -> VerplichteUuid(w)
      [] v.lezer = "optionele_uuid" -> OptioneleUuid(w)
      [] v.lezer = "uuid_of_niet" -> UuidOfNiet(w)
      [] v.lezer = "datum" -> OptioneleDatum(w)
      [] v.lezer = "stapdatum" -> StapDatum(w)
      [] v.lezer = "sluitdatum" -> Sluitdatum(w)
      [] v.lezer = "verzonden" -> VerzondenOp(w)
      [] v.lezer = "bedrag" -> OptioneelBedrag(w)
      [] v.lezer = "geheel" -> OptioneelPositiefGeheelGetal(w)
      [] v.lezer = "waarschuwing" -> Waarschuwingstermijn(w)
      [] v.lezer = "dagen" -> Geldigheid(w)
      [] v.lezer = "boolean" -> Boolean(w)
      [] v.lezer = "optioneel_boolean" -> OptioneelBoolean(w)
      [] v.lezer = "standaard_ja" -> StandaardJa(w)
      [] v.lezer = "alleen_ja" -> AlleenJa(w)
      [] v.lezer = "woord" -> Als(IsWoord(w, v.max), w)
      [] v.lezer = "optioneel_woord" -> IF Leeg(w) THEN Geen ELSE Als(IsWoord(w, v.max), w)
      [] v.lezer = "soort_notitie" ->
           IF Ontbreekt(w) THEN Tekst(4, 0, Woord("werk")) ELSE Als(IsWoord(w, v.max), w)
      [] v.lezer = "soort_ronde" ->
           IF Ontbreekt(w) THEN Tekst(17, 0, Woord("vendor_compliance")) ELSE Als(IsWoord(w, v.max), w)
      [] v.lezer = "toelichting" -> Toelichting(w)
      [] v.lezer = "code" -> Als(IsCode(w), w)
      [] v.lezer = "vendors" -> VendorIds(w)
      [] v.lezer = "templates" -> TemplateIds(w)
      [] v.lezer = "ids" -> IdLijst(w)
      [] v.lezer = "themas" -> ThemaCodes(w)
      [] v.lezer = "gebieden" -> Gebiedscodes(w)
      [] v.lezer = "links" -> Links(w)

Plaats == [city |-> Veld("vendor.city", "optioneel", 100), country |-> Veld("vendor.country", "optioneel", 100),
           website |-> Veld("vendor.website", "optioneel", 500),
           categoryCode |-> Veld("vendor.category_code", "optioneel", 100),
           coupaSupplierNumber |-> Veld("vendor.coupa_supplier_number", "optioneel", 100)]

Leverancier == En(Plaats, [name |-> Veld("vendor.name", "verplicht", 200),
                           kvkNumber |-> Veld("vendor.kvk_number", "kvk", 20)])

LeverancierWijziging == En(Leverancier,
    [vestigingsnummer |-> Veld("vendor.vestigingsnummer", "optioneel", 100),
     statutoryName |-> Veld("vendor.statutory_name", "optioneel", 200),
     businessCriticalityCode |-> Veld("vendor.business_criticality_code", "optioneel", 100),
     complianceStatusCode |-> Veld("vendor.compliance_status_code", "optioneel", 100)])

Contact == [email |-> Veld("vendor_contact.email", "email", 100),
            phone |-> Veld("vendor_contact.phone", "optioneel", 100),
            jobTitle |-> Veld("vendor_contact.job_title", "optioneel", 100)]

ContactVeld == En(Contact,
    [fullName |-> Veld("vendor_contact.full_name", "verplicht", 200),
     roleDescription |-> Veld("vendor_contact.role_description", "optioneel", 2000),
     isPrimary |-> Veld("vendor_contact.is_primary", "boolean", 0)])

Contract ==
    [name |-> Veld("contract.name", "verplicht", 200),
     contractNumber |-> Veld("contract.contract_number", "optioneel", 100),
     vendorContactId |-> Veld("contract.vendor_contact_id", "optionele_uuid", 0),
     ownerUserId |-> Veld("contract.owner_user_id", "optionele_uuid", 0),
     statusCode |-> Veld("contract.status_code", "optioneel", 100),
     valueEur |-> Veld("contract.value_eur", "bedrag", 0),
     startDate |-> Veld("contract.start_date", "datum", 0), endDate |-> Veld("contract.end_date", "datum", 0),
     note |-> Veld("contract.note", "optioneel", 2000),
     noticePeriodDays |-> Veld("contract.notice_period_days", "geheel", 0),
     warningDaysBefore |-> Veld("contract.warning_days_before", "waarschuwing", 0),
     autoRenews |-> [Keuzeveld("contract.auto_renews", {"ja", "nee", "onbekend"}) EXCEPT !.lezer = "optioneel_woord"],
     contractType |-> Veld("contract.contract_type", "optioneel", 100),
     dpaAanwezig |-> Veld("contract.dpa_aanwezig", "optioneel_boolean", 0),
     businessRiskTierCode |-> Veld("contract.business_risk_tier_code", "optioneel", 100)]

Lid == [email |-> Veld("user.email", "lid_email", 0), naam |-> Veld("user.full_name", "verplicht", 200)]
Rol == [rol |-> Keuzeveld("tenant_membership.role", {"admin", "user", "reviewer"})]
Tenant == [naam |-> Veld("tenant.name", "verplicht", 200),
           antwoordEmail |-> Veld("tenant.antwoord_email", "platform_optioneel", 0)]
Label(tabel) == [label |-> Veld(tabel, "verplicht", 100000)]
Dossiernotitie == Veld("vendor_engagement_note.tekst", "ruw", 500)

(* A change (PATCH) reads the fields it finds; the other forms read all.   *)
Nieuw(velden) == [velden |-> velden, altijd |-> DOMAIN velden]
Wijziging(velden) == [velden |-> velden, altijd |-> {}]

FORMULIEREN ==
    [leesNieuweVendor |-> Nieuw(Leverancier),
     leesNieuweVendorContact |-> Nieuw(En(Contact, [fullName |-> Veld("vendor_contact.full_name", "optioneel", 200)])),
     leesVendorWijziging |-> Wijziging(LeverancierWijziging),
     leesContactNieuw |-> [Wijziging(ContactVeld) EXCEPT !.altijd = {"fullName"}],
     leesContact |-> Wijziging(ContactVeld),
     leesThemaCodes |-> Nieuw([themaCodes |-> Veld("vendor_compliance_thema", "themas", 0)]),
     leesNieuwContract |-> Nieuw(Contract),
     leesContractWijziging |-> Wijziging(Contract),
     leesSurveyTemplateKoppeling |->
        Nieuw([templateIds |-> Veld("contract_survey_template", "templates", 0),
               wachtlijstTemplateIds |-> Veld("contract_survey_template.wachtlijst", "ids", 0)]),
     leesWerkingsgebiedCodes |-> Nieuw([codes |-> Veld("contract_werkingsgebied", "gebieden", 0)]),
     leesNieuweVendorCategorie |-> Nieuw(En(Label("vendor_category.label"), [code |-> Veld("vendor_category.code", "code", 0)])),
     leesVendorCategorieWijziging |-> Nieuw(Label("vendor_category.label")),
     leesNieuwWerkingsgebied |-> Nieuw(En(Label("werkingsgebied.label"), [code |-> Veld("werkingsgebied.code", "code", 0)])),
     leesWerkingsgebiedWijziging |-> Nieuw(Label("werkingsgebied.label")),
     leesNieuweRonde |->
        Nieuw([templateId |-> Veld("survey_run.template_id", "uuid", 0),
               surveyKind |-> [Keuzeveld("survey_run.survey_kind", {"vendor_compliance", "internal_review"})
                                EXCEPT !.lezer = "soort_ronde"],
               closesAt |-> Veld("survey_run.closes_at", "sluitdatum", 0),
               isTest |-> Veld("survey_run.is_test", "alleen_ja", 0),
               contractId |-> Veld("survey_run.contract_id", "uuid_of_niet", 0)]),
     leesUitnodigingen |->
        Nieuw([vendorIds |-> Veld("survey_response", "vendors", 0),
               geldigheidDagen |-> Veld("survey_response.expires_at", "dagen", 0),
               verstuurMail |-> Veld("mail", "standaard_ja", 0)]),
     leesHandmatigeVerzending |->
        Nieuw([verzondenOp |-> Veld("survey_response.handmatig_verzonden_op", "verzonden", 0)]),
     leesStatus |-> Nieuw([status |-> Keuzeveld("survey_run.status", STATUSSEN \cup Prototype)]),
     leesNieuweBeoordeling |->
        Nieuw([verdict |-> Keuzeveld("survey_review.verdict", {"goed", "nadere_vragen", "niet_goed", "goedgekeurd"}),
               toelichting |-> Veld("survey_review.toelichting", "toelichting", 0)]),
     leesBeoordelaar |-> Nieuw([userId |-> Veld("template_reviewer.user_id", "uuid", 0)]),
     leesNotitie |->
        Nieuw([tekst |-> Veld("response_note.tekst", "verplicht", 4000),
               soort |-> [Keuzeveld("response_note.soort", {"werk", "vastgesteld"}) EXCEPT !.lezer = "soort_notitie"]]),
     leesNieuwEngagement |->
        Nieuw([titel |-> Veld("vendor_engagement.titel", "ruw", 300), notitieTekst |-> Dossiernotitie,
               links |-> Veld("vendor_engagement_link", "links", 0)]),
     leesNieuweNotitie |-> Nieuw([tekst |-> Dossiernotitie]),
     leesAfronding |-> Nieuw([uitkomst |-> Dossiernotitie]),
     leesVolgendeStap |->
        Nieuw([tekst |-> Veld("vendor_engagement.volgende_stap_tekst", "ruwe_stap", 300),
               datum |-> Veld("vendor_engagement.volgende_stap_datum", "stapdatum", 0)]),
     leesNieuwLid |-> Nieuw(En(Lid, Rol)),
     leesRolWijziging |-> Nieuw(Rol),
     leesGegevensWijziging |-> Nieuw(Lid),
     leesNieuweTenant |->
        Nieuw(En(Tenant, [adminNaam |-> Veld("user.full_name", "verplicht", 200),
                          adminEmail |-> Veld("user.email", "platform_email", 0)])),
     leesTenantWijziging |-> Nieuw(Tenant),
     leesSupportReden |-> Nieuw([reden |-> Veld("audit_event.reden", "reden", 0)]),
     leesEigenTenantWijziging |-> Wijziging([antwoordEmail |-> Veld("tenant.antwoord_email", "antwoord_email", 0)])]

(* What JavaScript takes for true.                                         *)
Waar(w) ==
    w = Onzin \/ (~Ontbreekt(w) /\ (IsTekst(w) => w.lengte > 0) /\ w # Ja(FALSE)
                  /\ (w.soort = "getal" => w.n # 0))

(* Rules about more than one field: the dates of one request, a contact    *)
(* without a name, a verdict that needs an explanation.                    *)
Samenhang(f, body, gelezen) ==
    /\ {"startDate", "endDate"} \subseteq DOMAIN gelezen =>
         (Geen \notin {gelezen.startDate, gelezen.endDate} =>
             ~D!Eerder(gelezen.endDate.inh.dag, gelezen.startDate.inh.dag))
    /\ f = "leesNieuweVendorContact" /\ gelezen.fullName = Geen =>
         \A v \in DOMAIN body \ {"fullName"} : ~Waar(body[v])
    /\ f = "leesNieuweBeoordeling" /\ gelezen.verdict.inh.w \in {"nadere_vragen", "niet_goed"} =>
         gelezen.toelichting.kaal > 0

(* The fields that are read.                                               *)
Gelezen(f, body) ==
    LET F == FORMULIEREN[f]   naam == "fullName" IN
    IF f = "leesNieuweVendorContact" /\ (naam \in DOMAIN body => LeesVeld(F.velden[naam], body[naam]) = Geen)
    THEN {naam}
    ELSE F.altijd \cup (DOMAIN F.velden \cap DOMAIN body)

LeesFormulier(f, body) ==
    LET velden == FORMULIEREN[f].velden
        uit == [v \in Gelezen(f, body) |->
                  LeesVeld(velden[v], IF v \in DOMAIN body THEN body[v] ELSE Geen)] IN
    IF \E v \in DOMAIN uit : uit[v] = Onzin THEN Onzin ELSE Als(Samenhang(f, body, uit), uit)

-----------------------------------------------------------------------------
(* Uploads.  A file is its size, what its first bytes are and the type the *)
(* browser claims, or Geen.                                                *)
ViaHandtekening == [pdf |-> "application/pdf", png |-> "image/png", msg |-> "application/vnd.ms-outlook"]
OOXML_TYPES == {"docx", "xlsx"}
MAX_BESTANDSGROOTTE == 5242880
MAX_ENGAGEMENTBESTAND == 10485760
ALLE_BEKENDE_TYPES == {ViaHandtekening[k] : k \in DOMAIN ViaHandtekening} \cup OOXML_TYPES \cup {"message/rfc822"}

ValideerBestand(b) ==
    IF /\ b.grootte \in 1..MAX_BESTANDSGROOTTE
       /\ b.bytes \in {"pdf", "png"} /\ b.beweerd \in {Geen, ViaHandtekening[b.bytes]}
    THEN ViaHandtekening[b.bytes] ELSE Onzin

ValideerEngagementBestand(b) ==
    IF b.grootte \notin 1..MAX_ENGAGEMENTBESTAND THEN Onzin ELSE
    CASE b.bytes = "eml" -> Als(b.beweerd \in {Geen, "message/rfc822"}, "message/rfc822")
      [] b.bytes = "zip" -> Als(b.beweerd \in OOXML_TYPES, b.beweerd)
      [] b.bytes \in DOMAIN ViaHandtekening ->
           LET t == ViaHandtekening[b.bytes] IN
           Als(b.beweerd \in {Geen, t} \/ (b.bytes = "msg" /\ b.beweerd \notin ALLE_BEKENDE_TYPES), t)
      [] OTHER -> Onzin

(* veiligeWeergavenaam: after the last slash, then the last backslash,     *)
(* without control characters and outer blanks; the cut at 255 is left out.*)
Laatste(s, teken) ==
    LET na == {i \in 0..Len(s) : (i > 0 => s[i] = teken) /\ \A j \in i + 1 .. Len(s) : s[j] # teken} IN
    SubSeq(s, (CHOOSE i \in na : TRUE) + 1, Len(s))

VeiligeWeergavenaam(s) ==
    LET l == Laatste(Laatste(s, "/"), "\\")
        t == D!Trim(Deelrij(l, {i \in DOMAIN l : l[i] # "ctl"})) IN
    IF t = <<>> THEN <<"bestand">> ELSE t
=============================================================================
