------------------------------- MODULE Invoer -------------------------------
(***************************************************************************)
(* What comes in from outside: a question in an imported questionnaire, a  *)
(* supplier's answer, a file with suppliers or contracts, a filled-in      *)
(* form, an upload.  A behaviour takes one input; the invariants compare   *)
(* what the code makes of it with a definition that does not follow the    *)
(* code.                                                                   *)
(***************************************************************************)
EXTENDS Vragen

CONSTANTS
    Vraagvormen,    \* questions as they stand in a document
    Codes,          \* answer codes a request may carry
    Codelijsten,    \* lists of answer codes
    Teksten,        \* texts
    Getallen,       \* numbers
    Tabellen,       \* tables of cells
    Centen,         \* amounts, in cents
    Datums,         \* dates as written, existing or not
    Leveranciers,   \* files of suppliers, as sequences of rows
    Contractrijen,  \* rows of a file of contracts
    Koprijen,       \* columns of contacts
    Waarden,        \* values of a field of a form
    Uploads,        \* files sent
    Bestandsnamen,  \* their names
    Vandaag         \* now, as a day

VARIABLE geval      \* the input

B == INSTANCE Importbestand
F == INSTANCE Formulieren

GeenAntwoord ==
    [answerType |-> Geen, answerCode |-> Geen, answerCodes |-> Geen, answerText |-> Geen,
     answerNumber |-> Geen, comment |-> Geen]

MetVeld(veld, x, c) == [GeenAntwoord EXCEPT ![veld] = x, !.comment = c]
Met(veld, S) == {MetVeld(veld, x, c) : x \in S, c \in Teksten}

(* The answers that can be sent to a question of type t.                   *)
Antwoorden(t) ==
    CASE t \in MetCode -> Met("answerCode", Codes)
      [] t = "multi_choice" -> Met("answerCodes", Codelijsten)
      [] t = "open_text" -> Met("answerText", Teksten)
      [] t \in {"rating", "number"} -> Met("answerNumber", Getallen)
      [] OTHER -> Met("comment", {Geen})

Vragenlijstvraag == {VraagRij(v) : v \in {w \in Vraagvormen : VraagGoed(w)}}

(* The fields a form cannot do without, and a value that will do.          *)
Verplicht(f) ==
    {v \in F!FORMULIEREN[f].altijd : F!LeesVeld(F!FORMULIEREN[f].velden[v], Geen) = Onzin}
Voorbeeld(f, v) ==
    CHOOSE w \in Waarden : F!LeesVeld(F!FORMULIEREN[f].velden[v], w) \notin {Geen, Onzin}

(* The input sets hold what a document, a browser or a file can hold, and  *)
(* an example of every field that is required; Geen is no type of a file.  *)
Vormen ==
    /\ \A v \in Vraagvormen :
         DOMAIN v = Vraagvelden /\ (Gevuld(v.options) => v.options \in Seq(STRING))
    /\ \A x \in Teksten : Gevuld(x) => IsTekst(x)
    /\ Codelijsten \subseteq {Geen, Onzin} \cup Seq(STRING)
    /\ \A w \in Waarden : F!Waarde(w)
    /\ \A f \in DOMAIN F!FORMULIEREN : \A v \in Verplicht(f) :
         \E w \in Waarden : F!LeesVeld(F!FORMULIEREN[f].velden[v], w) \notin {Geen, Onzin}
    /\ \A r \in Leveranciers : r \in Seq(ToSet(r))
    /\ Bestandsnamen \subseteq Seq(STRING)
    /\ Geen \notin F!ALLE_BEKENDE_TYPES

ASSUME InvoerVormen == Vormen

InvoerInit == geval = [soort |-> "geen"]

LeesVraag ==
    \E v \in Vraagvormen : geval' = [soort |-> "vraag", vraag |-> v]

Beantwoord ==
    \E v \in Vragenlijstvraag : \E a \in Antwoorden(v.answer_type), n \in 0..v.max_files + 1 :
        geval' = [soort |-> "antwoord", vraag |-> v, antwoord |-> a, bestanden |-> n]

LeesTabel == \E t \in Tabellen, k \in 1..4 : geval' = [soort |-> "tabel", tabel |-> t, teken |-> k]

LeesBedrag == \E n \in Centen : geval' = [soort |-> "bedrag", centen |-> n]

LeesLeveranciers == \E r \in Leveranciers : geval' = [soort |-> "leveranciers", rijen |-> r]

LeesDatum == \E d \in Datums : geval' = [soort |-> "datum", datum |-> d]

LeesContract == \E r \in Contractrijen : geval' = [soort |-> "contract", rij |-> r]

LeesKoppen == \E k \in Koprijen : geval' = [soort |-> "koppen", koppen |-> k]

(* Fields that are judged together.                                        *)
Samen(f) ==
    {p \in {<<"startDate", "endDate">>, <<"verdict", "toelichting">>, <<"fullName", "email">>} :
       {p[1], p[2]} \subseteq DOMAIN F!FORMULIEREN[f].velden}

(* A form with one field that holds anything, or one that is accepted and  *)
(* another that holds anything; and nothing else but what is required.     *)
VulIn ==
    \E f \in DOMAIN F!FORMULIEREN :
      LET velden == F!FORMULIEREN[f].velden
          voorbeeld == [x \in Verplicht(f) |-> Voorbeeld(f, x)]
          vult(vrij) == geval' = [soort |-> "formulier", f |-> f, body |-> F!En(vrij, voorbeeld)] IN
      \/ \E v \in DOMAIN velden : \E w \in Waarden : vult([x \in {v} |-> w])
      \/ \E p \in Samen(f) : \E w \in {x \in Waarden : F!LeesVeld(velden[p[1]], x) # Onzin} :
           \E u \in Waarden : vult([x \in {p[1], p[2]} |-> IF x = p[1] THEN w ELSE u])

Upload == \E b \in Uploads : geval' = [soort |-> "upload", bestand |-> b]

Benoem == \E n \in Bestandsnamen : geval' = [soort |-> "naam", naam |-> n]

InvoerNext ==
    /\ geval.soort = "geen"
    /\ LeesVraag \/ Beantwoord \/ LeesTabel \/ LeesBedrag \/ LeesLeveranciers \/ LeesDatum
       \/ LeesContract \/ LeesKoppen \/ VulIn \/ Upload \/ Benoem

InvoerSpec == InvoerInit /\ [][InvoerNext]_geval

-----------------------------------------------------------------------------
(* Properties.                                                             *)

(* valideerVragenlijst takes in no question that a supplier could not      *)
(* answer, except for exactly these; such a question, when required, keeps *)
(* every response of the round from being submitted.                       *)
VraagBeantwoordbaar ==
    geval.soort = "vraag" /\ VraagGoed(geval.vraag) /\ geval.vraag.answer_type # "instruction" =>
        LET v == VraagRij(geval.vraag) IN
        (\E a \in Antwoorden(v.answer_type), n \in 0..v.max_files : ToetsAntwoord(v, a, n))
            <=> ~Onmogelijk(v)

(* An answer toetsAntwoord accepts is a row the CHECKs of migration 0005   *)
(* accept, its number has no more decimals than config.decimals allows,    *)
(* and a confirmation of evidence has evidence.  The exceptions: ten UTF-16*)
(* units that are fewer than ten characters, and a number nearer to zero   *)
(* than a millionth, of which the decimals go uncounted.                   *)
AntwoordPast ==
    geval.soort = "antwoord" /\ ToetsAntwoord(geval.vraag, geval.antwoord, geval.bestanden) =>
        LET v == geval.vraag   rij == GeldigAntwoord(v, geval.antwoord) IN
        /\ survey_answer_shape_check(rij)
        /\ survey_answer_comment_length_check(rij)
        /\ \/ survey_answer_comment_required_check(rij)
           \/ rij.comment # Geen /\ rij.comment.tekens < rij.comment.kaal
        /\ v.answer_type = "number" /\ Gevuld(v.decimals) =>
             EchteDecimalen(rij.answer_number) * EEN <= v.decimals \/ rij.answer_number \in -9..9
        /\ v.answer_type = "confirmation" /\ v.allows_upload /\ rij.answer_code = "confirmed" =>
             geval.bestanden \in 1..v.max_files

(* The columns that take no NULL, and what the database asks of the others.*)
NIET_LEEG ==
    {"vendor.name", "vendor_contact.full_name", "vendor_contact.is_primary", "contract.name",
     "contract.warning_days_before", "survey_run.template_id", "survey_run.survey_kind",
     "survey_review.verdict", "survey_review.toelichting", "response_note.tekst", "response_note.soort",
     "vendor_engagement.titel", "vendor_engagement_note.tekst", "tenant_membership.role",
     "tenant.name", "user.full_name", "vendor_category.label", "werkingsgebied.label"}
DATUMKOLOMMEN == {"contract.start_date", "contract.end_date", "vendor_engagement.volgende_stap_datum"}
KOLOM_WAARDEN ==
    [k \in {"contract.auto_renews", "survey_run.status", "survey_run.survey_kind",
            "survey_review.verdict", "response_note.soort", "tenant_membership.role"} |->
       CASE k = "contract.auto_renews" -> {"ja", "nee", "onbekend"}
         [] k = "survey_run.status" -> {"draft", "active", "finished", "archived"}
         [] k = "survey_run.survey_kind" -> {"vendor_compliance", "internal_review"}
         [] k = "survey_review.verdict" -> {"goed", "nadere_vragen", "niet_goed", "goedgekeurd"}
         [] k = "response_note.soort" -> {"werk", "vastgesteld"}
         [] k = "tenant_membership.role" -> {"admin", "user", "reviewer", "support"}]

tenant_antwoord_email_format_check(w) == F!Strak(w) /\ F!IsGeldigMailadres(w)
survey_attachment_size_check(n) == n > 0 /\ n <= 5242880
vendor_engagement_attachment_grootte_check(n) == n > 0 /\ n <= 10485760

NeemtKolom(k, w) ==
    IF w = Geen THEN k \notin NIET_LEEG ELSE
    /\ k \in DATUMKOLOMMEN => B!DatumGeldig(w.inh.dag)
    /\ k \in {"contract.notice_period_days", "contract.warning_days_before"} => w.heel /\ ~w.groot
    /\ k = "contract.value_eur" => w.inh.aantal <= 13
    /\ k = "tenant.antwoord_email" => tenant_antwoord_email_format_check(w)
    /\ k = "vendor_engagement_note.tekst" => w.lengte \in 1..500
    /\ k = "vendor_engagement.volgende_stap_tekst" => w.lengte \in 1..300
    /\ k \in {"vendor_engagement.titel", "response_note.tekst"} => w.kaal > 0
    /\ k \in DOMAIN KOLOM_WAARDEN => w.inh.w \in KOLOM_WAARDEN[k]
    /\ k \in {"contract_survey_template", "survey_response"} =>
         Cardinality({w.s[i].inh.id : i \in DOMAIN w.s}) = Len(w.s)

(* Where a form lets through what its column does not take, or keeps blanks*)
(* around a text: a date of a contract that is no day of the calendar, of  *)
(* which only the form is checked; a date of a next step past the end of   *)
(* its month; a number too large for integer or numeric(15,2); an address  *)
(* in platform-invoer.ts with an empty part in its domain or of more than  *)
(* 254 characters; an id twice, in capitals and not; a status that is a    *)
(* property of every object; the blanks of a member's address.             *)
Doorgelaten(k, w) ==
    \/ k \in {"contract.start_date", "contract.end_date"} /\ ~B!DatumGeldig(w.inh.dag)
    \/ /\ k = "vendor_engagement.volgende_stap_datum" /\ ~B!DatumGeldig(w.inh.dag)
       /\ w.inh.dag.maand \in 1..12 /\ w.inh.dag.dag \in 1..31
    \/ k \in {"contract.notice_period_days", "contract.warning_days_before"} /\ w.groot
    \/ k = "contract.value_eur" /\ w.inh.aantal > 13
    \/ k = "tenant.antwoord_email" /\ (0 \in ToSet(w.inh.delen) \/ w.kaal > 254)
    \/ /\ k = "contract_survey_template"
       /\ \E i, j \in DOMAIN w.s : w.s[i] # w.s[j] /\ w.s[i].inh.id = w.s[j].inh.id
    \/ k = "survey_run.status" /\ w.inh.w \in F!Prototype
    \/ k = "user.email" /\ w.lengte > w.kaal

(* What one form accepts another accepts as well, when both write the same *)
(* column: the same value comes out.  Only e-mail addresses have two rules.*)
EenRegelPerKolom(f, body, k, v) ==
    \A g \in DOMAIN F!FORMULIEREN : \A u \in DOMAIN F!FORMULIEREN[g].velden :
        LET velden == F!FORMULIEREN[g].velden   w == F!LeesVeld(velden[u], body[v]) IN
        velden[u].kolom = k =>
            \/ w = F!LeesVeld(F!FORMULIEREN[f].velden[v], body[v])
            \/ k \in {"tenant.antwoord_email", "user.email"}
            \/ k = "vendor_contact.full_name" /\ w = Onzin     \* a name that may be left out

(* A form that is accepted holds only what its columns take, with the      *)
(* exceptions of Doorgelaten; its texts have no blanks around them; what   *)
(* comes out can be sent again and comes out the same; and two forms that  *)
(* write one column agree.                                                 *)
FormulierPast ==
    geval.soort = "formulier" =>
        LET f == geval.f   uit == F!LeesFormulier(f, geval.body)   velden == F!FORMULIEREN[f].velden IN
        uit # Onzin =>
            /\ f = "leesNieuweVendorContact" /\ uit.fullName = Geen => DOMAIN uit = {"fullName"}
            /\ \A v \in DOMAIN uit :
                 LET k == velden[v].kolom   w == uit[v] IN
                 /\ NeemtKolom(k, w) \/ (w = Geen /\ f = "leesNieuweVendorContact") \/ Doorgelaten(k, w)
                 /\ F!IsTekst(w) => F!Strak(w) \/ Doorgelaten(k, w)
                 /\ w # Geen => F!LeesVeld(velden[v], w) = w
                 /\ v \in DOMAIN geval.body => EenRegelPerKolom(f, geval.body, k, v)
            /\ {"startDate", "endDate"} \subseteq DOMAIN uit /\ Geen \notin {uit.startDate, uit.endDate} =>
                 ~B!Eerder(uit.endDate.inh.dag, uit.startDate.inh.dag)

(* An upload that is accepted has a size and a type the CHECKs of          *)
(* migrations 0005, 0042 and 0045 take, and a claim that names another     *)
(* known type is refused.  A name is shown without a path and never empty. *)
UploadPast ==
    /\ geval.soort = "upload" =>
         LET b == geval.bestand   survey == F!ValideerBestand(b)   dossier == F!ValideerEngagementBestand(b) IN
         /\ survey # Onzin => survey \in {"application/pdf", "image/png"} /\ survey = dossier
                              /\ survey_attachment_size_check(b.grootte)
         /\ dossier # Onzin => /\ dossier \in F!ALLE_BEKENDE_TYPES
                               /\ vendor_engagement_attachment_grootte_check(b.grootte)
                               /\ b.beweerd \in F!ALLE_BEKENDE_TYPES => dossier = b.beweerd
    /\ geval.soort = "naam" =>
         LET n == F!VeiligeWeergavenaam(geval.naam) IN
         n # <<>> /\ n[1] # " " /\ ToSet(n) \cap {"/", "\\", "ctl"} = {}

(* What is accepted from outside fits where it goes.                       *)
InvoerPast == AntwoordPast /\ FormulierPast /\ UploadPast

(* RFC 4180: what a spreadsheet writes for a table.                        *)
Schrijf(tabel, teken) ==
    LET dubbel(cel) == FlattenSeq([i \in DOMAIN cel |-> IF cel[i] = B!Quote THEN <<B!Quote, B!Quote>>
                                                         ELSE <<cel[i]>>])
        cel(c) == IF \E i \in DOMAIN c : c[i] \in {B!Quote, B!LF, B!CR, teken}
                  THEN <<B!Quote>> \o dubbel(c) \o <<B!Quote>> ELSE c
        rij(r) == FlattenSeq([i \in DOMAIN r |-> IF i = 1 THEN cel(r[i]) ELSE <<teken>> \o cel(r[i])])
                  \o <<B!CR, B!LF>> IN
    FlattenSeq([i \in DOMAIN tabel |-> rij(tabel[i])])

(* The table as a reader sees it: a row with something to see in a cell.   *)
Zichtbaar(rij) == \E i \in DOMAIN rij : ToSet(rij[i]) \ {" ", "tab", "lf", "cr", "bom"} # {}

(* leesCsv reads back the table a spreadsheet wrote with any of the four   *)
(* separators, with or without a byte order mark: quotes, separators and   *)
(* line ends within a cell included.  Only the rows with nothing to see    *)
(* and the white space around a header are lost.  The first row has two    *)
(* columns, headers of its own, the second one with white space and a line *)
(* end around it, and no other separator.                                  *)
TabelGelezen ==
    geval.soort = "tabel" =>
        LET kop == <<<<"a">>, <<" ", "b", "lf">>>>
            csv == Schrijf(<<kop>> \o geval.tabel, B!Scheidingstekens[geval.teken]) IN
        \A bom \in {<<>>, <<B!Bom>>} :
            B!LeesCsv(bom \o csv) = [koppen |-> <<<<"a">>, <<"b">>>>,
                                     rijen |-> SelectSeq(geval.tabel, Zichtbaar)]

Cijferrij(n) ==
    LET tekens == <<"0", "1", "2", "3", "4", "5", "6", "7", "8", "9">>
        rij[k \in Nat] == IF k < 10 THEN <<tekens[k + 1]>> ELSE Append(rij[k \div 10], tekens[(k % 10) + 1]) IN
    rij[n]

(* leesBedrag reads the amounts as the Netherlands and as Coupa write them:*)
(* in whole euros with or without groups of three, or with two decimals.   *)
BedragGelezen ==
    geval.soort = "bedrag" =>
        LET n == geval.centen   e == n \div 100
            cijfers(k) == SubSeq(Cijferrij(1000 + k), 2, 4)
            groepen(p) == IF e < 1000 THEN Cijferrij(e) ELSE Cijferrij(e \div 1000) \o <<p>> \o cijfers(e % 1000)
            centen == SubSeq(Cijferrij(100 + (n % 100)), 2, 3) IN
        \A p \in B!Punten : \A q \in B!Punten \ {p} :
            /\ B!LeesBedrag(groepen(p) \o <<q>> \o centen) = n
            /\ n % 100 = 0 => B!LeesBedrag(groepen(p)) = n

(* Of the rows with a name about one supplier exactly the first is         *)
(* imported, and the counts of the summary add up.                         *)
LeveranciersGelezen ==
    geval.soort = "leveranciers" =>
        LET r == geval.rijen
            bevindingen == [i \in DOMAIN r |-> B!Leveranciersbevindingen(r, i)]
            goed == {i \in DOMAIN r : B!Importeerbaar(bevindingen[i])}
            genoemd == {i \in DOMAIN r : r[i].name # ""}
            wie(i) == IF r[i].kvk # "" THEN <<r[i].kvk>> ELSE <<"", r[i].name>>
            telling == B!Samenvatting(bevindingen) IN
        /\ goed = {i \in genoemd : \A j \in genoemd : wie(j) = wie(i) => i <= j}
        /\ telling.totaal = Len(r) /\ telling.importeerbaar = Cardinality({wie(i) : i \in genoemd})
        /\ telling.importeerbaar + telling.geblokkeerd = Len(r)
        /\ telling.metWaarschuwing <= telling.importeerbaar

(* leesContractDatum accepts exactly the days of the calendar; a row is    *)
(* refused when its names are missing or its dates, both days of the       *)
(* calendar, are in the wrong order.                                       *)
ContractGelezen ==
    /\ geval.soort = "datum" =>
         LET d == geval.datum IN
         B!DatumGeldig(d) <=> d.maand \in 1..12 /\ d.dag \in 1..B!DagenIn(d.maand, d.jaar)
    /\ geval.soort = "contract" =>
         LET r == geval.rij
             dag(x) == 400 * x.jaar + 32 * x.maand + x.dag IN
         B!Importeerbaar(B!Contractbevindingen(r)) <=>
             /\ r.contract # "" /\ r.vendor # ""
             /\ r.start # B!GeenDatum /\ r.eind # B!GeenDatum /\ B!DatumGeldig(r.start) /\ B!DatumGeldig(r.eind)
                  => dag(r.start) <= dag(r.eind)

(* A header of a contact has a number when it says so; the last unnumbered *)
(* one of its field is the primary contact, 1, and any other takes the     *)
(* number after the highest before it.  Of the filled cells of a row none  *)
(* is lost, unless two columns of one field have the same number: then a   *)
(* number was written twice, or was written behind the column that took it.*)
(* The primary contact is never lost.                                      *)
ContactenGelezen ==
    geval.soort = "koppen" =>
        LET k == geval.koppen
            laatste(i) == k[i].nr = 0 /\ \A j \in DOMAIN k : j > i => k[j] # k[i]
            nummer[i \in DOMAIN k] ==
                IF k[i].nr # 0 THEN k[i].nr
                ELSE IF laatste(i) THEN 1 ELSE 1 + Max({1} \cup {nummer[j] : j \in 1..i - 1})
            gelezen(L) == B!Contacten(k, [i \in DOMAIN k |-> IF i \in L THEN B!Leegveld ELSE i]) IN
        \A L \in SUBSET DOMAIN k :
            LET gevuld == DOMAIN k \ L
                botst == \E i, j \in gevuld : i < j /\ k[i].veld = k[j].veld /\ nummer[i] = nummer[j] IN
            /\ {gelezen(L)[p] : p \in DOMAIN gelezen(L)} = gevuld <=> ~botst
            /\ \A i \in gevuld : laatste(i) => gelezen(L)[<<k[i].veld, 1>>] = i

(* What beoordeelImportbestand and beoordeelContractImportbestand show is  *)
(* what stands in the file.                                                *)
BestandGoedGelezen ==
    TabelGelezen /\ BedragGelezen /\ LeveranciersGelezen /\ ContractGelezen /\ ContactenGelezen
=============================================================================
