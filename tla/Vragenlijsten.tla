--------------------------- MODULE Vragenlijsten ---------------------------
(***************************************************************************)
(* Questionnaires as data that several requests work on: a document is     *)
(* imported as a template (VragenlijstImportService, seed-vragenlijsten),  *)
(* exported again, put out in rounds (RondeBeheerService), and frozen by   *)
(* the trigger of migration 0005 once a round has left the draft status.   *)
(*                                                                         *)
(* The categories of a template are one row here, and so are its           *)
(* questions: two changes of one template by SQL take turns.  A category   *)
(* is known by its name, as the UUIDs are.                                 *)
(***************************************************************************)
EXTENDS Transacties, Vragen

CONSTANTS
    Templates, Rondes,   \* keys of survey_template and survey_run
    Documenten,          \* the documents that are offered
    ExtraCategorie,      \* the category a change by SQL adds
    ExtraVraag,          \* and the question in it
    Slug,                \* what maakSleutel makes of the name of a category, in parts
    BeginRij             \* the rows at the start

ASSUME VragenlijstenGeen ==
    Geen \notin Rondes \cup {"draft", "active", "finished", "archived"}
                \cup BEVESTIGINGSCODES \cup COMMENTWAARDEN \cup {"yes", "no"}

(* Geen and Onzin are no number, switch, code, list of codes or text.      *)
ASSUME VragenlijstenWaarden ==
    {Geen, Onzin} \cap (Int \cup BOOLEAN \cup STRING \cup Seq(STRING)
                        \cup [lengte : Nat, kaal : Nat, tekens : Nat, heel : Nat]) = {}

(* Types the validation looks at and the model does not: positions are     *)
(* whole numbers, a question has its fields, every name has a key.         *)
ASSUME VragenlijstenDocumenten ==
    \A d \in Documenten : DocumentGoed(d) =>
      /\ d.categories \in Seq(ToSet(d.categories)) /\ d.questions \in Seq(ToSet(d.questions))
      /\ \A c \in ToSet(d.categories) : c.name \in DOMAIN Slug /\ c.position \in Int
      /\ \A v \in ToSet(d.questions) : v.position \in Int /\ DOMAIN v.vraag = Vraagvelden

ASSUME VragenlijstenExtra ==
    LET c == ExtraCategorie   v == ExtraVraag IN
    /\ c = [name |-> c.name, position |-> c.position, min_answers |-> c.min_answers]
    /\ v = [question_key |-> v.question_key, position |-> v.position, categorie |-> c.name,
            vraag |-> VraagRij(v.vraag)]
    /\ Gevuld(c.name) /\ c.name \in DOMAIN Slug /\ c.position \in Int /\ v.position \in Int

(* A key is a sequence of words and numbers, which no absent value is.     *)
Sleuteldelen == Nat \cup UNION {ToSet(Slug[n]) : n \in DOMAIN Slug}

ASSUME VragenlijstenSlug ==
    /\ \A n \in DOMAIN Slug : Slug[n] \in Seq(Sleuteldelen)
    /\ \A x \in {Geen, Onzin} : x \notin Seq(Sleuteldelen) /\ x \notin BOOLEAN \cup Int

Kop(t) == <<"survey_template", t>>
Cat(t) == <<"survey_category", t>>
Vra(t) == <<"survey_question", t>>
Run(r) == <<"survey_run", r>>
RijSleutels ==
    {Kop(t) : t \in Templates} \cup {Cat(t) : t \in Templates} \cup {Vra(t) : t \in Templates}
    \cup {Run(r) : r \in Rondes}

VARIABLES
    bijStart,    \* per round, the template as it was when the round left draft
    onderweg,    \* rounds that left draft while a change of their template was open
    gewijzigd,   \* templates a change by SQL has been made of
    verplaatst,  \* templates a question was moved out of
    uitvoer,     \* per request, what was exported
    verstoord,   \* exports and screens during which the template changed
    getoond      \* per round, what its suppliers were shown

vars == <<rij, verzoek, bijStart, onderweg, gewijzigd, verplaatst, uitvoer, verstoord, getoond>>

GeenRij == [stand |-> "geen", van |-> Geen, status |-> Geen, inhoud |-> {}]
LiveRij(van, status, inhoud) == [stand |-> "live", van |-> van, status |-> status, inhoud |-> inhoud]

STATUSSEN == {"draft", "active", "finished", "archived"}
MagOvergaan(van, naar) ==
    <<van, naar>> \in {<<"draft", "active">>, <<"active", "finished">>,
                      <<"finished", "active">>, <<"finished", "archived">>}

-----------------------------------------------------------------------------
(* From a document to rows and back.                                       *)

Categorieen(d) ==
    {[name |-> c.name, position |-> c.position, min_answers |-> c.min_answers] : c \in ToSet(d.categories)}

CategorieNaam(d, key) ==
    IF key = Geen THEN Geen ELSE (CHOOSE c \in ToSet(d.categories) : c.key = key).name

VragenVan(d) ==
    {[question_key |-> v.question_key, position |-> v.position,
      categorie |-> CategorieNaam(d, v.category_key), vraag |-> VraagRij(v.vraag)] : v \in ToSet(d.questions)}

Naam(d) == <<d.name, d.version>>

(* ORDER BY position, of rows no two of which have the same one.           *)
OpPositie(S) ==
    [i \in 1..Cardinality(S) |->
       CHOOSE x \in S : Cardinality({y \in S : y.position < x.position}) = i - 1]

(* Mutant of ExportSleutels: categories whose names look alike share a key.*)
ExportSlugs(cs) == [i \in DOMAIN cs |-> Slug[cs[i].name]]

(* maakSleutel of each name, with a number behind it when it is taken: one *)
(* of the first numbers is free, for there are as many as categories.      *)
VrijeSleutel(sleutels, basis, aantal) ==
    LET vrij(k) == k \notin ToSet(sleutels) IN
    IF vrij(basis) THEN basis
    ELSE Append(basis, Kleinste({n \in 2..aantal + 1 : vrij(Append(basis, n))}))

ExportSleutels(cs) ==
    LET s[i \in 0..Len(cs)] ==
          IF i = 0 THEN <<>>
          ELSE Append(s[i - 1], VrijeSleutel(s[i - 1], Slug[cs[i].name], Len(cs)))
    IN s[Len(cs)]

(* The document exporteer makes of what its three SELECTs found.           *)
ExportDocument(naam, categorieen, vragen) ==
    LET cs == OpPositie(categorieen)
        vs == OpPositie(vragen)
        sleutels == ExportSleutels(cs)
        sleutel(n) == IF \E i \in DOMAIN cs : cs[i].name = n
                      THEN sleutels[CHOOSE i \in DOMAIN cs : cs[i].name = n] ELSE Geen
    IN [schema_version |-> SCHEMA_VERSIE, verboden |-> {}, name |-> naam[1], version |-> naam[2],
        categories |-> [i \in DOMAIN cs |->
          [key |-> sleutels[i], name |-> cs[i].name, position |-> cs[i].position,
           min_answers |-> cs[i].min_answers]],
        questions |-> [i \in DOMAIN vs |->
          [question_key |-> vs[i].question_key, category_key |-> sleutel(vs[i].categorie),
           position |-> vs[i].position, vraag |-> vs[i].vraag]]]

(* A round is made of a template with a question to answer.                *)
ZonderInstructies(vragen) == {v \in vragen : v.vraag.answer_type # "instruction"}

Uitvraagbaar(vragen) == ZonderInstructies(vragen) # {}

(* At the start there are templates that were imported, each from a        *)
(* document and under a name of its own, and rounds in draft.              *)
ASSUME VragenlijstenBegin ==
    /\ BeginRij = [k \in RijSleutels |-> BeginRij[k]]
    /\ \A t \in Templates :
         \/ \A k \in {Kop(t), Cat(t), Vra(t)} : BeginRij[k] = GeenRij
         \/ \E d \in Documenten :
              /\ DocumentGoed(d)
              /\ BeginRij[Kop(t)] = LiveRij(t, Geen, {Naam(d)})
              /\ BeginRij[Cat(t)] = LiveRij(t, Geen, Categorieen(d))
              /\ BeginRij[Vra(t)] = LiveRij(t, Geen, VragenVan(d))
              /\ \A u \in Templates \ {t} : BeginRij[Kop(u)].inhoud # {Naam(d)}
    /\ \A r \in Rondes :
         \/ BeginRij[Run(r)] = GeenRij
         \/ \E t \in Templates :
              /\ BeginRij[Run(r)] = LiveRij(t, "draft", {})
              /\ BeginRij[Kop(t)].stand = "live" /\ Uitvraagbaar(BeginRij[Vra(t)].inhoud)

-----------------------------------------------------------------------------
Vraagt == [template |-> Geen, ronde |-> Geen, status |-> Geen, document |-> Geen,
           categorieen |-> {}, aantal |-> 0, doel |-> Geen]

Init ==
    /\ rij = BeginRij
    /\ verzoek = [q \in Verzoeken |-> NieuwVerzoek]
    /\ bijStart = [r \in Rondes |-> Geen]
    /\ onderweg = {} /\ gewijzigd = {} /\ verplaatst = {} /\ verstoord = {}
    /\ uitvoer = [q \in Verzoeken |-> Geen]
    /\ getoond = [r \in Rondes |-> {}]

In(q) == verzoek[q].invoer
Op(q, op, pc) == verzoek[q].op = op /\ verzoek[q].pc = pc
Erna == <<bijStart, onderweg, gewijzigd, verplaatst, uitvoer, verstoord, getoond>>
Blijft == UNCHANGED rij /\ UNCHANGED Erna

Ziet(q, r) == Zicht(q)[r]
Bestaat(q, r) == Ziet(q, r).stand = "live"

(* A fresh UUID: no row has the key and no open request uses it.           *)
NieuweTemplate(t) == rij[Kop(t)].stand = "geen" /\ \A p \in Lopend : In(p).template # t
NieuweRonde(r) == rij[Run(r)].stand = "geen" /\ \A p \in Lopend : In(p).ronde # r

-----------------------------------------------------------------------------
(* Import.  op is "importeer" for the service and "seed" for the script.   *)
Importeer(q, op, d, t) ==
    /\ NieuweTemplate(t)
    /\ IF DocumentGoed(d)
       THEN Begint(q, op, [Vraagt EXCEPT !.template = t, !.document = d], "zoek")
       ELSE verzoek[q].pc = "nieuw" /\ Weigert(q)
    /\ Blijft

Bezet(q, naam) == \E t \in Templates : Bestaat(q, Kop(t)) /\ Ziet(q, Kop(t)).inhoud = {naam}

(* SELECT template_id ... WHERE name AND version; the script then stops.   *)
ZoekTemplate(q) ==
    /\ verzoek[q].pc = "zoek"
    /\ IF Bezet(q, Naam(In(q).document))
       THEN IF verzoek[q].op = "seed" THEN Naar(q, "klaar") ELSE Weigert(q)
       ELSE Naar(q, "kop")
    /\ Blijft

(* survey_template_tenant_name_version_key: a name another transaction has *)
(* inserted is waited for, a committed one refuses the row.                *)
NaamWacht(q) ==
    \E p \in Verzoeken \ {q} : \E t \in Templates :
        /\ Kop(t) \in DOMAIN verzoek[p].schrijf
        /\ verzoek[p].schrijf[Kop(t)].inhoud = {Naam(In(q).document)}

MaakTemplate(q) ==
    LET t == In(q).template   naam == Naam(In(q).document) IN
    /\ verzoek[q].pc = "kop" /\ ~ NaamWacht(q)
    /\ IF Bezet(q, naam)
       THEN verzoek' = [verzoek EXCEPT ![q] = [NieuwVerzoek EXCEPT !.pc = "dubbel"]]
       ELSE Schrijft(q, {Kop(t)}, [k \in {Kop(t)} |-> LiveRij(t, Geen, {naam})], "categorieen")
    /\ Blijft

MaakCategorieen(q) ==
    LET k == Cat(In(q).template) IN
    /\ verzoek[q].pc = "categorieen"
    /\ Schrijft(q, {k}, [x \in {k} |-> LiveRij(In(q).template, Geen, Categorieen(In(q).document))], "vragen")
    /\ Blijft

MaakVragen(q) ==
    LET k == Vra(In(q).template) IN
    /\ verzoek[q].pc = "vragen"
    /\ Schrijft(q, {k}, [x \in {k} |-> LiveRij(In(q).template, Geen, VragenVan(In(q).document))], "commit")
    /\ Blijft

-----------------------------------------------------------------------------
(* Export, and the screen of a template (VragenlijstBeheerService.detail): *)
(* three SELECTs, each of what is committed by then.  The screen counts    *)
(* the questions in the first.                                             *)
Exporteer(q, t) ==
    /\ Begint(q, "exporteer", [Vraagt EXCEPT !.template = t], "leesCategorieen")
    /\ Bestaat(q, Kop(t))
    /\ Blijft

Detail(q, t) ==
    /\ Begint(q, "detail",
              [Vraagt EXCEPT !.template = t,
                 !.aantal = Cardinality(ZonderInstructies(rij[Vra(t)].inhoud))], "leesCategorieen")
    /\ Bestaat(q, Kop(t))
    /\ Blijft

LeesCategorieen(q) ==
    /\ verzoek[q].pc = "leesCategorieen"
    /\ verzoek' = [verzoek EXCEPT ![q].pc = "leesVragen",
                     ![q].invoer.categorieen = Ziet(q, Cat(In(q).template)).inhoud]
    /\ Blijft

(* The last SELECT, and the answer to the request.                         *)
LeesVragen(q) ==
    LET t == In(q).template
        naam == CHOOSE n \in Ziet(q, Kop(t)).inhoud : TRUE
    IN
    /\ verzoek[q].pc = "leesVragen"
    /\ uitvoer' = [uitvoer EXCEPT ![q] =
         [soort |-> verzoek[q].op, template |-> t, aantal |-> In(q).aantal,
          document |-> ExportDocument(naam, In(q).categorieen, Ziet(q, Vra(t)).inhoud),
          categorieen |-> Ziet(q, Cat(t)).inhoud, vragen |-> Ziet(q, Vra(t)).inhoud]]
    /\ Naar(q, "klaar")
    /\ UNCHANGED <<rij, bijStart, onderweg, gewijzigd, verplaatst, verstoord, getoond>>

-----------------------------------------------------------------------------
(* Rounds.                                                                 *)

(* RondeBeheerService.maakRonde: the template is there, it has a question. *)
MaakRonde(q, t, r) ==
    /\ NieuweRonde(r)
    /\ Begint(q, "maakRonde", [Vraagt EXCEPT !.template = t, !.ronde = r], "telVragen")
    /\ Bestaat(q, Kop(t))
    /\ Blijft

TelVragen(q) ==
    /\ verzoek[q].pc = "telVragen"
    /\ IF Uitvraagbaar(Ziet(q, Vra(In(q).template)).inhoud) THEN Naar(q, "ronde") ELSE Weigert(q)
    /\ Blijft

SchrijfRonde(q) ==
    LET k == Run(In(q).ronde) IN
    /\ verzoek[q].pc = "ronde"
    /\ Schrijft(q, {k}, [x \in {k} |-> LiveRij(In(q).template, "draft", {})], "commit")
    /\ Blijft

(* wijzigStatus and archiveer read the round and check the step to take;   *)
(* from there on the status they read is not looked at again.              *)
WijzigStatus(q, r, naar) ==
    /\ Begint(q, "wijzigStatus", [Vraagt EXCEPT !.ronde = r, !.status = naar], "status")
    /\ Bestaat(q, Run(r)) /\ MagOvergaan(rij[Run(r)].status, naar)
    /\ Blijft

Archiveer(q, r) ==
    /\ Begint(q, "archiveer", [Vraagt EXCEPT !.ronde = r, !.status = "archived"], "status")
    /\ Bestaat(q, Run(r)) /\ rij[Run(r)].status # "archived"
    /\ Blijft

SchrijfStatus(q) ==
    LET k == Run(In(q).ronde) IN
    /\ verzoek[q].pc = "status"
    /\ Schrijft(q, {k}, [x \in {k} |-> [rij[k] EXCEPT !.status = In(q).status]], "commit")
    /\ Blijft

(* VragenlijstLeesService.haalVragenlijst: what a supplier sees, by        *)
(* category, the questions without one apart.                              *)
Vragenlijst(categorieen, vragen) ==
    LET van(naam) == OpPositie({v \in vragen : v.categorie = naam})
        cs == OpPositie({c \in categorieen : van(c.name) # <<>>}) IN
    [losse |-> van(Geen),
     categorieen |-> [i \in DOMAIN cs |->
       [key |-> Slug[cs[i].name], name |-> cs[i].name, questions |-> van(cs[i].name)]]]

HaalVragenlijst(q, r) ==
    LET t == rij[Run(r)].van IN
    /\ rij[Run(r)].status = "active"
    /\ Begint(q, "haal", [Vraagt EXCEPT !.ronde = r], "commit")
    /\ getoond' = [getoond EXCEPT ![r] = @ \cup {Vragenlijst(rij[Cat(t)].inhoud, rij[Vra(t)].inhoud)}]
    /\ UNCHANGED <<rij, bijStart, onderweg, gewijzigd, verplaatst, uitvoer, verstoord>>

-----------------------------------------------------------------------------
(* Changes of a template that is there, by SQL: no code under src/src      *)
(* makes one, the trigger is there for those that do.                      *)

(* Mutant of Bevroren: only a round that is running now counts.            *)
BevrorenNu(q, t) ==
    \E r \in Rondes : Ziet(q, Run(r)).van = t /\ Ziet(q, Run(r)).status = "active"

(* assert_template_niet_bevroren looks at NEW.template_id, and at          *)
(* OLD.template_id for a DELETE only.                                      *)
Bevroren(q, t) ==
    \E r \in Rondes : Ziet(q, Run(r)).van = t /\ Ziet(q, Run(r)).status \in STATUSSEN \ {"draft"}

Past(v, vragen) ==
    \A w \in vragen : w.question_key # v.question_key /\ w.position # v.position

Wijziging(q, t, doel) ==
    /\ Begint(q, "wijzig", [Vraagt EXCEPT !.template = t, !.doel = doel], "vraagWijzigen")
    /\ Bestaat(q, Kop(t)) /\ Bestaat(q, Kop(doel))
    /\ Blijft

(* DELETE of a question.                                                   *)
VraagWeg(q) ==
    LET t == In(q).template   k == Vra(t) IN
    /\ verzoek[q].pc = "vraagWijzigen" /\ In(q).doel = t /\ ~ Bevroren(q, t)
    /\ \E v \in rij[k].inhoud :
         Schrijft(q, {k}, [x \in {k} |-> [rij[k] EXCEPT !.inhoud = @ \ {v}]], "commit")
    /\ Blijft

(* INSERT of a category and a question in it, in one transaction; the     *)
(* unique indexes let them in.                                             *)
VraagErbij(q) ==
    LET t == In(q).template   c == Cat(t)   v == Vra(t) IN
    /\ verzoek[q].pc = "vraagWijzigen" /\ In(q).doel = t /\ ~ Bevroren(q, t)
    /\ Past(ExtraVraag, rij[v].inhoud)
    /\ \A x \in rij[c].inhoud : x.name # ExtraCategorie.name /\ x.position # ExtraCategorie.position
    /\ Schrijft(q, {c, v},
         [x \in {c, v} |-> [rij[x] EXCEPT !.inhoud = @ \cup {IF x = c THEN ExtraCategorie ELSE ExtraVraag}]],
         "commit")
    /\ Blijft

(* UPDATE of template_id of a question without category: NEW is the        *)
(* template it goes to.                                                    *)
VraagVerplaatst(q) ==
    LET van == Vra(In(q).template)   naar == Vra(In(q).doel) IN
    /\ verzoek[q].pc = "vraagWijzigen" /\ van # naar /\ ~ Bevroren(q, In(q).doel)
    /\ \E v \in rij[van].inhoud :
         /\ v.categorie = Geen /\ Past(v, rij[naar].inhoud)
         /\ Schrijft(q, {van, naar},
              [x \in {van, naar} |-> [rij[x] EXCEPT !.inhoud = IF x = van THEN @ \ {v} ELSE @ \cup {v}]],
              "commit")
    /\ Blijft

(* The trigger refuses the change.                                         *)
VraagGeweigerd(q) ==
    /\ verzoek[q].pc = "vraagWijzigen" /\ Bevroren(q, In(q).doel)
    /\ Weigert(q)
    /\ Blijft

-----------------------------------------------------------------------------
Inhoud(t) == <<rij[Cat(t)].inhoud, rij[Vra(t)].inhoud>>

(* The templates a request has an open change of.                          *)
Wijzigt(p) ==
    {t \in Templates : verzoek[p].op = "wijzig" /\ Vra(t) \in DOMAIN verzoek[p].schrijf}

(* COMMIT.  Besides: what starts now, and what the change disturbs.        *)
Voltooit(q) ==
    LET r == In(q).ronde   start == r # Geen /\ rij[Run(r)].status = "draft" /\ verzoek[q].op # "maakRonde"
    IN
    /\ Commit(q)
    /\ bijStart' = IF start THEN [bijStart EXCEPT ![r] = Inhoud(rij[Run(r)].van)] ELSE bijStart
    /\ onderweg' = IF start /\ \E p \in Lopend : rij[Run(r)].van \in Wijzigt(p)
                   THEN onderweg \cup {r} ELSE onderweg
    /\ gewijzigd' = gewijzigd \cup Wijzigt(q)
    /\ verplaatst' = verplaatst \cup {t \in Wijzigt(q) : t = In(q).template /\ t # In(q).doel}
    /\ verstoord' = verstoord \cup
         {p \in Lopend : verzoek[p].op \in {"exporteer", "detail"} /\ In(p).template \in Wijzigt(q)}
    /\ UNCHANGED <<uitvoer, getoond>>

(* A request fails: the database is lost, the process stops.               *)
Mislukt(q) == Rollback(q) /\ UNCHANGED Erna

Next == \E q \in Verzoeken :
    \/ \E op \in {"importeer", "seed"}, d \in Documenten, t \in Templates : Importeer(q, op, d, t)
    \/ ZoekTemplate(q) \/ MaakTemplate(q) \/ MaakCategorieen(q) \/ MaakVragen(q)
    \/ \E t \in Templates : Exporteer(q, t) \/ Detail(q, t)
    \/ LeesCategorieen(q) \/ LeesVragen(q)
    \/ \E t \in Templates, r \in Rondes : MaakRonde(q, t, r)
    \/ TelVragen(q) \/ SchrijfRonde(q)
    \/ \E r \in Rondes, s \in STATUSSEN : WijzigStatus(q, r, s)
    \/ \E r \in Rondes : Archiveer(q, r)
    \/ SchrijfStatus(q)
    \/ \E r \in Rondes : HaalVragenlijst(q, r)
    \/ \E t, doel \in Templates : Wijziging(q, t, doel)
    \/ VraagWeg(q) \/ VraagErbij(q) \/ VraagVerplaatst(q) \/ VraagGeweigerd(q)
    \/ Voltooit(q) \/ Mislukt(q)

Spec == Init /\ [][Next]_vars

-----------------------------------------------------------------------------
(* Properties.                                                             *)

(* What a round has put out stays what it was when the round left the      *)
(* draft status, whatever becomes of the round (the freeze of migration    *)
(* 0005), and every supplier of the round is shown the same.  Two ways     *)
(* around the trigger are left: a change that was open when the round      *)
(* started and commits after it, for the trigger sees committed rounds     *)
(* only; and an UPDATE that moves a question to another template, for it   *)
(* looks at the new one.  A round that started without a question to       *)
(* answer lost them after maakRonde counted them.                          *)
LopendeRondeVast ==
    \A r \in Rondes :
        bijStart[r] # Geen =>
            LET t == rij[Run(r)].van IN
            /\ Inhoud(t) = bijStart[r] \/ r \in onderweg \/ t \in verplaatst
            /\ Cardinality(getoond[r]) <= 1 \/ r \in onderweg \/ t \in verplaatst
            /\ Uitvraagbaar(bijStart[r][2]) \/ t \in gewijzigd

(* A template that is there is one whole document that passed the          *)
(* validation, with a name and version of its own.                         *)
UitEenDocument ==
    LET live == {t \in Templates : rij[Kop(t)].stand = "live"} IN
    /\ \A t \in live \ gewijzigd : \E d \in Documenten :
         /\ DocumentGoed(d)
         /\ rij[Kop(t)].inhoud = {Naam(d)} /\ Inhoud(t) = <<Categorieen(d), VragenVan(d)>>
    /\ \A t, u \in live : rij[Kop(t)].inhoud = rij[Kop(u)].inhoud => t = u

(* An export or a screen shows the template as it was at one moment,       *)
(* though three SELECTs read it, unless a change of it committed meanwhile:*)
(* the screen counts the questions it shows.                               *)
UitvoerEenMoment ==
    \A q \in Verzoeken \ verstoord :
        uitvoer[q] # Geen =>
            LET d == uitvoer[q].document   vragen == uitvoer[q].vragen IN
            /\ d = ExportDocument(<<d.name, d.version>>, uitvoer[q].categorieen, vragen)
            /\ uitvoer[q].soort = "detail" =>
                 uitvoer[q].aantal = Cardinality(ZonderInstructies(vragen))

(* A template is whole in spite of overlapping imports and imports that    *)
(* stop halfway, and what is exported reads back as that template.         *)
HeleVragenlijst ==
    /\ UitEenDocument
    /\ UitvoerEenMoment
    /\ \A q \in Verzoeken \ verstoord :
         uitvoer[q] # Geen =>
             LET d == uitvoer[q].document IN
             /\ Categorieen(d) = uitvoer[q].categorieen /\ VragenVan(d) = uitvoer[q].vragen
             /\ uitvoer[q].template \notin gewijzigd => DocumentGoed(d)
=============================================================================
