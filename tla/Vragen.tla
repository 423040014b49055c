------------------------------- MODULE Vragen -------------------------------
(***************************************************************************)
(* Questions, documents and answers: vragenlijst-schema.ts decides which   *)
(* document may become a questionnaire, antwoord-validatie.ts which answer *)
(* a supplier may give to a question, and the CHECKs of migration 0005     *)
(* which row the database takes.                                           *)
(*                                                                         *)
(* A text is the record of its lengths: lengte and kaal are the UTF-16     *)
(* length before and after trim(), heel and tekens the characters          *)
(* PostgreSQL counts before and after btrim().  A number is a count of ten *)
(* millionths.                                                             *)
(***************************************************************************)
EXTENDS Integers, Sequences, FiniteSets, SequencesExt, Afwezig

CONSTANT Onzin    \* a value of another type than the field should have

SCHEMA_VERSIE == 1
COMMENTWAARDEN == {"none", "optional", "required"}
GETALNOTATIES == {"plain", "eur", "usd", "pct"}
BEVESTIGINGSCODES == {"confirmed", "not_confirmed", "not_applicable", "cannot_upload"}
TOELICHTING_MINIMUM == 10
TOELICHTING_MAXIMUM == 2000
ANTWOORDTYPEN == {"instruction", "confirmation", "open_text", "yes_no", "single_choice",
                  "multi_choice", "rating", "number", "file_upload"}
EEN == 10000000     \* the number one

-----------------------------------------------------------------------------
(* Values.                                                                 *)
Gevuld(x) == x \notin {Geen, Onzin}
IsGetal(x) == Gevuld(x) /\ x \in Int
IsGeheelGetal(x) == IsGetal(x) /\ x % EEN = 0
Of(x, anders) == IF x = Geen THEN anders ELSE x

(* A limit that is there is kept.                                          *)
NietOnder(x, min) == Gevuld(min) => x >= min
NietBoven(x, max) == Gevuld(max) => x <= max

(* trim() in JavaScript may take away more than btrim() in SQL, but leaves *)
(* nothing only where there was nothing but blanks; a character takes one  *)
(* UTF-16 unit or two.                                                     *)
IsTekst(x) ==
    /\ x.lengte \in Nat /\ x.kaal \in Nat /\ x.tekens \in Nat /\ x.heel \in Nat
    /\ x.tekens <= x.heel /\ x.heel <= x.lengte
    /\ x.kaal > 0 => x.tekens > 0

Kleinste(S) == CHOOSE x \in S : \A y \in S : x <= y

(* What a unit in the d-th digit after the point counts for.               *)
Eenheid(d) == <<EEN, 1000000, 100000, 10000, 1000, 100, 10, 1>>[d + 1]

EchteDecimalen(x) == Kleinste({d \in 0..7 : x % Eenheid(d) = 0})

(* decimalen(): the digits after the point in String(x).  Nearer to zero   *)
(* than a millionth String writes an exponent, -1e-7, without a point.     *)
Decimalen(x) == IF x \in -9..9 THEN 0 ELSE EchteDecimalen(x)

-----------------------------------------------------------------------------
(* vragenlijst-schema.ts.  A question has answer_type, is_required,        *)
(* allows_upload, max_files and the fields of config: comment, options (a  *)
(* sequence of codes), min and max (min_select, min_length, ...), decimals *)
(* and format.                                                             *)
Vraagvelden == {"answer_type", "is_required", "allows_upload", "max_files", "comment",
                "options", "min", "max", "decimals", "format"}

Keuze(v) == v.answer_type \in {"single_choice", "multi_choice"}

OptiesGoed(v) ==
    IF Keuze(v)
    THEN /\ Gevuld(v.options) /\ v.options # <<>>
         /\ \A i \in DOMAIN v.options : v.options[i] # ""
         /\ IsInjective(v.options)
    ELSE v.options = Geen

CommentGoed(v) ==
    v.comment # Geen =>
        v.comment \in (IF v.answer_type = "confirmation" THEN {"required"} ELSE COMMENTWAARDEN)

(* Mutant of GrenzenGoed: the order of min and max goes unchecked.         *)
GrenzenLos(v) ==
    CASE v.answer_type = "rating" -> IsGeheelGetal(v.min) /\ IsGeheelGetal(v.max)
      [] OTHER -> TRUE

GrenzenGoed(v) ==
    CASE v.answer_type = "rating" ->
           IsGeheelGetal(v.min) /\ IsGeheelGetal(v.max) /\ v.min < v.max
      [] v.answer_type = "number" ->
           /\ v.format \in {Geen} \cup GETALNOTATIES
           /\ v.decimals # Geen => IsGeheelGetal(v.decimals) /\ v.decimals \in 0 .. 6 * EEN
           /\ v.min # Geen => IsGetal(v.min) /\ NietBoven(v.min, v.max)
           /\ v.max # Geen => IsGetal(v.max)
           /\ v.format = "pct" => (v.min # Geen => v.min >= 0) /\ (v.max # Geen => v.max <= 100 * EEN)
      [] v.answer_type \in {"multi_choice", "open_text"} ->
           /\ v.min # Geen => IsGeheelGetal(v.min) /\ v.min >= 0 /\ NietBoven(v.min, v.max)
           /\ v.max # Geen => IsGeheelGetal(v.max) /\ v.max >= EEN
           /\ v.answer_type = "multi_choice" => NietBoven(Of(v.max, 0), Len(v.options) * EEN)
      [] OTHER -> TRUE

UploadGoed(v) ==
    /\ v.is_required \in {Geen, TRUE, FALSE}
    /\ v.allows_upload \in {Geen, TRUE, FALSE}
    /\ v.max_files # Onzin
    /\ IF v.allows_upload = TRUE THEN Of(v.max_files, 0) \in 1..5 ELSE Of(v.max_files, 0) = 0

(* controleerVraag and controleerConfig.                                   *)
VraagGoed(v) ==
    /\ v.answer_type \in ANTWOORDTYPEN
    /\ UploadGoed(v)
    /\ v.answer_type = "instruction" => v.is_required = FALSE
    /\ CommentGoed(v) /\ OptiesGoed(v) /\ GrenzenGoed(v)

(* What the import stores of a question.                                   *)
VraagRij(v) ==
    [v EXCEPT !.is_required = Of(@, TRUE), !.allows_upload = Of(@, FALSE), !.max_files = Of(@, 0)]

Verschillend(s, veld) ==
    \A i, j \in DOMAIN s : i # j => veld[i] # veld[j]

(* valideerVragenlijst.  verboden are the fields tenant_id, template_id,   *)
(* question_id and category_id.                                            *)
DocumentGoed(d) ==
    LET cs == d.categories   qs == d.questions IN
    /\ d.schema_version = SCHEMA_VERSIE /\ d.verboden = {}
    /\ Gevuld(d.name) /\ d.version \in Nat \ {0}
    /\ \A i \in DOMAIN cs : Gevuld(cs[i].key) /\ Gevuld(cs[i].name) /\ cs[i].position >= 1
                            /\ cs[i].min_answers >= 0
    /\ Verschillend(cs, [i \in DOMAIN cs |-> cs[i].key])
    /\ Verschillend(cs, [i \in DOMAIN cs |-> cs[i].name])
    /\ Verschillend(cs, [i \in DOMAIN cs |-> cs[i].position])
    /\ qs # <<>>
    /\ \A i \in DOMAIN qs :
         /\ Gevuld(qs[i].question_key) /\ qs[i].position >= 1
         /\ qs[i].category_key # Geen => \E j \in DOMAIN cs : cs[j].key = qs[i].category_key
         /\ VraagGoed(qs[i].vraag)
    /\ Verschillend(qs, [i \in DOMAIN qs |-> qs[i].question_key])
    /\ Verschillend(qs, [i \in DOMAIN qs |-> qs[i].position])

-----------------------------------------------------------------------------
(* antwoord-validatie.ts.  An answer has answerType, answerCode,           *)
(* answerCodes, answerText, answerNumber and comment; n is the number of   *)
(* files uploaded for the question.                                        *)
KentCode(v, c) == \E i \in DOMAIN v.options : v.options[i] = c

BinnenBereik(v, x) == NietOnder(x, v.min) /\ NietBoven(x, v.max)

WaardeGoed(v, a, n) ==
    CASE v.answer_type = "confirmation" ->
           a.answerCode \in BEVESTIGINGSCODES
           /\ (a.answerCode = "cannot_upload" => v.allows_upload)
      [] v.answer_type = "yes_no" -> a.answerCode \in {"yes", "no"}
      [] v.answer_type = "single_choice" -> Gevuld(a.answerCode) /\ KentCode(v, a.answerCode)
      [] v.answer_type = "multi_choice" ->
           /\ Gevuld(a.answerCodes) /\ a.answerCodes # <<>> /\ IsInjective(a.answerCodes)
           /\ \A i \in DOMAIN a.answerCodes : KentCode(v, a.answerCodes[i])
           /\ BinnenBereik(v, Len(a.answerCodes) * EEN)
      [] v.answer_type = "open_text" ->
           /\ Gevuld(a.answerText) /\ a.answerText.kaal > 0
           /\ a.answerText.kaal >= Of(v.min, EEN) \div EEN
           /\ NietBoven(a.answerText.lengte, IF v.max = Geen THEN Geen ELSE v.max \div EEN)
      [] v.answer_type = "rating" -> IsGeheelGetal(a.answerNumber) /\ BinnenBereik(v, a.answerNumber)
      [] v.answer_type = "number" ->
           /\ IsGetal(a.answerNumber) /\ BinnenBereik(v, a.answerNumber)
           /\ NietBoven(Decimalen(a.answerNumber) * EEN, v.decimals)
           /\ v.format = "pct" => a.answerNumber \in 0 .. 100 * EEN
      [] v.answer_type = "file_upload" -> n >= 1
      [] v.answer_type = "instruction" -> FALSE

MetCode == {"confirmation", "yes_no", "single_choice"}

ToelichtingVerplicht(v, a) ==
    IF v.answer_type = "confirmation" THEN a.answerCode # "confirmed" ELSE v.comment = "required"

ToelichtingGoed(v, a) ==
    /\ Gevuld(a.comment) => a.comment.lengte <= TOELICHTING_MAXIMUM
    /\ ToelichtingVerplicht(v, a) => Gevuld(a.comment) /\ a.comment.kaal >= TOELICHTING_MINIMUM

(* Mutant of ToetsAntwoord: steps 7 to 9 left out, the remark and the file *)
(* a confirmation comes with.                                              *)
ToetsWaarde(v, a, n) ==
    a.answerType \in {Geen, v.answer_type} /\ WaardeGoed(v, a, n) /\ n <= v.max_files

ToetsAntwoord(v, a, n) ==
    /\ a.answerType \in {Geen, v.answer_type}
    /\ WaardeGoed(v, a, n)
    /\ ToelichtingGoed(v, a)
    /\ v.allows_upload /\ v.answer_type \in MetCode /\ a.answerCode = "confirmed" => n >= 1
    /\ n <= v.max_files

(* The row an accepted answer becomes.                                     *)
GeldigAntwoord(v, a) ==
    LET t == v.answer_type IN
    [answer_type   |-> t,
     answer_code   |-> IF t \in MetCode THEN a.answerCode ELSE Geen,
     answer_codes  |-> IF t = "multi_choice" THEN a.answerCodes ELSE Geen,
     answer_text   |-> IF t = "open_text" THEN a.answerText ELSE Geen,
     answer_number |-> IF t \in {"rating", "number"} THEN a.answerNumber ELSE Geen,
     comment       |-> IF Gevuld(a.comment) /\ a.comment.kaal > 0 /\ v.comment # "none"
                       THEN a.comment ELSE Geen]

-----------------------------------------------------------------------------
(* Migration 0005.                                                         *)
Kolommen(rij) ==
    {k \in {"answer_code", "answer_codes", "answer_text", "answer_number"} : rij[k] # Geen}

survey_answer_shape_check(rij) ==
    CASE rij.answer_type = "confirmation" ->
           Kolommen(rij) = {"answer_code"} /\ rij.answer_code \in BEVESTIGINGSCODES
      [] rij.answer_type = "yes_no" ->
           Kolommen(rij) = {"answer_code"} /\ rij.answer_code \in {"yes", "no"}
      [] rij.answer_type = "single_choice" -> Kolommen(rij) = {"answer_code"}
      [] rij.answer_type = "multi_choice" ->
           Kolommen(rij) = {"answer_codes"} /\ Len(rij.answer_codes) >= 1
      [] rij.answer_type = "open_text" ->
           Kolommen(rij) = {"answer_text"} /\ rij.answer_text.tekens >= 1
      [] rij.answer_type = "rating" ->
           Kolommen(rij) = {"answer_number"} /\ rij.answer_number % EEN = 0
      [] rij.answer_type = "number" -> Kolommen(rij) = {"answer_number"}
      [] rij.answer_type = "file_upload" -> Kolommen(rij) = {}
      [] OTHER -> FALSE

survey_answer_comment_required_check(rij) ==
    rij.answer_type = "confirmation" /\ rij.answer_code # "confirmed" =>
        rij.comment # Geen /\ rij.comment.tekens >= TOELICHTING_MINIMUM

survey_answer_comment_length_check(rij) ==
    rij.comment # Geen => rij.comment.heel <= TOELICHTING_MAXIMUM

-----------------------------------------------------------------------------
(* The questions that are taken in although no answer satisfies them: a    *)
(* file_upload without uploads, more options to choose than there are, a   *)
(* range without a number of that many decimals or without a percentage;   *)
(* but numbers nearer to zero than a millionth pass for whole ones.        *)
Onder(v) == IF v.format = "pct" THEN Of(v.min, 0) ELSE v.min
Boven(v) == IF v.format = "pct" THEN Of(v.max, 100 * EEN) ELSE v.max
Stap(v) == IF Gevuld(v.decimals) THEN Eenheid(v.decimals \div EEN) ELSE 1

Onmogelijk(v) ==
    CASE v.answer_type = "file_upload" -> ~v.allows_upload
      [] v.answer_type = "multi_choice" -> Gevuld(v.min) /\ v.min > Len(v.options) * EEN
      [] v.answer_type = "number" ->
           /\ Gevuld(Onder(v)) /\ Gevuld(Boven(v))
           /\ (Boven(v) \div Stap(v)) * Stap(v) < Onder(v)
           /\ \A x \in -9..9 : x < Onder(v) \/ x > Boven(v)
      [] OTHER -> FALSE
=============================================================================
