------------------------ MODULE VragenlijstenProofs ------------------------
(***************************************************************************)
(* Proofs about Vragenlijsten, for any number of templates, documents,     *)
(* rounds and requests: the freeze of a started round with its exceptions, *)
(* and templates that are one whole document under a name of their own.    *)
(* An export or a screen of a template that stayed as it was is of one     *)
(* moment, and the exported document reads back: rows are put in order by  *)
(* their positions, and the numbers behind the keys tell the categories    *)
(* apart.  Two sections are about the questions of a document: an answer   *)
(* the form takes, the database takes, and to which questions there is such*)
(* an answer.  The last three are about Invoer: answers, forms and uploads *)
(* that are accepted fit where they go, its questions can be answered, and *)
(* of a file of suppliers each is imported once.                           *)
(*                                                                         *)
(* An open request is described by what it was asked and has written       *)
(* (ImportGoed ... WijzigGoed).  What others may do meanwhile is the       *)
(* relation Groeit: rows of other imports and rounds appear, statuses      *)
(* change, questions change in templates that are then noted.  Row locks   *)
(* play no part; what does is that keys are new (Alleen), that the unique  *)
(* index keeps names apart (NaamVrij), and that a change is committed      *)
(* before a round starts, or overlaps it (WijzigGoed).                     *)
(***************************************************************************)
EXTENDS Vragenlijsten, Invoer, TransactiesProofs, FiniteSetTheorems, WellFoundedInduction

Gestart == {"active", "finished", "archived"}

Geschreven(q) == DOMAIN verzoek[q].schrijf
Wordt(q, k) == verzoek[q].schrijf[k]

Importeert(q) == verzoek[q].op \in {"importeer", "seed"}
Maakt(q) == verzoek[q].op = "maakRonde"
IsRij(w) == w = [veld \in {"stand", "van", "status", "inhoud"} |-> w[veld]]
Live(t) == rij[Kop(t)].stand = "live"

-----------------------------------------------------------------------------
(* Open requests.                                                          *)

ImportRijen(q) ==
    LET t == In(q).template IN
    CASE verzoek[q].pc = "categorieen" -> {Kop(t)}
      [] verzoek[q].pc = "vragen" -> {Kop(t), Cat(t)}
      [] verzoek[q].pc = "commit" -> {Kop(t), Cat(t), Vra(t)}
      [] OTHER -> {}

(* An import has a new template and a document that passed; it writes the  *)
(* three kinds of rows in order.                                           *)
ImportGoed(q) ==
    LET t == In(q).template   d == In(q).document IN
    /\ t \in Templates /\ d \in Documenten /\ DocumentGoed(d)
    /\ In(q).ronde = Geen /\ ~ Live(t)
    /\ verzoek[q].pc \in {"zoek", "kop", "categorieen", "vragen", "commit"}
    /\ Geschreven(q) = ImportRijen(q)
    /\ Kop(t) \in Geschreven(q) => Wordt(q, Kop(t)) = LiveRij(t, Geen, {Naam(d)})
    /\ Cat(t) \in Geschreven(q) => Wordt(q, Cat(t)) = LiveRij(t, Geen, Categorieen(d))
    /\ Vra(t) \in Geschreven(q) => Wordt(q, Vra(t)) = LiveRij(t, Geen, VragenVan(d))

Leesvelden == {"template", "ronde", "document", "categorieen", "aantal"}

LeesGoed(q) ==
    /\ verzoek[q].pc \in {"leesCategorieen", "leesVragen"}
    /\ Geschreven(q) = {} /\ In(q).ronde = Geen /\ In(q).template \in Templates
    /\ Live(In(q).template) /\ Leesvelden \subseteq DOMAIN In(q)

(* A new round of a template that was counted to have a question.          *)
MaakGoed(q) ==
    LET t == In(q).template   r == In(q).ronde IN
    /\ verzoek[q].pc \in {"telVragen", "ronde", "commit"}
    /\ t \in Templates /\ r \in Rondes /\ Live(t) /\ rij[Run(r)].stand = "geen"
    /\ verzoek[q].pc # "telVragen" => Uitvraagbaar(rij[Vra(t)].inhoud) \/ t \in gewijzigd
    /\ Geschreven(q) = IF verzoek[q].pc = "commit" THEN {Run(r)} ELSE {}
    /\ verzoek[q].pc = "commit" => Wordt(q, Run(r)) = LiveRij(t, "draft", {})

(* A change of status never leads back to draft.                           *)
StatusGoed(q) ==
    LET r == In(q).ronde IN
    /\ verzoek[q].pc \in {"status", "commit"}
    /\ r \in Rondes /\ rij[Run(r)].stand = "live" /\ In(q).status \in Gestart
    /\ Geschreven(q) = IF verzoek[q].pc = "commit" THEN {Run(r)} ELSE {}
    /\ verzoek[q].pc = "commit" =>
         /\ IsRij(Wordt(q, Run(r))) /\ Wordt(q, Run(r)).stand = "live"
         /\ Wordt(q, Run(r)).van = rij[Run(r)].van /\ Wordt(q, Run(r)).status = In(q).status

HaalGoed(q) ==
    /\ verzoek[q].pc = "commit" /\ Geschreven(q) = {}
    /\ In(q).ronde \in Rondes /\ rij[Run(In(q).ronde)].status \in Gestart

(* A change that passed the trigger: a round of the template that has      *)
(* started since is noted.                                                 *)
WijzigGoed(q) ==
    LET t == In(q).template   doel == In(q).doel IN
    /\ verzoek[q].pc \in {"vraagWijzigen", "commit"}
    /\ t \in Templates /\ doel \in Templates /\ Live(t) /\ Live(doel) /\ In(q).ronde = Geen
    /\ verzoek[q].pc = "vraagWijzigen" => Geschreven(q) = {}
    /\ verzoek[q].pc = "commit" =>
         /\ Vra(t) \in Geschreven(q) /\ Vra(doel) \in Geschreven(q)
         /\ Geschreven(q) \subseteq IF t = doel THEN {Cat(t), Vra(t)} ELSE {Vra(t), Vra(doel)}
         /\ \A r \in Rondes :
              rij[Run(r)].van = doel /\ rij[Run(r)].status \in Gestart => r \in onderweg

Lokaal(q) ==
    /\ q \notin Lopend => Geschreven(q) = {}
    /\ q \in Lopend =>
         \/ Importeert(q) /\ ImportGoed(q)
         \/ verzoek[q].op \in {"exporteer", "detail"} /\ LeesGoed(q)
         \/ Maakt(q) /\ MaakGoed(q)
         \/ verzoek[q].op \in {"wijzigStatus", "archiveer"} /\ StatusGoed(q)
         \/ verzoek[q].op = "haal" /\ HaalGoed(q)
         \/ verzoek[q].op = "wijzig" /\ WijzigGoed(q)

(* New keys are their request's own.                                       *)
Alleen(q) ==
    q \in Lopend => \A p \in Lopend \ {q} :
        /\ Importeert(p) /\ Importeert(q) => In(p).template # In(q).template
        /\ Maakt(p) /\ Maakt(q) => In(p).ronde # In(q).ronde

(* The name of a template that was inserted is nobody else's.              *)
Benoemt(q) == Importeert(q) /\ verzoek[q].pc \in {"categorieen", "vragen", "commit"}

NaamVrij(q) ==
    Benoemt(q) =>
        /\ \A t \in Templates : Live(t) => rij[Kop(t)].inhoud # {Naam(In(q).document)}
        /\ \A p \in Verzoeken \ {q} :
             Benoemt(p) => Naam(In(p).document) # Naam(In(q).document)

-----------------------------------------------------------------------------
(* What is committed.                                                      *)

Uitgezonderd(r) == r \in onderweg \/ rij[Run(r)].van \in verplaatst

RondeGoed(r) ==
    LET w == rij[Run(r)] IN
    /\ IsRij(w)
    /\ \/ w.stand = "geen" /\ w.status = Geen
       \/ /\ w.stand = "live" /\ w.van \in Templates /\ Live(w.van)
          /\ w.status \in {"draft"} \cup Gestart
          /\ Uitvraagbaar(rij[Vra(w.van)].inhoud) \/ w.van \in gewijzigd

(* A round that has not started was shown to nobody; one that has is as it *)
(* was when it started.                                                    *)
Uitgezet(r) ==
    LET w == rij[Run(r)] IN
    /\ w.status \notin Gestart => bijStart[r] = Geen /\ getoond[r] = {}
    /\ w.status \in Gestart =>
         /\ Inhoud(w.van) = bijStart[r] \/ Uitgezonderd(r)
         /\ getoond[r] \subseteq {Vragenlijst(bijStart[r][1], bijStart[r][2])} \/ Uitgezonderd(r)
         /\ Uitvraagbaar(bijStart[r][2]) \/ w.van \in gewijzigd

Vast ==
    /\ \A r \in Rondes : RondeGoed(r) /\ Uitgezet(r)
    /\ UitEenDocument

Functies ==
    /\ rij = [k \in RijSleutels |-> rij[k]]
    /\ bijStart = [r \in Rondes |-> bijStart[r]]
    /\ getoond = [r \in Rondes |-> getoond[r]]

IInv ==
    /\ Vorm /\ Functies /\ Vast
    /\ \A q \in Verzoeken : Lokaal(q) /\ Alleen(q) /\ NaamVrij(q)

-----------------------------------------------------------------------------
(* Keys and rows.                                                          *)

LEMMA Sleutels ==
    /\ \A t, u : (Kop(t) = Kop(u) <=> t = u) /\ (Cat(t) = Cat(u) <=> t = u)
                 /\ (Vra(t) = Vra(u) <=> t = u) /\ (Run(t) = Run(u) <=> t = u)
    /\ \A t, u : /\ Kop(t) # Cat(u) /\ Kop(t) # Vra(u) /\ Kop(t) # Run(u)
                 /\ Cat(t) # Vra(u) /\ Cat(t) # Run(u) /\ Vra(t) # Run(u)
    /\ \A t \in Templates : {Kop(t), Cat(t), Vra(t)} \subseteq RijSleutels
    /\ \A r \in Rondes : Run(r) \in RijSleutels
  BY DEF Kop, Cat, Vra, Run, RijSleutels

LEMMA LiveRijFeit ==
    ASSUME NEW van, NEW status, NEW inhoud
    PROVE  /\ IsRij(LiveRij(van, status, inhoud)) /\ LiveRij(van, status, inhoud).stand = "live"
           /\ LiveRij(van, status, inhoud).van = van
           /\ LiveRij(van, status, inhoud).status = status
           /\ LiveRij(van, status, inhoud).inhoud = inhoud
  BY DEF LiveRij, IsRij

(* What a request sees that has written nothing.                           *)
LEMMA ZietRij ==
    ASSUME IInv, NEW q \in Verzoeken, Geschreven(q) = {}, NEW k \in RijSleutels
    PROVE  Ziet(q, k) = rij[k]
  BY DEF IInv, Functies, Ziet, Zicht, Geschreven

-----------------------------------------------------------------------------
(* What a step of request q may do to the others.                          *)

RondeGroeit(q, r) ==
    LET v == rij[Run(r)]   w == rij'[Run(r)] IN
    \/ w = v
    \/ /\ q \in Lopend /\ Maakt(q) /\ verzoek[q].pc = "commit" /\ r = In(q).ronde
       /\ w = LiveRij(In(q).template, "draft", {})
    \/ /\ v.stand = "live" /\ IsRij(w) /\ w.stand = "live" /\ w.van = v.van /\ w.status \in Gestart
       /\ v.status \in Gestart \/ \A p \in Lopend : v.van \in Wijzigt(p) => r \in onderweg'

Groeit(q) ==
    /\ \A t \in Templates :
         \/ rij'[Kop(t)] = rij[Kop(t)]
         \/ /\ q \in Lopend /\ Benoemt(q) /\ t = In(q).template
            /\ rij'[Kop(t)] = LiveRij(t, Geen, {Naam(In(q).document)})
    /\ \A t \in Templates :
         Live(t) => rij'[Vra(t)].inhoud = rij[Vra(t)].inhoud \/ t \in gewijzigd'
    /\ \A r \in Rondes : RondeGroeit(q, r)
    /\ onderweg \subseteq onderweg' /\ gewijzigd \subseteq gewijzigd'
    /\ verplaatst \subseteq verplaatst'

LEMMA GroeitNiet ==
    ASSUME NEW q, rij' = rij, UNCHANGED <<onderweg, gewijzigd, verplaatst>>
    PROVE  Groeit(q)
  BY DEF Groeit, RondeGroeit

(* A template that is there stays.                                         *)
LEMMA LiveBlijft ==
    ASSUME IInv, NEW q \in Verzoeken, Groeit(q), NEW t \in Templates, Live(t)
    PROVE  Live(t)' /\ rij'[Kop(t)] = rij[Kop(t)]
  <1>1. CASE rij'[Kop(t)] = rij[Kop(t)]
    BY <1>1 DEF Live
  <1>2. CASE q \in Lopend /\ Benoemt(q) /\ t = In(q).template
    <2>1. ImportGoed(q)
      BY <1>2 DEF IInv, Lokaal, Benoemt, Importeert, Maakt
    <2> QED BY <1>2, <2>1 DEF ImportGoed
  <1> QED BY <1>1, <1>2 DEF Groeit

(* So does a round, and it does not go back.                               *)
LEMMA RondeBlijft ==
    ASSUME IInv, NEW q \in Verzoeken, Groeit(q), NEW r \in Rondes, rij[Run(r)].stand = "live"
    PROVE  /\ rij'[Run(r)].stand = "live" /\ rij'[Run(r)].van = rij[Run(r)].van
           /\ rij[Run(r)].status \in Gestart => rij'[Run(r)].status \in Gestart
  <1>1. ~ (q \in Lopend /\ Maakt(q) /\ r = In(q).ronde)
    BY DEF IInv, Lokaal, Importeert, Maakt, MaakGoed
  <1> QED BY <1>1 DEF Groeit, RondeGroeit

LEMMA LokaalBlijft ==
    ASSUME IInv, NEW q \in Verzoeken, Groeit(q), NEW p \in Verzoeken, p # q,
           verzoek'[p] = verzoek[p]
    PROVE  Lokaal(p)'
  <1>1. /\ In(p)' = In(p) /\ (p \in Lopend') = (p \in Lopend) /\ Geschreven(p)' = Geschreven(p)
        /\ \A k : Wordt(p, k)' = Wordt(p, k)
    BY DEF In, Lopend, Geschreven, Wordt
  <1>2. Lokaal(p) /\ Alleen(p)
    BY DEF IInv
  <1>3. CASE p \notin Lopend
    BY <1>1, <1>2, <1>3 DEF Lokaal
  <1>4. CASE p \in Lopend /\ Importeert(p) /\ ImportGoed(p)
    <2>1. ~ (q \in Lopend /\ Benoemt(q) /\ In(p).template = In(q).template)
      BY <1>2, <1>4 DEF Alleen, Benoemt
    <2>2. ~ Live(In(p).template)'
      BY <1>1, <1>4, <2>1 DEF Groeit, ImportGoed, Live
    <2>3. ImportRijen(p)' = ImportRijen(p)
      BY <1>1 DEF ImportRijen
    <2>4. ImportGoed(p)'
      BY <1>1, <1>4, <2>2, <2>3 DEF ImportGoed
    <2> QED BY <1>1, <1>4, <2>4 DEF Lokaal, Importeert
  <1>5. CASE p \in Lopend /\ verzoek[p].op \in {"exporteer", "detail"} /\ LeesGoed(p)
    <2>1. LeesGoed(p)'
      BY <1>1, <1>5, LiveBlijft DEF LeesGoed
    <2> QED BY <1>1, <1>5, <2>1 DEF Lokaal
  <1>6. CASE p \in Lopend /\ Maakt(p) /\ MaakGoed(p)
    <2>1. ~ (q \in Lopend /\ Maakt(q) /\ In(p).ronde = In(q).ronde)
      BY <1>2, <1>6 DEF Alleen
    <2>2. rij'[Run(In(p).ronde)] = rij[Run(In(p).ronde)]
      BY <1>6, <2>1 DEF Groeit, RondeGroeit, MaakGoed
    <2>3. Live(In(p).template)'
      BY <1>1, <1>6, LiveBlijft DEF MaakGoed, Live
    <2>4. verzoek[p].pc # "telVragen" =>
            Uitvraagbaar(rij'[Vra(In(p).template)].inhoud) \/ In(p).template \in gewijzigd'
      BY <1>6 DEF MaakGoed, Groeit
    <2>5. MaakGoed(p)'
      BY <1>1, <1>6, <2>2, <2>3, <2>4 DEF MaakGoed
    <2> QED BY <1>1, <1>6, <2>5 DEF Lokaal, Maakt
  <1>7. CASE p \in Lopend /\ verzoek[p].op \in {"wijzigStatus", "archiveer"} /\ StatusGoed(p)
    <2>1. /\ rij'[Run(In(p).ronde)].stand = "live"
          /\ rij'[Run(In(p).ronde)].van = rij[Run(In(p).ronde)].van
      BY <1>7, RondeBlijft DEF StatusGoed
    <2>2. StatusGoed(p)'
      BY <1>1, <1>7, <2>1 DEF StatusGoed
    <2> QED BY <1>1, <1>7, <2>2 DEF Lokaal
  <1>8. CASE p \in Lopend /\ verzoek[p].op = "haal" /\ HaalGoed(p)
    <2>1. rij[Run(In(p).ronde)].stand = "live"
      BY <1>8, VragenlijstenGeen DEF HaalGoed, IInv, Vast, RondeGoed, Gestart
    <2>2. rij'[Run(In(p).ronde)].status \in Gestart
      BY <1>8, <2>1, RondeBlijft DEF HaalGoed
    <2>3. HaalGoed(p)'
      BY <1>1, <1>8, <2>2 DEF HaalGoed
    <2> QED BY <1>1, <1>8, <2>3 DEF Lokaal
  <1>9. CASE p \in Lopend /\ verzoek[p].op = "wijzig" /\ WijzigGoed(p)
    <2> DEFINE doel == In(p).doel
    <2>1. Live(In(p).template)' /\ Live(In(p).doel)'
      BY <1>1, <1>9, LiveBlijft DEF WijzigGoed, Live
    <2>2. ASSUME verzoek[p].pc = "commit", NEW r \in Rondes, rij'[Run(r)].van = doel,
                 rij'[Run(r)].status \in Gestart
          PROVE  r \in onderweg'
      <3>1. doel \in Wijzigt(p)
        BY <1>9, <2>2 DEF WijzigGoed, Wijzigt, Geschreven
      <3>2. rij[Run(r)].van = doel /\ rij[Run(r)].status \in Gestart => r \in onderweg'
        BY <1>9, <2>2 DEF WijzigGoed, Groeit
      <3>3. LiveRij(In(q).template, "draft", {}).status \notin Gestart
        BY LiveRijFeit DEF Gestart
      <3> QED BY <1>9, <2>2, <3>1, <3>2, <3>3 DEF Groeit, RondeGroeit
    <2>3. WijzigGoed(p)'
      BY <1>1, <1>9, <2>1, <2>2 DEF WijzigGoed
    <2> QED BY <1>1, <1>9, <2>3 DEF Lokaal
  <1> QED BY <1>2, <1>3, <1>4, <1>5, <1>6, <1>7, <1>8, <1>9 DEF Lokaal

LEMMA RondeGoedBlijft ==
    ASSUME IInv, NEW q \in Verzoeken, Groeit(q), NEW r \in Rondes
    PROVE  RondeGoed(r)'
  <1>1. RondeGoed(r)
    BY DEF IInv, Vast
  <1>2. ASSUME NEW t \in Templates, Live(t), Uitvraagbaar(rij[Vra(t)].inhoud) \/ t \in gewijzigd
        PROVE  Live(t)' /\ (Uitvraagbaar(rij'[Vra(t)].inhoud) \/ t \in gewijzigd')
    BY <1>2, LiveBlijft DEF Groeit
  <1>3. CASE rij'[Run(r)] = rij[Run(r)]
    BY <1>1, <1>2, <1>3 DEF RondeGoed
  <1>4. CASE /\ q \in Lopend /\ Maakt(q) /\ r = In(q).ronde
             /\ rij'[Run(r)] = LiveRij(In(q).template, "draft", {})
             /\ verzoek[q].pc = "commit"
    <2>1. MaakGoed(q)
      BY <1>4 DEF IInv, Lokaal, Importeert, Maakt
    <2>2. /\ In(q).template \in Templates /\ Live(In(q).template)
          /\ Uitvraagbaar(rij[Vra(In(q).template)].inhoud) \/ In(q).template \in gewijzigd
      BY <1>4, <2>1 DEF MaakGoed
    <2> QED BY <1>2, <1>4, <2>2, LiveRijFeit DEF RondeGoed
  <1>5. CASE rij[Run(r)].stand = "live" /\ IsRij(rij'[Run(r)]) /\ rij'[Run(r)].stand = "live"
             /\ rij'[Run(r)].van = rij[Run(r)].van /\ rij'[Run(r)].status \in Gestart
    BY <1>1, <1>2, <1>5 DEF RondeGoed
  <1> QED BY <1>3, <1>4, <1>5 DEF Groeit, RondeGroeit

-----------------------------------------------------------------------------
(* Steps that commit nothing.                                              *)

Stil == UNCHANGED <<rij, bijStart, onderweg, gewijzigd, verplaatst, getoond>>

LEMMA BlijftStil ==
    ASSUME Blijft
    PROVE  Stil
  BY DEF Blijft, Erna, Stil

LEMMA VastBlijft ==
    ASSUME IInv, Stil
    PROVE  Vast' /\ Functies'
  BY DEF IInv, Functies, Vast, Stil, RondeGoed, Uitgezet, Uitgezonderd, UitEenDocument, Inhoud, Live

(* The step of one request, its own part given.                            *)
LEMMA StapGoed ==
    ASSUME IInv, NEW q \in Verzoeken, Vorm', Anders(q),
           UNCHANGED <<rij, onderweg, gewijzigd, verplaatst>>, Vast', Functies',
           Lokaal(q)', Alleen(q)', NaamVrij(q)'
    PROVE  IInv'
  <1>1. Groeit(q)
    BY GroeitNiet
  <1>2. ASSUME NEW p \in Verzoeken, p # q
        PROVE  Lokaal(p)' /\ Alleen(p)' /\ NaamVrij(p)'
    <2>1. \A x \in Verzoeken \ {q} :
            /\ In(x)' = In(x) /\ (x \in Lopend') = (x \in Lopend)
            /\ Importeert(x)' = Importeert(x) /\ Maakt(x)' = Maakt(x) /\ Benoemt(x)' = Benoemt(x)
      BY DEF Anders, In, Lopend, Importeert, Maakt, Benoemt
    <2>2. Lokaal(p)'
      BY <1>1, <1>2, LokaalBlijft DEF Anders
    <2>3. Alleen(p)'
      <3>1. Alleen(p)
        BY DEF IInv
      <3>2. Lopend' \subseteq Verzoeken
        BY DEF Lopend
      <3> QED BY <1>2, <2>1, <3>1, <3>2 DEF Alleen
    <2>4. NaamVrij(p)'
      <3>1. NaamVrij(p)
        BY DEF IInv
      <3>2. \A t : Live(t)' = Live(t)
        BY DEF Live
      <3> QED BY <1>2, <2>1, <3>1, <3>2 DEF NaamVrij
    <2> QED BY <2>2, <2>3, <2>4
  <1> QED BY <1>2 DEF IInv

Rust == {"nieuw", "klaar", "geweigerd", "dubbel", "gebruikt", "fout"}

LEMMA EindeGoed ==
    ASSUME IInv, NEW q \in Verzoeken, Vorm', Anders(q), Stil,
           verzoek'[q].pc \in Rust, Geschreven(q)' = {}
    PROVE  IInv'
  <1>1. q \notin Lopend' /\ ~ Benoemt(q)'
    BY DEF Lopend, Benoemt, Rust
  <1>2. Lokaal(q)' /\ Alleen(q)' /\ NaamVrij(q)'
    BY <1>1 DEF Lokaal, Alleen, NaamVrij
  <1> QED BY <1>2, VastBlijft, StapGoed DEF Stil

(* A request that ends with an error.                                      *)
LEMMA WegGoed ==
    ASSUME IInv, NEW q \in Verzoeken, NEW uitkomst \in Rust, Stil,
           verzoek' = [verzoek EXCEPT ![q] = [NieuwVerzoek EXCEPT !.pc = uitkomst]]
    PROVE  IInv'
  <1>1. /\ Vorm' /\ Anders(q) /\ verzoek'[q].pc = uitkomst /\ Geschreven(q)' = {}
    BY EindeFeit DEF IInv, Geschreven
  <1> QED BY <1>1, EindeGoed

LEMMA WeigertGoed ==
    ASSUME IInv, NEW q \in Verzoeken, Weigert(q), Stil
    PROVE  IInv'
  BY WegGoed DEF Weigert, Rust

(* The next statement of an open request.                                  *)
LEMMA VervolgGoed ==
    ASSUME IInv, NEW q \in Lopend, Vorm', Anders(q), Stil,
           verzoek'[q].op = verzoek[q].op, (In(q).template)' = In(q).template,
           (In(q).ronde)' = In(q).ronde, (In(q).document)' = In(q).document,
           verzoek'[q].pc \notin Rust, Benoemt(q)' => Benoemt(q), Lokaal(q)'
    PROVE  IInv'
  <1>0. q \in Verzoeken
    BY DEF Lopend
  <1>1. \A p \in Verzoeken \ {q} :
          /\ In(p)' = In(p) /\ (p \in Lopend') = (p \in Lopend)
          /\ Importeert(p)' = Importeert(p) /\ Maakt(p)' = Maakt(p) /\ Benoemt(p)' = Benoemt(p)
    BY DEF Anders, In, Lopend, Importeert, Maakt, Benoemt
  <1>2. Importeert(q)' = Importeert(q) /\ Maakt(q)' = Maakt(q)
    BY DEF Importeert, Maakt
  <1>3. Alleen(q) /\ NaamVrij(q) /\ Lopend' \subseteq Verzoeken
    BY <1>0 DEF IInv, Lopend
  <1>4. Alleen(q)'
    BY <1>1, <1>2, <1>3 DEF Alleen
  <1>5. NaamVrij(q)'
    <2>1. \A t : Live(t)' = Live(t)
      BY DEF Live, Stil
    <2> QED BY <1>1, <1>3, <2>1 DEF NaamVrij, Stil
  <1> QED BY <1>0, <1>4, <1>5, VastBlijft, StapGoed DEF Stil

(* BEGIN.                                                                  *)
Begon(q, op, v, pc) ==
    /\ Vorm' /\ Anders(q) /\ verzoek[q].pc = "nieuw" /\ q \notin Lopend
    /\ verzoek'[q].pc = pc /\ verzoek'[q].op = op /\ In(q)' = v
    /\ Geschreven(q) = {} /\ Geschreven(q)' = {}

LEMMA BegonFeit ==
    ASSUME IInv, NEW q \in Verzoeken, NEW op, NEW v, NEW pc, Begint(q, op, v, pc)
    PROVE  Begon(q, op, v, pc)
  <1>1. /\ Vorm' /\ Anders(q) /\ verzoek[q].pc = "nieuw" /\ verzoek'[q].schrijf = verzoek[q].schrijf
        /\ verzoek'[q].pc = pc /\ verzoek'[q].op = op /\ In(q)' = v
    BY BegintFeit DEF IInv, In
  <1>2. q \notin Lopend
    BY <1>1 DEF Lopend
  <1>3. Geschreven(q) = {} /\ Geschreven(q)' = {}
    BY <1>1, <1>2 DEF IInv, Lokaal, Geschreven
  <1> QED BY <1>1, <1>2, <1>3 DEF Begon

(* The request is open, and its new key no other open request has.         *)
LEMMA BegintGoed ==
    ASSUME IInv, NEW q \in Verzoeken, NEW op, NEW v, NEW pc, Begon(q, op, v, pc), Stil,
           pc \notin {"categorieen", "vragen"}, op \in {"importeer", "seed"} => pc # "commit",
           op \in {"importeer", "seed"} => \A p \in Lopend : In(p).template # v.template,
           op = "maakRonde" => \A p \in Lopend : In(p).ronde # v.ronde,
           Lokaal(q)'
    PROVE  IInv'
  <1>1. \A p \in Verzoeken \ {q} : In(p)' = In(p) /\ (p \in Lopend') = (p \in Lopend)
    BY DEF Begon, Anders, In, Lopend
  <1>2. Lopend' \subseteq Verzoeken
    BY DEF Lopend
  <1>3. Alleen(q)'
    BY <1>1, <1>2 DEF Begon, Alleen, Importeert, Maakt
  <1>4. NaamVrij(q)'
    BY DEF Begon, NaamVrij, Benoemt, Importeert
  <1> QED BY <1>3, <1>4, VastBlijft, StapGoed DEF Begon, Stil

LEMMA BestaatFeit ==
    ASSUME IInv, NEW q \in Verzoeken, Geschreven(q) = {}, NEW k \in RijSleutels, Bestaat(q, k)
    PROVE  rij[k].stand = "live"
  BY ZietRij DEF Bestaat

LEMMA ImporteerGoed ==
    ASSUME IInv, NEW q \in Verzoeken, NEW op \in {"importeer", "seed"}, NEW d \in Documenten,
           NEW t \in Templates, Importeer(q, op, d, t)
    PROVE  IInv'
  <1> DEFINE v == [Vraagt EXCEPT !.template = t, !.document = d]
  <1>0. v.template = t /\ v.document = d /\ v.ronde = Geen
    BY DEF Vraagt
  <1>1. Stil
    BY BlijftStil DEF Importeer
  <1>2. CASE ~ DocumentGoed(d)
    BY <1>1, <1>2, WeigertGoed DEF Importeer
  <1>3. CASE DocumentGoed(d)
    <2>1. Begon(q, op, v, "zoek") /\ NieuweTemplate(t)
      BY <1>3, BegonFeit DEF Importeer
    <2> HIDE DEF v
    <2>2. /\ q \in Lopend' /\ Importeert(q)' /\ ImportRijen(q)' = {} /\ ~ Live(t)'
          /\ \A p \in Lopend : In(p).template # t
      BY <1>1, <2>1 DEF Begon, Lopend, Importeert, ImportRijen, NieuweTemplate, Live, Stil
    <2>3. ImportGoed(q)'
      BY <1>0, <1>3, <2>1, <2>2, Sleutels DEF Begon, ImportGoed
    <2>4. Lokaal(q)'
      BY <2>2, <2>3 DEF Lokaal
    <2> QED BY <1>0, <1>1, <2>1, <2>2, <2>4, BegintGoed
  <1> QED BY <1>2, <1>3

LEMMA LezenGoed ==
    ASSUME IInv, NEW q \in Verzoeken, NEW t \in Templates, NEW v, NEW op,
           op \in {"exporteer", "detail"}, v.template = t, v.ronde = Geen,
           Leesvelden \subseteq DOMAIN v,
           Begint(q, op, v, "leesCategorieen"), Bestaat(q, Kop(t)), Stil
    PROVE  IInv'
  <1>1. Begon(q, op, v, "leesCategorieen")
    BY BegonFeit
  <1>2. Live(t)'
    BY <1>1, BestaatFeit, Sleutels DEF Begon, Live, Stil
  <1>3. LeesGoed(q)'
    BY <1>1, <1>2 DEF Begon, LeesGoed
  <1>4. Lokaal(q)'
    BY <1>1, <1>3 DEF Begon, Lokaal
  <1> QED BY <1>1, <1>4, BegintGoed

LEMMA ExporteerGoed ==
    ASSUME IInv, NEW q \in Verzoeken, NEW t \in Templates, Exporteer(q, t)
    PROVE  IInv'
  <1> DEFINE v == [Vraagt EXCEPT !.template = t]
  <1>1. v.template = t /\ v.ronde = Geen /\ Leesvelden \subseteq DOMAIN v
    BY DEF Vraagt, Leesvelden
  <1> QED BY <1>1, LezenGoed, BlijftStil DEF Exporteer

LEMMA DetailGoed ==
    ASSUME IInv, NEW q \in Verzoeken, NEW t \in Templates, Detail(q, t)
    PROVE  IInv'
  <1> DEFINE v == [Vraagt EXCEPT !.template = t,
                     !.aantal = Cardinality(ZonderInstructies(rij[Vra(t)].inhoud))]
  <1>1. v.template = t /\ v.ronde = Geen /\ Leesvelden \subseteq DOMAIN v
    BY DEF Vraagt, Leesvelden
  <1> QED BY <1>1, LezenGoed, BlijftStil DEF Detail

LEMMA MaakRondeGoed ==
    ASSUME IInv, NEW q \in Verzoeken, NEW t \in Templates, NEW r \in Rondes, MaakRonde(q, t, r)
    PROVE  IInv'
  <1> DEFINE v == [Vraagt EXCEPT !.template = t, !.ronde = r]
  <1>0. v.template = t /\ v.ronde = r
    BY DEF Vraagt
  <1>1. Begon(q, "maakRonde", v, "telVragen") /\ NieuweRonde(r) /\ Bestaat(q, Kop(t)) /\ Stil
    BY BegonFeit, BlijftStil DEF MaakRonde
  <1> HIDE DEF v
  <1>2. Live(t)' /\ rij'[Run(r)].stand = "geen" /\ \A p \in Lopend : In(p).ronde # r
    BY <1>1, BestaatFeit, Sleutels DEF Begon, Live, Stil, NieuweRonde
  <1>3. MaakGoed(q)'
    BY <1>0, <1>1, <1>2 DEF Begon, MaakGoed
  <1>4. Lokaal(q)'
    BY <1>1, <1>3 DEF Begon, Lokaal, Maakt
  <1> QED BY <1>0, <1>1, <1>2, <1>4, BegintGoed

(* A change of status begins.                                              *)
LEMMA SchakelGoed ==
    ASSUME IInv, NEW q \in Verzoeken, NEW r \in Rondes, NEW op, NEW s \in Gestart,
           op \in {"wijzigStatus", "archiveer"}, Stil, Bestaat(q, Run(r)),
           Begint(q, op, [Vraagt EXCEPT !.ronde = r, !.status = s], "status")
    PROVE  IInv'
  <1> DEFINE v == [Vraagt EXCEPT !.ronde = r, !.status = s]
  <1>0. v.ronde = r /\ v.status = s
    BY DEF Vraagt
  <1>1. Begon(q, op, v, "status")
    BY BegonFeit
  <1> HIDE DEF v
  <1>2. rij'[Run(r)].stand = "live"
    BY <1>1, BestaatFeit, Sleutels DEF Begon, Stil
  <1>3. StatusGoed(q)'
    BY <1>0, <1>1, <1>2 DEF Begon, StatusGoed
  <1>4. Lokaal(q)'
    BY <1>1, <1>3 DEF Begon, Lokaal
  <1> QED BY <1>1, <1>4, BegintGoed

LEMMA WijzigStatusGoed ==
    ASSUME IInv, NEW q \in Verzoeken, NEW r \in Rondes, NEW s \in STATUSSEN, WijzigStatus(q, r, s)
    PROVE  IInv'
  <1>1. s \in Gestart
    BY DEF WijzigStatus, MagOvergaan, STATUSSEN, Gestart
  <1> QED BY <1>1, SchakelGoed, BlijftStil DEF WijzigStatus

LEMMA ArchiveerGoed ==
    ASSUME IInv, NEW q \in Verzoeken, NEW r \in Rondes, Archiveer(q, r)
    PROVE  IInv'
  <1>1. "archived" \in Gestart
    BY DEF Gestart
  <1> QED BY <1>1, SchakelGoed, BlijftStil DEF Archiveer

(* A supplier is shown what the round was started with.                    *)
LEMMA HaalVragenlijstGoed ==
    ASSUME IInv, NEW q \in Verzoeken, NEW r \in Rondes, HaalVragenlijst(q, r)
    PROVE  IInv'
  <1> DEFINE v == [Vraagt EXCEPT !.ronde = r]
             t == rij[Run(r)].van
             getoonde == Vragenlijst(rij[Cat(t)].inhoud, rij[Vra(t)].inhoud)
  <1>0. v.ronde = r
    BY DEF Vraagt
  <1>1. /\ Begon(q, "haal", v, "commit") /\ rij[Run(r)].status \in Gestart
        /\ getoond' = [getoond EXCEPT ![r] = @ \cup {getoonde}]
        /\ UNCHANGED <<rij, bijStart, onderweg, gewijzigd, verplaatst>>
    BY BegonFeit DEF HaalVragenlijst, Gestart
  <1> HIDE DEF v
  <1>2. Functies' /\ getoond'[r] = getoond[r] \cup {getoonde}
        /\ \A x \in Rondes \ {r} : getoond'[x] = getoond[x]
    BY <1>1 DEF IInv, Functies
  <1>3. \A x \in Rondes \ {r} : Uitgezet(x)'
    BY <1>1, <1>2 DEF IInv, Vast, Uitgezet, Uitgezonderd, Inhoud
  <1>4. Uitgezet(r)'
    <2>1. Uitgezet(r)
      BY DEF IInv, Vast
    <2>2. Inhoud(t) = bijStart[r] => getoonde = Vragenlijst(bijStart[r][1], bijStart[r][2])
      BY DEF Inhoud
    <2>3. Inhoud(t)' = Inhoud(t) /\ rij'[Run(r)].van = t
      BY <1>1 DEF Inhoud
    <2> HIDE DEF getoonde, t
    <2> QED BY <1>1, <1>2, <2>1, <2>2, <2>3 DEF Uitgezet, Uitgezonderd, t
  <1>5. Vast'
    <2>1. \A x \in Rondes : RondeGoed(x)'
      BY <1>1, GroeitNiet, RondeGoedBlijft
    <2>2. UitEenDocument'
      BY <1>1 DEF IInv, Vast, UitEenDocument, Inhoud
    <2> QED BY <1>3, <1>4, <2>1, <2>2 DEF Vast
  <1>6. HaalGoed(q)' /\ q \in Lopend'
    BY <1>0, <1>1 DEF Begon, HaalGoed, Lopend
  <1>7. Lokaal(q)' /\ Alleen(q)' /\ NaamVrij(q)'
    BY <1>1, <1>6 DEF Begon, Lokaal, Alleen, Maakt, Importeert, NaamVrij, Benoemt
  <1> QED BY <1>1, <1>2, <1>5, <1>7, StapGoed DEF Begon

LEMMA WijzigingGoed ==
    ASSUME IInv, NEW q \in Verzoeken, NEW t \in Templates, NEW doel \in Templates,
           Wijziging(q, t, doel)
    PROVE  IInv'
  <1> DEFINE v == [Vraagt EXCEPT !.template = t, !.doel = doel]
  <1>0. v.template = t /\ v.doel = doel /\ v.ronde = Geen
    BY DEF Vraagt
  <1>1. /\ Begon(q, "wijzig", v, "vraagWijzigen") /\ Stil
        /\ Bestaat(q, Kop(t)) /\ Bestaat(q, Kop(doel))
    BY BegonFeit, BlijftStil DEF Wijziging
  <1> HIDE DEF v
  <1>2. Live(t)' /\ Live(doel)'
    BY <1>1, BestaatFeit, Sleutels DEF Begon, Live, Stil
  <1>3. WijzigGoed(q)'
    BY <1>0, <1>1, <1>2 DEF Begon, WijzigGoed
  <1>4. Lokaal(q)'
    BY <1>1, <1>3 DEF Begon, Lokaal
  <1> QED BY <1>1, <1>4, BegintGoed

-----------------------------------------------------------------------------
(* Statements.                                                             *)

(* Which request is at a statement.                                        *)
LEMMA AanDeBeurt ==
    ASSUME IInv, NEW q \in Verzoeken
    PROVE  /\ verzoek[q].pc \in {"zoek", "kop", "categorieen", "vragen"} =>
                q \in Lopend /\ Importeert(q) /\ ImportGoed(q)
           /\ verzoek[q].pc \in {"leesCategorieen", "leesVragen"} =>
                /\ q \in Lopend /\ verzoek[q].op \in {"exporteer", "detail"} /\ LeesGoed(q)
           /\ verzoek[q].pc \in {"telVragen", "ronde"} => q \in Lopend /\ Maakt(q) /\ MaakGoed(q)
           /\ verzoek[q].pc = "status" =>
                /\ q \in Lopend /\ verzoek[q].op \in {"wijzigStatus", "archiveer"} /\ StatusGoed(q)
           /\ verzoek[q].pc = "vraagWijzigen" =>
                q \in Lopend /\ verzoek[q].op = "wijzig" /\ WijzigGoed(q)
           /\ verzoek[q].pc = "commit" => q \in Lopend
  <1>1. Lokaal(q)
    BY DEF IInv
  <1>2. verzoek[q].pc \notin Rust => q \in Lopend
    BY DEF Lopend, Rust
  <1> QED BY <1>1, <1>2 DEF Lokaal, ImportGoed, LeesGoed, MaakGoed, StatusGoed, HaalGoed, WijzigGoed, Rust

Schreef(q, R, wordt, pc) ==
    /\ Vorm' /\ Anders(q) /\ verzoek'[q].pc = pc /\ verzoek'[q].op = verzoek[q].op
    /\ In(q)' = In(q) /\ Geschreven(q)' = Geschreven(q) \cup R
    /\ \A k \in Geschreven(q)' : Wordt(q, k)' = IF k \in R THEN wordt[k] ELSE Wordt(q, k)

LEMMA SchreefFeit ==
    ASSUME IInv, NEW q \in Verzoeken, NEW R, NEW wordt, NEW pc, Schrijft(q, R, wordt, pc)
    PROVE  Schreef(q, R, wordt, pc)
  BY SchrijftFeit DEF IInv, Schreef, Geschreven, Wordt, In

Verder(q, pc) ==
    /\ Vorm' /\ Anders(q) /\ verzoek'[q].pc = pc /\ verzoek'[q].op = verzoek[q].op
    /\ In(q)' = In(q) /\ Geschreven(q)' = Geschreven(q)
    /\ \A k : Wordt(q, k)' = Wordt(q, k)

LEMMA NaarVerder ==
    ASSUME IInv, NEW q \in Verzoeken, NEW pc, Naar(q, pc)
    PROVE  Verder(q, pc)
  BY NaarFeit DEF IInv, Verder, Geschreven, Wordt, In

LEMMA ZoekTemplateGoed ==
    ASSUME IInv, NEW q \in Verzoeken, ZoekTemplate(q)
    PROVE  IInv'
  <1>1. q \in Lopend /\ Importeert(q) /\ ImportGoed(q) /\ Stil /\ Geschreven(q) = {}
    BY AanDeBeurt, BlijftStil DEF ZoekTemplate, ImportGoed, ImportRijen
  <1>2. CASE Weigert(q)
    BY <1>1, <1>2, WeigertGoed
  <1>3. CASE Naar(q, "klaar")
    BY <1>1, <1>3, NaarVerder, EindeGoed DEF Verder, Rust
  <1>4. CASE Naar(q, "kop")
    <2>1. Verder(q, "kop")
      BY <1>4, NaarVerder
    <2>2. ImportGoed(q)'
      <3>1. ImportRijen(q)' = {} /\ ~ Live(In(q).template)'
        BY <1>1, <2>1 DEF Verder, ImportRijen, ImportGoed, Live, Stil
      <3> QED BY <1>1, <2>1, <3>1 DEF Verder, ImportGoed
    <2>3. q \in Lopend' /\ Importeert(q)'
      BY <1>1, <2>1 DEF Verder, Lopend, Importeert
    <2>4. Lokaal(q)' /\ verzoek'[q].pc \notin Rust /\ ~ Benoemt(q)'
      BY <2>1, <2>2, <2>3 DEF Lokaal, Verder, Rust, Benoemt
    <2> QED BY <1>1, <2>1, <2>4, VervolgGoed DEF Verder
  <1> QED BY <1>2, <1>3, <1>4 DEF ZoekTemplate

(* The name is nobody's: no committed row has it, and a row not committed  *)
(* yet would have been waited for.                                         *)
LEMMA MaakTemplateGoed ==
    ASSUME IInv, NEW q \in Verzoeken, MaakTemplate(q)
    PROVE  IInv'
  <1> DEFINE t == In(q).template
             naam == Naam(In(q).document)
             wordt == [k \in {Kop(t)} |-> LiveRij(t, Geen, {naam})]
  <1>1. q \in Lopend /\ Importeert(q) /\ ImportGoed(q) /\ Stil /\ Geschreven(q) = {}
    BY AanDeBeurt, BlijftStil DEF MaakTemplate, ImportGoed, ImportRijen
  <1>2. CASE Bezet(q, naam)
    <2>1. verzoek' = [verzoek EXCEPT ![q] = [NieuwVerzoek EXCEPT !.pc = "dubbel"]]
      BY <1>2 DEF MaakTemplate
    <2>2. "dubbel" \in Rust
      BY DEF Rust
    <2> QED BY <1>1, <2>1, <2>2, WegGoed
  <1>3. CASE ~ Bezet(q, naam)
    <2>1. Schreef(q, {Kop(t)}, wordt, "categorieen") /\ ~ NaamWacht(q)
      BY <1>3, SchreefFeit DEF MaakTemplate
    <2>2. q \in Lopend' /\ Importeert(q)'
      BY <1>1, <2>1 DEF Schreef, Lopend, Importeert
    <2>3. ImportGoed(q)'
      <3>1. ImportRijen(q)' = {Kop(t)} /\ ~ Live(t)' /\ Geschreven(q)' = {Kop(t)}
        BY <1>1, <2>1 DEF Schreef, ImportRijen, ImportGoed, Live, Stil
      <3>2. Wordt(q, Kop(t))' = LiveRij(t, Geen, {naam})
        BY <2>1, <3>1 DEF Schreef
      <3>3. /\ t \in Templates /\ In(q).document \in Documenten /\ DocumentGoed(In(q).document)
            /\ In(q).ronde = Geen
        BY <1>1 DEF ImportGoed
      <3>4. Cat(t) \notin {Kop(t)} /\ Vra(t) \notin {Kop(t)}
        BY Sleutels
      <3>5. In(q)' = In(q) /\ verzoek'[q].pc = "categorieen"
        BY <2>1 DEF Schreef
      <3> QED BY <3>1, <3>2, <3>3, <3>4, <3>5 DEF ImportGoed
    <2>4. Lokaal(q)'
      BY <2>2, <2>3 DEF Lokaal
    <2>5. ASSUME NEW u \in Templates, Live(u)
          PROVE  rij[Kop(u)].inhoud # {naam}
      <3>1. Kop(u) \in RijSleutels
        BY Sleutels
      <3>2. Ziet(q, Kop(u)) = rij[Kop(u)]
        BY <1>1, <3>1, ZietRij
      <3> QED BY <1>3, <2>5, <3>2 DEF Bezet, Bestaat, Live
    <2>6. ASSUME NEW p \in Verzoeken \ {q}, Benoemt(p)
          PROVE  Naam(In(p).document) # naam
      <3>1. p \in Lopend /\ Lokaal(p)
        BY <2>6 DEF Benoemt, Lopend, IInv
      <3>2. ImportGoed(p)
        BY <2>6, <3>1 DEF Lokaal, Benoemt, Importeert, Maakt
      <3>3. In(p).template \in Templates /\ Kop(In(p).template) \in Geschreven(p)
        BY <2>6, <3>2 DEF ImportGoed, ImportRijen, Benoemt
      <3>4. Wordt(p, Kop(In(p).template)).inhoud = {Naam(In(p).document)}
        BY <3>2, <3>3, LiveRijFeit DEF ImportGoed
      <3>5. Wordt(p, Kop(In(p).template)).inhoud # {naam}
        BY <2>1, <2>6, <3>3 DEF NaamWacht, Geschreven, Wordt
      <3> QED BY <3>4, <3>5
    <2>7. NaamVrij(q)'
      <3>1. /\ \A u : Live(u)' = Live(u)
            /\ \A p \in Verzoeken \ {q} : Benoemt(p)' = Benoemt(p) /\ In(p)' = In(p)
        BY <1>1, <2>1 DEF Live, Stil, Schreef, Anders, Benoemt, Importeert, In
      <3>2. In(q)' = In(q)
        BY <2>1 DEF Schreef
      <3> QED BY <1>1, <2>5, <2>6, <3>1, <3>2 DEF NaamVrij, Stil
    <2>8. Alleen(q)'
      <3>1. \A p \in Lopend' \ {q} : p \in Lopend /\ In(p)' = In(p) /\ Importeert(p)' = Importeert(p)
        BY <2>1 DEF Schreef, Anders, Lopend, In, Importeert
      <3>2. Alleen(q) /\ ~ Maakt(q)' /\ In(q)' = In(q)
        BY <1>1, <2>1 DEF IInv, Schreef, Maakt, Importeert
      <3> QED BY <1>1, <3>1, <3>2 DEF Alleen
    <2> QED BY <1>1, <2>1, <2>4, <2>7, <2>8, VastBlijft, StapGoed DEF Schreef, Stil
  <1> QED BY <1>2, <1>3

LEMMA MaakCategorieenGoed ==
    ASSUME IInv, NEW q \in Verzoeken, MaakCategorieen(q)
    PROVE  IInv'
  <1> DEFINE t == In(q).template
             d == In(q).document
             wordt == [x \in {Cat(t)} |-> LiveRij(t, Geen, Categorieen(d))]
  <1>1. q \in Lopend /\ Importeert(q) /\ ImportGoed(q) /\ Stil /\ Geschreven(q) = {Kop(t)}
    BY AanDeBeurt, BlijftStil DEF MaakCategorieen, ImportGoed, ImportRijen
  <1>2. Schreef(q, {Cat(t)}, wordt, "vragen")
    BY SchreefFeit DEF MaakCategorieen
  <1>3. q \in Lopend' /\ Importeert(q)' /\ Benoemt(q)
    BY <1>1, <1>2 DEF Schreef, Lopend, Importeert, Benoemt, MaakCategorieen
  <1>4. ImportGoed(q)'
    <2>1. ImportRijen(q)' = {Kop(t), Cat(t)} /\ ~ Live(t)' /\ Geschreven(q)' = {Kop(t), Cat(t)}
      BY <1>1, <1>2 DEF Schreef, ImportRijen, ImportGoed, Live, Stil
    <2>2. /\ Wordt(q, Kop(t))' = LiveRij(t, Geen, {Naam(d)})
          /\ Wordt(q, Cat(t))' = LiveRij(t, Geen, Categorieen(d))
      BY <1>1, <1>2, <2>1, Sleutels DEF Schreef, ImportGoed
    <2>3. t \in Templates /\ d \in Documenten /\ DocumentGoed(d) /\ In(q).ronde = Geen
      BY <1>1 DEF ImportGoed
    <2>4. Vra(t) \notin {Kop(t), Cat(t)}
      BY Sleutels
    <2>5. In(q)' = In(q) /\ verzoek'[q].pc = "vragen"
      BY <1>2 DEF Schreef
    <2> QED BY <2>1, <2>2, <2>3, <2>4, <2>5, LiveRijFeit DEF ImportGoed
  <1>5. Lokaal(q)' /\ verzoek'[q].pc \notin Rust
    BY <1>2, <1>3, <1>4 DEF Lokaal, Schreef, Rust
  <1> QED BY <1>1, <1>2, <1>3, <1>5, VervolgGoed DEF Schreef

LEMMA MaakVragenGoed ==
    ASSUME IInv, NEW q \in Verzoeken, MaakVragen(q)
    PROVE  IInv'
  <1> DEFINE t == In(q).template
             d == In(q).document
             wordt == [x \in {Vra(t)} |-> LiveRij(t, Geen, VragenVan(d))]
  <1>1. q \in Lopend /\ Importeert(q) /\ ImportGoed(q) /\ Stil /\ Geschreven(q) = {Kop(t), Cat(t)}
    BY AanDeBeurt, BlijftStil DEF MaakVragen, ImportGoed, ImportRijen
  <1>2. Schreef(q, {Vra(t)}, wordt, "commit")
    BY SchreefFeit DEF MaakVragen
  <1>3. q \in Lopend' /\ Importeert(q)' /\ Benoemt(q)
    BY <1>1, <1>2 DEF Schreef, Lopend, Importeert, Benoemt, MaakVragen
  <1>4. ImportGoed(q)'
    <2>1. /\ ImportRijen(q)' = {Kop(t), Cat(t), Vra(t)} /\ ~ Live(t)'
          /\ Geschreven(q)' = {Kop(t), Cat(t), Vra(t)}
      BY <1>1, <1>2 DEF Schreef, ImportRijen, ImportGoed, Live, Stil
    <2>2. /\ Wordt(q, Kop(t))' = LiveRij(t, Geen, {Naam(d)})
          /\ Wordt(q, Cat(t))' = LiveRij(t, Geen, Categorieen(d))
          /\ Wordt(q, Vra(t))' = LiveRij(t, Geen, VragenVan(d))
      BY <1>1, <1>2, <2>1, Sleutels DEF Schreef, ImportGoed
    <2>3. t \in Templates /\ d \in Documenten /\ DocumentGoed(d) /\ In(q).ronde = Geen
      BY <1>1 DEF ImportGoed
    <2>4. In(q)' = In(q) /\ verzoek'[q].pc = "commit"
      BY <1>2 DEF Schreef
    <2> QED BY <2>1, <2>2, <2>3, <2>4, LiveRijFeit DEF ImportGoed
  <1>5. Lokaal(q)' /\ verzoek'[q].pc \notin Rust
    BY <1>2, <1>3, <1>4 DEF Lokaal, Schreef, Rust
  <1> QED BY <1>1, <1>2, <1>3, <1>5, VervolgGoed DEF Schreef

LEMMA LeesCategorieenFeit ==
    ASSUME IInv, NEW q \in Verzoeken, LeesCategorieen(q)
    PROVE  /\ q \in Lopend /\ verzoek[q].op \in {"exporteer", "detail"} /\ LeesGoed(q) /\ Stil
           /\ Vorm' /\ Anders(q)
           /\ verzoek'[q].pc = "leesVragen" /\ verzoek'[q].op = verzoek[q].op
           /\ Geschreven(q)' = {} /\ DOMAIN In(q)' = DOMAIN In(q)
           /\ (In(q).template)' = In(q).template /\ (In(q).ronde)' = In(q).ronde
           /\ (In(q).document)' = In(q).document /\ (In(q).aantal)' = In(q).aantal
           /\ (In(q).categorieen)' = rij[Cat(In(q).template)].inhoud
  <1> DEFINE cs == Ziet(q, Cat(In(q).template)).inhoud
             invoer == [In(q) EXCEPT !.categorieen = cs]
             v == [verzoek[q] EXCEPT !.pc = "leesVragen", !.invoer = invoer]
  <1>1. /\ q \in Lopend /\ verzoek[q].op \in {"exporteer", "detail"} /\ LeesGoed(q)
        /\ Stil /\ IsVerzoek(verzoek[q])
    BY AanDeBeurt, BlijftStil DEF LeesCategorieen, IInv, Vorm
  <1>2. cs = rij[Cat(In(q).template)].inhoud
    <2>1. Geschreven(q) = {} /\ Cat(In(q).template) \in RijSleutels
      BY <1>1, Sleutels DEF LeesGoed
    <2> QED BY <2>1, ZietRij
  <1>3. /\ verzoek' = [p \in Verzoeken |-> verzoek'[p]]
        /\ \A p \in Verzoeken : verzoek'[p] = IF p = q THEN v ELSE verzoek[p]
    BY <1>1 DEF LeesCategorieen, IInv, Vorm, IsVerzoek, In
  <1> HIDE DEF cs
  <1>4. /\ DOMAIN invoer = DOMAIN In(q) /\ invoer.template = In(q).template
        /\ invoer.ronde = In(q).ronde /\ invoer.document = In(q).document
        /\ invoer.aantal = In(q).aantal /\ invoer.categorieen = cs
    BY <1>1 DEF LeesGoed, Leesvelden
  <1> HIDE DEF invoer
  <1>5. /\ IsVerzoek(v) /\ v.pc = "leesVragen" /\ v.op = verzoek[q].op /\ v.invoer = invoer
        /\ v.schrijf = verzoek[q].schrijf
    BY <1>1 DEF IsVerzoek
  <1> HIDE DEF v
  <1>6. Vorm' /\ Anders(q) /\ verzoek'[q] = v
    BY <1>3, <1>5, VerzoekVerandert DEF IInv
  <1>7. In(q)' = invoer /\ Geschreven(q)' = {}
    BY <1>1, <1>5, <1>6 DEF In, Geschreven, LeesGoed
  <1> QED BY <1>1, <1>2, <1>4, <1>5, <1>6, <1>7

LEMMA LeesCategorieenGoed ==
    ASSUME IInv, NEW q \in Verzoeken, LeesCategorieen(q)
    PROVE  IInv'
  <1>1. /\ q \in Lopend /\ verzoek[q].op \in {"exporteer", "detail"} /\ LeesGoed(q) /\ Stil
        /\ Vorm' /\ Anders(q)
        /\ verzoek'[q].pc = "leesVragen" /\ verzoek'[q].op = verzoek[q].op
        /\ Geschreven(q)' = {} /\ DOMAIN In(q)' = DOMAIN In(q)
        /\ (In(q).template)' = In(q).template /\ (In(q).ronde)' = In(q).ronde
        /\ (In(q).document)' = In(q).document
    BY LeesCategorieenFeit
  <1>2. q \in Lopend' /\ ~ Benoemt(q)'
    BY <1>1 DEF Lopend, Benoemt
  <1>3. LeesGoed(q)'
    BY <1>1 DEF LeesGoed, Live, Stil
  <1>4. Lokaal(q)' /\ verzoek'[q].pc \notin Rust
    BY <1>1, <1>2, <1>3 DEF Lokaal, Rust
  <1> QED BY <1>1, <1>2, <1>4, VervolgGoed

LEMMA LeesVragenGoed ==
    ASSUME IInv, NEW q \in Verzoeken, LeesVragen(q)
    PROVE  IInv'
  <1>1. LeesGoed(q) /\ Stil /\ Verder(q, "klaar")
    BY AanDeBeurt, NaarVerder DEF LeesVragen, Stil
  <1> QED BY <1>1, EindeGoed DEF Verder, Rust, LeesGoed

LEMMA TelVragenGoed ==
    ASSUME IInv, NEW q \in Verzoeken, TelVragen(q)
    PROVE  IInv'
  <1>1. q \in Lopend /\ Maakt(q) /\ MaakGoed(q) /\ Stil /\ Geschreven(q) = {}
    BY AanDeBeurt, BlijftStil DEF TelVragen, MaakGoed
  <1>2. CASE Weigert(q)
    BY <1>1, <1>2, WeigertGoed
  <1>3. CASE Naar(q, "ronde") /\ Uitvraagbaar(Ziet(q, Vra(In(q).template)).inhoud)
    <2>1. Verder(q, "ronde")
      BY <1>3, NaarVerder
    <2>2. Vra(In(q).template) \in RijSleutels
      BY <1>1, Sleutels DEF MaakGoed
    <2>3. Uitvraagbaar(rij[Vra(In(q).template)].inhoud)
      BY <1>1, <1>3, <2>2, ZietRij
    <2>4. MaakGoed(q)'
      BY <1>1, <2>1, <2>3 DEF Verder, MaakGoed, Live, Stil
    <2>5. q \in Lopend' /\ Maakt(q)' /\ verzoek'[q].pc \notin Rust /\ ~ Benoemt(q)'
      BY <1>1, <2>1 DEF Verder, Lopend, Maakt, Rust, Benoemt
    <2>6. Lokaal(q)'
      BY <2>4, <2>5 DEF Lokaal
    <2> QED BY <1>1, <2>1, <2>5, <2>6, VervolgGoed DEF Verder
  <1> QED BY <1>2, <1>3 DEF TelVragen

LEMMA SchrijfRondeGoed ==
    ASSUME IInv, NEW q \in Verzoeken, SchrijfRonde(q)
    PROVE  IInv'
  <1> DEFINE k == Run(In(q).ronde)
             wordt == [x \in {k} |-> LiveRij(In(q).template, "draft", {})]
  <1>1. q \in Lopend /\ Maakt(q) /\ MaakGoed(q) /\ Stil /\ Geschreven(q) = {}
    BY AanDeBeurt, BlijftStil DEF SchrijfRonde, MaakGoed
  <1>2. Schreef(q, {k}, wordt, "commit") /\ verzoek[q].pc = "ronde"
    BY SchreefFeit DEF SchrijfRonde
  <1>3. Geschreven(q)' = {k} /\ Wordt(q, k)' = LiveRij(In(q).template, "draft", {})
    BY <1>1, <1>2 DEF Schreef
  <1>4. MaakGoed(q)'
    BY <1>1, <1>2, <1>3 DEF Schreef, MaakGoed, Live, Stil
  <1>5. q \in Lopend' /\ Maakt(q)' /\ verzoek'[q].pc \notin Rust /\ ~ Benoemt(q)'
    BY <1>1, <1>2 DEF Schreef, Lopend, Maakt, Rust, Benoemt, Importeert
  <1>6. Lokaal(q)'
    BY <1>4, <1>5 DEF Lokaal
  <1> QED BY <1>1, <1>2, <1>5, <1>6, VervolgGoed DEF Schreef

LEMMA SchrijfStatusGoed ==
    ASSUME IInv, NEW q \in Verzoeken, SchrijfStatus(q)
    PROVE  IInv'
  <1> DEFINE k == Run(In(q).ronde)
             w == [rij[k] EXCEPT !.status = In(q).status]
             wordt == [x \in {k} |-> w]
  <1>1. /\ q \in Lopend /\ verzoek[q].op \in {"wijzigStatus", "archiveer"} /\ StatusGoed(q)
        /\ Stil /\ Geschreven(q) = {}
    BY AanDeBeurt, BlijftStil DEF SchrijfStatus, StatusGoed
  <1>2. Schreef(q, {k}, wordt, "commit")
    BY SchreefFeit DEF SchrijfStatus
  <1>3. IsRij(rij[k]) /\ rij[k].stand = "live"
    BY <1>1 DEF StatusGoed, IInv, Vast, RondeGoed
  <1>4. IsRij(w) /\ w.stand = "live" /\ w.van = rij[k].van /\ w.status = In(q).status
    BY <1>3 DEF IsRij
  <1>5. Geschreven(q)' = {k} /\ Wordt(q, k)' = w
    BY <1>1, <1>2 DEF Schreef
  <1> HIDE DEF w
  <1>6. StatusGoed(q)'
    BY <1>1, <1>2, <1>4, <1>5 DEF Schreef, StatusGoed, Stil
  <1>7. q \in Lopend' /\ verzoek'[q].pc \notin Rust /\ ~ Benoemt(q)'
    BY <1>1, <1>2 DEF Schreef, Lopend, Rust, Benoemt, Importeert
  <1>8. Lokaal(q)'
    BY <1>1, <1>2, <1>6, <1>7 DEF Lokaal, Schreef
  <1> QED BY <1>1, <1>2, <1>7, <1>8, VervolgGoed DEF Schreef

(* A change of a template that the trigger let pass.                       *)
LEMMA WijzigSchrijft ==
    ASSUME IInv, NEW q \in Verzoeken, verzoek[q].pc = "vraagWijzigen", Stil,
           ~ Bevroren(q, In(q).doel), NEW R, NEW wordt, Schrijft(q, R, wordt, "commit"),
           Vra(In(q).template) \in R, Vra(In(q).doel) \in R,
           R \subseteq IF In(q).template = In(q).doel
                       THEN {Cat(In(q).template), Vra(In(q).template)}
                       ELSE {Vra(In(q).template), Vra(In(q).doel)}
    PROVE  IInv'
  <1>1. q \in Lopend /\ verzoek[q].op = "wijzig" /\ WijzigGoed(q) /\ Geschreven(q) = {}
    BY AanDeBeurt DEF WijzigGoed
  <1>2. Schreef(q, R, wordt, "commit")
    BY SchreefFeit
  <1>3. \A r \in Rondes : rij[Run(r)].van = In(q).doel => rij[Run(r)].status \notin Gestart
    <2>1. \A r \in Rondes : Ziet(q, Run(r)) = rij[Run(r)]
      BY <1>1, ZietRij, Sleutels
    <2> QED BY <2>1 DEF Bevroren, STATUSSEN, Gestart
  <1>4. WijzigGoed(q)'
    BY <1>1, <1>2, <1>3 DEF Schreef, WijzigGoed, Live, Stil
  <1>5. q \in Lopend' /\ verzoek'[q].pc \notin Rust /\ ~ Benoemt(q)' /\ verzoek'[q].op = "wijzig"
    BY <1>1, <1>2 DEF Schreef, Lopend, Rust, Benoemt, Importeert
  <1>6. Lokaal(q)'
    BY <1>4, <1>5 DEF Lokaal
  <1> QED BY <1>1, <1>2, <1>5, <1>6, VervolgGoed DEF Schreef

LEMMA WijzigStapGoed ==
    ASSUME IInv, NEW q \in Verzoeken,
           VraagWeg(q) \/ VraagErbij(q) \/ VraagVerplaatst(q) \/ VraagGeweigerd(q)
    PROVE  IInv'
  <1>1. CASE VraagWeg(q)
    BY <1>1, WijzigSchrijft, BlijftStil DEF VraagWeg
  <1>2. CASE VraagErbij(q)
    BY <1>2, WijzigSchrijft, BlijftStil DEF VraagErbij
  <1>3. CASE VraagVerplaatst(q)
    BY <1>3, WijzigSchrijft, BlijftStil, Sleutels DEF VraagVerplaatst
  <1>4. CASE VraagGeweigerd(q)
    BY <1>4, WeigertGoed, BlijftStil DEF VraagGeweigerd
  <1> QED BY <1>1, <1>2, <1>3, <1>4

-----------------------------------------------------------------------------
(* COMMIT.                                                                 *)

Komt(q) ==
    /\ Vorm' /\ Anders(q) /\ verzoek[q].pc = "commit" /\ q \in Lopend
    /\ q \notin Lopend' /\ ~ Benoemt(q)' /\ Geschreven(q)' = {}
    /\ rij' = [k \in RijSleutels |-> rij'[k]]
    /\ \A k \in RijSleutels : rij'[k] = IF k \in Geschreven(q) THEN Wordt(q, k) ELSE rij[k]

LEMMA KomtFeit ==
    ASSUME IInv, NEW q \in Verzoeken, Commit(q)
    PROVE  Komt(q)
  <1>1. /\ Vorm' /\ Anders(q) /\ verzoek[q].pc = "commit" /\ verzoek'[q].pc = "klaar"
        /\ DOMAIN verzoek'[q].schrijf = {}
        /\ rij' = [k \in DOMAIN rij |-> Zicht(q)[k]]
        /\ \A k \in DOMAIN rij : rij'[k] = Zicht(q)[k]
    BY CommitFeit DEF IInv
  <1>2. DOMAIN rij = RijSleutels
    BY DEF IInv, Functies
  <1>3. q \in Lopend /\ q \notin Lopend' /\ ~ Benoemt(q)'
    BY <1>1 DEF Lopend, Benoemt
  <1>4. \A k \in RijSleutels : rij'[k] = IF k \in Geschreven(q) THEN Wordt(q, k) ELSE rij[k]
    BY <1>1, <1>2, ZichtFeit DEF Geschreven, Wordt
  <1>5. rij' = [k \in RijSleutels |-> rij'[k]]
    BY <1>1, <1>2
  <1> QED BY <1>1, <1>3, <1>4, <1>5 DEF Komt, Geschreven

(* A round that starts now gets its content noted; the others keep theirs. *)
Start(q, r) == r = In(q).ronde /\ rij[Run(r)].status = "draft" /\ ~ Maakt(q)

LEMMA StartFeit ==
    ASSUME IInv, NEW q \in Verzoeken, Voltooit(q), NEW r \in Rondes
    PROVE  bijStart'[r] = IF Start(q, r) THEN Inhoud(rij[Run(r)].van) ELSE bijStart[r]
  <1>1. bijStart = [x \in Rondes |-> bijStart[x]]
    BY DEF IInv, Functies
  <1>2. r # Geen
    BY VragenlijstenGeen
  <1> QED BY <1>1, <1>2 DEF Voltooit, Start, Maakt

(* What a COMMIT leaves of started rounds and whole templates.             *)
Houdt(q) ==
    /\ Groeit(q) /\ UitEenDocument'
    /\ \A r \in Rondes : rij'[Run(r)].status \in Gestart =>
         rij[Run(r)].status \in Gestart \/ Start(q, r)
    /\ \A r \in Rondes : Start(q, r) => rij'[Run(r)].status \in Gestart
    /\ \A r \in Rondes, t \in Templates :
         rij[Run(r)].van = t /\ (rij[Run(r)].status \in Gestart \/ Start(q, r))
         => \/ Inhoud(t)' = Inhoud(t)
            \/ ~ Start(q, r) /\ (r \in onderweg' \/ t \in verplaatst')

LEMMA VoltooitGoed ==
    ASSUME IInv, NEW q \in Verzoeken, Voltooit(q), Komt(q), Houdt(q)
    PROVE  IInv'
  <1>1. Groeit(q) /\ getoond' = getoond
    BY DEF Houdt, Voltooit
  <1>2. ASSUME NEW r \in Rondes
        PROVE  Uitgezet(r)'
    <2>0. PICK t : t = rij[Run(r)].van
      OBVIOUS
    <2>1. RondeGoed(r) /\ Uitgezet(r)
      BY <2>0 DEF IInv, Vast
    <2>2. bijStart'[r] = IF Start(q, r) THEN Inhoud(t) ELSE bijStart[r]
      BY <2>0, StartFeit
    <2>3. rij[Run(r)].status \in {"draft"} \cup Gestart => rij[Run(r)].stand = "live" /\ t \in Templates
      BY <2>0, <2>1, VragenlijstenGeen DEF RondeGoed, Gestart
    <2>4. CASE rij'[Run(r)].status \notin Gestart
      <3>1. rij[Run(r)].status \notin Gestart /\ ~ Start(q, r)
        BY <2>0, <1>1, <2>3, <2>4, RondeBlijft DEF Houdt
      <3> QED BY <2>0, <1>1, <2>1, <2>2, <2>4, <3>1 DEF Uitgezet
    <2>5. CASE rij'[Run(r)].status \in Gestart /\ Start(q, r)
      <3>1. rij'[Run(r)].van = t /\ t \in Templates /\ rij[Run(r)].status \notin Gestart
        BY <2>0, <1>1, <2>3, <2>5, RondeBlijft DEF Start, Gestart
      <3>2. Inhoud(t)' = Inhoud(t) /\ getoond'[r] = {} /\ bijStart'[r] = Inhoud(t)
        BY <2>0, <1>1, <2>1, <2>2, <2>5, <3>1 DEF Houdt, Uitgezet
      <3>3. Uitvraagbaar(rij[Vra(t)].inhoud) \/ t \in gewijzigd'
        BY <2>0, <1>1, <2>1, <2>3, <2>5 DEF RondeGoed, Start, Groeit, Gestart
      <3>4. bijStart'[r][2] = rij[Vra(t)].inhoud
        BY <2>0, <3>2 DEF Inhoud
      <3>5. Inhoud(rij[Run(r)].van)' = bijStart'[r]
        BY <2>0, <3>1, <3>2 DEF Inhoud
      <3> QED BY <2>0, <2>5, <3>1, <3>2, <3>3, <3>4, <3>5 DEF Uitgezet
    <2>6. CASE rij'[Run(r)].status \in Gestart /\ ~ Start(q, r)
      <3>1. rij[Run(r)].status \in Gestart
        BY <2>0, <2>6 DEF Houdt
      <3>2. rij'[Run(r)].van = t /\ t \in Templates
        BY <2>0, <1>1, <2>3, <3>1, RondeBlijft
      <3>3. /\ Inhoud(t) = bijStart[r] \/ Uitgezonderd(r)
            /\ getoond[r] \subseteq {Vragenlijst(bijStart[r][1], bijStart[r][2])} \/ Uitgezonderd(r)
            /\ Uitvraagbaar(bijStart[r][2]) \/ t \in gewijzigd
        BY <2>0, <2>1, <3>1 DEF Uitgezet
      <3>4. Inhoud(t)' = Inhoud(t) \/ r \in onderweg' \/ t \in verplaatst'
        BY <2>0, <3>1, <3>2 DEF Houdt
      <3>5. Uitgezonderd(r) => Uitgezonderd(r)'
        BY <2>0, <1>1, <3>2 DEF Uitgezonderd, Groeit
      <3>6. r \in onderweg' \/ t \in verplaatst' => Uitgezonderd(r)'
        BY <2>0, <3>2 DEF Uitgezonderd
      <3>7. Inhoud(rij[Run(r)].van)' = bijStart[r] \/ Uitgezonderd(r)'
        BY <2>0, <3>2, <3>3, <3>4, <3>5, <3>6 DEF Inhoud
      <3> QED BY <2>0, <1>1, <2>2, <2>6, <3>2, <3>3, <3>5, <3>7 DEF Uitgezet, Groeit
    <2> QED BY <2>4, <2>5, <2>6
  <1>3. Vast'
    BY <1>1, <1>2, RondeGoedBlijft DEF Vast, Houdt
  <1>4. Functies'
    BY DEF IInv, Functies, Komt, Voltooit
  <1>5. \A p \in Verzoeken : Lokaal(p)'
    <2>1. Lokaal(q)'
      BY DEF Komt, Lokaal
    <2> QED BY <1>1, <2>1, LokaalBlijft DEF Komt, Anders
  <1>6. \A p \in Verzoeken \ {q} :
          /\ In(p)' = In(p) /\ (p \in Lopend') = (p \in Lopend)
          /\ Importeert(p)' = Importeert(p) /\ Maakt(p)' = Maakt(p) /\ Benoemt(p)' = Benoemt(p)
    BY DEF Komt, Anders, In, Lopend, Importeert, Maakt, Benoemt
  <1>7. ASSUME NEW p \in Verzoeken
        PROVE  Alleen(p)'
    <2>1. Alleen(p) /\ q \notin Lopend' /\ Lopend' \subseteq Verzoeken
      BY DEF IInv, Komt, Lopend
    <2> QED BY <1>6, <2>1 DEF Alleen
  <1>8. ASSUME NEW p \in Verzoeken
        PROVE  NaamVrij(p)'
    <2>1. CASE p = q
      BY <2>1 DEF Komt, NaamVrij
    <2>2. CASE p # q /\ Benoemt(p)
      <3>1. NaamVrij(p)
        BY DEF IInv
      <3>2. ASSUME NEW t \in Templates, Live(t)'
            PROVE  rij'[Kop(t)].inhoud # {Naam(In(p).document)}
        <4>1. CASE rij'[Kop(t)] = rij[Kop(t)]
          BY <2>2, <3>1, <3>2, <4>1 DEF NaamVrij, Live
        <4>2. CASE Benoemt(q) /\ rij'[Kop(t)] = LiveRij(t, Geen, {Naam(In(q).document)})
          <5>1. Naam(In(q).document) # Naam(In(p).document)
            BY <2>2, <3>1, <4>2 DEF NaamVrij
          <5> QED BY <4>2, <5>1, LiveRijFeit
        <4> QED BY <1>1, <4>1, <4>2 DEF Groeit
      <3>3. \A x \in Verzoeken \ {p} : Benoemt(x)' => Naam(In(x).document)' # Naam(In(p).document)
        BY <1>6, <2>2, <3>1 DEF NaamVrij, Komt
      <3> QED BY <1>6, <2>2, <3>2, <3>3 DEF NaamVrij
    <2>3. CASE p # q /\ ~ Benoemt(p)
      BY <1>6, <2>3 DEF NaamVrij
    <2> QED BY <2>1, <2>2, <2>3
  <1> QED BY <1>3, <1>4, <1>5, <1>7, <1>8 DEF IInv, Komt

(* What every COMMIT does to the notes, and to rows that nobody wrote.      *)
LEMMA KomtErbij ==
    ASSUME IInv, NEW q \in Verzoeken, Voltooit(q), Komt(q)
    PROVE  /\ onderweg \subseteq onderweg' /\ gewijzigd \subseteq gewijzigd'
           /\ verplaatst \subseteq verplaatst' /\ Wijzigt(q) \subseteq gewijzigd'
           /\ \A k \in RijSleutels \ Geschreven(q) : rij'[k] = rij[k]
           /\ \A r \in Rondes : Start(q, r) =>
                \A p \in Lopend : rij[Run(r)].van \in Wijzigt(p) => r \in onderweg'
  <1>1. \A r \in Rondes : r # Geen
    BY VragenlijstenGeen
  <1>2. onderweg \subseteq onderweg'
    BY DEF Voltooit
  <1>3. \A r \in Rondes : Start(q, r) =>
          \A p \in Lopend : rij[Run(r)].van \in Wijzigt(p) => r \in onderweg'
    BY <1>1 DEF Voltooit, Start, Maakt
  <1> QED BY <1>2, <1>3 DEF Voltooit, Komt

(* A document that nobody touched is whole still.                          *)
LEMMA HeelBlijft ==
    ASSUME IInv, gewijzigd \subseteq gewijzigd',
           \A t \in Templates : rij'[Kop(t)] = rij[Kop(t)],
           \A t \in Templates \ gewijzigd' : rij'[Cat(t)] = rij[Cat(t)] /\ rij'[Vra(t)] = rij[Vra(t)]
    PROVE  UitEenDocument'
  BY DEF IInv, Vast, UitEenDocument, Inhoud

LEMMA HaalKomt ==
    ASSUME IInv, NEW q \in Verzoeken, Voltooit(q), Komt(q), HaalGoed(q)
    PROVE  Houdt(q)
  <1>1. \A k \in RijSleutels : rij'[k] = rij[k]
    BY DEF HaalGoed, Komt
  <1>2. \A r \in Rondes : ~ Start(q, r)
    BY DEF HaalGoed, Start, Gestart
  <1>3. /\ \A t \in Templates : /\ rij'[Kop(t)] = rij[Kop(t)] /\ rij'[Cat(t)] = rij[Cat(t)]
                               /\ rij'[Vra(t)] = rij[Vra(t)]
        /\ \A r \in Rondes : rij'[Run(r)] = rij[Run(r)]
    BY <1>1, Sleutels
  <1>4. Groeit(q)
    BY <1>3, KomtErbij DEF Groeit, RondeGroeit
  <1>5. UitEenDocument'
    BY <1>3, KomtErbij, HeelBlijft
  <1>6. \A t \in Templates : Inhoud(t)' = Inhoud(t)
    BY <1>3 DEF Inhoud
  <1> QED BY <1>2, <1>3, <1>4, <1>5, <1>6 DEF Houdt

LEMMA StatusKomt ==
    ASSUME IInv, NEW q \in Verzoeken, Voltooit(q), Komt(q), StatusGoed(q)
    PROVE  Houdt(q)
  <1>1. PICK r0 \in Rondes : r0 = In(q).ronde
    BY DEF StatusGoed
  <1>2. /\ Geschreven(q) = {Run(r0)} /\ rij[Run(r0)].stand = "live"
        /\ IsRij(rij'[Run(r0)]) /\ rij'[Run(r0)].stand = "live"
        /\ rij'[Run(r0)].van = rij[Run(r0)].van /\ rij'[Run(r0)].status \in Gestart
    BY <1>1, Sleutels DEF StatusGoed, Komt
  <1>3. /\ \A t \in Templates : /\ rij'[Kop(t)] = rij[Kop(t)] /\ rij'[Cat(t)] = rij[Cat(t)]
                               /\ rij'[Vra(t)] = rij[Vra(t)]
        /\ \A r \in Rondes \ {r0} : rij'[Run(r)] = rij[Run(r)]
    <2>1. \A r \in Rondes \ {r0} : Run(r) \in RijSleutels \ Geschreven(q)
      BY <1>2, Sleutels
    <2>2. \A t \in Templates : {Kop(t), Cat(t), Vra(t)} \subseteq RijSleutels \ Geschreven(q)
      BY <1>2, Sleutels
    <2> QED BY <2>1, <2>2, KomtErbij
  <1>4. RondeGroeit(q, r0)
    <2>1. CASE rij[Run(r0)].status \in Gestart
      BY <1>2, <2>1 DEF RondeGroeit
    <2>2. CASE rij[Run(r0)].status \notin Gestart
      <3>1. rij[Run(r0)].status = "draft"
        BY <1>2, <2>2 DEF IInv, Vast, RondeGoed
      <3>2. ~ Maakt(q)
        BY <1>1, <1>2 DEF IInv, Lokaal, Komt, Maakt, Importeert, MaakGoed
      <3>3. \A p \in Lopend : rij[Run(r0)].van \in Wijzigt(p) => r0 \in onderweg'
        BY <1>1, <3>1, <3>2, KomtErbij DEF Start
      <3> QED BY <1>2, <3>3 DEF RondeGroeit
    <2> QED BY <2>1, <2>2
  <1>5. Groeit(q)
    BY <1>3, <1>4, KomtErbij DEF Groeit, RondeGroeit
  <1>6. UitEenDocument'
    BY <1>3, KomtErbij, HeelBlijft
  <1>7. \A t \in Templates : Inhoud(t)' = Inhoud(t)
    BY <1>3 DEF Inhoud
  <1>8. \A r \in Rondes : rij'[Run(r)].status \in Gestart =>
          rij[Run(r)].status \in Gestart \/ Start(q, r)
    <2>1. rij[Run(r0)].status \in Gestart \/ Start(q, r0)
      <3>1. rij[Run(r0)].status \in {"draft"} \cup Gestart
        BY <1>2 DEF IInv, Vast, RondeGoed
      <3>2. ~ Maakt(q)
        BY <1>1, <1>2 DEF IInv, Lokaal, Komt, Maakt, Importeert, MaakGoed
      <3> QED BY <1>1, <3>1, <3>2 DEF Start
    <2> QED BY <1>3, <2>1
  <1>9. \A r \in Rondes : Start(q, r) => rij'[Run(r)].status \in Gestart
    BY <1>1, <1>2 DEF Start
  <1> QED BY <1>5, <1>6, <1>7, <1>8, <1>9 DEF Houdt

LEMMA MaakKomt ==
    ASSUME IInv, NEW q \in Verzoeken, Voltooit(q), Komt(q), Maakt(q), MaakGoed(q)
    PROVE  Houdt(q)
  <1>1. PICK r0 \in Rondes : r0 = In(q).ronde
    BY DEF MaakGoed
  <1>2. /\ Geschreven(q) = {Run(r0)}
        /\ rij'[Run(r0)] = LiveRij(In(q).template, "draft", {})
    BY <1>1, Sleutels DEF MaakGoed, Komt
  <1>3. /\ \A t \in Templates : /\ rij'[Kop(t)] = rij[Kop(t)] /\ rij'[Cat(t)] = rij[Cat(t)]
                               /\ rij'[Vra(t)] = rij[Vra(t)]
        /\ \A r \in Rondes \ {r0} : rij'[Run(r)] = rij[Run(r)]
    <2>1. \A r \in Rondes \ {r0} : Run(r) \in RijSleutels \ Geschreven(q)
      BY <1>2, Sleutels
    <2>2. \A t \in Templates : {Kop(t), Cat(t), Vra(t)} \subseteq RijSleutels \ Geschreven(q)
      BY <1>2, Sleutels
    <2> QED BY <2>1, <2>2, KomtErbij
  <1>4. RondeGroeit(q, r0)
    BY <1>1, <1>2 DEF RondeGroeit, Komt
  <1>5. Groeit(q)
    BY <1>3, <1>4, KomtErbij DEF Groeit, RondeGroeit
  <1>6. UitEenDocument'
    BY <1>3, KomtErbij, HeelBlijft
  <1>7. \A t \in Templates : Inhoud(t)' = Inhoud(t)
    BY <1>3 DEF Inhoud
  <1>8. rij'[Run(r0)].status \notin Gestart
    BY <1>2, LiveRijFeit DEF Gestart
  <1>9. \A r \in Rondes : ~ Start(q, r)
    BY DEF Start
  <1> QED BY <1>3, <1>5, <1>6, <1>7, <1>8, <1>9 DEF Houdt

(* A change leaves the rounds that had started when it was made alone, but *)
(* for the one it moves a question out of.                                 *)
LEMMA WijzigKomt ==
    ASSUME IInv, NEW q \in Verzoeken, Voltooit(q), Komt(q), verzoek[q].op = "wijzig", WijzigGoed(q)
    PROVE  Houdt(q)
  <1>1. PICK t0 \in Templates, doel \in Templates : t0 = In(q).template /\ doel = In(q).doel
    BY DEF WijzigGoed
  <1>2. /\ Vra(t0) \in Geschreven(q) /\ Vra(doel) \in Geschreven(q)
        /\ Geschreven(q) \subseteq IF t0 = doel THEN {Cat(t0), Vra(t0)} ELSE {Vra(t0), Vra(doel)}
        /\ \A r \in Rondes :
             rij[Run(r)].van = doel /\ rij[Run(r)].status \in Gestart => r \in onderweg
    BY <1>1 DEF WijzigGoed, Komt
  <1>3. /\ \A t \in Templates : rij'[Kop(t)] = rij[Kop(t)]
        /\ \A r \in Rondes : rij'[Run(r)] = rij[Run(r)]
        /\ \A t \in Templates \ {t0, doel} : rij'[Cat(t)] = rij[Cat(t)] /\ rij'[Vra(t)] = rij[Vra(t)]
    <2>1. \A t \in Templates : Kop(t) \notin Geschreven(q)
      BY <1>2, Sleutels
    <2>2. \A r \in Rondes : Run(r) \notin Geschreven(q)
      <3>1. \A r : Run(r) \notin {Cat(t0), Vra(t0), Vra(doel)}
        BY DEF Run, Cat, Vra
      <3> QED BY <1>2, <3>1
    <2>3. \A t \in Templates \ {t0, doel} : Cat(t) \notin Geschreven(q) /\ Vra(t) \notin Geschreven(q)
      BY <1>2, Sleutels
    <2> QED BY <2>1, <2>2, <2>3, Sleutels, KomtErbij
  <1>4. {t0, doel} \subseteq gewijzigd'
    <2>1. {t0, doel} \subseteq Wijzigt(q)
      BY <1>2 DEF Wijzigt, Geschreven
    <2> QED BY <2>1, KomtErbij
  <1>5. t0 # doel => t0 \in verplaatst'
    BY <1>1, <1>2 DEF Voltooit, Wijzigt, Geschreven
  <1>6. Groeit(q)
    <2>1. \A t \in Templates : rij'[Vra(t)].inhoud = rij[Vra(t)].inhoud \/ t \in gewijzigd'
      BY <1>3, <1>4
    <2> QED BY <1>3, <2>1, KomtErbij DEF Groeit, RondeGroeit
  <1>7. UitEenDocument'
    BY <1>3, <1>4, KomtErbij, HeelBlijft
  <1>8. \A r \in Rondes : ~ Start(q, r)
    BY VragenlijstenGeen DEF WijzigGoed, Start
  <1>9. ASSUME NEW r \in Rondes, NEW t \in Templates,
               rij[Run(r)].van = t, rij[Run(r)].status \in Gestart
        PROVE  Inhoud(t)' = Inhoud(t) \/ r \in onderweg' \/ t \in verplaatst'
    <2>1. CASE t = doel
      BY <1>2, <1>9, <2>1, KomtErbij
    <2>2. CASE t = t0 /\ t # doel
      BY <1>5, <2>2
    <2>3. CASE t \notin {t0, doel}
      BY <1>3, <2>3 DEF Inhoud
    <2> QED BY <2>1, <2>2, <2>3
  <1> QED BY <1>3, <1>6, <1>7, <1>8, <1>9 DEF Houdt

(* An import adds a template under a name that is free.                    *)
LEMMA ImportKomt ==
    ASSUME IInv, NEW q \in Verzoeken, Voltooit(q), Komt(q), Importeert(q), ImportGoed(q)
    PROVE  Houdt(q)
  <1>1. PICK t0 \in Templates, d \in Documenten : t0 = In(q).template /\ d = In(q).document
    BY DEF ImportGoed
  <1>2. /\ DocumentGoed(d) /\ ~ Live(t0) /\ Benoemt(q)
        /\ Geschreven(q) = {Kop(t0), Cat(t0), Vra(t0)}
    BY <1>1 DEF ImportGoed, ImportRijen, Komt, Benoemt
  <1>3. /\ rij'[Kop(t0)] = LiveRij(t0, Geen, {Naam(d)})
        /\ rij'[Cat(t0)].inhoud = Categorieen(d) /\ rij'[Vra(t0)].inhoud = VragenVan(d)
    <2>1. /\ Wordt(q, Kop(t0)) = LiveRij(t0, Geen, {Naam(d)})
          /\ Wordt(q, Cat(t0)).inhoud = Categorieen(d) /\ Wordt(q, Vra(t0)).inhoud = VragenVan(d)
      BY <1>1, <1>2, LiveRijFeit DEF ImportGoed
    <2> QED BY <1>2, <2>1, Sleutels DEF Komt
  <1>4. /\ \A t \in Templates \ {t0} : /\ rij'[Kop(t)] = rij[Kop(t)] /\ rij'[Cat(t)] = rij[Cat(t)]
                                      /\ rij'[Vra(t)] = rij[Vra(t)]
        /\ \A r \in Rondes : rij'[Run(r)] = rij[Run(r)]
    BY <1>2, Sleutels, KomtErbij
  <1>5. Groeit(q)
    BY <1>1, <1>2, <1>3, <1>4, KomtErbij DEF Groeit, RondeGroeit, Komt, Live
  <1>6. UitEenDocument'
    <2>1. \A t \in Templates \ {t0} : Live(t) => rij[Kop(t)].inhoud # {Naam(d)}
      BY <1>1, <1>2 DEF IInv, NaamVrij
    <2>2. /\ rij'[Kop(t0)].inhoud = {Naam(d)} /\ Inhoud(t0)' = <<Categorieen(d), VragenVan(d)>>
      BY <1>3, LiveRijFeit DEF Inhoud
    <2>3. \A t \in Templates \ {t0} : Inhoud(t)' = Inhoud(t)
      BY <1>4 DEF Inhoud
    <2>4. ASSUME NEW t \in Templates, rij'[Kop(t)].stand = "live", t \notin gewijzigd'
          PROVE  \E e \in Documenten :
                   /\ DocumentGoed(e) /\ rij'[Kop(t)].inhoud = {Naam(e)}
                   /\ Inhoud(t)' = <<Categorieen(e), VragenVan(e)>>
      <3>1. CASE t = t0
        BY <1>2, <2>2, <3>1
      <3>2. CASE t # t0
        BY <1>4, <2>3, <2>4, <3>2, KomtErbij DEF IInv, Vast, UitEenDocument
      <3> QED BY <3>1, <3>2
    <2>5. ASSUME NEW t \in Templates, NEW u \in Templates, rij'[Kop(t)].stand = "live",
                 rij'[Kop(u)].stand = "live", rij'[Kop(t)].inhoud = rij'[Kop(u)].inhoud
          PROVE  t = u
      <3>1. CASE t # t0 /\ u # t0
        BY <1>4, <2>5, <3>1 DEF IInv, Vast, UitEenDocument
      <3>2. CASE t = t0 \/ u = t0
        BY <1>4, <2>1, <2>2, <2>5, <3>2 DEF Live
      <3> QED BY <3>1, <3>2
    <2> QED BY <2>4, <2>5 DEF UitEenDocument
  <1>7. \A r \in Rondes : ~ Start(q, r)
    BY VragenlijstenGeen DEF ImportGoed, Start
  <1>8. \A r \in Rondes : rij[Run(r)].status \in Gestart => rij[Run(r)].van # t0
    <2>1. ASSUME NEW r \in Rondes, rij[Run(r)].status \in Gestart
          PROVE  Live(rij[Run(r)].van)
      BY <2>1, VragenlijstenGeen DEF IInv, Vast, RondeGoed, Gestart
    <2> QED BY <1>2, <2>1
  <1>9. \A t \in Templates \ {t0} : Inhoud(t)' = Inhoud(t)
    BY <1>4 DEF Inhoud
  <1> QED BY <1>4, <1>5, <1>6, <1>7, <1>8, <1>9 DEF Houdt

LEMMA KomtGoed ==
    ASSUME IInv, NEW q \in Verzoeken, Voltooit(q)
    PROVE  IInv'
  <1>1. Komt(q)
    BY KomtFeit DEF Voltooit
  <1>2. ~ LeesGoed(q)
    BY <1>1 DEF LeesGoed, Komt
  <1>3. Houdt(q)
    BY <1>1, <1>2, HaalKomt, StatusKomt, MaakKomt, WijzigKomt, ImportKomt DEF IInv, Lokaal, Komt
  <1> QED BY <1>1, <1>3, VoltooitGoed

-----------------------------------------------------------------------------
(* The invariant.                                                          *)

LEMMA IInvBegin ==
    ASSUME Init
    PROVE  IInv
  <1>1. /\ Vorm
        /\ \A q \in Verzoeken : verzoek[q].pc = "nieuw" /\ Geschreven(q) = {}
    <2>1. IsVerzoek(NieuwVerzoek) /\ NieuwVerzoek.pc = "nieuw" /\ DOMAIN NieuwVerzoek.schrijf = {}
      BY LeegDomein DEF IsVerzoek, NieuwVerzoek
    <2> QED BY <2>1 DEF Init, Vorm, Geschreven
  <1>2. Functies
    BY VragenlijstenBegin DEF Init, Functies
  <1>3. GeenRij.stand = "geen" /\ GeenRij.status = Geen /\ IsRij(GeenRij)
    BY DEF GeenRij, IsRij
  <1>4. ASSUME NEW r \in Rondes
        PROVE  RondeGoed(r) /\ Uitgezet(r)
    <2>1. CASE rij[Run(r)] = GeenRij
      BY <1>3, <2>1, VragenlijstenGeen DEF Init, RondeGoed, Uitgezet, Gestart
    <2>2. CASE \E t \in Templates :
                 /\ rij[Run(r)] = LiveRij(t, "draft", {})
                 /\ Live(t) /\ Uitvraagbaar(rij[Vra(t)].inhoud)
      BY <2>2, LiveRijFeit DEF Init, RondeGoed, Uitgezet, Gestart
    <2> QED BY <2>1, <2>2, VragenlijstenBegin DEF Init, Live
  <1>5. UitEenDocument
    <2>1. ASSUME NEW t \in Templates, Live(t)
          PROVE  \E d \in Documenten :
                   /\ DocumentGoed(d)
                   /\ rij[Kop(t)].inhoud = {Naam(d)} /\ Inhoud(t) = <<Categorieen(d), VragenVan(d)>>
                   /\ \A u \in Templates \ {t} : rij[Kop(u)].inhoud # {Naam(d)}
      <3>1. rij[Kop(t)] # GeenRij
        BY <1>3, <2>1 DEF Live
      <3>2. PICK d \in Documenten :
              /\ DocumentGoed(d)
              /\ rij[Kop(t)] = LiveRij(t, Geen, {Naam(d)})
              /\ rij[Cat(t)] = LiveRij(t, Geen, Categorieen(d))
              /\ rij[Vra(t)] = LiveRij(t, Geen, VragenVan(d))
              /\ \A u \in Templates \ {t} : rij[Kop(u)].inhoud # {Naam(d)}
        BY <3>1, VragenlijstenBegin DEF Init
      <3> QED BY <3>2, LiveRijFeit DEF Inhoud
    <2> QED BY <2>1 DEF UitEenDocument, Live
  <1>6. \A q \in Verzoeken : q \notin Lopend /\ ~ Benoemt(q)
    BY <1>1 DEF Lopend, Benoemt
  <1>7. \A q \in Verzoeken : Lokaal(q) /\ Alleen(q) /\ NaamVrij(q)
    BY <1>1, <1>6 DEF Lokaal, Alleen, NaamVrij
  <1> QED BY <1>1, <1>2, <1>4, <1>5, <1>7 DEF IInv, Vast

LEMMA MisluktGoed ==
    ASSUME IInv, NEW q \in Verzoeken, Mislukt(q)
    PROVE  IInv'
  BY WegGoed DEF Mislukt, Rollback, Erna, Stil, Rust

LEMMA StilGoed ==
    ASSUME IInv, UNCHANGED vars
    PROVE  IInv'
  <1>1. /\ \A q : /\ In(q)' = In(q) /\ Geschreven(q)' = Geschreven(q)
                  /\ \A k : Wordt(q, k)' = Wordt(q, k)
        /\ Lopend' = Lopend /\ verzoek' = verzoek /\ rij' = rij
    BY DEF vars, In, Geschreven, Wordt, Lopend
  <1>2. Vorm' /\ Vast' /\ Functies'
    BY VastBlijft DEF vars, Stil, IInv, Vorm
  <1>3. ASSUME NEW q \in Verzoeken
        PROVE  Lokaal(q)'
    <2>1. Lokaal(q)
      BY DEF IInv
    <2>2. ImportRijen(q)' = ImportRijen(q)
      BY <1>1 DEF ImportRijen
    <2> QED BY <1>1, <2>1, <2>2 DEF Lokaal, ImportGoed, LeesGoed, MaakGoed, StatusGoed, HaalGoed,
        WijzigGoed, Importeert, Maakt, Live, vars
  <1>4. ASSUME NEW q \in Verzoeken
        PROVE  Alleen(q)' /\ NaamVrij(q)'
    <2>1. Alleen(q) /\ NaamVrij(q)
      BY DEF IInv
    <2> QED BY <1>1, <2>1 DEF Alleen, NaamVrij, Importeert, Maakt, Benoemt, Live
  <1> QED BY <1>2, <1>3, <1>4 DEF IInv

LEMMA IInvStap ==
    ASSUME IInv, [Next]_vars
    PROVE  IInv'
  <1>1. CASE UNCHANGED vars
    BY <1>1, StilGoed
  <1>2. ASSUME NEW q \in Verzoeken,
               \/ \E op \in {"importeer", "seed"}, d \in Documenten, t \in Templates : Importeer(q, op, d, t)
               \/ ZoekTemplate(q) \/ MaakTemplate(q) \/ MaakCategorieen(q) \/ MaakVragen(q)
        PROVE  IInv'
    BY <1>2, ImporteerGoed, ZoekTemplateGoed, MaakTemplateGoed, MaakCategorieenGoed, MaakVragenGoed
  <1>3. ASSUME NEW q \in Verzoeken,
               \/ \E t \in Templates : Exporteer(q, t) \/ Detail(q, t)
               \/ LeesCategorieen(q) \/ LeesVragen(q)
        PROVE  IInv'
    BY <1>3, ExporteerGoed, DetailGoed, LeesCategorieenGoed, LeesVragenGoed
  <1>4. ASSUME NEW q \in Verzoeken,
               \/ \E t \in Templates, r \in Rondes : MaakRonde(q, t, r)
               \/ TelVragen(q) \/ SchrijfRonde(q)
               \/ \E r \in Rondes, s \in STATUSSEN : WijzigStatus(q, r, s)
               \/ \E r \in Rondes : Archiveer(q, r)
               \/ SchrijfStatus(q)
               \/ \E r \in Rondes : HaalVragenlijst(q, r)
        PROVE  IInv'
    BY <1>4, MaakRondeGoed, TelVragenGoed, SchrijfRondeGoed, WijzigStatusGoed, ArchiveerGoed,
       SchrijfStatusGoed, HaalVragenlijstGoed
  <1>5. ASSUME NEW q \in Verzoeken,
               \/ \E t, doel \in Templates : Wijziging(q, t, doel)
               \/ VraagWeg(q) \/ VraagErbij(q) \/ VraagVerplaatst(q) \/ VraagGeweigerd(q)
        PROVE  IInv'
    BY <1>5, WijzigingGoed, WijzigStapGoed
  <1>6. ASSUME NEW q \in Verzoeken, Voltooit(q) \/ Mislukt(q)
        PROVE  IInv'
    BY <1>6, KomtGoed, MisluktGoed
  <1> QED BY <1>1, <1>2, <1>3, <1>4, <1>5, <1>6 DEF Next

(* The inductive invariant holds in every reachable state: what open       *)
(* requests may still write is known, a round has a live template with a   *)
(* question, and a started round is as it was but for the noted ways.      *)
THEOREM VragenlijstenInvariant == Spec => []IInv
  BY IInvBegin, IInvStap, PTL DEF Spec

LEMMA VastGeeftRonde ==
    ASSUME IInv
    PROVE  LopendeRondeVast
  <1> SUFFICES ASSUME NEW r \in Rondes, bijStart[r] # Geen
               PROVE  LET t == rij[Run(r)].van IN
                      /\ Inhoud(t) = bijStart[r] \/ r \in onderweg \/ t \in verplaatst
                      /\ Cardinality(getoond[r]) <= 1 \/ r \in onderweg \/ t \in verplaatst
                      /\ Uitvraagbaar(bijStart[r][2]) \/ t \in gewijzigd
    BY DEF LopendeRondeVast
  <1>1. rij[Run(r)].status \in Gestart /\ Uitgezet(r)
    BY DEF IInv, Vast, Uitgezet
  <1>2. Cardinality(getoond[r]) <= 1 \/ Uitgezonderd(r)
    <2>1. CASE ~ Uitgezonderd(r)
      <3> DEFINE S == {Vragenlijst(bijStart[r][1], bijStart[r][2])}
      <3>1. getoond[r] \in SUBSET S
        BY <1>1, <2>1 DEF Uitgezet
      <3>2. IsFiniteSet(S) /\ Cardinality(S) = 1
        BY FS_Singleton
      <3> HIDE DEF S
      <3>3. Cardinality(getoond[r]) <= Cardinality(S)
        BY <3>1, <3>2, FS_Subset
      <3> QED BY <3>2, <3>3
    <2> QED BY <2>1
  <1> QED BY <1>1, <1>2 DEF Uitgezet, Uitgezonderd

(* What a started round has put out stays as it was, and all its suppliers *)
(* are shown the same, except by a change that was open when it started or *)
(* that moved a question to another template.                              *)
THEOREM RondeBlijftVast == Spec => []LopendeRondeVast
  BY VragenlijstenInvariant, VastGeeftRonde, PTL

(* A template that no SQL changed is one whole document that passed the    *)
(* validation, and no two templates share a name and version, however      *)
(* imports overlap and wherever they stop.                                 *)
THEOREM SjablonenHeel == Spec => []UitEenDocument
  <1>1. IInv => UitEenDocument
    BY DEF IInv, Vast
  <1> QED BY <1>1, VragenlijstenInvariant, PTL

-----------------------------------------------------------------------------
(* Exports and screens.  A reader's statements see what is committed; only *)
(* a change by SQL touches a template that is there, and that is noted.    *)

Leest(q) == q \in Lopend /\ verzoek[q].op \in {"exporteer", "detail"}

LeesVast(q) ==
    LET t == In(q).template IN
    Leest(q) /\ q \notin verstoord =>
        /\ verzoek[q].pc = "leesVragen" => In(q).categorieen = rij[Cat(t)].inhoud
        /\ verzoek[q].op = "detail" =>
             In(q).aantal = Cardinality(ZonderInstructies(rij[Vra(t)].inhoud))

UitvoerVast(q) ==
    LET d == uitvoer[q].document IN
    uitvoer[q] # Geen /\ q \notin verstoord =>
        /\ d = ExportDocument(<<d.name, d.version>>, uitvoer[q].categorieen, uitvoer[q].vragen)
        /\ uitvoer[q].soort = "detail" =>
             uitvoer[q].aantal = Cardinality(ZonderInstructies(uitvoer[q].vragen))

UInv ==
    /\ uitvoer = [q \in Verzoeken |-> uitvoer[q]]
    /\ \A q \in Verzoeken : LeesVast(q) /\ UitvoerVast(q)

LEMMA UInvBegin ==
    ASSUME Init
    PROVE  UInv
  <1>1. \A q \in Verzoeken : verzoek[q].pc = "nieuw" /\ uitvoer[q] = Geen
    BY DEF Init, NieuwVerzoek
  <1>2. \A q \in Verzoeken : ~ Leest(q)
    BY <1>1 DEF Leest, Lopend
  <1> QED BY <1>1, <1>2 DEF UInv, LeesVast, UitvoerVast, Init

(* The step of a request that changes no row and hands out nothing.        *)
LEMMA LezersStil ==
    ASSUME UInv, NEW q \in Verzoeken, Anders(q), UNCHANGED <<rij, uitvoer, verstoord>>, LeesVast(q)'
    PROVE  UInv'
  <1>1. ASSUME NEW p \in Verzoeken, p # q
        PROVE  LeesVast(p)'
    <2>1. verzoek'[p] = verzoek[p] /\ LeesVast(p)
      BY <1>1 DEF Anders, UInv
    <2> QED BY <2>1 DEF LeesVast, Leest, Lopend, In
  <1>2. \A p \in Verzoeken : UitvoerVast(p)'
    BY DEF UInv, UitvoerVast
  <1> QED BY <1>1, <1>2 DEF UInv

(* Who reads is at one of the two SELECTs.                                 *)
LEMMA NietLezer ==
    ASSUME IInv', NEW q \in Verzoeken, verzoek'[q].pc \notin {"leesCategorieen", "leesVragen"}
    PROVE  ~ Leest(q)' /\ LeesVast(q)'
  <1>1. ~ LeesGoed(q)'
    BY DEF LeesGoed
  <1>2. ~ Leest(q)'
    BY <1>1 DEF IInv, Lokaal, Leest, Importeert, Maakt
  <1> QED BY <1>2 DEF LeesVast

LEMMA AndersStil ==
    ASSUME IInv', UInv, NEW q \in Verzoeken, Anders(q), UNCHANGED <<rij, uitvoer, verstoord>>,
           verzoek'[q].pc \notin {"leesCategorieen", "leesVragen"}
    PROVE  UInv'
  BY NietLezer, LezersStil

(* A COMMIT leaves the template of a reader alone, or the reader is noted. *)
LEMMA LezerOngestoord ==
    ASSUME IInv, NEW q \in Verzoeken, Voltooit(q), Komt(q), NEW p \in Verzoeken, Leest(p),
           p \notin verstoord'
    PROVE  LET t == In(p).template IN rij'[Cat(t)] = rij[Cat(t)] /\ rij'[Vra(t)] = rij[Vra(t)]
  <1>1. LeesGoed(p) /\ ~ LeesGoed(q)
    BY DEF IInv, Lokaal, Leest, Importeert, Maakt, Komt, LeesGoed
  <1>2. PICK t \in Templates : t = In(p).template /\ Live(t)
    BY <1>1 DEF LeesGoed
  <1>3. t \notin Wijzigt(q)
    BY <1>2 DEF Voltooit, Leest
  <1>4. Cat(t) \notin Geschreven(q) /\ Vra(t) \notin Geschreven(q)
    <2>1. CASE Importeert(q) /\ ImportGoed(q)
      <3>1. Geschreven(q) \subseteq {Kop(In(q).template), Cat(In(q).template), Vra(In(q).template)}
        BY <2>1 DEF ImportGoed, ImportRijen
      <3>2. In(q).template # t
        BY <1>2, <2>1 DEF ImportGoed
      <3> QED BY <3>1, <3>2, Sleutels
    <2>2. CASE MaakGoed(q) \/ StatusGoed(q) \/ HaalGoed(q)
      <3>1. Geschreven(q) \subseteq {Run(In(q).ronde)}
        BY <2>2 DEF MaakGoed, StatusGoed, HaalGoed
      <3> QED BY <3>1, Sleutels
    <2>3. CASE verzoek[q].op = "wijzig" /\ WijzigGoed(q)
      <3>1. Vra(t) \notin Geschreven(q)
        BY <1>3, <2>3 DEF Wijzigt, Geschreven
      <3>2. /\ Vra(In(q).template) \in Geschreven(q)
            /\ Geschreven(q) \subseteq IF In(q).template = In(q).doel
                                       THEN {Cat(In(q).template), Vra(In(q).template)}
                                       ELSE {Vra(In(q).template), Vra(In(q).doel)}
        BY <2>3 DEF WijzigGoed, Komt
      <3> QED BY <3>1, <3>2, Sleutels
    <2> QED BY <1>1, <2>1, <2>2, <2>3 DEF IInv, Lokaal, Komt
  <1> QED BY <1>2, <1>4, Sleutels DEF Komt

LEMMA KomtUit ==
    ASSUME IInv, IInv', UInv, NEW q \in Verzoeken, Voltooit(q)
    PROVE  UInv'
  <1>1. Komt(q)
    BY KomtFeit DEF Voltooit
  <1>2. verstoord \subseteq verstoord' /\ uitvoer' = uitvoer
    BY DEF Voltooit
  <1>3. ASSUME NEW p \in Verzoeken
        PROVE  LeesVast(p)'
    <2>1. CASE p = q
      BY <1>1, <2>1 DEF Komt, LeesVast, Leest
    <2>2. CASE p # q /\ Leest(p)' /\ p \notin verstoord'
      <3>1. verzoek'[p] = verzoek[p] /\ Leest(p) /\ LeesVast(p)
        BY <1>1, <2>2 DEF Komt, Anders, Leest, Lopend, UInv
      <3>2. LET t == In(p).template IN rij'[Cat(t)] = rij[Cat(t)] /\ rij'[Vra(t)] = rij[Vra(t)]
        BY <1>1, <2>2, <3>1, LezerOngestoord
      <3> QED BY <1>2, <2>2, <3>1, <3>2 DEF LeesVast, In
    <2> QED BY <2>1, <2>2 DEF LeesVast
  <1>4. \A p \in Verzoeken : UitvoerVast(p)'
    BY <1>2 DEF UInv, UitvoerVast
  <1> QED BY <1>2, <1>3, <1>4 DEF UInv

LEMMA OpentUit ==
    ASSUME IInv, UInv, NEW q \in Verzoeken, NEW t \in Templates, Exporteer(q, t) \/ Detail(q, t)
    PROVE  UInv'
  <1>1. CASE Exporteer(q, t)
    <2>1. Begon(q, "exporteer", In(q)', "leesCategorieen") /\ UNCHANGED <<rij, uitvoer, verstoord>>
      BY <1>1, BegonFeit DEF Exporteer, Begon, Blijft, Erna
    <2>2. LeesVast(q)'
      BY <2>1 DEF LeesVast, Begon
    <2> QED BY <2>1, <2>2, LezersStil DEF Begon
  <1>2. CASE Detail(q, t)
    <2> DEFINE n == Cardinality(ZonderInstructies(rij[Vra(t)].inhoud))
               v == [Vraagt EXCEPT !.template = t, !.aantal = n]
    <2>1. Begon(q, "detail", v, "leesCategorieen") /\ UNCHANGED <<rij, uitvoer, verstoord>>
      BY <1>2, BegonFeit DEF Detail, Blijft, Erna
    <2>2. v.template = t /\ v.aantal = n
      BY DEF Vraagt
    <2> HIDE DEF v
    <2>3. LeesVast(q)'
      BY <2>1, <2>2 DEF LeesVast, Begon
    <2> QED BY <2>1, <2>3, LezersStil DEF Begon
  <1> QED BY <1>1, <1>2

LEMMA LeesCategorieenUit ==
    ASSUME IInv, UInv, NEW q \in Verzoeken, LeesCategorieen(q)
    PROVE  UInv'
  <1>1. /\ Anders(q) /\ UNCHANGED <<rij, uitvoer, verstoord>>
        /\ Leest(q) /\ verzoek'[q].op = verzoek[q].op /\ (In(q).template)' = In(q).template
        /\ (In(q).aantal)' = In(q).aantal
        /\ (In(q).categorieen)' = rij[Cat(In(q).template)].inhoud
    BY LeesCategorieenFeit DEF Leest, LeesCategorieen, Blijft, Erna
  <1>2. LeesVast(q)
    BY DEF UInv
  <1>3. LeesVast(q)'
    BY <1>1, <1>2 DEF LeesVast
  <1> QED BY <1>1, <1>3, LezersStil

LEMMA LeesVragenUit ==
    ASSUME IInv, IInv', UInv, NEW q \in Verzoeken, LeesVragen(q)
    PROVE  UInv'
  <1> DEFINE t == In(q).template
             cs == Ziet(q, Cat(t)).inhoud
             vs == Ziet(q, Vra(t)).inhoud
             naam == CHOOSE n \in Ziet(q, Kop(t)).inhoud : TRUE
             d == ExportDocument(naam, In(q).categorieen, vs)
             uit == [soort |-> verzoek[q].op, template |-> t, aantal |-> In(q).aantal,
                     document |-> d, categorieen |-> cs, vragen |-> vs]
  <1>1. /\ Leest(q) /\ LeesGoed(q) /\ LeesVast(q) /\ verzoek[q].pc = "leesVragen"
        /\ Verder(q, "klaar") /\ rij' = rij /\ verstoord' = verstoord
    BY AanDeBeurt, NaarVerder DEF LeesVragen, Leest, UInv
  <1>2. cs = rij[Cat(t)].inhoud /\ vs = rij[Vra(t)].inhoud
    <2>1. Geschreven(q) = {} /\ Cat(t) \in RijSleutels /\ Vra(t) \in RijSleutels
      BY <1>1, Sleutels DEF LeesGoed
    <2> QED BY <2>1, ZietRij
  <1>3. /\ uitvoer' = [p \in Verzoeken |-> uitvoer'[p]]
        /\ \A p \in Verzoeken : uitvoer'[p] = IF p = q THEN uit ELSE uitvoer[p]
    BY DEF LeesVragen, UInv
  <1>4. d = ExportDocument(<<d.name, d.version>>, In(q).categorieen, vs)
    BY DEF ExportDocument
  <1>5. q \notin verstoord =>
          /\ In(q).categorieen = cs
          /\ verzoek[q].op = "detail" => In(q).aantal = Cardinality(ZonderInstructies(vs))
    BY <1>1, <1>2 DEF LeesVast
  <1> HIDE DEF d, cs, vs
  <1>6. UitvoerVast(q)'
    <2>1. /\ uit.soort = verzoek[q].op /\ uit.aantal = In(q).aantal /\ uit.document = d
          /\ uit.categorieen = cs /\ uit.vragen = vs
      OBVIOUS
    <2> HIDE DEF uit
    <2> QED BY <1>1, <1>3, <1>4, <1>5, <2>1 DEF UitvoerVast
  <1>7. \A p \in Verzoeken : UitvoerVast(p)'
    <2>1. \A p \in Verzoeken \ {q} : uitvoer'[p] = uitvoer[p] /\ UitvoerVast(p)
      BY <1>3 DEF UInv
    <2> QED BY <1>1, <1>6, <2>1 DEF UitvoerVast
  <1>8. ASSUME NEW p \in Verzoeken
        PROVE  LeesVast(p)'
    <2>1. CASE p = q
      BY <1>1, <2>1, NietLezer DEF Verder
    <2>2. CASE p # q
      <3>1. verzoek'[p] = verzoek[p] /\ LeesVast(p)
        BY <1>1, <2>2 DEF Verder, Anders, UInv
      <3> QED BY <1>1, <3>1 DEF LeesVast, Leest, Lopend, In
    <2> QED BY <2>1, <2>2
  <1> QED BY <1>3, <1>7, <1>8 DEF UInv

LEMMA UInvStap ==
    ASSUME IInv, IInv', UInv, [Next]_vars
    PROVE  UInv'
  <1>1. CASE UNCHANGED vars
    <2>1. \A q \in Verzoeken : LeesVast(q) /\ UitvoerVast(q)
      BY DEF UInv
    <2> QED BY <1>1, <2>1 DEF UInv, vars, LeesVast, UitvoerVast, Leest, Lopend, In
  <1>2. ASSUME NEW q \in Verzoeken, NEW op, NEW v, NEW pc, Begint(q, op, v, pc),
               pc \notin {"leesCategorieen", "leesVragen"}, UNCHANGED <<rij, uitvoer, verstoord>>
        PROVE  UInv'
    BY <1>2, BegonFeit, AndersStil DEF Begon
  <1>3. ASSUME NEW q \in Verzoeken, NEW pc, Naar(q, pc),
               pc \notin {"leesCategorieen", "leesVragen"}, UNCHANGED <<rij, uitvoer, verstoord>>
        PROVE  UInv'
    BY <1>3, NaarVerder, AndersStil DEF Verder
  <1>4. ASSUME NEW q \in Verzoeken, NEW R, NEW wordt, NEW pc, Schrijft(q, R, wordt, pc),
               pc \notin {"leesCategorieen", "leesVragen"}, UNCHANGED <<rij, uitvoer, verstoord>>
        PROVE  UInv'
    BY <1>4, SchreefFeit, AndersStil DEF Schreef
  <1>5. ASSUME NEW q \in Verzoeken, NEW uitkomst \in Rust,
               verzoek' = [verzoek EXCEPT ![q] = [NieuwVerzoek EXCEPT !.pc = uitkomst]],
               UNCHANGED <<rij, uitvoer, verstoord>>
        PROVE  UInv'
    <2>1. Anders(q) /\ verzoek'[q].pc = uitkomst
      BY <1>5, EindeFeit DEF IInv
    <2> QED BY <1>5, <2>1, AndersStil DEF Rust
  <1>6. ASSUME NEW q \in Verzoeken, Weigert(q), UNCHANGED <<rij, uitvoer, verstoord>>
        PROVE  UInv'
    BY <1>5, <1>6 DEF Weigert, Rust
  <1>7. ASSUME NEW q \in Verzoeken,
               \/ \E op \in {"importeer", "seed"}, d \in Documenten, t \in Templates : Importeer(q, op, d, t)
               \/ ZoekTemplate(q) \/ MaakTemplate(q) \/ MaakCategorieen(q) \/ MaakVragen(q)
        PROVE  UInv'
    <2>1. CASE \E op \in {"importeer", "seed"}, d \in Documenten, t \in Templates : Importeer(q, op, d, t)
      BY <1>2, <1>6, <2>1 DEF Importeer, Blijft, Erna
    <2>2. CASE ZoekTemplate(q)
      BY <1>3, <1>6, <2>2 DEF ZoekTemplate, Blijft, Erna
    <2>3. CASE MaakTemplate(q)
      BY <1>4, <1>5, <2>3 DEF MaakTemplate, Blijft, Erna, Rust
    <2>4. CASE MaakCategorieen(q)
      BY <1>4, <2>4 DEF MaakCategorieen, Blijft, Erna
    <2>5. CASE MaakVragen(q)
      BY <1>4, <2>5 DEF MaakVragen, Blijft, Erna
    <2> QED BY <1>7, <2>1, <2>2, <2>3, <2>4, <2>5
  <1>8. ASSUME NEW q \in Verzoeken,
               \/ \E t \in Templates, r \in Rondes : MaakRonde(q, t, r)
               \/ TelVragen(q) \/ SchrijfRonde(q)
               \/ \E r \in Rondes, s \in STATUSSEN : WijzigStatus(q, r, s)
               \/ \E r \in Rondes : Archiveer(q, r)
               \/ SchrijfStatus(q)
               \/ \E r \in Rondes : HaalVragenlijst(q, r)
        PROVE  UInv'
    <2>1. CASE \E t \in Templates, r \in Rondes : MaakRonde(q, t, r)
      BY <1>2, <2>1 DEF MaakRonde, Blijft, Erna
    <2>2. CASE TelVragen(q)
      BY <1>3, <1>6, <2>2 DEF TelVragen, Blijft, Erna
    <2>3. CASE SchrijfRonde(q)
      BY <1>4, <2>3 DEF SchrijfRonde, Blijft, Erna
    <2>4. CASE \E r \in Rondes, s \in STATUSSEN : WijzigStatus(q, r, s)
      BY <1>2, <2>4 DEF WijzigStatus, Blijft, Erna
    <2>5. CASE \E r \in Rondes : Archiveer(q, r)
      BY <1>2, <2>5 DEF Archiveer, Blijft, Erna
    <2>6. CASE SchrijfStatus(q)
      BY <1>4, <2>6 DEF SchrijfStatus, Blijft, Erna
    <2>7. CASE \E r \in Rondes : HaalVragenlijst(q, r)
      BY <1>2, <2>7 DEF HaalVragenlijst
    <2> QED BY <1>8, <2>1, <2>2, <2>3, <2>4, <2>5, <2>6, <2>7
  <1>9. ASSUME NEW q \in Verzoeken,
               \/ \E t, doel \in Templates : Wijziging(q, t, doel)
               \/ VraagWeg(q) \/ VraagErbij(q) \/ VraagVerplaatst(q) \/ VraagGeweigerd(q)
        PROVE  UInv'
    <2>1. CASE \E t, doel \in Templates : Wijziging(q, t, doel)
      BY <1>2, <2>1 DEF Wijziging, Blijft, Erna
    <2>2. CASE VraagWeg(q)
      BY <1>4, <2>2 DEF VraagWeg, Blijft, Erna
    <2>3. CASE VraagErbij(q)
      BY <1>4, <2>3 DEF VraagErbij, Blijft, Erna
    <2>4. CASE VraagVerplaatst(q)
      BY <1>4, <2>4 DEF VraagVerplaatst, Blijft, Erna
    <2>5. CASE VraagGeweigerd(q)
      BY <1>6, <2>5 DEF VraagGeweigerd, Blijft, Erna
    <2> QED BY <1>9, <2>1, <2>2, <2>3, <2>4, <2>5
  <1>10. ASSUME NEW q \in Verzoeken,
                \/ \E t \in Templates : Exporteer(q, t) \/ Detail(q, t)
                \/ LeesCategorieen(q) \/ LeesVragen(q)
         PROVE  UInv'
    BY <1>10, OpentUit, LeesCategorieenUit, LeesVragenUit
  <1>11. ASSUME NEW q \in Verzoeken, Voltooit(q) \/ Mislukt(q)
         PROVE  UInv'
    <2>1. CASE Mislukt(q)
      BY <1>5, <2>1 DEF Mislukt, Rollback, Erna, Rust
    <2> QED BY <1>11, <2>1, KomtUit
  <1> QED BY <1>1, <1>7, <1>8, <1>9, <1>10, <1>11 DEF Next

(* An export or a screen shows a template as it was at one moment, unless  *)
(* a change by SQL committed between its SELECTs; imports, rounds and      *)
(* other requests never disturb it.                                        *)
THEOREM UitvoerHeel == Spec => []UitvoerEenMoment
  <1>1. UInv => UitvoerEenMoment
    BY DEF UInv, UitvoerVast, UitvoerEenMoment
  <1> QED BY <1>1, UInvBegin, UInvStap, VragenlijstenInvariant, PTL DEF Spec

-----------------------------------------------------------------------------
(* What is exported reads back: the rows in the order of their positions,  *)
(* the keys of the categories, and the document they make.                 *)

(* A set of numbers has a first one.                                       *)
LEMMA EersteGetal ==
    ASSUME NEW T \in SUBSET Nat, T # {}
    PROVE  \E x \in T : \A y \in T : x <= y
  <1>1. PICK x \in T : \A y \in T : <<y, x>> \notin OpToRel(<, Nat)
    BY WFMin, NatLessThanWellFounded
  <1>2. ASSUME NEW y \in T
        PROVE  x <= y
    <2>1. <<y, x>> \in Nat \X Nat /\ <<y, x>>[1] = y /\ <<y, x>>[2] = x
      OBVIOUS
    <2>2. ~ (y < x)
      BY <1>1, <2>1 DEF OpToRel
    <2> QED BY <2>2
  <1> QED BY <1>2

(* Rows with positions of their own.                                       *)
Geordend(S) ==
    /\ IsFiniteSet(S)
    /\ \A x \in S : x.position \in Int
    /\ \A x, y \in S : x.position = y.position => x = y

Rang(S, x) == Cardinality({y \in S : y.position < x.position})

LEMMA RangFeit ==
    ASSUME NEW S, Geordend(S)
    PROVE  /\ \A x \in S : Rang(S, x) \in 0..Cardinality(S) - 1
           /\ \A x, y \in S : x.position < y.position => Rang(S, x) < Rang(S, y)
  <1> DEFINE onder(x) == {y \in S : y.position < x.position}
  <1>1. ASSUME NEW x \in S
        PROVE  IsFiniteSet(onder(x)) /\ Rang(S, x) \in 0..Cardinality(S) - 1
    <2>1. onder(x) \in SUBSET S /\ x \notin onder(x)
      BY DEF Geordend
    <2>2. /\ IsFiniteSet(onder(x)) /\ Cardinality(onder(x)) <= Cardinality(S)
          /\ Cardinality(onder(x)) # Cardinality(S)
      BY <2>1, FS_Subset DEF Geordend
    <2>3. Cardinality(S) \in Nat /\ Cardinality(onder(x)) \in Nat
      BY <2>2, FS_CardinalityType DEF Geordend
    <2> HIDE DEF onder
    <2>4. Cardinality(onder(x)) \in 0..Cardinality(S) - 1
      BY <2>2, <2>3
    <2> QED BY <2>2, <2>4 DEF Rang, onder
  <1>2. ASSUME NEW x \in S, NEW y \in S, x.position < y.position
        PROVE  Rang(S, x) < Rang(S, y)
    <2>1. onder(x) \in SUBSET onder(y) /\ x \in onder(y) /\ x \notin onder(x)
      BY <1>2 DEF Geordend
    <2>2. Cardinality(onder(x)) <= Cardinality(onder(y)) /\ Cardinality(onder(x)) # Cardinality(onder(y))
      BY <1>1, <2>1, FS_Subset
    <2>3. Cardinality(onder(x)) \in Nat /\ Cardinality(onder(y)) \in Nat
      BY <1>1, FS_CardinalityType
    <2> HIDE DEF onder
    <2>4. Cardinality(onder(x)) < Cardinality(onder(y))
      BY <2>2, <2>3
    <2> QED BY <2>4 DEF Rang, onder
  <1> QED BY <1>1, <1>2

LEMMA OpPositieFeit ==
    ASSUME NEW S, Geordend(S)
    PROVE  /\ Cardinality(S) \in Nat
           /\ OpPositie(S) \in Seq(S) /\ Len(OpPositie(S)) = Cardinality(S)
           /\ DOMAIN OpPositie(S) = 1..Cardinality(S)
           /\ ToSet(OpPositie(S)) = S
           /\ \A i, j \in 1..Cardinality(S) : OpPositie(S)[i] = OpPositie(S)[j] => i = j
  <1> DEFINE n == Cardinality(S)
             r == [x \in S |-> Rang(S, x)]
             s == OpPositie(S)
  <1>0. n \in Nat /\ IsFiniteSet(S)
    BY FS_CardinalityType DEF Geordend
  <1>1. r \in Injection(S, 0..n - 1)
    <2>1. r \in [S -> 0..n - 1]
      BY RangFeit
    <2>2. \A x, y \in S : r[x] = r[y] => x = y
      <3>1. ASSUME NEW x \in S, NEW y \in S, Rang(S, x) = Rang(S, y)
            PROVE  x = y
        <4>1. ~ (x.position < y.position) /\ ~ (y.position < x.position)
          BY <3>1, RangFeit
        <4> QED BY <4>1 DEF Geordend
      <3> QED BY <3>1
    <2> HIDE DEF r
    <2> QED BY <2>1, <2>2 DEF Injection, IsInjective
  <1>2. r \in Surjection(S, 0..n - 1)
    <2>1. IsFiniteSet(0..n - 1) /\ Cardinality(0..n - 1) = n
      BY <1>0, FS_Interval
    <2> QED BY <1>1, <2>1, FS_Injection
  <1>3. \A i \in 1..n : \E x \in S : Rang(S, x) = i - 1
    <2>1. \A i \in 0..n - 1 : \E x \in S : r[x] = i
      BY <1>2 DEF Surjection
    <2> SUFFICES ASSUME NEW i \in 1..n PROVE \E x \in S : Rang(S, x) = i - 1
      OBVIOUS
    <2>2. i - 1 \in 0..n - 1
      BY <1>0
    <2> QED BY <2>1, <2>2
  <1>4. s = [i \in 1..n |-> CHOOSE x \in S : Rang(S, x) = i - 1]
    BY DEF OpPositie, Rang
  <1>5. ASSUME NEW i \in 1..n
        PROVE  s[i] \in S /\ Rang(S, s[i]) = i - 1
    <2>1. s[i] = CHOOSE x \in S : Rang(S, x) = i - 1
      BY <1>4
    <2> QED BY <1>3, <2>1
  <1>6. \A i, j \in 1..n : s[i] = s[j] => i = j
    BY <1>0, <1>5
  <1>7. s \in [1..n -> S] /\ DOMAIN s = 1..n
    BY <1>4, <1>5
  <1>8. s \in Seq(S) /\ Len(s) = n
    <2> HIDE DEF s, n
    <2> QED BY <1>0, <1>7
  <1>9. ToSet(s) = S
    <2>1. ToSet(s) \subseteq S
      BY <1>5, <1>7 DEF ToSet
    <2>2. ASSUME NEW x \in S
          PROVE  x \in ToSet(s)
      <3>1. r[x] \in 0..n - 1
        BY RangFeit
      <3>2. PICK i \in 1..n : i - 1 = Rang(S, x)
        BY <1>0, <3>1
      <3>3. s[i] \in S /\ Rang(S, s[i]) = Rang(S, x)
        BY <1>5, <3>2
      <3>4. s[i] = x
        <4>1. r[s[i]] = r[x]
          BY <3>3
        <4> HIDE DEF r
        <4> QED BY <1>1, <3>3, <4>1 DEF Injection, IsInjective
      <3> QED BY <1>7, <3>4 DEF ToSet
    <2> QED BY <2>1, <2>2
  <1> QED BY <1>0, <1>6, <1>7, <1>8, <1>9

(* Categories whose names have a key.                                      *)
Benoemd(cs) == cs \in Seq(ToSet(cs)) /\ \A i \in DOMAIN cs : cs[i].name \in DOMAIN Slug

SleutelRij(s, n) ==
    /\ s \in Seq(Seq(Sleuteldelen)) /\ Len(s) = n
    /\ \A i, j \in 1..n : s[i] = s[j] => i = j

(* Behind a key there is a number that makes it new.                       *)
LEMMA VrijeSleutelFeit ==
    ASSUME NEW i \in Nat, NEW s, SleutelRij(s, i), NEW b \in Seq(Sleuteldelen),
           NEW n \in Nat, i < n
    PROVE  LET k == VrijeSleutel(s, b, n) IN k \in Seq(Sleuteldelen) /\ k \notin ToSet(s)
  <1> DEFINE f == [k \in 2..n + 1 |-> Append(b, k)]
             vrij == {k \in 2..n + 1 : Append(b, k) \notin ToSet(s)}
  <1>1. DOMAIN s = 1..i
    BY DEF SleutelRij
  <1>2. IsFiniteSet(ToSet(s)) /\ Cardinality(ToSet(s)) <= i
    <2>1. s \in Surjection(1..i, ToSet(s))
      BY <1>1 DEF SleutelRij, Surjection, ToSet
    <2>2. IsFiniteSet(1..i) /\ Cardinality(1..i) = i
      BY FS_Interval
    <2> QED BY <2>1, <2>2, FS_Surjection
  <1>3. vrij # {}
    <2> SUFFICES ASSUME vrij = {} PROVE FALSE
      OBVIOUS
    <2>1. f \in [2..n + 1 -> ToSet(s)]
      OBVIOUS
    <2>2. IsFiniteSet(2..n + 1) /\ Cardinality(2..n + 1) = n
      BY FS_Interval
    <2>3. Cardinality(ToSet(s)) \in Nat
      BY <1>2, FS_CardinalityType
    <2>4. Cardinality(ToSet(s)) < Cardinality(2..n + 1)
      BY <1>2, <2>2, <2>3
    <2>5. PICK x, y \in 2..n + 1 : x # y /\ f[x] = f[y]
      <3> HIDE DEF f
      <3> QED BY <1>2, <2>1, <2>2, <2>4, FS_PigeonHole
    <2>6. Append(b, x) = Append(b, y)
      BY <2>5
    <2>7. x = Append(b, x)[Len(b) + 1] /\ y = Append(b, y)[Len(b) + 1]
      OBVIOUS
    <2> QED BY <2>5, <2>6, <2>7
  <1>4. Kleinste(vrij) \in vrij
    <2>1. vrij \in SUBSET Nat
      OBVIOUS
    <2>2. \E x \in vrij : \A y \in vrij : x <= y
      <3> HIDE DEF vrij
      <3> QED BY <1>3, <2>1, EersteGetal
    <2> HIDE DEF vrij
    <2> QED BY <2>2 DEF Kleinste
  <1>5. Kleinste(vrij) \in 2..n + 1 /\ Append(b, Kleinste(vrij)) \notin ToSet(s)
    BY <1>4
  <1>6. Append(b, Kleinste(vrij)) \in Seq(Sleuteldelen)
    BY <1>5 DEF Sleuteldelen
  <1>7. VrijeSleutel(s, b, n) = IF b \notin ToSet(s) THEN b ELSE Append(b, Kleinste(vrij))
    BY DEF VrijeSleutel
  <1> HIDE DEF vrij
  <1> QED BY <1>5, <1>6, <1>7

LEMMA ErbijFeit ==
    ASSUME NEW i \in Nat, NEW s, SleutelRij(s, i), NEW k \in Seq(Sleuteldelen), k \notin ToSet(s)
    PROVE  SleutelRij(Append(s, k), i + 1)
  <1>1. Append(s, k) \in Seq(Seq(Sleuteldelen)) /\ Len(Append(s, k)) = i + 1
    BY DEF SleutelRij
  <1>2. \A j \in 1..i : Append(s, k)[j] = s[j] /\ s[j] # k
    BY DEF SleutelRij, ToSet
  <1>3. Append(s, k)[i + 1] = k
    BY DEF SleutelRij
  <1> QED BY <1>1, <1>2, <1>3 DEF SleutelRij

(* The keys of an export are told apart.                                   *)
LEMMA ExportSleutelsFeit ==
    ASSUME NEW cs, Benoemd(cs)
    PROVE  SleutelRij(ExportSleutels(cs), Len(cs))
  <1> DEFINE n == Len(cs)
             erbij(s, i) == Append(s, VrijeSleutel(s, Slug[cs[i].name], n))
             Rij(s, m) == s = [i \in 0..m |-> IF i = 0 THEN <<>> ELSE erbij(s[i - 1], i)]
             zonder == {m \in 0..n : ~ \E s : Rij(s, m)}
  <1>0. n \in Nat /\ DOMAIN cs = 1..n
    BY DEF Benoemd
  <1>1. \E s : Rij(s, n)
    <2> SUFFICES ASSUME zonder # {} PROVE FALSE
      <3>1. n \in 0..n
        BY <1>0
      <3> HIDE DEF Rij, n
      <3> QED BY <3>1
    <2>1. zonder \in SUBSET Nat
      BY <1>0
    <2>2. PICK m \in zonder : \A k \in zonder : m <= k
      <3> HIDE DEF zonder
      <3> QED BY <2>1, EersteGetal
    <2>3. m \in 0..n /\ ~ \E s : Rij(s, m)
      BY <2>2
    <2>4. CASE m = 0
      <3>1. Rij([i \in 0..0 |-> <<>>], 0)
        OBVIOUS
      <3> HIDE DEF Rij
      <3> QED BY <2>3, <2>4, <3>1
    <2>5. CASE m # 0
      <3>1. m - 1 \in 0..n /\ ~ (m <= m - 1)
        BY <1>0, <2>3, <2>5
      <3>2. PICK s : Rij(s, m - 1)
        <4> HIDE DEF Rij
        <4> QED BY <2>2, <3>1
      <3> DEFINE t == [i \in 0..m |-> IF i = m THEN erbij(s[m - 1], m) ELSE s[i]]
      <3>3. \A i \in 0..m - 1 : s[i] = IF i = 0 THEN <<>> ELSE erbij(s[i - 1], i)
        <4> HIDE DEF erbij
        <4> QED BY <3>2
      <3>4. ASSUME NEW i \in 0..m
            PROVE  t[i] = IF i = 0 THEN <<>> ELSE erbij(t[i - 1], i)
        <4>1. m \in Nat
          BY <2>3
        <4>2. CASE i = m
          <5>1. t[i] = erbij(s[m - 1], m) /\ t[m - 1] = s[m - 1]
            <6> HIDE DEF erbij
            <6> QED BY <2>5, <4>1, <4>2
          <5> HIDE DEF t, erbij
          <5> QED BY <2>5, <4>2, <5>1
        <4>3. CASE i # m
          <5>1. i \in 0..m - 1 /\ t[i] = s[i] /\ (i # 0 => t[i - 1] = s[i - 1])
            <6> HIDE DEF erbij
            <6> QED BY <4>1, <4>3
          <5> HIDE DEF t, erbij
          <5> QED BY <3>3, <5>1
        <4> QED BY <4>2, <4>3
      <3>5. Rij(t, m)
        <4>1. t = [i \in 0..m |-> t[i]]
          OBVIOUS
        <4> HIDE DEF t, erbij
        <4> QED BY <3>4, <4>1
      <3> HIDE DEF t, Rij
      <3> QED BY <2>3, <3>5
    <2> QED BY <2>4, <2>5
  <1> DEFINE rij0 == CHOOSE s : Rij(s, n)
  <1>2. Rij(rij0, n)
    <2> HIDE DEF Rij
    <2> QED BY <1>1
  <1>3. ExportSleutels(cs) = rij0[n]
    BY DEF ExportSleutels
  <1>4. \A i \in 0..n : rij0[i] = IF i = 0 THEN <<>> ELSE erbij(rij0[i - 1], i)
    <2> HIDE DEF erbij, rij0
    <2> QED BY <1>2
  <1> DEFINE fout == {i \in 0..n : ~ SleutelRij(rij0[i], i)}
  <1>5. fout = {}
    <2> SUFFICES ASSUME fout # {} PROVE FALSE
      OBVIOUS
    <2>1. fout \in SUBSET Nat
      BY <1>0
    <2>2. PICK m \in fout : \A k \in fout : m <= k
      <3> HIDE DEF fout
      <3> QED BY <2>1, EersteGetal
    <2>3. m \in 0..n /\ ~ SleutelRij(rij0[m], m)
      BY <2>2
    <2>4. CASE m = 0
      <3>1. rij0[m] = <<>>
        <4> HIDE DEF rij0
        <4> QED BY <1>0, <1>4, <2>4
      <3> HIDE DEF rij0
      <3> QED BY <2>3, <2>4, <3>1 DEF SleutelRij
    <2>5. CASE m # 0
      <3>1. m - 1 \in 0..n /\ ~ (m <= m - 1) /\ m - 1 \in Nat /\ m - 1 < n /\ m \in 1..n
        BY <1>0, <2>3, <2>5
      <3> HIDE DEF rij0
      <3>2. SleutelRij(rij0[m - 1], m - 1)
        BY <2>2, <3>1
      <3>3. Slug[cs[m].name] \in Seq(Sleuteldelen)
        BY <1>0, <3>1, VragenlijstenSlug DEF Benoemd
      <3>4. rij0[m] = Append(rij0[m - 1], VrijeSleutel(rij0[m - 1], Slug[cs[m].name], n))
        BY <1>4, <2>3, <2>5
      <3>5. SleutelRij(rij0[m], m - 1 + 1)
        <4> HIDE DEF n
        <4> QED BY <1>0, <3>1, <3>2, <3>3, <3>4, VrijeSleutelFeit, ErbijFeit
      <3> QED BY <2>3, <3>1, <3>5
    <2> QED BY <2>4, <2>5
  <1> HIDE DEF rij0
  <1> QED BY <1>0, <1>3, <1>5

(* The categories and the questions of a template that is whole.           *)
CategorieenHeel(C) ==
    /\ IsFiniteSet(C)
    /\ \A c \in C :
         /\ c = [name |-> c.name, position |-> c.position, min_answers |-> c.min_answers]
         /\ Gevuld(c.name) /\ c.name \in DOMAIN Slug /\ c.position \in Int
    /\ \A c, e \in C : c.name = e.name \/ c.position = e.position => c = e

VragenHeel(V) ==
    /\ IsFiniteSet(V)
    /\ \A v \in V :
         /\ v = [question_key |-> v.question_key, position |-> v.position,
                 categorie |-> v.categorie, vraag |-> v.vraag]
         /\ v.position \in Int /\ VraagRij(v.vraag) = v.vraag
    /\ \A v, w \in V : v.question_key = w.question_key \/ v.position = w.position => v = w

Verwijst(C, V) == \A v \in V : v.categorie = Geen \/ \E c \in C : c.name = v.categorie

Heel(C, V) == CategorieenHeel(C) /\ VragenHeel(V) /\ Verwijst(C, V)

(* The document of an export, row by row.                                  *)
ExportVorm(d, C, V) ==
    LET cs == OpPositie(C)   vs == OpPositie(V)   ks == ExportSleutels(cs) IN
    /\ d.schema_version = SCHEMA_VERSIE /\ d.verboden = {}
    /\ DOMAIN d.categories = 1..Cardinality(C) /\ DOMAIN d.questions = 1..Cardinality(V)
    /\ \A i \in 1..Cardinality(C) :
         /\ d.categories[i].key = ks[i] /\ d.categories[i].name = cs[i].name
         /\ d.categories[i].position = cs[i].position
         /\ d.categories[i].min_answers = cs[i].min_answers
    /\ \A i \in 1..Cardinality(V) :
         /\ d.questions[i].question_key = vs[i].question_key
         /\ d.questions[i].position = vs[i].position /\ d.questions[i].vraag = vs[i].vraag
         /\ vs[i].categorie = Geen => d.questions[i].category_key = Geen
         /\ \A j \in 1..Cardinality(C) :
              vs[i].categorie = cs[j].name => d.questions[i].category_key = ks[j]

LEMMA ExportFeit ==
    ASSUME NEW naam, NEW C, NEW V, Heel(C, V)
    PROVE  /\ ExportVorm(ExportDocument(naam, C, V), C, V)
           /\ ExportDocument(naam, C, V).name = naam[1]
           /\ ExportDocument(naam, C, V).version = naam[2]
  <1> DEFINE cs == OpPositie(C)   vs == OpPositie(V)   ks == ExportSleutels(cs)
             sleutel(n) == IF \E i \in DOMAIN cs : cs[i].name = n
                           THEN ks[CHOOSE i \in DOMAIN cs : cs[i].name = n] ELSE Geen
             d == ExportDocument(naam, C, V)
  <1>1. /\ DOMAIN cs = 1..Cardinality(C) /\ DOMAIN vs = 1..Cardinality(V)
        /\ \A i \in DOMAIN cs : cs[i] \in C
        /\ \A i, j \in DOMAIN cs : cs[i] = cs[j] => i = j
    <2>1. Geordend(C) /\ Geordend(V)
      BY DEF Heel, CategorieenHeel, VragenHeel, Geordend
    <2>2. /\ cs \in Seq(C) /\ Len(cs) = Cardinality(C) /\ DOMAIN cs = 1..Cardinality(C)
          /\ \A i, j \in 1..Cardinality(C) : cs[i] = cs[j] => i = j
      BY <2>1, OpPositieFeit
    <2>3. DOMAIN vs = 1..Cardinality(V)
      BY <2>1, OpPositieFeit
    <2> HIDE DEF cs, vs
    <2>4. \A i \in DOMAIN cs : cs[i] \in C
      <3>1. cs \in [1..Len(cs) -> C]
        BY <2>2
      <3> QED BY <2>2, <3>1
    <2>5. \A i, j \in DOMAIN cs : cs[i] = cs[j] => i = j
      BY <2>2
    <2> QED BY <2>2, <2>3, <2>4, <2>5
  <1>2. /\ d.schema_version = SCHEMA_VERSIE /\ d.verboden = {}
        /\ d.name = naam[1] /\ d.version = naam[2]
        /\ d.categories = [i \in DOMAIN cs |->
             [key |-> ks[i], name |-> cs[i].name, position |-> cs[i].position,
              min_answers |-> cs[i].min_answers]]
        /\ d.questions = [i \in DOMAIN vs |->
             [question_key |-> vs[i].question_key, category_key |-> sleutel(vs[i].categorie),
              position |-> vs[i].position, vraag |-> vs[i].vraag]]
    BY DEF ExportDocument
  <1>3. sleutel(Geen) = Geen
    BY <1>1 DEF Heel, CategorieenHeel, Gevuld
  <1>4. ASSUME NEW j \in DOMAIN cs
        PROVE  sleutel(cs[j].name) = ks[j]
    <2>1. \A i \in DOMAIN cs : cs[i].name = cs[j].name => i = j
      BY <1>1 DEF Heel, CategorieenHeel
    <2> HIDE DEF cs, ks
    <2> QED BY <2>1
  <1> HIDE DEF cs, vs, ks, d, sleutel
  <1>5. ExportVorm(d, C, V)
    BY <1>1, <1>2, <1>3, <1>4 DEF ExportVorm, cs, vs, ks
  <1> QED BY <1>2, <1>5 DEF d

LEMMA ExportRijen ==
    ASSUME NEW C, NEW V, Heel(C, V)
    PROVE  LET cs == OpPositie(C)   vs == OpPositie(V)   ks == ExportSleutels(cs)   n == Cardinality(C) IN
           /\ n \in Nat /\ Cardinality(V) \in Nat
           /\ C = {cs[i] : i \in 1..n} /\ V = {vs[i] : i \in 1..Cardinality(V)}
           /\ \A i, j \in 1..n : i # j => ks[i] # ks[j] /\ cs[i] # cs[j]
           /\ \A i, j \in 1..Cardinality(V) : i # j => vs[i] # vs[j]
           /\ \A i \in 1..n : Gevuld(ks[i])
  <1> DEFINE cs == OpPositie(C)   vs == OpPositie(V)   ks == ExportSleutels(cs)   n == Cardinality(C)
  <1>1. Geordend(C) /\ Geordend(V)
    BY DEF Heel, CategorieenHeel, VragenHeel, Geordend
  <1>2. /\ cs \in Seq(C) /\ Len(cs) = n /\ DOMAIN cs = 1..n /\ ToSet(cs) = C
        /\ n \in Nat /\ Cardinality(V) \in Nat
        /\ DOMAIN vs = 1..Cardinality(V) /\ ToSet(vs) = V
        /\ \A i, j \in 1..n : i # j => cs[i] # cs[j]
        /\ \A i, j \in 1..Cardinality(V) : i # j => vs[i] # vs[j]
    BY <1>1, OpPositieFeit
  <1>3. Benoemd(cs)
    <2>1. \A i \in DOMAIN cs : cs[i] \in C
      BY <1>2 DEF ToSet
    <2> QED BY <1>2, <2>1 DEF Benoemd, Heel, CategorieenHeel
  <1> HIDE DEF cs, vs
  <1>4. SleutelRij(ks, n)
    BY <1>2, <1>3, ExportSleutelsFeit
  <1> HIDE DEF ks
  <1>5. \A i \in 1..n : ks[i] \in Seq(Sleuteldelen)
    BY <1>2, <1>4 DEF SleutelRij
  <1>6. \A i \in 1..n : Gevuld(ks[i])
    BY <1>5, VragenlijstenSlug DEF Gevuld
  <1>7. C = {cs[i] : i \in 1..n} /\ V = {vs[i] : i \in 1..Cardinality(V)}
    BY <1>2 DEF ToSet
  <1>8. \A i, j \in 1..n : i # j => ks[i] # ks[j]
    BY <1>4 DEF SleutelRij
  <1> HIDE DEF n
  <1>9. /\ n \in Nat /\ Cardinality(V) \in Nat
        /\ C = {cs[i] : i \in 1..n} /\ V = {vs[i] : i \in 1..Cardinality(V)}
        /\ \A i, j \in 1..n : i # j => ks[i] # ks[j] /\ cs[i] # cs[j]
        /\ \A i, j \in 1..Cardinality(V) : i # j => vs[i] # vs[j]
        /\ \A i \in 1..n : Gevuld(ks[i])
    BY <1>2, <1>6, <1>7, <1>8
  <1> QED BY <1>9 DEF cs, vs, ks, n

(* What is exported reads back as the rows it was made of.                 *)
THEOREM LeestTerug ==
    ASSUME NEW naam, NEW C, NEW V, Heel(C, V)
    PROVE  /\ Categorieen(ExportDocument(naam, C, V)) = C
           /\ VragenVan(ExportDocument(naam, C, V)) = V
  <1> DEFINE cs == OpPositie(C)   vs == OpPositie(V)   ks == ExportSleutels(cs)
             n == Cardinality(C)   m == Cardinality(V)
  <1>0. PICK d : d = ExportDocument(naam, C, V)
    OBVIOUS
  <1>1. ExportVorm(d, C, V)
    BY <1>0, ExportFeit
  <1>2. /\ C = {cs[i] : i \in 1..n} /\ V = {vs[i] : i \in 1..m}
        /\ \A i, j \in 1..n : i # j => ks[i] # ks[j]
        /\ \A i \in 1..n : Gevuld(ks[i])
    BY ExportRijen
  <1> HIDE DEF cs, vs, ks, n, m
  <1>3. /\ DOMAIN d.categories = 1..n /\ DOMAIN d.questions = 1..m
        /\ \A i \in 1..n :
             /\ d.categories[i].key = ks[i] /\ d.categories[i].name = cs[i].name
             /\ d.categories[i].position = cs[i].position
             /\ d.categories[i].min_answers = cs[i].min_answers
        /\ \A i \in 1..m :
             /\ d.questions[i].question_key = vs[i].question_key
             /\ d.questions[i].position = vs[i].position /\ d.questions[i].vraag = vs[i].vraag
             /\ vs[i].categorie = Geen => d.questions[i].category_key = Geen
             /\ \A j \in 1..n : vs[i].categorie = cs[j].name => d.questions[i].category_key = ks[j]
    BY <1>1 DEF ExportVorm, cs, vs, ks, n, m
  <1>4. Categorieen(d) = C
    <2>1. \A i \in 1..n : [name |-> d.categories[i].name, position |-> d.categories[i].position,
                           min_answers |-> d.categories[i].min_answers] = cs[i]
      BY <1>2, <1>3 DEF Heel, CategorieenHeel
    <2>2. Categorieen(d) =
            {[name |-> d.categories[i].name, position |-> d.categories[i].position,
              min_answers |-> d.categories[i].min_answers] : i \in 1..n}
      BY <1>3 DEF Categorieen, ToSet
    <2>3. Categorieen(d) = {cs[i] : i \in 1..n}
      BY <2>1, <2>2
    <2> QED BY <1>2, <2>3
  <1>5. ASSUME NEW i \in 1..m
        PROVE  CategorieNaam(d, d.questions[i].category_key) = vs[i].categorie
    <2>1. vs[i] \in V
      BY <1>2
    <2>2. CASE vs[i].categorie = Geen
      BY <1>3, <2>2 DEF CategorieNaam
    <2>3. CASE vs[i].categorie # Geen
      <3>1. PICK j \in 1..n : cs[j].name = vs[i].categorie
        BY <1>2, <2>1, <2>3 DEF Heel, Verwijst
      <3>2. d.questions[i].category_key = ks[j] /\ ks[j] # Geen
        BY <1>2, <1>3, <3>1 DEF Gevuld
      <3>3. d.categories[j] \in ToSet(d.categories) /\ d.categories[j].key = ks[j]
        BY <1>3 DEF ToSet
      <3>4. \A c \in ToSet(d.categories) : c.key = ks[j] => c = d.categories[j]
        BY <1>2, <1>3 DEF ToSet
      <3>5. (CHOOSE c \in ToSet(d.categories) : c.key = ks[j]) = d.categories[j]
        BY <3>3, <3>4
      <3>6. CategorieNaam(d, ks[j]) = d.categories[j].name
        BY <3>2, <3>5 DEF CategorieNaam
      <3> QED BY <1>3, <3>1, <3>2, <3>6
    <2> QED BY <2>2, <2>3
  <1>6. VragenVan(d) = V
    <2>1. \A i \in 1..m :
            [question_key |-> d.questions[i].question_key, position |-> d.questions[i].position,
             categorie |-> CategorieNaam(d, d.questions[i].category_key),
             vraag |-> VraagRij(d.questions[i].vraag)] = vs[i]
      BY <1>2, <1>3, <1>5 DEF Heel, VragenHeel
    <2>2. VragenVan(d) =
            {[question_key |-> d.questions[i].question_key, position |-> d.questions[i].position,
              categorie |-> CategorieNaam(d, d.questions[i].category_key),
              vraag |-> VraagRij(d.questions[i].vraag)] : i \in 1..m}
      BY <1>3 DEF VragenVan, ToSet
    <2>3. VragenVan(d) = {vs[i] : i \in 1..m}
      BY <2>1, <2>2
    <2> QED BY <1>2, <2>3
  <1> QED BY <1>0, <1>4, <1>6

(* Storing a question fills in what was left out, once.                    *)
LEMMA VraagRijVast ==
    ASSUME NEW v, DOMAIN v = Vraagvelden
    PROVE  /\ VraagRij(VraagRij(v)) = VraagRij(v)
           /\ VraagGoed(v) => VraagGoed(VraagRij(v))
  <1>1. PICK w : w = VraagRij(v)
    OBVIOUS
  <1>2. /\ w.answer_type = v.answer_type /\ w.comment = v.comment /\ w.options = v.options
        /\ w.min = v.min /\ w.max = v.max /\ w.decimals = v.decimals /\ w.format = v.format
        /\ w.is_required = Of(v.is_required, TRUE) /\ w.allows_upload = Of(v.allows_upload, FALSE)
        /\ w.max_files = Of(v.max_files, 0)
        /\ DOMAIN w = Vraagvelden /\ w = [veld \in Vraagvelden |-> w[veld]]
    BY <1>1 DEF VraagRij, Vraagvelden
  <1>3. VraagRij(w) = w
    <2>1. /\ VraagRij(w) = [veld \in Vraagvelden |-> VraagRij(w)[veld]]
          /\ \A veld \in Vraagvelden : VraagRij(w)[veld] = w[veld]
      BY <1>2 DEF VraagRij, Vraagvelden, Of
    <2> HIDE DEF VraagRij
    <2> QED BY <1>2, <2>1
  <1>4. ASSUME VraagGoed(v)
        PROVE  VraagGoed(w)
    <2>1. /\ Geen \notin BOOLEAN /\ Geen # 0 /\ Onzin # 0
      BY VragenlijstenSlug
    <2>2. UploadGoed(w)
      <3>1. UploadGoed(v)
        BY <1>4 DEF VraagGoed
      <3>2. w.is_required \in {Geen, TRUE, FALSE} /\ w.allows_upload \in {Geen, TRUE, FALSE}
        BY <1>2, <3>1 DEF UploadGoed, Of
      <3>3. w.max_files # Onzin /\ Of(w.max_files, 0) = Of(v.max_files, 0)
        BY <1>2, <2>1, <3>1 DEF UploadGoed, Of
      <3>4. w.allows_upload = TRUE <=> v.allows_upload = TRUE
        BY <1>2, <2>1, <3>1 DEF UploadGoed, Of
      <3> QED BY <3>1, <3>2, <3>3, <3>4 DEF UploadGoed
    <2>3. OptiesGoed(w) /\ CommentGoed(w)
      BY <1>2, <1>4 DEF VraagGoed, OptiesGoed, CommentGoed, Keuze
    <2>4. GrenzenGoed(w) = GrenzenGoed(v)
      BY <1>2 DEF GrenzenGoed
    <2>5. v.is_required = FALSE => w.is_required = FALSE
      BY <1>2, <2>1 DEF Of
    <2> QED BY <1>2, <1>4, <2>2, <2>3, <2>4, <2>5 DEF VraagGoed
  <1> QED BY <1>1, <1>3, <1>4

(* The rows of a document, and the positions they came from.               *)
DocumentRijen(d) ==
    LET cs == d.categories   vs == d.questions IN
    /\ Len(cs) \in Nat /\ Len(vs) \in Nat /\ DOMAIN cs = 1..Len(cs) /\ DOMAIN vs = 1..Len(vs)
    /\ Categorieen(d) = {[name |-> cs[i].name, position |-> cs[i].position,
                          min_answers |-> cs[i].min_answers] : i \in 1..Len(cs)}
    /\ VragenVan(d) = {[question_key |-> vs[i].question_key, position |-> vs[i].position,
                        categorie |-> CategorieNaam(d, vs[i].category_key),
                        vraag |-> VraagRij(vs[i].vraag)] : i \in 1..Len(vs)}
    /\ \A i \in 1..Len(cs) : cs[i].name \in DOMAIN Slug /\ cs[i].position \in Int
    /\ \A i \in 1..Len(vs) : vs[i].position \in Int /\ DOMAIN vs[i].vraag = Vraagvelden

LEMMA DocumentFeit ==
    ASSUME NEW d \in Documenten, DocumentGoed(d)
    PROVE  DocumentRijen(d)
  <1>1. /\ d.categories \in Seq(ToSet(d.categories)) /\ d.questions \in Seq(ToSet(d.questions))
        /\ \A c \in ToSet(d.categories) : c.name \in DOMAIN Slug /\ c.position \in Int
        /\ \A v \in ToSet(d.questions) : v.position \in Int /\ DOMAIN v.vraag = Vraagvelden
    BY VragenlijstenDocumenten
  <1>2. /\ Len(d.categories) \in Nat /\ DOMAIN d.categories = 1..Len(d.categories)
        /\ Len(d.questions) \in Nat /\ DOMAIN d.questions = 1..Len(d.questions)
    BY <1>1
  <1>3. /\ ToSet(d.categories) = {d.categories[i] : i \in 1..Len(d.categories)}
        /\ ToSet(d.questions) = {d.questions[i] : i \in 1..Len(d.questions)}
    BY <1>2 DEF ToSet
  <1>4. /\ \A i \in 1..Len(d.categories) : d.categories[i] \in ToSet(d.categories)
        /\ \A i \in 1..Len(d.questions) : d.questions[i] \in ToSet(d.questions)
    BY <1>3
  <1>5. Categorieen(d) = {[name |-> d.categories[i].name, position |-> d.categories[i].position,
                          min_answers |-> d.categories[i].min_answers] : i \in 1..Len(d.categories)}
    BY <1>3 DEF Categorieen
  <1>6. VragenVan(d) = {[question_key |-> d.questions[i].question_key, position |-> d.questions[i].position,
                        categorie |-> CategorieNaam(d, d.questions[i].category_key),
                        vraag |-> VraagRij(d.questions[i].vraag)] : i \in 1..Len(d.questions)}
    BY <1>3 DEF VragenVan
  <1> QED BY <1>1, <1>2, <1>4, <1>5, <1>6 DEF DocumentRijen

(* What the validation says of them, spelled out.                          *)
LEMMA GoedFeit ==
    ASSUME NEW d \in Documenten, DocumentGoed(d)
    PROVE  LET cs == d.categories   vs == d.questions IN
           /\ \A i \in 1..Len(cs) : Gevuld(cs[i].key) /\ Gevuld(cs[i].name) /\ cs[i].position >= 1
                                    /\ cs[i].min_answers >= 0
           /\ \A i, j \in 1..Len(cs) : i # j => /\ cs[i].key # cs[j].key /\ cs[i].name # cs[j].name
                                                /\ cs[i].position # cs[j].position
           /\ \A i \in 1..Len(vs) :
                /\ Gevuld(vs[i].question_key) /\ vs[i].position >= 1 /\ VraagGoed(vs[i].vraag)
                /\ vs[i].category_key # Geen => \E j \in 1..Len(cs) : cs[j].key = vs[i].category_key
           /\ \A i, j \in 1..Len(vs) : i # j => /\ vs[i].question_key # vs[j].question_key
                                                /\ vs[i].position # vs[j].position
           /\ Len(vs) > 0
  <1> DEFINE cs == d.categories   vs == d.questions
  <1>1. /\ DOMAIN cs = 1..Len(cs) /\ DOMAIN vs = 1..Len(vs) /\ Len(cs) \in Nat /\ Len(vs) \in Nat
        /\ vs \in Seq(ToSet(vs))
    BY DocumentFeit, VragenlijstenDocumenten DEF DocumentRijen
  <1>2. /\ \A i \in 1..Len(cs) : Gevuld(cs[i].key) /\ Gevuld(cs[i].name) /\ cs[i].position >= 1
                                 /\ cs[i].min_answers >= 0
        /\ \A i \in 1..Len(vs) :
             /\ Gevuld(vs[i].question_key) /\ vs[i].position >= 1 /\ VraagGoed(vs[i].vraag)
             /\ vs[i].category_key # Geen => \E j \in 1..Len(cs) : cs[j].key = vs[i].category_key
        /\ vs # <<>>
    BY <1>1 DEF DocumentGoed
  <1>3. \A i, j \in 1..Len(cs) : i # j => /\ cs[i].key # cs[j].key /\ cs[i].name # cs[j].name
                                          /\ cs[i].position # cs[j].position
    BY <1>1 DEF DocumentGoed, Verschillend
  <1>4. \A i, j \in 1..Len(vs) : i # j => /\ vs[i].question_key # vs[j].question_key
                                          /\ vs[i].position # vs[j].position
    BY <1>1 DEF DocumentGoed, Verschillend
  <1>5. Len(vs) > 0
    BY <1>1, <1>2
  <1> QED BY <1>2, <1>3, <1>4, <1>5

LEMMA DocumentHeel ==
    ASSUME NEW d \in Documenten, DocumentGoed(d)
    PROVE  Heel(Categorieen(d), VragenVan(d))
  <1> DEFINE cs == d.categories   vs == d.questions   n == Len(cs)   m == Len(vs)
             crij(i) == [name |-> cs[i].name, position |-> cs[i].position,
                         min_answers |-> cs[i].min_answers]
             vrij(i) == [question_key |-> vs[i].question_key, position |-> vs[i].position,
                         categorie |-> CategorieNaam(d, vs[i].category_key),
                         vraag |-> VraagRij(vs[i].vraag)]
             C == Categorieen(d)   V == VragenVan(d)
  <1>1. /\ n \in Nat /\ m \in Nat
        /\ C = {crij(i) : i \in 1..n} /\ V = {vrij(i) : i \in 1..m}
        /\ \A i \in 1..n : cs[i].name \in DOMAIN Slug /\ cs[i].position \in Int
        /\ \A i \in 1..m : vs[i].position \in Int /\ DOMAIN vs[i].vraag = Vraagvelden
    BY DocumentFeit DEF DocumentRijen
  <1>2. /\ \A i \in 1..n : Gevuld(cs[i].key) /\ Gevuld(cs[i].name)
        /\ \A i, j \in 1..n : i # j => /\ cs[i].key # cs[j].key /\ cs[i].name # cs[j].name
                                       /\ cs[i].position # cs[j].position
        /\ \A i \in 1..m :
             /\ VraagGoed(vs[i].vraag)
             /\ vs[i].category_key # Geen => \E j \in 1..n : cs[j].key = vs[i].category_key
        /\ \A i, j \in 1..m : i # j => /\ vs[i].question_key # vs[j].question_key
                                       /\ vs[i].position # vs[j].position
    BY GoedFeit
  <1> HIDE DEF cs, vs, n, m, C, V
  <1>3. CategorieenHeel(C)
    <2>1. IsFiniteSet(C)
      <3>1. [i \in 1..n |-> crij(i)] \in Surjection(1..n, C)
        BY <1>1 DEF Surjection
      <3> QED BY <1>1, <3>1, FS_Surjection, FS_Interval
    <2>2. \A c \in C :
         /\ c = [name |-> c.name, position |-> c.position, min_answers |-> c.min_answers]
         /\ Gevuld(c.name) /\ c.name \in DOMAIN Slug /\ c.position \in Int
      BY <1>1, <1>2
    <2>3. \A c, e \in C : c.name = e.name \/ c.position = e.position => c = e
      BY <1>1, <1>2
    <2> QED BY <2>1, <2>2, <2>3 DEF CategorieenHeel
  <1>4. VragenHeel(V)
    <2>1. IsFiniteSet(V)
      <3>1. [i \in 1..m |-> vrij(i)] \in Surjection(1..m, V)
        BY <1>1 DEF Surjection
      <3> QED BY <1>1, <3>1, FS_Surjection, FS_Interval
    <2>2. ASSUME NEW i \in 1..m
          PROVE  VraagRij(VraagRij(vs[i].vraag)) = VraagRij(vs[i].vraag)
      BY <1>1, VraagRijVast
    <2>3. \A v \in V :
         /\ v = [question_key |-> v.question_key, position |-> v.position,
                 categorie |-> v.categorie, vraag |-> v.vraag]
         /\ v.position \in Int /\ VraagRij(v.vraag) = v.vraag
      BY <1>1, <2>2
    <2>4. \A v, w \in V : v.question_key = w.question_key \/ v.position = w.position => v = w
      BY <1>1, <1>2
    <2> QED BY <2>1, <2>3, <2>4 DEF VragenHeel
  <1>5. ASSUME NEW i \in 1..m, vrij(i).categorie # Geen
        PROVE  \E c \in C : c.name = vrij(i).categorie
    <2>1. vs[i].category_key # Geen
      BY <1>5 DEF CategorieNaam
    <2>2. PICK j \in 1..n : cs[j].key = vs[i].category_key
      BY <1>2, <2>1
    <2>3. DOMAIN cs = 1..n
      BY DocumentFeit DEF DocumentRijen, cs, n
    <2>4. cs[j] \in ToSet(cs) /\ \A c \in ToSet(cs) : c.key = vs[i].category_key => c = cs[j]
      BY <1>2, <2>2, <2>3 DEF ToSet
    <2>5. (CHOOSE c \in ToSet(cs) : c.key = vs[i].category_key) = cs[j]
      BY <2>2, <2>4
    <2>6. vrij(i).categorie = cs[j].name
      BY <2>1, <2>5 DEF CategorieNaam, cs
    <2>7. crij(j) \in C /\ crij(j).name = cs[j].name
      BY <1>1
    <2> QED BY <2>6, <2>7
  <1>6. Verwijst(C, V)
    BY <1>1, <1>5 DEF Verwijst
  <1> QED BY <1>3, <1>4, <1>6 DEF Heel, C, V

(* An imported document that is exported again is a document that passes.  *)
THEOREM ExportGoed ==
    ASSUME NEW d \in Documenten, DocumentGoed(d)
    PROVE  DocumentGoed(ExportDocument(Naam(d), Categorieen(d), VragenVan(d)))
  <1> DEFINE C == Categorieen(d)   V == VragenVan(d)
             cs == OpPositie(C)   vs == OpPositie(V)   ks == ExportSleutels(cs)
             n == Cardinality(C)   m == Cardinality(V)
  <1>0. PICK e : e = ExportDocument(Naam(d), C, V)
    OBVIOUS
  <1>1. Heel(C, V)
    BY DocumentHeel
  <1>2. /\ e.name = d.name /\ e.version = d.version /\ ExportVorm(e, C, V)
    BY <1>0, <1>1, ExportFeit DEF Naam
  <1>3. /\ n \in Nat /\ m \in Nat
        /\ C = {cs[i] : i \in 1..n} /\ V = {vs[i] : i \in 1..m}
        /\ \A i, j \in 1..n : i # j => ks[i] # ks[j] /\ cs[i] # cs[j]
        /\ \A i, j \in 1..m : i # j => vs[i] # vs[j]
        /\ \A i \in 1..n : Gevuld(ks[i])
    BY <1>1, ExportRijen
  <1>4. /\ \A c \in C : Gevuld(c.name) /\ c.position >= 1 /\ c.min_answers >= 0
        /\ \A v \in V : Gevuld(v.question_key) /\ v.position >= 1 /\ VraagGoed(v.vraag)
        /\ V # {}
    <2>1. \A c \in C : \E i \in 1..Len(d.categories) :
            c = [name |-> d.categories[i].name, position |-> d.categories[i].position,
                 min_answers |-> d.categories[i].min_answers]
      BY DocumentFeit DEF DocumentRijen
    <2>2. \A v \in V : \E i \in 1..Len(d.questions) :
            v = [question_key |-> d.questions[i].question_key, position |-> d.questions[i].position,
                 categorie |-> CategorieNaam(d, d.questions[i].category_key),
                 vraag |-> VraagRij(d.questions[i].vraag)]
      BY DocumentFeit DEF DocumentRijen
    <2>3. V # {}
      <3>1. Len(d.questions) > 0 /\ Len(d.questions) \in Nat
        BY DocumentFeit, GoedFeit DEF DocumentRijen
      <3>2. 1 \in 1..Len(d.questions)
        BY <3>1
      <3>3. DocumentRijen(d)
        BY DocumentFeit
      <3>4. [question_key |-> d.questions[1].question_key, position |-> d.questions[1].position,
             categorie |-> CategorieNaam(d, d.questions[1].category_key),
             vraag |-> VraagRij(d.questions[1].vraag)] \in V
        BY <3>2, <3>3 DEF DocumentRijen
      <3> QED BY <3>4
    <2>4. \A c \in C : Gevuld(c.name) /\ c.position >= 1 /\ c.min_answers >= 0
      BY <2>1, GoedFeit
    <2>5. ASSUME NEW i \in 1..Len(d.questions)
          PROVE  VraagGoed(VraagRij(d.questions[i].vraag))
      BY DocumentFeit, GoedFeit, VraagRijVast DEF DocumentRijen
    <2>6. \A v \in V : Gevuld(v.question_key) /\ v.position >= 1 /\ VraagGoed(v.vraag)
      BY <2>2, <2>5, GoedFeit
    <2> QED BY <2>3, <2>4, <2>6
  <1> HIDE DEF C, V, cs, vs, ks, n, m
  <1>5. /\ e.schema_version = SCHEMA_VERSIE /\ e.verboden = {}
        /\ DOMAIN e.categories = 1..n /\ DOMAIN e.questions = 1..m
        /\ \A i \in 1..n :
             /\ e.categories[i].key = ks[i] /\ e.categories[i].name = cs[i].name
             /\ e.categories[i].position = cs[i].position
             /\ e.categories[i].min_answers = cs[i].min_answers
        /\ \A i \in 1..m :
             /\ e.questions[i].question_key = vs[i].question_key
             /\ e.questions[i].position = vs[i].position /\ e.questions[i].vraag = vs[i].vraag
             /\ vs[i].categorie = Geen => e.questions[i].category_key = Geen
             /\ \A j \in 1..n : vs[i].categorie = cs[j].name => e.questions[i].category_key = ks[j]
    BY <1>2 DEF ExportVorm, cs, vs, ks, n, m
  <1>6. Gevuld(e.name) /\ e.version \in Nat \ {0}
    BY <1>2 DEF DocumentGoed
  <1>7. \A i \in 1..n : Gevuld(e.categories[i].key) /\ Gevuld(e.categories[i].name)
                        /\ e.categories[i].position >= 1 /\ e.categories[i].min_answers >= 0
    BY <1>3, <1>4, <1>5
  <1>8. /\ \A i, j \in 1..n : i # j =>
             /\ e.categories[i].key # e.categories[j].key
             /\ e.categories[i].name # e.categories[j].name
             /\ e.categories[i].position # e.categories[j].position
        /\ \A i, j \in 1..m : i # j =>
             /\ e.questions[i].question_key # e.questions[j].question_key
             /\ e.questions[i].position # e.questions[j].position
    <2>1. ASSUME NEW i \in 1..n, NEW j \in 1..n, i # j
          PROVE  cs[i].name # cs[j].name /\ cs[i].position # cs[j].position
      <3>1. cs[i] \in C /\ cs[j] \in C /\ cs[i] # cs[j]
        BY <1>3, <2>1
      <3> QED BY <1>1, <3>1 DEF Heel, CategorieenHeel
    <2>2. ASSUME NEW i \in 1..m, NEW j \in 1..m, i # j
          PROVE  vs[i].question_key # vs[j].question_key /\ vs[i].position # vs[j].position
      <3>1. vs[i] \in V /\ vs[j] \in V /\ vs[i] # vs[j]
        BY <1>3, <2>2
      <3> QED BY <1>1, <3>1 DEF Heel, VragenHeel
    <2> QED BY <1>3, <1>5, <2>1, <2>2
  <1>9. e.questions # <<>>
    <2>1. m # 0
      BY <1>3, <1>4
    <2>2. 1 \in DOMAIN e.questions
      BY <1>3, <1>5, <2>1
    <2> QED BY <2>2
  <1>10. ASSUME NEW i \in 1..m
         PROVE  /\ Gevuld(e.questions[i].question_key) /\ e.questions[i].position >= 1
                /\ e.questions[i].category_key # Geen =>
                     \E j \in 1..n : e.categories[j].key = e.questions[i].category_key
                /\ VraagGoed(e.questions[i].vraag)
    <2>1. vs[i] \in V
      BY <1>3
    <2>2. vs[i].categorie = Geen \/ \E j \in 1..n : vs[i].categorie = cs[j].name
      BY <1>1, <1>3, <2>1 DEF Heel, Verwijst
    <2> QED BY <1>4, <1>5, <2>1, <2>2
  <1>11. /\ Verschillend(e.categories, [i \in DOMAIN e.categories |-> e.categories[i].key])
         /\ Verschillend(e.categories, [i \in DOMAIN e.categories |-> e.categories[i].name])
         /\ Verschillend(e.categories, [i \in DOMAIN e.categories |-> e.categories[i].position])
         /\ Verschillend(e.questions, [i \in DOMAIN e.questions |-> e.questions[i].question_key])
         /\ Verschillend(e.questions, [i \in DOMAIN e.questions |-> e.questions[i].position])
    BY <1>5, <1>8 DEF Verschillend
  <1>12. DocumentGoed(e)
    BY <1>5, <1>6, <1>7, <1>9, <1>10, <1>11 DEF DocumentGoed
  <1> QED BY <1>0, <1>12 DEF C, V

-----------------------------------------------------------------------------
(* Whole templates: what a change of questions may leave behind, and what *)
(* is handed out of it.                                                    *)

(* What an open change of questions leaves behind.                         *)
CategorieenNa(p, t) == IF Cat(t) \in Geschreven(p) THEN Wordt(p, Cat(t)).inhoud ELSE rij[Cat(t)].inhoud

SchrijftHeel(p) ==
    p \in Lopend /\ verzoek[p].op = "wijzig" =>
        \A t \in Templates :
          /\ Cat(t) \in Geschreven(p) =>
               /\ IsRij(Wordt(p, Cat(t))) /\ CategorieenHeel(Wordt(p, Cat(t)).inhoud)
               /\ Wordt(p, Cat(t)).inhoud = rij[Cat(t)].inhoud \cup {ExtraCategorie}
          /\ Vra(t) \in Geschreven(p) =>
               /\ IsRij(Wordt(p, Vra(t))) /\ VragenHeel(Wordt(p, Vra(t)).inhoud)
               /\ Verwijst(CategorieenNa(p, t), Wordt(p, Vra(t)).inhoud)

SjabloonHeel(t) ==
    Live(t) =>
        /\ IsRij(rij[Cat(t)]) /\ IsRij(rij[Vra(t)])
        /\ Heel(rij[Cat(t)].inhoud, rij[Vra(t)].inhoud)

(* An export is of a whole template, one nobody changed of one document.   *)
UitvoerHeelVan(q) ==
    LET u == uitvoer[q] IN
    u # Geen =>
        /\ Heel(u.categorieen, u.vragen)
        /\ u.template \notin gewijzigd =>
             \E d \in Documenten :
               /\ DocumentGoed(d) /\ <<u.document.name, u.document.version>> = Naam(d)
               /\ u.categorieen = Categorieen(d) /\ u.vragen = VragenVan(d)

HInv ==
    /\ \A t \in Templates : SjabloonHeel(t)
    /\ \A q \in Verzoeken : SchrijftHeel(q) /\ UitvoerHeelVan(q)

LEMMA HInvBegin ==
    ASSUME Init
    PROVE  HInv
  <1>1. \A q \in Verzoeken : verzoek[q].pc = "nieuw" /\ uitvoer[q] = Geen
    BY DEF Init, NieuwVerzoek
  <1>2. \A q \in Verzoeken : SchrijftHeel(q) /\ UitvoerHeelVan(q)
    BY <1>1 DEF SchrijftHeel, UitvoerHeelVan, Lopend
  <1>3. ASSUME NEW t \in Templates, Live(t)
        PROVE  SjabloonHeel(t)
    <2>1. rij[Kop(t)] # GeenRij
      BY <1>3 DEF Live, GeenRij
    <2>2. PICK d \in Documenten :
            /\ DocumentGoed(d)
            /\ rij[Cat(t)] = LiveRij(t, Geen, Categorieen(d))
            /\ rij[Vra(t)] = LiveRij(t, Geen, VragenVan(d))
      BY <2>1, VragenlijstenBegin DEF Init
    <2> QED BY <2>2, LiveRijFeit, DocumentHeel DEF SjabloonHeel
  <1> QED BY <1>2, <1>3 DEF HInv, SjabloonHeel

(* The step of a request that changes no row and hands out nothing.        *)
LEMMA HeelStil ==
    ASSUME HInv, NEW q \in Verzoeken, Anders(q), UNCHANGED <<rij, uitvoer, gewijzigd>>,
           SchrijftHeel(q)'
    PROVE  HInv'
  <1>1. ASSUME NEW p \in Verzoeken, p # q
        PROVE  SchrijftHeel(p)'
    <2>1. verzoek'[p] = verzoek[p] /\ SchrijftHeel(p)
      BY <1>1 DEF Anders, HInv
    <2>2. /\ (p \in Lopend') = (p \in Lopend) /\ Geschreven(p)' = Geschreven(p)
          /\ \A k : Wordt(p, k)' = Wordt(p, k)
          /\ \A t : CategorieenNa(p, t)' = CategorieenNa(p, t)
      BY <2>1 DEF Lopend, Geschreven, Wordt, CategorieenNa
    <2> QED BY <2>1, <2>2 DEF SchrijftHeel
  <1>2. \A t \in Templates : SjabloonHeel(t)'
    BY DEF HInv, SjabloonHeel, Live
  <1>3. \A p \in Verzoeken : UitvoerHeelVan(p)'
    BY DEF HInv, UitvoerHeelVan
  <1> QED BY <1>1, <1>2, <1>3 DEF HInv

LEMMA AndersHeel ==
    ASSUME HInv, NEW q \in Verzoeken, Anders(q), UNCHANGED <<rij, uitvoer, gewijzigd>>,
           q \notin Lopend' \/ verzoek'[q].op # "wijzig" \/ Geschreven(q)' = {}
    PROVE  HInv'
  <1>1. SchrijftHeel(q)'
    BY DEF SchrijftHeel
  <1> QED BY <1>1, HeelStil

(* Rows that change while the template stays whole.                        *)
LEMMA VraagWegHeel ==
    ASSUME NEW C, NEW V, Heel(C, V), NEW v
    PROVE  VragenHeel(V \ {v}) /\ Verwijst(C, V \ {v})
  <1>1. IsFiniteSet(V \ {v})
    BY FS_RemoveElement DEF Heel, VragenHeel
  <1> QED BY <1>1 DEF Heel, VragenHeel, Verwijst

LEMMA VraagErbijHeel ==
    ASSUME NEW V, VragenHeel(V), NEW v, Past(v, V), v.position \in Int, VraagRij(v.vraag) = v.vraag,
           v = [question_key |-> v.question_key, position |-> v.position,
                categorie |-> v.categorie, vraag |-> v.vraag]
    PROVE  VragenHeel(V \cup {v})
  <1>1. IsFiniteSet(V \cup {v})
    BY FS_AddElement DEF VragenHeel
  <1>2. \A x \in V \cup {v} :
         /\ x = [question_key |-> x.question_key, position |-> x.position,
                 categorie |-> x.categorie, vraag |-> x.vraag]
         /\ x.position \in Int /\ VraagRij(x.vraag) = x.vraag
    BY DEF VragenHeel
  <1>3. \A x, w \in V \cup {v} : x.question_key = w.question_key \/ x.position = w.position => x = w
    BY DEF VragenHeel, Past
  <1> QED BY <1>1, <1>2, <1>3 DEF VragenHeel

LEMMA CategorieErbijHeel ==
    ASSUME NEW C, CategorieenHeel(C),
           \A x \in C : x.name # ExtraCategorie.name /\ x.position # ExtraCategorie.position
    PROVE  CategorieenHeel(C \cup {ExtraCategorie})
  <1>1. IsFiniteSet(C \cup {ExtraCategorie})
    BY FS_AddElement DEF CategorieenHeel
  <1>2. \A c \in C \cup {ExtraCategorie} :
         /\ c = [name |-> c.name, position |-> c.position, min_answers |-> c.min_answers]
         /\ Gevuld(c.name) /\ c.name \in DOMAIN Slug /\ c.position \in Int
    BY VragenlijstenExtra DEF CategorieenHeel
  <1>3. \A c, e \in C \cup {ExtraCategorie} : c.name = e.name \/ c.position = e.position => c = e
    BY DEF CategorieenHeel
  <1> QED BY <1>1, <1>2, <1>3 DEF CategorieenHeel

LEMMA RijWordt ==
    ASSUME NEW w, IsRij(w), NEW inhoud
    PROVE  IsRij([w EXCEPT !.inhoud = inhoud]) /\ [w EXCEPT !.inhoud = inhoud].inhoud = inhoud
  BY DEF IsRij

LEMMA VraagStapHeel ==
    ASSUME IInv, HInv, NEW q \in Verzoeken, VraagWeg(q) \/ VraagErbij(q) \/ VraagVerplaatst(q)
    PROVE  HInv'
  <1>1. /\ q \in Lopend /\ WijzigGoed(q) /\ Geschreven(q) = {}
        /\ UNCHANGED <<rij, uitvoer, gewijzigd>>
    BY AanDeBeurt DEF VraagWeg, VraagErbij, VraagVerplaatst, WijzigGoed, Blijft, Erna
  <1>2. PICK t \in Templates, doel \in Templates : t = In(q).template /\ doel = In(q).doel
    BY <1>1 DEF WijzigGoed
  <1>3. /\ IsRij(rij[Cat(t)]) /\ IsRij(rij[Vra(t)]) /\ Heel(rij[Cat(t)].inhoud, rij[Vra(t)].inhoud)
        /\ IsRij(rij[Cat(doel)]) /\ IsRij(rij[Vra(doel)])
        /\ Heel(rij[Cat(doel)].inhoud, rij[Vra(doel)].inhoud)
    BY <1>1, <1>2 DEF WijzigGoed, HInv, SjabloonHeel
  <1>4. ASSUME NEW R, NEW wordt, Schrijft(q, R, wordt, "commit")
        PROVE  /\ Anders(q) /\ Geschreven(q)' = R
               /\ \A k \in R : Wordt(q, k)' = wordt[k]
    <2>1. Schreef(q, R, wordt, "commit")
      BY <1>4, SchreefFeit
    <2> QED BY <1>1, <2>1 DEF Schreef
  <1>5. CASE VraagWeg(q)
    <2>1. PICK v : Schrijft(q, {Vra(t)},
                     [x \in {Vra(t)} |-> [rij[Vra(t)] EXCEPT !.inhoud = @ \ {v}]], "commit")
      BY <1>2, <1>5 DEF VraagWeg
    <2>2. /\ Anders(q) /\ Geschreven(q)' = {Vra(t)}
          /\ Wordt(q, Vra(t))' = [rij[Vra(t)] EXCEPT !.inhoud = @ \ {v}]
      BY <1>4, <2>1
    <2>3. /\ IsRij(Wordt(q, Vra(t))') /\ VragenHeel(Wordt(q, Vra(t))'.inhoud)
          /\ Verwijst(rij[Cat(t)].inhoud, Wordt(q, Vra(t))'.inhoud)
      <3>1. IsRij(Wordt(q, Vra(t))') /\ Wordt(q, Vra(t))'.inhoud = rij[Vra(t)].inhoud \ {v}
        BY <1>3, <2>2, RijWordt
      <3>2. /\ VragenHeel(rij[Vra(t)].inhoud \ {v})
            /\ Verwijst(rij[Cat(t)].inhoud, rij[Vra(t)].inhoud \ {v})
        BY <1>3, VraagWegHeel
      <3> QED BY <3>1, <3>2
    <2>4. CategorieenNa(q, t)' = rij[Cat(t)].inhoud
      BY <1>1, <2>2, Sleutels DEF CategorieenNa
    <2>5. SchrijftHeel(q)'
      BY <2>2, <2>3, <2>4, Sleutels DEF SchrijftHeel
    <2> QED BY <1>1, <2>2, <2>5, HeelStil
  <1>6. CASE VraagErbij(q)
    <2> DEFINE c == Cat(t)   v == Vra(t)
               wordt == [x \in {c, v} |->
                 [rij[x] EXCEPT !.inhoud = @ \cup {IF x = c THEN ExtraCategorie ELSE ExtraVraag}]]
    <2>1. /\ Schrijft(q, {c, v}, wordt, "commit") /\ Past(ExtraVraag, rij[v].inhoud)
          /\ \A x \in rij[c].inhoud : x.name # ExtraCategorie.name /\ x.position # ExtraCategorie.position
      BY <1>2, <1>6 DEF VraagErbij
    <2>2. /\ Anders(q) /\ Geschreven(q)' = {c, v}
          /\ Wordt(q, c)' = wordt[c] /\ Wordt(q, v)' = wordt[v]
      BY <1>4, <2>1
    <2>3. /\ wordt[c] = [rij[c] EXCEPT !.inhoud = @ \cup {ExtraCategorie}]
          /\ wordt[v] = [rij[v] EXCEPT !.inhoud = @ \cup {ExtraVraag}]
      BY Sleutels
    <2> HIDE DEF wordt
    <2>4. /\ IsRij(Wordt(q, c)') /\ Wordt(q, c)'.inhoud = rij[c].inhoud \cup {ExtraCategorie}
          /\ IsRij(Wordt(q, v)') /\ Wordt(q, v)'.inhoud = rij[v].inhoud \cup {ExtraVraag}
      BY <1>3, <2>2, <2>3, RijWordt
    <2>5. CategorieenHeel(rij[c].inhoud \cup {ExtraCategorie})
      BY <1>3, <2>1, CategorieErbijHeel DEF Heel
    <2>6. VragenHeel(rij[v].inhoud \cup {ExtraVraag})
      <3>1. /\ ExtraVraag = [question_key |-> ExtraVraag.question_key, position |-> ExtraVraag.position,
                             categorie |-> ExtraVraag.categorie, vraag |-> ExtraVraag.vraag]
            /\ ExtraVraag.position \in Int /\ VraagRij(ExtraVraag.vraag) = ExtraVraag.vraag
        BY VragenlijstenExtra
      <3> QED BY <1>3, <2>1, <3>1, VraagErbijHeel DEF Heel
    <2>7. Verwijst(rij[c].inhoud \cup {ExtraCategorie}, rij[v].inhoud \cup {ExtraVraag})
      BY <1>3, VragenlijstenExtra DEF Heel, Verwijst
    <2>8. CategorieenNa(q, t)' = rij[c].inhoud \cup {ExtraCategorie}
      BY <2>2, <2>4 DEF CategorieenNa
    <2>9. SchrijftHeel(q)'
      <3>1. \A u : (Cat(u) \in {c, v} => u = t) /\ (Vra(u) \in {c, v} => u = t)
        BY Sleutels
      <3> HIDE DEF c, v
      <3>2. rij' = rij
        BY <1>1
      <3> QED BY <2>2, <2>4, <2>5, <2>6, <2>7, <2>8, <3>1, <3>2 DEF SchrijftHeel, c, v
    <2> QED BY <1>1, <2>2, <2>9, HeelStil
  <1>7. CASE VraagVerplaatst(q)
    <2> DEFINE van == Vra(t)   naar == Vra(doel)
    <2>1. PICK v \in rij[van].inhoud :
            /\ v.categorie = Geen /\ Past(v, rij[naar].inhoud)
            /\ Schrijft(q, {van, naar},
                 [x \in {van, naar} |-> [rij[x] EXCEPT !.inhoud = IF x = van THEN @ \ {v} ELSE @ \cup {v}]],
                 "commit")
      BY <1>2, <1>7 DEF VraagVerplaatst
    <2> DEFINE wordt == [x \in {van, naar} |->
                          [rij[x] EXCEPT !.inhoud = IF x = van THEN @ \ {v} ELSE @ \cup {v}]]
    <2>2. /\ Anders(q) /\ Geschreven(q)' = {van, naar}
          /\ Wordt(q, van)' = wordt[van] /\ Wordt(q, naar)' = wordt[naar]
      BY <1>4, <2>1
    <2>3. van # naar
      BY <1>2, <1>7 DEF VraagVerplaatst
    <2>4. /\ wordt[van] = [rij[van] EXCEPT !.inhoud = @ \ {v}]
          /\ wordt[naar] = [rij[naar] EXCEPT !.inhoud = @ \cup {v}]
      BY <2>3
    <2> HIDE DEF wordt
    <2>5. /\ IsRij(Wordt(q, van)') /\ Wordt(q, van)'.inhoud = rij[van].inhoud \ {v}
          /\ IsRij(Wordt(q, naar)') /\ Wordt(q, naar)'.inhoud = rij[naar].inhoud \cup {v}
      BY <1>3, <2>2, <2>4, RijWordt
    <2>6. VragenHeel(rij[van].inhoud \ {v}) /\ Verwijst(rij[Cat(t)].inhoud, rij[van].inhoud \ {v})
      BY <1>3, VraagWegHeel
    <2>7. VragenHeel(rij[naar].inhoud \cup {v})
      <3>1. /\ v = [question_key |-> v.question_key, position |-> v.position,
                    categorie |-> v.categorie, vraag |-> v.vraag]
            /\ v.position \in Int /\ VraagRij(v.vraag) = v.vraag
        BY <1>3, <2>1 DEF Heel, VragenHeel
      <3> QED BY <1>3, <2>1, <3>1, VraagErbijHeel DEF Heel
    <2>8. Verwijst(rij[Cat(doel)].inhoud, rij[naar].inhoud \cup {v})
      BY <1>3, <2>1 DEF Heel, Verwijst
    <2>9. SchrijftHeel(q)'
      <3>1. /\ \A u : Vra(u) \in {van, naar} => u \in {t, doel}
            /\ \A u : Cat(u) \notin {van, naar}
        BY Sleutels
      <3>2. \A u : CategorieenNa(q, u)' = rij[Cat(u)].inhoud
        BY <1>1, <2>2, <3>1 DEF CategorieenNa
      <3> HIDE DEF van, naar
      <3>3. ASSUME NEW u \in Templates, Vra(u) \in {van, naar}
            PROVE  /\ IsRij(Wordt(q, Vra(u))') /\ VragenHeel(Wordt(q, Vra(u))'.inhoud)
                   /\ Verwijst(rij[Cat(u)].inhoud, Wordt(q, Vra(u))'.inhoud)
        <4>1. CASE u = t
          BY <2>5, <2>6, <4>1 DEF van
        <4>2. CASE u = doel
          BY <2>5, <2>7, <2>8, <4>2 DEF naar
        <4> QED BY <3>1, <3>3, <4>1, <4>2
      <3> QED BY <2>2, <3>1, <3>2, <3>3 DEF SchrijftHeel
    <2> QED BY <1>1, <2>2, <2>9, HeelStil
  <1> QED BY <1>5, <1>6, <1>7

(* A COMMIT: a template that is there keeps its rows, or gets what a       *)
(* change of it wrote; a new one gets those of its document.               *)
LEMMA KomtHeel ==
    ASSUME IInv, NEW q \in Verzoeken, Voltooit(q), Komt(q), NEW t \in Templates
    PROVE  \/ /\ Live(t)' = Live(t)
              /\ rij'[Cat(t)] = rij[Cat(t)] /\ rij'[Vra(t)] = rij[Vra(t)]
           \/ /\ ~ Live(t)
              /\ \E d \in Documenten :
                   /\ DocumentGoed(d)
                   /\ rij'[Cat(t)] = LiveRij(t, Geen, Categorieen(d))
                   /\ rij'[Vra(t)] = LiveRij(t, Geen, VragenVan(d))
           \/ /\ Live(t) /\ verzoek[q].op = "wijzig" /\ Vra(t) \in Geschreven(q)
              /\ rij'[Vra(t)] = Wordt(q, Vra(t))
              /\ rij'[Cat(t)] = IF Cat(t) \in Geschreven(q) THEN Wordt(q, Cat(t)) ELSE rij[Cat(t)]
  <1>1. \A k \in RijSleutels : rij'[k] = IF k \in Geschreven(q) THEN Wordt(q, k) ELSE rij[k]
    BY DEF Komt
  <1>2. Kop(t) \in RijSleutels /\ Cat(t) \in RijSleutels /\ Vra(t) \in RijSleutels
    BY Sleutels
  <1>3. q \in Lopend /\ verzoek[q].pc = "commit" /\ ~ LeesGoed(q)
    BY DEF Komt, LeesGoed
  <1>4. CASE {Kop(t), Cat(t), Vra(t)} \cap Geschreven(q) = {}
    BY <1>1, <1>2, <1>4 DEF Live
  <1>5. CASE MaakGoed(q) \/ StatusGoed(q) \/ HaalGoed(q)
    <2>1. Geschreven(q) \subseteq {Run(In(q).ronde)}
      BY <1>5 DEF MaakGoed, StatusGoed, HaalGoed
    <2>2. \A r : Run(r) \notin {Kop(t), Cat(t), Vra(t)}
      BY DEF Run, Kop, Cat, Vra
    <2>3. {Kop(t), Cat(t), Vra(t)} \cap Geschreven(q) = {}
      BY <2>1, <2>2
    <2> QED BY <1>4, <2>3
  <1>6. CASE Importeert(q) /\ ImportGoed(q)
    <2>1. PICK u \in Templates, d \in Documenten : u = In(q).template /\ d = In(q).document
      BY <1>6 DEF ImportGoed
    <2>2. Geschreven(q) = {Kop(u), Cat(u), Vra(u)} /\ DocumentGoed(d) /\ ~ Live(u)
      BY <1>3, <1>6, <2>1 DEF ImportGoed, ImportRijen
    <2>3. CASE t = u
      <3>1. /\ Wordt(q, Cat(t)) = LiveRij(t, Geen, Categorieen(d))
            /\ Wordt(q, Vra(t)) = LiveRij(t, Geen, VragenVan(d))
        BY <1>6, <2>1, <2>2, <2>3 DEF ImportGoed
      <3> QED BY <1>1, <1>2, <2>2, <2>3, <3>1
    <2>4. CASE t # u
      <3>1. {Kop(t), Cat(t), Vra(t)} \cap Geschreven(q) = {}
        BY <2>2, <2>4, Sleutels
      <3> QED BY <1>4, <3>1
    <2> QED BY <2>3, <2>4
  <1>7. CASE verzoek[q].op = "wijzig" /\ WijzigGoed(q)
    <2>1. PICK u \in Templates, doel \in Templates : u = In(q).template /\ doel = In(q).doel
      BY <1>7 DEF WijzigGoed
    <2>2. /\ Vra(u) \in Geschreven(q) /\ Vra(doel) \in Geschreven(q) /\ Live(u) /\ Live(doel)
          /\ Geschreven(q) \subseteq IF u = doel THEN {Cat(u), Vra(u)} ELSE {Vra(u), Vra(doel)}
      BY <1>3, <1>7, <2>1 DEF WijzigGoed
    <2>3. CASE t \in {u, doel}
      BY <1>1, <1>2, <1>7, <2>2, <2>3
    <2>4. CASE t \notin {u, doel}
      <3>1. {Kop(t), Cat(t), Vra(t)} \cap Geschreven(q) = {}
        BY <2>2, <2>4, Sleutels
      <3> QED BY <1>4, <3>1
    <2> QED BY <2>3, <2>4
  <1> QED BY <1>3, <1>5, <1>6, <1>7 DEF IInv, Lokaal

LEMMA VoltooitHeel ==
    ASSUME IInv, HInv, NEW q \in Verzoeken, Voltooit(q)
    PROVE  HInv'
  <1>1. Komt(q)
    BY KomtFeit DEF Voltooit
  <1>2. q \in Lopend /\ SchrijftHeel(q)
    BY <1>1 DEF Komt, HInv
  <1>3. ASSUME NEW t \in Templates
        PROVE  SjabloonHeel(t)'
    <2>1. SjabloonHeel(t)
      BY DEF HInv
    <2>2. CASE /\ Live(t)' = Live(t)
               /\ rij'[Cat(t)] = rij[Cat(t)] /\ rij'[Vra(t)] = rij[Vra(t)]
      BY <2>1, <2>2 DEF SjabloonHeel
    <2>3. CASE \E d \in Documenten :
                 /\ DocumentGoed(d)
                 /\ rij'[Cat(t)] = LiveRij(t, Geen, Categorieen(d))
                 /\ rij'[Vra(t)] = LiveRij(t, Geen, VragenVan(d))
      BY <2>3, LiveRijFeit, DocumentHeel DEF SjabloonHeel
    <2>4. CASE /\ Live(t) /\ verzoek[q].op = "wijzig" /\ Vra(t) \in Geschreven(q)
               /\ rij'[Vra(t)] = Wordt(q, Vra(t))
               /\ rij'[Cat(t)] = IF Cat(t) \in Geschreven(q) THEN Wordt(q, Cat(t)) ELSE rij[Cat(t)]
      <3>1. IsRij(rij'[Vra(t)]) /\ VragenHeel(rij'[Vra(t)].inhoud)
        BY <1>2, <2>4 DEF SchrijftHeel
      <3>2. IsRij(rij'[Cat(t)]) /\ CategorieenHeel(rij'[Cat(t)].inhoud)
        BY <1>2, <2>1, <2>4 DEF SchrijftHeel, SjabloonHeel, Heel
      <3>3. Verwijst(rij'[Cat(t)].inhoud, rij'[Vra(t)].inhoud)
        BY <1>2, <2>4 DEF SchrijftHeel, CategorieenNa
      <3> QED BY <3>1, <3>2, <3>3 DEF SjabloonHeel, Heel
    <2> QED BY <1>1, <2>2, <2>3, <2>4, KomtHeel
  <1>4. ASSUME NEW t \in Templates, Live(t)
        PROVE  rij'[Cat(t)].inhoud \in {rij[Cat(t)].inhoud, rij[Cat(t)].inhoud \cup {ExtraCategorie}}
    BY <1>1, <1>2, <1>4, KomtHeel DEF SchrijftHeel
  <1>5. ASSUME NEW p \in Verzoeken, p # q, p \in Lopend', verzoek'[p].op = "wijzig"
        PROVE  SchrijftHeel(p)'
    <2>1. verzoek'[p] = verzoek[p] /\ SchrijftHeel(p)
      BY <1>1, <1>5 DEF Komt, Anders, HInv
    <2>2. /\ p \in Lopend /\ verzoek[p].op = "wijzig" /\ Geschreven(p)' = Geschreven(p)
          /\ \A k : Wordt(p, k)' = Wordt(p, k)
      BY <1>5, <2>1 DEF Lopend, Geschreven, Wordt
    <2>3. WijzigGoed(p)
      BY <2>2 DEF IInv, Lokaal, Importeert, Maakt
    <2>4. ASSUME NEW t \in Templates, Cat(t) \in Geschreven(p) \/ Vra(t) \in Geschreven(p)
          PROVE  Live(t)
      BY <2>3, <2>4, Sleutels DEF WijzigGoed
    <2>5. ASSUME NEW t \in Templates, Cat(t) \in Geschreven(p)
          PROVE  Wordt(p, Cat(t)).inhoud = rij'[Cat(t)].inhoud \cup {ExtraCategorie}
      <3>1. Wordt(p, Cat(t)).inhoud = rij[Cat(t)].inhoud \cup {ExtraCategorie}
        BY <2>1, <2>2, <2>5 DEF SchrijftHeel
      <3> QED BY <1>4, <2>4, <2>5, <3>1
    <2>6. ASSUME NEW t \in Templates, Vra(t) \in Geschreven(p)
          PROVE  Verwijst(CategorieenNa(p, t)', Wordt(p, Vra(t)).inhoud)
      <3>1. Verwijst(CategorieenNa(p, t), Wordt(p, Vra(t)).inhoud)
        BY <2>1, <2>2, <2>6 DEF SchrijftHeel
      <3>2. CategorieenNa(p, t) \subseteq CategorieenNa(p, t)'
        BY <1>4, <2>2, <2>4, <2>6 DEF CategorieenNa
      <3> QED BY <3>1, <3>2 DEF Verwijst
    <2> QED BY <2>1, <2>2, <2>5, <2>6 DEF SchrijftHeel
  <1>6. \A p \in Verzoeken : SchrijftHeel(p)'
    <2>1. SchrijftHeel(q)'
      BY <1>1 DEF Komt, SchrijftHeel
    <2>2. ASSUME NEW p \in Verzoeken, ~ (p \in Lopend' /\ verzoek'[p].op = "wijzig")
          PROVE  SchrijftHeel(p)'
      BY <2>2 DEF SchrijftHeel
    <2> QED BY <1>5, <2>1, <2>2
  <1>7. \A p \in Verzoeken : UitvoerHeelVan(p)'
    <2>1. uitvoer' = uitvoer /\ gewijzigd \subseteq gewijzigd'
      BY DEF Voltooit
    <2> QED BY <2>1 DEF HInv, UitvoerHeelVan
  <1> QED BY <1>3, <1>6, <1>7 DEF HInv

(* What is handed out is a template that is there.                         *)
LEMMA LeesVragenHeel ==
    ASSUME IInv, UInv, HInv, NEW q \in Verzoeken, LeesVragen(q)
    PROVE  HInv'
  <1> DEFINE naam == CHOOSE n \in Ziet(q, Kop(In(q).template)).inhoud : TRUE
             d == ExportDocument(naam, In(q).categorieen, Ziet(q, Vra(In(q).template)).inhoud)
             uit == [soort |-> verzoek[q].op, template |-> In(q).template, aantal |-> In(q).aantal,
                     document |-> d, categorieen |-> Ziet(q, Cat(In(q).template)).inhoud,
                     vragen |-> Ziet(q, Vra(In(q).template)).inhoud]
  <1>1. /\ LeesGoed(q) /\ verzoek[q].op \in {"exporteer", "detail"} /\ Verder(q, "klaar")
        /\ rij' = rij /\ gewijzigd' = gewijzigd
    BY AanDeBeurt, NaarVerder DEF LeesVragen
  <1>2. PICK t \in Templates : t = In(q).template /\ Live(t)
    BY <1>1 DEF LeesGoed
  <1>3. Ziet(q, Kop(t)) = rij[Kop(t)] /\ Ziet(q, Cat(t)) = rij[Cat(t)] /\ Ziet(q, Vra(t)) = rij[Vra(t)]
    <2>1. Geschreven(q) = {} /\ Kop(t) \in RijSleutels /\ Cat(t) \in RijSleutels /\ Vra(t) \in RijSleutels
      BY <1>1, Sleutels DEF LeesGoed
    <2> QED BY <2>1, ZietRij
  <1>4. \A p \in Verzoeken : uitvoer'[p] = IF p = q THEN uit ELSE uitvoer[p]
    BY DEF LeesVragen, UInv
  <1>5. d.name = naam[1] /\ d.version = naam[2]
    BY DEF ExportDocument
  <1> HIDE DEF d
  <1>6. /\ uit.template = t /\ uit.document = d
        /\ uit.categorieen = rij[Cat(t)].inhoud /\ uit.vragen = rij[Vra(t)].inhoud
    BY <1>2, <1>3
  <1>7. Heel(rij[Cat(t)].inhoud, rij[Vra(t)].inhoud)
    BY <1>2 DEF HInv, SjabloonHeel
  <1>8. ASSUME t \notin gewijzigd
        PROVE  \E e \in Documenten :
                 /\ DocumentGoed(e) /\ <<d.name, d.version>> = Naam(e)
                 /\ rij[Cat(t)].inhoud = Categorieen(e) /\ rij[Vra(t)].inhoud = VragenVan(e)
    <2>1. PICK e \in Documenten :
            /\ DocumentGoed(e)
            /\ rij[Kop(t)].inhoud = {Naam(e)} /\ Inhoud(t) = <<Categorieen(e), VragenVan(e)>>
      BY <1>2, <1>8 DEF IInv, Vast, UitEenDocument, Live
    <2>2. naam = Naam(e)
      BY <1>2, <1>3, <2>1
    <2>3. <<d.name, d.version>> = Naam(e)
      <3> HIDE DEF naam
      <3> QED BY <1>5, <2>2 DEF Naam
    <2> QED BY <2>1, <2>3 DEF Inhoud
  <1> HIDE DEF uit
  <1>9. \A p \in Verzoeken : UitvoerHeelVan(p)'
    <2>1. UitvoerHeelVan(q)'
      BY <1>1, <1>4, <1>6, <1>7, <1>8 DEF UitvoerHeelVan
    <2>2. ASSUME NEW p \in Verzoeken, p # q
          PROVE  UitvoerHeelVan(p)'
      BY <1>1, <1>4, <2>2 DEF HInv, UitvoerHeelVan
    <2> QED BY <2>1, <2>2
  <1>10. \A u \in Templates : SjabloonHeel(u)'
    BY <1>1 DEF HInv, SjabloonHeel, Live
  <1>11. ASSUME NEW p \in Verzoeken
         PROVE  SchrijftHeel(p)'
    <2>1. CASE p = q
      BY <1>1, <2>1 DEF Verder, SchrijftHeel
    <2>2. CASE p # q
      <3>1. verzoek'[p] = verzoek[p] /\ SchrijftHeel(p)
        BY <1>1, <2>2 DEF Verder, Anders, HInv
      <3>2. /\ (p \in Lopend') = (p \in Lopend) /\ Geschreven(p)' = Geschreven(p)
            /\ \A k : Wordt(p, k)' = Wordt(p, k)
            /\ \A u : CategorieenNa(p, u)' = CategorieenNa(p, u)
        BY <1>1, <3>1 DEF Lopend, Geschreven, Wordt, CategorieenNa
      <3> QED BY <1>1, <3>1, <3>2 DEF SchrijftHeel
    <2> QED BY <2>1, <2>2
  <1> QED BY <1>9, <1>10, <1>11 DEF HInv

LEMMA HInvStap ==
    ASSUME IInv, UInv, HInv, [Next]_vars
    PROVE  HInv'
  <1>1. CASE UNCHANGED vars
    <2>1. \A q \in Verzoeken : SchrijftHeel(q) /\ UitvoerHeelVan(q)
      BY DEF HInv
    <2>2. \A q \in Verzoeken : SchrijftHeel(q)'
      <3>1. /\ Lopend' = Lopend /\ verzoek' = verzoek /\ rij' = rij
            /\ \A q : Geschreven(q)' = Geschreven(q)
            /\ \A q, k : Wordt(q, k)' = Wordt(q, k)
            /\ \A q, t : CategorieenNa(q, t)' = CategorieenNa(q, t)
        BY <1>1 DEF vars, Lopend, Geschreven, Wordt, CategorieenNa
      <3> QED BY <2>1, <3>1 DEF SchrijftHeel
    <2> QED BY <1>1, <2>1, <2>2 DEF HInv, vars, UitvoerHeelVan, SjabloonHeel, Live
  <1>2. ASSUME NEW q \in Verzoeken, NEW op, NEW v, NEW pc, Begint(q, op, v, pc),
               UNCHANGED <<rij, uitvoer, gewijzigd>>
        PROVE  HInv'
    BY <1>2, BegonFeit, AndersHeel DEF Begon
  <1>3. ASSUME NEW q \in Verzoeken, NEW pc, Naar(q, pc), verzoek[q].op # "wijzig",
               UNCHANGED <<rij, uitvoer, gewijzigd>>
        PROVE  HInv'
    BY <1>3, NaarVerder, AndersHeel DEF Verder
  <1>4. ASSUME NEW q \in Verzoeken, NEW R, NEW wordt, NEW pc, Schrijft(q, R, wordt, pc),
               verzoek[q].op # "wijzig", UNCHANGED <<rij, uitvoer, gewijzigd>>
        PROVE  HInv'
    BY <1>4, SchreefFeit, AndersHeel DEF Schreef
  <1>5. ASSUME NEW q \in Verzoeken, NEW uitkomst \in Rust,
               verzoek' = [verzoek EXCEPT ![q] = [NieuwVerzoek EXCEPT !.pc = uitkomst]],
               UNCHANGED <<rij, uitvoer, gewijzigd>>
        PROVE  HInv'
    <2>1. Anders(q) /\ verzoek'[q].pc = uitkomst
      BY <1>5, EindeFeit DEF IInv
    <2>2. q \notin Lopend'
      BY <1>5, <2>1 DEF Lopend, Rust
    <2> QED BY <1>5, <2>1, <2>2, AndersHeel
  <1>6. ASSUME NEW q \in Verzoeken, Weigert(q), UNCHANGED <<rij, uitvoer, gewijzigd>>
        PROVE  HInv'
    BY <1>5, <1>6 DEF Weigert, Rust
  <1>7. ASSUME NEW q \in Verzoeken,
               \/ \E op \in {"importeer", "seed"}, d \in Documenten, t \in Templates : Importeer(q, op, d, t)
               \/ ZoekTemplate(q) \/ MaakTemplate(q) \/ MaakCategorieen(q) \/ MaakVragen(q)
        PROVE  HInv'
    <2>0. verzoek[q].pc \in {"zoek", "kop", "categorieen", "vragen"} => verzoek[q].op # "wijzig"
      BY AanDeBeurt DEF Importeert
    <2>1. CASE \E op \in {"importeer", "seed"}, d \in Documenten, t \in Templates : Importeer(q, op, d, t)
      BY <1>2, <1>6, <2>1 DEF Importeer, Blijft, Erna
    <2>2. CASE ZoekTemplate(q)
      BY <1>3, <1>6, <2>0, <2>2 DEF ZoekTemplate, Blijft, Erna
    <2>3. CASE MaakTemplate(q)
      BY <1>4, <1>5, <2>0, <2>3 DEF MaakTemplate, Blijft, Erna, Rust
    <2>4. CASE MaakCategorieen(q)
      BY <1>4, <2>0, <2>4 DEF MaakCategorieen, Blijft, Erna
    <2>5. CASE MaakVragen(q)
      BY <1>4, <2>0, <2>5 DEF MaakVragen, Blijft, Erna
    <2> QED BY <1>7, <2>1, <2>2, <2>3, <2>4, <2>5
  <1>8. ASSUME NEW q \in Verzoeken,
               \/ \E t \in Templates, r \in Rondes : MaakRonde(q, t, r)
               \/ TelVragen(q) \/ SchrijfRonde(q)
               \/ \E r \in Rondes, s \in STATUSSEN : WijzigStatus(q, r, s)
               \/ \E r \in Rondes : Archiveer(q, r)
               \/ SchrijfStatus(q)
               \/ \E r \in Rondes : HaalVragenlijst(q, r)
        PROVE  HInv'
    <2>0. verzoek[q].pc \in {"telVragen", "ronde", "status"} => verzoek[q].op # "wijzig"
      BY AanDeBeurt DEF Maakt
    <2>1. CASE \E t \in Templates, r \in Rondes : MaakRonde(q, t, r)
      BY <1>2, <2>1 DEF MaakRonde, Blijft, Erna
    <2>2. CASE TelVragen(q)
      BY <1>3, <1>6, <2>0, <2>2 DEF TelVragen, Blijft, Erna
    <2>3. CASE SchrijfRonde(q)
      BY <1>4, <2>0, <2>3 DEF SchrijfRonde, Blijft, Erna
    <2>4. CASE \E r \in Rondes, s \in STATUSSEN : WijzigStatus(q, r, s)
      BY <1>2, <2>4 DEF WijzigStatus, Blijft, Erna
    <2>5. CASE \E r \in Rondes : Archiveer(q, r)
      BY <1>2, <2>5 DEF Archiveer, Blijft, Erna
    <2>6. CASE SchrijfStatus(q)
      BY <1>4, <2>0, <2>6 DEF SchrijfStatus, Blijft, Erna
    <2>7. CASE \E r \in Rondes : HaalVragenlijst(q, r)
      BY <1>2, <2>7 DEF HaalVragenlijst
    <2> QED BY <1>8, <2>1, <2>2, <2>3, <2>4, <2>5, <2>6, <2>7
  <1>9. ASSUME NEW q \in Verzoeken,
               \/ \E t, doel \in Templates : Wijziging(q, t, doel)
               \/ VraagWeg(q) \/ VraagErbij(q) \/ VraagVerplaatst(q) \/ VraagGeweigerd(q)
        PROVE  HInv'
    <2>1. CASE \E t, doel \in Templates : Wijziging(q, t, doel)
      BY <1>2, <2>1 DEF Wijziging, Blijft, Erna
    <2>2. CASE VraagGeweigerd(q)
      BY <1>6, <2>2 DEF VraagGeweigerd, Blijft, Erna
    <2> QED BY <1>9, <2>1, <2>2, VraagStapHeel
  <1>10. ASSUME NEW q \in Verzoeken,
                \/ \E t \in Templates : Exporteer(q, t) \/ Detail(q, t)
                \/ LeesCategorieen(q) \/ LeesVragen(q)
         PROVE  HInv'
    <2>1. CASE \E t \in Templates : Exporteer(q, t) \/ Detail(q, t)
      BY <1>2, <2>1 DEF Exporteer, Detail, Blijft, Erna
    <2>2. CASE LeesCategorieen(q)
      <3>1. Anders(q) /\ verzoek'[q].op = verzoek[q].op /\ verzoek[q].op \in {"exporteer", "detail"}
        BY <2>2, AanDeBeurt, LeesCategorieenFeit DEF LeesCategorieen
      <3> QED BY <2>2, <3>1, AndersHeel DEF LeesCategorieen, Blijft, Erna
    <2> QED BY <1>10, <2>1, <2>2, LeesVragenHeel
  <1>11. ASSUME NEW q \in Verzoeken, Voltooit(q) \/ Mislukt(q)
         PROVE  HInv'
    <2>1. CASE Mislukt(q)
      BY <1>5, <2>1 DEF Mislukt, Rollback, Erna, Rust
    <2> QED BY <1>11, <2>1, VoltooitHeel
  <1> QED BY <1>1, <1>7, <1>8, <1>9, <1>10, <1>11 DEF Next

LEMMA InvGeeftHeel ==
    ASSUME IInv, UInv, HInv
    PROVE  HeleVragenlijst
  <1>1. UitEenDocument /\ UitvoerEenMoment
    BY DEF IInv, Vast, UInv, UitvoerVast, UitvoerEenMoment
  <1>2. ASSUME NEW q \in Verzoeken \ verstoord, uitvoer[q] # Geen
        PROVE  LET d == uitvoer[q].document IN
               /\ Categorieen(d) = uitvoer[q].categorieen /\ VragenVan(d) = uitvoer[q].vragen
               /\ uitvoer[q].template \notin gewijzigd => DocumentGoed(d)
    <2>1. PICK d : d = uitvoer[q].document
      OBVIOUS
    <2>2. d = ExportDocument(<<d.name, d.version>>, uitvoer[q].categorieen, uitvoer[q].vragen)
      BY <1>2, <2>1 DEF UInv, UitvoerVast
    <2>3. UitvoerHeelVan(q)
      BY DEF HInv
    <2>4. Heel(uitvoer[q].categorieen, uitvoer[q].vragen)
      BY <1>2, <2>3 DEF UitvoerHeelVan
    <2>5. Categorieen(d) = uitvoer[q].categorieen /\ VragenVan(d) = uitvoer[q].vragen
      BY <2>2, <2>4, LeestTerug
    <2>6. ASSUME uitvoer[q].template \notin gewijzigd
          PROVE  DocumentGoed(d)
      <3>1. PICK e \in Documenten :
              /\ DocumentGoed(e) /\ <<d.name, d.version>> = Naam(e)
              /\ uitvoer[q].categorieen = Categorieen(e) /\ uitvoer[q].vragen = VragenVan(e)
        BY <1>2, <2>1, <2>3, <2>6 DEF UitvoerHeelVan
      <3>2. d = ExportDocument(Naam(e), Categorieen(e), VragenVan(e))
        BY <2>2, <3>1
      <3> QED BY <3>1, <3>2, ExportGoed
    <2> QED BY <2>1, <2>5, <2>6
  <1> QED BY <1>1, <1>2 DEF HeleVragenlijst

(* A template is one whole document however imports overlap and wherever   *)
(* they stop; an export or a screen is of one moment; and what is exported *)
(* reads back as the rows it was made of, as a document that passes the    *)
(* validation when its template came from one.                             *)
THEOREM VragenlijstHeel == Spec => []HeleVragenlijst
  BY UInvBegin, UInvStap, HInvBegin, HInvStap, InvGeeftHeel, IInvBegin, IInvStap, PTL DEF Spec

-----------------------------------------------------------------------------
(* Answers to a question that came out of a document.                      *)

IsAntwoord(a) ==
    /\ Gevuld(a.comment) => IsTekst(a.comment)
    /\ Gevuld(a.answerText) => IsTekst(a.answerText)
    /\ Gevuld(a.answerCodes) => a.answerCodes \in Seq(STRING)

LEMMA VraagRijFeit ==
    ASSUME NEW v, VraagGoed(v), DOMAIN v = Vraagvelden
    PROVE  LET w == VraagRij(v) IN
           /\ w.answer_type \in ANTWOORDTYPEN /\ w.answer_type = v.answer_type
           /\ w.comment = v.comment /\ w.decimals = v.decimals
           /\ w.answer_type = "confirmation" => w.comment # "none"
  <1>1. VraagRij(v).answer_type = v.answer_type /\ VraagRij(v).comment = v.comment
        /\ VraagRij(v).decimals = v.decimals
    BY DEF VraagRij, Vraagvelden
  <1>2. v.answer_type = "confirmation" => v.comment # "none"
    BY VragenlijstenGeen DEF VraagGoed, CommentGoed, COMMENTWAARDEN
  <1> QED BY <1>1, <1>2 DEF VraagGoed

LEMMA RijFeit ==
    ASSUME NEW v, NEW a
    PROVE  LET r == GeldigAntwoord(v, a)   t == v.answer_type IN
           /\ r.answer_type = t
           /\ r.answer_code = IF t \in MetCode THEN a.answerCode ELSE Geen
           /\ r.answer_codes = IF t = "multi_choice" THEN a.answerCodes ELSE Geen
           /\ r.answer_text = IF t = "open_text" THEN a.answerText ELSE Geen
           /\ r.answer_number = IF t \in {"rating", "number"} THEN a.answerNumber ELSE Geen
           /\ r.comment = IF Gevuld(a.comment) /\ a.comment.kaal > 0 /\ v.comment # "none"
                          THEN a.comment ELSE Geen
  BY DEF GeldigAntwoord

(* The value is in the one column the type has.                            *)
LEMMA VormPast ==
    ASSUME NEW v, NEW a, NEW n, IsAntwoord(a), v.answer_type \in ANTWOORDTYPEN,
           WaardeGoed(v, a, n)
    PROVE  survey_answer_shape_check(GeldigAntwoord(v, a))
  <1> DEFINE r == GeldigAntwoord(v, a)
  <1>0. /\ r.answer_type = v.answer_type
        /\ r.answer_code = IF v.answer_type \in MetCode THEN a.answerCode ELSE Geen
        /\ r.answer_codes = IF v.answer_type = "multi_choice" THEN a.answerCodes ELSE Geen
        /\ r.answer_text = IF v.answer_type = "open_text" THEN a.answerText ELSE Geen
        /\ r.answer_number = IF v.answer_type \in {"rating", "number"} THEN a.answerNumber ELSE Geen
    BY RijFeit
  <1> SUFFICES survey_answer_shape_check(r)
    OBVIOUS
  <1> HIDE DEF r
  <1>1. CASE v.answer_type = "confirmation"
    <2>1. a.answerCode \in BEVESTIGINGSCODES
      BY <1>1 DEF WaardeGoed
    <2>2. /\ r.answer_code # Geen /\ r.answer_codes = Geen
          /\ r.answer_text = Geen /\ r.answer_number = Geen
      BY <1>0, <1>1, <2>1, VragenlijstenGeen DEF MetCode, Gevuld, IsGetal, IsGeheelGetal
    <2>3. Kolommen(r) = {"answer_code"}
      BY <2>2 DEF Kolommen
    <2> QED BY <1>0, <1>1, <2>1, <2>3 DEF survey_answer_shape_check, MetCode
  <1>2. CASE v.answer_type = "yes_no"
    <2>1. a.answerCode \in {"yes", "no"}
      BY <1>2 DEF WaardeGoed
    <2>2. /\ r.answer_code # Geen /\ r.answer_codes = Geen
          /\ r.answer_text = Geen /\ r.answer_number = Geen
      BY <1>0, <1>2, <2>1, VragenlijstenGeen DEF MetCode, Gevuld, IsGetal, IsGeheelGetal
    <2>3. Kolommen(r) = {"answer_code"}
      BY <2>2 DEF Kolommen
    <2> QED BY <1>0, <1>2, <2>1, <2>3 DEF survey_answer_shape_check, MetCode
  <1>3. CASE v.answer_type = "single_choice"
    <2>1. Gevuld(a.answerCode)
      BY <1>3 DEF WaardeGoed
    <2>2. /\ r.answer_code # Geen /\ r.answer_codes = Geen
          /\ r.answer_text = Geen /\ r.answer_number = Geen
      BY <1>0, <1>3, <2>1, VragenlijstenGeen DEF MetCode, Gevuld, IsGetal, IsGeheelGetal
    <2>3. Kolommen(r) = {"answer_code"}
      BY <2>2 DEF Kolommen
    <2> QED BY <1>0, <1>3, <2>1, <2>3 DEF survey_answer_shape_check, MetCode
  <1>4. CASE v.answer_type = "multi_choice"
    <2>1. Gevuld(a.answerCodes) /\ Len(a.answerCodes) >= 1
      BY <1>4 DEF WaardeGoed, IsAntwoord
    <2>2. /\ r.answer_code = Geen /\ r.answer_codes # Geen
          /\ r.answer_text = Geen /\ r.answer_number = Geen
      BY <1>0, <1>4, <2>1, VragenlijstenGeen DEF MetCode, Gevuld, IsGetal, IsGeheelGetal
    <2>3. Kolommen(r) = {"answer_codes"}
      BY <2>2 DEF Kolommen
    <2> QED BY <1>0, <1>4, <2>1, <2>3 DEF survey_answer_shape_check, MetCode
  <1>5. CASE v.answer_type = "open_text"
    <2>1. Gevuld(a.answerText) /\ a.answerText.tekens >= 1
      BY <1>5 DEF WaardeGoed, IsAntwoord, IsTekst
    <2>2. /\ r.answer_code = Geen /\ r.answer_codes = Geen
          /\ r.answer_text # Geen /\ r.answer_number = Geen
      BY <1>0, <1>5, <2>1, VragenlijstenGeen DEF MetCode, Gevuld, IsGetal, IsGeheelGetal
    <2>3. Kolommen(r) = {"answer_text"}
      BY <2>2 DEF Kolommen
    <2> QED BY <1>0, <1>5, <2>1, <2>3 DEF survey_answer_shape_check, MetCode
  <1>6. CASE v.answer_type = "rating"
    <2>1. IsGeheelGetal(a.answerNumber)
      BY <1>6 DEF WaardeGoed
    <2>2. /\ r.answer_code = Geen /\ r.answer_codes = Geen
          /\ r.answer_text = Geen /\ r.answer_number # Geen
      BY <1>0, <1>6, <2>1, VragenlijstenGeen DEF MetCode, Gevuld, IsGetal, IsGeheelGetal
    <2>3. Kolommen(r) = {"answer_number"}
      BY <2>2 DEF Kolommen
    <2> QED BY <1>0, <1>6, <2>1, <2>3 DEF survey_answer_shape_check, MetCode, IsGeheelGetal
  <1>7. CASE v.answer_type = "number"
    <2>1. IsGetal(a.answerNumber)
      BY <1>7 DEF WaardeGoed
    <2>2. /\ r.answer_code = Geen /\ r.answer_codes = Geen
          /\ r.answer_text = Geen /\ r.answer_number # Geen
      BY <1>0, <1>7, <2>1, VragenlijstenGeen DEF MetCode, Gevuld, IsGetal, IsGeheelGetal
    <2>3. Kolommen(r) = {"answer_number"}
      BY <2>2 DEF Kolommen
    <2> QED BY <1>0, <1>7, <2>1, <2>3 DEF survey_answer_shape_check, MetCode
  <1>8. CASE v.answer_type = "file_upload"
    <2>1. /\ r.answer_code = Geen /\ r.answer_codes = Geen
          /\ r.answer_text = Geen /\ r.answer_number = Geen
      BY <1>0, <1>8 DEF MetCode
    <2>2. Kolommen(r) = {}
      BY <2>1 DEF Kolommen
    <2> QED BY <1>0, <1>8, <2>2 DEF survey_answer_shape_check
  <1>9. CASE v.answer_type = "instruction"
    BY <1>9 DEF WaardeGoed
  <1> QED BY <1>1, <1>2, <1>3, <1>4, <1>5, <1>6, <1>7, <1>8, <1>9 DEF ANTWOORDTYPEN

(* What toetsAntwoord accepts as an answer to a question that a document   *)
(* brought in, the CHECKs of migration 0005 accept as a row, and no number *)
(* has more decimals than it may; but for a remark that is shorter in      *)
(* characters than in UTF-16 units, and a number nearer to zero than a     *)
(* millionth.                                                              *)
THEOREM AntwoordInTabel ==
    ASSUME NEW vraag, VraagGoed(vraag), DOMAIN vraag = Vraagvelden,
           NEW a, IsAntwoord(a), NEW n, ToetsAntwoord(VraagRij(vraag), a, n)
    PROVE  LET v == VraagRij(vraag)   r == GeldigAntwoord(v, a) IN
           /\ survey_answer_shape_check(r)
           /\ survey_answer_comment_length_check(r)
           /\ \/ survey_answer_comment_required_check(r)
              \/ r.comment # Geen /\ r.comment.tekens < r.comment.kaal
           /\ v.answer_type = "number" /\ Gevuld(v.decimals) =>
                EchteDecimalen(r.answer_number) * EEN <= v.decimals \/ r.answer_number \in -9..9
  <1> DEFINE v == VraagRij(vraag)   r == GeldigAntwoord(v, a)
  <1>1. /\ v.answer_type \in ANTWOORDTYPEN
        /\ v.answer_type = "confirmation" => v.comment # "none"
    BY VraagRijFeit
  <1>2. WaardeGoed(v, a, n) /\ ToelichtingGoed(v, a)
    BY DEF ToetsAntwoord
  <1>3. /\ r.answer_type = v.answer_type
        /\ v.answer_type \in MetCode => r.answer_code = a.answerCode
        /\ v.answer_type = "number" => r.answer_number = a.answerNumber
        /\ r.comment = IF Gevuld(a.comment) /\ a.comment.kaal > 0 /\ v.comment # "none"
                       THEN a.comment ELSE Geen
    BY RijFeit
  <1>4. survey_answer_shape_check(r)
    BY <1>1, <1>2, VormPast
  <1> HIDE DEF v, r
  <1>5. survey_answer_comment_length_check(r)
    <2>1. ASSUME r.comment # Geen
          PROVE  /\ r.comment = a.comment /\ a.comment.lengte <= 2000
                 /\ a.comment.heel \in Nat /\ a.comment.lengte \in Nat
                 /\ a.comment.heel <= a.comment.lengte
      <3>1. Gevuld(a.comment) /\ r.comment = a.comment
        BY <1>3, <2>1
      <3>2. a.comment.lengte <= 2000
        BY <1>2, <3>1 DEF ToelichtingGoed, TOELICHTING_MAXIMUM
      <3> QED BY <3>1, <3>2 DEF IsAntwoord, IsTekst
    <2> QED BY <2>1 DEF survey_answer_comment_length_check, TOELICHTING_MAXIMUM
  <1>6. survey_answer_comment_required_check(r) \/ (r.comment # Geen /\ r.comment.tekens < r.comment.kaal)
    <2>1. CASE r.answer_type = "confirmation" /\ r.answer_code # "confirmed"
      <3>1. /\ Gevuld(a.comment) /\ a.comment.kaal >= 10 /\ a.comment.kaal \in Nat
            /\ a.comment.tekens \in Nat
        BY <1>2, <1>3, <2>1 DEF ToelichtingGoed, ToelichtingVerplicht, MetCode, IsAntwoord, IsTekst,
           TOELICHTING_MINIMUM
      <3>2. r.comment = a.comment /\ r.comment # Geen
        BY <1>1, <1>3, <2>1, <3>1 DEF Gevuld
      <3> QED BY <3>1, <3>2 DEF survey_answer_comment_required_check, TOELICHTING_MINIMUM
    <2> QED BY <2>1 DEF survey_answer_comment_required_check
  <1>7. ASSUME v.answer_type = "number", Gevuld(v.decimals)
        PROVE  EchteDecimalen(r.answer_number) * EEN <= v.decimals \/ r.answer_number \in -9..9
    <2>1. a.answerNumber \in Int /\ Decimalen(a.answerNumber) * EEN <= v.decimals
      BY <1>2, <1>7 DEF WaardeGoed, IsGetal, NietBoven
    <2>2. EchteDecimalen(a.answerNumber) * EEN <= v.decimals \/ a.answerNumber \in -9..9
      BY <2>1 DEF Decimalen, EchteDecimalen
    <2> QED BY <1>3, <1>7, <2>2
  <1> QED BY <1>4, <1>5, <1>6, <1>7 DEF v, r

-----------------------------------------------------------------------------
(* Questions that can be answered.                                         *)

(* The eight units.                                                        *)
LEMMA EenheidFeit ==
    /\ Eenheid(0) = 10000000 /\ Eenheid(1) = 1000000 /\ Eenheid(2) = 100000 /\ Eenheid(3) = 10000
    /\ Eenheid(4) = 1000 /\ Eenheid(5) = 100 /\ Eenheid(6) = 10 /\ Eenheid(7) = 1
    /\ \A d \in 0..7 : Eenheid(d) \in {10000000, 1000000, 100000, 10000, 1000, 100, 10, 1}
  BY SMT DEF Eenheid, EEN

(* What is whole in units of one digit is whole in those of the next.      *)
LEMMA EenheidDeelt ==
    ASSUME NEW x \in Int, NEW d \in 0..7, NEW e \in 0..7, d <= e, x % Eenheid(d) = 0
    PROVE  x % Eenheid(e) = 0
  <1>1. /\ x % 10000000 = 0 => x % 1000000 = 0
        /\ x % 1000000 = 0 => x % 100000 = 0
        /\ x % 100000 = 0 => x % 10000 = 0
        /\ x % 10000 = 0 => x % 1000 = 0
        /\ x % 1000 = 0 => x % 100 = 0
        /\ x % 100 = 0 => x % 10 = 0
        /\ x % 1 = 0
    OBVIOUS
  <1>2. d \in {0, 1, 2, 3, 4, 5, 6, 7} /\ e \in {0, 1, 2, 3, 4, 5, 6, 7}
    OBVIOUS
  <1> QED BY <1>1, <1>2, EenheidFeit

(* Rounding down to a whole number of units.                               *)
LEMMA Afgerond ==
    ASSUME NEW b \in Int, NEW d \in 0..7
    PROVE  LET f == (b \div Eenheid(d)) * Eenheid(d) IN
           /\ f \in Int /\ f <= b /\ f % Eenheid(d) = 0
           /\ \A x \in Int : x % Eenheid(d) = 0 /\ x <= b => x <= f
  <1>1. ASSUME NEW u \in {10000000, 1000000, 100000, 10000, 1000, 100, 10, 1}
        PROVE  /\ (b \div u) * u \in Int /\ (b \div u) * u <= b /\ ((b \div u) * u) % u = 0
               /\ \A x \in Int : x % u = 0 /\ x <= b => x <= (b \div u) * u
    <2>1. CASE u = 10000000  BY <2>1
    <2>2. CASE u = 1000000  BY <2>2
    <2>3. CASE u = 100000  BY <2>3
    <2>4. CASE u = 10000  BY <2>4
    <2>5. CASE u = 1000  BY <2>5
    <2>6. CASE u = 100  BY <2>6
    <2>7. CASE u = 10  BY <2>7
    <2>8. CASE u = 1  BY <2>8
    <2> QED BY <2>1, <2>2, <2>3, <2>4, <2>5, <2>6, <2>7, <2>8
  <1> QED BY <1>1, EenheidFeit

(* A number has at most k decimals exactly when it is a whole number of    *)
(* units of the k-th digit.                                                *)
LEMMA DecimalenFeit ==
    ASSUME NEW x \in Int, NEW k \in 0..7
    PROVE  /\ EchteDecimalen(x) \in 0..7
           /\ EchteDecimalen(x) <= k <=> x % Eenheid(k) = 0
  <1> DEFINE S == {d \in 0..7 : x % Eenheid(d) = 0}
  <1>1. S \in SUBSET Nat /\ 7 \in S
    BY EenheidFeit
  <1>2. PICK m \in S : \A y \in S : m <= y
    BY <1>1, EersteGetal
  <1>3. Kleinste(S) \in S /\ \A y \in S : Kleinste(S) <= y
    BY <1>2 DEF Kleinste
  <1>4. EchteDecimalen(x) = Kleinste(S)
    BY DEF EchteDecimalen
  <1>5. EchteDecimalen(x) \in 0..7 /\ x % Eenheid(EchteDecimalen(x)) = 0
        /\ \A y \in 0..7 : x % Eenheid(y) = 0 => EchteDecimalen(x) <= y
    BY <1>3, <1>4
  <1> HIDE DEF S
  <1> QED BY <1>5, EenheidDeelt

LEMMA TotEnMet ==
    ASSUME NEW n \in Int
    PROVE  \A x : x \in 0..n <=> x \in Int /\ 0 <= x /\ x <= n
  OBVIOUS

LEMMA HeleEenheden ==
    ASSUME NEW x \in Int, 0 <= x, x <= 6 * EEN, x % EEN = 0
    PROVE  x \div EEN \in 0..6 /\ x = (x \div EEN) * EEN
  BY SMT DEF EEN

(* What a document must say of the limits of a number.                     *)
Getalgrenzen(v) ==
    /\ v.decimals # Geen => IsGeheelGetal(v.decimals) /\ v.decimals \in 0 .. 6 * EEN
    /\ v.min # Geen => IsGetal(v.min) /\ NietBoven(v.min, v.max)
    /\ v.max # Geen => IsGetal(v.max)
    /\ v.format = "pct" => (v.min # Geen => v.min >= 0) /\ (v.max # Geen => v.max <= 100 * EEN)

(* A number that is in range and has no more decimals than it may.         *)
GetalGoed(v, x) ==
    /\ BinnenBereik(v, x)
    /\ NietBoven(Decimalen(x) * EEN, v.decimals)
    /\ v.format = "pct" => x \in 0 .. 100 * EEN

LEMMA GetalBestaat ==
    ASSUME NEW v, v.answer_type = "number", Getalgrenzen(v)
    PROVE  (\E x \in Int : GetalGoed(v, x)) <=> ~Onmogelijk(v)
  <1>e. EEN \in Int /\ 6 * EEN \in Int /\ 100 * EEN \in Int /\ 0 < EEN
    BY SMT DEF EEN
  <1>1. /\ v.min # Geen => Gevuld(v.min) /\ v.min \in Int
        /\ v.max # Geen => Gevuld(v.max) /\ v.max \in Int
        /\ v.decimals # Geen => Gevuld(v.decimals) /\ v.decimals \in Int /\ v.decimals % EEN = 0
                              /\ 0 <= v.decimals /\ v.decimals <= 6 * EEN
        /\ v.format = "pct" => (v.min # Geen => v.min >= 0) /\ (v.max # Geen => v.max <= 100 * EEN)
    BY <1>e, TotEnMet DEF Getalgrenzen, IsGetal, IsGeheelGetal
  <1>2. ~Gevuld(Geen) /\ 0 # Geen /\ 100 * EEN # Geen /\ Gevuld(0) /\ Gevuld(100 * EEN)
    BY SMT, VragenlijstenWaarden DEF Gevuld, EEN
  <1>3. PICK d \in 0..7 : /\ Stap(v) = Eenheid(d)
                          /\ \A x \in Int : NietBoven(Decimalen(x) * EEN, v.decimals) <=>
                               x \in -9..9 \/ x % Stap(v) = 0
    <2>1. CASE v.decimals = Geen
      <3>1. Stap(v) = Eenheid(7)
        BY <1>2, <2>1, EenheidFeit DEF Stap
      <3>2. \A x \in Int : NietBoven(Decimalen(x) * EEN, v.decimals) /\ x % Stap(v) = 0
        BY <1>2, <2>1, <3>1, EenheidFeit DEF NietBoven
      <3> QED BY <3>1, <3>2
    <2>2. CASE v.decimals # Geen
      <3>1. PICK d \in 0..6 : v.decimals = d * EEN /\ v.decimals \div EEN = d
        BY <1>1, <2>2, HeleEenheden
      <3>2. Stap(v) = Eenheid(d)
        BY <1>1, <2>2, <3>1 DEF Stap
      <3>3. ASSUME NEW x \in Int
            PROVE  NietBoven(Decimalen(x) * EEN, v.decimals) <=> x \in -9..9 \/ x % Stap(v) = 0
        <4>1. Decimalen(x) \in 0..7 /\ (Decimalen(x) <= d <=> x \in -9..9 \/ x % Eenheid(d) = 0)
          BY <3>1, DecimalenFeit DEF Decimalen
        <4>2. NietBoven(Decimalen(x) * EEN, v.decimals) <=> Decimalen(x) * EEN <= d * EEN
          BY <1>1, <2>2, <3>1 DEF NietBoven
        <4>3. Decimalen(x) * EEN <= d * EEN <=> Decimalen(x) <= d
          BY SMT, <3>1, <4>1 DEF EEN
        <4> QED BY <3>2, <4>1, <4>2, <4>3
      <3> QED BY <3>2, <3>3
    <2> QED BY <2>1, <2>2
  <1> DEFINE l == Onder(v)   u == Boven(v)
  <1>4. /\ Gevuld(l) => l \in Int
        /\ Gevuld(u) => u \in Int
        /\ \A x \in Int : BinnenBereik(v, x) /\ (v.format = "pct" => x \in 0 .. 100 * EEN) <=>
             (Gevuld(l) => l <= x) /\ (Gevuld(u) => x <= u)
        /\ Gevuld(l) /\ Gevuld(u) /\ v.format # "pct" => l <= u
    <2>1. CASE v.format = "pct"
      <3>1. l = (IF v.min = Geen THEN 0 ELSE v.min) /\ u = (IF v.max = Geen THEN 100 * EEN ELSE v.max)
        BY <2>1 DEF Onder, Boven, Of
      <3>2. Gevuld(l) /\ Gevuld(u) /\ l \in Int /\ u \in Int
        BY <1>e, <1>1, <1>2, <3>1
      <3>3. ASSUME NEW x \in Int
            PROVE  BinnenBereik(v, x) /\ x \in 0 .. 100 * EEN <=> l <= x /\ x <= u
        <4>1. BinnenBereik(v, x) <=> (Gevuld(v.min) => x >= v.min) /\ (Gevuld(v.max) => x <= v.max)
          BY DEF BinnenBereik, NietOnder, NietBoven
        <4>2. x \in 0 .. 100 * EEN <=> 0 <= x /\ x <= 100 * EEN
          BY <1>e, TotEnMet
        <4> HIDE DEF l, u
        <4>3. CASE v.min = Geen /\ v.max = Geen
          BY <1>2, <3>1, <4>1, <4>2, <4>3
        <4>4. CASE v.min # Geen /\ v.max = Geen
          BY <1>e, <1>1, <1>2, <2>1, <3>1, <4>1, <4>2, <4>4
        <4>5. CASE v.min = Geen /\ v.max # Geen
          BY <1>e, <1>1, <1>2, <2>1, <3>1, <4>1, <4>2, <4>5
        <4>6. CASE v.min # Geen /\ v.max # Geen
          BY <1>e, <1>1, <1>2, <2>1, <3>1, <4>1, <4>2, <4>6
        <4> QED BY <4>3, <4>4, <4>5, <4>6
      <3> HIDE DEF l, u
      <3> QED BY <2>1, <3>2, <3>3
    <2>2. CASE v.format # "pct"
      <3>1. l = v.min /\ u = v.max
        BY <2>2 DEF Onder, Boven
      <3>2. v.min # Geen /\ v.max # Geen => v.min <= v.max
        BY <1>1 DEF Getalgrenzen, NietBoven
      <3> QED BY <1>1, <1>2, <2>2, <3>1, <3>2 DEF BinnenBereik, NietOnder, NietBoven
    <2> QED BY <2>1, <2>2
  <1>5. Onmogelijk(v) <=> /\ Gevuld(l) /\ Gevuld(u)
                          /\ (u \div Stap(v)) * Stap(v) < l
                          /\ \A x \in -9..9 : x < l \/ x > u
    BY Zenon DEF Onmogelijk
  <1> HIDE DEF l, u
  <1>6. \A x \in Int : GetalGoed(v, x) <=> /\ (Gevuld(l) => l <= x) /\ (Gevuld(u) => x <= u)
                                           /\ x \in -9..9 \/ x % Stap(v) = 0
    BY <1>3, <1>4 DEF GetalGoed
  <1>7. CASE ~Gevuld(l) /\ ~Gevuld(u)
    <2>1. 0 \in -9..9 /\ GetalGoed(v, 0)
      BY <1>6, <1>7
    <2> QED BY <1>5, <1>7, <2>1
  <1>8. CASE ~Gevuld(l) /\ Gevuld(u)
    <2>1. PICK f \in Int : f <= u /\ f % Stap(v) = 0
      BY <1>3, <1>4, <1>8, Afgerond
    <2>2. GetalGoed(v, f)
      BY <1>6, <1>8, <2>1
    <2> QED BY <1>5, <1>8, <2>2
  <1>9. CASE Gevuld(l) /\ ~Gevuld(u)
    <2>1. PICK f \in Int : l <= f /\ f % Eenheid(0) = 0
      BY <1>4, <1>9, EenheidFeit
    <2>2. f % Stap(v) = 0
      BY <1>3, <2>1, EenheidDeelt
    <2>3. GetalGoed(v, f)
      BY <1>6, <1>9, <2>1, <2>2
    <2> QED BY <1>5, <1>9, <2>3
  <1>10. CASE Gevuld(l) /\ Gevuld(u)
    <2> DEFINE f == (u \div Stap(v)) * Stap(v)
    <2>1. /\ f \in Int /\ f <= u /\ f % Stap(v) = 0
          /\ \A x \in Int : x % Stap(v) = 0 /\ x <= u => x <= f
      BY <1>3, <1>4, <1>10, Afgerond
    <2>2. Onmogelijk(v) <=> f < l /\ \A x \in -9..9 : x < l \/ x > u
      BY <1>5, <1>10
    <2> HIDE DEF f
    <2>3. ASSUME Onmogelijk(v), NEW x \in Int, GetalGoed(v, x)
          PROVE  FALSE
      <3>1. l <= x /\ x <= u /\ (x \in -9..9 \/ x % Stap(v) = 0)
        BY <1>6, <1>10, <2>3
      <3> QED BY <1>4, <1>10, <2>1, <2>2, <2>3, <3>1
    <2>4. ASSUME ~Onmogelijk(v)
          PROVE  \E x \in Int : GetalGoed(v, x)
      <3>1. CASE l <= f
        BY <1>6, <1>10, <2>1, <3>1
      <3>2. CASE \E x \in -9..9 : l <= x /\ x <= u
        BY <1>6, <1>10, <3>2
      <3> QED BY <1>4, <1>10, <2>1, <2>2, <2>4, <3>1, <3>2
    <2> QED BY <2>3, <2>4
  <1> QED BY <1>7, <1>8, <1>9, <1>10

(* There is an answer that toetsAntwoord accepts, with some number of      *)
(* files.                                                                  *)
Beantwoordbaar(v) ==
    \E a : \E n \in Nat : IsAntwoord(a) /\ ToetsAntwoord(v, a, n)

(* What a question of a document is once it is stored: of its upload, the  *)
(* limits of its type and its options.                                     *)
Opgeslagen(v) ==
    /\ v.answer_type \in ANTWOORDTYPEN
    /\ v.allows_upload \in BOOLEAN /\ v.max_files \in Nat
    /\ v.allows_upload <=> v.max_files >= 1
    /\ v.answer_type = "number" => Getalgrenzen(v)
    /\ v.answer_type = "rating" => IsGeheelGetal(v.min) /\ IsGeheelGetal(v.max) /\ v.min < v.max
    /\ v.answer_type \in {"multi_choice", "open_text"} =>
         /\ v.min # Geen => IsGeheelGetal(v.min) /\ v.min >= 0 /\ NietBoven(v.min, v.max)
         /\ v.max # Geen => IsGeheelGetal(v.max) /\ v.max >= EEN
    /\ Keuze(v) => v.options \in Seq(STRING) /\ v.options # <<>> /\ IsInjective(v.options)

LEMMA Opslaan ==
    ASSUME NEW vraag, VraagGoed(vraag), DOMAIN vraag = Vraagvelden,
           Gevuld(vraag.options) => vraag.options \in Seq(STRING)
    PROVE  Opgeslagen(VraagRij(vraag)) /\ VraagRij(vraag).answer_type = vraag.answer_type
  <1> DEFINE v == VraagRij(vraag)
  <1>1. /\ v.answer_type = vraag.answer_type /\ v.options = vraag.options /\ v.min = vraag.min
        /\ v.max = vraag.max /\ v.decimals = vraag.decimals /\ v.format = vraag.format
        /\ v.allows_upload = Of(vraag.allows_upload, FALSE) /\ v.max_files = Of(vraag.max_files, 0)
    BY DEF VraagRij, Vraagvelden
  <1> HIDE DEF v
  <1>2. UploadGoed(vraag) /\ OptiesGoed(vraag) /\ GrenzenGoed(vraag) /\ v.answer_type \in ANTWOORDTYPEN
    BY <1>1 DEF VraagGoed
  <1>3. /\ v.allows_upload \in BOOLEAN /\ v.max_files \in Nat
        /\ v.allows_upload <=> v.max_files >= 1
    <2>0. IF vraag.allows_upload = TRUE THEN v.max_files \in 1..5 ELSE v.max_files = 0
      BY Zenon, <1>1, <1>2 DEF UploadGoed
    <2>1. CASE vraag.allows_upload = TRUE
      <3>1. v.allows_upload = TRUE
        BY <1>1, <2>1, VragenlijstenWaarden DEF Of
      <3>2. v.max_files \in 1..5
        BY <2>0, <2>1
      <3>3. v.max_files \in Nat /\ v.max_files >= 1
        BY <3>2
      <3> QED BY Zenon, <3>1, <3>3
    <2>2. CASE vraag.allows_upload # TRUE
      <3>1. v.allows_upload = FALSE
        BY <1>1, <1>2, <2>2 DEF Of, UploadGoed
      <3>2. v.max_files = 0
        BY <2>0, <2>2
      <3>3. v.max_files \in Nat /\ ~(v.max_files >= 1)
        BY <3>2
      <3> QED BY Zenon, <3>1, <3>3
    <2> QED BY <2>1, <2>2
  <1>4. ASSUME v.answer_type = "number"
        PROVE  Getalgrenzen(v)
    <2>1. Getalgrenzen(vraag)
      BY Zenon, <1>1, <1>2, <1>4 DEF GrenzenGoed, Getalgrenzen
    <2> QED BY Zenon, <1>1, <2>1 DEF Getalgrenzen
  <1>5. ASSUME v.answer_type = "rating"
        PROVE  IsGeheelGetal(v.min) /\ IsGeheelGetal(v.max) /\ v.min < v.max
    BY Zenon, <1>1, <1>2, <1>5 DEF GrenzenGoed
  <1>6. ASSUME v.answer_type \in {"multi_choice", "open_text"}
        PROVE  /\ v.min # Geen => IsGeheelGetal(v.min) /\ v.min >= 0 /\ NietBoven(v.min, v.max)
               /\ v.max # Geen => IsGeheelGetal(v.max) /\ v.max >= EEN
    <2>1. CASE v.answer_type = "multi_choice"
      BY Zenon, <1>1, <1>2, <2>1 DEF GrenzenGoed
    <2>2. CASE v.answer_type = "open_text"
      BY Zenon, <1>1, <1>2, <2>2 DEF GrenzenGoed
    <2> QED BY <1>6, <2>1, <2>2
  <1>7. ASSUME Keuze(v)
        PROVE  v.options \in Seq(STRING) /\ v.options # <<>> /\ IsInjective(v.options)
    BY <1>1, <1>2, <1>7 DEF OptiesGoed, Keuze
  <1> QED BY <1>1, <1>2, <1>3, <1>4, <1>5, <1>6, <1>7 DEF Opgeslagen, v

(* An answer with a remark of ten characters.                              *)
Antwoord(c, cs, t, x) ==
    [answerType |-> Geen, answerCode |-> c, answerCodes |-> cs, answerText |-> t,
     answerNumber |-> x, comment |-> [lengte |-> 10, kaal |-> 10, tekens |-> 10, heel |-> 10]]

Bestanden(v) == IF v.allows_upload THEN 1 ELSE 0

LEMMA ZoBeantwoord ==
    ASSUME NEW v, Opgeslagen(v), NEW c, NEW cs, NEW t, NEW x,
           Gevuld(cs) => cs \in Seq(STRING), Gevuld(t) => IsTekst(t),
           WaardeGoed(v, Antwoord(c, cs, t, x), Bestanden(v))
    PROVE  Beantwoordbaar(v)
  <1> DEFINE a == Antwoord(c, cs, t, x)   tien == [lengte |-> 10, kaal |-> 10, tekens |-> 10, heel |-> 10]
  <1>1. /\ a.answerType = Geen /\ a.comment = tien /\ a.answerText = t /\ a.answerCodes = cs
        /\ tien.lengte = 10 /\ tien.kaal = 10 /\ tien.tekens = 10 /\ tien.heel = 10
    BY DEF Antwoord
  <1>2. Gevuld(tien)
    <2>1. tien \in [lengte : Nat, kaal : Nat, tekens : Nat, heel : Nat]
      OBVIOUS
    <2> QED BY <2>1, VragenlijstenWaarden DEF Gevuld
  <1>3. WaardeGoed(v, a, Bestanden(v))
    OBVIOUS
  <1> HIDE DEF a, tien
  <1>4. IsAntwoord(a)
    BY <1>1 DEF IsAntwoord, IsTekst
  <1>5. ToelichtingGoed(v, a)
    BY <1>1, <1>2 DEF ToelichtingGoed, TOELICHTING_MAXIMUM, TOELICHTING_MINIMUM
  <1>6. Bestanden(v) \in Nat /\ Bestanden(v) <= v.max_files
    BY DEF Opgeslagen, Bestanden
  <1>7. v.allows_upload => Bestanden(v) >= 1
    BY DEF Bestanden
  <1>8. ToetsAntwoord(v, a, Bestanden(v))
    BY Zenon, <1>1, <1>3, <1>5, <1>6, <1>7 DEF ToetsAntwoord
  <1> QED BY <1>4, <1>6, <1>8 DEF Beantwoordbaar

(* A whole number of ones is that many times EEN.                          *)
LEMMA GeheelGetal ==
    ASSUME NEW x \in Int, x % EEN = 0
    PROVE  x \div EEN \in Int /\ x = (x \div EEN) * EEN
  BY SMT DEF EEN

(* Codes of options, no code twice, are no more than the options.          *)
LEMMA NietMeerCodes ==
    ASSUME NEW o \in Seq(STRING), NEW s \in Seq(STRING), IsInjective(s),
           \A i \in DOMAIN s : \E j \in DOMAIN o : o[j] = s[i]
    PROVE  Len(s) <= Len(o)
  <1> DEFINE S == 1..Len(s)   T == 1..Len(o)
             f == [i \in S |-> CHOOSE j \in T : o[j] = s[i]]
  <1>1. DOMAIN s = S /\ DOMAIN o = T /\ Len(s) \in Nat /\ Len(o) \in Nat
    OBVIOUS
  <1>2. \A i \in S : f[i] \in T /\ o[f[i]] = s[i]
    BY <1>1
  <1>3. \A i, j \in S : s[i] = s[j] => i = j
    BY <1>1 DEF IsInjective
  <1>4. f \in [S -> T]
    BY <1>2
  <1>5. \A i, j \in DOMAIN f : f[i] = f[j] => i = j
    <2> HIDE DEF f
    <2> QED BY <1>2, <1>3, <1>4
  <1>6. f \in Injection(S, T)
    BY <1>4, <1>5 DEF Injection, IsInjective
  <1> HIDE DEF f
  <1>7. IsFiniteSet(T) /\ Cardinality(T) = Len(o) /\ Cardinality(S) = Len(s)
    <2>1. 0 \in Int /\ 1 \in Int /\ Len(o) \in Int /\ Len(s) \in Int
      BY <1>1
    <2>2. IsFiniteSet(T) /\ Cardinality(T) = IF 1 > Len(o) THEN 0 ELSE Len(o) - 1 + 1
      BY <2>1, FS_Interval
    <2>3. Cardinality(S) = IF 1 > Len(s) THEN 0 ELSE Len(s) - 1 + 1
      BY <2>1, FS_Interval
    <2> QED BY <1>1, <2>2, <2>3
  <1>8. Cardinality(S) <= Cardinality(T)
    BY <1>6, <1>7, FS_Injection
  <1> QED BY <1>7, <1>8

(* Every question that is taken in can be answered, but for the            *)
(* instructions and exactly the questions of Onmogelijk: what              *)
(* Invoer.VraagBeantwoordbaar says of a grid of questions and answers,     *)
(* for all of them.                                                        *)
THEOREM VraagTeBeantwoorden ==
    ASSUME NEW vraag, VraagGoed(vraag), DOMAIN vraag = Vraagvelden,
           Gevuld(vraag.options) => vraag.options \in Seq(STRING),
           vraag.answer_type # "instruction"
    PROVE  Beantwoordbaar(VraagRij(vraag)) <=> ~Onmogelijk(VraagRij(vraag))
  <1> DEFINE v == VraagRij(vraag)
  <1>1. Opgeslagen(v) /\ v.answer_type # "instruction"
    BY Opslaan
  <1> HIDE DEF v
  <1>2. /\ ~Gevuld(Geen)
        /\ \A x : x \in Int \/ x \in STRING \/ x \in Seq(STRING) => Gevuld(x)
        /\ \A x : x \in [lengte : Nat, kaal : Nat, tekens : Nat, heel : Nat] => Gevuld(x)
    BY VragenlijstenWaarden DEF Gevuld
  <1>3. EEN \in Nat /\ EEN > 0
    BY SMT DEF EEN
  <1>4. CASE v.answer_type = "confirmation"
    <2> DEFINE a == Antwoord("confirmed", Geen, Geen, Geen)
    <2>1. a.answerCode = "confirmed" /\ "confirmed" \in BEVESTIGINGSCODES /\ "confirmed" # "cannot_upload"
      BY DEF Antwoord, BEVESTIGINGSCODES
    <2>2. WaardeGoed(v, a, Bestanden(v))
      BY Zenon, <1>4, <2>1 DEF WaardeGoed
    <2>3. ~Onmogelijk(v)
      BY Zenon, <1>4 DEF Onmogelijk
    <2> QED BY <1>1, <1>2, <2>2, <2>3, ZoBeantwoord DEF v
  <1>5. CASE v.answer_type = "yes_no"
    <2> DEFINE a == Antwoord("yes", Geen, Geen, Geen)
    <2>1. a.answerCode = "yes"
      BY DEF Antwoord
    <2>2. WaardeGoed(v, a, Bestanden(v))
      BY Zenon, <1>5, <2>1 DEF WaardeGoed
    <2>3. ~Onmogelijk(v)
      BY Zenon, <1>5 DEF Onmogelijk
    <2> QED BY <1>1, <1>2, <2>2, <2>3, ZoBeantwoord DEF v
  <1>6. CASE v.answer_type = "single_choice"
    <2>0. v.options \in Seq(STRING) /\ v.options # <<>>
      BY <1>1, <1>6 DEF Opgeslagen, Keuze
    <2>1. 1 \in DOMAIN v.options /\ v.options[1] \in STRING
      BY <2>0
    <2> DEFINE a == Antwoord(v.options[1], Geen, Geen, Geen)
    <2>2. a.answerCode = v.options[1]
      BY DEF Antwoord
    <2>3. Gevuld(a.answerCode) /\ KentCode(v, a.answerCode)
      BY <1>2, <2>1, <2>2 DEF KentCode
    <2>4. WaardeGoed(v, a, Bestanden(v))
      BY Zenon, <1>6, <2>3 DEF WaardeGoed
    <2>5. ~Onmogelijk(v)
      BY Zenon, <1>6 DEF Onmogelijk
    <2> QED BY <1>1, <1>2, <2>4, <2>5, ZoBeantwoord DEF v
  <1>7. CASE v.answer_type = "multi_choice"
    <2>0. /\ v.options \in Seq(STRING) /\ v.options # <<>> /\ IsInjective(v.options)
          /\ v.min # Geen => v.min \in Int /\ Gevuld(v.min) /\ v.min % EEN = 0 /\ v.min >= 0
                             /\ NietBoven(v.min, v.max)
          /\ v.max # Geen => v.max \in Int /\ Gevuld(v.max) /\ v.max >= EEN
      BY <1>1, <1>7 DEF Opgeslagen, Keuze, IsGeheelGetal, IsGetal
    <2>1. Len(v.options) \in Nat /\ Len(v.options) >= 1 /\ DOMAIN v.options = 1..Len(v.options)
      BY <2>0
    <2>2. Onmogelijk(v) <=> Gevuld(v.min) /\ v.min > Len(v.options) * EEN
      BY Zenon, <1>7 DEF Onmogelijk
    <2>3. ASSUME ~Onmogelijk(v)
          PROVE  Beantwoordbaar(v)
      <3>1. PICK k \in 1..Len(v.options) :
              (Gevuld(v.min) => k * EEN >= v.min) /\ (Gevuld(v.max) => k * EEN <= v.max)
        <4>1. CASE v.min = Geen \/ v.min = 0
          BY <1>2, <1>3, <2>0, <2>1, <4>1
        <4>2. CASE v.min # Geen /\ v.min # 0
          <5>1. PICK k \in Int : v.min = k * EEN
            BY <2>0, <4>2, GeheelGetal
          <5>2. k >= 1 /\ k <= Len(v.options)
            <6>1. v.min > 0 /\ v.min <= Len(v.options) * EEN
              BY <1>3, <2>0, <2>1, <2>2, <2>3, <4>2
            <6> QED BY SMT, <2>1, <5>1, <6>1 DEF EEN
          <5>3. Gevuld(v.max) => k * EEN <= v.max
            BY <2>0, <4>2, <5>1 DEF NietBoven
          <5>4. k \in 1..Len(v.options) /\ k * EEN >= v.min
            BY <2>0, <2>1, <4>2, <5>1, <5>2
          <5> QED BY <5>3, <5>4
        <4> QED BY <4>1, <4>2
      <3> DEFINE cs == SubSeq(v.options, 1, k)   a == Antwoord(Geen, cs, Geen, Geen)
      <3>2. /\ cs \in Seq(STRING) /\ Len(cs) = k /\ DOMAIN cs = 1..k /\ cs # <<>>
            /\ \A i \in 1..k : cs[i] = v.options[i]
        BY <2>0, <2>1
      <3>3. IsInjective(cs)
        BY <2>0, <2>1, <3>2 DEF IsInjective
      <3>4. \A i \in DOMAIN cs : KentCode(v, cs[i])
        BY <2>1, <3>2 DEF KentCode
      <3>5. BinnenBereik(v, Len(cs) * EEN)
        BY <3>1, <3>2 DEF BinnenBereik, NietOnder, NietBoven
      <3>6. a.answerCodes = cs /\ Gevuld(cs)
        BY <1>2, <3>2 DEF Antwoord
      <3> HIDE DEF cs, a
      <3>7. WaardeGoed(v, a, Bestanden(v))
        BY Zenon, <1>7, <3>2, <3>3, <3>4, <3>5, <3>6 DEF WaardeGoed
      <3> QED BY <1>1, <1>2, <3>2, <3>7, ZoBeantwoord DEF a
    <2>4. ASSUME Beantwoordbaar(v)
          PROVE  ~Onmogelijk(v)
      <3>1. PICK a : \E n \in Nat : IsAntwoord(a) /\ ToetsAntwoord(v, a, n)
        BY <2>4 DEF Beantwoordbaar
      <3>2. PICK n \in Nat : IsAntwoord(a) /\ WaardeGoed(v, a, n)
        BY <3>1 DEF ToetsAntwoord
      <3>3. /\ Gevuld(a.answerCodes) /\ IsInjective(a.answerCodes)
            /\ \A i \in DOMAIN a.answerCodes : KentCode(v, a.answerCodes[i])
            /\ BinnenBereik(v, Len(a.answerCodes) * EEN)
        BY Zenon, <1>7, <3>2 DEF WaardeGoed
      <3>4. a.answerCodes \in Seq(STRING)
        BY <3>2, <3>3 DEF IsAntwoord
      <3>5. Len(a.answerCodes) <= Len(v.options) /\ Len(a.answerCodes) \in Nat
        BY <2>0, <3>3, <3>4, NietMeerCodes DEF KentCode
      <3>6. Gevuld(v.min) => Len(a.answerCodes) * EEN >= v.min
        BY <3>3 DEF BinnenBereik, NietOnder
      <3>7. Len(a.answerCodes) * EEN <= Len(v.options) * EEN
        BY SMT, <2>1, <3>5 DEF EEN
      <3> DEFINE x == Len(a.answerCodes) * EEN   y == Len(v.options) * EEN
      <3>8. x \in Int /\ y \in Int /\ x <= y /\ (Gevuld(v.min) => x >= v.min)
        BY <1>3, <2>1, <3>5, <3>6, <3>7
      <3>9. Gevuld(v.min) => v.min \in Int
        BY <1>2, <2>0
      <3>10. Onmogelijk(v) <=> Gevuld(v.min) /\ v.min > y
        BY <2>2
      <3> HIDE DEF x, y
      <3> QED BY <3>8, <3>9, <3>10
    <2> QED BY <2>3, <2>4 DEF v
  <1>8. CASE v.answer_type = "open_text"
    <2>0. /\ v.min # Geen => v.min \in Int /\ Gevuld(v.min) /\ v.min >= 0 /\ NietBoven(v.min, v.max)
          /\ v.max # Geen => v.max \in Int /\ Gevuld(v.max) /\ v.max >= EEN
      BY <1>1, <1>8 DEF Opgeslagen, IsGeheelGetal, IsGetal
    <2>1. \A x, y \in Int : x <= y => x \div EEN <= y \div EEN
      BY SMT DEF EEN
    <2>2. EEN \div EEN = 1 /\ \A x \in Int : x \div EEN \in Int
      BY SMT DEF EEN
    <2> DEFINE m == Of(v.min, EEN) \div EEN   w == IF m >= 1 THEN m ELSE 1
    <2>3. m \in Int /\ w \in Nat /\ w >= 1 /\ w >= m
      BY <1>3, <2>0, <2>2 DEF Of
    <2>4. v.max # Geen => w <= v.max \div EEN
      <3>1. v.max # Geen => v.max \div EEN >= 1 /\ v.max \div EEN \in Int
        BY <1>3, <2>0, <2>1, <2>2
      <3>2. v.max # Geen => m <= v.max \div EEN
        BY <1>3, <2>0, <2>1, <2>2 DEF Of, NietBoven
      <3> QED BY <2>3, <3>1, <3>2
    <2> HIDE DEF m, w
    <2> DEFINE t == [lengte |-> w, kaal |-> w, tekens |-> w, heel |-> w]   a == Antwoord(Geen, Geen, t, Geen)
    <2>5. /\ t \in [lengte : Nat, kaal : Nat, tekens : Nat, heel : Nat] /\ a.answerText = t
          /\ t.lengte = w /\ t.kaal = w /\ t.tekens = w /\ t.heel = w
      BY <2>3 DEF Antwoord
    <2>6. Gevuld(t) /\ IsTekst(t)
      BY <1>2, <2>3, <2>5 DEF IsTekst
    <2> HIDE DEF t, a
    <2>7. /\ Gevuld(a.answerText) /\ a.answerText.kaal > 0
          /\ a.answerText.kaal >= Of(v.min, EEN) \div EEN
          /\ NietBoven(a.answerText.lengte, IF v.max = Geen THEN Geen ELSE v.max \div EEN)
      BY <1>2, <2>3, <2>4, <2>5, <2>6 DEF NietBoven, m
    <2>8. WaardeGoed(v, a, Bestanden(v))
      BY Zenon, <1>8, <2>7 DEF WaardeGoed
    <2>9. ~Onmogelijk(v)
      BY Zenon, <1>8 DEF Onmogelijk
    <2> QED BY <1>1, <1>2, <2>6, <2>8, <2>9, ZoBeantwoord DEF v, a
  <1>9. CASE v.answer_type = "rating"
    <2>1. IsGeheelGetal(v.min) /\ v.min \in Int /\ v.max \in Int /\ v.min < v.max
      BY <1>1, <1>9 DEF Opgeslagen, IsGeheelGetal, IsGetal
    <2> DEFINE a == Antwoord(Geen, Geen, Geen, v.min)
    <2>2. a.answerNumber = v.min
      BY DEF Antwoord
    <2>3. BinnenBereik(v, v.min)
      BY <2>1 DEF BinnenBereik, NietOnder, NietBoven
    <2>4. WaardeGoed(v, a, Bestanden(v))
      BY Zenon, <1>9, <2>1, <2>2, <2>3 DEF WaardeGoed
    <2>5. ~Onmogelijk(v)
      BY Zenon, <1>9 DEF Onmogelijk
    <2> QED BY <1>1, <1>2, <2>4, <2>5, ZoBeantwoord DEF v
  <1>10. CASE v.answer_type = "number"
    <2>1. Getalgrenzen(v)
      BY <1>1, <1>10 DEF Opgeslagen
    <2>2. \A a, n : WaardeGoed(v, a, n) <=> IsGetal(a.answerNumber) /\ GetalGoed(v, a.answerNumber)
      BY Zenon, <1>10 DEF WaardeGoed, GetalGoed
    <2>3. ASSUME ~Onmogelijk(v)
          PROVE  Beantwoordbaar(v)
      <3>1. PICK x \in Int : GetalGoed(v, x)
        BY <1>10, <2>1, <2>3, GetalBestaat
      <3> DEFINE a == Antwoord(Geen, Geen, Geen, x)
      <3>2. a.answerNumber = x /\ IsGetal(x)
        BY <1>2 DEF Antwoord, IsGetal
      <3>3. WaardeGoed(v, a, Bestanden(v))
        BY <2>2, <3>1, <3>2
      <3> QED BY <1>1, <1>2, <3>3, ZoBeantwoord
    <2>4. ASSUME Beantwoordbaar(v)
          PROVE  ~Onmogelijk(v)
      <3>1. PICK a : \E n \in Nat : WaardeGoed(v, a, n)
        BY <2>4 DEF Beantwoordbaar, ToetsAntwoord
      <3>2. a.answerNumber \in Int /\ GetalGoed(v, a.answerNumber)
        BY <2>2, <3>1 DEF IsGetal
      <3> QED BY <1>10, <2>1, <3>2, GetalBestaat
    <2> QED BY <2>3, <2>4 DEF v
  <1>11. CASE v.answer_type = "file_upload"
    <2>1. Onmogelijk(v) <=> ~v.allows_upload
      BY Zenon, <1>11 DEF Onmogelijk
    <2>2. \A a, n : WaardeGoed(v, a, n) <=> n >= 1
      BY Zenon, <1>11 DEF WaardeGoed
    <2>3. ASSUME v.allows_upload
          PROVE  Beantwoordbaar(v)
      <3>1. WaardeGoed(v, Antwoord(Geen, Geen, Geen, Geen), Bestanden(v))
        BY <2>2, <2>3 DEF Bestanden
      <3> QED BY <1>1, <1>2, <3>1, ZoBeantwoord
    <2>4. ASSUME Beantwoordbaar(v)
          PROVE  v.allows_upload
      <3>1. PICK a : \E n \in Nat : WaardeGoed(v, a, n) /\ n <= v.max_files
        BY <2>4 DEF Beantwoordbaar, ToetsAntwoord
      <3>2. PICK n \in Nat : n >= 1 /\ n <= v.max_files
        BY <2>2, <3>1
      <3>3. v.max_files >= 1
        BY <1>1, <3>2 DEF Opgeslagen
      <3> QED BY Zenon, <1>1, <3>3 DEF Opgeslagen
    <2> QED BY Zenon, <2>1, <2>3, <2>4 DEF v
  <1> QED BY <1>1, <1>4, <1>5, <1>6, <1>7, <1>8, <1>9, <1>10, <1>11 DEF Opgeslagen, ANTWOORDTYPEN

-----------------------------------------------------------------------------
(* What comes in from outside: forms, answers and uploads (Invoer).        *)
(* The two are not records.                                                *)
Apart == ~F!Gesoort(Geen) /\ ~F!Gesoort(Onzin)

LEMMA TekstFeit ==
    ASSUME Apart, NEW w, F!Waarde(w), F!IsTekst(w)
    PROVE  /\ w.lengte \in Nat /\ w.kaal \in Nat /\ w.kaal <= w.lengte
           /\ LET r == F!Knip(w) IN
              /\ F!Waarde(r) /\ F!IsTekst(r) /\ r \notin {Geen, Onzin, F!Nul} /\ F!Strak(r) /\ F!Knip(r) = r
              /\ r.lengte = w.kaal /\ r.kaal = w.kaal /\ r.inh = w.inh
  <1>1. F!EenTekst(w) /\ w.soort = "tekst"
    BY DEF F!IsTekst, F!Waarde
  <1> DEFINE r == F!Knip(w)
  <1>2. /\ r = [x \in {"soort", "lengte", "kaal", "inh"} |-> r[x]] /\ r.soort = "tekst"
        /\ r.lengte = w.kaal /\ r.kaal = w.kaal /\ r.inh = w.inh /\ F!Inhoud(r.inh)
    BY <1>1 DEF F!EenTekst, F!Knip
  <1>3. w.lengte \in Nat /\ w.kaal \in Nat /\ w.kaal <= w.lengte
    BY <1>1 DEF F!EenTekst
  <1> HIDE DEF r
  <1>4. DOMAIN r = {"soort", "lengte", "kaal", "inh"}
    BY <1>2
  <1>5. F!Gesoort(r) /\ F!EenTekst(r)
    BY <1>2, <1>3, <1>4 DEF F!Gesoort, F!EenTekst
  <1>6. r \notin {Geen, Onzin, F!Nul}
    <2>1. r # F!Nul
      BY <1>2 DEF F!Nul
    <2> QED BY <1>5, <2>1 DEF Apart
  <1>7. F!Knip(r) = r
    BY <1>2, <1>4 DEF F!Knip
  <1> QED BY <1>2, <1>3, <1>5, <1>6, <1>7 DEF F!Waarde, F!IsTekst, F!Strak, r

(* What a reader gave was not refused and is not NULL.                     *)
Iets(r) == r \notin {Geen, Onzin}

LEMMA VerplichtHerlezen ==
    ASSUME Apart, NEW w, F!Waarde(w), NEW max, Iets(F!VerplichteTekst(w, max))
    PROVE  LET r == F!VerplichteTekst(w, max) IN
           /\ r = F!Knip(w) /\ F!Waarde(r) /\ F!IsTekst(r) /\ F!Strak(r) /\ r.kaal \in 1..max
           /\ F!VerplichteTekst(r, max) = r /\ F!OptioneleTekst(r, max) = r
  <1>1. F!IsTekst(w) /\ w.kaal \in 1..max /\ F!VerplichteTekst(w, max) = F!Knip(w)
    BY DEF F!VerplichteTekst, Iets
  <1> DEFINE r == F!Knip(w)
  <1>2. /\ F!Waarde(r) /\ F!IsTekst(r) /\ r \notin {Geen, Onzin, F!Nul} /\ F!Strak(r) /\ F!Knip(r) = r
        /\ r.kaal = w.kaal
    BY <1>1, TekstFeit
  <1> HIDE DEF r
  <1>3. F!VerplichteTekst(r, max) = r
    BY <1>1, <1>2 DEF F!VerplichteTekst
  <1>4. r.kaal # 0
    BY <1>1, <1>2
  <1>5. F!OptioneleTekst(r, max) = r
    BY <1>2, <1>3, <1>4 DEF F!OptioneleTekst, F!Ontbreekt
  <1> QED BY <1>1, <1>2, <1>3, <1>5 DEF r

LEMMA OptioneelHerlezen ==
    ASSUME Apart, NEW w, F!Waarde(w), NEW max, Iets(F!OptioneleTekst(w, max))
    PROVE  LET r == F!OptioneleTekst(w, max) IN
           /\ r = F!Knip(w) /\ F!Waarde(r) /\ F!IsTekst(r) /\ F!Strak(r) /\ r.kaal \in 1..max
           /\ F!OptioneleTekst(r, max) = r
  <1>1. F!OptioneleTekst(w, max) = F!VerplichteTekst(w, max)
    BY DEF F!OptioneleTekst, Iets
  <1> QED BY <1>1, VerplichtHerlezen

(* Readers that give back what they were given, or refuse it.              *)
GEEFT_TERUG ==
    {"lid_email", "uuid", "optionele_uuid", "uuid_of_niet", "datum", "stapdatum", "sluitdatum",
     "verzonden", "bedrag", "boolean", "optioneel_boolean", "woord", "optioneel_woord", "code", "vendors"}

LEMMA TerugHerlezen ==
    ASSUME NEW v, v.lezer \in GEEFT_TERUG, NEW w, Iets(F!LeesVeld(v, w))
    PROVE  /\ F!LeesVeld(v, w) = w
           /\ F!IsTekst(w) => F!Strak(w) \/ v.lezer = "lid_email"
  <1>1. CASE v.lezer = "lid_email"
    <2>1. F!LeesVeld(v, w) = F!LidEmail(w)
      BY Zenon, <1>1 DEF F!LeesVeld
    <2> QED BY <1>1, <2>1 DEF F!LidEmail, F!Als, Iets
  <1>2. CASE v.lezer = "uuid"
    <2>1. F!LeesVeld(v, w) = F!VerplichteUuid(w)
      BY Zenon, <1>2 DEF F!LeesVeld
    <2> QED BY <2>1 DEF F!VerplichteUuid, F!IsUuid, F!Als, Iets
  <1>3. CASE v.lezer = "optionele_uuid"
    <2>1. F!LeesVeld(v, w) = F!OptioneleUuid(w)
      BY Zenon, <1>3 DEF F!LeesVeld
    <2> QED BY <2>1 DEF F!OptioneleUuid, F!IsUuid, F!Als, Iets
  <1>4. CASE v.lezer = "uuid_of_niet"
    <2>1. F!LeesVeld(v, w) = F!UuidOfNiet(w)
      BY Zenon, <1>4 DEF F!LeesVeld
    <2> QED BY <2>1 DEF F!UuidOfNiet, F!IsUuid, F!Als, Iets
  <1>5. CASE v.lezer = "datum"
    <2>1. F!LeesVeld(v, w) = F!OptioneleDatum(w)
      BY Zenon, <1>5 DEF F!LeesVeld
    <2> QED BY <2>1 DEF F!OptioneleDatum, F!Als, Iets
  <1>6. CASE v.lezer = "stapdatum"
    <2>1. F!LeesVeld(v, w) = F!StapDatum(w)
      BY Zenon, <1>6 DEF F!LeesVeld
    <2> QED BY <2>1 DEF F!StapDatum, F!JsDatum, F!Als, Iets
  <1>7. CASE v.lezer = "sluitdatum"
    <2>1. F!LeesVeld(v, w) = F!Sluitdatum(w)
      BY Zenon, <1>7 DEF F!LeesVeld
    <2> QED BY <2>1 DEF F!Sluitdatum, F!JsDatum, F!Als, Iets
  <1>8. CASE v.lezer = "verzonden"
    <2>1. F!LeesVeld(v, w) = F!VerzondenOp(w)
      BY Zenon, <1>8 DEF F!LeesVeld
    <2> QED BY <2>1 DEF F!VerzondenOp, F!JsDatum, F!Als, Iets
  <1>9. CASE v.lezer = "bedrag"
    <2>1. F!LeesVeld(v, w) = F!OptioneelBedrag(w)
      BY Zenon, <1>9 DEF F!LeesVeld
    <2> QED BY <2>1 DEF F!OptioneelBedrag, F!Als, Iets
  <1>10. CASE v.lezer = "boolean"
    <2>1. F!LeesVeld(v, w) = F!Boolean(w)
      BY Zenon, <1>10 DEF F!LeesVeld
    <2> QED BY <2>1 DEF F!Boolean, F!IsJa, F!IsTekst, F!Als, Iets
  <1>11. CASE v.lezer = "optioneel_boolean"
    <2>1. F!LeesVeld(v, w) = F!OptioneelBoolean(w)
      BY Zenon, <1>11 DEF F!LeesVeld
    <2> QED BY <2>1 DEF F!OptioneelBoolean, F!Boolean, F!IsJa, F!IsTekst, F!Als, Iets
  <1>12. CASE v.lezer = "woord"
    <2>1. F!LeesVeld(v, w) = F!Als(F!IsWoord(w, v.max), w)
      BY Zenon, <1>12 DEF F!LeesVeld
    <2> QED BY <2>1 DEF F!IsWoord, F!Als, Iets
  <1>13. CASE v.lezer = "optioneel_woord"
    <2>1. F!LeesVeld(v, w) = IF F!Leeg(w) THEN Geen ELSE F!Als(F!IsWoord(w, v.max), w)
      BY Zenon, <1>13 DEF F!LeesVeld
    <2> QED BY <2>1 DEF F!IsWoord, F!Als, Iets
  <1>14. CASE v.lezer = "code"
    <2>1. F!LeesVeld(v, w) = F!Als(F!IsCode(w), w)
      BY Zenon, <1>14 DEF F!LeesVeld
    <2> QED BY <2>1 DEF F!IsCode, F!Als, Iets
  <1>15. CASE v.lezer = "vendors"
    <2>1. F!LeesVeld(v, w) = F!VendorIds(w)
      BY Zenon, <1>15 DEF F!LeesVeld
    <2>2. F!IsLijst(w) /\ F!VendorIds(w) = w
      BY <2>1 DEF F!VendorIds, F!Elk, F!Als, Iets
    <2> QED BY <2>1, <2>2 DEF F!IsLijst, F!IsTekst
  <1> QED BY <1>1, <1>2, <1>3, <1>4, <1>5, <1>6, <1>7, <1>8, <1>9, <1>10, <1>11, <1>12, <1>13,
         <1>14, <1>15 DEF GEEFT_TERUG

(* What the table of forms gives with a reader.                            *)
Begrensd(v) ==
    /\ v.lezer \in {"ruw", "ruwe_stap"} => v.max \in Nat
    /\ v.lezer = "soort_notitie" => "werk" \in v.max
    /\ v.lezer = "soort_ronde" => "vendor_compliance" \in v.max

(* Readers of a text that is kept without the blanks around it.            *)
KNIPT == {"verplicht", "optioneel", "ruw", "ruwe_stap", "kvk", "email", "platform_email",
          "platform_optioneel", "antwoord_email", "reden", "toelichting"}

LEMMA TekstHerlezen ==
    ASSUME Apart, NEW v, v.lezer \in KNIPT, Begrensd(v),
           NEW w, F!Waarde(w), Iets(F!LeesVeld(v, w))
    PROVE  LET r == F!LeesVeld(v, w) IN F!LeesVeld(v, r) = r /\ F!IsTekst(r) /\ F!Strak(r)
  <1> DEFINE r == F!LeesVeld(v, w)   k == F!Knip(w)
  <1>0. F!IsTekst(w) => /\ F!Waarde(k) /\ F!IsTekst(k) /\ k \notin {Geen, Onzin, F!Nul} /\ F!Strak(k) /\ F!Knip(k) = k
                      /\ k.lengte = w.kaal /\ k.kaal = w.kaal /\ k.inh = w.inh
                      /\ w.lengte \in Nat /\ w.kaal \in Nat /\ w.kaal <= w.lengte
    BY TekstFeit
  <1>1. CASE v.lezer = "verplicht"
    <2>1. \A y : F!LeesVeld(v, y) = F!VerplichteTekst(y, v.max)
      BY Zenon, <1>1 DEF F!LeesVeld
    <2> QED BY <2>1, VerplichtHerlezen
  <1>2. CASE v.lezer = "optioneel"
    <2>1. \A y : F!LeesVeld(v, y) = F!OptioneleTekst(y, v.max)
      BY Zenon, <1>2 DEF F!LeesVeld
    <2> QED BY <2>1, OptioneelHerlezen
  <1>3. CASE v.lezer = "ruw"
    <2>1. \A y : F!LeesVeld(v, y) = F!RuweTekst(y, v.max)
      BY Zenon, <1>3 DEF F!LeesVeld
    <2>2. F!IsTekst(w) /\ w.kaal > 0 /\ w.lengte <= v.max /\ r = k
      BY <2>1 DEF F!RuweTekst, F!Als, Iets
    <2> HIDE DEF r, k
    <2>3. F!IsTekst(k) /\ k.kaal > 0 /\ k.lengte <= v.max
      <3>1. k.kaal = w.kaal /\ k.lengte = w.kaal /\ w.kaal <= w.lengte /\ w.kaal \in Nat /\ w.lengte \in Nat
        BY <1>0, <2>2
      <3>2. v.max \in Nat /\ k.lengte <= v.max
        BY <1>3, <2>2, <3>1 DEF Begrensd
      <3> QED BY <1>0, <2>2, <3>1, <3>2
    <2>4. F!RuweTekst(k, v.max) = k
      BY <1>0, <2>2, <2>3 DEF F!RuweTekst, F!Als
    <2> QED BY <1>0, <2>1, <2>2, <2>4 DEF r
  <1>4. CASE v.lezer = "ruwe_stap"
    <2>1. \A y : F!LeesVeld(v, y) = F!RuweStap(y, v.max)
      BY Zenon, <1>4 DEF F!LeesVeld
    <2>2. F!IsTekst(w) /\ w.kaal > 0 /\ w.lengte <= v.max /\ r = k
      BY <2>1 DEF F!RuweStap, F!RuweTekst, F!Als, Iets
    <2> HIDE DEF r, k
    <2>3. F!IsTekst(k) /\ k.kaal > 0 /\ k.kaal # 0 /\ k.lengte <= v.max /\ ~F!Ontbreekt(k)
      <3>1. k.kaal = w.kaal /\ k.lengte = w.kaal /\ w.kaal <= w.lengte /\ w.kaal \in Nat /\ w.lengte \in Nat
        BY <1>0, <2>2
      <3>2. v.max \in Nat /\ k.lengte <= v.max
        <4>1. v.max \in Nat
          BY <1>4 DEF Begrensd
        <4> QED BY <2>2, <3>1, <4>1
      <3> QED BY <1>0, <2>2, <3>1, <3>2 DEF F!Ontbreekt
    <2>4. F!RuweStap(k, v.max) = k
      BY <1>0, <2>2, <2>3 DEF F!RuweStap, F!RuweTekst, F!Als
    <2> QED BY <1>0, <2>1, <2>2, <2>4 DEF r
  <1>5. CASE v.lezer = "kvk"
    <2> DEFINE t == F!OptioneleTekst(w, 20)
    <2>1. \A y : F!LeesVeld(v, y) = F!KvkNummer(y)
      BY Zenon, <1>5 DEF F!LeesVeld
    <2>2. Iets(t)
      BY <2>1 DEF F!KvkNummer, Iets
    <2>3. t.inh.vorm = "cijfers" /\ r = F!Tekst(8, 0, F!Cijfers(8, 0, 0, t.inh.n, t.inh.nul))
      BY <2>1, <2>2 DEF F!KvkNummer, Iets
    <2>4. t.inh.n \in Nat
      BY <2>2, <2>3, OptioneelHerlezen DEF F!IsTekst, F!Waarde, F!EenTekst, F!Inhoud, Iets
    <2>5. PICK n \in Nat : \E nul : r = F!Tekst(8, 0, F!Cijfers(8, 0, 0, n, nul))
      BY <2>3, <2>4
    <2>6. PICK nul : r = F!Tekst(8, 0, F!Cijfers(8, 0, 0, n, nul))
      BY <2>5
    <2> HIDE DEF r, t
    <2>7. /\ r.soort = "tekst" /\ r.lengte = 8 /\ r.kaal = 8
          /\ r.inh = F!Cijfers(8, 0, 0, n, nul) /\ F!Gesoort(r)
          /\ r = [x \in {"soort", "lengte", "kaal", "inh"} |-> r[x]]
      BY <2>6 DEF F!Tekst, F!Gesoort
    <2>8. r.inh.vorm = "cijfers" /\ r.inh.aantal = 8 /\ r.inh.decimalen = 0 /\ r.inh.n = n /\ r.inh.nul = nul
      BY <2>7 DEF F!Cijfers
    <2>9. F!Waarde(r)
      BY <2>7, <2>8 DEF F!Waarde, F!EenTekst, F!Inhoud
    <2>10. r \notin {Geen, Onzin, F!Nul} /\ F!IsTekst(r)
      <3>1. r # F!Nul
        BY <2>7 DEF F!Nul
      <3> QED BY <2>7, <3>1 DEF Apart, F!IsTekst
    <2>11. F!Knip(r) = r /\ F!Strak(r)
      BY <2>7 DEF F!Knip, F!Strak
    <2>12. F!OptioneleTekst(r, 20) = r
      BY <2>7, <2>10, <2>11 DEF F!OptioneleTekst, F!VerplichteTekst, F!Ontbreekt
    <2>13. F!KvkNummer(r) = r
      BY <2>6, <2>8, <2>10, <2>12 DEF F!KvkNummer
    <2> QED BY <2>1, <2>10, <2>11, <2>13 DEF r
  <1>6. CASE v.lezer = "email"
    <2> DEFINE t == F!OptioneleTekst(w, 100)
    <2>1. \A y : F!LeesVeld(v, y) = F!EmailAdres(y)
      BY Zenon, <1>6 DEF F!LeesVeld
    <2>2. Iets(t) /\ r = t /\ F!IsGeldigMailadres(t) /\ ~F!VerdachtDomein(t)
      BY <2>1 DEF F!EmailAdres, Iets, F!Als
    <2>3. F!IsTekst(t) /\ F!Strak(t) /\ F!OptioneleTekst(t, 100) = t
      BY <2>2, OptioneelHerlezen
    <2> HIDE DEF r, t
    <2>4. F!EmailAdres(t) = t
      BY <2>2, <2>3 DEF F!EmailAdres, Iets, F!Als
    <2> QED BY <2>1, <2>2, <2>3, <2>4 DEF r
  <1>7. CASE v.lezer = "platform_email"
    <2> DEFINE t == F!VerplichteTekst(w, 320)
    <2>1. \A y : F!LeesVeld(v, y) = F!PlatformEmail(y)
      BY Zenon, <1>7 DEF F!LeesVeld
    <2>2. Iets(t) /\ r = t /\ F!PlatformAdres(t)
      BY <2>1 DEF F!PlatformEmail, Iets, F!Als
    <2>3. F!IsTekst(t) /\ F!Strak(t) /\ F!VerplichteTekst(t, 320) = t
      BY <2>2, VerplichtHerlezen
    <2> HIDE DEF r, t
    <2>4. F!PlatformEmail(t) = t
      BY <2>2, <2>3 DEF F!PlatformEmail, Iets, F!Als
    <2> QED BY <2>1, <2>2, <2>3, <2>4 DEF r
  <1>8. CASE v.lezer = "platform_optioneel"
    <2> DEFINE t == F!VerplichteTekst(w, 320)
    <2>1. \A y : F!LeesVeld(v, y) = F!PlatformOptioneelEmail(y)
      BY Zenon, <1>8 DEF F!LeesVeld
    <2>2. Iets(t) /\ r = t /\ F!PlatformAdres(t)
      BY <2>1 DEF F!PlatformOptioneelEmail, F!PlatformEmail, Iets, F!Als
    <2>3. F!IsTekst(t) /\ F!Strak(t) /\ t.kaal \in 1..320 /\ F!VerplichteTekst(t, 320) = t
      BY <2>2, VerplichtHerlezen
    <2> HIDE DEF r, t
    <2>4. ~F!Ontbreekt(t) /\ t.kaal # 0
      BY <2>2, <2>3 DEF F!Ontbreekt, Iets, F!IsTekst
    <2>5. F!PlatformOptioneelEmail(t) = t
      BY <2>2, <2>3, <2>4 DEF F!PlatformOptioneelEmail, F!PlatformEmail, Iets, F!Als
    <2> QED BY <2>1, <2>2, <2>3, <2>5 DEF r
  <1>9. CASE v.lezer = "antwoord_email"
    <2>1. \A y : F!LeesVeld(v, y) = F!AntwoordEmail(y)
      BY Zenon, <1>9 DEF F!LeesVeld
    <2>2. ~F!Ontbreekt(w) /\ w.kaal # 0 /\ F!IsGeldigMailadres(w) /\ F!IsTekst(w) /\ r = k
      BY <2>1 DEF F!AntwoordEmail, F!IsGeldigMailadres, F!Vorm, Iets
    <2> HIDE DEF r, k
    <2>3. F!IsGeldigMailadres(k) /\ ~F!Ontbreekt(k) /\ k.kaal # 0
      BY <1>0, <2>2 DEF F!IsGeldigMailadres, F!Vorm, F!Ontbreekt
    <2>4. F!AntwoordEmail(k) = k
      BY <1>0, <2>2, <2>3 DEF F!AntwoordEmail
    <2> QED BY <1>0, <2>1, <2>2, <2>4 DEF r
  <1>10. CASE v.lezer = "reden"
    <2> DEFINE t == F!VerplichteTekst(w, 500)
    <2>1. \A y : F!LeesVeld(v, y) = F!Reden(y)
      BY Zenon, <1>10 DEF F!LeesVeld
    <2>2. Iets(t) /\ r = t /\ t.kaal >= 10
      BY <2>1 DEF F!Reden, Iets, F!Als
    <2>3. F!IsTekst(t) /\ F!Strak(t) /\ F!VerplichteTekst(t, 500) = t
      BY <2>2, VerplichtHerlezen
    <2> HIDE DEF r, t
    <2>4. F!Reden(t) = t
      BY <2>2, <2>3 DEF F!Reden, Iets, F!Als
    <2> QED BY <2>1, <2>2, <2>3, <2>4 DEF r
  <1>11. CASE v.lezer = "toelichting"
    <2>1. \A y : F!LeesVeld(v, y) = F!Toelichting(y)
      BY Zenon, <1>11 DEF F!LeesVeld
    <2>2. \A y : y # Geen /\ F!IsTekst(y) => F!Toelichting(y) = F!Knip(y)
      BY DEF F!Toelichting
    <2>3. CASE w = Geen
      <3>1. r = F!Tekst(0, 0, F!Vrij)
        BY <2>1, <2>3 DEF F!Toelichting
      <3> HIDE DEF r
      <3>2. r.soort = "tekst" /\ r.lengte = 0 /\ r.kaal = 0 /\ F!Gesoort(r) /\ F!Knip(r) = r /\ r # F!Nul
        BY <3>1 DEF F!Tekst, F!Gesoort, F!Knip, F!Nul
      <3>3. r \notin {Geen, Onzin, F!Nul} /\ F!IsTekst(r)
        BY <3>2 DEF Apart, F!IsTekst
      <3> QED BY <2>1, <2>2, <3>2, <3>3 DEF r, F!Strak
    <2>4. CASE w # Geen
      <3>1. F!IsTekst(w) /\ r = k
        BY <2>1, <2>4 DEF F!Toelichting, Iets
      <3> HIDE DEF r, k
      <3> QED BY <1>0, <2>1, <2>2, <3>1 DEF r
    <2> QED BY <2>3, <2>4
  <1> QED BY <1>1, <1>2, <1>3, <1>4, <1>5, <1>6, <1>7, <1>8, <1>9, <1>10, <1>11 DEF KNIPT

(* Readers with a value of their own for an absent field, and of numbers.  *)
VULT_AAN ==
    {"geheel", "waarschuwing", "dagen", "standaard_ja", "alleen_ja", "soort_notitie", "soort_ronde", "links"}

LEMMA GetalFeit ==
    ASSUME Apart, NEW r, r.soort = "getal", F!Gesoort(r)
    PROVE  r \notin {Geen, Onzin, F!Nul} /\ ~F!Leeg(r) /\ ~F!IsTekst(r)
  <1>1. r # F!Nul
    BY DEF F!Nul
  <1>2. r \notin {Geen, Onzin, F!Nul}
    BY <1>1 DEF Apart
  <1> QED BY <1>2 DEF F!Leeg, F!Ontbreekt, F!IsTekst

LEMMA GeheelHerlezen ==
    ASSUME Apart, NEW w, F!Waarde(w), Iets(F!OptioneelPositiefGeheelGetal(w))
    PROVE  LET r == F!OptioneelPositiefGeheelGetal(w) IN
           F!OptioneelPositiefGeheelGetal(r) = r /\ ~F!IsTekst(r)
  <1> DEFINE r == F!OptioneelPositiefGeheelGetal(w)
  <1>1. ~F!Leeg(w)
    BY DEF F!OptioneelPositiefGeheelGetal, Iets
  <1>2. CASE w # Onzin /\ w.soort = "getal"
    <2>1. r = w
      BY <1>1, <1>2 DEF F!OptioneelPositiefGeheelGetal, Iets, F!Als
    <2> QED BY <1>2, <2>1 DEF F!IsTekst
  <1>3. CASE ~(w # Onzin /\ w.soort = "getal")
    <2>1. F!Vorm(w, "cijfers") /\ r = F!Getal(w.inh.n, TRUE, w.inh.groot)
      BY <1>1, <1>3 DEF F!OptioneelPositiefGeheelGetal, Iets
    <2>2. w.inh.n \in Nat
      BY <2>1 DEF F!Vorm, F!IsTekst, F!Waarde, F!EenTekst, F!Inhoud
    <2>3. r.heel /\ r.n >= 0 /\ r.soort = "getal" /\ F!Gesoort(r)
      BY <2>1, <2>2 DEF F!Getal, F!Gesoort
    <2> HIDE DEF r
    <2>4. r.soort = "getal" /\ r \notin {Geen, Onzin, F!Nul} /\ ~F!Leeg(r) /\ ~F!IsTekst(r)
      BY <2>3, GetalFeit
    <2> QED BY <2>3, <2>4 DEF F!OptioneelPositiefGeheelGetal, F!Als, r
  <1> QED BY <1>2, <1>3

LEMMA JaFeit ==
    ASSUME Apart, NEW b
    PROVE  F!IsJa(F!Ja(b)) /\ ~F!Ontbreekt(F!Ja(b)) /\ ~F!IsTekst(F!Ja(b))
  <1> DEFINE r == F!Ja(b)
  <1>1. r.soort = "bool" /\ F!Gesoort(r) /\ r # F!Nul
    BY DEF F!Ja, F!Gesoort, F!Nul
  <1> HIDE DEF r
  <1>2. r \notin {Geen, Onzin, F!Nul}
    BY <1>1 DEF Apart
  <1> QED BY <1>1, <1>2 DEF F!IsJa, F!Ontbreekt, F!IsTekst, r

LEMMA WoordFeit ==
    ASSUME Apart, NEW n \in Nat, NEW x
    PROVE  LET s == F!Tekst(n, 0, F!Woord(x)) IN ~F!Ontbreekt(s) /\ F!IsWoord(s, {x})
  <1> DEFINE r == F!Tekst(n, 0, F!Woord(x))
  <1>1. /\ r.soort = "tekst" /\ r.lengte = n + 0 /\ r.kaal = n /\ F!Gesoort(r) /\ r # F!Nul
        /\ r.inh.vorm = "woord" /\ r.inh.w = x
    BY DEF F!Tekst, F!Woord, F!Gesoort, F!Nul
  <1> HIDE DEF r
  <1>2. r \notin {Geen, Onzin, F!Nul}
    BY <1>1 DEF Apart
  <1> QED BY <1>1, <1>2 DEF F!Ontbreekt, F!IsWoord, F!Vorm, F!IsTekst, F!Strak, r

(* A word with a default.                                                  *)
LEMMA StandaardHerlezen ==
    ASSUME NEW v, NEW s, NEW w, Iets(F!LeesVeld(v, w)), ~F!Ontbreekt(s), F!IsWoord(s, v.max),
           \A y : F!LeesVeld(v, y) = IF F!Ontbreekt(y) THEN s ELSE F!Als(F!IsWoord(y, v.max), y)
    PROVE  LET r == F!LeesVeld(v, w) IN F!LeesVeld(v, r) = r /\ F!Strak(r)
  BY DEF F!Als, Iets, F!IsWoord

LEMMA AanvulHerlezen ==
    ASSUME Apart, NEW v, v.lezer \in VULT_AAN, Begrensd(v),
           NEW w, F!Waarde(w), Iets(F!LeesVeld(v, w))
    PROVE  LET r == F!LeesVeld(v, w) IN F!LeesVeld(v, r) = r /\ (F!IsTekst(r) => F!Strak(r))
  <1> DEFINE r == F!LeesVeld(v, w)
  <1>1. CASE v.lezer = "geheel"
    <2>1. \A y : F!LeesVeld(v, y) = F!OptioneelPositiefGeheelGetal(y)
      BY Zenon, <1>1 DEF F!LeesVeld
    <2> QED BY <2>1, GeheelHerlezen
  <1>2. CASE v.lezer = "waarschuwing"
    <2>1. \A y : F!LeesVeld(v, y) = F!Waarschuwingstermijn(y)
      BY Zenon, <1>2 DEF F!LeesVeld
    <2>2. CASE F!OptioneelPositiefGeheelGetal(w) = Geen
      <3>1. r = F!Getal(90, TRUE, FALSE)
        BY <2>1, <2>2 DEF F!Waarschuwingstermijn
      <3> HIDE DEF r
      <3>2. r.heel /\ r.n >= 0 /\ r.soort = "getal" /\ F!Gesoort(r)
        BY <3>1 DEF F!Getal, F!Gesoort
      <3>3. r.soort = "getal" /\ r \notin {Geen, Onzin, F!Nul} /\ ~F!Leeg(r) /\ ~F!IsTekst(r)
        BY <3>2, GetalFeit
      <3>4. F!OptioneelPositiefGeheelGetal(r) = r
        BY Zenon, <3>2, <3>3 DEF F!OptioneelPositiefGeheelGetal, F!Als
      <3> QED BY <2>1, <3>3, <3>4 DEF F!Waarschuwingstermijn, r
    <2>3. CASE F!OptioneelPositiefGeheelGetal(w) # Geen
      <3>1. r = F!OptioneelPositiefGeheelGetal(w) /\ Iets(r)
        BY <2>1, <2>3 DEF F!Waarschuwingstermijn
      <3>2. F!OptioneelPositiefGeheelGetal(r) = r /\ ~F!IsTekst(r)
        BY <3>1, GeheelHerlezen
      <3> HIDE DEF r
      <3> QED BY <2>1, <3>1, <3>2 DEF F!Waarschuwingstermijn, Iets, r
    <2> QED BY <2>2, <2>3
  <1>3. CASE v.lezer = "dagen"
    <2>1. \A y : F!LeesVeld(v, y) = F!Geldigheid(y)
      BY Zenon, <1>3 DEF F!LeesVeld
    <2>2. /\ r.soort = "getal" /\ r.heel /\ ~r.groot /\ r.n \in 1..180
          /\ r \notin {Geen, Onzin, F!Nul} /\ ~F!Leeg(r) /\ ~F!IsTekst(r)
      <3>1. CASE F!Leeg(w)
        <4>1. r = F!Getal(30, TRUE, FALSE)
          BY <2>1, <3>1 DEF F!Geldigheid
        <4>2. r.heel /\ ~r.groot /\ r.n = 30 /\ r.soort = "getal" /\ F!Gesoort(r)
          BY <4>1 DEF F!Getal, F!Gesoort
        <4> HIDE DEF r
        <4>3. r.soort = "getal" /\ r \notin {Geen, Onzin, F!Nul} /\ ~F!Leeg(r) /\ ~F!IsTekst(r)
          BY <4>2, GetalFeit
        <4> QED BY <4>2, <4>3
      <3>2. CASE ~F!Leeg(w)
        <4> DEFINE n == F!AlsNumber(w)
        <4>1. r = n /\ n # Onzin /\ n.heel /\ ~n.groot /\ n.n \in 1..180
          BY <2>1, <3>2 DEF F!Geldigheid, F!Als, Iets
        <4>2. (n = w /\ w.soort = "getal") \/ (\E x, h, g : n = F!Getal(x, h, g))
          BY <4>1 DEF F!AlsNumber
        <4>3. CASE n = w /\ w.soort = "getal"
          <5>1. w # Geen /\ w # F!Nul /\ ~F!IsTekst(w)
            BY <3>2, <4>3 DEF F!Leeg, F!Ontbreekt, F!IsTekst
          <5> QED BY Zenon, <3>2, <4>1, <4>3, <5>1
        <4>4. CASE \E x, h, g : n = F!Getal(x, h, g)
          <5> HIDE DEF n
          <5>0. n.soort = "getal" /\ F!Gesoort(n)
            BY <4>4 DEF F!Getal, F!Gesoort
          <5>1. n.soort = "getal" /\ n \notin {Geen, Onzin, F!Nul} /\ ~F!Leeg(n) /\ ~F!IsTekst(n)
            BY <5>0, GetalFeit
          <5> HIDE DEF r
          <5> QED BY Zenon, <4>1, <5>1
        <4> QED BY <4>2, <4>3, <4>4
      <3> QED BY <3>1, <3>2
    <2> HIDE DEF r
    <2>3. F!AlsNumber(r) = r
      BY <2>2 DEF F!AlsNumber
    <2>4. F!Geldigheid(r) = r
      BY <2>2, <2>3 DEF F!Geldigheid, F!Als
    <2> QED BY <2>1, <2>2, <2>4 DEF r
  <1>4. CASE v.lezer = "standaard_ja"
    <2>1. \A y : F!LeesVeld(v, y) = F!StandaardJa(y)
      BY Zenon, <1>4 DEF F!LeesVeld
    <2>2. CASE F!Ontbreekt(w)
      <3>1. r = F!Ja(TRUE)
        BY <2>1, <2>2 DEF F!StandaardJa
      <3> HIDE DEF r
      <3>2. F!IsJa(r) /\ ~F!Ontbreekt(r) /\ ~F!IsTekst(r)
        BY <3>1, JaFeit
      <3> QED BY <2>1, <3>2 DEF F!StandaardJa, F!Boolean, F!Als, r
    <2>3. CASE ~F!Ontbreekt(w)
      <3>1. r = w /\ F!IsJa(w)
        BY <2>1, <2>3 DEF F!StandaardJa, F!Boolean, F!Als, Iets
      <3> QED BY <2>1, <3>1 DEF F!IsJa, F!IsTekst
    <2> QED BY <2>2, <2>3
  <1>5. CASE v.lezer = "alleen_ja"
    <2>1. \A y : F!LeesVeld(v, y) = F!AlleenJa(y)
      BY Zenon, <1>5 DEF F!LeesVeld
    <2>2. F!Ja(TRUE) # F!Ja(FALSE)
      BY DEF F!Ja
    <2>3. r = F!Ja(TRUE) \/ r = F!Ja(FALSE)
      BY <2>1 DEF F!AlleenJa
    <2>4. ~F!IsTekst(r)
      BY <2>3, JaFeit
    <2> HIDE DEF r
    <2>5. F!AlleenJa(r) = r
      BY Zenon, <2>2, <2>3 DEF F!AlleenJa
    <2> QED BY <2>1, <2>4, <2>5 DEF r
  <1>6. CASE v.lezer = "soort_notitie"
    <2> DEFINE s == F!Tekst(4, 0, F!Woord("werk"))
    <2>1. \A y : F!LeesVeld(v, y) = IF F!Ontbreekt(y) THEN s ELSE F!Als(F!IsWoord(y, v.max), y)
      BY Zenon, <1>6 DEF F!LeesVeld
    <2>2. ~F!Ontbreekt(s) /\ F!IsWoord(s, {"werk"})
      BY WoordFeit
    <2>3. F!IsWoord(s, v.max)
      BY <1>6, <2>2 DEF F!IsWoord, Begrensd
    <2> HIDE DEF s
    <2> QED BY <2>1, <2>2, <2>3, StandaardHerlezen
  <1>7. CASE v.lezer = "soort_ronde"
    <2> DEFINE s == F!Tekst(17, 0, F!Woord("vendor_compliance"))
    <2>1. \A y : F!LeesVeld(v, y) = IF F!Ontbreekt(y) THEN s ELSE F!Als(F!IsWoord(y, v.max), y)
      BY Zenon, <1>7 DEF F!LeesVeld
    <2>2. ~F!Ontbreekt(s) /\ F!IsWoord(s, {"vendor_compliance"})
      BY WoordFeit
    <2>3. F!IsWoord(s, v.max)
      BY <1>7, <2>2 DEF F!IsWoord, Begrensd
    <2> HIDE DEF s
    <2> QED BY <2>1, <2>2, <2>3, StandaardHerlezen
  <1>8. CASE v.lezer = "links"
    <2>1. \A y : F!LeesVeld(v, y) = F!Links(y)
      BY Zenon, <1>8 DEF F!LeesVeld
    <2>2. CASE w = Geen
      <3> DEFINE l == F!Lijst(<<>>)
      <3>1. r = l
        BY <2>1, <2>2 DEF F!Links
      <3>2. l.soort = "lijst" /\ F!Gesoort(l) /\ l # F!Nul /\ l.s = <<>>
        BY DEF F!Lijst, F!Gesoort, F!Nul
      <3> HIDE DEF l
      <3>3. l \notin {Geen, Onzin, F!Nul} /\ F!IsLijst(l) /\ ~F!IsTekst(l) /\ DOMAIN l.s = {}
        BY <3>2 DEF Apart, F!IsLijst, F!IsTekst
      <3>4. F!Links(l) = l
        BY <3>3 DEF F!Links, F!Elk, F!Als
      <3> QED BY <2>1, <3>1, <3>3, <3>4
    <2>3. CASE w # Geen
      <3>1. r = w /\ F!IsLijst(w)
        BY <2>1, <2>3 DEF F!Links, F!Elk, F!Als, Iets
      <3>2. ~F!IsTekst(w)
        BY <3>1 DEF F!IsLijst, F!IsTekst
      <3> QED BY <3>1, <3>2
    <2> QED BY <2>2, <2>3
  <1> QED BY <1>1, <1>2, <1>3, <1>4, <1>5, <1>6, <1>7, <1>8 DEF VULT_AAN

LEZERS == GEEFT_TERUG \cup KNIPT \cup VULT_AAN

(* What a form read from a field can be sent again and reads the same, and *)
(* a text has no blanks around it, the address of a member excepted: for   *)
(* every reader but the four that drop the second of two equal codes or    *)
(* ids, and for every value.                                               *)
THEOREM Herlezen ==
    ASSUME Apart, NEW v, v.lezer \in LEZERS, Begrensd(v),
           NEW w, F!Waarde(w), Iets(F!LeesVeld(v, w))
    PROVE  LET r == F!LeesVeld(v, w) IN
           /\ F!LeesVeld(v, r) = r
           /\ F!IsTekst(r) => F!Strak(r) \/ v.lezer = "lid_email"
  <1>1. CASE v.lezer \in GEEFT_TERUG
    BY <1>1, TerugHerlezen
  <1>2. CASE v.lezer \in KNIPT
    BY <1>2, TekstHerlezen
  <1>3. CASE v.lezer \in VULT_AAN
    BY <1>3, AanvulHerlezen
  <1> QED BY <1>1, <1>2, <1>3 DEF LEZERS

(* A text of a limited column is not empty and no longer than the column.  *)
LIMIET == {"verplicht", "optioneel", "ruw", "ruwe_stap"}
Maat(v, r) == v.lezer \in LIMIET => r.kaal \in 1..v.max

LEMMA RuwFeit ==
    ASSUME Apart, NEW m, m \in Nat, NEW w, F!Waarde(w), F!IsTekst(w), w.kaal > 0, w.lengte <= m
    PROVE  F!Knip(w).kaal \in 1..m
  <1>1. F!Knip(w).kaal = w.kaal /\ w.kaal \in Nat /\ w.lengte \in Nat /\ w.kaal <= w.lengte
    BY TekstFeit
  <1> QED BY <1>1

LEMMA MaatGehouden ==
    ASSUME Apart, NEW v, Begrensd(v), NEW w, F!Waarde(w), Iets(F!LeesVeld(v, w))
    PROVE  Maat(v, F!LeesVeld(v, w))
  <1> DEFINE r == F!LeesVeld(v, w)
  <1>1. CASE v.lezer = "verplicht"
    <2>1. r = F!VerplichteTekst(w, v.max)
      BY Zenon, <1>1 DEF F!LeesVeld
    <2> QED BY <2>1, VerplichtHerlezen DEF Maat
  <1>2. CASE v.lezer = "optioneel"
    <2>1. r = F!OptioneleTekst(w, v.max)
      BY Zenon, <1>2 DEF F!LeesVeld
    <2> QED BY <2>1, OptioneelHerlezen DEF Maat
  <1>3. CASE v.lezer \in {"ruw", "ruwe_stap"}
    <2>1. r = F!RuweTekst(w, v.max) \/ r = F!RuweStap(w, v.max)
      BY Zenon, <1>3 DEF F!LeesVeld
    <2>2. F!IsTekst(w) /\ w.kaal > 0 /\ w.lengte <= v.max /\ r = F!Knip(w)
      BY <2>1 DEF F!RuweStap, F!RuweTekst, F!Als, Iets
    <2>3. v.max \in Nat
      BY <1>3 DEF Begrensd
    <2>4. F!Knip(w).kaal \in 1..v.max
      BY Zenon, <2>2, <2>3, RuwFeit
    <2> QED BY Zenon, <2>2, <2>4 DEF Maat
  <1>4. CASE v.lezer \notin LIMIET
    BY <1>4 DEF Maat
  <1> QED BY <1>1, <1>2, <1>3, <1>4 DEF LIMIET

-----------------------------------------------------------------------------
(* The table of forms.                                                     *)

(* The reader and the limit of each column; two columns have two, and a    *)
(* contact's name may be left out of one form.                             *)
Regel(k, l, m) ==
    \/ l = "verplicht" /\ m = 200 /\ k \in {"vendor.name", "vendor_contact.full_name", "contract.name",
                                            "tenant.name", "user.full_name"}
    \/ l = "verplicht" /\ m = 4000 /\ k = "response_note.tekst"
    \/ l = "verplicht" /\ m = 100000 /\ k \in {"vendor_category.label", "werkingsgebied.label"}
    \/ l = "optioneel" /\ m = 100 /\
         k \in {"vendor.city", "vendor.country", "vendor.category_code", "vendor.coupa_supplier_number",
               "vendor.vestigingsnummer", "vendor.business_criticality_code", "vendor.compliance_status_code",
               "vendor_contact.phone", "vendor_contact.job_title", "contract.contract_number",
               "contract.status_code", "contract.contract_type", "contract.business_risk_tier_code"}
    \/ l = "optioneel" /\ m = 200 /\ k = "vendor.statutory_name"
    \/ l = "optioneel" /\ m = 500 /\ k = "vendor.website"
    \/ l = "optioneel" /\ m = 2000 /\ k \in {"vendor_contact.role_description", "contract.note"}
    \/ l = "ruw" /\ m = 300 /\ k = "vendor_engagement.titel"
    \/ l = "ruw" /\ m = 500 /\ k = "vendor_engagement_note.tekst"
    \/ l = "ruwe_stap" /\ m = 300 /\ k = "vendor_engagement.volgende_stap_tekst"
    \/ l = "kvk" /\ m = 20 /\ k = "vendor.kvk_number"
    \/ l = "email" /\ m = 100 /\ k = "vendor_contact.email"
    \/ l = "optioneel_woord" /\ m = {"ja", "nee", "onbekend"} /\ k = "contract.auto_renews"
    \/ l = "woord" /\ m = {"admin", "user", "reviewer"} /\ k = "tenant_membership.role"
    \/ l = "woord" /\ m = F!STATUSSEN \cup F!Prototype /\ k = "survey_run.status"
    \/ l = "woord" /\ m = {"goed", "nadere_vragen", "niet_goed", "goedgekeurd"} /\ k = "survey_review.verdict"
    \/ l = "soort_ronde" /\ m = {"vendor_compliance", "internal_review"} /\ k = "survey_run.survey_kind"
    \/ l = "soort_notitie" /\ m = {"werk", "vastgesteld"} /\ k = "response_note.soort"
    \/ m = 0 /\
         \/ l = "alleen_ja" /\ k = "survey_run.is_test"
         \/ l = "antwoord_email" /\ k = "tenant.antwoord_email"
         \/ l = "platform_optioneel" /\ k = "tenant.antwoord_email"
         \/ l = "lid_email" /\ k = "user.email"
         \/ l = "platform_email" /\ k = "user.email"
         \/ l = "bedrag" /\ k = "contract.value_eur"
         \/ l = "boolean" /\ k = "vendor_contact.is_primary"
         \/ l = "optioneel_boolean" /\ k = "contract.dpa_aanwezig"
         \/ l = "standaard_ja" /\ k = "mail"
         \/ l = "code" /\ k \in {"vendor_category.code", "werkingsgebied.code"}
         \/ l = "datum" /\ k \in {"contract.start_date", "contract.end_date"}
         \/ l = "stapdatum" /\ k = "vendor_engagement.volgende_stap_datum"
         \/ l = "sluitdatum" /\ k = "survey_run.closes_at"
         \/ l = "verzonden" /\ k = "survey_response.handmatig_verzonden_op"
         \/ l = "dagen" /\ k = "survey_response.expires_at"
         \/ l = "geheel" /\ k = "contract.notice_period_days"
         \/ l = "waarschuwing" /\ k = "contract.warning_days_before"
         \/ l = "gebieden" /\ k = "contract_werkingsgebied"
         \/ l = "themas" /\ k = "vendor_compliance_thema"
         \/ l = "templates" /\ k = "contract_survey_template"
         \/ l = "ids" /\ k = "contract_survey_template.wachtlijst"
         \/ l = "vendors" /\ k = "survey_response"
         \/ l = "links" /\ k = "vendor_engagement_link"
         \/ l = "uuid" /\ k \in {"survey_run.template_id", "template_reviewer.user_id"}
         \/ l = "optionele_uuid" /\ k \in {"contract.vendor_contact_id", "contract.owner_user_id"}
         \/ l = "uuid_of_niet" /\ k = "survey_run.contract_id"
         \/ l = "reden" /\ k = "audit_event.reden"
         \/ l = "toelichting" /\ k = "survey_review.toelichting"

GoedVeld(v) == v = F!Veld(v.kolom, v.lezer, v.max) /\ Regel(v.kolom, v.lezer, v.max)
GoedeVelden(r) == \A x \in DOMAIN r : GoedVeld(r[x])

(* Of every other column the forms have one rule.                          *)
TWEE_REGELS == {"tenant.antwoord_email", "user.email"}

LEMMA EenRegel ==
    ASSUME NEW v, NEW u, GoedVeld(v), GoedVeld(u), v.kolom = u.kolom, v.kolom \notin TWEE_REGELS
    PROVE  v = u
  <1>1. ASSUME NEW k, NEW l, NEW m, NEW p, NEW q, Regel(k, l, m), Regel(k, p, q), k \notin TWEE_REGELS
        PROVE  l = p /\ m = q
    BY SMTT(60), <1>1 DEF Regel, TWEE_REGELS
  <1>2. v.lezer = u.lezer /\ v.max = u.max
    BY Zenon, <1>1 DEF GoedVeld
  <1> QED BY Zenon, <1>2 DEF GoedVeld

VERZAMELEN == {"templates", "ids", "themas", "gebieden"}

LEMMA RegelFeit ==
    ASSUME NEW v, GoedVeld(v)
    PROVE  v.lezer \in LEZERS \cup VERZAMELEN /\ Begrensd(v)
  <1>1. ASSUME NEW k, NEW l, NEW m, Regel(k, l, m)
        PROVE  /\ l \in LEZERS \cup VERZAMELEN
               /\ l \in {"ruw", "ruwe_stap"} => m \in Nat
               /\ l = "soort_notitie" => "werk" \in m
               /\ l = "soort_ronde" => "vendor_compliance" \in m
    BY SMTT(60), <1>1 DEF Regel, LEZERS, GEEFT_TERUG, KNIPT, VULT_AAN, VERZAMELEN
  <1> QED BY Zenon, <1>1 DEF GoedVeld, Begrensd

LEMMA SamenGoed ==
    ASSUME NEW a, NEW b, GoedeVelden(a), GoedeVelden(b)
    PROVE  GoedeVelden(F!En(a, b))
  BY DEF GoedeVelden, F!En

LEMMA VeldGoed ==
    ASSUME NEW k, NEW l, NEW m, Regel(k, l, m)
    PROVE  GoedVeld(F!Veld(k, l, m))
  <1> DEFINE v == F!Veld(k, l, m)
  <1>1. v.kolom = k /\ v.lezer = l /\ v.max = m
    BY DEF F!Veld
  <1> HIDE DEF v
  <1>2. v = F!Veld(v.kolom, v.lezer, v.max) /\ Regel(v.kolom, v.lezer, v.max)
    BY Zenon, <1>1 DEF v
  <1> QED BY Zenon, <1>2 DEF GoedVeld, v

LEMMA KeuzeGoed ==
    ASSUME NEW k, NEW l, NEW W, Regel(k, l, W)
    PROVE  GoedVeld([F!Keuzeveld(k, W) EXCEPT !.lezer = l])
  <1>1. [F!Keuzeveld(k, W) EXCEPT !.lezer = l] = F!Veld(k, l, W)
    BY DEF F!Keuzeveld, F!Veld
  <1> QED BY Zenon, <1>1, VeldGoed

LEMMA WoordGoed ==
    ASSUME NEW k, NEW W, Regel(k, "woord", W)
    PROVE  GoedVeld(F!Keuzeveld(k, W))
  <1>1. F!Keuzeveld(k, W) = F!Veld(k, "woord", W)
    BY DEF F!Keuzeveld, F!Veld
  <1> QED BY Zenon, <1>1, VeldGoed

(* Every field of the table of forms.                                      *)
LEMMA TekstveldenGoed ==
    /\ \A k \in {"vendor.name", "vendor_contact.full_name", "contract.name", "tenant.name",
          "user.full_name"} :
          GoedVeld(F!Veld(k, "verplicht", 200))
    /\ GoedVeld(F!Veld("response_note.tekst", "verplicht", 4000))
    /\ \A k \in {"vendor_category.label", "werkingsgebied.label"} :
          GoedVeld(F!Veld(k, "verplicht", 100000))
    /\ \A k \in {"vendor.city", "vendor.country", "vendor.category_code",
          "vendor.coupa_supplier_number", "vendor.vestigingsnummer",
          "vendor.business_criticality_code", "vendor.compliance_status_code", "vendor_contact.phone",
          "vendor_contact.job_title", "contract.contract_number", "contract.status_code",
          "contract.contract_type", "contract.business_risk_tier_code"} :
          GoedVeld(F!Veld(k, "optioneel", 100))
    /\ \A k \in {"vendor.statutory_name"} :
          GoedVeld(F!Veld(k, "optioneel", 200))
    /\ GoedVeld(F!Veld("vendor.website", "optioneel", 500))
    /\ \A k \in {"vendor_contact.role_description", "contract.note"} :
          GoedVeld(F!Veld(k, "optioneel", 2000))
    /\ GoedVeld(F!Veld("vendor_engagement.titel", "ruw", 300))
    /\ GoedVeld(F!Veld("vendor_engagement_note.tekst", "ruw", 500))
    /\ GoedVeld(F!Veld("vendor_engagement.volgende_stap_tekst", "ruwe_stap", 300))
    /\ GoedVeld(F!Veld("vendor.kvk_number", "kvk", 20))
    /\ GoedVeld(F!Veld("vendor_contact.email", "email", 100))
  BY VeldGoed DEF Regel

LEMMA AndereVeldenGoed ==
    /\ GoedVeld(F!Veld("survey_run.is_test", "alleen_ja", 0))
    /\ GoedVeld(F!Veld("tenant.antwoord_email", "antwoord_email", 0))
    /\ GoedVeld(F!Veld("tenant.antwoord_email", "platform_optioneel", 0))
    /\ GoedVeld(F!Veld("user.email", "lid_email", 0))
    /\ GoedVeld(F!Veld("user.email", "platform_email", 0))
    /\ GoedVeld(F!Veld("contract.value_eur", "bedrag", 0))
    /\ GoedVeld(F!Veld("vendor_contact.is_primary", "boolean", 0))
    /\ GoedVeld(F!Veld("contract.dpa_aanwezig", "optioneel_boolean", 0))
    /\ GoedVeld(F!Veld("mail", "standaard_ja", 0))
    /\ \A k \in {"vendor_category.code", "werkingsgebied.code"} : GoedVeld(F!Veld(k, "code", 0))
    /\ \A k \in {"contract.start_date", "contract.end_date"} : GoedVeld(F!Veld(k, "datum", 0))
    /\ GoedVeld(F!Veld("vendor_engagement.volgende_stap_datum", "stapdatum", 0))
    /\ GoedVeld(F!Veld("survey_run.closes_at", "sluitdatum", 0))
    /\ GoedVeld(F!Veld("survey_response.handmatig_verzonden_op", "verzonden", 0))
    /\ GoedVeld(F!Veld("survey_response.expires_at", "dagen", 0))
    /\ GoedVeld(F!Veld("contract.notice_period_days", "geheel", 0))
    /\ GoedVeld(F!Veld("contract.warning_days_before", "waarschuwing", 0))
    /\ GoedVeld(F!Veld("contract_werkingsgebied", "gebieden", 0))
    /\ GoedVeld(F!Veld("vendor_compliance_thema", "themas", 0))
    /\ GoedVeld(F!Veld("contract_survey_template", "templates", 0))
    /\ GoedVeld(F!Veld("contract_survey_template.wachtlijst", "ids", 0))
    /\ GoedVeld(F!Veld("survey_response", "vendors", 0))
    /\ GoedVeld(F!Veld("vendor_engagement_link", "links", 0))
    /\ \A k \in {"survey_run.template_id", "template_reviewer.user_id"} : GoedVeld(F!Veld(k, "uuid", 0))
    /\ \A k \in {"contract.vendor_contact_id", "contract.owner_user_id"} :
          GoedVeld(F!Veld(k, "optionele_uuid", 0))
    /\ GoedVeld(F!Veld("survey_run.contract_id", "uuid_of_niet", 0))
    /\ GoedVeld(F!Veld("audit_event.reden", "reden", 0))
    /\ GoedVeld(F!Veld("survey_review.toelichting", "toelichting", 0))
  BY VeldGoed DEF Regel

(* The tables of fields the forms share.                                   *)
LEMMA VeldenGoed ==
    /\ GoedeVelden(F!Leverancier) /\ GoedeVelden(F!LeverancierWijziging)
    /\ GoedeVelden(F!Contact) /\ GoedeVelden(F!ContactVeld) /\ GoedeVelden(F!Contract)
    /\ GoedeVelden(F!Lid) /\ GoedeVelden(F!Rol) /\ GoedeVelden(F!Tenant)
    /\ \A t \in {"vendor_category.label", "werkingsgebied.label"} : GoedeVelden(F!Label(t))
  <1>1. GoedeVelden(F!Leverancier)
    <2> DEFINE a == [name |-> F!Veld("vendor.name", "verplicht", 200),
                     kvkNumber |-> F!Veld("vendor.kvk_number", "kvk", 20)]
    <2>1. GoedeVelden(a) /\ GoedeVelden(F!Plaats)
      BY TekstveldenGoed, AndereVeldenGoed DEF GoedeVelden, F!Plaats
    <2> HIDE DEF a
    <2>2. GoedeVelden(F!En(F!Plaats, a))
      BY <2>1, SamenGoed
    <2> QED BY <2>2 DEF F!Leverancier, a
  <1>2. GoedeVelden(F!LeverancierWijziging)
    <2> DEFINE a == [vestigingsnummer |-> F!Veld("vendor.vestigingsnummer", "optioneel", 100),
                     statutoryName |-> F!Veld("vendor.statutory_name", "optioneel", 200),
                     businessCriticalityCode |-> F!Veld("vendor.business_criticality_code", "optioneel", 100),
                     complianceStatusCode |-> F!Veld("vendor.compliance_status_code", "optioneel", 100)]
    <2>1. GoedeVelden(a)
      BY TekstveldenGoed, AndereVeldenGoed DEF GoedeVelden
    <2> HIDE DEF a
    <2>2. GoedeVelden(F!En(F!Leverancier, a))
      BY <1>1, <2>1, SamenGoed
    <2> QED BY <2>2 DEF F!LeverancierWijziging, a
  <1>3. GoedeVelden(F!Contact)
    BY TekstveldenGoed, AndereVeldenGoed DEF GoedeVelden, F!Contact
  <1>4. GoedeVelden(F!ContactVeld)
    <2> DEFINE a == [fullName |-> F!Veld("vendor_contact.full_name", "verplicht", 200),
                     roleDescription |-> F!Veld("vendor_contact.role_description", "optioneel", 2000),
                     isPrimary |-> F!Veld("vendor_contact.is_primary", "boolean", 0)]
    <2>1. GoedeVelden(a)
      BY TekstveldenGoed, AndereVeldenGoed DEF GoedeVelden
    <2> HIDE DEF a
    <2>2. GoedeVelden(F!En(F!Contact, a))
      BY <1>3, <2>1, SamenGoed
    <2> QED BY <2>2 DEF F!ContactVeld, a
  <1>5. GoedeVelden(F!Contract)
    <2> DEFINE w == [F!Keuzeveld("contract.auto_renews", {"ja", "nee", "onbekend"}) EXCEPT !.lezer = "optioneel_woord"]
    <2>0. Regel("contract.auto_renews", "optioneel_woord", {"ja", "nee", "onbekend"})
      BY DEF Regel
    <2>1. GoedVeld(w)
      BY Zenon, <2>0, KeuzeGoed
    <2> QED BY TekstveldenGoed, AndereVeldenGoed, <2>1 DEF GoedeVelden, F!Contract
  <1>6. GoedeVelden(F!Lid) /\ GoedeVelden(F!Tenant)
    BY TekstveldenGoed, AndereVeldenGoed DEF GoedeVelden, F!Lid, F!Tenant
  <1>7. GoedeVelden(F!Rol)
    <2> DEFINE w == F!Keuzeveld("tenant_membership.role", {"admin", "user", "reviewer"})
    <2>0. Regel("tenant_membership.role", "woord", {"admin", "user", "reviewer"})
      BY DEF Regel
    <2>1. GoedVeld(w)
      BY Zenon, <2>0, WoordGoed
    <2> HIDE DEF w
    <2>2. GoedeVelden([rol |-> w])
      BY <2>1 DEF GoedeVelden
    <2> QED BY <2>2 DEF F!Rol, w
  <1>8. \A t \in {"vendor_category.label", "werkingsgebied.label"} : GoedeVelden(F!Label(t))
    BY TekstveldenGoed, AndereVeldenGoed DEF GoedeVelden, F!Label
  <1> QED BY <1>1, <1>2, <1>3, <1>4, <1>5, <1>6, <1>7, <1>8

GoedFormulier(T) == GoedeVelden(T.velden) /\ T.altijd \subseteq DOMAIN T.velden

OptioneleNaam == F!Veld("vendor_contact.full_name", "optioneel", 200)
MetContact(T) ==
    /\ \A x \in DOMAIN T.velden : GoedVeld(T.velden[x]) \/ T.velden[x] = OptioneleNaam
    /\ "fullName" \in DOMAIN T.velden /\ T.velden.fullName = OptioneleNaam
    /\ T.altijd = DOMAIN T.velden

LEMMA FormulierGoed ==
    ASSUME NEW velden, GoedeVelden(velden)
    PROVE  GoedFormulier(F!Nieuw(velden)) /\ GoedFormulier(F!Wijziging(velden))
  BY DEF GoedFormulier, F!Nieuw, F!Wijziging

(* Every form of the table.                                                *)
LEMMA FormulierenGoed ==
    \A f \in DOMAIN F!FORMULIEREN :
        IF f = "leesNieuweVendorContact" THEN MetContact(F!FORMULIEREN[f]) ELSE GoedFormulier(F!FORMULIEREN[f])
  <1> DEFINE T == F!FORMULIEREN
  <1>3. GoedVeld(F!Dossiernotitie)
    BY TekstveldenGoed DEF F!Dossiernotitie
  <1>4. GoedFormulier(T.leesNieuweVendor)
    BY VeldenGoed, FormulierGoed DEF F!FORMULIEREN
  <1>5. GoedFormulier(T.leesVendorWijziging)
    BY VeldenGoed, FormulierGoed DEF F!FORMULIEREN
  <1>6. GoedFormulier(T.leesContact)
    BY VeldenGoed, FormulierGoed DEF F!FORMULIEREN
  <1>7. GoedFormulier(T.leesNieuwContract)
    BY VeldenGoed, FormulierGoed DEF F!FORMULIEREN
  <1>8. GoedFormulier(T.leesContractWijziging)
    BY VeldenGoed, FormulierGoed DEF F!FORMULIEREN
  <1>9. GoedFormulier(T.leesVendorCategorieWijziging)
    BY VeldenGoed, FormulierGoed DEF F!FORMULIEREN
  <1>10. GoedFormulier(T.leesWerkingsgebiedWijziging)
    BY VeldenGoed, FormulierGoed DEF F!FORMULIEREN
  <1>11. GoedFormulier(T.leesRolWijziging)
    BY VeldenGoed, FormulierGoed DEF F!FORMULIEREN
  <1>12. GoedFormulier(T.leesGegevensWijziging)
    BY VeldenGoed, FormulierGoed DEF F!FORMULIEREN
  <1>13. GoedFormulier(T.leesTenantWijziging)
    BY VeldenGoed, FormulierGoed DEF F!FORMULIEREN
  <1>14. GoedFormulier(T.leesContactNieuw)
    BY VeldenGoed DEF F!FORMULIEREN, GoedFormulier, F!Wijziging, F!ContactVeld, F!En
  <1>15. MetContact(T.leesNieuweVendorContact)
    <2> DEFINE a == [fullName |-> OptioneleNaam]   c == F!Contact
    <2>1. GoedeVelden(c) /\ "fullName" \notin DOMAIN c
      BY VeldenGoed DEF F!Contact
    <2>2. T.leesNieuweVendorContact = F!Nieuw(F!En(c, a))
      BY DEF F!FORMULIEREN, OptioneleNaam
    <2> HIDE DEF c
    <2>3. F!En(c, a).fullName = OptioneleNaam /\ "fullName" \in DOMAIN F!En(c, a)
          /\ \A x \in DOMAIN F!En(c, a) : GoedVeld(F!En(c, a)[x]) \/ F!En(c, a)[x] = OptioneleNaam
      BY <2>1 DEF F!En, GoedeVelden
    <2> HIDE DEF a
    <2> QED BY <2>2, <2>3 DEF MetContact, F!Nieuw
  <1>16. GoedFormulier(T.leesNieuweVendorCategorie)
    <2> DEFINE a == [code |-> F!Veld("vendor_category.code", "code", 0)]
    <2>1. GoedeVelden(a)
      BY TekstveldenGoed, AndereVeldenGoed DEF GoedeVelden
    <2> HIDE DEF a
    <2>2. GoedeVelden(F!En(F!Label("vendor_category.label"), a))
      BY <2>1, VeldenGoed, SamenGoed
    <2>3. T.leesNieuweVendorCategorie = F!Nieuw(F!En(F!Label("vendor_category.label"), a))
      BY DEF F!FORMULIEREN, a
    <2> QED BY <2>2, <2>3, FormulierGoed
  <1>17. GoedFormulier(T.leesNieuwWerkingsgebied)
    <2> DEFINE a == [code |-> F!Veld("werkingsgebied.code", "code", 0)]
    <2>1. GoedeVelden(a)
      BY TekstveldenGoed, AndereVeldenGoed DEF GoedeVelden
    <2> HIDE DEF a
    <2>2. GoedeVelden(F!En(F!Label("werkingsgebied.label"), a))
      BY <2>1, VeldenGoed, SamenGoed
    <2>3. T.leesNieuwWerkingsgebied = F!Nieuw(F!En(F!Label("werkingsgebied.label"), a))
      BY DEF F!FORMULIEREN, a
    <2> QED BY <2>2, <2>3, FormulierGoed
  <1>18. GoedFormulier(T.leesNieuweTenant)
    <2> DEFINE a == [adminNaam |-> F!Veld("user.full_name", "verplicht", 200),
                     adminEmail |-> F!Veld("user.email", "platform_email", 0)]
    <2>1. GoedeVelden(a)
      BY TekstveldenGoed, AndereVeldenGoed DEF GoedeVelden
    <2> HIDE DEF a
    <2>2. GoedeVelden(F!En(F!Tenant, a))
      BY <2>1, VeldenGoed, SamenGoed
    <2>3. T.leesNieuweTenant = F!Nieuw(F!En(F!Tenant, a))
      BY DEF F!FORMULIEREN, a
    <2> QED BY <2>2, <2>3, FormulierGoed
  <1>19. GoedFormulier(T.leesNieuwLid)
    <2>1. GoedeVelden(F!En(F!Lid, F!Rol))
      BY VeldenGoed, SamenGoed
    <2> QED BY <2>1, FormulierGoed DEF F!FORMULIEREN
  <1>20. GoedFormulier(T.leesThemaCodes)
    BY TekstveldenGoed, AndereVeldenGoed, <1>3 DEF GoedFormulier, GoedeVelden, F!FORMULIEREN, F!Nieuw, F!Wijziging
  <1>21. GoedFormulier(T.leesSurveyTemplateKoppeling)
    BY TekstveldenGoed, AndereVeldenGoed, <1>3 DEF GoedFormulier, GoedeVelden, F!FORMULIEREN, F!Nieuw, F!Wijziging
  <1>22. GoedFormulier(T.leesWerkingsgebiedCodes)
    BY TekstveldenGoed, AndereVeldenGoed, <1>3 DEF GoedFormulier, GoedeVelden, F!FORMULIEREN, F!Nieuw, F!Wijziging
  <1>23. GoedFormulier(T.leesUitnodigingen)
    BY TekstveldenGoed, AndereVeldenGoed, <1>3 DEF GoedFormulier, GoedeVelden, F!FORMULIEREN, F!Nieuw, F!Wijziging
  <1>24. GoedFormulier(T.leesHandmatigeVerzending)
    BY TekstveldenGoed, AndereVeldenGoed, <1>3 DEF GoedFormulier, GoedeVelden, F!FORMULIEREN, F!Nieuw, F!Wijziging
  <1>25. GoedFormulier(T.leesBeoordelaar)
    BY TekstveldenGoed, AndereVeldenGoed, <1>3 DEF GoedFormulier, GoedeVelden, F!FORMULIEREN, F!Nieuw, F!Wijziging
  <1>26. GoedFormulier(T.leesNieuwEngagement)
    BY TekstveldenGoed, AndereVeldenGoed, <1>3 DEF GoedFormulier, GoedeVelden, F!FORMULIEREN, F!Nieuw, F!Wijziging
  <1>27. GoedFormulier(T.leesNieuweNotitie)
    BY TekstveldenGoed, AndereVeldenGoed, <1>3 DEF GoedFormulier, GoedeVelden, F!FORMULIEREN, F!Nieuw, F!Wijziging
  <1>28. GoedFormulier(T.leesAfronding)
    BY TekstveldenGoed, AndereVeldenGoed, <1>3 DEF GoedFormulier, GoedeVelden, F!FORMULIEREN, F!Nieuw, F!Wijziging
  <1>29. GoedFormulier(T.leesVolgendeStap)
    BY TekstveldenGoed, AndereVeldenGoed, <1>3 DEF GoedFormulier, GoedeVelden, F!FORMULIEREN, F!Nieuw, F!Wijziging
  <1>30. GoedFormulier(T.leesSupportReden)
    BY TekstveldenGoed, AndereVeldenGoed, <1>3 DEF GoedFormulier, GoedeVelden, F!FORMULIEREN, F!Nieuw, F!Wijziging
  <1>31. GoedFormulier(T.leesEigenTenantWijziging)
    BY TekstveldenGoed, AndereVeldenGoed, <1>3 DEF GoedFormulier, GoedeVelden, F!FORMULIEREN, F!Nieuw, F!Wijziging
  <1>32. GoedFormulier(T.leesNieuweRonde)
    <2> DEFINE w == [F!Keuzeveld("survey_run.survey_kind", {"vendor_compliance", "internal_review"})
                       EXCEPT !.lezer = "soort_ronde"]
               r == [templateId |-> F!Veld("survey_run.template_id", "uuid", 0),
                      surveyKind |-> w,
                      closesAt |-> F!Veld("survey_run.closes_at", "sluitdatum", 0),
                      isTest |-> F!Veld("survey_run.is_test", "alleen_ja", 0),
                      contractId |-> F!Veld("survey_run.contract_id", "uuid_of_niet", 0)]
    <2>0. Regel("survey_run.survey_kind", "soort_ronde", {"vendor_compliance", "internal_review"})
      BY DEF Regel
    <2>1. GoedVeld(w)
      BY Zenon, <2>0, KeuzeGoed
    <2>2. T.leesNieuweRonde = F!Nieuw(r)
      BY DEF F!FORMULIEREN
    <2> HIDE DEF w
    <2>3. GoedeVelden(r)
      BY TekstveldenGoed, AndereVeldenGoed, <2>1 DEF GoedeVelden
    <2> HIDE DEF r
    <2> QED BY <2>2, <2>3, FormulierGoed
  <1>33. GoedFormulier(T.leesStatus)
    <2> DEFINE w == F!Keuzeveld("survey_run.status", F!STATUSSEN \cup F!Prototype)
               r == [status |-> w]
    <2>0. Regel("survey_run.status", "woord", F!STATUSSEN \cup F!Prototype)
      BY DEF Regel
    <2>1. GoedVeld(w)
      BY Zenon, <2>0, WoordGoed
    <2>2. T.leesStatus = F!Nieuw(r)
      BY DEF F!FORMULIEREN
    <2> HIDE DEF w
    <2>3. GoedeVelden(r)
      BY TekstveldenGoed, AndereVeldenGoed, <2>1 DEF GoedeVelden
    <2> HIDE DEF r
    <2> QED BY <2>2, <2>3, FormulierGoed
  <1>34. GoedFormulier(T.leesNieuweBeoordeling)
    <2> DEFINE w == F!Keuzeveld("survey_review.verdict", {"goed", "nadere_vragen", "niet_goed", "goedgekeurd"})
               r == [verdict |-> w, toelichting |-> F!Veld("survey_review.toelichting", "toelichting", 0)]
    <2>0. Regel("survey_review.verdict", "woord", {"goed", "nadere_vragen", "niet_goed", "goedgekeurd"})
      BY DEF Regel
    <2>1. GoedVeld(w)
      BY Zenon, <2>0, WoordGoed
    <2>2. T.leesNieuweBeoordeling = F!Nieuw(r)
      BY DEF F!FORMULIEREN
    <2> HIDE DEF w
    <2>3. GoedeVelden(r)
      BY TekstveldenGoed, AndereVeldenGoed, <2>1 DEF GoedeVelden
    <2> HIDE DEF r
    <2> QED BY <2>2, <2>3, FormulierGoed
  <1>35. GoedFormulier(T.leesNotitie)
    <2> DEFINE w == [F!Keuzeveld("response_note.soort", {"werk", "vastgesteld"}) EXCEPT !.lezer = "soort_notitie"]
               r == [tekst |-> F!Veld("response_note.tekst", "verplicht", 4000), soort |-> w]
    <2>0. Regel("response_note.soort", "soort_notitie", {"werk", "vastgesteld"})
      BY DEF Regel
    <2>1. GoedVeld(w)
      BY Zenon, <2>0, KeuzeGoed
    <2>2. T.leesNotitie = F!Nieuw(r)
      BY DEF F!FORMULIEREN
    <2> HIDE DEF w
    <2>3. GoedeVelden(r)
      BY TekstveldenGoed, AndereVeldenGoed, <2>1 DEF GoedeVelden
    <2> HIDE DEF r
    <2> QED BY <2>2, <2>3, FormulierGoed
  <1>36. \A f \in DOMAIN T : f \in
       {"leesNieuweVendor", "leesVendorWijziging", "leesContact", "leesNieuwContract",
        "leesContractWijziging", "leesVendorCategorieWijziging", "leesWerkingsgebiedWijziging",
        "leesRolWijziging", "leesGegevensWijziging", "leesTenantWijziging", "leesContactNieuw",
        "leesNieuweVendorContact", "leesNieuweVendorCategorie", "leesNieuwWerkingsgebied",
        "leesNieuweTenant", "leesNieuwLid", "leesThemaCodes", "leesSurveyTemplateKoppeling",
        "leesWerkingsgebiedCodes", "leesUitnodigingen", "leesHandmatigeVerzending",
        "leesBeoordelaar", "leesNieuwEngagement", "leesNieuweNotitie", "leesAfronding",
        "leesVolgendeStap", "leesSupportReden", "leesEigenTenantWijziging", "leesNieuweRonde",
        "leesStatus", "leesNieuweBeoordeling", "leesNotitie"}
    BY DEF F!FORMULIEREN
  <1> HIDE DEF T
  <1>37. \A f \in DOMAIN T :
           IF f = "leesNieuweVendorContact" THEN MetContact(T[f]) ELSE GoedFormulier(T[f])
    BY <1>4, <1>5, <1>6, <1>7, <1>8, <1>9, <1>10, <1>11, <1>12, <1>13, <1>14, <1>15, <1>16, <1>17, <1>18, <1>19, <1>20, <1>21, <1>22, <1>23, <1>24, <1>25, <1>26, <1>27, <1>28, <1>29, <1>30, <1>31, <1>32, <1>33, <1>34, <1>35, <1>36
  <1> QED BY <1>37 DEF T

-----------------------------------------------------------------------------
LEMMA Aantal == \A S : F!Cardinality(S) = Cardinality(S)
  BY Zenon DEF F!Cardinality, Cardinality

LEMMA Elementen == \A s : F!ToSet(s) = ToSet(s)
  BY Zenon DEF F!ToSet, ToSet

(* The readers that drop the second of two equal codes or ids.             *)
Telt(J, i) == F!Cardinality({j \in J : j <= i})
Plaats(J, n) == CHOOSE i \in J : Telt(J, i) = n

LEMMA TeltFeit ==
    ASSUME NEW J, IsFiniteSet(J), J \subseteq Int
    PROVE  /\ Cardinality(J) \in Nat
           /\ \A i \in J : Telt(J, i) \in 1..Cardinality(J)
           /\ \A i, j \in J : i < j => Telt(J, i) < Telt(J, j)
  <1> DEFINE tot(i) == {j \in J : j <= i}
  <1>1. Cardinality(J) \in Nat
    BY FS_CardinalityType
  <1>2. \A i \in J : IsFiniteSet(tot(i)) /\ Cardinality(tot(i)) \in Nat /\ Cardinality(tot(i)) <= Cardinality(J)
    <2>1. \A i \in J : tot(i) \in SUBSET J
      OBVIOUS
    <2> QED BY <2>1, FS_Subset, FS_CardinalityType
  <1>3. \A i \in J : Cardinality(tot(i)) # 0
    <2>1. \A i \in J : i \in tot(i)
      OBVIOUS
    <2> HIDE DEF tot
    <2> QED BY <1>2, <2>1, FS_EmptySet
  <1>4. ASSUME NEW i \in J, NEW j \in J, i < j
        PROVE  Cardinality(tot(i)) < Cardinality(tot(j))
    <2>0. \A x \in J : x \in Int
      OBVIOUS
    <2>1. \A x \in J : x <= i => x <= j
      BY <1>4, <2>0
    <2>2. j <= j /\ ~ (j <= i)
      BY <1>4, <2>0
    <2>3. tot(i) \in SUBSET tot(j) /\ j \in tot(j) /\ j \notin tot(i)
      BY <2>1, <2>2
    <2>4. Cardinality(tot(i)) <= Cardinality(tot(j)) /\ Cardinality(tot(i)) # Cardinality(tot(j))
      BY <1>2, <2>3, FS_Subset
    <2> HIDE DEF tot
    <2> QED BY <1>2, <2>4
  <1>5. \A i \in J : Telt(J, i) = Cardinality(tot(i))
    BY Aantal DEF Telt
  <1> HIDE DEF tot
  <1> QED BY <1>1, <1>2, <1>3, <1>4, <1>5

LEMMA PlaatsFeit ==
    ASSUME NEW J, IsFiniteSet(J), J \subseteq Int
    PROVE  /\ \A n \in 1..Cardinality(J) : Plaats(J, n) \in J /\ Telt(J, Plaats(J, n)) = n
           /\ \A n, m \in 1..Cardinality(J) : n < m => Plaats(J, n) < Plaats(J, m)
  <1> DEFINE c == Cardinality(J)   t == [i \in J |-> Telt(J, i)]
  <1>0. /\ c \in Nat /\ \A i \in J : Telt(J, i) \in 1..c
        /\ \A i, j \in J : i < j => Telt(J, i) < Telt(J, j)
    BY TeltFeit
  <1>1. t \in Injection(J, 1..c)
    <2>1. t \in [J -> 1..c]
      BY <1>0
    <2>2. \A i, j \in J : Telt(J, i) = Telt(J, j) => i = j
      BY <1>0
    <2>3. \A i, j \in J : t[i] = t[j] => i = j
      BY <2>2
    <2> HIDE DEF t
    <2> QED BY <2>1, <2>3 DEF Injection, IsInjective
  <1>2. t \in Surjection(J, 1..c)
    <2>1. IsFiniteSet(1..c) /\ Cardinality(1..c) = c
      BY <1>0, FS_Interval
    <2> QED BY <1>1, <2>1, FS_Injection
  <1>3. \A n \in 1..c : \E i \in J : Telt(J, i) = n
    BY <1>2 DEF Surjection
  <1>4. \A n \in 1..c : Plaats(J, n) \in J /\ Telt(J, Plaats(J, n)) = n
    BY <1>3 DEF Plaats
  <1>5. ASSUME NEW n \in 1..c, NEW m \in 1..c, n < m
        PROVE  Plaats(J, n) < Plaats(J, m)
    <2>1. /\ Plaats(J, n) \in J /\ Telt(J, Plaats(J, n)) = n
          /\ Plaats(J, m) \in J /\ Telt(J, Plaats(J, m)) = m
      BY <1>4
    <2>2. Plaats(J, n) \in Int /\ Plaats(J, m) \in Int
      BY <2>1
    <2>3. n \in Int /\ m \in Int
      OBVIOUS
    <2>4. ASSUME NEW x \in J, NEW y \in J, Telt(J, x) = n, Telt(J, y) = m, x \in Int, y \in Int
          PROVE  x # y /\ ~ (y < x)
      BY <1>0, <1>5, <2>3, <2>4
    <2>5. Plaats(J, n) # Plaats(J, m) /\ ~ (Plaats(J, m) < Plaats(J, n))
      BY Zenon, <2>1, <2>2, <2>4
    <2> QED BY <2>2, <2>5
  <1> QED BY <1>4, <1>5

LEMMA DeelrijFeit ==
    ASSUME NEW S, NEW s \in Seq(S), NEW J, J \subseteq DOMAIN s
    PROVE  LET d == F!Deelrij(s, J) IN
           /\ IsFiniteSet(J) /\ J \subseteq Int /\ Cardinality(J) \in Nat
           /\ d \in Seq(S) /\ Len(d) = Cardinality(J) /\ DOMAIN d = 1..Cardinality(J)
           /\ \A n \in DOMAIN d : Plaats(J, n) \in J /\ d[n] = s[Plaats(J, n)]
  <1> DEFINE d == F!Deelrij(s, J)   c == Cardinality(J)
  <1>1. DOMAIN s = 1..Len(s) /\ Len(s) \in Nat
    OBVIOUS
  <1>2. IsFiniteSet(J) /\ J \subseteq Int
    <2>1. IsFiniteSet(1..Len(s))
      BY <1>1, FS_Interval
    <2>2. J \in SUBSET (1..Len(s))
      BY <1>1
    <2> QED BY <2>1, <2>2, FS_Subset
  <1>3. c \in Nat
    BY <1>2, FS_CardinalityType
  <1>4. d = [n \in 1..c |-> s[Plaats(J, n)]]
    <2>1. d = [n \in 1..F!Cardinality(J) |-> s[Plaats(J, n)]]
      BY Zenon DEF F!Deelrij, Plaats, Telt
    <2> QED BY Zenon, <2>1, Aantal
  <1>5. \A n \in 1..c : Plaats(J, n) \in J
    BY <1>2, PlaatsFeit
  <1> HIDE DEF c, d
  <1>6. \A n \in 1..c : s[Plaats(J, n)] \in S
    BY <1>1, <1>5
  <1>7. d \in [1..c -> S]
    BY <1>4, <1>6
  <1>8. d \in Seq(S) /\ Len(d) = c /\ DOMAIN d = 1..c
    BY <1>3, <1>7
  <1> QED BY <1>2, <1>3, <1>4, <1>5, <1>8 DEF c, d

(* All the elements of a sequence are the sequence.                        *)
LEMMA HeleRij ==
    ASSUME NEW S, NEW s \in Seq(S)
    PROVE  F!Deelrij(s, DOMAIN s) = s
  <1> DEFINE m == Len(s)   J == 1..m
  <1>1. m \in Nat /\ DOMAIN s = J /\ s = [n \in J |-> s[n]]
    OBVIOUS
  <1>2. \A i \in J : Telt(J, i) = i
    <2> SUFFICES ASSUME NEW i \in J PROVE Telt(J, i) = i
      OBVIOUS
    <2>1. {j \in J : j <= i} = 1..i
      BY <1>1
    <2>2. 1 \in Int /\ i \in Int /\ 1 <= i
      BY <1>1
    <2>3. Cardinality(1..i) = IF 1 > i THEN 0 ELSE i - 1 + 1
      BY <2>2, FS_Interval
    <2>4. Cardinality(1..i) = i
      BY <2>2, <2>3
    <2> QED BY <2>1, <2>4, Aantal DEF Telt
  <1>3. Cardinality(J) = m /\ IsFiniteSet(J) /\ J \subseteq Int
    BY <1>1, FS_Interval
  <1>4. \A n \in J : Plaats(J, n) = n
    BY <1>2, <1>3, PlaatsFeit
  <1>5. F!Deelrij(s, J) = [n \in 1..Cardinality(J) |-> s[Plaats(J, n)]]
    <2>1. F!Deelrij(s, J) = [n \in 1..F!Cardinality(J) |-> s[Plaats(J, n)]]
      BY Zenon DEF F!Deelrij, Plaats, Telt
    <2> QED BY Zenon, <2>1, Aantal
  <1> HIDE DEF m, J
  <1>6. F!Deelrij(s, J) = [n \in J |-> s[n]]
    BY <1>3, <1>4, <1>5 DEF J
  <1> QED BY <1>1, <1>6
LEMMA UniekFeit ==
    ASSUME NEW S, NEW s \in Seq(S)
    PROVE  LET u == F!Uniek(s) IN
           /\ u \in Seq(S) /\ \A n \in DOMAIN u : \E i \in DOMAIN s : u[n] = s[i]
           /\ \A n, m \in DOMAIN u : n # m => u[n] # u[m]
           /\ F!Uniek(u) = u
  <1> DEFINE J == {i \in DOMAIN s : \A j \in 1 .. i - 1 : s[j] # s[i]}
             u == F!Uniek(s)
  <1>1. u = F!Deelrij(s, J) /\ J \subseteq DOMAIN s
    BY DEF F!Uniek
  <1>2. DOMAIN s = 1..Len(s) /\ Len(s) \in Nat
    OBVIOUS
  <1>3. \A p, q \in J : p < q => s[p] # s[q]
    <2> SUFFICES ASSUME NEW p \in J, NEW q \in J, p < q PROVE s[p] # s[q]
      OBVIOUS
    <2>1. p \in 1 .. q - 1
      BY <1>2
    <2> QED BY <2>1
  <1> HIDE DEF J, u
  <1>4. /\ IsFiniteSet(J) /\ J \subseteq Int /\ Cardinality(J) \in Nat
        /\ u \in Seq(S) /\ DOMAIN u = 1..Cardinality(J)
        /\ \A n \in DOMAIN u : Plaats(J, n) \in J /\ u[n] = s[Plaats(J, n)]
    BY <1>1, DeelrijFeit
  <1>5. \A n, m \in DOMAIN u : n < m => u[n] # u[m]
    BY <1>3, <1>4, PlaatsFeit
  <1>6. \A n, m \in DOMAIN u : n # m => u[n] # u[m]
    BY <1>4, <1>5
  <1>7. \A n \in DOMAIN u : \E i \in DOMAIN s : u[n] = s[i]
    BY <1>1, <1>4
  <1>8. F!Uniek(u) = u
    <2>1. {i \in DOMAIN u : \A j \in 1 .. i - 1 : u[j] # u[i]} = DOMAIN u
      <3>1. ASSUME NEW i \in DOMAIN u, NEW j \in 1 .. i - 1
            PROVE  u[j] # u[i]
        <4>1. j \in DOMAIN u /\ j # i
          BY <1>4
        <4> QED BY <1>6, <4>1
      <3> QED BY <3>1
    <2>2. F!Uniek(u) = F!Deelrij(u, DOMAIN u)
      BY <2>1 DEF F!Uniek
    <2> QED BY <1>4, <2>2, HeleRij
  <1> QED BY <1>4, <1>6, <1>7, <1>8 DEF u

(* A list without its doubles is one that is read the same again.          *)
LEMMA SetFeit ==
    ASSUME Apart, NEW w, F!Waarde(w), F!IsLijst(w)
    PROVE  LET r == F!Set(w) IN
           /\ r \notin {Geen, Onzin, F!Nul} /\ F!IsLijst(r) /\ ~F!IsTekst(r) /\ F!Set(r) = r
           /\ \A n \in DOMAIN r.s : \E i \in DOMAIN w.s : r.s[n] = w.s[i]
           /\ r.s \in Seq(ToSet(w.s)) /\ \A n, m \in DOMAIN r.s : n # m => r.s[n] # r.s[m]
  <1> DEFINE u == F!Uniek(w.s)   r == F!Set(w)
  <1>1. w.s \in Seq(ToSet(w.s))
    BY Elementen DEF F!IsLijst, F!Waarde, F!EenLijst
  <1>2. /\ \A n \in DOMAIN u : \E i \in DOMAIN w.s : u[n] = w.s[i]
        /\ F!Uniek(u) = u
        /\ u \in Seq(ToSet(w.s)) /\ \A n, m \in DOMAIN u : n # m => u[n] # u[m]
    BY <1>1, UniekFeit
  <1>3. r = F!Lijst(u)
    BY DEF F!Set
  <1> HIDE DEF u, r
  <1>4. r.soort = "lijst" /\ r.s = u /\ F!Gesoort(r) /\ r # F!Nul
    BY <1>3 DEF F!Lijst, F!Gesoort, F!Nul
  <1>5. r \notin {Geen, Onzin, F!Nul}
    BY <1>4 DEF Apart
  <1>6. F!Set(r) = r
    BY <1>2, <1>3, <1>4 DEF F!Set
  <1> QED BY <1>2, <1>4, <1>5, <1>6 DEF F!IsLijst, F!IsTekst, r

LEMMA VerzamelHerlezen ==
    ASSUME Apart, NEW v, v.lezer \in VERZAMELEN, NEW w, F!Waarde(w), Iets(F!LeesVeld(v, w))
    PROVE  LET r == F!LeesVeld(v, w) IN F!LeesVeld(v, r) = r /\ ~F!IsTekst(r)
  <1> DEFINE r == F!LeesVeld(v, w)   l == F!Lijst(<<>>)
  <1>1. l \notin {Geen, Onzin, F!Nul} /\ F!IsLijst(l) /\ ~F!IsTekst(l) /\ DOMAIN l.s = {} /\ F!Set(l) = l
    <2>1. l.soort = "lijst" /\ F!Gesoort(l) /\ l # F!Nul /\ l.s = <<>>
      BY DEF F!Lijst, F!Gesoort, F!Nul
    <2> HIDE DEF l
    <2>2. l \notin {Geen, Onzin, F!Nul} /\ F!IsLijst(l) /\ ~F!IsTekst(l) /\ DOMAIN l.s = {}
      BY <2>1 DEF Apart, F!IsLijst, F!IsTekst
    <2>3. F!Uniek(l.s) = l.s
      <3>1. <<>> \in Seq({}) /\ {i \in DOMAIN <<>> : \A j \in 1 .. i - 1 : <<>>[j] # <<>>[i]} = DOMAIN <<>>
        OBVIOUS
      <3>2. F!Deelrij(<<>>, DOMAIN <<>>) = <<>>
        BY <3>1, HeleRij
      <3> QED BY <2>1, <3>1, <3>2 DEF F!Uniek
    <2>4. F!Set(l) = l
      BY <2>1, <2>3 DEF F!Set, l
    <2> QED BY <2>2, <2>4
  <1> HIDE DEF l
  <1>2. ASSUME F!IsLijst(w), r = F!Set(w),
               \A y : F!IsLijst(y) /\ (\A n \in DOMAIN y.s : \E i \in DOMAIN w.s : y.s[n] = w.s[i])
                        => F!LeesVeld(v, y) = F!Set(y)
        PROVE  F!LeesVeld(v, r) = r /\ ~F!IsTekst(r)
    <2> HIDE DEF r
    <2> QED BY <1>2, SetFeit
  <1>3. CASE v.lezer \in {"templates", "ids"} /\ w = Geen
    <2>0. v.lezer = "templates" => r = F!TemplateIds(w)
      BY Zenon DEF F!LeesVeld
    <2>00. v.lezer = "ids" => r = F!IdLijst(w)
      BY Zenon DEF F!LeesVeld
    <2>1. r = l /\ l # Geen
      BY <1>1, <1>3, <2>0, <2>00 DEF F!TemplateIds, F!IdLijst, Iets, l
    <2>2. \A y : y # Geen => F!LeesVeld(v, y) = F!IdLijst(y)
      BY Zenon, <1>3 DEF F!LeesVeld, F!TemplateIds
    <2>3. F!Elk(l, F!IsUuid)
      BY <1>1 DEF F!Elk
    <2> QED BY <1>1, <2>1, <2>2, <2>3 DEF F!IdLijst
  <1>4. CASE v.lezer \in {"templates", "ids"} /\ w # Geen
    <2>1. \A y : y # Geen => F!LeesVeld(v, y) = F!IdLijst(y)
      BY Zenon, <1>4 DEF F!LeesVeld, F!TemplateIds
    <2>2. \A y : y # Geen => F!LeesVeld(v, y) =
            IF F!IsLijst(y) /\ \A i \in DOMAIN y.s : F!IsUuid(y.s[i]) THEN F!Set(y) ELSE Onzin
      BY <2>1 DEF F!IdLijst, F!Elk
    <2>3. F!IsLijst(w) /\ r = F!Set(w) /\ \A i \in DOMAIN w.s : F!IsUuid(w.s[i])
      BY <1>4, <2>2 DEF Iets
    <2>4. \A y : F!IsLijst(y) => y # Geen
      BY DEF F!IsLijst
    <2> HIDE DEF r
    <2> QED BY <1>2, <2>2, <2>3, <2>4
  <1>5. CASE v.lezer = "themas"
    <2>1. \A y : F!LeesVeld(v, y) = F!ThemaCodes(y)
      BY Zenon, <1>5 DEF F!LeesVeld
    <2>2. \A y : F!LeesVeld(v, y) =
            IF F!IsLijst(y) /\ \A i \in DOMAIN y.s : F!IsTekst(y.s[i]) /\ y.s[i].kaal > 0
            THEN F!Set(y) ELSE Onzin
      BY <2>1 DEF F!ThemaCodes, F!Elk
    <2>3. /\ F!IsLijst(w) /\ r = F!Set(w)
          /\ \A i \in DOMAIN w.s : F!IsTekst(w.s[i]) /\ w.s[i].kaal > 0
      BY <2>2 DEF Iets
    <2> HIDE DEF r
    <2> QED BY <1>2, <2>2, <2>3
  <1>6. CASE v.lezer = "gebieden"
    <2>1. \A y : F!LeesVeld(v, y) = F!Gebiedscodes(y)
      BY Zenon, <1>6 DEF F!LeesVeld
    <2>2. \A y : F!LeesVeld(v, y) =
            IF F!IsLijst(y) /\ \A i \in DOMAIN y.s : F!IsCode(y.s[i]) THEN F!Set(y) ELSE Onzin
      BY <2>1 DEF F!Gebiedscodes, F!Elk
    <2>3. F!IsLijst(w) /\ r = F!Set(w) /\ \A i \in DOMAIN w.s : F!IsCode(w.s[i])
      BY <2>2 DEF Iets
    <2> HIDE DEF r
    <2> QED BY <1>2, <2>2, <2>3
  <1> QED BY <1>3, <1>4, <1>5, <1>6 DEF VERZAMELEN

(* The reader of a column that NeemtKolom asks something of.               *)
LEMMA KolomFeit ==
    ASSUME NEW v, GoedVeld(v)
    PROVE  LET k == v.kolom   l == v.lezer   m == v.max IN
           /\ k = "contract.notice_period_days" => l = "geheel"
           /\ k = "contract.warning_days_before" => l = "waarschuwing"
           /\ k = "contract.value_eur" => l = "bedrag"
           /\ k = "tenant.antwoord_email" => l \in {"antwoord_email", "platform_optioneel"}
           /\ k = "vendor_engagement_note.tekst" => l = "ruw" /\ m = 500
           /\ k = "vendor_engagement.volgende_stap_tekst" => l = "ruwe_stap" /\ m = 300
           /\ k = "vendor_engagement.titel" => l = "ruw" /\ m = 300
           /\ k = "response_note.tekst" => l = "verplicht" /\ m = 4000
           /\ k = "contract.auto_renews" => l = "optioneel_woord" /\ m = {"ja", "nee", "onbekend"}
           /\ k = "survey_run.status" => l = "woord" /\ m = F!STATUSSEN \cup F!Prototype
           /\ k = "survey_run.survey_kind" => l = "soort_ronde" /\ m = {"vendor_compliance", "internal_review"}
           /\ k = "survey_review.verdict" =>
                l = "woord" /\ m = {"goed", "nadere_vragen", "niet_goed", "goedgekeurd"}
           /\ k = "response_note.soort" => l = "soort_notitie" /\ m = {"werk", "vastgesteld"}
           /\ k = "tenant_membership.role" => l = "woord" /\ m = {"admin", "user", "reviewer"}
           /\ k = "survey_response" => l = "vendors"
           /\ k = "contract_survey_template" => l = "templates"
           /\ k = "vendor_engagement.volgende_stap_datum" => l = "stapdatum"
           /\ k = "vendor_contact.full_name" => l = "verplicht" /\ m = 200
           /\ k = "user.email" => l \in {"lid_email", "platform_email"}
           /\ l = "lid_email" => k = "user.email"
           /\ k \in NIET_LEEG => l \in {"verplicht", "boolean", "waarschuwing", "uuid", "soort_ronde", "woord",
                                          "toelichting", "soort_notitie", "ruw"}
  <1>1. ASSUME NEW k, NEW l, NEW m, Regel(k, l, m)
        PROVE  /\ k = "contract.notice_period_days" => l = "geheel"
               /\ k = "contract.warning_days_before" => l = "waarschuwing"
               /\ k = "contract.value_eur" => l = "bedrag"
               /\ k = "tenant.antwoord_email" => l \in {"antwoord_email", "platform_optioneel"}
               /\ k = "vendor_engagement_note.tekst" => l = "ruw" /\ m = 500
               /\ k = "vendor_engagement.volgende_stap_tekst" => l = "ruwe_stap" /\ m = 300
               /\ k = "vendor_engagement.titel" => l = "ruw" /\ m = 300
               /\ k = "response_note.tekst" => l = "verplicht" /\ m = 4000
    BY SMTT(60), <1>1 DEF Regel
  <1>2. ASSUME NEW k, NEW l, NEW m, Regel(k, l, m)
        PROVE  /\ k = "contract.auto_renews" => l = "optioneel_woord" /\ m = {"ja", "nee", "onbekend"}
               /\ k = "survey_run.status" => l = "woord" /\ m = F!STATUSSEN \cup F!Prototype
               /\ k = "survey_run.survey_kind" => l = "soort_ronde" /\ m = {"vendor_compliance", "internal_review"}
               /\ k = "survey_review.verdict" =>
                    l = "woord" /\ m = {"goed", "nadere_vragen", "niet_goed", "goedgekeurd"}
               /\ k = "response_note.soort" => l = "soort_notitie" /\ m = {"werk", "vastgesteld"}
               /\ k = "tenant_membership.role" => l = "woord" /\ m = {"admin", "user", "reviewer"}
    BY SMTT(60), <1>2 DEF Regel
  <1>3. ASSUME NEW k, NEW l, NEW m, Regel(k, l, m)
        PROVE  /\ k = "survey_response" => l = "vendors"
               /\ k = "contract_survey_template" => l = "templates"
               /\ k = "vendor_engagement.volgende_stap_datum" => l = "stapdatum"
               /\ k = "vendor_contact.full_name" => l = "verplicht" /\ m = 200
               /\ k = "user.email" => l \in {"lid_email", "platform_email"}
               /\ l = "lid_email" => k = "user.email"
    BY SMTT(60), <1>3 DEF Regel
  <1>4. ASSUME NEW k, NEW l, NEW m, Regel(k, l, m)
        PROVE  k \in NIET_LEEG => l \in {"verplicht", "boolean", "waarschuwing", "uuid", "soort_ronde", "woord",
                                          "toelichting", "soort_notitie", "ruw"}
    BY SMTT(60), <1>4 DEF Regel, NIET_LEEG
  <1>5. Regel(v.kolom, v.lezer, v.max)
    BY DEF GoedVeld
  <1> DEFINE k == v.kolom   l == v.lezer   m == v.max
  <1> HIDE DEF k, l, m
  <1>6. Regel(k, l, m)
    BY Zenon, <1>5 DEF k, l, m
  <1>11. /\ k = "contract.notice_period_days" => l = "geheel"
         /\ k = "contract.warning_days_before" => l = "waarschuwing"
         /\ k = "contract.value_eur" => l = "bedrag"
         /\ k = "tenant.antwoord_email" => l \in {"antwoord_email", "platform_optioneel"}
         /\ k = "vendor_engagement_note.tekst" => l = "ruw" /\ m = 500
         /\ k = "vendor_engagement.volgende_stap_tekst" => l = "ruwe_stap" /\ m = 300
         /\ k = "vendor_engagement.titel" => l = "ruw" /\ m = 300
         /\ k = "response_note.tekst" => l = "verplicht" /\ m = 4000
    BY <1>6, <1>1
  <1>12. /\ k = "contract.auto_renews" => l = "optioneel_woord" /\ m = {"ja", "nee", "onbekend"}
         /\ k = "survey_run.status" => l = "woord" /\ m = F!STATUSSEN \cup F!Prototype
         /\ k = "survey_run.survey_kind" => l = "soort_ronde" /\ m = {"vendor_compliance", "internal_review"}
         /\ k = "survey_review.verdict" =>
              l = "woord" /\ m = {"goed", "nadere_vragen", "niet_goed", "goedgekeurd"}
         /\ k = "response_note.soort" => l = "soort_notitie" /\ m = {"werk", "vastgesteld"}
         /\ k = "tenant_membership.role" => l = "woord" /\ m = {"admin", "user", "reviewer"}
    BY <1>6, <1>2
  <1>13. /\ k = "survey_response" => l = "vendors"
         /\ k = "contract_survey_template" => l = "templates"
         /\ k = "vendor_engagement.volgende_stap_datum" => l = "stapdatum"
         /\ k = "vendor_contact.full_name" => l = "verplicht" /\ m = 200
         /\ k = "user.email" => l \in {"lid_email", "platform_email"}
         /\ l = "lid_email" => k = "user.email"
    BY <1>6, <1>3
  <1>14. k \in NIET_LEEG => l \in {"verplicht", "boolean", "waarschuwing", "uuid", "soort_ronde", "woord",
                                     "toelichting", "soort_notitie", "ruw"}
    BY <1>6, <1>4
  <1> QED BY <1>11, <1>12, <1>13, <1>14 DEF k, l, m
NOOIT_LEEG ==
    {"verplicht", "boolean", "waarschuwing", "uuid", "soort_ronde", "woord", "toelichting", "soort_notitie", "ruw"}

LEMMA KnipNietGeen ==
    ASSUME Apart, NEW w, F!Waarde(w), F!IsTekst(w)
    PROVE  F!Knip(w) # Geen
  BY TekstFeit

(* The columns that take no NULL get none.                                 *)
LEMMA NooitLeeg ==
    ASSUME Apart, NEW v, v.lezer \in NOOIT_LEEG, NEW w, F!Waarde(w), F!LeesVeld(v, w) # Onzin
    PROVE  F!LeesVeld(v, w) # Geen
  <1> DEFINE r == F!LeesVeld(v, w)
  <1> HIDE DEF r
  <1>0. r # Onzin
    BY DEF r
  <1>1. CASE v.lezer = "verplicht"
    <2>1. r = F!VerplichteTekst(w, v.max)
      BY Zenon, <1>1 DEF F!LeesVeld, r
    <2> QED BY <2>1, <1>0, KnipNietGeen DEF F!VerplichteTekst, r
  <1>2. CASE v.lezer = "ruw"
    <2>1. r = F!RuweTekst(w, v.max)
      BY Zenon, <1>2 DEF F!LeesVeld, r
    <2> QED BY <2>1, <1>0, KnipNietGeen DEF F!RuweTekst, F!Als, r
  <1>3. CASE v.lezer = "boolean"
    <2>1. r = F!Boolean(w)
      BY Zenon, <1>3 DEF F!LeesVeld, r
    <2> QED BY <2>1, <1>0 DEF F!Boolean, F!Als, F!IsJa, r
  <1>4. CASE v.lezer = "waarschuwing"
    <2>1. r = F!Waarschuwingstermijn(w)
      BY Zenon, <1>4 DEF F!LeesVeld, r
    <2>2. F!Getal(90, TRUE, FALSE) # Geen
      BY DEF F!Getal, Apart, F!Gesoort
    <2> QED BY <2>1, <2>2 DEF F!Waarschuwingstermijn, r
  <1>5. CASE v.lezer = "uuid"
    <2>1. r = F!VerplichteUuid(w)
      BY Zenon, <1>5 DEF F!LeesVeld, r
    <2> QED BY <2>1, <1>0 DEF F!VerplichteUuid, F!Als, F!IsUuid, F!Vorm, F!IsTekst, r
  <1>6. CASE v.lezer = "woord"
    <2>1. r = F!Als(F!IsWoord(w, v.max), w)
      BY Zenon, <1>6 DEF F!LeesVeld, r
    <2> QED BY <2>1, <1>0 DEF F!Als, F!IsWoord, F!Vorm, F!IsTekst, r
  <1>7. CASE v.lezer = "toelichting"
    <2>1. r = F!Toelichting(w)
      BY Zenon, <1>7 DEF F!LeesVeld, r
    <2>2. F!Tekst(0, 0, F!Vrij) # Geen
      BY DEF F!Tekst, Apart, F!Gesoort
    <2> QED BY <2>1, <2>2, <1>0, KnipNietGeen DEF F!Toelichting, r
  <1>8. CASE v.lezer = "soort_notitie"
    <2>1. r = IF F!Ontbreekt(w) THEN F!Tekst(4, 0, F!Woord("werk")) ELSE F!Als(F!IsWoord(w, v.max), w)
      BY Zenon, <1>8 DEF F!LeesVeld, r
    <2>2. F!Tekst(4, 0, F!Woord("werk")) # Geen
      BY DEF F!Tekst, Apart, F!Gesoort
    <2> QED BY <2>1, <2>2, <1>0 DEF F!Als, F!IsWoord, F!Vorm, F!IsTekst, r
  <1>9. CASE v.lezer = "soort_ronde"
    <2>1. r = IF F!Ontbreekt(w) THEN F!Tekst(17, 0, F!Woord("vendor_compliance"))
              ELSE F!Als(F!IsWoord(w, v.max), w)
      BY Zenon, <1>9 DEF F!LeesVeld, r
    <2>2. F!Tekst(17, 0, F!Woord("vendor_compliance")) # Geen
      BY DEF F!Tekst, Apart, F!Gesoort
    <2> QED BY <2>1, <2>2, <1>0 DEF F!Als, F!IsWoord, F!Vorm, F!IsTekst, r
  <1> QED BY <1>1, <1>2, <1>3, <1>4, <1>5, <1>6, <1>7, <1>8, <1>9 DEF NOOIT_LEEG, r

(* A word column holds one of its words.                                   *)
LEMMA WoordGehouden ==
    ASSUME Apart, NEW v, v.lezer \in {"woord", "optioneel_woord", "soort_notitie", "soort_ronde"}, Begrensd(v),
           NEW w, F!Waarde(w), Iets(F!LeesVeld(v, w))
    PROVE  F!LeesVeld(v, w).inh.w \in v.max
  <1> DEFINE r == F!LeesVeld(v, w)
  <1> HIDE DEF r
  <1>0. Iets(r)
    BY DEF r
  <1>1. CASE v.lezer \in {"woord", "optioneel_woord"}
    <2>1. r = F!Als(F!IsWoord(w, v.max), w) \/ r = IF F!Leeg(w) THEN Geen ELSE F!Als(F!IsWoord(w, v.max), w)
      BY Zenon, <1>1 DEF F!LeesVeld, r
    <2> QED BY <2>1, <1>0 DEF F!Als, F!IsWoord, Iets, r
  <1>2. CASE v.lezer = "soort_notitie"
    <2>1. r = IF F!Ontbreekt(w) THEN F!Tekst(4, 0, F!Woord("werk")) ELSE F!Als(F!IsWoord(w, v.max), w)
      BY Zenon, <1>2 DEF F!LeesVeld, r
    <2>2. F!Tekst(4, 0, F!Woord("werk")).inh.w = "werk" /\ "werk" \in v.max
      BY <1>2 DEF F!Tekst, F!Woord, Begrensd
    <2> QED BY <2>1, <2>2, <1>0 DEF F!Als, F!IsWoord, Iets, r
  <1>3. CASE v.lezer = "soort_ronde"
    <2>1. r = IF F!Ontbreekt(w) THEN F!Tekst(17, 0, F!Woord("vendor_compliance"))
              ELSE F!Als(F!IsWoord(w, v.max), w)
      BY Zenon, <1>3 DEF F!LeesVeld, r
    <2>2. F!Tekst(17, 0, F!Woord("vendor_compliance")).inh.w = "vendor_compliance" /\ "vendor_compliance" \in v.max
      BY <1>3 DEF F!Tekst, F!Woord, Begrensd
    <2> QED BY <2>1, <2>2, <1>0 DEF F!Als, F!IsWoord, Iets, r
  <1> QED BY <1>1, <1>2, <1>3 DEF r

(* A number is whole, an amount has digits to count, a date lies between   *)
(* 1 and 31 in a month, a list names each supplier once, and a template    *)
(* once unless its id is spelled in two ways.                              *)
LEMMA GetalGehouden ==
    ASSUME Apart, NEW v, NEW w, F!Waarde(w), Iets(F!LeesVeld(v, w))
    PROVE  LET r == F!LeesVeld(v, w) IN
           /\ v.lezer \in {"geheel", "waarschuwing"} => r.heel
           /\ v.lezer = "bedrag" => r.inh.aantal \in Nat
           /\ v.lezer = "stapdatum" => r.inh.dag.maand \in 1..12 /\ r.inh.dag.dag \in 1..31
           /\ v.lezer = "vendors" => Cardinality({r.s[i].inh.id : i \in DOMAIN r.s}) = Len(r.s)
           /\ v.lezer = "templates" /\ (\A i, j \in DOMAIN r.s : r.s[i].inh.id = r.s[j].inh.id => r.s[i] = r.s[j])
                => Cardinality({r.s[i].inh.id : i \in DOMAIN r.s}) = Len(r.s)
  <1> DEFINE r == F!LeesVeld(v, w)
  <1> HIDE DEF r
  <1>0. Iets(r)
    BY DEF r
  <1>1. ASSUME v.lezer \in {"geheel", "waarschuwing"}
        PROVE  r.heel
    <2> DEFINE p == F!OptioneelPositiefGeheelGetal(w)
    <2>1. r = p \/ r = F!Waarschuwingstermijn(w)
      BY Zenon, <1>1 DEF F!LeesVeld, r
    <2>2. p \in {Geen, Onzin} \/ p.heel
      BY DEF F!OptioneelPositiefGeheelGetal, F!Als, F!Getal
    <2>3. F!Getal(90, TRUE, FALSE).heel
      BY DEF F!Getal
    <2> HIDE DEF p
    <2>4. r = p \/ r = F!Getal(90, TRUE, FALSE)
      BY Zenon, <2>1 DEF F!Waarschuwingstermijn, p
    <2> QED BY Zenon, <2>2, <2>3, <2>4, <1>0 DEF Iets
  <1>2. ASSUME v.lezer = "bedrag"
        PROVE  r.inh.aantal \in Nat
    <2>1. r = F!OptioneelBedrag(w)
      BY Zenon, <1>2 DEF F!LeesVeld, r
    <2>2. r = w /\ F!IsTekst(w) /\ w.inh.vorm = "cijfers"
      BY <2>1, <1>0 DEF F!OptioneelBedrag, F!Als, F!Vorm, Iets
    <2> QED BY <2>2 DEF F!IsTekst, F!Waarde, F!EenTekst, F!Inhoud
  <1>3. ASSUME v.lezer = "vendors"
        PROVE  Cardinality({r.s[i].inh.id : i \in DOMAIN r.s}) = Len(r.s)
    <2>1. r = F!VendorIds(w)
      BY Zenon, <1>3 DEF F!LeesVeld, r
    <2>2. r = w /\ F!Cardinality({w.s[i].inh.id : i \in DOMAIN w.s}) = Len(w.s)
      BY Zenon, <2>1, <1>0 DEF F!VendorIds, F!Als, Iets
    <2> QED BY Zenon, <2>2, Aantal
  <1>4. ASSUME v.lezer = "stapdatum"
        PROVE  r.inh.dag.maand \in 1..12 /\ r.inh.dag.dag \in 1..31
    <2>1. r = F!StapDatum(w)
      BY Zenon, <1>4 DEF F!LeesVeld, r
    <2>2. r = w /\ F!JsDatum(w)
      BY Zenon, <2>1, <1>0 DEF F!StapDatum, F!Als, Iets
    <2> QED BY Zenon, <2>2 DEF F!JsDatum
  <1>5. ASSUME v.lezer = "templates",
               \A i, j \in DOMAIN r.s : r.s[i].inh.id = r.s[j].inh.id => r.s[i] = r.s[j]
        PROVE  Cardinality({r.s[i].inh.id : i \in DOMAIN r.s}) = Len(r.s)
    <2>1. r = F!TemplateIds(w)
      BY Zenon, <1>5 DEF F!LeesVeld, r
    <2>2. r = F!IdLijst(w) /\ w # Geen
      BY Zenon, <2>1, <1>0 DEF F!TemplateIds, Iets
    <2>3. F!Elk(w, F!IsUuid) /\ r = F!Set(w)
      BY Zenon, <2>2, <1>0 DEF F!IdLijst, Iets
    <2>4. F!IsLijst(w)
      BY <2>3 DEF F!Elk
    <2>5. r.s \in Seq(ToSet(w.s)) /\ \A n, m \in DOMAIN r.s : n # m => r.s[n] # r.s[m]
      BY Zenon, <2>3, <2>4, SetFeit
    <2> DEFINE id(i) == r.s[i].inh.id   I == 1..Len(r.s)   T == {id(i) : i \in I}   f == [i \in I |-> id(i)]
    <2>6. DOMAIN r.s = I /\ Len(r.s) \in Nat
      BY <2>5
    <2>7. \A i, j \in I : id(i) = id(j) => i = j
      BY Zenon, <1>5, <2>5, <2>6
    <2> HIDE DEF id
    <2>8. f \in Surjection(I, T) /\ f \in Injection(I, T)
      BY <2>7 DEF Surjection, Injection, IsInjective
    <2>9. IsFiniteSet(I) /\ Cardinality(I) = Len(r.s)
      BY <2>6, FS_Interval
    <2> HIDE DEF f, I
    <2>10. Cardinality(T) = Cardinality(I)
      BY Zenon, <2>8, <2>9, FS_Surjection
    <2> QED BY Zenon, <2>6, <2>9, <2>10 DEF T, id
  <1> QED BY <1>1, <1>2, <1>3, <1>4, <1>5 DEF r

(* The reply address of a tenant: valid, or with an empty part in its      *)
(* domain, or too long.                                                    *)
LEMMA AdresGehouden ==
    ASSUME Apart, NEW v, v.lezer \in {"antwoord_email", "platform_optioneel"}, NEW w, F!Waarde(w),
           Iets(F!LeesVeld(v, w))
    PROVE  LET r == F!LeesVeld(v, w) IN
           tenant_antwoord_email_format_check(r) \/ 0 \in ToSet(r.inh.delen) \/ r.kaal > 254
  <1> DEFINE r == F!LeesVeld(v, w)
  <1> HIDE DEF r
  <1>0. Iets(r)
    BY DEF r
  <1>1. CASE v.lezer = "antwoord_email"
    <2>1. r = F!AntwoordEmail(w)
      BY Zenon, <1>1 DEF F!LeesVeld, r
    <2>2. r = F!Knip(w) /\ F!IsGeldigMailadres(w)
      BY <2>1, <1>0 DEF F!AntwoordEmail, Iets
    <2>3. F!IsTekst(w) /\ w.inh.vorm = "adres"
      BY Zenon, <2>2 DEF F!IsGeldigMailadres, F!Vorm
    <2>4. r.kaal = w.kaal /\ r.inh = w.inh /\ F!IsTekst(r) /\ F!Strak(r)
      BY <2>2, <2>3, TekstFeit
    <2>5. F!IsGeldigMailadres(r)
      BY Zenon, <2>2, <2>3, <2>4 DEF F!IsGeldigMailadres, F!Vorm
    <2> QED BY Zenon, <2>4, <2>5 DEF tenant_antwoord_email_format_check, r
  <1>2. CASE v.lezer = "platform_optioneel"
    <2> DEFINE t == F!VerplichteTekst(w, 320)   d == r.inh.delen
    <2>1. r = F!PlatformOptioneelEmail(w)
      BY Zenon, <1>2 DEF F!LeesVeld, r
    <2>2. r = t /\ F!PlatformAdres(t)
      BY Zenon, <2>1, <1>0 DEF F!PlatformOptioneelEmail, F!PlatformEmail, F!Als, Iets
    <2>3. F!Waarde(r) /\ F!IsTekst(r) /\ F!Strak(r) /\ r.kaal \in 1..320
      BY <2>2, <1>0, VerplichtHerlezen
    <2>4. r.inh.vorm = "adres" /\ r.inh.lokaal > 0 /\ \E i \in 1 .. Len(d) - 1 : TRUE
      BY Zenon, <2>2 DEF F!PlatformAdres, F!Vorm
    <2>5. d \in Seq(Nat)
      BY <2>3, <2>4 DEF F!IsTekst, F!Waarde, F!EenTekst, F!Inhoud
    <2>6. Len(d) >= 2
      BY <2>4, <2>5
    <2>7. ASSUME 0 \notin ToSet(d), ~(r.kaal > 254)
          PROVE  tenant_antwoord_email_format_check(r)
      <3>1. 0 \notin ToSet(d)
        BY <2>7, Elementen
      <3>2. \A i \in DOMAIN d : d[i] > 0
        BY <3>1, <2>5 DEF ToSet
      <3>3. r.kaal <= 254
        BY <2>7, <2>3
      <3> QED BY <2>3, <2>4, <2>6, <3>2, <3>3 DEF tenant_antwoord_email_format_check, F!IsGeldigMailadres, F!Vorm
    <2> QED BY Zenon, <2>7 DEF r
  <1> QED BY <1>1, <1>2 DEF r

Kolomwoorden(v) ==
    v.kolom \in DOMAIN KOLOM_WAARDEN =>
        /\ v.lezer \in {"woord", "optioneel_woord", "soort_notitie", "soort_ronde"}
        /\ v.max \subseteq KOLOM_WAARDEN[v.kolom] \cup (IF v.kolom = "survey_run.status" THEN F!Prototype ELSE {})

LEMMA WoordenGoed ==
    ASSUME NEW v, GoedVeld(v)
    PROVE  Kolomwoorden(v)
  <1> DEFINE k == v.kolom   W == KOLOM_WAARDEN
  <1>1. DOMAIN W = {"contract.auto_renews", "survey_run.status", "survey_run.survey_kind",
                    "survey_review.verdict", "response_note.soort", "tenant_membership.role"}
    BY DEF KOLOM_WAARDEN
  <1>2. /\ W["contract.auto_renews"] = {"ja", "nee", "onbekend"}
        /\ W["survey_run.status"] = {"draft", "active", "finished", "archived"}
        /\ W["survey_run.survey_kind"] = {"vendor_compliance", "internal_review"}
        /\ W["survey_review.verdict"] = {"goed", "nadere_vragen", "niet_goed", "goedgekeurd"}
        /\ W["response_note.soort"] = {"werk", "vastgesteld"}
        /\ W["tenant_membership.role"] = {"admin", "user", "reviewer", "support"}
    BY DEF KOLOM_WAARDEN
  <1> HIDE DEF W
  <1>3. CASE k = "contract.auto_renews"
    BY <1>2, <1>3, KolomFeit DEF Kolomwoorden, W
  <1>4. CASE k = "survey_run.status"
    BY <1>2, <1>4, KolomFeit DEF Kolomwoorden, W, F!STATUSSEN
  <1>5. CASE k = "survey_run.survey_kind"
    BY <1>2, <1>5, KolomFeit DEF Kolomwoorden, W
  <1>6. CASE k = "survey_review.verdict"
    BY <1>2, <1>6, KolomFeit DEF Kolomwoorden, W
  <1>7. CASE k = "response_note.soort"
    BY <1>2, <1>7, KolomFeit DEF Kolomwoorden, W
  <1>8. CASE k = "tenant_membership.role"
    BY <1>2, <1>8, KolomFeit DEF Kolomwoorden, W
  <1>9. CASE k \notin DOMAIN W
    BY <1>9 DEF Kolomwoorden, W
  <1> QED BY <1>1, <1>3, <1>4, <1>5, <1>6, <1>7, <1>8, <1>9

(* What a field holds goes into its column, or is one of the exceptions.   *)
LEMMA VeldNeemt ==
    ASSUME Apart, NEW v, GoedVeld(v), NEW w, F!Waarde(w), Iets(F!LeesVeld(v, w))
    PROVE  LET r == F!LeesVeld(v, w) IN NeemtKolom(v.kolom, r) \/ Doorgelaten(v.kolom, r)
  <1>0. SUFFICES ASSUME NEW r, r = F!LeesVeld(v, w), ~Doorgelaten(v.kolom, r)
                 PROVE  NeemtKolom(v.kolom, r)
    BY Zenon
  <1>1. r # Geen /\ Iets(r) /\ Begrensd(v)
    BY <1>0, RegelFeit DEF Iets
  <1>2. v.kolom \in DATUMKOLOMMEN => B!DatumGeldig(r.inh.dag)
    <2>1. v.kolom \in {"contract.start_date", "contract.end_date"} => B!DatumGeldig(r.inh.dag)
      BY Zenon, <1>0 DEF Doorgelaten
    <2>2. v.kolom = "vendor_engagement.volgende_stap_datum" => B!DatumGeldig(r.inh.dag)
      <3>1. v.kolom = "vendor_engagement.volgende_stap_datum" => v.lezer = "stapdatum"
        BY KolomFeit
      <3>2. v.lezer = "stapdatum" => r.inh.dag.maand \in 1..12 /\ r.inh.dag.dag \in 1..31
        BY Zenon, <1>0, GetalGehouden
      <3> QED BY Zenon, <3>1, <3>2, <1>0 DEF Doorgelaten
    <2> QED BY Zenon, <2>1, <2>2 DEF DATUMKOLOMMEN
  <1>3. v.kolom \in {"contract.notice_period_days", "contract.warning_days_before"} => r.heel /\ ~r.groot
    <2>1. v.kolom \in {"contract.notice_period_days", "contract.warning_days_before"} =>
             v.lezer \in {"geheel", "waarschuwing"}
      BY KolomFeit
    <2>2. v.lezer \in {"geheel", "waarschuwing"} => r.heel
      BY Zenon, <1>0, GetalGehouden
    <2> QED BY Zenon, <2>1, <2>2, <1>0 DEF Doorgelaten
  <1>4. v.kolom = "contract.value_eur" => r.inh.aantal <= 13
    <2>1. v.kolom = "contract.value_eur" => v.lezer = "bedrag"
      BY KolomFeit
    <2>2. v.lezer = "bedrag" => r.inh.aantal \in Nat
      BY Zenon, <1>0, GetalGehouden
    <2>3. v.kolom = "contract.value_eur" => ~(r.inh.aantal > 13)
      BY Zenon, <1>0 DEF Doorgelaten
    <2> QED BY <2>1, <2>2, <2>3
  <1>5. v.kolom = "tenant.antwoord_email" => tenant_antwoord_email_format_check(r)
    <2>1. v.kolom = "tenant.antwoord_email" => v.lezer \in {"antwoord_email", "platform_optioneel"}
      BY KolomFeit
    <2>2. v.kolom = "tenant.antwoord_email" => ~(0 \in ToSet(r.inh.delen) \/ r.kaal > 254)
      BY Zenon, <1>0 DEF Doorgelaten
    <2> QED BY <2>1, <2>2, <1>0, <1>1, AdresGehouden
  <1>6. /\ v.kolom = "vendor_engagement_note.tekst" => r.lengte \in 1..500
        /\ v.kolom = "vendor_engagement.volgende_stap_tekst" => r.lengte \in 1..300
        /\ v.kolom \in {"vendor_engagement.titel", "response_note.tekst"} => r.kaal > 0
    <2>1. Maat(v, r)
      BY Zenon, <1>0, <1>1, MaatGehouden
    <2>2. v.lezer \in {"ruw", "ruwe_stap"} => r.lengte = r.kaal
      <3>1. v.lezer \in {"ruw", "ruwe_stap"} => v.lezer \in KNIPT
        BY DEF KNIPT
      <3>2. v.lezer \in KNIPT => F!Strak(r)
        BY Zenon, <1>0, <1>1, TekstHerlezen
      <3> QED BY <3>1, <3>2 DEF F!Strak
    <2>3. v.lezer \in LIMIET => r.kaal \in 1..v.max
      BY Zenon, <2>1 DEF Maat
    <2>4. CASE v.kolom = "vendor_engagement_note.tekst"
      <3>1. v.lezer = "ruw" /\ v.max = 500
        BY <2>4, KolomFeit
      <3> QED BY <2>2, <2>3, <2>4, <3>1 DEF LIMIET
    <2>5. CASE v.kolom = "vendor_engagement.volgende_stap_tekst"
      <3>1. v.lezer = "ruwe_stap" /\ v.max = 300
        BY <2>5, KolomFeit
      <3> QED BY <2>2, <2>3, <2>5, <3>1 DEF LIMIET
    <2>6. CASE v.kolom = "vendor_engagement.titel"
      <3>1. v.lezer = "ruw" /\ v.max = 300
        BY <2>6, KolomFeit
      <3> QED BY <2>3, <2>6, <3>1 DEF LIMIET
    <2>7. CASE v.kolom = "response_note.tekst"
      <3>1. v.lezer = "verplicht" /\ v.max = 4000
        BY <2>7, KolomFeit
      <3>2. v.lezer \in LIMIET /\ v.max \in Nat
        BY <3>1 DEF LIMIET
      <3>3. r.kaal > 0
        BY <2>3, <3>2
      <3> QED BY <2>7, <3>3
    <2> QED BY <2>4, <2>5, <2>6, <2>7
  <1>7. v.kolom \in DOMAIN KOLOM_WAARDEN => r.inh.w \in KOLOM_WAARDEN[v.kolom]
    <2>1. Kolomwoorden(v)
      BY WoordenGoed
    <2>2. v.lezer \in {"woord", "optioneel_woord", "soort_notitie", "soort_ronde"} => r.inh.w \in v.max
      BY <1>0, <1>1, WoordGehouden
    <2>3. v.kolom = "survey_run.status" => r.inh.w \notin F!Prototype
      BY Zenon, <1>0 DEF Doorgelaten
    <2> HIDE DEF KOLOM_WAARDEN
    <2> QED BY <2>1, <2>2, <2>3 DEF Kolomwoorden
  <1>8. v.kolom = "survey_response" => Cardinality({r.s[i].inh.id : i \in DOMAIN r.s}) = Len(r.s)
    <2>1. v.kolom = "survey_response" => v.lezer = "vendors"
      BY KolomFeit
    <2>2. v.lezer = "vendors" => Cardinality({r.s[i].inh.id : i \in DOMAIN r.s}) = Len(r.s)
      BY Zenon, <1>0, GetalGehouden
    <2> QED BY Zenon, <2>1, <2>2, Aantal
  <1>9. v.kolom \in {"contract_survey_template", "survey_response"} =>
           Cardinality({r.s[i].inh.id : i \in DOMAIN r.s}) = Len(r.s)
    <2>1. v.kolom = "contract_survey_template" => v.lezer = "templates"
      BY KolomFeit
    <2>2. v.kolom = "contract_survey_template" =>
             \A i, j \in DOMAIN r.s : r.s[i].inh.id = r.s[j].inh.id => r.s[i] = r.s[j]
      BY Zenon, <1>0 DEF Doorgelaten
    <2>3. v.lezer = "templates" /\ (\A i, j \in DOMAIN r.s : r.s[i].inh.id = r.s[j].inh.id => r.s[i] = r.s[j])
             => Cardinality({r.s[i].inh.id : i \in DOMAIN r.s}) = Len(r.s)
      <3> DEFINE EenId(x) == \A i, j \in DOMAIN x.s : x.s[i].inh.id = x.s[j].inh.id => x.s[i] = x.s[j]
                 Alle(x) == Cardinality({x.s[i].inh.id : i \in DOMAIN x.s}) = Len(x.s)
      <3>1. v.lezer = "templates" /\ EenId(F!LeesVeld(v, w)) => Alle(F!LeesVeld(v, w))
        BY Zenon, <1>0, GetalGehouden
      <3> HIDE DEF EenId, Alle
      <3>2. v.lezer = "templates" /\ EenId(r) => Alle(r)
        BY Zenon, <1>0, <3>1
      <3> QED BY Zenon, <3>2 DEF EenId, Alle
    <2> QED BY Zenon, <2>1, <2>2, <2>3, <1>8
  <1> QED BY Zenon, <1>1, <1>2, <1>3, <1>4, <1>5, <1>6, <1>7, <1>9 DEF NeemtKolom

LEMMA VeldLeeg ==
    ASSUME Apart, NEW v, GoedVeld(v), NEW w, F!Waarde(w), F!LeesVeld(v, w) = Geen, Geen # Onzin
    PROVE  NeemtKolom(v.kolom, Geen)
  <1>1. v.kolom \notin NIET_LEEG
    <2>1. v.kolom \in NIET_LEEG => v.lezer \in NOOIT_LEEG
      BY KolomFeit DEF NOOIT_LEEG
    <2> QED BY Zenon, <2>1, NooitLeeg
  <1> QED BY Zenon, <1>1 DEF NeemtKolom

(* A field of a form.                                                      *)
Formulierveld(v) == GoedVeld(v) \/ v = OptioneleNaam

LEMMA NaamFeit ==
    /\ OptioneleNaam.kolom = "vendor_contact.full_name" /\ OptioneleNaam.lezer = "optioneel"
    /\ OptioneleNaam.max = 200 /\ Begrensd(OptioneleNaam) /\ OptioneleNaam.lezer \in LEZERS
    /\ \A w : F!LeesVeld(OptioneleNaam, w) = F!OptioneleTekst(w, 200)
  <1>1. /\ OptioneleNaam.kolom = "vendor_contact.full_name" /\ OptioneleNaam.lezer = "optioneel"
        /\ OptioneleNaam.max = 200
    BY DEF OptioneleNaam, F!Veld
  <1>2. \A w : F!LeesVeld(OptioneleNaam, w) = F!OptioneleTekst(w, 200)
    BY Zenon, <1>1 DEF F!LeesVeld
  <1> HIDE DEF OptioneleNaam
  <1> QED BY <1>1, <1>2 DEF Begrensd, LEZERS, KNIPT

LEMMA VeldHeel ==
    ASSUME Apart, NEW v, Formulierveld(v), NEW w, F!Waarde(w), NEW r, r = F!LeesVeld(v, w), r # Onzin
    PROVE  /\ NeemtKolom(v.kolom, r) \/ (r = Geen /\ v = OptioneleNaam) \/ Doorgelaten(v.kolom, r)
           /\ F!IsTekst(r) => F!Strak(r) \/ Doorgelaten(v.kolom, r)
           /\ r # Geen => F!LeesVeld(v, r) = r
  <1>1. v.lezer \in LEZERS \cup VERZAMELEN /\ Begrensd(v)
    BY RegelFeit, NaamFeit DEF Formulierveld
  <1>2. ASSUME Iets(r)
        PROVE  /\ F!LeesVeld(v, r) = r
               /\ F!IsTekst(r) => F!Strak(r) \/ v.lezer = "lid_email"
    <2>1. CASE v.lezer \in LEZERS
      BY Zenon, <1>1, <1>2, <2>1, Herlezen
    <2>2. CASE v.lezer \in VERZAMELEN
      BY Zenon, <1>2, <2>2, VerzamelHerlezen
    <2> QED BY <1>1, <2>1, <2>2
  <1>3. F!IsTekst(r) => Iets(r)
    BY Zenon DEF F!IsTekst, Iets
  <1>4. ASSUME F!IsTekst(r), ~F!Strak(r)
        PROVE  Doorgelaten(v.kolom, r)
    <2>1. v.lezer = "lid_email"
      BY <1>2, <1>3, <1>4
    <2>2. v.kolom = "user.email"
      BY <2>1, KolomFeit, NaamFeit DEF Formulierveld
    <2>3. r = w
      <3>1. r = F!LidEmail(w)
        BY Zenon, <2>1 DEF F!LeesVeld
      <3> QED BY Zenon, <3>1 DEF F!LidEmail, F!Als
    <2>4. r.lengte > r.kaal
      BY <1>4, <2>3, TekstFeit DEF F!Strak
    <2> QED BY Zenon, <2>2, <2>4 DEF Doorgelaten
  <1>5. ASSUME GoedVeld(v)
        PROVE  NeemtKolom(v.kolom, r) \/ Doorgelaten(v.kolom, r)
    <2>1. CASE r = Geen
      BY <1>5, <2>1, VeldLeeg
    <2>2. CASE Iets(r)
      BY Zenon, <1>5, <2>2, VeldNeemt
    <2> QED BY <2>1, <2>2 DEF Iets
  <1>6. ASSUME v = OptioneleNaam, r # Geen
        PROVE  NeemtKolom(v.kolom, r)
    <2>1. v.kolom = "vendor_contact.full_name"
      BY Zenon, <1>6, NaamFeit
    <2> QED BY <1>6, <2>1 DEF NeemtKolom, DATUMKOLOMMEN, KOLOM_WAARDEN
  <1>7. r # Geen => F!LeesVeld(v, r) = r
    BY <1>2 DEF Iets
  <1> QED BY Zenon, <1>4, <1>5, <1>6, <1>7 DEF Formulierveld

LEMMA NaamRegel ==
    ASSUME NEW v, GoedVeld(v), v.kolom = "vendor_contact.full_name"
    PROVE  \A w : F!LeesVeld(v, w) = F!VerplichteTekst(w, 200)
  <1>1. v.lezer = "verplicht" /\ v.max = 200
    BY KolomFeit
  <1> QED BY Zenon, <1>1 DEF F!LeesVeld

(* Two fields of one column read the same, e-mail addresses excepted.      *)
LEMMA VeldenEens ==
    ASSUME NEW v, Formulierveld(v), NEW u, Formulierveld(u), u.kolom = v.kolom, NEW w, F!LeesVeld(v, w) # Onzin
    PROVE  \/ F!LeesVeld(u, w) = F!LeesVeld(v, w)
           \/ v.kolom \in {"tenant.antwoord_email", "user.email"}
           \/ v.kolom = "vendor_contact.full_name" /\ F!LeesVeld(u, w) = Onzin
  <1>1. CASE GoedVeld(v) /\ GoedVeld(u)
    BY <1>1, EenRegel DEF TWEE_REGELS
  <1>2. CASE v = OptioneleNaam /\ u = OptioneleNaam
    BY Zenon, <1>2
  <1>3. CASE GoedVeld(v) /\ u = OptioneleNaam
    <2>1. F!LeesVeld(v, w) = F!VerplichteTekst(w, 200) /\ F!LeesVeld(u, w) = F!OptioneleTekst(w, 200)
      BY <1>3, NaamRegel, NaamFeit
    <2>2. F!VerplichteTekst(w, 200) # Onzin
      BY Zenon, <2>1
    <2>3. F!IsTekst(w) /\ w.kaal \in 1..200
      BY <2>2 DEF F!VerplichteTekst
    <2>4. w.kaal # 0 /\ ~F!Ontbreekt(w)
      BY <2>3 DEF F!Ontbreekt, F!IsTekst
    <2> QED BY <2>1, <2>4 DEF F!OptioneleTekst
  <1>4. CASE v = OptioneleNaam /\ GoedVeld(u)
    <2>1. F!LeesVeld(u, w) = F!VerplichteTekst(w, 200) /\ F!LeesVeld(v, w) = F!OptioneleTekst(w, 200)
          /\ v.kolom = "vendor_contact.full_name"
      BY <1>4, NaamRegel, NaamFeit
    <2>2. CASE F!Ontbreekt(w) \/ (F!IsTekst(w) /\ w.kaal = 0)
      <3>1. ~(F!IsTekst(w) /\ w.kaal \in 1..200)
        BY <2>2 DEF F!Ontbreekt, F!IsTekst
      <3> QED BY <2>1, <3>1 DEF F!VerplichteTekst
    <2>3. CASE ~(F!Ontbreekt(w) \/ (F!IsTekst(w) /\ w.kaal = 0))
      BY <2>1, <2>3 DEF F!OptioneleTekst
    <2> QED BY <2>2, <2>3
  <1> QED BY <1>1, <1>2, <1>3, <1>4 DEF Formulierveld

LEMMA TabelFeit ==
    ASSUME NEW f \in DOMAIN F!FORMULIEREN
    PROVE  LET T == F!FORMULIEREN[f] IN
           /\ \A x \in DOMAIN T.velden : Formulierveld(T.velden[x])
           /\ T.altijd \subseteq DOMAIN T.velden
           /\ \A x \in DOMAIN T.velden : T.velden[x] = OptioneleNaam => f = "leesNieuweVendorContact"
           /\ f = "leesNieuweVendorContact" =>
                "fullName" \in T.altijd /\ "fullName" \in DOMAIN T.velden /\ T.altijd = DOMAIN T.velden
  <1> DEFINE T == F!FORMULIEREN[f]
  <1>1. IF f = "leesNieuweVendorContact" THEN MetContact(T) ELSE GoedFormulier(T)
    BY Zenon, FormulierenGoed
  <1> HIDE DEF T
  <1>2. \A v : GoedVeld(v) => v # OptioneleNaam
    <2>1. ASSUME GoedVeld(OptioneleNaam)
          PROVE  FALSE
      <3>1. OptioneleNaam.lezer = "verplicht"
        BY <2>1, NaamFeit, KolomFeit
      <3> QED BY <3>1, NaamFeit
    <2> QED BY Zenon, <2>1
  <1>3. CASE f = "leesNieuweVendorContact"
    BY <1>1, <1>3 DEF MetContact, Formulierveld, T
  <1>4. CASE f # "leesNieuweVendorContact"
    BY <1>1, <1>2, <1>4 DEF GoedFormulier, GoedeVelden, Formulierveld, T
  <1> QED BY <1>3, <1>4

Gegeven(body, x) == IF x \in DOMAIN body THEN body[x] ELSE Geen

LEMMA LeesFormulierFeit ==
    ASSUME NEW f \in DOMAIN F!FORMULIEREN, NEW body, NEW uit, uit = F!LeesFormulier(f, body), uit # Onzin
    PROVE  LET velden == F!FORMULIEREN[f].velden IN
           /\ DOMAIN uit = F!Gelezen(f, body) /\ DOMAIN uit \subseteq DOMAIN velden
           /\ \A x \in DOMAIN uit : uit[x] = F!LeesVeld(velden[x], Gegeven(body, x)) /\ uit[x] # Onzin
           /\ F!Samenhang(f, body, uit)
  <1> DEFINE velden == F!FORMULIEREN[f].velden
             g == [x \in F!Gelezen(f, body) |-> F!LeesVeld(velden[x], Gegeven(body, x))]
  <1>1. uit = IF \E x \in DOMAIN g : g[x] = Onzin THEN Onzin ELSE F!Als(F!Samenhang(f, body, g), g)
    BY Zenon DEF F!LeesFormulier, Gegeven
  <1>2. (\A x \in DOMAIN g : g[x] # Onzin) /\ F!Samenhang(f, body, g) /\ uit = g
    <2> HIDE DEF g
    <2> QED BY Zenon, <1>1 DEF F!Als
  <1>3. F!Gelezen(f, body) \subseteq DOMAIN velden
    BY TabelFeit DEF F!Gelezen
  <1>4. /\ DOMAIN uit = F!Gelezen(f, body)
        /\ \A x \in DOMAIN uit : uit[x] = F!LeesVeld(velden[x], Gegeven(body, x))
    <2> HIDE DEF velden
    <2> QED BY <1>2
  <1>5. F!Samenhang(f, body, uit) /\ \A x \in DOMAIN uit : uit[x] # Onzin
    BY Zenon, <1>2
  <1> QED BY Zenon, <1>3, <1>4, <1>5

(* What InvoerPast asks of a form, of every form and every body a browser  *)
(* can send.                                                               *)
LEMMA FormulierHeel ==
    ASSUME Apart, NEW f \in DOMAIN F!FORMULIEREN, NEW body, \A x \in DOMAIN body : F!Waarde(body[x]),
           NEW uit, uit = F!LeesFormulier(f, body), uit # Onzin
    PROVE  LET velden == F!FORMULIEREN[f].velden IN
           /\ f = "leesNieuweVendorContact" /\ uit.fullName = Geen => DOMAIN uit = {"fullName"}
           /\ \A v \in DOMAIN uit :
                LET k == velden[v].kolom   w == uit[v] IN
                /\ NeemtKolom(k, w) \/ (w = Geen /\ f = "leesNieuweVendorContact") \/ Doorgelaten(k, w)
                /\ F!IsTekst(w) => F!Strak(w) \/ Doorgelaten(k, w)
                /\ w # Geen => F!LeesVeld(velden[v], w) = w
                /\ v \in DOMAIN body => EenRegelPerKolom(f, body, k, v)
           /\ {"startDate", "endDate"} \subseteq DOMAIN uit /\ Geen \notin {uit.startDate, uit.endDate} =>
                ~B!Eerder(uit.endDate.inh.dag, uit.startDate.inh.dag)
  <1> DEFINE velden == F!FORMULIEREN[f].velden
  <1> HIDE DEF velden
  <1>0. /\ DOMAIN uit = F!Gelezen(f, body) /\ DOMAIN uit \subseteq DOMAIN velden
        /\ \A x \in DOMAIN uit : uit[x] = F!LeesVeld(velden[x], Gegeven(body, x)) /\ uit[x] # Onzin
        /\ F!Samenhang(f, body, uit)
    BY Zenon, LeesFormulierFeit DEF velden
  <1>1. /\ \A x \in DOMAIN velden : Formulierveld(velden[x])
        /\ \A x \in DOMAIN velden : velden[x] = OptioneleNaam => f = "leesNieuweVendorContact"
    BY Zenon, TabelFeit DEF velden
  <1>2. \A x : F!Waarde(Gegeven(body, x))
    BY DEF Gegeven, F!Waarde
  <1>3. ASSUME f = "leesNieuweVendorContact", uit.fullName = Geen
        PROVE  DOMAIN uit = {"fullName"}
    <2>1. "fullName" \in F!FORMULIEREN[f].altijd
      BY Zenon, <1>3, TabelFeit
    <2>2. "fullName" \in DOMAIN uit
      BY <1>0, <2>1 DEF F!Gelezen
    <2>3. "fullName" \in DOMAIN body => F!LeesVeld(velden["fullName"], body["fullName"]) = Geen
      BY Zenon, <1>0, <1>3, <2>2 DEF Gegeven
    <2>4. F!Gelezen(f, body) = {"fullName"}
      BY Zenon, <1>3, <2>3 DEF F!Gelezen, velden
    <2> QED BY <1>0, <2>4
  <1>4. ASSUME NEW v \in DOMAIN uit
        PROVE  LET k == velden[v].kolom   w == uit[v] IN
                /\ NeemtKolom(k, w) \/ (w = Geen /\ f = "leesNieuweVendorContact") \/ Doorgelaten(k, w)
                /\ F!IsTekst(w) => F!Strak(w) \/ Doorgelaten(k, w)
                /\ w # Geen => F!LeesVeld(velden[v], w) = w
    <2>1. v \in DOMAIN velden /\ uit[v] = F!LeesVeld(velden[v], Gegeven(body, v)) /\ uit[v] # Onzin
      BY Zenon, <1>0
    <2>2. Formulierveld(velden[v]) /\ (velden[v] = OptioneleNaam => f = "leesNieuweVendorContact")
      BY Zenon, <1>1, <2>1
    <2> QED BY Zenon, <1>2, <2>1, <2>2, VeldHeel
  <1>5. ASSUME NEW v \in DOMAIN uit, v \in DOMAIN body
        PROVE  EenRegelPerKolom(f, body, velden[v].kolom, v)
    <2>1. v \in DOMAIN velden /\ F!LeesVeld(velden[v], body[v]) # Onzin /\ Formulierveld(velden[v])
      BY Zenon, <1>0, <1>1, <1>5 DEF Gegeven
    <2>2. ASSUME NEW g \in DOMAIN F!FORMULIEREN, NEW u \in DOMAIN F!FORMULIEREN[g].velden,
                 F!FORMULIEREN[g].velden[u].kolom = velden[v].kolom
          PROVE  LET w == F!LeesVeld(F!FORMULIEREN[g].velden[u], body[v]) IN
                 \/ w = F!LeesVeld(velden[v], body[v])
                 \/ velden[v].kolom \in {"tenant.antwoord_email", "user.email"}
                 \/ velden[v].kolom = "vendor_contact.full_name" /\ w = Onzin
      <3>1. Formulierveld(F!FORMULIEREN[g].velden[u])
        BY Zenon, TabelFeit
      <3> QED BY Zenon, <2>1, <2>2, <3>1, VeldenEens
    <2> QED BY Zenon, <2>2 DEF EenRegelPerKolom, velden
  <1>6. ASSUME {"startDate", "endDate"} \subseteq DOMAIN uit, Geen \notin {uit.startDate, uit.endDate}
        PROVE  ~B!Eerder(uit.endDate.inh.dag, uit.startDate.inh.dag)
    <2>1. ~F!D!Eerder(uit.endDate.inh.dag, uit.startDate.inh.dag)
      BY Zenon, <1>0, <1>6 DEF F!Samenhang
    <2> QED BY Zenon, <2>1 DEF F!D!Eerder, B!Eerder
  <1> QED BY Zenon, <1>3, <1>4, <1>5, <1>6 DEF velden

LEMMA KleinGenoeg ==
    /\ \A n \in 1..F!MAX_BESTANDSGROOTTE :
         n \in 1..F!MAX_ENGAGEMENTBESTAND /\ survey_attachment_size_check(n)
    /\ \A n \in 1..F!MAX_ENGAGEMENTBESTAND : vendor_engagement_attachment_grootte_check(n)
  <1> DEFINE M == F!MAX_BESTANDSGROOTTE   N == F!MAX_ENGAGEMENTBESTAND
  <1>1. M \in Nat /\ N \in Nat /\ M < N
    BY SMT DEF F!MAX_BESTANDSGROOTTE, F!MAX_ENGAGEMENTBESTAND
  <1>2. \A n \in Int : 1 <= n /\ n <= M => survey_attachment_size_check(n)
    BY SMT DEF F!MAX_BESTANDSGROOTTE, survey_attachment_size_check
  <1>3. \A n \in Int : 1 <= n /\ n <= N => vendor_engagement_attachment_grootte_check(n)
    BY SMT DEF F!MAX_ENGAGEMENTBESTAND, vendor_engagement_attachment_grootte_check
  <1> HIDE DEF M, N
  <1>4. /\ \A n \in 1..M : n \in 1..N /\ survey_attachment_size_check(n)
        /\ \A n \in 1..N : vendor_engagement_attachment_grootte_check(n)
    BY <1>1, <1>2, <1>3
  <1> QED BY Zenon, <1>4 DEF M, N

(* An upload that one of the two validations accepts.                      *)
LEMMA BestandPast ==
    ASSUME Geen \notin F!ALLE_BEKENDE_TYPES, NEW b
    PROVE  LET survey == F!ValideerBestand(b)   dossier == F!ValideerEngagementBestand(b) IN
           /\ survey # Onzin => survey \in {"application/pdf", "image/png"} /\ survey = dossier
                                /\ survey_attachment_size_check(b.grootte)
           /\ dossier # Onzin => /\ dossier \in F!ALLE_BEKENDE_TYPES
                                 /\ vendor_engagement_attachment_grootte_check(b.grootte)
                                 /\ b.beweerd \in F!ALLE_BEKENDE_TYPES => dossier = b.beweerd
  <1> DEFINE survey == F!ValideerBestand(b)   dossier == F!ValideerEngagementBestand(b)
             H == F!ViaHandtekening   t == H[b.bytes]   klein == b.grootte \in 1..F!MAX_BESTANDSGROOTTE
             past == b.grootte \in 1..F!MAX_ENGAGEMENTBESTAND   T == F!ALLE_BEKENDE_TYPES
  <1>1. /\ DOMAIN H = {"pdf", "png", "msg"} /\ H["pdf"] = "application/pdf" /\ H["png"] = "image/png"
        /\ H["msg"] \in T /\ "application/pdf" \in T /\ "image/png" \in T /\ "message/rfc822" \in T
        /\ F!OOXML_TYPES \subseteq T
    BY DEF F!ViaHandtekening, F!ALLE_BEKENDE_TYPES
  <1>2. klein => past
    BY Zenon, KleinGenoeg
  <1>3. survey = IF klein /\ b.bytes \in {"pdf", "png"} /\ b.beweerd \in {Geen, t} THEN t ELSE Onzin
    BY Zenon DEF F!ValideerBestand
  <1>4. dossier =
          IF ~past THEN Onzin ELSE
          CASE b.bytes = "eml" -> F!Als(b.beweerd \in {Geen, "message/rfc822"}, "message/rfc822")
            [] b.bytes = "zip" -> F!Als(b.beweerd \in F!OOXML_TYPES, b.beweerd)
            [] b.bytes \in DOMAIN H ->
                 F!Als(b.beweerd \in {Geen, t} \/ (b.bytes = "msg" /\ b.beweerd \notin T), t)
            [] OTHER -> Onzin
    BY Zenon DEF F!ValideerEngagementBestand
  <1> HIDE DEF survey, dossier, H, t, klein, past, T
  <1>5. Geen \notin T /\ (b.bytes = "pdf" => t = "application/pdf") /\ (b.bytes = "png" => t = "image/png")
        /\ (b.bytes \in DOMAIN H => t \in T)
    <2>1. b.bytes \in DOMAIN H => b.bytes = "pdf" \/ b.bytes = "png" \/ b.bytes = "msg"
      BY <1>1
    <2> QED BY Zenon, <1>1, <2>1 DEF T, t
  <1>6. /\ b.bytes = "eml" => b.bytes \notin DOMAIN H /\ b.bytes # "zip"
        /\ b.bytes = "zip" => b.bytes \notin DOMAIN H /\ b.bytes # "eml"
    BY <1>1
  <1>7. ASSUME survey # Onzin
        PROVE  survey \in {"application/pdf", "image/png"} /\ survey = dossier /\ klein
    <2>1. klein /\ b.bytes \in {"pdf", "png"} /\ b.beweerd \in {Geen, t} /\ survey = t /\ past
      BY <1>2, <1>3, <1>7
    <2>2. dossier = F!Als(b.beweerd \in {Geen, t} \/ (b.bytes = "msg" /\ b.beweerd \notin T), t)
      BY <1>1, <1>4, <2>1
    <2>3. dossier = t
      BY Zenon, <2>1, <2>2 DEF F!Als
    <2> QED BY <1>5, <2>1, <2>3
  <1>8. ASSUME dossier # Onzin
        PROVE  dossier \in T /\ past /\ (b.beweerd \in T => dossier = b.beweerd)
    <2>1. past
      BY Zenon, <1>4, <1>8
    <2>2. CASE b.bytes = "eml"
      <3>1. dossier = F!Als(b.beweerd \in {Geen, "message/rfc822"}, "message/rfc822")
        BY Zenon, <1>4, <1>6, <2>1, <2>2
      <3>2. dossier = "message/rfc822" /\ b.beweerd \in {Geen, "message/rfc822"}
        BY Zenon, <1>8, <3>1 DEF F!Als
      <3> QED BY <1>1, <1>5, <2>1, <3>2
    <2>3. CASE b.bytes = "zip"
      <3>1. dossier = F!Als(b.beweerd \in F!OOXML_TYPES, b.beweerd)
        BY Zenon, <1>4, <1>6, <2>1, <2>3
      <3>2. dossier = b.beweerd /\ b.beweerd \in F!OOXML_TYPES
        BY Zenon, <1>8, <3>1 DEF F!Als
      <3> QED BY <1>1, <2>1, <3>2
    <2>4. CASE b.bytes \in DOMAIN H
      <3>1. b.bytes # "eml" /\ b.bytes # "zip"
        BY <1>1, <2>4
      <3>2. dossier = F!Als(b.beweerd \in {Geen, t} \/ (b.bytes = "msg" /\ b.beweerd \notin T), t)
        BY Zenon, <1>4, <2>1, <2>4, <3>1
      <3>3. dossier = t /\ (b.beweerd \in {Geen, t} \/ b.beweerd \notin T)
        BY Zenon, <1>8, <3>2 DEF F!Als
      <3> QED BY <1>5, <2>1, <2>4, <3>3
    <2>5. CASE b.bytes \notin DOMAIN H /\ b.bytes # "eml" /\ b.bytes # "zip"
      BY <1>4, <1>8, <2>1, <2>5
    <2> QED BY <2>2, <2>3, <2>4, <2>5
  <1> QED BY Zenon, <1>7, <1>8, KleinGenoeg DEF survey, dossier, klein, past, T

(* The name of an upload.                                                  *)
LEMMA LaatsteFeit ==
    ASSUME NEW S, NEW s \in Seq(S), NEW teken
    PROVE  LET l == F!Laatste(s, teken) IN
           /\ l \in Seq(S) /\ \A i \in DOMAIN l : l[i] # teken /\ \E j \in DOMAIN s : l[i] = s[j]
  <1> DEFINE m == Len(s)   vrij(n) == \A j \in n + 1 .. m : s[j] # teken
             na == {i \in 0..m : (i > 0 => s[i] = teken) /\ vrij(i)}
             T == {n \in Nat : n <= m /\ vrij(n)}   k == CHOOSE i \in na : TRUE
  <1>1. m \in Nat
    OBVIOUS
  <1>2. na # {}
    <2>1. m \in T
      BY <1>1
    <2>2. PICK x \in T : \A y \in T : x <= y
      BY <2>1, EersteGetal
    <2>3. x \in Nat /\ x <= m /\ vrij(x)
      BY <2>2
    <2>4. x > 0 => s[x] = teken
      <3>1. SUFFICES ASSUME x > 0, s[x] # teken
                     PROVE  FALSE
        OBVIOUS
      <3>2. x - 1 \in Nat /\ x - 1 <= m /\ vrij(x - 1)
        BY <2>3, <3>1, <1>1
      <3>3. x - 1 \in T
        BY <3>2
      <3> QED BY <2>2, <2>3, <3>3
    <2> QED BY <2>3, <2>4, <1>1
  <1>3. k \in na
    BY Zenon, <1>2
  <1>4. k \in 0..m /\ vrij(k)
    BY Zenon, <1>3
  <1>5. F!Laatste(s, teken) = SubSeq(s, k + 1, m)
    BY Zenon DEF F!Laatste
  <1> HIDE DEF k
  <1> QED BY <1>1, <1>4, <1>5

LEMMA TrimFeit ==
    ASSUME NEW S, NEW s \in Seq(S)
    PROVE  LET t == F!D!Trim(s) IN
           /\ t \in Seq(S) /\ \A i \in DOMAIN t : \E j \in DOMAIN s : t[i] = s[j]
           /\ t # <<>> => t[1] \notin F!D!Wit
  <1> DEFINE m == Len(s)   vol == {i \in DOMAIN s : s[i] \notin F!D!Wit}   t == F!D!Trim(s)
             a == CHOOSE i \in vol : \A j \in vol : i <= j
             b == CHOOSE i \in vol : \A j \in vol : i >= j
  <1>1. m \in Nat /\ DOMAIN s = 1..m /\ vol \subseteq 1..m
    OBVIOUS
  <1>2. t = IF vol = {} THEN <<>> ELSE SubSeq(s, a, b)
    BY Zenon DEF F!D!Trim
  <1>3. CASE vol = {}
    BY <1>2, <1>3
  <1>4. CASE vol # {}
    <2>1. \E i \in vol : \A j \in vol : i <= j
      <3>1. vol \in SUBSET Nat
        BY <1>1
      <3> HIDE DEF vol
      <3> QED BY <3>1, <1>4, EersteGetal
    <2>2. \E i \in vol : \A j \in vol : i >= j
      <3> DEFINE T == {m - i : i \in vol}
      <3>1. T \in SUBSET Nat /\ T # {}
        BY <1>1, <1>4
      <3>2. PICK x \in T : \A y \in T : x <= y
        BY <3>1, EersteGetal
      <3>3. PICK i \in vol : x = m - i
        BY <3>2
      <3>4. ASSUME NEW j \in vol
            PROVE  i >= j
        <4>1. m - j \in T
          OBVIOUS
        <4>2. m - i <= m - j
          BY <3>2, <3>3, <4>1
        <4> HIDE DEF vol
        <4> QED BY <4>2, <1>1
      <3> QED BY <3>4
    <2>3. a \in vol /\ \A j \in vol : a <= j
      BY Zenon, <2>1
    <2>4. b \in vol /\ \A j \in vol : b >= j
      BY Zenon, <2>2
    <2>5. a \in 1..m /\ b \in 1..m /\ a <= b /\ s[a] \notin F!D!Wit
      <3> HIDE DEF a, b
      <3> QED BY <1>1, <2>3, <2>4
    <2>6. t = SubSeq(s, a, b)
      BY Zenon, <1>2, <1>4
    <2> HIDE DEF a, b, vol, t
    <2>7. t \in Seq(S) /\ Len(t) = b - a + 1 /\ \A i \in 1..Len(t) : t[i] = s[a + i - 1] /\ a + i - 1 \in 1..m
      BY <1>1, <2>5, <2>6
    <2>8. t # <<>> => t[1] \notin F!D!Wit
      BY <2>5, <2>7
    <2>9. \A i \in DOMAIN t : \E j \in DOMAIN s : t[i] = s[j]
      BY <1>1, <2>7
    <2> QED BY <2>7, <2>8, <2>9 DEF t
  <1> QED BY <1>3, <1>4

LEMMA NaamPast ==
    ASSUME NEW S, NEW s \in Seq(S)
    PROVE  LET n == F!VeiligeWeergavenaam(s) IN
           n # <<>> /\ n[1] # " " /\ ToSet(n) \cap {"/", "\\", "ctl"} = {}
  <1> DEFINE een == "/"   twee == "\\"   drie == "ctl"
             k == F!Laatste(s, een)   l == F!Laatste(k, twee)
             J == {i \in DOMAIN l : l[i] # drie}   d == F!Deelrij(l, J)   t == F!D!Trim(d)
             n == F!VeiligeWeergavenaam(s)
  <1>6. n = IF t = <<>> THEN <<"bestand">> ELSE t
    BY Zenon DEF F!VeiligeWeergavenaam
  <1> HIDE DEF een, twee, drie
  <1>1. k \in Seq(S) /\ \A i \in DOMAIN k : k[i] # een
    BY LaatsteFeit
  <1>2. l \in Seq(S) /\ \A i \in DOMAIN l : l[i] # twee /\ \E j \in DOMAIN k : l[i] = k[j]
    <2> HIDE DEF k
    <2> QED BY <1>1, LaatsteFeit
  <1>3. d \in Seq(S) /\ \A i \in DOMAIN d : Plaats(J, i) \in J /\ d[i] = l[Plaats(J, i)]
    <2> HIDE DEF l
    <2>1. J \subseteq DOMAIN l
      OBVIOUS
    <2> HIDE DEF J
    <2> QED BY <1>2, <2>1, DeelrijFeit
  <1>4. \A i \in DOMAIN d : d[i] \notin {een, twee, drie}
    BY Zenon, <1>1, <1>2, <1>3
  <1>5. /\ t \in Seq(S) /\ \A i \in DOMAIN t : \E j \in DOMAIN d : t[i] = d[j]
        /\ t # <<>> => t[1] \notin F!D!Wit
    <2> HIDE DEF d
    <2> QED BY Zenon, <1>3, TrimFeit
  <1> HIDE DEF t, d, n
  <1>7. CASE t = <<>>
    <2>1. n = <<"bestand">>
      BY Zenon, <1>6, <1>7
    <2>2. n # <<>> /\ n[1] = "bestand" /\ ToSet(n) = {"bestand"}
      BY <2>1 DEF ToSet
    <2> QED BY Zenon, <2>2, Elementen DEF n, een, twee, drie
  <1>8. CASE t # <<>>
    <2>1. n = t
      BY Zenon, <1>6, <1>8
    <2>2. t[1] # " "
      <3>1. " " \in F!D!Wit
        BY Zenon DEF F!D!Wit, F!D!Spatie
      <3> DEFINE blanco == " "
      <3> HIDE DEF blanco
      <3>2. blanco \in F!D!Wit
        BY Zenon, <3>1 DEF blanco
      <3>3. t[1] # blanco
        BY Zenon, <1>5, <1>8, <3>2
      <3> QED BY Zenon, <3>3 DEF blanco
    <2>3. \A x \in ToSet(t) : x \notin {een, twee, drie}
      BY <1>4, <1>5 DEF ToSet
    <2> QED BY Zenon, <1>8, <2>1, <2>2, <2>3, Elementen DEF n, een, twee, drie
  <1> QED BY <1>7, <1>8

-----------------------------------------------------------------------------
(* What a request can hold is an answer (IsAntwoord), as AntwoordInTabel   *)
(* asks.                                                                   *)
LEMMA AntwoordFeit ==
    ASSUME NEW t, NEW a \in Antwoorden(t)
    PROVE  IsAntwoord(a)
  <1>1. \/ a \in Met("answerCode", Codes) \/ a \in Met("answerCodes", Codelijsten)
        \/ a \in Met("answerText", Teksten) \/ a \in Met("answerNumber", Getallen)
        \/ a \in Met("comment", {Geen})
    <2>1. {"multi_choice", "open_text", "rating", "number"} \cap MetCode = {}
      BY DEF MetCode
    <2> QED BY Zenon, <2>1 DEF Antwoorden
  <1>2. ASSUME NEW veld, NEW S, a \in Met(veld, S)
        PROVE  \E x \in S : \E c \in Teksten :
                 /\ a.comment = c
                 /\ a.answerText = IF veld = "answerText" THEN x ELSE Geen
                 /\ a.answerCodes = IF veld = "answerCodes" THEN x ELSE Geen
    <2>1. PICK x \in S, c \in Teksten : a = MetVeld(veld, x, c)
      BY SMT, <1>2 DEF Met
    <2>2. /\ a.comment = c
          /\ a.answerText = IF veld = "answerText" THEN x ELSE Geen
          /\ a.answerCodes = IF veld = "answerCodes" THEN x ELSE Geen
      BY <2>1 DEF MetVeld, GeenAntwoord
    <2> QED BY Zenon, <2>2
  <1>3. \A y \in Teksten : Gevuld(y) => IsTekst(y)
    BY Zenon, InvoerVormen DEF Vormen
  <1>4. \A y \in Codelijsten : Gevuld(y) => y \in Seq(STRING)
    BY InvoerVormen DEF Vormen, Gevuld
  <1>5. ~Gevuld(Geen)
    BY DEF Gevuld
  <1>6. ASSUME NEW veld, NEW S, a \in Met(veld, S), veld = "answerText" => S = Teksten,
               veld = "answerCodes" => S = Codelijsten
        PROVE  IsAntwoord(a)
    <2>1. PICK x \in S, c \in Teksten :
                 /\ a.comment = c
                 /\ a.answerText = IF veld = "answerText" THEN x ELSE Geen
                 /\ a.answerCodes = IF veld = "answerCodes" THEN x ELSE Geen
      BY Zenon, <1>2, <1>6
    <2> QED BY Zenon, <2>1, <1>3, <1>4, <1>5, <1>6 DEF IsAntwoord
  <1> QED BY <1>1, <1>6

LEMMA BijlagenTellen ==
    ASSUME NEW vraag, VraagGoed(vraag), DOMAIN vraag = Vraagvelden, VraagRij(vraag).allows_upload
    PROVE  VraagRij(vraag).max_files \in Int
  <1>1. VraagRij(vraag).allows_upload = Of(vraag.allows_upload, FALSE)
        /\ VraagRij(vraag).max_files = Of(vraag.max_files, 0)
    BY DEF VraagRij, Vraagvelden
  <1>2. vraag.allows_upload \in {Geen, TRUE, FALSE} /\ vraag.allows_upload # Geen
    BY Zenon, <1>1 DEF VraagGoed, UploadGoed, Of
  <1>3. vraag.allows_upload = TRUE
    BY Zenon, <1>1, <1>2 DEF Of
  <1> QED BY <1>1, <1>3 DEF VraagGoed, UploadGoed

(* What a case of the specification holds.                                 *)
GevalGoed(g) ==
    /\ g.soort = "antwoord" =>
         \E vraag : /\ VraagGoed(vraag) /\ DOMAIN vraag = Vraagvelden /\ g.vraag = VraagRij(vraag)
                    /\ IsAntwoord(g.antwoord) /\ g.bestanden \in Int
    /\ g.soort = "formulier" =>
         g.f \in DOMAIN F!FORMULIEREN /\ \A x \in DOMAIN g.body : F!Waarde(g.body[x])
    /\ g.soort = "naam" => g.naam \in Seq(STRING)

LEMMA AntwoordGoed ==
    ASSUME GevalGoed(geval)
    PROVE  AntwoordPast
  <1>1. SUFFICES ASSUME geval.soort = "antwoord", ToetsAntwoord(geval.vraag, geval.antwoord, geval.bestanden)
                 PROVE  AntwoordPast
    BY Zenon DEF AntwoordPast
  <1> DEFINE v == geval.vraag   a == geval.antwoord   n == geval.bestanden   r == GeldigAntwoord(v, a)
  <1>2. PICK vraag : /\ VraagGoed(vraag) /\ DOMAIN vraag = Vraagvelden /\ v = VraagRij(vraag)
                     /\ IsAntwoord(a) /\ n \in Int
    BY Zenon, <1>1 DEF GevalGoed
  <1>3. ToetsAntwoord(v, a, n)
    BY Zenon, <1>1
  <1>4. /\ survey_answer_shape_check(r)
        /\ survey_answer_comment_length_check(r)
        /\ \/ survey_answer_comment_required_check(r)
           \/ r.comment # Geen /\ r.comment.tekens < r.comment.kaal
        /\ v.answer_type = "number" /\ Gevuld(v.decimals) =>
             EchteDecimalen(r.answer_number) * EEN <= v.decimals \/ r.answer_number \in -9..9
    BY Zenon, <1>2, <1>3, AntwoordInTabel
  <1>5. v.answer_type = "confirmation" /\ v.allows_upload /\ r.answer_code = "confirmed" => n \in 1..v.max_files
    <2>1. SUFFICES ASSUME v.answer_type = "confirmation", v.allows_upload, r.answer_code = "confirmed"
                   PROVE  n \in 1..v.max_files
      OBVIOUS
    <2>2. v.answer_type \in MetCode
      BY <2>1 DEF MetCode
    <2>3. a.answerCode = "confirmed"
      BY <2>1, <2>2, RijFeit
    <2>4. n >= 1 /\ n <= v.max_files
      BY Zenon, <1>3, <2>1, <2>2, <2>3 DEF ToetsAntwoord
    <2>5. v.max_files \in Int
      BY Zenon, <1>2, <2>1, BijlagenTellen
    <2> HIDE DEF v, n
    <2> QED BY <1>2, <2>4, <2>5
  <1> QED BY Zenon, <1>4, <1>5 DEF AntwoordPast

LEMMA FormulierGeval ==
    ASSUME Apart, GevalGoed(geval)
    PROVE  FormulierPast
  <1> DEFINE f == geval.f   body == geval.body   uit == F!LeesFormulier(f, body)
  <1>1. SUFFICES ASSUME geval.soort = "formulier", uit # Onzin
                 PROVE  FormulierPast
    BY Zenon DEF FormulierPast
  <1>2. f \in DOMAIN F!FORMULIEREN /\ \A x \in DOMAIN body : F!Waarde(body[x])
    BY Zenon, <1>1 DEF GevalGoed
  <1> HIDE DEF f, body
  <1>3. LET velden == F!FORMULIEREN[f].velden IN
           /\ f = "leesNieuweVendorContact" /\ uit.fullName = Geen => DOMAIN uit = {"fullName"}
           /\ \A v \in DOMAIN uit :
                LET k == velden[v].kolom   w == uit[v] IN
                /\ NeemtKolom(k, w) \/ (w = Geen /\ f = "leesNieuweVendorContact") \/ Doorgelaten(k, w)
                /\ F!IsTekst(w) => F!Strak(w) \/ Doorgelaten(k, w)
                /\ w # Geen => F!LeesVeld(velden[v], w) = w
                /\ v \in DOMAIN body => EenRegelPerKolom(f, body, k, v)
           /\ {"startDate", "endDate"} \subseteq DOMAIN uit /\ Geen \notin {uit.startDate, uit.endDate} =>
                ~B!Eerder(uit.endDate.inh.dag, uit.startDate.inh.dag)
    <2> HIDE DEF uit
    <2>1. uit = F!LeesFormulier(f, body) /\ uit # Onzin
      BY <1>1 DEF uit
    <2> QED BY FormulierHeel, <1>2, <2>1
  <1> QED BY Zenon, <1>3 DEF FormulierPast, f, body

LEMMA UploadGeval ==
    ASSUME GevalGoed(geval)
    PROVE  UploadPast
  <1>1. Geen \notin F!ALLE_BEKENDE_TYPES
    BY Zenon, InvoerVormen DEF Vormen
  <1>2. geval.soort = "naam" => geval.naam \in Seq(STRING)
    BY Zenon DEF GevalGoed
  <1>3. geval.soort = "naam" =>
           LET n == F!VeiligeWeergavenaam(geval.naam) IN
           n # <<>> /\ n[1] # " " /\ ToSet(n) \cap {"/", "\\", "ctl"} = {}
    BY Zenon, <1>2, NaamPast
  <1> QED BY Zenon, <1>1, <1>3, BestandPast DEF UploadPast

(* Every step takes an input that is as GevalGoed says.                    *)
LEMMA GeenGeval ==
    ASSUME NEW g, g.soort \notin {"antwoord", "formulier", "naam"}
    PROVE  GevalGoed(g)
  BY DEF GevalGoed

LEMMA BeantwoordStap ==
    ASSUME Beantwoord
    PROVE  GevalGoed(geval')
  <1>1. PICK v \in Vragenlijstvraag :
          \E a \in Antwoorden(v.answer_type), n \in 0..v.max_files + 1 :
            geval' = [soort |-> "antwoord", vraag |-> v, antwoord |-> a, bestanden |-> n]
    BY Zenon DEF Beantwoord
  <1>2. PICK a \in Antwoorden(v.answer_type), n \in 0..v.max_files + 1 :
          geval' = [soort |-> "antwoord", vraag |-> v, antwoord |-> a, bestanden |-> n]
    BY Zenon, <1>1
  <1>3. PICK w \in Vraagvormen : VraagGoed(w) /\ v = VraagRij(w)
    BY SMT DEF Vragenlijstvraag
  <1>4. DOMAIN w = Vraagvelden
    BY Zenon, InvoerVormen DEF Vormen
  <1>5. IsAntwoord(a)
    BY Zenon, AntwoordFeit
  <1>6. n \in Int
    OBVIOUS
  <1>7. /\ geval'.soort = "antwoord" /\ geval'.vraag = v /\ geval'.antwoord = a /\ geval'.bestanden = n
        /\ geval'.soort # "formulier" /\ geval'.soort # "naam"
    BY <1>2
  <1> QED BY Zenon, <1>3, <1>4, <1>5, <1>6, <1>7 DEF GevalGoed

Ingevuld(f, vrij) ==
    [soort |-> "formulier", f |-> f, body |-> F!En(vrij, [x \in Verplicht(f) |-> Voorbeeld(f, x)])]

LEMMA IngevuldGoed ==
    ASSUME NEW f \in DOMAIN F!FORMULIEREN, NEW vrij, \A x \in DOMAIN vrij : vrij[x] \in Waarden
    PROVE  GevalGoed(Ingevuld(f, vrij))
  <1> DEFINE vb == [x \in Verplicht(f) |-> Voorbeeld(f, x)]   g == Ingevuld(f, vrij)
  <1>1. ASSUME NEW x \in DOMAIN vb
        PROVE  vb[x] \in Waarden
    <2>1. x \in Verplicht(f)
      OBVIOUS
    <2>2. \E w \in Waarden : F!LeesVeld(F!FORMULIEREN[f].velden[x], w) \notin {Geen, Onzin}
      BY Zenon, InvoerVormen, <2>1 DEF Vormen
    <2>3. Voorbeeld(f, x) \in Waarden
      BY Zenon, <2>2 DEF Voorbeeld
    <2> QED BY <2>1, <2>3
  <1> HIDE DEF vb
  <1>2. \A x \in DOMAIN F!En(vrij, vb) : F!En(vrij, vb)[x] \in Waarden
    BY <1>1 DEF F!En
  <1>3. /\ g.soort = "formulier" /\ g.f = f /\ g.body = F!En(vrij, vb)
        /\ g.soort # "antwoord" /\ g.soort # "naam"
    BY DEF Ingevuld, vb
  <1>4. \A w \in Waarden : F!Waarde(w)
    BY Zenon, InvoerVormen DEF Vormen
  <1> HIDE DEF g
  <1>5. GevalGoed(g)
    BY Zenon, <1>2, <1>3, <1>4 DEF GevalGoed
  <1> QED BY Zenon, <1>5 DEF g

LEMMA VulInStap ==
    ASSUME VulIn
    PROVE  GevalGoed(geval')
  <1>1. PICK f \in DOMAIN F!FORMULIEREN :
          \/ \E v \in DOMAIN F!FORMULIEREN[f].velden : \E w \in Waarden : geval' = Ingevuld(f, [x \in {v} |-> w])
          \/ \E p \in Samen(f) : \E w \in Waarden : \E u \in Waarden :
               geval' = Ingevuld(f, [x \in {p[1], p[2]} |-> IF x = p[1] THEN w ELSE u])
    BY Zenon DEF VulIn, Ingevuld
  <1>2. CASE \E v \in DOMAIN F!FORMULIEREN[f].velden : \E w \in Waarden : geval' = Ingevuld(f, [x \in {v} |-> w])
    <2>1. PICK v \in DOMAIN F!FORMULIEREN[f].velden, w \in Waarden : geval' = Ingevuld(f, [x \in {v} |-> w])
      BY Zenon, <1>2
    <2> DEFINE vrij == [x \in {v} |-> w]
    <2>2. \A x \in DOMAIN vrij : vrij[x] \in Waarden
      OBVIOUS
    <2> HIDE DEF vrij
    <2> QED BY Zenon, <2>1, <2>2, IngevuldGoed DEF vrij
  <1>3. CASE \E p \in Samen(f) : \E w \in Waarden : \E u \in Waarden :
               geval' = Ingevuld(f, [x \in {p[1], p[2]} |-> IF x = p[1] THEN w ELSE u])
    <2>1. PICK p \in Samen(f), w \in Waarden, u \in Waarden :
            geval' = Ingevuld(f, [x \in {p[1], p[2]} |-> IF x = p[1] THEN w ELSE u])
      BY Zenon, <1>3
    <2> DEFINE vrij == [x \in {p[1], p[2]} |-> IF x = p[1] THEN w ELSE u]
    <2>2. \A x \in DOMAIN vrij : vrij[x] \in Waarden
      OBVIOUS
    <2> HIDE DEF vrij
    <2> QED BY Zenon, <2>1, <2>2, IngevuldGoed DEF vrij
  <1> QED BY Zenon, <1>1, <1>2, <1>3

LEMMA BenoemStap ==
    ASSUME Benoem
    PROVE  GevalGoed(geval')
  <1>1. PICK n \in Bestandsnamen : geval' = [soort |-> "naam", naam |-> n]
    BY Zenon DEF Benoem
  <1>2. n \in Seq(STRING)
    BY InvoerVormen DEF Vormen
  <1>3. geval'.soort = "naam" /\ geval'.naam = n /\ geval'.soort # "formulier" /\ geval'.soort # "antwoord"
    BY <1>1
  <1> QED BY Zenon, <1>2, <1>3 DEF GevalGoed

LEMMA GevalInvariant ==
    /\ InvoerInit => GevalGoed(geval)
    /\ GevalGoed(geval) /\ [InvoerNext]_geval => GevalGoed(geval')
  <1>1. InvoerInit => GevalGoed(geval)
    <2>1. InvoerInit => geval.soort \notin {"antwoord", "formulier", "naam"}
      BY DEF InvoerInit
    <2> QED BY Zenon, <2>1, GeenGeval
  <1>2. ASSUME GevalGoed(geval), [InvoerNext]_geval
        PROVE  GevalGoed(geval')
    <2>1. CASE Beantwoord
      BY Zenon, <2>1, BeantwoordStap
    <2>2. CASE VulIn
      BY Zenon, <2>2, VulInStap
    <2>3. CASE Benoem
      BY Zenon, <2>3, BenoemStap
    <2>4. CASE \/ LeesVraag \/ LeesTabel \/ LeesBedrag \/ LeesLeveranciers \/ LeesDatum
               \/ LeesContract \/ LeesKoppen \/ Upload
      <3>1. geval'.soort \notin {"antwoord", "formulier", "naam"}
        BY <2>4 DEF LeesVraag, LeesTabel, LeesBedrag, LeesLeveranciers, LeesDatum, LeesContract,
              LeesKoppen, Upload
      <3> QED BY Zenon, <3>1, GeenGeval
    <2>5. CASE geval' = geval
      BY Zenon, <1>2, <2>5
    <2> QED BY Zenon, <1>2, <2>1, <2>2, <2>3, <2>4, <2>5 DEF InvoerNext
  <1> QED BY Zenon, <1>1, <1>2

(* Invoer!InvoerPast, for any input sets of the shapes of Vormen: an answer*)
(* toetsAntwoord accepts, a form that is accepted and an upload that is    *)
(* accepted fit where they go, with the exceptions the property names.     *)
THEOREM InvoerHeel ==
    ASSUME Apart
    PROVE  InvoerSpec => []InvoerPast
  <1>1. InvoerInit => GevalGoed(geval)
    BY Zenon, GevalInvariant
  <1>2. GevalGoed(geval) /\ [InvoerNext]_geval => GevalGoed(geval)'
    BY Zenon, GevalInvariant
  <1>3. GevalGoed(geval) => InvoerPast
    BY Zenon, AntwoordGoed, FormulierGeval, UploadGeval DEF InvoerPast
  <1> QED BY <1>1, <1>2, <1>3, PTL DEF InvoerSpec

-----------------------------------------------------------------------------
(* Questions that can be answered, as Invoer has them.                     *)
(* Every answer can be given: each code, list of codes, number and text.   *)
Alles ==
    /\ STRING \cup BEVESTIGINGSCODES \cup {"yes", "no"} \subseteq Codes
    /\ Seq(STRING) \subseteq Codelijsten /\ Int \subseteq Getallen
    /\ {Geen} \cup {x \in [lengte : Nat, kaal : Nat, tekens : Nat, heel : Nat] : IsTekst(x)} \subseteq Teksten

(* The field of an answer that a question of type t looks at.              *)
Antwoordveld(t) ==
    IF t \in MetCode THEN "answerCode" ELSE
    IF t = "multi_choice" THEN "answerCodes" ELSE
    IF t = "open_text" THEN "answerText" ELSE
    IF t \in {"rating", "number"} THEN "answerNumber" ELSE "comment"

LEMMA AlleAntwoorden ==
    ASSUME NEW t, NEW x, NEW c \in Teksten, 
           \/ t \in MetCode /\ x \in Codes
           \/ t = "multi_choice" /\ x \in Codelijsten
           \/ t = "open_text" /\ x \in Teksten
           \/ t \in {"rating", "number"} /\ x \in Getallen
           \/ t \in {"file_upload", "instruction"} /\ x = Geen
    PROVE  MetVeld(Antwoordveld(t), x, c) \in Antwoorden(t)
  <1>1. {"multi_choice", "open_text", "rating", "number", "file_upload", "instruction"} \cap MetCode = {}
    BY DEF MetCode
  <1>2. \A veld, S : x \in S => MetVeld(veld, x, c) \in Met(veld, S)
    BY SMT DEF Met
  <1>3. CASE t \in MetCode /\ x \in Codes
    <2>1. Antwoorden(t) = Met("answerCode", Codes)
      BY Zenon, <1>1, <1>3 DEF Antwoorden
    <2> QED BY <1>2, <1>3, <2>1 DEF Antwoordveld
  <1>4. CASE t = "multi_choice" /\ x \in Codelijsten
    <2>1. Antwoorden(t) = Met("answerCodes", Codelijsten)
      BY Zenon, <1>1, <1>4 DEF Antwoorden
    <2> QED BY <1>1, <1>2, <1>4, <2>1 DEF Antwoordveld
  <1>5. CASE t = "open_text" /\ x \in Teksten
    <2>1. Antwoorden(t) = Met("answerText", Teksten)
      BY Zenon, <1>1, <1>5 DEF Antwoorden
    <2> QED BY <1>1, <1>2, <1>5, <2>1 DEF Antwoordveld
  <1>6. CASE t \in {"rating", "number"} /\ x \in Getallen
    <2>1. Antwoorden(t) = Met("answerNumber", Getallen)
      BY Zenon, <1>1, <1>6 DEF Antwoorden
    <2> QED BY <1>1, <1>2, <1>6, <2>1 DEF Antwoordveld
  <1>7. CASE t \in {"file_upload", "instruction"} /\ x = Geen
    <2>1. Antwoorden(t) = Met("comment", {Geen})
      BY Zenon, <1>1, <1>7 DEF Antwoorden
    <2> QED BY <1>1, <1>2, <1>7, <2>1 DEF Antwoordveld
  <1> QED BY <1>3, <1>4, <1>5, <1>6, <1>7

(* A text is known by its four lengths.                                    *)
Maten(x) == IF Gevuld(x) THEN [lengte |-> x.lengte, kaal |-> x.kaal, tekens |-> x.tekens, heel |-> x.heel] ELSE Geen

LEMMA MatenFeit ==
    ASSUME Alles, NEW x, Gevuld(x) => IsTekst(x)
    PROVE  /\ Maten(x) \in Teksten
           /\ Gevuld(x) <=> Gevuld(Maten(x))
           /\ Gevuld(x) => Maten(x).lengte = x.lengte /\ Maten(x).kaal = x.kaal
  <1>1. CASE Gevuld(x)
    <2> DEFINE m == [lengte |-> x.lengte, kaal |-> x.kaal, tekens |-> x.tekens, heel |-> x.heel]
    <2>1. m.lengte = x.lengte /\ m.kaal = x.kaal /\ m.tekens = x.tekens /\ m.heel = x.heel
      OBVIOUS
    <2>2. m \in [lengte : Nat, kaal : Nat, tekens : Nat, heel : Nat]
      BY <1>1 DEF IsTekst
    <2>3. Maten(x) = m
      BY Zenon, <1>1 DEF Maten
    <2> HIDE DEF m
    <2>4. IsTekst(m)
      BY <1>1, <2>1 DEF IsTekst
    <2>5. Gevuld(m)
      BY <2>2, VragenlijstenWaarden DEF Gevuld
    <2> QED BY <1>1, <2>1, <2>2, <2>3, <2>4, <2>5 DEF Alles
  <1>2. CASE ~Gevuld(x)
    BY <1>2 DEF Alles, Maten, Gevuld
  <1> QED BY Zenon, <1>1, <1>2

(* An answer that toetsAntwoord accepts is, as far as it looks, among those*)
(* that can be given.                                                      *)
LEMMA VanAlles ==
    ASSUME Alles, NEW v, Opgeslagen(v), v.answer_type # "instruction",
           NEW a, IsAntwoord(a), NEW n, ToetsAntwoord(v, a, n)
    PROVE  \E b \in Antwoorden(v.answer_type) : ToetsAntwoord(v, b, n)
  <1> DEFINE t == v.answer_type   c == Maten(a.comment)
             x == IF t \in MetCode THEN a.answerCode ELSE
                  IF t = "multi_choice" THEN a.answerCodes ELSE
                  IF t = "open_text" THEN Maten(a.answerText) ELSE
                  IF t \in {"rating", "number"} THEN a.answerNumber ELSE Geen
             b == MetVeld(Antwoordveld(t), x, c)
  <1>0. {"multi_choice", "open_text", "rating", "number", "file_upload", "instruction"} \cap MetCode = {}
    BY DEF MetCode
  <1>1. /\ t \in MetCode \/ t = "multi_choice" \/ t = "open_text" \/ t \in {"rating", "number"} \/ t = "file_upload"
        /\ t \in MetCode => t = "confirmation" \/ t = "yes_no" \/ t = "single_choice"
    BY DEF Opgeslagen, ANTWOORDTYPEN, MetCode
  <1>2. /\ c \in Teksten
        /\ Gevuld(a.comment) <=> Gevuld(c)
        /\ Gevuld(a.comment) => c.lengte = a.comment.lengte /\ c.kaal = a.comment.kaal
    BY Zenon, MatenFeit DEF IsAntwoord
  <1>3. b.answerType = Geen /\ b.comment = c
    BY DEF MetVeld, GeenAntwoord, Antwoordveld
  <1>4. /\ t \in MetCode => b.answerCode = a.answerCode
        /\ t = "multi_choice" => b.answerCodes = a.answerCodes
        /\ t = "open_text" => b.answerText = Maten(a.answerText)
        /\ t \in {"rating", "number"} => b.answerNumber = a.answerNumber
    BY <1>0 DEF MetVeld, GeenAntwoord, Antwoordveld
  <1>5. WaardeGoed(v, a, n)
    BY Zenon DEF ToetsAntwoord
  <1>6. b \in Antwoorden(t)
    <2>1. CASE t \in MetCode
      <3>1. a.answerCode \in Codes
        <4>1. CASE t = "confirmation"
          BY Zenon, <1>5, <4>1 DEF WaardeGoed, Alles
        <4>2. CASE t = "yes_no"
          BY Zenon, <1>5, <4>2 DEF WaardeGoed, Alles
        <4>3. CASE t = "single_choice"
          <5>1. KentCode(v, a.answerCode)
            BY Zenon, <1>5, <4>3 DEF WaardeGoed
          <5>2. v.options \in Seq(STRING)
            BY <4>3 DEF Opgeslagen, Keuze
          <5>3. a.answerCode \in STRING
            BY <5>1, <5>2 DEF KentCode
          <5> QED BY Zenon, <5>3 DEF Alles
        <4> QED BY Zenon, <1>1, <2>1, <4>1, <4>2, <4>3
      <3>2. x = a.answerCode
        BY <2>1
      <3> HIDE DEF t, x, c
      <3> QED BY Zenon, <1>2, <2>1, <3>1, <3>2, AlleAntwoorden
    <2>2. CASE t = "multi_choice"
      <3>1. Gevuld(a.answerCodes)
        BY Zenon, <1>5, <2>2 DEF WaardeGoed
      <3>2. x = a.answerCodes /\ x \in Codelijsten
        BY <1>0, <2>2, <3>1 DEF IsAntwoord, Alles
      <3> HIDE DEF t, x, c
      <3> QED BY Zenon, <1>2, <2>2, <3>2, AlleAntwoorden
    <2>3. CASE t = "open_text"
      <3>1. x = Maten(a.answerText)
        BY <1>0, <2>3
      <3>2. x \in Teksten
        BY Zenon, <3>1, MatenFeit DEF IsAntwoord
      <3> HIDE DEF t, x, c
      <3> QED BY Zenon, <1>2, <2>3, <3>2, AlleAntwoorden
    <2>4. CASE t \in {"rating", "number"}
      <3>1. x = a.answerNumber
        BY <1>0, <2>4
      <3>2. IsGetal(a.answerNumber)
        <4>1. CASE t = "rating"
          BY Zenon, <1>5, <4>1 DEF WaardeGoed, IsGeheelGetal
        <4>2. CASE t = "number"
          BY Zenon, <1>5, <4>2 DEF WaardeGoed
        <4> QED BY <2>4, <4>1, <4>2
      <3>3. x \in Getallen
        BY <3>1, <3>2 DEF IsGetal, Alles
      <3> HIDE DEF t, x, c
      <3> QED BY Zenon, <1>2, <2>4, <3>3, AlleAntwoorden
    <2>5. CASE t = "file_upload"
      <3>1. x = Geen
        BY <1>0, <2>5
      <3> HIDE DEF t, x, c
      <3> QED BY <1>2, <2>5, <3>1, AlleAntwoorden
    <2> HIDE DEF t, b
    <2> QED BY Zenon, <1>1, <2>1, <2>2, <2>3, <2>4, <2>5
  <1>7. WaardeGoed(v, b, n)
    <2> HIDE DEF b
    <2>1. CASE t = "open_text"
      <3> DEFINE y == a.answerText
      <3>1. Gevuld(y) /\ y.kaal > 0 /\ y.kaal >= Of(v.min, EEN) \div EEN
            /\ NietBoven(y.lengte, IF v.max = Geen THEN Geen ELSE v.max \div EEN)
        BY Zenon, <1>5, <2>1 DEF WaardeGoed
      <3>2. Gevuld(b.answerText) /\ b.answerText.lengte = y.lengte /\ b.answerText.kaal = y.kaal
        <4>1. Gevuld(y) => IsTekst(y)
          BY Zenon DEF IsAntwoord
        <4>2. b.answerText = Maten(y)
          BY Zenon, <1>4, <2>1
        <4> HIDE DEF y
        <4> QED BY Zenon, <3>1, <4>1, <4>2, MatenFeit
      <3> QED BY Zenon, <2>1, <3>1, <3>2 DEF WaardeGoed
    <2>2. CASE t # "open_text"
      <3>1. CASE t = "confirmation"
        BY Zenon, <1>4, <1>5, <3>1 DEF WaardeGoed, MetCode
      <3>2. CASE t = "yes_no"
        BY Zenon, <1>4, <1>5, <3>2 DEF WaardeGoed, MetCode
      <3>3. CASE t = "single_choice"
        BY Zenon, <1>4, <1>5, <3>3 DEF WaardeGoed, MetCode
      <3>4. CASE t = "multi_choice"
        BY Zenon, <1>4, <1>5, <3>4 DEF WaardeGoed
      <3>5. CASE t = "rating"
        BY Zenon, <1>4, <1>5, <3>5 DEF WaardeGoed
      <3>6. CASE t = "number"
        BY Zenon, <1>4, <1>5, <3>6 DEF WaardeGoed
      <3>7. CASE t = "file_upload"
        BY Zenon, <1>5, <3>7 DEF WaardeGoed
      <3> HIDE DEF t
      <3> QED BY <1>1, <2>2, <3>1, <3>2, <3>3, <3>4, <3>5, <3>6, <3>7
    <2> QED BY <2>1, <2>2
  <1>8. ToelichtingGoed(v, b)
    <2>1. ToelichtingGoed(v, a)
      BY Zenon DEF ToetsAntwoord
    <2>2. ToelichtingVerplicht(v, b) <=> ToelichtingVerplicht(v, a)
      BY Zenon, <1>4 DEF ToelichtingVerplicht, MetCode
    <2> HIDE DEF b, c
    <2> QED BY Zenon, <1>2, <1>3, <2>1, <2>2 DEF ToelichtingGoed
  <1>9. ToetsAntwoord(v, b, n)
    <2> HIDE DEF b, c
    <2> QED BY Zenon, <1>3, <1>4, <1>7, <1>8 DEF ToetsAntwoord
  <1> QED BY Zenon, <1>6, <1>9

LEMMA VraagGeval ==
    ASSUME Alles, geval.soort = "vraag" => geval.vraag \in Vraagvormen
    PROVE  VraagBeantwoordbaar
  <1> DEFINE vraag == geval.vraag   v == VraagRij(vraag)
  <1>1. SUFFICES ASSUME geval.soort = "vraag", VraagGoed(vraag), vraag.answer_type # "instruction"
                 PROVE  (\E a \in Antwoorden(v.answer_type), n \in 0..v.max_files : ToetsAntwoord(v, a, n))
                          <=> ~Onmogelijk(v)
    BY Zenon DEF VraagBeantwoordbaar
  <1>2. DOMAIN vraag = Vraagvelden /\ (Gevuld(vraag.options) => vraag.options \in Seq(STRING))
    BY Zenon, <1>1, InvoerVormen DEF Vormen
  <1> HIDE DEF vraag
  <1>3. Opgeslagen(v) /\ v.answer_type # "instruction"
    BY <1>1, <1>2, Opslaan
  <1>4. Beantwoordbaar(v) <=> ~Onmogelijk(v)
    BY Zenon, <1>1, <1>2, VraagTeBeantwoorden
  <1> HIDE DEF v
  <1>5. ASSUME NEW a \in Antwoorden(v.answer_type), NEW n \in 0..v.max_files, ToetsAntwoord(v, a, n)
        PROVE  Beantwoordbaar(v)
    <2>1. n \in Nat
      OBVIOUS
    <2> QED BY Zenon, <1>5, <2>1, AntwoordFeit DEF Beantwoordbaar
  <1>6. ASSUME Beantwoordbaar(v)
        PROVE  \E a \in Antwoorden(v.answer_type), n \in 0..v.max_files : ToetsAntwoord(v, a, n)
    <2>0. PICK a : \E n \in Nat : IsAntwoord(a) /\ ToetsAntwoord(v, a, n)
      BY Zenon, <1>6 DEF Beantwoordbaar
    <2>1. PICK n \in Nat : IsAntwoord(a) /\ ToetsAntwoord(v, a, n)
      BY Zenon, <2>0
    <2>2. n <= v.max_files /\ v.max_files \in Nat
      BY <1>3, <2>1 DEF ToetsAntwoord, Opgeslagen
    <2>3. n \in 0..v.max_files
      BY <2>2
    <2>4. \E b \in Antwoorden(v.answer_type) : ToetsAntwoord(v, b, n)
      BY Zenon, <1>3, <2>1, VanAlles
    <2> QED BY Zenon, <2>3, <2>4
  <1> QED BY Zenon, <1>4, <1>5, <1>6

(* Invoer!VraagBeantwoordbaar, when every answer can be given: a question  *)
(* that valideerVragenlijst takes in can be answered exactly when it is    *)
(* none of Onmogelijk.  With fewer answers it may lack the one that fits.  *)
THEOREM VragenBeantwoordbaar ==
    ASSUME Alles
    PROVE  InvoerSpec => []VraagBeantwoordbaar
  <1> DEFINE Inv == geval.soort = "vraag" => geval.vraag \in Vraagvormen
  <1>1. InvoerInit => Inv
    BY DEF InvoerInit
  <1>2. Inv /\ [InvoerNext]_geval => Inv'
    <2> SUFFICES ASSUME Inv, [InvoerNext]_geval
                 PROVE  Inv'
      OBVIOUS
    <2>1. CASE LeesVraag
      BY <2>1 DEF LeesVraag
    <2>2. CASE VulIn
      <3>1. PICK f : \E vrij : geval' = Ingevuld(f, vrij)
        BY Zenon, <2>2 DEF VulIn, Ingevuld
      <3>2. geval'.soort = "formulier"
        BY <3>1 DEF Ingevuld
      <3> QED BY <3>2
    <2>3. CASE Beantwoord \/ LeesTabel \/ LeesBedrag \/ LeesLeveranciers \/ LeesDatum \/ LeesContract
               \/ LeesKoppen \/ Upload \/ Benoem
      BY <2>3 DEF Beantwoord, LeesTabel, LeesBedrag, LeesLeveranciers, LeesDatum, LeesContract, LeesKoppen,
         Upload, Benoem
    <2>4. CASE geval' = geval
      BY <2>4
    <2> QED BY Zenon, <2>1, <2>2, <2>3, <2>4 DEF InvoerNext
  <1>3. Inv => VraagBeantwoordbaar
    BY Zenon, VraagGeval
  <1> QED BY <1>1, <1>2, <1>3, PTL DEF InvoerSpec

-----------------------------------------------------------------------------
(* Files with suppliers.                                                   *)
LEMMA AantalInBestand == \A S : B!Cardinality(S) = Cardinality(S)
  BY Zenon DEF B!Cardinality, Cardinality

(* The supplier a row is about.                                            *)
Wie(r, i) == IF r[i].kvk # "" THEN <<r[i].kvk>> ELSE <<"", r[i].name>>
Genoemd(r) == {i \in DOMAIN r : r[i].name # ""}
Goed(r) == {i \in DOMAIN r : B!Importeerbaar(B!Leveranciersbevindingen(r, i))}

LEMMA ImporteerbaarFeit ==
    ASSUME NEW r, NEW i \in DOMAIN r
    PROVE  i \in Goed(r) <=> r[i].name # "" /\ ~B!Dubbel(r, i)
  <1> DEFINE leeg == ""   S == B!Leveranciersbevindingen(r, i)
  <1>1. S = {b \in {"naam_ontbreekt", "dubbel_in_bestand", "waarschuwing"} :
              CASE b = "naam_ontbreekt"    -> r[i].name = leeg
                [] b = "dubbel_in_bestand" -> B!Dubbel(r, i)
                [] b = "waarschuwing"      -> r[i].waarschuwing}
    BY Zenon DEF B!Leveranciersbevindingen
  <1> HIDE DEF leeg, S
  <1>2. "naam_ontbreekt" \in S <=> r[i].name = leeg
    BY Zenon, <1>1
  <1>3. "dubbel_in_bestand" \in S <=> B!Dubbel(r, i)
    BY Zenon, <1>1
  <1>4. S \subseteq {"naam_ontbreekt", "dubbel_in_bestand", "waarschuwing"}
    BY Zenon, <1>1
  <1>5. B!Importeerbaar(S) <=> "naam_ontbreekt" \notin S /\ "dubbel_in_bestand" \notin S
    BY <1>4 DEF B!Importeerbaar
  <1> QED BY Zenon, <1>2, <1>3, <1>5 DEF Goed, S, leeg

LEMMA SleutelWie ==
    ASSUME NEW r, NEW i, NEW j
    PROVE  B!Sleutel(r[i]) = B!Sleutel(r[j]) <=> Wie(r, i) = Wie(r, j)
  <1> DEFINE leeg == ""
  <1>1. /\ Wie(r, i) = IF r[i].kvk # leeg THEN <<r[i].kvk>> ELSE <<leeg, r[i].name>>
        /\ Wie(r, j) = IF r[j].kvk # leeg THEN <<r[j].kvk>> ELSE <<leeg, r[j].name>>
    BY Zenon DEF Wie
  <1>2. /\ B!Sleutel(r[i]) = IF r[i].kvk # leeg THEN <<"kvk", r[i].kvk>> ELSE <<"naam", r[i].name>>
        /\ B!Sleutel(r[j]) = IF r[j].kvk # leeg THEN <<"kvk", r[j].kvk>> ELSE <<"naam", r[j].name>>
    BY Zenon DEF B!Sleutel
  <1> HIDE DEF leeg
  <1>3. \A x, y, z, w : /\ <<x>> = <<y>> <=> x = y
                        /\ <<x, y>> = <<z, w>> <=> x = z /\ y = w
                        /\ <<x>> # <<y, z>> /\ <<y, z>> # <<x>>
    OBVIOUS
  <1> QED BY <1>1, <1>2, <1>3

(* Exactly the first row about a supplier is imported.                     *)
LEMMA EersteRij ==
    ASSUME NEW r, r \in Seq(ToSet(r)), NEW i \in DOMAIN r
    PROVE  i \in Goed(r) <=> i \in Genoemd(r) /\ \A j \in Genoemd(r) : Wie(r, j) = Wie(r, i) => i <= j
  <1> DEFINE leeg == ""   n == Len(r)
  <1>1. n \in Nat /\ DOMAIN r = 1..n
    OBVIOUS
  <1>2. B!Dubbel(r, i) <=> r[i].name # leeg /\ \E j \in 1..(i - 1) :
                             r[j].name # leeg /\ Wie(r, j) = Wie(r, i)
    BY Zenon, SleutelWie DEF B!Dubbel
  <1>3. i \in Goed(r) <=> r[i].name # leeg /\ ~B!Dubbel(r, i)
    BY Zenon, ImporteerbaarFeit
  <1>4. \A j : j \in Genoemd(r) <=> j \in DOMAIN r /\ r[j].name # leeg
    BY Zenon DEF Genoemd
  <1> HIDE DEF leeg, n
  <1> QED BY <1>1, <1>2, <1>3, <1>4

LEMMA EersteRijen ==
    ASSUME NEW r, r \in Seq(ToSet(r))
    PROVE  Goed(r) = {i \in Genoemd(r) : \A j \in Genoemd(r) : Wie(r, j) = Wie(r, i) => i <= j}
  <1>1. Goed(r) \subseteq DOMAIN r /\ Genoemd(r) \subseteq DOMAIN r
    BY Zenon DEF Goed, Genoemd
  <1>2. \A i \in DOMAIN r : i \in Goed(r) <=> i \in Genoemd(r) /\ \A j \in Genoemd(r) : Wie(r, j) = Wie(r, i) => i <= j
    BY Zenon, EersteRij
  <1> QED BY Zenon, <1>1, <1>2

LEMMA LeverancierEenmaal ==
    ASSUME NEW r, r \in Seq(ToSet(r))
    PROVE  /\ {Wie(r, i) : i \in Goed(r)} = {Wie(r, i) : i \in Genoemd(r)}
           /\ Cardinality({Wie(r, i) : i \in Goed(r)}) = Cardinality(Goed(r))
  <1> DEFINE S == Goed(r)   G == Genoemd(r)   T == {Wie(r, i) : i \in S}
             f == [i \in S |-> Wie(r, i)]
  <1>1. DOMAIN r = 1..Len(r) /\ Len(r) \in Nat
    OBVIOUS
  <1>2. S \subseteq DOMAIN r /\ G \subseteq DOMAIN r /\ G \subseteq Nat
    <2>1. S \subseteq DOMAIN r /\ G \subseteq DOMAIN r
      BY Zenon DEF Goed, Genoemd
    <2> HIDE DEF S, G
    <2> QED BY <1>1, <2>1
  <1>3. ASSUME NEW i \in G
        PROVE  \E j \in S : Wie(r, j) = Wie(r, i)
    <2> DEFINE K == {j \in G : Wie(r, j) = Wie(r, i)}
    <2>1. K \in SUBSET Nat /\ K # {}
      BY <1>2
    <2>2. PICK j \in K : \A k \in K : j <= k
      BY <2>1, EersteGetal
    <2>3. j \in S
      BY <1>2, <2>2, EersteRij
    <2> QED BY <2>2, <2>3
  <1>4. S \subseteq G
    BY <1>2, EersteRij
  <1>5. \A i, j \in S : Wie(r, i) = Wie(r, j) => i = j
    <2> SUFFICES ASSUME NEW i \in S, NEW j \in S, Wie(r, i) = Wie(r, j)
                 PROVE  i = j
      OBVIOUS
    <2>1. i <= j /\ j <= i
      BY <1>2, <1>4, EersteRij
    <2> QED BY <1>1, <1>2, <2>1
  <1>6. T = {Wie(r, i) : i \in G}
    <2> HIDE DEF S, G
    <2> QED BY <1>3, <1>4
  <1>7. f \in Surjection(S, T) /\ f \in Injection(S, T)
    <2> HIDE DEF S
    <2> QED BY <1>5 DEF Surjection, Injection, IsInjective
  <1>8. IsFiniteSet(S)
    <2>1. IsFiniteSet(1..Len(r))
      BY <1>1, FS_Interval
    <2> QED BY <1>1, <1>2, <2>1, FS_Subset
  <1> HIDE DEF f, T, S, G
  <1>9. Cardinality(T) = Cardinality(S)
    BY Zenon, <1>7, <1>8, FS_Surjection
  <1> QED BY Zenon, <1>6, <1>9 DEF T, S, G

LEMMA TellingFeit ==
    ASSUME NEW r, r \in Seq(ToSet(r))
    PROVE  LET t == B!Samenvatting([i \in DOMAIN r |-> B!Leveranciersbevindingen(r, i)]) IN
           /\ t.totaal = Len(r) /\ t.importeerbaar + t.geblokkeerd = Len(r)
           /\ t.metWaarschuwing <= t.importeerbaar
           /\ t.importeerbaar =
                Cardinality({i \in DOMAIN r : B!Importeerbaar([j \in DOMAIN r |-> B!Leveranciersbevindingen(r, j)][i])})
  <1> DEFINE b == [i \in DOMAIN r |-> B!Leveranciersbevindingen(r, i)]   D == DOMAIN r
             P == {i \in D : B!Importeerbaar(b[i])}   Q == {i \in D : ~B!Importeerbaar(b[i])}
             W == {i \in D : B!Importeerbaar(b[i]) /\ b[i] # {}}   t == B!Samenvatting(b)
  <1>1. D = 1..Len(r) /\ Len(r) \in Nat /\ DOMAIN b = D
    OBVIOUS
  <1> HIDE DEF b
  <1>2. t = [totaal |-> Cardinality(D), importeerbaar |-> Cardinality(P),
             geblokkeerd |-> Cardinality(Q), metWaarschuwing |-> Cardinality(W)]
    BY Zenon, <1>1, AantalInBestand DEF B!Samenvatting
  <1>3. /\ t.totaal = Cardinality(D) /\ t.importeerbaar = Cardinality(P)
        /\ t.geblokkeerd = Cardinality(Q) /\ t.metWaarschuwing = Cardinality(W)
    BY <1>2
  <1>4. IsFiniteSet(D) /\ Cardinality(D) = Len(r)
    BY <1>1, FS_Interval
  <1>5. P \subseteq D /\ W \subseteq P /\ Q = D \ P /\ D \cap P = P
    OBVIOUS
  <1> HIDE DEF D, P, Q, W, t
  <1>6. IsFiniteSet(P) /\ Cardinality(W) <= Cardinality(P)
    BY <1>4, <1>5, FS_Subset
  <1>7. Cardinality(Q) = Cardinality(D) - Cardinality(P)
    <2>1. Cardinality(D \ P) = Cardinality(D) - Cardinality(D \cap P)
      BY Zenon, <1>4, FS_Difference
    <2> QED BY Zenon, <1>5, <2>1
  <1>8. Cardinality(P) \in Nat
    BY <1>6, FS_CardinalityType
  <1>9. t.totaal = Len(r) /\ t.importeerbaar + t.geblokkeerd = Len(r) /\ t.metWaarschuwing <= t.importeerbaar
    BY <1>1, <1>3, <1>4, <1>6, <1>7, <1>8
  <1> QED BY Zenon, <1>3, <1>9 DEF t, b, P, D

LEMMA BevindingenZo ==
    ASSUME NEW r
    PROVE  {i \in DOMAIN r : B!Importeerbaar([j \in DOMAIN r |-> B!Leveranciersbevindingen(r, j)][i])} = Goed(r)
  <1> DEFINE b == [j \in DOMAIN r |-> B!Leveranciersbevindingen(r, j)]
  <1>1. \A i \in DOMAIN r : b[i] = B!Leveranciersbevindingen(r, i)
    OBVIOUS
  <1> HIDE DEF b
  <1>2. {i \in DOMAIN r : B!Importeerbaar(b[i])} = Goed(r)
    BY Zenon, <1>1 DEF Goed
  <1> QED BY Zenon, <1>2 DEF b

LEMMA LeveranciersGeval ==
    ASSUME geval.soort = "leveranciers" => geval.rijen \in Leveranciers
    PROVE  LeveranciersGelezen
  <1> DEFINE r == geval.rijen   bevindingen == [i \in DOMAIN r |-> B!Leveranciersbevindingen(r, i)]
             goed == {i \in DOMAIN r : B!Importeerbaar(bevindingen[i])}
             telling == B!Samenvatting(bevindingen)
  <1>1. SUFFICES ASSUME geval.soort = "leveranciers"
                 PROVE  LeveranciersGelezen
    BY Zenon DEF LeveranciersGelezen
  <1>2. r \in Seq(ToSet(r))
    BY Zenon, <1>1, InvoerVormen DEF Vormen
  <1>3. goed = Goed(r)
    BY Zenon, BevindingenZo
  <1>4. /\ telling.totaal = Len(r) /\ telling.importeerbaar + telling.geblokkeerd = Len(r)
        /\ telling.metWaarschuwing <= telling.importeerbaar
        /\ telling.importeerbaar = Cardinality(goed)
    BY Zenon, <1>2, TellingFeit
  <1>5. goed = {i \in Genoemd(r) : \A j \in Genoemd(r) : Wie(r, j) = Wie(r, i) => i <= j}
    BY Zenon, <1>2, <1>3, EersteRijen
  <1>6. telling.importeerbaar = Cardinality({Wie(r, i) : i \in Genoemd(r)})
    BY Zenon, <1>2, <1>3, <1>4, LeverancierEenmaal
  <1> QED BY Zenon, <1>1, <1>4, <1>5, <1>6 DEF LeveranciersGelezen, Wie, Genoemd

(* Invoer!LeveranciersGelezen, for files of any length: of the rows with a *)
(* name about one supplier exactly the first is imported, one for each     *)
(* supplier, and the counts of the summary add up.                         *)
THEOREM LeverancierEenmaalGelezen ==
    InvoerSpec => []LeveranciersGelezen
  <1> DEFINE Inv == geval.soort = "leveranciers" => geval.rijen \in Leveranciers
  <1>1. InvoerInit => Inv
    BY DEF InvoerInit
  <1>2. Inv /\ [InvoerNext]_geval => Inv'
    <2> SUFFICES ASSUME Inv, [InvoerNext]_geval
                 PROVE  Inv'
      OBVIOUS
    <2>1. CASE LeesLeveranciers
      BY <2>1 DEF LeesLeveranciers
    <2>2. CASE VulIn
      <3>1. PICK f : \E vrij : geval' = Ingevuld(f, vrij)
        BY Zenon, <2>2 DEF VulIn, Ingevuld
      <3>2. geval'.soort = "formulier"
        BY <3>1 DEF Ingevuld
      <3> QED BY <3>2
    <2>3. CASE Beantwoord \/ LeesTabel \/ LeesBedrag \/ LeesVraag \/ LeesDatum \/ LeesContract
               \/ LeesKoppen \/ Upload \/ Benoem
      BY <2>3 DEF Beantwoord, LeesTabel, LeesBedrag, LeesVraag, LeesDatum, LeesContract, LeesKoppen,
         Upload, Benoem
    <2>4. CASE geval' = geval
      BY <2>4
    <2> QED BY Zenon, <2>1, <2>2, <2>3, <2>4 DEF InvoerNext
  <1>3. Inv => LeveranciersGelezen
    BY Zenon, LeveranciersGeval
  <1> QED BY <1>1, <1>2, <1>3, PTL DEF InvoerSpec
=============================================================================
