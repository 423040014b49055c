---------------------------- MODULE Leveranciers ----------------------------
(***************************************************************************)
(* Suppliers, their contacts and contracts, the lists that are always      *)
(* replaced as a whole (compliance themes, a contract's questionnaires and *)
(* areas), and the categories and areas a tenant keeps itself              *)
(* (VendorService, ContractService, VendorCategoryService,                 *)
(* WerkingsgebiedService).                                                 *)
(*                                                                         *)
(* Rows carry what the properties tell apart: whether there is a row, live *)
(* or soft deleted; whose it is; a supplier's KvK number and category;     *)
(* which contact is the primary one; the contact a contract names.  Names, *)
(* dates, amounts and the waiting-list mark are left out, and so are reads *)
(* alone.                                                                  *)
(***************************************************************************)
EXTENDS Transacties

CONSTANTS
    Leveranciers, Contacten, Contracten,  \* keys of the rows of each table
    KvkNummers,
    Koppelrijen,     \* the rows the list tables can hold
    LijstVan,        \* the list each of them belongs to
    EigenaarVan,     \* the supplier or contract each list is of
    Categorieen, Gebieden,  \* the codes of categories and areas
    CodeVan,         \* the area a row of a list names, or Geen
    BeginRij         \* the rows at the start

Lijsten == {LijstVan[x] : x \in Koppelrijen}
Codes == Categorieen \cup Gebieden
RijSleutels == Leveranciers \cup Contacten \cup Contracten \cup Koppelrijen \cup Codes

(* Each table has keys of its own.                                         *)
ASSUME LeveranciersSleutels ==
    /\ Leveranciers \cap (Contacten \cup Contracten \cup Koppelrijen \cup Codes) = {}
    /\ Contacten \cap (Contracten \cup Koppelrijen \cup Codes) = {}
    /\ Contracten \cap (Koppelrijen \cup Codes) = {} /\ Koppelrijen \cap Codes = {}
    /\ Geen \notin RijSleutels

VARIABLES
    samen,      \* suppliers and lists two transactions have worked on at the same time
    uitgezet,   \* suppliers of which a contact was told not to be primary
    wens        \* per list, what the last committed request asked for

vars == <<rij, verzoek, samen, uitgezet, wens>>

GeenRij == [stand |-> "geen", van |-> Geen, kvk |-> Geen, code |-> Geen,
           primair |-> FALSE, contact |-> Geen]

RijSoort ==
    [stand : {"geen", "live", "weg"}, van : Leveranciers \cup {Geen},
     kvk : KvkNummers \cup {Geen}, code : Categorieen \cup {Geen},
     primair : BOOLEAN, contact : Contacten \cup {Geen}]

NieuweLeverancier(kvk, code) == [GeenRij EXCEPT !.stand = "live", !.kvk = kvk, !.code = code]
(* Mutant of NieuwContact: is_primary left open.                           *)
NieuwContactOpen(l, primair) ==
    [GeenRij EXCEPT !.stand = "live", !.van = l, !.primair = Geen]
NieuwContact(l, primair) ==
    [GeenRij EXCEPT !.stand = "live", !.van = l, !.primair = primair]
NieuwContract(l, c) == [GeenRij EXCEPT !.stand = "live", !.van = l, !.contact = c]

Heeft(l, c) == BeginRij[c].van = l /\ BeginRij[c].stand = "live"

(* At the start the database is as its foreign keys, and requests that did *)
(* not overlap, leave it.                                                  *)
ASSUME LeveranciersBegin ==
    /\ BeginRij \in [RijSleutels -> RijSoort]
    /\ \A r \in RijSleutels : BeginRij[r].stand = "geen" => BeginRij[r] = GeenRij
    /\ \A r \in RijSleutels \ Leveranciers : BeginRij[r].code = Geen
    /\ \A c \in Contacten \cup Contracten : BeginRij[c].stand # "geen" =>
         BeginRij[c].van \in Leveranciers /\ BeginRij[BeginRij[c].van].stand # "geen"
    /\ \A l \in Leveranciers :
         /\ BeginRij[l].stand = "weg" => \A c \in Contacten : ~ Heeft(l, c)
         /\ BeginRij[l].code # Geen => BeginRij[BeginRij[l].code].stand = "live"
         /\ \A c \in Contacten : Heeft(l, c) =>
              \E d \in Contacten : Heeft(l, d) /\ BeginRij[d].primair
         /\ \A c, d \in Contacten : Heeft(l, c) /\ Heeft(l, d)
              /\ BeginRij[c].primair /\ BeginRij[d].primair => c = d
    /\ \A y \in Koppelrijen : BeginRij[y].stand # "geen" /\ CodeVan[y] # Geen =>
         BeginRij[CodeVan[y]].stand = "live"

InvoerSoort ==
    [bij : Leveranciers \cup Lijsten \cup Codes, doel : RijSleutels \cup {Geen},
     kvk : KvkNummers \cup {Geen}, code : Categorieen \cup {Geen},
     primair : BOOLEAN, contact : Contacten \cup {Geen}, wens : SUBSET Koppelrijen]
Vraag(l) == [bij |-> l, doel |-> Geen, kvk |-> Geen, code |-> Geen, primair |-> FALSE,
             contact |-> Geen, wens |-> {}]

Init ==
    /\ rij = BeginRij
    /\ verzoek = [q \in Verzoeken |-> NieuwVerzoek]
    /\ samen = {} /\ uitgezet = {}
    /\ wens = [x \in Lijsten |->
         {y \in Koppelrijen : LijstVan[y] = x /\ BeginRij[y].stand = "live"}]

-----------------------------------------------------------------------------
(* What the statements look at.                                            *)

Live(q, r) == Zicht(q)[r].stand = "live"

(* Mutant of ContactenVan: only the primary ones.                          *)
ContactenPrimair(q, l) ==
    {c \in Contacten : Live(q, c) /\ rij[c].van = l /\ rij[c].primair}
ContactenVan(q, l) == {c \in Contacten : Live(q, c) /\ rij[c].van = l}

(* Mutant of PrimairBij: nobody loses the mark.                            *)
PrimairNooit(q, l) == {}

(* is_primary = true, whether deleted or not.                              *)
PrimairBij(q, l) == {c \in Contacten : Zicht(q)[c].van = l /\ Zicht(q)[c].primair}

(* A live supplier other than l has the number.                            *)
KvkBekend(q, l, kvk) ==
    kvk # Geen /\ \E x \in Leveranciers \ {l} : Live(q, x) /\ Zicht(q)[x].kvk = kvk

(* The unique index on tenant and kvk_number, which counts deleted rows    *)
(* too.  A key another open transaction wrote is waited for.               *)
KvkWacht(q, l, kvk) ==
    kvk # Geen /\ \E p \in Verzoeken \ {q} : \E x \in DOMAIN verzoek[p].schrijf \ {l} :
                    verzoek[p].schrijf[x].kvk = kvk
KvkVrij(l, kvk) == kvk = Geen \/ \A x \in Leveranciers \ {l} : rij[x].kvk # kvk

In(q) == verzoek[q].invoer

(* The codes a request's next statement refers to.                         *)
Genoemd(q) ==
    (IF verzoek[q].pc = "leverancier" THEN {In(q).code} ELSE {CodeVan[y] : y \in In(q).wens}) \ {Geen}

(* The foreign key: the codes are there and nobody is deleting them.       *)
CodesBekend(q) == \A c \in Genoemd(q) : rij[c].stand = "live"
CodesVrij(q) == Vrij(q, Genoemd(q))

(* Whether row r, being w, refers to the code c.                           *)
Verwijst(r, w, c) ==
    w.stand # "geen" /\ (w.code = c \/ (r \in Koppelrijen /\ CodeVan[r] = c))

(* The committed rows that refer to c, and whether an open transaction     *)
(* wrote another.                                                          *)
Verwijzend(c) == {r \in Leveranciers \cup Koppelrijen : Verwijst(r, rij[r], c)}
WordtVerwezen(q, c) ==
    \E p \in Verzoeken \ {q} :
      \E r \in DOMAIN verzoek[p].schrijf : Verwijst(r, verzoek[p].schrijf[r], c)

(* A key for a new row: gen_random_uuid gives each request another one.    *)
Nieuw(r) == rij[r].stand = "geen" /\ \A p \in Lopend : r \notin {In(p).bij, In(p).doel}

(* The requests that change contacts or lists.                             *)
Raakt == {"verwijder", "voegContactToe", "wijzigContact", "verwijderContact", "vervang"}

(* BEGIN, noting whether another request is changing the contacts or the   *)
(* list of the same x.                                                     *)
Begint2(q, op, x, invoer, pc) ==
    /\ Begint(q, op, invoer, pc)
    /\ samen' = IF op \in Raakt /\ \E p \in Lopend : In(p).bij = x /\ verzoek[p].op \in Raakt
                THEN samen \cup {x} ELSE samen

Op(q, op, pc) == verzoek[q].op = op /\ verzoek[q].pc = pc
Blijft == UNCHANGED <<rij, samen, uitgezet, wens>>

-----------------------------------------------------------------------------
(* Suppliers.                                                              *)

(* VendorService.maakAan, up to its look for a supplier with this number.  *)
MaakAan(q, l, c, kvk, code) ==
    /\ Nieuw(l) /\ (c # Geen => Nieuw(c))
    /\ Begint2(q, "maakAan", l,
               [Vraag(l) EXCEPT !.doel = c, !.kvk = kvk, !.code = code], "kvk")
    /\ UNCHANGED <<rij, uitgezet, wens>>

(* VendorService.wijzig, up to its look for the supplier.                  *)
Wijzig(q, l, kvk, code) ==
    /\ Begint2(q, "wijzig", l, [Vraag(l) EXCEPT !.kvk = kvk, !.code = code], "kvk")
    /\ rij[l].stand = "live"
    /\ UNCHANGED <<rij, uitgezet, wens>>

(* SELECT name ... WHERE kvk_number = ... AND deleted_at IS NULL.          *)
ZoekKvk(q) ==
    /\ verzoek[q].pc = "kvk"
    /\ IF KvkBekend(q, In(q).bij, In(q).kvk) THEN Weigert(q) ELSE Naar(q, "leverancier")
    /\ Blijft

(* INSERT INTO clm.vendor and its contact, which is the primary one.       *)
SchrijfNieuwe(q) ==
    LET l == In(q).bij   c == In(q).doel IN
    /\ Op(q, "maakAan", "leverancier")
    /\ ~ KvkWacht(q, l, In(q).kvk) /\ KvkVrij(l, In(q).kvk)
    /\ CodesVrij(q) /\ CodesBekend(q)
    /\ Schrijft(q, {l, c} \ {Geen},
                [r \in {l, c} |-> IF r = l THEN NieuweLeverancier(In(q).kvk, In(q).code)
                                  ELSE NieuwContact(l, TRUE)], "commit")
    /\ Blijft

(* UPDATE clm.vendor WHERE vendor_id: deleted_at is not looked at again.   *)
SchrijfWijziging(q) ==
    LET l == In(q).bij IN
    /\ Op(q, "wijzig", "leverancier")
    /\ ~ KvkWacht(q, l, In(q).kvk) /\ KvkVrij(l, In(q).kvk)
    /\ CodesVrij(q) /\ CodesBekend(q)
    /\ Schrijft(q, {l}, [r \in {l} |-> [rij[l] EXCEPT !.kvk = In(q).kvk,
                                                            !.code = In(q).code]], "commit")
    /\ Blijft

(* The unique index refuses the number (23505), which is a status 500.     *)
KvkGeweigerd(q) ==
    /\ verzoek[q].pc = "leverancier"
    /\ ~ KvkWacht(q, In(q).bij, In(q).kvk) /\ ~ KvkVrij(In(q).bij, In(q).kvk)
    /\ verzoek' = [verzoek EXCEPT ![q] = [NieuwVerzoek EXCEPT !.pc = "dubbel"]]
    /\ Blijft

(* The foreign key refuses a code (23503): an unknown category, an unknown *)
(* area, status 400.                                                       *)
CodeOnbekend(q) ==
    /\ \/ verzoek[q].pc = "leverancier" /\ KvkVrij(In(q).bij, In(q).kvk)
       \/ verzoek[q].pc = "lijstNieuw"
    /\ CodesVrij(q) /\ ~ CodesBekend(q)
    /\ Weigert(q)
    /\ Blijft

(* VendorService.verwijder: the supplier, if it is live, then its contacts.*)
Verwijder(q, l) ==
    /\ rij[l].stand # "geen"
    /\ Begint2(q, "verwijder", l, Vraag(l), "leverancierWeg")
    /\ UNCHANGED <<rij, uitgezet, wens>>

SchrijfVerwijderd(q) ==
    LET l == In(q).bij IN
    /\ Op(q, "verwijder", "leverancierWeg")
    /\ Vrij(q, {l})
    /\ IF Live(q, l)
       THEN Schrijft(q, {l}, [r \in {l} |-> [rij[l] EXCEPT !.stand = "weg"]], "contacten")
       ELSE Weigert(q)
    /\ Blijft

KiesContacten(q) ==
    /\ Op(q, "verwijder", "contacten")
    /\ Kiest(q, ContactenVan(q, In(q).bij), "contactenWeg")
    /\ Blijft

SchrijfContactenWeg(q) ==
    LET R == {c \in verzoek[q].gekozen : Live(q, c)} IN
    /\ Op(q, "verwijder", "contactenWeg")
    /\ Vrij(q, verzoek[q].gekozen)
    /\ Schrijft(q, R, [c \in R |-> [rij[c] EXCEPT !.stand = "weg"]], "commit")
    /\ Blijft

-----------------------------------------------------------------------------
(* Contacts.  There is at most one primary contact; no constraint of the   *)
(* database says so.                                                       *)

(* VendorService.voegContactToe: the supplier is live, and the first       *)
(* contact becomes the primary one.                                        *)
VoegContactToe(q, l, c, primair) ==
    /\ Nieuw(c) /\ rij[l].stand = "live"
    /\ LET wordt == primair \/ \A x \in Contacten : rij[x].van = l => rij[x].stand # "live" IN
       Begint2(q, "voegContactToe", l, [Vraag(l) EXCEPT !.doel = c, !.primair = wordt],
               IF wordt THEN "anderen" ELSE "contact")
    /\ UNCHANGED <<rij, uitgezet, wens>>

(* VendorService.wijzigContact, with isPrimary given.                      *)
WijzigContact(q, c, primair) ==
    LET l == rij[c].van IN
    /\ rij[c].stand = "live"
    /\ Begint2(q, "wijzigContact", l, [Vraag(l) EXCEPT !.doel = c, !.primair = primair],
               IF primair THEN "anderen" ELSE "contact")
    /\ uitgezet' = IF primair THEN uitgezet ELSE uitgezet \cup {l}
    /\ UNCHANGED <<rij, wens>>

(* UPDATE ... SET is_primary = false on every (other) primary contact.     *)
KiesAnderen(q) ==
    /\ verzoek[q].pc = "anderen"
    /\ Kiest(q, PrimairBij(q, In(q).bij) \ {In(q).doel}, "anderenUit")
    /\ Blijft

SchrijfAnderen(q) ==
    LET R == {c \in verzoek[q].gekozen : Zicht(q)[c].primair} IN
    /\ verzoek[q].pc = "anderenUit"
    /\ Vrij(q, verzoek[q].gekozen)
    /\ Schrijft(q, R, [c \in R |-> [rij[c] EXCEPT !.primair = FALSE]], "contact")
    /\ Blijft

SchrijfContact(q) ==
    LET c == In(q).doel IN
    /\ verzoek[q].pc = "contact"
    /\ Schrijft(q, {c}, [r \in {c} |-> IF verzoek[q].op = "voegContactToe"
                                       THEN NieuwContact(In(q).bij, In(q).primair)
                                       ELSE [rij[c] EXCEPT !.primair = In(q).primair]], "commit")
    /\ Blijft

(* VendorService.verwijderContact: if it was the primary one, the oldest   *)
(* contact left takes its place.                                           *)
VerwijderContact(q, c) ==
    /\ rij[c].stand # "geen"
    /\ Begint2(q, "verwijderContact", rij[c].van,
               [Vraag(rij[c].van) EXCEPT !.doel = c], "contactWeg")
    /\ UNCHANGED <<rij, uitgezet, wens>>

SchrijfContactWeg(q) ==
    LET c == In(q).doel IN
    /\ verzoek[q].pc = "contactWeg"
    /\ Vrij(q, {c})
    /\ IF Live(q, c)
       THEN Schrijft(q, {c}, [r \in {c} |-> [rij[c] EXCEPT !.stand = "weg"]],
                     IF rij[c].primair THEN "opvolger" ELSE "commit")
       ELSE Weigert(q)
    /\ Blijft

(* Any live contact stands for the oldest: no property tells them apart.   *)
KiesOpvolger(q) ==
    LET K == ContactenVan(q, In(q).bij) IN
    /\ verzoek[q].pc = "opvolger"
    /\ \/ K = {} /\ Kiest(q, {}, "opvolgerAan")
       \/ \E c \in K : Kiest(q, {c}, "opvolgerAan")
    /\ Blijft

(* WHERE contact_id = (the one picked): deleted_at is not looked at again. *)
SchrijfOpvolger(q) ==
    LET R == verzoek[q].gekozen IN
    /\ verzoek[q].pc = "opvolgerAan"
    /\ Schrijft(q, R, [c \in R |-> [rij[c] EXCEPT !.primair = TRUE]], "commit")
    /\ Blijft

-----------------------------------------------------------------------------
(* Contracts.                                                              *)

(* ContractService.maakAan: the supplier is live when it is looked at.     *)
MaakContract(q, l, k, c) ==
    /\ Nieuw(k) /\ rij[l].stand = "live"
    /\ Begint2(q, "maakContract", l,
               [Vraag(l) EXCEPT !.doel = k, !.contact = c], "contract")
    /\ UNCHANGED <<rij, uitgezet, wens>>

(* ContractService.wijzig, of the contact the contract names.              *)
WijzigContract(q, k, c) ==
    /\ rij[k].stand = "live"
    /\ Begint2(q, "wijzigContract", rij[k].van,
               [Vraag(rij[k].van) EXCEPT !.doel = k, !.contact = c], "contract")
    /\ UNCHANGED <<rij, uitgezet, wens>>

SchrijfContract(q) ==
    LET k == In(q).doel IN
    /\ verzoek[q].pc = "contract"
    /\ Schrijft(q, {k}, [r \in {k} |-> IF verzoek[q].op = "maakContract"
                                       THEN NieuwContract(In(q).bij, In(q).contact)
                                       ELSE [rij[k] EXCEPT !.contact = In(q).contact]], "commit")
    /\ Blijft

(* ContractService.verwijder.                                              *)
VerwijderContract(q, k) ==
    /\ rij[k].stand # "geen"
    /\ Begint2(q, "verwijderContract", rij[k].van,
               [Vraag(rij[k].van) EXCEPT !.doel = k], "contractWeg")
    /\ UNCHANGED <<rij, uitgezet, wens>>

SchrijfContractWeg(q) ==
    LET k == In(q).doel IN
    /\ verzoek[q].pc = "contractWeg"
    /\ Vrij(q, {k})
    /\ IF Live(q, k)
       THEN Schrijft(q, {k}, [r \in {k} |-> [rij[k] EXCEPT !.stand = "weg"]], "commit")
       ELSE Weigert(q)
    /\ Blijft

-----------------------------------------------------------------------------
(* The lists that are replaced: zetComplianceThemas, zetSurveyTemplates    *)
(* and zetWerkingsgebieden delete every row and insert the ones asked for. *)

Vervang(q, x, W) ==
    /\ rij[EigenaarVan[x]].stand = "live"
    /\ Begint2(q, "vervang", x, [Vraag(x) EXCEPT !.wens = W], "lijst")
    /\ UNCHANGED <<rij, uitgezet, wens>>

(* Mutant of KiesLijst: deletes only what is asked for again.              *)
KiesLijstWens(q) ==
    /\ verzoek[q].pc = "lijst"
    /\ Kiest(q, {y \in In(q).wens : Live(q, y)}, "lijstWeg")
    /\ Blijft

KiesLijst(q) ==
    /\ verzoek[q].pc = "lijst"
    /\ Kiest(q, {y \in Koppelrijen : LijstVan[y] = In(q).bij /\ Live(q, y)}, "lijstWeg")
    /\ Blijft

(* Deletes what is still there of the rows its snapshot had, by key.       *)
(* PostgreSQL would leave a row that another request deleted and inserted  *)
(* again meanwhile, a new one to it; that needs another replacement of the *)
(* same list at the same time, of which LijstIsWens says nothing.          *)
SchrijfLijstWeg(q) ==
    LET R == {y \in verzoek[q].gekozen : Live(q, y)} IN
    /\ verzoek[q].pc = "lijstWeg"
    /\ Vrij(q, verzoek[q].gekozen)
    /\ Schrijft(q, R, [y \in R |-> GeenRij], "lijstNieuw")
    /\ Blijft

(* A row another request inserted meanwhile breaks the primary key; then   *)
(* this cannot happen and only Rollback is left.                           *)
SchrijfLijstNieuw(q) ==
    LET R == In(q).wens IN
    /\ verzoek[q].pc = "lijstNieuw"
    /\ \A y \in R : ~ Live(q, y)
    /\ CodesVrij(q) /\ CodesBekend(q)
    /\ Schrijft(q, R, [y \in R |-> [GeenRij EXCEPT !.stand = "live"]], "commit")
    /\ Blijft

-----------------------------------------------------------------------------
(* Categories and areas.                                                   *)

(* maakAan and verwijder of VendorCategoryService and WerkingsgebiedService.*)
MaakCode(q, c) ==
    /\ Begint2(q, "maakCode", c, Vraag(c), "code")
    /\ UNCHANGED <<rij, uitgezet, wens>>

(* A code that is there already breaks the primary key (23505).            *)
SchrijfCode(q) ==
    LET c == In(q).bij IN
    /\ verzoek[q].pc = "code"
    /\ Vrij(q, {c})
    /\ IF Live(q, c) THEN Weigert(q)
       ELSE Schrijft(q, {c}, [r \in {c} |-> [GeenRij EXCEPT !.stand = "live"]], "commit")
    /\ Blijft

VerwijderCode(q, c) ==
    /\ Begint2(q, "verwijderCode", c, Vraag(c), "codeWeg")
    /\ UNCHANGED <<rij, uitgezet, wens>>

(* DELETE, with what the foreign keys do: the rows of an area go with it   *)
(* (CASCADE); a supplier of the category has both columns of its key set   *)
(* to NULL, the tenant too, and that column refuses it: a status 500.      *)
(* Deleted suppliers count.                                                *)
SchrijfCodeWeg(q) ==
    LET c == In(q).bij   R == Verwijzend(c) IN
    /\ verzoek[q].pc = "codeWeg"
    /\ Vrij(q, {c} \cup R) /\ ~ WordtVerwezen(q, c)
    /\ CASE ~ Live(q, c)           -> Weigert(q)
         [] R \cap Leveranciers # {} ->
              verzoek' = [verzoek EXCEPT ![q] = [NieuwVerzoek EXCEPT !.pc = "gebruikt"]]
         [] OTHER -> Schrijft(q, {c} \cup R, [r \in {c} \cup R |-> GeenRij], "commit")
    /\ Blijft

-----------------------------------------------------------------------------
(* COMMIT.  Deleting an area takes it off the lists that were asked for.   *)
Vastleggen(q) ==
    /\ Commit(q)
    /\ wens' = CASE verzoek[q].op = "vervang" -> [wens EXCEPT ![In(q).bij] = In(q).wens]
                 [] verzoek[q].op = "verwijderCode" ->
                      [x \in Lijsten |-> {y \in wens[x] : CodeVan[y] # In(q).bij}]
                 [] OTHER -> wens
    /\ UNCHANGED <<samen, uitgezet>>

Terugdraaien(q) == Rollback(q) /\ UNCHANGED <<samen, uitgezet, wens>>

LeverancierVraag(q) ==
    \E l \in Leveranciers :
      \/ Verwijder(q, l)
      \/ \E kvk \in KvkNummers \cup {Geen}, code \in Categorieen \cup {Geen} :
           \/ Wijzig(q, l, kvk, code)
           \/ \E c \in Contacten \cup {Geen} : MaakAan(q, l, c, kvk, code)

ContactVraag(q) ==
    \E c \in Contacten :
      \/ VerwijderContact(q, c)
      \/ \E primair \in BOOLEAN :
           \/ WijzigContact(q, c, primair)
           \/ \E l \in Leveranciers : VoegContactToe(q, l, c, primair)

ContractVraag(q) ==
    \E k \in Contracten :
      \/ VerwijderContract(q, k)
      \/ \E c \in Contacten \cup {Geen} :
           \/ WijzigContract(q, k, c)
           \/ \E l \in Leveranciers : MaakContract(q, l, k, c)

LijstVraag(q) ==
    \E x \in Lijsten : \E W \in SUBSET {y \in Koppelrijen : LijstVan[y] = x} : Vervang(q, x, W)

CodeVraag(q) == \E c \in Codes : MaakCode(q, c) \/ VerwijderCode(q, c)

Stap(q) ==
    \/ ZoekKvk(q) \/ SchrijfNieuwe(q) \/ SchrijfWijziging(q) \/ KvkGeweigerd(q)
    \/ CodeOnbekend(q) \/ SchrijfCode(q) \/ SchrijfCodeWeg(q)
    \/ SchrijfVerwijderd(q) \/ KiesContacten(q) \/ SchrijfContactenWeg(q)
    \/ KiesAnderen(q) \/ SchrijfAnderen(q) \/ SchrijfContact(q)
    \/ SchrijfContactWeg(q) \/ KiesOpvolger(q) \/ SchrijfOpvolger(q)
    \/ SchrijfContract(q) \/ SchrijfContractWeg(q)
    \/ KiesLijst(q) \/ SchrijfLijstWeg(q) \/ SchrijfLijstNieuw(q)
    \/ Vastleggen(q)

Next ==
    \E q \in Verzoeken :
      \/ LeverancierVraag(q) \/ ContactVraag(q) \/ ContractVraag(q) \/ LijstVraag(q)
      \/ CodeVraag(q)
      \/ Stap(q) \/ Terugdraaien(q)

Spec == Init /\ [][Next]_vars

-----------------------------------------------------------------------------
(* Rows keep the shape of their table; the picked and written rows of a    *)
(* request are rows of these tables.                                       *)
TypeOK ==
    /\ rij \in [RijSleutels -> RijSoort]
    /\ samen \subseteq Leveranciers \cup Lijsten
    /\ uitgezet \subseteq Leveranciers
    /\ wens \in [Lijsten -> SUBSET Koppelrijen]
    /\ \A q \in Verzoeken :
         /\ verzoek[q].invoer \in InvoerSoort \cup {Geen}
         /\ verzoek[q].gekozen \subseteq RijSleutels
         /\ DOMAIN verzoek[q].schrijf \subseteq RijSleutels
         /\ \A r \in DOMAIN verzoek[q].schrijf : verzoek[q].schrijf[r] \in RijSoort

(* VendorService says there is at most one primary contact, and never      *)
(* contacts without one.  That is so as long as no two requests change the *)
(* contacts of a supplier at the same time, and for the second half nobody *)
(* sent isPrimary false.                                                   *)
EenAanspreekpunt ==
    \A l \in Leveranciers \ samen :
      LET K == {c \in Contacten : rij[c].van = l /\ rij[c].stand = "live"}
          P == {c \in K : rij[c].primair} IN
      /\ Cardinality(P) <= 1
      /\ K # {} /\ l \notin uitgezet => P # {}

(* A deleted supplier has no live contact, unless a change of its contacts *)
(* overlapped the deletion: adding one looks at the supplier first and     *)
(* inserts later.  The category of a supplier and the areas of a contract  *)
(* are there, whatever overlaps: those are foreign keys.                   *)
WeesAlleenBijOverlap ==
    /\ \A c \in Contacten :
         rij[c].stand = "live" /\ rij[rij[c].van].stand = "weg" => rij[c].van \in samen
    /\ \A c \in Codes : Verwijzend(c) # {} => rij[c].stand = "live"

(* A list holds everything the request that committed last asked for, and  *)
(* nothing else unless two replacements of it overlapped: a DELETE does    *)
(* not see the rows the other one inserts.                                 *)
LijstIsWens ==
    \A x \in Lijsten :
      LET R == {y \in Koppelrijen : LijstVan[y] = x /\ rij[y].stand = "live"} IN
      wens[x] \subseteq R /\ (x \in samen \/ R = wens[x])

(* VendorCategoryService says that deleting a category takes it off the    *)
(* suppliers that have it; the database refuses the deletion instead.      *)
CategorieVerwijderbaar == \A q \in Verzoeken : verzoek[q].pc # "gebruikt"
=============================================================================
