------------------------- MODULE LeveranciersProofs -------------------------
(***************************************************************************)
(* Proofs about Leveranciers, for any number of suppliers, contacts, lists *)
(* and requests, and any number of them at the same time.                  *)
(*                                                                         *)
(* A request that is alone with the contacts of its supplier, or with its  *)
(* list, knows at each statement what the rows it has read and written     *)
(* come to (Aanspreek, Verdwijnt, Lijst); other requests' COMMITs leave    *)
(* that so, because a row has one writer (Slot), contacts stay with their  *)
(* supplier (Rijen), and keys of new rows are one request's (Sleutel).     *)
(* For the foreign keys, a code that is being deleted or added is nobody's *)
(* reference (CodeSlot).                                                   *)
(***************************************************************************)
EXTENDS Leveranciers, TransactiesProofs, FiniteSetTheorems

Rust == {"nieuw", "klaar", "geweigerd", "dubbel", "gebruikt", "fout"}
LeverancierOps == {"maakAan", "wijzig", "verwijder"}
ContactOps == {"voegContactToe", "wijzigContact", "verwijderContact"}
ContractOps == {"maakContract", "wijzigContract", "verwijderContract"}
CodeOps == {"maakCode", "verwijderCode"}
Maakt == {"maakAan", "voegContactToe"}

Geschreven(q) == DOMAIN verzoek[q].schrijf
Wordt(q, r) == verzoek[q].schrijf[r]

(* A request is at a statement of its operation, with the input of that    *)
(* operation; one that is not running holds nothing.                       *)
Soort(q) ==
    /\ q \notin Lopend => verzoek[q].pc \in Rust /\ Geschreven(q) = {}
    /\ q \in Lopend =>
         /\ In(q) \in InvoerSoort
         /\ verzoek[q].op \in LeverancierOps \cup ContactOps \cup ContractOps \cup CodeOps
                              \cup {"vervang"}
         /\ verzoek[q].op \in LeverancierOps \cup ContactOps \cup ContractOps =>
              In(q).bij \in Leveranciers
         /\ verzoek[q].op = "maakAan" => In(q).doel \in Contacten \cup {Geen}
         /\ verzoek[q].op \in ContactOps => In(q).doel \in Contacten
         /\ verzoek[q].op \in ContractOps => In(q).doel \in Contracten
         /\ verzoek[q].op \in CodeOps => In(q).bij \in Codes
         /\ verzoek[q].op = "vervang" =>
              In(q).bij \in Lijsten /\ \A y \in In(q).wens : LijstVan[y] = In(q).bij

Statement(q) ==
    /\ verzoek[q].pc \in {"kvk", "leverancier"} => verzoek[q].op \in {"maakAan", "wijzig"}
    /\ verzoek[q].pc \in {"leverancierWeg", "contacten", "contactenWeg"} =>
         verzoek[q].op = "verwijder"
    /\ verzoek[q].pc \in {"anderen", "anderenUit", "contact"} =>
         verzoek[q].op \in {"voegContactToe", "wijzigContact"}
    /\ verzoek[q].pc \in {"contactWeg", "opvolger", "opvolgerAan"} =>
         verzoek[q].op = "verwijderContact"
    /\ verzoek[q].pc = "contract" => verzoek[q].op \in {"maakContract", "wijzigContract"}
    /\ verzoek[q].pc = "contractWeg" => verzoek[q].op = "verwijderContract"
    /\ verzoek[q].pc \in {"lijst", "lijstWeg", "lijstNieuw"} => verzoek[q].op = "vervang"
    /\ verzoek[q].pc = "code" => verzoek[q].op = "maakCode"
    /\ verzoek[q].pc = "codeWeg" => verzoek[q].op = "verwijderCode"

(* What has been written so far.                                           *)
Geschrift(q) ==
    /\ verzoek[q].pc \in {"kvk", "leverancier", "leverancierWeg", "anderen", "anderenUit",
                          "contactWeg", "contract", "contractWeg", "lijst", "lijstWeg",
                          "code", "codeWeg"} => Geschreven(q) = {}
    /\ verzoek[q].pc \in {"contacten", "contactenWeg"} => Geschreven(q) = {In(q).bij}
    /\ verzoek[q].pc = "contact" /\ ~ In(q).primair => Geschreven(q) = {}
    /\ verzoek[q].pc \in {"anderen", "anderenUit"} => In(q).primair
    /\ verzoek[q].pc \in {"opvolger", "opvolgerAan"} =>
         Geschreven(q) = {In(q).doel} /\ Wordt(q, In(q).doel).stand = "weg"
    /\ verzoek[q].pc = "commit" /\ verzoek[q].op \in {"maakAan", "verwijder", "verwijderCode"} =>
         In(q).bij \in Geschreven(q)

(* A written row is a row of the request's own supplier, list or code.     *)
RijGoed(q, r, w) ==
    /\ w.stand = "geen" => w = GeenRij
    /\ r \notin Leveranciers => w.code = Geen
    /\ r \in Leveranciers =>
         /\ r = In(q).bij
         /\ \/ verzoek[q].op = "maakAan" /\ w.stand = "live"
            \/ verzoek[q].op = "wijzig" /\ w.stand = rij[r].stand
            \/ verzoek[q].op = "verwijder" /\ w.stand = "weg"
    /\ r \in Contacten =>
         /\ verzoek[q].op \in ContactOps \cup {"maakAan", "verwijder"}
         /\ w.van = In(q).bij
         /\ \/ /\ r = In(q).doel /\ verzoek[q].op \in Maakt /\ w.stand = "live"
               /\ verzoek[q].op = "maakAan" => w.primair
            \/ /\ rij[r].van = In(q).bij /\ rij[r].stand # "geen"
               /\ w.stand \in {rij[r].stand, "weg"} /\ verzoek[q].op # "maakAan"
    /\ r \in Contracten =>
         /\ verzoek[q].op \in ContractOps /\ w.stand # "geen"
         /\ w.van \in Leveranciers /\ rij[w.van].stand # "geen"
    /\ r \in Koppelrijen =>
         \/ verzoek[q].op = "vervang" /\ LijstVan[r] = In(q).bij
         \/ verzoek[q].op = "verwijderCode" /\ CodeVan[r] = In(q).bij /\ w.stand = "geen"
    /\ r \in Codes => verzoek[q].op \in CodeOps /\ r = In(q).bij

Rijen(q) == \A r \in Geschreven(q) : RijGoed(q, r, Wordt(q, r))

(* The rows a request is about are there, or are not there yet.            *)
Sleutel(q) ==
    /\ verzoek[q].op = "maakAan" =>
         /\ rij[In(q).bij].stand = "geen"
         /\ In(q).doel # Geen => rij[In(q).doel].stand = "geen"
    /\ verzoek[q].op \in {"wijzig", "verwijder"} \cup ContactOps \cup ContractOps =>
         rij[In(q).bij].stand # "geen"
    /\ verzoek[q].op = "voegContactToe" => rij[In(q).doel].stand = "geen"
    /\ verzoek[q].op \in {"wijzigContact", "verwijderContact"} =>
         rij[In(q).doel].stand # "geen" /\ rij[In(q).doel].van = In(q).bij
    /\ verzoek[q].op \in {"wijzigContract", "verwijderContract"} =>
         rij[In(q).doel].stand # "geen"
    /\ verzoek[q].pc \in {"contactenWeg", "anderenUit", "opvolgerAan"} =>
         \A c \in verzoek[q].gekozen :
            c \in Contacten /\ rij[c].van = In(q).bij /\ rij[c].stand # "geen"

(* The live contacts of supplier l, and the primary ones, as q sees them.  *)
HeeftNu(q, l, c) == Zicht(q)[c].van = l /\ Live(q, c)
Een(q, l) ==
    /\ \A c, d \in Contacten : HeeftNu(q, l, c) /\ HeeftNu(q, l, d)
         /\ Zicht(q)[c].primair /\ Zicht(q)[d].primair => c = d
    /\ l \notin uitgezet => \A c \in Contacten : HeeftNu(q, l, c) =>
         \E d \in Contacten : HeeftNu(q, l, d) /\ Zicht(q)[d].primair

(* Where a request that deletes a supplier is with its contacts.           *)
Verdwijnt(q) == LET l == In(q).bij IN verzoek[q].op = "verwijder" =>
    /\ verzoek[q].pc = "contactenWeg" =>
         \A c \in Contacten : HeeftNu(q, l, c) => c \in verzoek[q].gekozen
    /\ verzoek[q].pc = "commit" => \A c \in Contacten : ~ HeeftNu(q, l, c)

(* Where a request that changes contacts is with the primary one.          *)
Aanspreek(q) == LET l == In(q).bij   d == In(q).doel IN verzoek[q].op \in ContactOps =>
    /\ verzoek[q].op = "voegContactToe" => rij[l].stand = "live"
    /\ verzoek[q].pc \in {"anderen", "anderenUit", "contact"}
         /\ verzoek[q].op = "wijzigContact" => rij[d].stand = "live"
    /\ verzoek[q].pc = "anderenUit" =>
         \A c \in Contacten \ {d} : rij[c].van = l /\ rij[c].primair => c \in verzoek[q].gekozen
    /\ verzoek[q].pc = "contact" /\ In(q).primair =>
         \A c \in Contacten \ {d} : Zicht(q)[c].van = l => ~ Zicht(q)[c].primair
    /\ verzoek[q].pc = "contact" /\ ~ In(q).primair =>
         IF verzoek[q].op = "voegContactToe"
         THEN \E c \in Contacten : rij[c].van = l /\ rij[c].stand = "live"
         ELSE l \in uitgezet
    /\ verzoek[q].pc \in {"opvolger", "opvolgerAan"} =>
         rij[d].primair /\ rij[d].stand = "live"
    /\ verzoek[q].pc = "opvolgerAan" =>
         \/ verzoek[q].gekozen = {} /\ \A c \in Contacten : ~ HeeftNu(q, l, c)
         \/ \E c \in Contacten : verzoek[q].gekozen = {c} /\ HeeftNu(q, l, c)
    /\ verzoek[q].pc = "commit" => Een(q, l)

(* Where a request that replaces a list is with its rows.                  *)
Lijst(q) == LET x == In(q).bij IN verzoek[q].op = "vervang" =>
    /\ verzoek[q].pc = "lijstWeg" =>
         /\ \A y \in verzoek[q].gekozen : y \in Koppelrijen /\ LijstVan[y] = x
         /\ x \notin samen => \A y \in Koppelrijen :
              LijstVan[y] = x /\ rij[y].stand = "live" => y \in verzoek[q].gekozen
    /\ verzoek[q].pc = "lijstNieuw" /\ x \notin samen =>
         \A y \in Koppelrijen : LijstVan[y] = x => ~ Live(q, y)
    /\ verzoek[q].pc = "commit" =>
         /\ \A y \in In(q).wens : y \in Geschreven(q) /\ Wordt(q, y).stand = "live"
         /\ x \notin samen => \A y \in Koppelrijen :
              LijstVan[y] = x /\ Live(q, y) => y \in In(q).wens

Lokaal(q) ==
    /\ Soort(q) /\ Statement(q) /\ Geschrift(q)
    /\ q \in Lopend => /\ Rijen(q) /\ Sleutel(q) /\ Lijst(q)
                       /\ In(q).bij \notin samen => Verdwijnt(q) /\ Aanspreek(q)

(* Two requests that change the contacts of a supplier, or a list, at the  *)
(* same time are noted.                                                    *)
Alleen ==
    \A p, q \in Lopend : p # q /\ verzoek[p].op \in Raakt /\ verzoek[q].op \in Raakt
        /\ In(p).bij = In(q).bij => In(p).bij \in samen

EigenSleutels ==
    \A p, q \in Lopend : p # q /\ verzoek[p].op \in Maakt /\ verzoek[q].op \in Maakt =>
        /\ verzoek[p].op = "maakAan" /\ verzoek[q].op = "maakAan" => In(p).bij # In(q).bij
        /\ In(p).doel = In(q).doel => In(p).doel = Geen

(* The foreign keys: what is written refers to codes that are there, and   *)
(* a code that is being written takes its references with it.              *)
CodeSlot ==
    \A q \in Verzoeken :
      /\ \A r \in Geschreven(q) : \A c \in Codes : Verwijst(r, Wordt(q, r), c) =>
           rij[c].stand = "live" /\ \A p \in Verzoeken : c \notin Geschreven(p)
      /\ \A c \in Codes \cap Geschreven(q) : \A r \in Verwijzend(c) :
           r \in Koppelrijen \cap Geschreven(q)

(* What is committed.                                                      *)
Tabellen ==
    /\ \A r \in RijSleutels : rij[r].stand = "geen" => rij[r] = GeenRij
    /\ \A r \in RijSleutels \ Leveranciers : rij[r].code = Geen
    /\ \A c \in Contacten \cup Contracten : rij[c].stand # "geen" =>
         rij[c].van \in Leveranciers /\ rij[rij[c].van].stand # "geen"

(* EenAanspreekpunt without counting.                                      *)
Bij(l, c) == rij[c].van = l /\ rij[c].stand = "live"
EenPrimair ==
    \A l \in Leveranciers \ samen :
      /\ \A c, d \in Contacten :
           Bij(l, c) /\ Bij(l, d) /\ rij[c].primair /\ rij[d].primair => c = d
      /\ l \notin uitgezet => \A c \in Contacten : Bij(l, c) =>
           \E d \in Contacten : Bij(l, d) /\ rij[d].primair

Vast == Tabellen /\ EenPrimair /\ WeesAlleenBijOverlap /\ LijstIsWens

IInv ==
    /\ TypeOK /\ Vorm /\ Slot
    /\ \A q \in Verzoeken : Lokaal(q)
    /\ Alleen /\ EigenSleutels /\ CodeSlot /\ Vast

-----------------------------------------------------------------------------
(* Rows.                                                                   *)

LEMMA NaarRij ==
    /\ GeenRij \in RijSoort /\ [GeenRij EXCEPT !.stand = "live"] \in RijSoort
    /\ [GeenRij EXCEPT !.stand = "live"].stand = "live"
    /\ [GeenRij EXCEPT !.stand = "live"].code = Geen
    /\ GeenRij.stand = "geen" /\ GeenRij.van = Geen /\ GeenRij.code = Geen
    /\ \A kvk \in KvkNummers \cup {Geen}, code \in Categorieen \cup {Geen} :
         LET w == NieuweLeverancier(kvk, code) IN
         w \in RijSoort /\ w.stand = "live" /\ w.code = code
    /\ \A l \in Leveranciers, primair \in BOOLEAN :
         LET w == NieuwContact(l, primair) IN
         w \in RijSoort /\ w.stand = "live" /\ w.van = l /\ w.primair = primair /\ w.code = Geen
    /\ \A l \in Leveranciers, c \in Contacten \cup {Geen} :
         LET w == NieuwContract(l, c) IN
         w \in RijSoort /\ w.stand = "live" /\ w.van = l /\ w.code = Geen
  BY DEF GeenRij, RijSoort, NieuweLeverancier, NieuwContact, NieuwContract

(* Vast only loses by more overlap.                                        *)
LEMMA VastBlijft ==
    ASSUME IInv, rij' = rij, wens' = wens, samen \subseteq samen', uitgezet \subseteq uitgezet'
    PROVE  Vast'
  <1>1. Tabellen'
    BY DEF IInv, Vast, Tabellen
  <1>2. EenPrimair'
    BY DEF IInv, Vast, EenPrimair, Bij
  <1>3. WeesAlleenBijOverlap'
    BY DEF IInv, Vast, WeesAlleenBijOverlap, Verwijzend
  <1>4. LijstIsWens'
    BY DEF IInv, Vast, LijstIsWens
  <1> QED BY <1>1, <1>2, <1>3, <1>4 DEF Vast

LEMMA RijGoedBlijft ==
    ASSUME NEW q, rij' = rij, verzoek'[q].op = verzoek[q].op,
           verzoek'[q].invoer = verzoek[q].invoer
    PROVE  \A r, w : RijGoed(q, r, w) => RijGoed(q, r, w)'
  BY DEF RijGoed, In

(* A step that commits nothing leaves the other requests as they are.      *)
LEMMA AnderenBlijven ==
    ASSUME IInv, NEW q \in Verzoeken, Anders(q), rij' = rij,
           samen \subseteq samen', uitgezet \subseteq uitgezet'
    PROVE  \A p \in Verzoeken \ {q} : Lokaal(p)'
  <1> SUFFICES ASSUME NEW p \in Verzoeken \ {q} PROVE Lokaal(p)'
    OBVIOUS
  <1>1. verzoek'[p] = verzoek[p] /\ Lokaal(p)
    BY DEF Anders, IInv
  <1>2. Zicht(p)' = Zicht(p) /\ (p \in Lopend') = (p \in Lopend)
    BY <1>1 DEF Zicht, Lopend
  <1>3. Soort(p)' /\ Statement(p)'
    BY <1>1, <1>2 DEF Lokaal, Soort, Statement, In, Geschreven
  <1>4. Geschrift(p)'
    BY <1>1 DEF Lokaal, Geschrift, In, Geschreven, Wordt
  <1>5. p \in Lopend => Rijen(p)' /\ Sleutel(p)'
    <2>1. \A r, w : RijGoed(p, r, w) => RijGoed(p, r, w)'
      BY <1>1, RijGoedBlijft
    <2>2. p \in Lopend => Rijen(p)'
      BY <1>1, <2>1 DEF Lokaal, Rijen, Geschreven, Wordt
    <2>3. p \in Lopend => Sleutel(p)'
      BY <1>1 DEF Lokaal, Sleutel, In
    <2> QED BY <2>2, <2>3
  <1>6. p \in Lopend => Lijst(p)'
    BY <1>1, <1>2 DEF Lokaal, Lijst, In, Geschreven, Wordt, Live
  <1>7. p \in Lopend /\ In(p).bij \notin samen => Verdwijnt(p)' /\ Aanspreek(p)'
    BY <1>1, <1>2 DEF Lokaal, Verdwijnt, Aanspreek, Een, HeeftNu, In, Live
  <1> QED BY <1>1, <1>2, <1>3, <1>4, <1>5, <1>6, <1>7 DEF Lokaal, In

-----------------------------------------------------------------------------
(* Steps of a request that do not commit: what is left to show of each.    *)

VormVan(q) ==
    /\ verzoek[q].invoer \in InvoerSoort \cup {Geen}
    /\ verzoek[q].gekozen \subseteq RijSleutels
    /\ DOMAIN verzoek[q].schrijf \subseteq RijSleutels
    /\ \A r \in DOMAIN verzoek[q].schrijf : verzoek[q].schrijf[r] \in RijSoort

LEMMA TypeBlijft ==
    ASSUME TypeOK, NEW q \in Verzoeken, Anders(q), rij' = rij, wens' = wens, VormVan(q)',
           samen' \subseteq Leveranciers \cup Lijsten, uitgezet' \subseteq Leveranciers
    PROVE  TypeOK'
  <1>1. \A p \in Verzoeken : VormVan(p)'
    <2> SUFFICES ASSUME NEW p \in Verzoeken, p # q PROVE VormVan(p)'
      OBVIOUS
    <2>1. VormVan(p)
      BY DEF TypeOK, VormVan
    <2> QED BY <2>1 DEF Anders, VormVan
  <1>2. \A p \in Verzoeken :
         /\ verzoek'[p].invoer \in InvoerSoort \cup {Geen}
         /\ verzoek'[p].gekozen \subseteq RijSleutels
         /\ DOMAIN verzoek'[p].schrijf \subseteq RijSleutels
         /\ \A r \in DOMAIN verzoek'[p].schrijf : verzoek'[p].schrijf[r] \in RijSoort
    BY <1>1 DEF VormVan
  <1> QED BY <1>2 DEF TypeOK

(* A request that ends without COMMIT.                                     *)
LEMMA EindeStap ==
    ASSUME IInv, NEW q \in Verzoeken, NEW uitkomst \in Rust,
           verzoek' = [verzoek EXCEPT ![q] = [NieuwVerzoek EXCEPT !.pc = uitkomst]],
           Blijft
    PROVE  IInv'
  <1>1. /\ Vorm' /\ Anders(q) /\ verzoek'[q].pc = uitkomst
        /\ verzoek'[q].invoer = Geen /\ verzoek'[q].gekozen = {}
        /\ DOMAIN verzoek'[q].schrijf = {}
    BY EindeFeit DEF IInv
  <1>2. TypeOK'
    BY <1>1, TypeBlijft DEF IInv, TypeOK, VormVan, Blijft
  <1>3. Slot'
    BY <1>1, SlotBlijft DEF IInv
  <1>4. \A p \in Verzoeken : Lokaal(p)'
    <2>1. q \notin Lopend'
      BY <1>1 DEF Lopend, Rust
    <2>2. Lokaal(q)'
      BY <1>1, <2>1 DEF Lokaal, Soort, Statement, Geschrift, Geschreven, Rust
    <2> QED BY <1>1, <2>2, AnderenBlijven DEF Blijft
  <1>5. Lopend' \subseteq Lopend \ {q} /\ \A p \in Lopend' : verzoek'[p] = verzoek[p]
    BY <1>1 DEF Lopend, Anders, Rust
  <1>6. Alleen' /\ EigenSleutels'
    BY <1>5 DEF IInv, Alleen, EigenSleutels, In, Blijft
  <1>7. CodeSlot'
    BY <1>1 DEF IInv, CodeSlot, Anders, Geschreven, Wordt, Verwijzend, Verwijst, Blijft
  <1>8. Vast'
    BY VastBlijft DEF Blijft
  <1> QED BY <1>1, <1>2, <1>3, <1>4, <1>6, <1>7, <1>8 DEF IInv

Plek(q) ==
    /\ Statement(q) /\ Geschrift(q) /\ Sleutel(q) /\ Lijst(q)
    /\ In(q).bij \notin samen => Verdwijnt(q) /\ Aanspreek(q)

(* A request that goes on to another statement.                            *)
LEMMA Vervolgt ==
    ASSUME IInv, NEW q \in Lopend, Vorm', Anders(q), Blijft,
           verzoek'[q].op = verzoek[q].op, verzoek'[q].invoer = verzoek[q].invoer,
           verzoek'[q].pc \notin Rust, VormVan(q)', Slot', CodeSlot', Rijen(q)', Plek(q)'
    PROVE  IInv'
  <1>0. q \in Verzoeken
    BY DEF Lopend
  <1>1. TypeOK'
    BY <1>0, TypeBlijft DEF IInv, TypeOK, Blijft
  <1>2. Lopend' = Lopend
    BY <1>0 DEF Lopend, Anders, Rust
  <1>3. \A p \in Lopend : verzoek'[p].op = verzoek[p].op /\ In(p)' = In(p)
    BY <1>0 DEF Lopend, Anders, In
  <1>4. Alleen' /\ EigenSleutels'
    BY <1>2, <1>3 DEF IInv, Alleen, EigenSleutels, Blijft
  <1>5. Lokaal(q)'
    <2>1. Soort(q)
      BY <1>0 DEF IInv, Lokaal
    <2>2. Soort(q)'
      BY <2>1, <1>2, <1>3 DEF Soort
    <2> QED BY <2>2 DEF Lokaal, Plek
  <1>6. \A p \in Verzoeken : Lokaal(p)'
    BY <1>0, <1>5, AnderenBlijven DEF Blijft
  <1>7. Vast'
    BY VastBlijft DEF Blijft
  <1> QED BY <1>1, <1>4, <1>6, <1>7 DEF IInv

(* One that writes nothing: it picks rows, or only goes on.                *)
LEMMA KiestStap ==
    ASSUME IInv, NEW q \in Lopend, Vorm', Anders(q), Blijft,
           verzoek'[q].op = verzoek[q].op, verzoek'[q].invoer = verzoek[q].invoer,
           verzoek'[q].schrijf = verzoek[q].schrijf, verzoek'[q].gekozen \subseteq RijSleutels,
           verzoek'[q].pc \notin Rust, Plek(q)'
    PROVE  IInv'
  <1>0. q \in Verzoeken
    BY DEF Lopend
  <1>1. Slot'
    BY <1>0, SlotBlijft DEF IInv
  <1>2. \A p \in Verzoeken : Geschreven(p)' = Geschreven(p) /\ \A r : Wordt(p, r)' = Wordt(p, r)
    BY DEF Geschreven, Wordt, Anders
  <1>3. CodeSlot'
    BY <1>2 DEF IInv, CodeSlot, Verwijzend, Verwijst, Blijft
  <1>4. Rijen(q)'
    <2>1. \A r, w : RijGoed(q, r, w) => RijGoed(q, r, w)'
      BY RijGoedBlijft DEF Blijft
    <2> QED BY <1>0, <1>2, <2>1 DEF IInv, Lokaal, Rijen
  <1>5. VormVan(q)'
    BY <1>0 DEF IInv, TypeOK, VormVan
  <1> QED BY <1>1, <1>3, <1>4, <1>5, Vervolgt

(* One that writes rows.                                                   *)
Schreef(q, R, wordt, pc) ==
    /\ verzoek'[q].pc = pc /\ verzoek'[q].gekozen = {}
    /\ verzoek'[q].op = verzoek[q].op /\ In(q)' = In(q)
    /\ rij' = rij /\ samen' = samen /\ uitgezet' = uitgezet
    /\ Geschreven(q)' = Geschreven(q) \cup R
    /\ \A r \in Geschreven(q)' : Wordt(q, r)' = IF r \in R THEN wordt[r] ELSE Wordt(q, r)
    /\ \A r \in RijSleutels : Zicht(q)'[r] = IF r \in R THEN wordt[r] ELSE Zicht(q)[r]

Schrijfbaar(q, R, wordt) ==
    /\ R \subseteq RijSleutels
    /\ \A r \in R : wordt[r] \in RijSoort /\ RijGoed(q, r, wordt[r])

LEMMA SchreefFeit ==
    ASSUME IInv, NEW q \in Verzoeken, NEW R, NEW wordt, NEW pc, Schrijft(q, R, wordt, pc), Blijft
    PROVE  Schreef(q, R, wordt, pc)
  <1>1. Vorm /\ DOMAIN rij = RijSleutels
    BY DEF IInv, TypeOK
  <1>2. /\ verzoek'[q].pc = pc /\ verzoek'[q].gekozen = {}
        /\ verzoek'[q].op = verzoek[q].op /\ verzoek'[q].invoer = verzoek[q].invoer
        /\ DOMAIN verzoek'[q].schrijf = DOMAIN verzoek[q].schrijf \cup R
        /\ \A r \in DOMAIN verzoek'[q].schrijf :
             verzoek'[q].schrijf[r] = IF r \in R THEN wordt[r] ELSE verzoek[q].schrijf[r]
    BY ONLY <1>1, SchrijftFeit, q \in Verzoeken, Schrijft(q, R, wordt, pc)
  <1>3. rij' = rij /\ samen' = samen /\ uitgezet' = uitgezet
    BY DEF Blijft
  <1>4. \A r \in RijSleutels : Zicht(q)'[r] = IF r \in R THEN wordt[r] ELSE Zicht(q)[r]
    BY ONLY <1>1, <1>2, <1>3 DEF Zicht
  <1> QED BY ONLY <1>2, <1>3, <1>4 DEF In, Geschreven, Wordt, Schreef

LEMMA SchrijftStap ==
    ASSUME IInv, NEW q \in Lopend, NEW R, NEW wordt, NEW pc, Schrijft(q, R, wordt, pc),
           pc \notin Rust, Blijft, Schrijfbaar(q, R, wordt), CodeSlot', Plek(q)'
    PROVE  IInv'
  <1>0. q \in Verzoeken
    BY DEF Lopend
  <1>a. Vorm /\ Schrijft(q, R, wordt, pc)
    BY DEF IInv
  <1>1. /\ Vorm' /\ Anders(q)
        /\ verzoek'[q].pc = pc /\ verzoek'[q].gekozen = {}
        /\ verzoek'[q].op = verzoek[q].op /\ verzoek'[q].invoer = verzoek[q].invoer
        /\ DOMAIN verzoek'[q].schrijf = DOMAIN verzoek[q].schrijf \cup R
        /\ \A r \in DOMAIN verzoek'[q].schrijf :
             verzoek'[q].schrijf[r] = IF r \in R THEN wordt[r] ELSE verzoek[q].schrijf[r]
    BY ONLY <1>0, <1>a, SchrijftFeit
  <1>2. Slot'
    BY <1>0, SlotSchrijft DEF IInv
  <1>3. VormVan(q)'
    BY <1>0, <1>1 DEF IInv, TypeOK, VormVan, Schrijfbaar
  <1>4. Rijen(q)'
    <2>1. \A r, w : RijGoed(q, r, w) => RijGoed(q, r, w)'
      BY <1>1, RijGoedBlijft DEF Blijft
    <2>2. \A r \in DOMAIN verzoek'[q].schrijf : RijGoed(q, r, verzoek'[q].schrijf[r])
      BY <1>0, <1>1 DEF IInv, Lokaal, Rijen, Geschreven, Wordt, Schrijfbaar
    <2> QED BY <2>1, <2>2 DEF Rijen, Geschreven, Wordt
  <1> QED BY <1>1, <1>2, <1>3, <1>4, Vervolgt

LEMMA SleutelBlijft ==
    ASSUME NEW q, NEW R, NEW wordt, NEW pc, Schreef(q, R, wordt, pc), Sleutel(q),
           pc \notin {"contactenWeg", "anderenUit", "opvolgerAan"}
    PROVE  Sleutel(q)'
  BY DEF Schreef, Sleutel

(* The foreign keys hold when no code is written, and what is written      *)
(* refers to codes that are there and nobody is writing.                   *)
LEMMA CodeSlotSchrijft ==
    ASSUME IInv, NEW q \in Verzoeken, NEW R, NEW wordt, NEW pc,
           Schrijft(q, R, wordt, pc), Blijft, R \cap Codes = {},
           \A r \in R : \A c \in Codes : Verwijst(r, wordt[r], c) =>
             rij[c].stand = "live" /\ \A p \in Verzoeken : c \notin Geschreven(p)
    PROVE  CodeSlot'
  <1>1. /\ Anders(q) /\ Geschreven(q)' = Geschreven(q) \cup R
        /\ \A r \in Geschreven(q)' : Wordt(q, r)' = IF r \in R THEN wordt[r] ELSE Wordt(q, r)
    BY SchrijftFeit DEF IInv, Geschreven, Wordt
  <1>2. \A p \in Verzoeken \ {q} : Geschreven(p)' = Geschreven(p) /\ \A r : Wordt(p, r)' = Wordt(p, r)
    BY <1>1 DEF Anders, Geschreven, Wordt
  <1>3. \A c \in Codes : Verwijzend(c)' = Verwijzend(c)
    BY DEF Verwijzend, Verwijst, Blijft
  <1>4. \A p \in Verzoeken : \A r, c : Verwijst(r, Wordt(p, r), c)' = Verwijst(r, Wordt(p, r)', c)
    BY DEF Verwijst
  <1>5. ASSUME NEW p \in Verzoeken, NEW r \in Geschreven(p)', NEW c \in Codes,
               Verwijst(r, Wordt(p, r)', c)
        PROVE  rij[c].stand = "live" /\ \A o \in Verzoeken : c \notin Geschreven(o)
    BY <1>1, <1>2, <1>5 DEF IInv, CodeSlot
  <1>6. ASSUME NEW p \in Verzoeken, NEW c \in Codes, c \notin Geschreven(p)
        PROVE  c \notin Geschreven(p)'
    BY <1>1, <1>2, <1>6
  <1>7. ASSUME NEW p \in Verzoeken, NEW c \in Codes \cap Geschreven(p)', NEW r \in Verwijzend(c)
        PROVE  r \in Koppelrijen \cap Geschreven(p)'
    BY <1>1, <1>2 DEF IInv, CodeSlot
  <1> QED BY <1>3, <1>4, <1>5, <1>6, <1>7 DEF CodeSlot, Blijft

-----------------------------------------------------------------------------
(* Steps that begin a request.                                             *)

LEMMA BegintKent ==
    ASSUME IInv, NEW q \in Verzoeken, NEW op, NEW x, NEW invoer, NEW pc, pc \notin Rust,
           Begint2(q, op, x, invoer, pc)
    PROVE  /\ Vorm' /\ Anders(q) /\ q \notin Lopend /\ Lopend' = Lopend \cup {q}
           /\ verzoek'[q].pc = pc /\ verzoek'[q].op = op /\ verzoek'[q].invoer = invoer
           /\ verzoek'[q].gekozen = verzoek[q].gekozen
           /\ verzoek'[q].schrijf = verzoek[q].schrijf
           /\ Geschreven(q) = {} /\ Geschreven(q)' = {}
           /\ samen \subseteq samen' /\ samen' \subseteq samen \cup {x}
           /\ op \in Raakt /\ (\E p \in Lopend : In(p).bij = x /\ verzoek[p].op \in Raakt)
                => x \in samen'
           /\ op \notin Raakt => samen' = samen
  <1>1. Vorm /\ Begint(q, op, invoer, pc)
    BY DEF IInv, Begint2
  <1>2. /\ Vorm' /\ Anders(q) /\ verzoek[q].pc = "nieuw"
        /\ verzoek'[q].pc = pc /\ verzoek'[q].op = op /\ verzoek'[q].invoer = invoer
        /\ verzoek'[q].gekozen = verzoek[q].gekozen
        /\ verzoek'[q].schrijf = verzoek[q].schrijf
    BY ONLY <1>1, q \in Verzoeken, BegintFeit
  <1>3. q \notin Lopend /\ Lopend' = Lopend \cup {q}
    BY <1>2 DEF Lopend, Anders, Rust
  <1>4. Geschreven(q) = {} /\ Geschreven(q)' = {}
    BY <1>2, <1>3 DEF IInv, Lokaal, Soort, Geschreven
  <1>5. samen' = IF op \in Raakt /\ \E p \in Lopend : In(p).bij = x /\ verzoek[p].op \in Raakt
                 THEN samen \cup {x} ELSE samen
    BY DEF Begint2
  <1> QED BY <1>2, <1>3, <1>4, <1>5

LEMMA BegintStap ==
    ASSUME IInv, NEW q \in Verzoeken, NEW op, NEW x, NEW invoer \in InvoerSoort, NEW pc,
           pc \notin Rust, Begint2(q, op, x, invoer, pc), rij' = rij, wens' = wens,
           uitgezet \subseteq uitgezet', uitgezet' \subseteq Leveranciers,
           invoer.bij = x, op \in Raakt => x \in Leveranciers \cup Lijsten,
           op \in Maakt => invoer.doel = Geen \/ Nieuw(invoer.doel),
           op = "maakAan" => Nieuw(x),
           Soort(q)', Plek(q)'
    PROVE  IInv'
  <1>1. /\ Vorm' /\ Anders(q) /\ q \notin Lopend /\ Lopend' = Lopend \cup {q}
        /\ verzoek'[q].pc = pc /\ verzoek'[q].op = op /\ verzoek'[q].invoer = invoer
        /\ verzoek'[q].gekozen = verzoek[q].gekozen
        /\ verzoek'[q].schrijf = verzoek[q].schrijf
        /\ Geschreven(q) = {} /\ Geschreven(q)' = {}
        /\ samen \subseteq samen' /\ samen' \subseteq samen \cup {x}
        /\ op \in Raakt /\ (\E p \in Lopend : In(p).bij = x /\ verzoek[p].op \in Raakt)
             => x \in samen'
        /\ op \notin Raakt => samen' = samen
    BY BegintKent
  <1>2. TypeOK'
    <2>1. VormVan(q)'
      BY <1>1 DEF IInv, TypeOK, VormVan
    <2>2. samen' \subseteq Leveranciers \cup Lijsten
      BY <1>1 DEF IInv, TypeOK
    <2> QED BY <1>1, <2>1, <2>2, TypeBlijft DEF IInv
  <1>3. Slot'
    BY <1>1, SlotBlijft DEF IInv
  <1>4. \A p \in Verzoeken : Lokaal(p)'
    <2>1. Rijen(q)'
      BY <1>1 DEF Rijen
    <2>2. Lokaal(q)'
      BY <2>1 DEF Lokaal, Plek
    <2> QED BY <1>1, <2>2, AnderenBlijven
  <1>5. /\ In(q)' = invoer
        /\ \A p \in Lopend : verzoek'[p].op = verzoek[p].op /\ In(p)' = In(p)
    BY <1>1 DEF Lopend, Anders, In
  <1>6. Alleen'
    <2> SUFFICES ASSUME NEW o \in Lopend', NEW p \in Lopend', o # p,
                        verzoek'[o].op \in Raakt, verzoek'[p].op \in Raakt,
                        In(o)'.bij = In(p)'.bij
                 PROVE  In(o)'.bij \in samen'
      BY DEF Alleen, Raakt
    <2>1. CASE o \in Lopend /\ p \in Lopend
      BY <1>1, <1>5, <2>1 DEF IInv, Alleen
    <2>2. CASE o = q
      BY <1>1, <1>5, <2>2
    <2>3. CASE p = q
      BY <1>1, <1>5, <2>3
    <2> QED BY <1>1, <2>1, <2>2, <2>3
  <1>7. EigenSleutels'
    <2> SUFFICES ASSUME NEW o \in Lopend', NEW p \in Lopend', o # p,
                        verzoek'[o].op \in Maakt, verzoek'[p].op \in Maakt
                 PROVE  /\ verzoek'[o].op = "maakAan" /\ verzoek'[p].op = "maakAan" =>
                             In(o)'.bij # In(p)'.bij
                        /\ In(o)'.doel = In(p)'.doel => In(o)'.doel = Geen
      BY DEF EigenSleutels, Maakt
    <2>1. CASE o \in Lopend /\ p \in Lopend
      BY <1>1, <1>5, <2>1 DEF IInv, EigenSleutels
    <2>2. CASE o = q
      BY <1>1, <1>5, <2>2 DEF Nieuw
    <2>3. CASE p = q
      BY <1>1, <1>5, <2>3 DEF Nieuw
    <2> QED BY <1>1, <2>1, <2>2, <2>3
  <1>8. CodeSlot'
    <2>1. \A p \in Verzoeken : Geschreven(p)' = Geschreven(p) /\ \A r : Wordt(p, r)' = Wordt(p, r)
      BY <1>1 DEF Geschreven, Wordt, Anders
    <2> QED BY <2>1 DEF IInv, CodeSlot, Verwijzend, Verwijst
  <1>9. Vast'
    BY <1>1, VastBlijft
  <1> QED BY <1>1, <1>2, <1>3, <1>4, <1>6, <1>7, <1>8, <1>9 DEF IInv

LEMMA BegintLeverancier ==
    ASSUME IInv, NEW q \in Verzoeken, LeverancierVraag(q)
    PROVE  IInv'
  <1>1. PICK l \in Leveranciers :
          \/ Verwijder(q, l)
          \/ \E kvk \in KvkNummers \cup {Geen}, code \in Categorieen \cup {Geen} :
               \/ Wijzig(q, l, kvk, code)
               \/ \E c \in Contacten \cup {Geen} : MaakAan(q, l, c, kvk, code)
    BY DEF LeverancierVraag
  <1>2. CASE Verwijder(q, l)
    <2>1. Begint2(q, "verwijder", l, Vraag(l), "leverancierWeg") /\ rij[l].stand # "geen"
          /\ rij' = rij /\ uitgezet' = uitgezet /\ wens' = wens
      BY <1>2 DEF Verwijder
    <2>2. Vraag(l) \in InvoerSoort /\ Vraag(l).bij = l
      BY DEF Vraag, InvoerSoort
    <2>3. /\ Lopend' = Lopend \cup {q} /\ Geschreven(q)' = {} /\ verzoek'[q].op = "verwijder"
          /\ verzoek'[q].pc = "leverancierWeg" /\ verzoek'[q].invoer = Vraag(l)
      BY <2>1, BegintKent DEF Rust
    <2>4. Soort(q)'
      BY <2>2, <2>3 DEF Soort, In, LeverancierOps, ContactOps, ContractOps, CodeOps
    <2>5. Plek(q)'
      BY <2>1, <2>2, <2>3 DEF Plek, Statement, Geschrift, Sleutel, Lijst, Verdwijnt, Aanspreek, In,
                              ContactOps, ContractOps
    <2>6. /\ "leverancierWeg" \notin Rust /\ uitgezet' \subseteq Leveranciers
          /\ "verwijder" \in Raakt => l \in Leveranciers \cup Lijsten
          /\ "verwijder" \notin Maakt /\ "verwijder" # "maakAan" /\ uitgezet \subseteq uitgezet'
      BY <2>1 DEF Rust, Raakt, Maakt, IInv, TypeOK
    <2> QED BY <2>1, <2>2, <2>4, <2>5, <2>6, BegintStap
  <1>3. ASSUME NEW kvk \in KvkNummers \cup {Geen}, NEW code \in Categorieen \cup {Geen},
               Wijzig(q, l, kvk, code)
        PROVE  IInv'
    <2> DEFINE v == [Vraag(l) EXCEPT !.kvk = kvk, !.code = code]
    <2>1. Begint2(q, "wijzig", l, v, "kvk") /\ rij[l].stand = "live"
          /\ rij' = rij /\ uitgezet' = uitgezet /\ wens' = wens
      BY <1>3 DEF Wijzig
    <2>2. v \in InvoerSoort /\ v.bij = l
      BY DEF Vraag, InvoerSoort
    <2> HIDE DEF v
    <2>3. /\ Lopend' = Lopend \cup {q} /\ Geschreven(q)' = {} /\ verzoek'[q].op = "wijzig"
          /\ verzoek'[q].pc = "kvk" /\ verzoek'[q].invoer = v
      BY <2>1, BegintKent DEF Rust
    <2>4. Soort(q)'
      BY <2>2, <2>3 DEF Soort, In, LeverancierOps, ContactOps, ContractOps, CodeOps
    <2>5. Plek(q)'
      BY <2>1, <2>2, <2>3 DEF Plek, Statement, Geschrift, Sleutel, Lijst, Verdwijnt, Aanspreek, In,
                              ContactOps, ContractOps
    <2>6. /\ "kvk" \notin Rust /\ uitgezet' \subseteq Leveranciers
          /\ "wijzig" \in Raakt => l \in Leveranciers \cup Lijsten
          /\ "wijzig" \notin Maakt /\ "wijzig" # "maakAan" /\ uitgezet \subseteq uitgezet'
      BY <2>1 DEF Rust, Raakt, Maakt, IInv, TypeOK
    <2> QED BY <2>1, <2>2, <2>4, <2>5, <2>6, BegintStap
  <1>4. ASSUME NEW kvk \in KvkNummers \cup {Geen}, NEW code \in Categorieen \cup {Geen},
               NEW c \in Contacten \cup {Geen}, MaakAan(q, l, c, kvk, code)
        PROVE  IInv'
    <2> DEFINE v == [Vraag(l) EXCEPT !.doel = c, !.kvk = kvk, !.code = code]
    <2>1. Begint2(q, "maakAan", l, v, "kvk") /\ Nieuw(l) /\ (c # Geen => Nieuw(c))
          /\ rij' = rij /\ uitgezet' = uitgezet /\ wens' = wens
      BY <1>4 DEF MaakAan
    <2>2. v \in InvoerSoort /\ v.bij = l /\ v.doel = c
      BY DEF Vraag, InvoerSoort, RijSleutels
    <2> HIDE DEF v
    <2>3. /\ Lopend' = Lopend \cup {q} /\ Geschreven(q)' = {} /\ verzoek'[q].op = "maakAan"
          /\ verzoek'[q].pc = "kvk" /\ verzoek'[q].invoer = v
      BY <2>1, BegintKent DEF Rust
    <2>4. Soort(q)'
      BY <2>2, <2>3 DEF Soort, In, LeverancierOps, ContactOps, ContractOps, CodeOps
    <2>5. Plek(q)'
      BY <2>1, <2>2, <2>3 DEF Plek, Statement, Geschrift, Sleutel, Lijst, Verdwijnt, Aanspreek, In,
                              ContactOps, ContractOps, Nieuw
    <2>6. /\ "kvk" \notin Rust /\ uitgezet' \subseteq Leveranciers
          /\ "maakAan" \in Raakt => l \in Leveranciers \cup Lijsten
      BY <2>1 DEF Rust, Raakt, IInv, TypeOK
    <2> QED BY <2>1, <2>2, <2>4, <2>5, <2>6, BegintStap DEF Maakt
  <1> QED BY <1>1, <1>2, <1>3, <1>4

LEMMA BegintContact ==
    ASSUME IInv, NEW q \in Verzoeken, ContactVraag(q)
    PROVE  IInv'
  <1>1. PICK c \in Contacten :
          \/ VerwijderContact(q, c)
          \/ \E primair \in BOOLEAN :
               \/ WijzigContact(q, c, primair)
               \/ \E l \in Leveranciers : VoegContactToe(q, l, c, primair)
    BY DEF ContactVraag
  <1>2. CASE VerwijderContact(q, c)
    <2> DEFINE v == [Vraag(rij[c].van) EXCEPT !.doel = c]
    <2>0. rij[c].van \in Leveranciers /\ rij[rij[c].van].stand # "geen"
      BY <1>2 DEF VerwijderContact, IInv, Vast, Tabellen
    <2>1. Begint2(q, "verwijderContact", rij[c].van, v, "contactWeg") /\ rij[c].stand # "geen"
          /\ rij' = rij /\ uitgezet' = uitgezet /\ wens' = wens
      BY <1>2 DEF VerwijderContact
    <2>2. v \in InvoerSoort /\ v.bij = rij[c].van /\ v.doel = c
      BY <2>0 DEF Vraag, InvoerSoort, RijSleutels
    <2> HIDE DEF v
    <2>3. /\ Lopend' = Lopend \cup {q} /\ Geschreven(q)' = {} /\ verzoek'[q].op = "verwijderContact"
          /\ verzoek'[q].pc = "contactWeg" /\ verzoek'[q].invoer = v /\ samen \subseteq samen'
      BY <2>1, BegintKent DEF Rust
    <2>4. Soort(q)'
      BY <2>0, <2>2, <2>3 DEF Soort, In, LeverancierOps, ContactOps, ContractOps, CodeOps
    <2>5. Plek(q)'
      BY <2>0, <2>1, <2>2, <2>3 DEF Plek, Statement, Geschrift, Sleutel, Lijst, Verdwijnt,
        Aanspreek, In, LeverancierOps, ContactOps, ContractOps
    <2>6. /\ "contactWeg" \notin Rust /\ uitgezet' \subseteq Leveranciers
          /\ "verwijderContact" \in Raakt => rij[c].van \in Leveranciers \cup Lijsten
          /\ "verwijderContact" \in Maakt => v.doel = Geen \/ Nieuw(v.doel)
          /\ "verwijderContact" # "maakAan" /\ uitgezet \subseteq uitgezet'
      BY <2>0, <2>1, <2>2 DEF Rust, Raakt, Maakt, IInv, TypeOK
    <2> QED BY <2>1, <2>2, <2>4, <2>5, <2>6, BegintStap
  <1>3. ASSUME NEW primair \in BOOLEAN,
               WijzigContact(q, c, primair)
        PROVE  IInv'
    <2> DEFINE v == [Vraag(rij[c].van) EXCEPT !.doel = c, !.primair = primair]
               pc == IF primair THEN "anderen" ELSE "contact"
    <2>0. rij[c].van \in Leveranciers /\ rij[rij[c].van].stand # "geen"
      BY <1>3 DEF WijzigContact, IInv, Vast, Tabellen
    <2>1. Begint2(q, "wijzigContact", rij[c].van, v, pc) /\ rij[c].stand = "live"
          /\ rij' = rij /\ uitgezet' = (IF primair THEN uitgezet ELSE uitgezet \cup {rij[c].van}) /\ wens' = wens
      BY <1>3 DEF WijzigContact
    <2>2. v \in InvoerSoort /\ v.bij = rij[c].van /\ v.doel = c /\ v.primair = primair
      BY <2>0 DEF Vraag, InvoerSoort, RijSleutels
    <2>p. pc \in {"anderen", "contact"} /\ (pc = "anderen" <=> v.primair)
      BY <2>2
    <2> HIDE DEF v, pc
    <2>3. /\ Lopend' = Lopend \cup {q} /\ Geschreven(q)' = {} /\ verzoek'[q].op = "wijzigContact"
          /\ verzoek'[q].pc = pc /\ verzoek'[q].invoer = v /\ samen \subseteq samen'
      BY <2>1, <2>p, BegintKent DEF Rust
    <2>4. Soort(q)'
      BY <2>0, <2>2, <2>3 DEF Soort, In, LeverancierOps, ContactOps, ContractOps, CodeOps
    <2>5. Plek(q)'
      BY <2>0, <2>1, <2>2, <2>3, <2>p DEF Plek, Statement, Geschrift, Sleutel, Lijst, Verdwijnt,
        Aanspreek, In, LeverancierOps, ContactOps, ContractOps
    <2>6. /\ pc \notin Rust /\ uitgezet' \subseteq Leveranciers
          /\ "wijzigContact" \in Raakt => rij[c].van \in Leveranciers \cup Lijsten
          /\ "wijzigContact" \in Maakt => v.doel = Geen \/ Nieuw(v.doel)
          /\ "wijzigContact" # "maakAan" /\ uitgezet \subseteq uitgezet'
      BY <2>0, <2>1, <2>2, <2>p DEF Rust, Raakt, Maakt, IInv, TypeOK
    <2> QED BY <2>1, <2>2, <2>4, <2>5, <2>6, BegintStap
  <1>4. ASSUME NEW primair \in BOOLEAN, NEW l \in Leveranciers,
               VoegContactToe(q, l, c, primair)
        PROVE  IInv'
    <2> DEFINE wordt == primair \/ \A x \in Contacten : rij[x].van = l => rij[x].stand # "live"
               v == [Vraag(l) EXCEPT !.doel = c, !.primair = wordt]
               pc == IF wordt THEN "anderen" ELSE "contact"
    <2>1. Begint2(q, "voegContactToe", l, v, pc) /\ Nieuw(c) /\ rij[l].stand = "live"
          /\ rij' = rij /\ uitgezet' = uitgezet /\ wens' = wens
      BY <1>4 DEF VoegContactToe
    <2>2. v \in InvoerSoort /\ v.bij = l /\ v.doel = c /\ v.primair = wordt
      BY DEF Vraag, InvoerSoort, RijSleutels
    <2>p. pc \in {"anderen", "contact"} /\ (pc = "anderen" <=> v.primair)
      BY <2>2
    <2> HIDE DEF v, pc
    <2>3. /\ Lopend' = Lopend \cup {q} /\ Geschreven(q)' = {} /\ verzoek'[q].op = "voegContactToe"
          /\ verzoek'[q].pc = pc /\ verzoek'[q].invoer = v /\ samen \subseteq samen'
      BY <2>1, <2>p, BegintKent DEF Rust
    <2>4. Soort(q)'
      BY <2>2, <2>3 DEF Soort, In, LeverancierOps, ContactOps, ContractOps, CodeOps
    <2>5. Plek(q)'
      BY <2>1, <2>2, <2>3, <2>p DEF Plek, Statement, Geschrift, Sleutel, Lijst, Verdwijnt,
        Aanspreek, In, LeverancierOps, ContactOps, ContractOps, Nieuw
    <2>6. /\ pc \notin Rust /\ uitgezet' \subseteq Leveranciers
          /\ "voegContactToe" \in Raakt => l \in Leveranciers \cup Lijsten
          /\ "voegContactToe" \in Maakt => v.doel = Geen \/ Nieuw(v.doel)
          /\ "voegContactToe" # "maakAan" /\ uitgezet \subseteq uitgezet'
      BY <2>1, <2>2, <2>p DEF Rust, Raakt, Maakt, IInv, TypeOK
    <2> QED BY <2>1, <2>2, <2>4, <2>5, <2>6, BegintStap
  <1> QED BY <1>1, <1>2, <1>3, <1>4

LEMMA BegintContract ==
    ASSUME IInv, NEW q \in Verzoeken, ContractVraag(q)
    PROVE  IInv'
  <1>1. PICK k \in Contracten :
          \/ VerwijderContract(q, k)
          \/ \E c \in Contacten \cup {Geen} :
               \/ WijzigContract(q, k, c)
               \/ \E l \in Leveranciers : MaakContract(q, l, k, c)
    BY DEF ContractVraag
  <1>2. CASE VerwijderContract(q, k)
    <2> DEFINE v == [Vraag(rij[k].van) EXCEPT !.doel = k]
    <2>0. rij[k].van \in Leveranciers /\ rij[rij[k].van].stand # "geen"
      BY <1>2 DEF VerwijderContract, IInv, Vast, Tabellen
    <2>1. Begint2(q, "verwijderContract", rij[k].van, v, "contractWeg") /\ rij[k].stand # "geen"
          /\ rij' = rij /\ uitgezet' = uitgezet /\ wens' = wens
      BY <1>2 DEF VerwijderContract
    <2>2. v \in InvoerSoort /\ v.bij = rij[k].van /\ v.doel = k
      BY <2>0 DEF Vraag, InvoerSoort, RijSleutels
    <2> HIDE DEF v
    <2>3. /\ Lopend' = Lopend \cup {q} /\ Geschreven(q)' = {} /\ verzoek'[q].op = "verwijderContract"
          /\ verzoek'[q].pc = "contractWeg" /\ verzoek'[q].invoer = v /\ samen \subseteq samen'
      BY <2>1, BegintKent DEF Rust
    <2>4. Soort(q)'
      BY <2>0, <2>2, <2>3 DEF Soort, In, LeverancierOps, ContactOps, ContractOps, CodeOps
    <2>5. Plek(q)'
      BY <2>0, <2>1, <2>2, <2>3 DEF Plek, Statement, Geschrift, Sleutel, Lijst, Verdwijnt,
        Aanspreek, In, LeverancierOps, ContactOps, ContractOps
    <2>6. /\ "contractWeg" \notin Rust /\ uitgezet' \subseteq Leveranciers
          /\ "verwijderContract" \in Raakt => rij[k].van \in Leveranciers \cup Lijsten
          /\ "verwijderContract" \in Maakt => v.doel = Geen \/ Nieuw(v.doel)
          /\ "verwijderContract" # "maakAan" /\ uitgezet \subseteq uitgezet'
      BY <2>0, <2>1, <2>2 DEF Rust, Raakt, Maakt, IInv, TypeOK
    <2> QED BY <2>1, <2>2, <2>4, <2>5, <2>6, BegintStap
  <1>3. ASSUME NEW c \in Contacten \cup {Geen},
               WijzigContract(q, k, c)
        PROVE  IInv'
    <2> DEFINE v == [Vraag(rij[k].van) EXCEPT !.doel = k, !.contact = c]
    <2>0. rij[k].van \in Leveranciers /\ rij[rij[k].van].stand # "geen"
      BY <1>3 DEF WijzigContract, IInv, Vast, Tabellen
    <2>1. Begint2(q, "wijzigContract", rij[k].van, v, "contract") /\ rij[k].stand = "live"
          /\ rij' = rij /\ uitgezet' = uitgezet /\ wens' = wens
      BY <1>3 DEF WijzigContract
    <2>2. v \in InvoerSoort /\ v.bij = rij[k].van /\ v.doel = k
      BY <2>0 DEF Vraag, InvoerSoort, RijSleutels
    <2> HIDE DEF v
    <2>3. /\ Lopend' = Lopend \cup {q} /\ Geschreven(q)' = {} /\ verzoek'[q].op = "wijzigContract"
          /\ verzoek'[q].pc = "contract" /\ verzoek'[q].invoer = v /\ samen \subseteq samen'
      BY <2>1, BegintKent DEF Rust
    <2>4. Soort(q)'
      BY <2>0, <2>2, <2>3 DEF Soort, In, LeverancierOps, ContactOps, ContractOps, CodeOps
    <2>5. Plek(q)'
      BY <2>0, <2>1, <2>2, <2>3 DEF Plek, Statement, Geschrift, Sleutel, Lijst, Verdwijnt,
        Aanspreek, In, LeverancierOps, ContactOps, ContractOps
    <2>6. /\ "contract" \notin Rust /\ uitgezet' \subseteq Leveranciers
          /\ "wijzigContract" \in Raakt => rij[k].van \in Leveranciers \cup Lijsten
          /\ "wijzigContract" \in Maakt => v.doel = Geen \/ Nieuw(v.doel)
          /\ "wijzigContract" # "maakAan" /\ uitgezet \subseteq uitgezet'
      BY <2>0, <2>1, <2>2 DEF Rust, Raakt, Maakt, IInv, TypeOK
    <2> QED BY <2>1, <2>2, <2>4, <2>5, <2>6, BegintStap
  <1>4. ASSUME NEW c \in Contacten \cup {Geen}, NEW l \in Leveranciers,
               MaakContract(q, l, k, c)
        PROVE  IInv'
    <2> DEFINE v == [Vraag(l) EXCEPT !.doel = k, !.contact = c]
    <2>1. Begint2(q, "maakContract", l, v, "contract") /\ Nieuw(k) /\ rij[l].stand = "live"
          /\ rij' = rij /\ uitgezet' = uitgezet /\ wens' = wens
      BY <1>4 DEF MaakContract
    <2>2. v \in InvoerSoort /\ v.bij = l /\ v.doel = k
      BY DEF Vraag, InvoerSoort, RijSleutels
    <2> HIDE DEF v
    <2>3. /\ Lopend' = Lopend \cup {q} /\ Geschreven(q)' = {} /\ verzoek'[q].op = "maakContract"
          /\ verzoek'[q].pc = "contract" /\ verzoek'[q].invoer = v /\ samen \subseteq samen'
      BY <2>1, BegintKent DEF Rust
    <2>4. Soort(q)'
      BY <2>2, <2>3 DEF Soort, In, LeverancierOps, ContactOps, ContractOps, CodeOps
    <2>5. Plek(q)'
      BY <2>1, <2>2, <2>3 DEF Plek, Statement, Geschrift, Sleutel, Lijst, Verdwijnt,
        Aanspreek, In, LeverancierOps, ContactOps, ContractOps, Nieuw
    <2>6. /\ "contract" \notin Rust /\ uitgezet' \subseteq Leveranciers
          /\ "maakContract" \in Raakt => l \in Leveranciers \cup Lijsten
          /\ "maakContract" \in Maakt => v.doel = Geen \/ Nieuw(v.doel)
          /\ "maakContract" # "maakAan" /\ uitgezet \subseteq uitgezet'
      BY <2>1, <2>2 DEF Rust, Raakt, Maakt, IInv, TypeOK
    <2> QED BY <2>1, <2>2, <2>4, <2>5, <2>6, BegintStap
  <1> QED BY <1>1, <1>2, <1>3, <1>4

LEMMA BegintLijst ==
    ASSUME IInv, NEW q \in Verzoeken, LijstVraag(q)
    PROVE  IInv'
  <1>0. PICK x \in Lijsten :
          \E W \in SUBSET {y \in Koppelrijen : LijstVan[y] = x} : Vervang(q, x, W)
    BY DEF LijstVraag
  <1>1. PICK W \in SUBSET {y \in Koppelrijen : LijstVan[y] = x} : Vervang(q, x, W)
    BY <1>0
  <1> DEFINE v == [Vraag(x) EXCEPT !.wens = W]
  <1>2. Begint2(q, "vervang", x, v, "lijst")
        /\ rij' = rij /\ uitgezet' = uitgezet /\ wens' = wens
    BY <1>1 DEF Vervang
  <1>3. v \in InvoerSoort /\ v.bij = x /\ v.wens = W
    BY DEF Vraag, InvoerSoort, RijSleutels
  <1> HIDE DEF v
  <1>4. /\ Lopend' = Lopend \cup {q} /\ Geschreven(q)' = {} /\ verzoek'[q].op = "vervang"
        /\ verzoek'[q].pc = "lijst" /\ verzoek'[q].invoer = v /\ samen \subseteq samen'
    BY <1>2, BegintKent DEF Rust
  <1>5. Soort(q)'
    BY <1>3, <1>4 DEF Soort, In, LeverancierOps, ContactOps, ContractOps, CodeOps
  <1>6. Plek(q)'
    BY <1>2, <1>3, <1>4 DEF Plek, Statement, Geschrift, Sleutel, Lijst, Verdwijnt,
      Aanspreek, In, LeverancierOps, ContactOps, ContractOps
  <1>7. /\ "lijst" \notin Rust /\ uitgezet' \subseteq Leveranciers
        /\ "vervang" \in Raakt => x \in Leveranciers \cup Lijsten
        /\ "vervang" \in Maakt => v.doel = Geen \/ Nieuw(v.doel)
        /\ "vervang" # "maakAan" /\ uitgezet \subseteq uitgezet'
    BY <1>2, <1>3 DEF Rust, Raakt, Maakt, IInv, TypeOK
  <1> QED BY <1>2, <1>3, <1>5, <1>6, <1>7, BegintStap

LEMMA BegintCode ==
    ASSUME IInv, NEW q \in Verzoeken, CodeVraag(q)
    PROVE  IInv'
  <1>1. PICK c \in Codes : MaakCode(q, c) \/ VerwijderCode(q, c)
    BY DEF CodeVraag
  <1>2. CASE MaakCode(q, c)
    <2> DEFINE v == Vraag(c)
    <2>1. Begint2(q, "maakCode", c, v, "code")
          /\ rij' = rij /\ uitgezet' = uitgezet /\ wens' = wens
      BY <1>2 DEF MaakCode
    <2>2. v \in InvoerSoort /\ v.bij = c
      BY DEF Vraag, InvoerSoort, RijSleutels
    <2> HIDE DEF v
    <2>3. /\ Lopend' = Lopend \cup {q} /\ Geschreven(q)' = {} /\ verzoek'[q].op = "maakCode"
          /\ verzoek'[q].pc = "code" /\ verzoek'[q].invoer = v /\ samen \subseteq samen'
      BY <2>1, BegintKent DEF Rust
    <2>4. Soort(q)'
      BY <2>2, <2>3 DEF Soort, In, LeverancierOps, ContactOps, ContractOps, CodeOps
    <2>5. Plek(q)'
      BY <2>1, <2>2, <2>3 DEF Plek, Statement, Geschrift, Sleutel, Lijst, Verdwijnt,
        Aanspreek, In, LeverancierOps, ContactOps, ContractOps
    <2>6. /\ "code" \notin Rust /\ uitgezet' \subseteq Leveranciers
          /\ "maakCode" \in Raakt => c \in Leveranciers \cup Lijsten
          /\ "maakCode" \in Maakt => v.doel = Geen \/ Nieuw(v.doel)
          /\ "maakCode" # "maakAan" /\ uitgezet \subseteq uitgezet'
      BY <2>1, <2>2 DEF Rust, Raakt, Maakt, IInv, TypeOK
    <2> QED BY <2>1, <2>2, <2>4, <2>5, <2>6, BegintStap
  <1>3. CASE VerwijderCode(q, c)
    <2> DEFINE v == Vraag(c)
    <2>1. Begint2(q, "verwijderCode", c, v, "codeWeg")
          /\ rij' = rij /\ uitgezet' = uitgezet /\ wens' = wens
      BY <1>3 DEF VerwijderCode
    <2>2. v \in InvoerSoort /\ v.bij = c
      BY DEF Vraag, InvoerSoort, RijSleutels
    <2> HIDE DEF v
    <2>3. /\ Lopend' = Lopend \cup {q} /\ Geschreven(q)' = {} /\ verzoek'[q].op = "verwijderCode"
          /\ verzoek'[q].pc = "codeWeg" /\ verzoek'[q].invoer = v /\ samen \subseteq samen'
      BY <2>1, BegintKent DEF Rust
    <2>4. Soort(q)'
      BY <2>2, <2>3 DEF Soort, In, LeverancierOps, ContactOps, ContractOps, CodeOps
    <2>5. Plek(q)'
      BY <2>1, <2>2, <2>3 DEF Plek, Statement, Geschrift, Sleutel, Lijst, Verdwijnt,
        Aanspreek, In, LeverancierOps, ContactOps, ContractOps
    <2>6. /\ "codeWeg" \notin Rust /\ uitgezet' \subseteq Leveranciers
          /\ "verwijderCode" \in Raakt => c \in Leveranciers \cup Lijsten
          /\ "verwijderCode" \in Maakt => v.doel = Geen \/ Nieuw(v.doel)
          /\ "verwijderCode" # "maakAan" /\ uitgezet \subseteq uitgezet'
      BY <2>1, <2>2 DEF Rust, Raakt, Maakt, IInv, TypeOK
    <2> QED BY <2>1, <2>2, <2>4, <2>5, <2>6, BegintStap
  <1> QED BY <1>1, <1>2, <1>3

-----------------------------------------------------------------------------
(* Statements that write nothing.                                          *)

LEMMA Bezig ==
    ASSUME IInv, NEW q \in Verzoeken, verzoek[q].pc \notin Rust
    PROVE  /\ q \in Lopend /\ Vorm /\ In(q) \in InvoerSoort /\ Soort(q)
           /\ Plek(q) /\ Rijen(q) /\ DOMAIN rij = RijSleutels
           /\ \A r \in RijSleutels :
                Zicht(q)[r] = IF r \in Geschreven(q) THEN Wordt(q, r) ELSE rij[r]
  <1>1. q \in Lopend
    BY DEF Lopend, Rust
  <1>2. DOMAIN rij = RijSleutels
    BY DEF IInv, TypeOK
  <1> QED BY <1>1, <1>2, ZichtFeit DEF IInv, Lokaal, Soort, Plek, Geschreven, Wordt

LEMMA StapZoekKvk ==
    ASSUME IInv, NEW q \in Verzoeken, ZoekKvk(q)
    PROVE  IInv'
  <1>1. verzoek[q].pc = "kvk" /\ Blijft
    BY DEF ZoekKvk
  <1>2. CASE Weigert(q)
    BY <1>1, <1>2, EindeStap DEF Weigert, Rust
  <1>3. CASE Naar(q, "leverancier")
    <2>1. q \in Lopend /\ Vorm /\ Plek(q)
      BY <1>1, Bezig DEF Rust
    <2>2. /\ Vorm' /\ Anders(q) /\ verzoek'[q].pc = "leverancier"
          /\ verzoek'[q].op = verzoek[q].op /\ verzoek'[q].invoer = verzoek[q].invoer
          /\ verzoek'[q].gekozen = verzoek[q].gekozen
          /\ verzoek'[q].schrijf = verzoek[q].schrijf
      BY ONLY <1>3, <2>1, NaarFeit, q \in Verzoeken
    <2>3. Plek(q)'
      BY <1>1, <2>1, <2>2 DEF Plek, Statement, Geschrift, Sleutel, Lijst, Verdwijnt, Aanspreek,
         ContactOps, In, Geschreven, Blijft
    <2> QED BY <1>1, <2>1, <2>2, <2>3, KiestStap DEF Rust, IInv, TypeOK
  <1> QED BY <1>2, <1>3 DEF ZoekKvk

LEMMA StapKvkGeweigerd ==
    ASSUME IInv, NEW q \in Verzoeken, KvkGeweigerd(q)
    PROVE  IInv'
  BY EindeStap DEF KvkGeweigerd, Rust

LEMMA StapCodeOnbekend ==
    ASSUME IInv, NEW q \in Verzoeken, CodeOnbekend(q)
    PROVE  IInv'
  BY EindeStap DEF CodeOnbekend, Weigert, Rust

LEMMA StapTerugdraaien ==
    ASSUME IInv, NEW q \in Verzoeken, Terugdraaien(q)
    PROVE  IInv'
  BY EindeStap DEF Terugdraaien, Rollback, Blijft, Rust

(* What picking rows leaves.                                               *)
LEMMA GekozenFeit ==
    ASSUME IInv, NEW q \in Lopend, NEW R, NEW pc, Kiest(q, R, pc), Blijft
    PROVE  /\ Vorm' /\ Anders(q) /\ verzoek'[q].pc = pc /\ verzoek'[q].gekozen = R
           /\ verzoek'[q].op = verzoek[q].op /\ verzoek'[q].invoer = verzoek[q].invoer
           /\ verzoek'[q].schrijf = verzoek[q].schrijf
           /\ In(q)' = In(q) /\ Geschreven(q)' = Geschreven(q) /\ rij' = rij /\ samen' = samen
           /\ \A r : Wordt(q, r)' = Wordt(q, r)
           /\ Zicht(q)' = Zicht(q) /\ uitgezet' = uitgezet
  <1>1. Vorm /\ q \in Verzoeken
    BY DEF IInv, Lopend
  <1>2. /\ Vorm' /\ Anders(q) /\ verzoek'[q].pc = pc /\ verzoek'[q].gekozen = R
        /\ verzoek'[q].op = verzoek[q].op /\ verzoek'[q].invoer = verzoek[q].invoer
        /\ verzoek'[q].schrijf = verzoek[q].schrijf
    BY ONLY <1>1, KiestFeit, Kiest(q, R, pc)
  <1> QED BY <1>2 DEF In, Geschreven, Wordt, Zicht, Blijft

LEMMA StapKiesContacten ==
    ASSUME IInv, NEW q \in Verzoeken, KiesContacten(q)
    PROVE  IInv'
  <1> DEFINE R == ContactenVan(q, In(q).bij)
  <1>1. /\ verzoek[q].pc = "contacten" /\ verzoek[q].op = "verwijder" /\ Blijft
        /\ Kiest(q, R, "contactenWeg")
    BY DEF KiesContacten, Op
  <1>2. /\ q \in Lopend /\ Soort(q) /\ Plek(q) /\ DOMAIN rij = RijSleutels
        /\ \A r \in RijSleutels :
             Zicht(q)[r] = IF r \in Geschreven(q) THEN Wordt(q, r) ELSE rij[r]
    BY <1>1, Bezig DEF Rust
  <1>3. /\ Vorm' /\ Anders(q) /\ verzoek'[q].pc = "contactenWeg" /\ verzoek'[q].gekozen = R
        /\ verzoek'[q].op = verzoek[q].op /\ verzoek'[q].invoer = verzoek[q].invoer
        /\ verzoek'[q].schrijf = verzoek[q].schrijf
        /\ In(q)' = In(q) /\ Geschreven(q)' = Geschreven(q) /\ rij' = rij /\ samen' = samen
        /\ \A r : Wordt(q, r)' = Wordt(q, r)
        /\ Zicht(q)' = Zicht(q) /\ uitgezet' = uitgezet
    BY <1>1, <1>2, GekozenFeit
  <1>4. In(q).bij \in Leveranciers /\ Geschreven(q) = {In(q).bij}
    BY <1>1, <1>2 DEF Soort, Plek, Geschrift, LeverancierOps
  <1>5. \A c \in Contacten : c \in RijSleutels /\ Zicht(q)[c] = rij[c]
    BY <1>2, <1>4, LeveranciersSleutels DEF RijSleutels
  <1>6. R \subseteq RijSleutels
    BY DEF ContactenVan, RijSleutels
  <1>7. \A c \in R : c \in Contacten /\ rij[c].van = In(q).bij /\ rij[c].stand # "geen"
    BY <1>5 DEF ContactenVan, Live
  <1>8. \A c \in Contacten : HeeftNu(q, In(q).bij, c) => c \in R
    BY <1>5 DEF ContactenVan, HeeftNu
  <1>9. \A c : HeeftNu(q, In(q).bij, c)' = HeeftNu(q, In(q).bij, c)
    BY <1>3 DEF HeeftNu, Live
  <1> HIDE DEF R
  <1>10. Plek(q)'
    <2>1. Statement(q)' /\ Geschrift(q)' /\ Lijst(q)'
      BY <1>1, <1>3, <1>4 DEF Statement, Geschrift, Lijst
    <2>2. Sleutel(q)'
      BY <1>1, <1>2, <1>3, <1>7 DEF Plek, Sleutel, ContactOps, ContractOps
    <2>3. Verdwijnt(q)' /\ Aanspreek(q)'
      BY <1>1, <1>3, <1>8, <1>9 DEF Verdwijnt, Aanspreek, ContactOps
    <2> QED BY <2>1, <2>2, <2>3 DEF Plek
  <1> QED BY <1>1, <1>2, <1>3, <1>6, <1>10, KiestStap DEF Rust

LEMMA StapKiesAnderen ==
    ASSUME IInv, NEW q \in Verzoeken, KiesAnderen(q)
    PROVE  IInv'
  <1> DEFINE R == PrimairBij(q, In(q).bij) \ {In(q).doel}
  <1>1. verzoek[q].pc = "anderen" /\ Blijft /\ Kiest(q, R, "anderenUit")
    BY DEF KiesAnderen
  <1>2. /\ q \in Lopend /\ Soort(q) /\ Plek(q) /\ DOMAIN rij = RijSleutels
        /\ \A r \in RijSleutels :
             Zicht(q)[r] = IF r \in Geschreven(q) THEN Wordt(q, r) ELSE rij[r]
    BY <1>1, Bezig DEF Rust
  <1>3. /\ Vorm' /\ Anders(q) /\ verzoek'[q].pc = "anderenUit" /\ verzoek'[q].gekozen = R
        /\ verzoek'[q].op = verzoek[q].op /\ verzoek'[q].invoer = verzoek[q].invoer
        /\ verzoek'[q].schrijf = verzoek[q].schrijf
        /\ In(q)' = In(q) /\ Geschreven(q)' = Geschreven(q) /\ rij' = rij /\ samen' = samen
        /\ \A r : Wordt(q, r)' = Wordt(q, r)
        /\ Zicht(q)' = Zicht(q) /\ uitgezet' = uitgezet
    BY <1>1, <1>2, GekozenFeit
  <1>4. /\ verzoek[q].op \in {"voegContactToe", "wijzigContact"} /\ Geschreven(q) = {}
        /\ In(q).bij \in Leveranciers /\ In(q).primair
    BY <1>1, <1>2 DEF Soort, Plek, Statement, Geschrift, ContactOps
  <1>5. \A c \in Contacten : c \in RijSleutels /\ Zicht(q)[c] = rij[c]
    BY <1>2, <1>4 DEF RijSleutels
  <1>6. R \subseteq RijSleutels
    BY DEF PrimairBij, RijSleutels
  <1>7. \A c \in R : c \in Contacten /\ rij[c].van = In(q).bij /\ rij[c].stand # "geen"
    <2>1. \A c \in R : c \in Contacten /\ rij[c].van = In(q).bij
      BY <1>5 DEF PrimairBij
    <2>2. In(q).bij # Geen
      BY <1>4, LeveranciersSleutels DEF RijSleutels
    <2> QED BY <1>6, <2>1, <2>2, NaarRij DEF IInv, Vast, Tabellen
  <1>8. \A c \in Contacten \ {In(q).doel} : rij[c].van = In(q).bij /\ rij[c].primair => c \in R
    BY <1>5 DEF PrimairBij
  <1> HIDE DEF R
  <1>10. Plek(q)'
    <2>1. Statement(q)' /\ Geschrift(q)' /\ Lijst(q)' /\ Verdwijnt(q)'
      BY <1>1, <1>3, <1>4 DEF Statement, Geschrift, Lijst, Verdwijnt
    <2>2. Sleutel(q)'
      BY <1>1, <1>2, <1>3, <1>4, <1>7 DEF Plek, Sleutel, ContactOps, ContractOps
    <2>3. In(q).bij \notin samen => Aanspreek(q)'
      BY <1>1, <1>2, <1>3, <1>8 DEF Plek, Aanspreek, ContactOps
    <2> QED BY <1>3, <2>1, <2>2, <2>3 DEF Plek
  <1> QED BY <1>1, <1>2, <1>3, <1>6, <1>10, KiestStap DEF Rust

LEMMA StapKiesOpvolger ==
    ASSUME IInv, NEW q \in Verzoeken, KiesOpvolger(q)
    PROVE  IInv'
  <1> DEFINE K == ContactenVan(q, In(q).bij)
  <1>1. verzoek[q].pc = "opvolger" /\ Blijft
    BY DEF KiesOpvolger
  <1>0. PICK R : Kiest(q, R, "opvolgerAan") /\ ((R = {} /\ K = {}) \/ \E c \in K : R = {c})
    BY DEF KiesOpvolger
  <1>2. /\ q \in Lopend /\ Soort(q) /\ Plek(q) /\ DOMAIN rij = RijSleutels
        /\ \A r \in RijSleutels :
             Zicht(q)[r] = IF r \in Geschreven(q) THEN Wordt(q, r) ELSE rij[r]
    BY <1>1, Bezig DEF Rust
  <1>3. /\ Vorm' /\ Anders(q) /\ verzoek'[q].pc = "opvolgerAan" /\ verzoek'[q].gekozen = R
        /\ verzoek'[q].op = verzoek[q].op /\ verzoek'[q].invoer = verzoek[q].invoer
        /\ verzoek'[q].schrijf = verzoek[q].schrijf
        /\ In(q)' = In(q) /\ Geschreven(q)' = Geschreven(q) /\ rij' = rij /\ samen' = samen
        /\ \A r : Wordt(q, r)' = Wordt(q, r)
        /\ Zicht(q)' = Zicht(q) /\ uitgezet' = uitgezet
    BY <1>0, <1>1, <1>2, GekozenFeit
  <1>4. /\ verzoek[q].op = "verwijderContact" /\ Geschreven(q) = {In(q).doel}
        /\ Wordt(q, In(q).doel).stand = "weg" /\ In(q).doel \in Contacten
    BY <1>1, <1>2 DEF Soort, Plek, Statement, Geschrift, ContactOps
  <1>5. \A c \in Contacten : Live(q, c) => c \in RijSleutels /\ Zicht(q)[c] = rij[c]
    BY <1>2, <1>4 DEF RijSleutels, Live
  <1>6. R \subseteq RijSleutels
    BY <1>0 DEF ContactenVan, RijSleutels
  <1>7. \A c \in R : c \in Contacten /\ rij[c].van = In(q).bij /\ rij[c].stand # "geen"
    BY <1>0, <1>5 DEF ContactenVan, Live
  <1>8. \/ R = {} /\ \A c \in Contacten : ~ HeeftNu(q, In(q).bij, c)
        \/ \E c \in Contacten : R = {c} /\ HeeftNu(q, In(q).bij, c)
    BY <1>0, <1>5 DEF ContactenVan, HeeftNu
  <1>9. \A c : HeeftNu(q, In(q).bij, c)' = HeeftNu(q, In(q).bij, c)
    BY <1>3 DEF HeeftNu, Live
  <1>10. Plek(q)'
    <2>1. Statement(q)' /\ Geschrift(q)' /\ Lijst(q)' /\ Verdwijnt(q)'
      BY <1>1, <1>3, <1>4 DEF Statement, Geschrift, Lijst, Verdwijnt
    <2>2. Sleutel(q)'
      BY <1>1, <1>2, <1>3, <1>4, <1>7 DEF Plek, Sleutel, ContactOps, ContractOps
    <2>3. In(q).bij \notin samen => Aanspreek(q)'
      BY <1>1, <1>2, <1>3, <1>4, <1>8, <1>9 DEF Plek, Aanspreek, ContactOps
    <2> QED BY <1>3, <2>1, <2>2, <2>3 DEF Plek
  <1> QED BY <1>1, <1>2, <1>3, <1>6, <1>10, KiestStap DEF Rust

LEMMA StapKiesLijst ==
    ASSUME IInv, NEW q \in Verzoeken, KiesLijst(q)
    PROVE  IInv'
  <1> DEFINE R == {y \in Koppelrijen : LijstVan[y] = In(q).bij /\ Live(q, y)}
  <1>1. verzoek[q].pc = "lijst" /\ Blijft /\ Kiest(q, R, "lijstWeg")
    BY DEF KiesLijst
  <1>2. /\ q \in Lopend /\ Soort(q) /\ Plek(q) /\ DOMAIN rij = RijSleutels
        /\ \A r \in RijSleutels :
             Zicht(q)[r] = IF r \in Geschreven(q) THEN Wordt(q, r) ELSE rij[r]
    BY <1>1, Bezig DEF Rust
  <1>3. /\ Vorm' /\ Anders(q) /\ verzoek'[q].pc = "lijstWeg" /\ verzoek'[q].gekozen = R
        /\ verzoek'[q].op = verzoek[q].op /\ verzoek'[q].invoer = verzoek[q].invoer
        /\ verzoek'[q].schrijf = verzoek[q].schrijf
        /\ In(q)' = In(q) /\ Geschreven(q)' = Geschreven(q) /\ rij' = rij /\ samen' = samen
        /\ \A r : Wordt(q, r)' = Wordt(q, r)
        /\ Zicht(q)' = Zicht(q) /\ uitgezet' = uitgezet
    BY <1>1, <1>2, GekozenFeit
  <1>4. verzoek[q].op = "vervang" /\ Geschreven(q) = {}
    BY <1>1, <1>2 DEF Plek, Statement, Geschrift
  <1>5. \A y \in Koppelrijen : y \in RijSleutels /\ Zicht(q)[y] = rij[y]
    BY <1>2, <1>4 DEF RijSleutels
  <1>6. R \subseteq RijSleutels
    BY DEF RijSleutels
  <1>8. \A y \in Koppelrijen : LijstVan[y] = In(q).bij /\ rij[y].stand = "live" => y \in R
    BY <1>5 DEF Live
  <1>9. \A y \in R : y \in Koppelrijen /\ LijstVan[y] = In(q).bij
    OBVIOUS
  <1> HIDE DEF R
  <1>10. Plek(q)'
    BY <1>1, <1>3, <1>4, <1>8, <1>9 DEF Plek, Statement, Geschrift, Sleutel, Lijst, Verdwijnt,
       Aanspreek, ContactOps, ContractOps
  <1> QED BY <1>1, <1>2, <1>3, <1>6, <1>10, KiestStap DEF Rust

-----------------------------------------------------------------------------
(* Statements that write.                                                  *)

LEMMA StapSchrijfNieuwe ==
    ASSUME IInv, NEW q \in Verzoeken, SchrijfNieuwe(q)
    PROVE  IInv'
  <1> DEFINE l == In(q).bij
             c == In(q).doel
             R == {l, c} \ {Geen}
             wordt == [r \in {l, c} |-> IF r = l THEN NieuweLeverancier(In(q).kvk, In(q).code)
                                        ELSE NieuwContact(l, TRUE)]
  <1>1. /\ verzoek[q].pc = "leverancier" /\ verzoek[q].op = "maakAan" /\ Blijft
        /\ CodesVrij(q) /\ CodesBekend(q) /\ Schrijft(q, R, wordt, "commit")
    BY DEF SchrijfNieuwe, Op
  <1>2. q \in Lopend /\ Soort(q) /\ Plek(q) /\ In(q) \in InvoerSoort
    BY <1>1, Bezig DEF Rust
  <1>3. /\ l \in Leveranciers /\ c \in Contacten \cup {Geen} /\ Geschreven(q) = {}
        /\ In(q).kvk \in KvkNummers \cup {Geen} /\ In(q).code \in Categorieen \cup {Geen}
    BY <1>1, <1>2 DEF Soort, Plek, Geschrift, LeverancierOps, InvoerSoort
  <1>4. /\ l # c /\ l # Geen /\ R \subseteq RijSleutels /\ R \cap Codes = {}
        /\ R \subseteq Leveranciers \cup Contacten /\ l \in R
        /\ \A r \in R : (r \in Leveranciers <=> r = l) /\ (r # l => r = c)
    BY <1>3, LeveranciersSleutels DEF RijSleutels
  <1>5. /\ wordt[l] \in RijSoort /\ wordt[l].stand = "live" /\ wordt[l].code = In(q).code
        /\ \A r \in R \ {l} : /\ wordt[r] \in RijSoort /\ wordt[r].stand = "live"
                              /\ wordt[r].van = l /\ wordt[r].primair = TRUE
                              /\ wordt[r].code = Geen
    <2>1. wordt[l] = NieuweLeverancier(In(q).kvk, In(q).code)
      OBVIOUS
    <2>2. \A r \in R \ {l} : wordt[r] = NieuwContact(l, TRUE)
      OBVIOUS
    <2> HIDE DEF wordt, R
    <2>3. /\ wordt[l] \in RijSoort /\ wordt[l].stand = "live" /\ wordt[l].code = In(q).code
      BY <1>3, <2>1 DEF NieuweLeverancier, GeenRij, RijSoort
    <2>4. NieuwContact(l, TRUE) \in RijSoort /\ NieuwContact(l, TRUE).stand = "live"
          /\ NieuwContact(l, TRUE).van = l /\ NieuwContact(l, TRUE).primair = TRUE
          /\ NieuwContact(l, TRUE).code = Geen
      BY <1>3 DEF NieuwContact, GeenRij, RijSoort
    <2> QED BY <2>2, <2>3, <2>4
  <1> HIDE DEF wordt, R
  <1>6. Schrijfbaar(q, R, wordt)
    BY <1>1, <1>4, <1>5, LeveranciersSleutels DEF Schrijfbaar, RijGoed, Maakt
  <1>7. CodeSlot'
    <2>1. ASSUME NEW r \in R, NEW k \in Codes, Verwijst(r, wordt[r], k)
          PROVE  rij[k].stand = "live" /\ \A p \in Verzoeken : k \notin Geschreven(p)
      <3>1. k = In(q).code /\ k # Geen
        BY <1>4, <1>5, <2>1, LeveranciersSleutels DEF Verwijst, RijSleutels
      <3>2. k \in Genoemd(q)
        BY <1>1, <3>1 DEF Genoemd
      <3> QED BY <1>1, <1>3, <3>2 DEF CodesBekend, CodesVrij, Vrij, Geschreven
    <2> QED BY <1>1, <1>4, <2>1, CodeSlotSchrijft
  <1>8. Schreef(q, R, wordt, "commit")
    BY <1>1, SchreefFeit
  <1>9. Plek(q)'
    <2>1. (Statement(q) /\ Geschrift(q) /\ Lijst(q) /\ Verdwijnt(q) /\ Aanspreek(q))'
      BY <1>1, <1>4, <1>8 DEF Schreef, Statement, Geschrift, Lijst, Verdwijnt, Aanspreek, ContactOps
    <2>2. Sleutel(q)'
      BY <1>2, <1>8, SleutelBlijft DEF Plek
    <2> QED BY <2>1, <2>2 DEF Plek
  <1> QED BY <1>1, <1>2, <1>6, <1>7, <1>9, SchrijftStap DEF Rust

LEMMA StapSchrijfWijziging ==
    ASSUME IInv, NEW q \in Verzoeken, SchrijfWijziging(q)
    PROVE  IInv'
  <1> DEFINE l == In(q).bij
             R == {l}
             wordt == [r \in {l} |-> [rij[l] EXCEPT !.kvk = In(q).kvk, !.code = In(q).code]]
  <1>1. /\ verzoek[q].pc = "leverancier" /\ verzoek[q].op = "wijzig" /\ Blijft
        /\ CodesVrij(q) /\ CodesBekend(q) /\ Schrijft(q, R, wordt, "commit")
    BY DEF SchrijfWijziging, Op
  <1>2. q \in Lopend /\ Soort(q) /\ Plek(q) /\ In(q) \in InvoerSoort
    BY <1>1, Bezig DEF Rust
  <1>3. /\ l \in Leveranciers /\ Geschreven(q) = {}
        /\ In(q).kvk \in KvkNummers \cup {Geen} /\ In(q).code \in Categorieen \cup {Geen}
        /\ rij[l].stand # "geen"
    BY <1>1, <1>2 DEF Soort, Plek, Geschrift, Sleutel, LeverancierOps, InvoerSoort
  <1>4. R \subseteq RijSleutels /\ R \cap Codes = {} /\ rij[l] \in RijSoort /\ R = {l}
    BY <1>3, LeveranciersSleutels DEF RijSleutels, IInv, TypeOK
  <1>5. /\ wordt[l] \in RijSoort /\ wordt[l].stand = rij[l].stand
        /\ wordt[l].code = In(q).code
    BY <1>3, <1>4 DEF RijSoort
  <1> HIDE DEF wordt, R
  <1>6. Schrijfbaar(q, R, wordt)
    BY <1>1, <1>3, <1>4, <1>5, LeveranciersSleutels DEF Schrijfbaar, RijGoed
  <1>7. CodeSlot'
    <2>1. ASSUME NEW r \in R, NEW k \in Codes, Verwijst(r, wordt[r], k)
          PROVE  rij[k].stand = "live" /\ \A p \in Verzoeken : k \notin Geschreven(p)
      <3>1. k = In(q).code /\ k # Geen
        BY <1>3, <1>4, <1>5, <2>1, LeveranciersSleutels DEF Verwijst, RijSleutels
      <3>2. k \in Genoemd(q)
        BY <1>1, <3>1 DEF Genoemd
      <3> QED BY <1>1, <1>3, <3>2 DEF CodesBekend, CodesVrij, Vrij, Geschreven
    <2> QED BY <1>1, <1>4, <2>1, CodeSlotSchrijft
  <1>8. Schreef(q, R, wordt, "commit")
    BY <1>1, SchreefFeit
  <1>9. Plek(q)'
    <2>1. (Statement(q) /\ Geschrift(q) /\ Lijst(q) /\ Verdwijnt(q) /\ Aanspreek(q))'
      BY <1>1, <1>8 DEF Schreef, Statement, Geschrift, Lijst, Verdwijnt, Aanspreek, ContactOps
    <2>2. Sleutel(q)'
      BY <1>2, <1>8, SleutelBlijft DEF Plek
    <2> QED BY <2>1, <2>2 DEF Plek
  <1> QED BY <1>1, <1>2, <1>6, <1>7, <1>9, SchrijftStap DEF Rust

(* A row that is there refers to codes that stay.                          *)
LEMMA VerwijzingBlijft ==
    ASSUME IInv, NEW r \in Leveranciers, NEW c \in Codes, rij[r].stand # "geen", rij[r].code = c
    PROVE  rij[c].stand = "live" /\ \A p \in Verzoeken : c \notin Geschreven(p)
  <1>1. r \in Verwijzend(c) /\ r \notin Koppelrijen
    BY LeveranciersSleutels DEF Verwijzend, Verwijst
  <1> QED BY <1>1 DEF IInv, Vast, WeesAlleenBijOverlap, CodeSlot

LEMMA StapSchrijfVerwijderd ==
    ASSUME IInv, NEW q \in Verzoeken, SchrijfVerwijderd(q)
    PROVE  IInv'
  <1> DEFINE l == In(q).bij
             R == {l}
             wordt == [r \in {l} |-> [rij[l] EXCEPT !.stand = "weg"]]
  <1>1. /\ verzoek[q].pc = "leverancierWeg" /\ verzoek[q].op = "verwijder" /\ Blijft
        /\ \/ Live(q, l) /\ Schrijft(q, R, wordt, "contacten")
           \/ Weigert(q)
    BY DEF SchrijfVerwijderd, Op
  <1> HIDE DEF wordt, R
  <1>2. CASE Weigert(q)
    BY <1>1, <1>2, EindeStap DEF Weigert, Rust
  <1>3. CASE Live(q, l) /\ Schrijft(q, R, wordt, "contacten")
    <2>2. /\ q \in Lopend /\ Soort(q) /\ Plek(q)
          /\ \A r \in RijSleutels :
               Zicht(q)[r] = IF r \in Geschreven(q) THEN Wordt(q, r) ELSE rij[r]
      BY <1>1, Bezig DEF Rust
    <2>3. l \in Leveranciers /\ Geschreven(q) = {}
      BY <1>1, <2>2 DEF Soort, Plek, Geschrift, LeverancierOps
    <2>4. /\ R \subseteq RijSleutels /\ R \cap Codes = {} /\ rij[l] \in RijSoort
          /\ rij[l].stand = "live" /\ R = {l}
      BY <1>3, <2>2, <2>3, LeveranciersSleutels DEF RijSleutels, IInv, TypeOK, Live, R
    <2>5. wordt[l] \in RijSoort /\ wordt[l].stand = "weg" /\ wordt[l].code = rij[l].code
      BY <2>4 DEF RijSoort, wordt
    <2>6. Schrijfbaar(q, R, wordt)
      BY <1>1, <2>3, <2>4, <2>5, LeveranciersSleutels DEF Schrijfbaar, RijGoed
    <2>7. CodeSlot'
      <3>1. ASSUME NEW r \in R, NEW k \in Codes, Verwijst(r, wordt[r], k)
            PROVE  rij[k].stand = "live" /\ \A p \in Verzoeken : k \notin Geschreven(p)
        <4>1. k = rij[l].code
          BY <2>3, <2>4, <2>5, <3>1, LeveranciersSleutels DEF Verwijst, RijSleutels
        <4> QED BY <2>3, <2>4, <4>1, VerwijzingBlijft
      <3> QED BY <1>1, <1>3, <2>4, <3>1, CodeSlotSchrijft
    <2>8. Schreef(q, R, wordt, "contacten")
      BY <1>1, <1>3, SchreefFeit
    <2>9. Plek(q)'
      <3>1. (Statement(q) /\ Geschrift(q) /\ Lijst(q) /\ Verdwijnt(q) /\ Aanspreek(q))'
        BY <1>1, <2>3, <2>4, <2>8 DEF Schreef, Statement, Geschrift, Lijst, Verdwijnt, Aanspreek,
           ContactOps
      <3>2. Sleutel(q)'
        BY <2>2, <2>8, SleutelBlijft DEF Plek
      <3> QED BY <3>1, <3>2 DEF Plek
    <2> QED BY <1>1, <1>3, <2>2, <2>6, <2>7, <2>9, SchrijftStap DEF Rust
  <1> QED BY <1>1, <1>2, <1>3

(* Contacts and contracts refer to no code.                                *)
LEMMA CodeSlotContact ==
    ASSUME IInv, NEW q \in Verzoeken, NEW R, R \subseteq Contacten \cup Contracten, NEW wordt,
           NEW pc, Schrijft(q, R, wordt, pc), Blijft, \A r \in R : wordt[r].code = Geen
    PROVE  CodeSlot'
  <1>1. R \cap Codes = {} /\ R \cap Koppelrijen = {} /\ Geen \notin Codes
    BY LeveranciersSleutels DEF RijSleutels
  <1>2. \A r \in R : \A c \in Codes : ~ Verwijst(r, wordt[r], c)
    BY <1>1 DEF Verwijst
  <1> QED BY <1>1, <1>2, CodeSlotSchrijft

LEMMA StapSchrijfContactenWeg ==
    ASSUME IInv, NEW q \in Verzoeken, SchrijfContactenWeg(q)
    PROVE  IInv'
  <1> DEFINE l == In(q).bij
             R == {c \in verzoek[q].gekozen : Live(q, c)}
             wordt == [c \in R |-> [rij[c] EXCEPT !.stand = "weg"]]
  <1>1. /\ verzoek[q].pc = "contactenWeg" /\ verzoek[q].op = "verwijder" /\ Blijft
        /\ Schrijft(q, R, wordt, "commit")
    BY DEF SchrijfContactenWeg, Op
  <1>a. R = {c \in verzoek[q].gekozen : Live(q, c)}
    OBVIOUS
  <1> HIDE DEF wordt, R
  <1>2. /\ q \in Lopend /\ Soort(q) /\ Plek(q)
        /\ \A r \in RijSleutels :
             Zicht(q)[r] = IF r \in Geschreven(q) THEN Wordt(q, r) ELSE rij[r]
    BY <1>1, Bezig DEF Rust
  <1>3. /\ l \in Leveranciers /\ Geschreven(q) = {l}
        /\ \A c \in R : c \in Contacten /\ rij[c].van = l /\ rij[c].stand # "geen"
    BY <1>1, <1>2, <1>a DEF Soort, Plek, Geschrift, Sleutel, LeverancierOps
  <1>4. R \subseteq RijSleutels /\ R \subseteq Contacten
    BY <1>3 DEF RijSleutels
  <1>5. \A c \in R : /\ wordt[c] \in RijSoort /\ wordt[c].stand = "weg"
                    /\ wordt[c].van = l /\ wordt[c].code = Geen
    <2> TAKE c \in R
    <2>1. rij[c].code = Geen /\ rij[c] \in RijSoort /\ rij[c].van = l
      BY <1>3, <1>4, LeveranciersSleutels DEF IInv, TypeOK, Vast, Tabellen
    <2> QED BY <2>1 DEF RijSoort, wordt
  <1>6. Schrijfbaar(q, R, wordt)
    BY <1>1, <1>3, <1>4, <1>5, LeveranciersSleutels DEF Schrijfbaar, RijGoed
  <1>7. CodeSlot'
    BY <1>1, <1>4, <1>5, CodeSlotContact
  <1>8. Schreef(q, R, wordt, "commit")
    BY <1>1, SchreefFeit
  <1>9. l \notin samen => Verdwijnt(q)'
    <2> SUFFICES ASSUME l \notin samen, NEW c \in Contacten, HeeftNu(q, l, c)'
                 PROVE  FALSE
      BY <1>8 DEF Verdwijnt, Schreef
    <2>0. c \in RijSleutels /\ Zicht(q)'[c].van = l /\ Zicht(q)'[c].stand = "live"
      BY <1>8 DEF HeeftNu, Live, RijSleutels, Schreef
    <2>1. c \notin R /\ HeeftNu(q, l, c)
      BY <1>5, <1>8, <2>0 DEF HeeftNu, Live, Schreef
    <2>2. c \in verzoek[q].gekozen /\ Live(q, c)
      BY <1>1, <1>2, <2>1 DEF Plek, Verdwijnt, HeeftNu
    <2> QED BY <1>a, <2>1, <2>2
  <1>10. Plek(q)'
    <2>1. (Statement(q) /\ Geschrift(q) /\ Lijst(q) /\ Aanspreek(q))'
      BY <1>1, <1>3, <1>8 DEF Schreef, Statement, Geschrift, Lijst, Aanspreek, ContactOps
    <2>2. Sleutel(q)'
      BY <1>2, <1>8, SleutelBlijft DEF Plek
    <2> QED BY <1>8, <1>9, <2>1, <2>2 DEF Plek, Schreef
  <1> QED BY <1>1, <1>2, <1>6, <1>7, <1>10, SchrijftStap DEF Rust

LEMMA StapSchrijfAnderen ==
    ASSUME IInv, NEW q \in Verzoeken, SchrijfAnderen(q)
    PROVE  IInv'
  <1> DEFINE l == In(q).bij
             d == In(q).doel
             R == {c \in verzoek[q].gekozen : Zicht(q)[c].primair}
             wordt == [c \in R |-> [rij[c] EXCEPT !.primair = FALSE]]
  <1>1. verzoek[q].pc = "anderenUit" /\ Blijft /\ Schrijft(q, R, wordt, "contact")
    BY DEF SchrijfAnderen
  <1>a. R = {c \in verzoek[q].gekozen : Zicht(q)[c].primair}
    OBVIOUS
  <1> HIDE DEF wordt, R
  <1>2. /\ q \in Lopend /\ Soort(q) /\ Plek(q)
        /\ \A r \in RijSleutels :
             Zicht(q)[r] = IF r \in Geschreven(q) THEN Wordt(q, r) ELSE rij[r]
    BY <1>1, Bezig DEF Rust
  <1>3. /\ l \in Leveranciers /\ Geschreven(q) = {} /\ In(q).primair
        /\ verzoek[q].op \in {"voegContactToe", "wijzigContact"}
        /\ \A c \in R : c \in Contacten /\ rij[c].van = l /\ rij[c].stand # "geen"
    BY <1>1, <1>2, <1>a DEF Soort, Plek, Statement, Geschrift, Sleutel, ContactOps
  <1>4. R \subseteq RijSleutels /\ R \subseteq Contacten
    BY <1>3 DEF RijSleutels
  <1>5. \A c \in R : /\ wordt[c] \in RijSoort /\ wordt[c].stand = rij[c].stand
                    /\ wordt[c].van = l /\ wordt[c].code = Geen /\ wordt[c].primair = FALSE
    <2> TAKE c \in R
    <2>1. rij[c].code = Geen /\ rij[c] \in RijSoort /\ rij[c].van = l
      BY <1>3, <1>4, LeveranciersSleutels DEF IInv, TypeOK, Vast, Tabellen
    <2> QED BY <2>1 DEF RijSoort, wordt
  <1>6. Schrijfbaar(q, R, wordt)
    BY <1>1, <1>3, <1>4, <1>5, LeveranciersSleutels DEF Schrijfbaar, RijGoed, ContactOps
  <1>7. CodeSlot'
    BY <1>1, <1>4, <1>5, CodeSlotContact
  <1>8. Schreef(q, R, wordt, "contact")
    BY <1>1, SchreefFeit
  <1>9. l \notin samen => \A c \in Contacten \ {d} : Zicht(q)'[c].van = l => ~ Zicht(q)'[c].primair
    <2> SUFFICES ASSUME l \notin samen, NEW c \in Contacten \ {d}, Zicht(q)'[c].van = l,
                        Zicht(q)'[c].primair
                 PROVE  FALSE
      OBVIOUS
    <2>1. c \notin R /\ Zicht(q)'[c] = Zicht(q)[c] /\ Zicht(q)[c] = rij[c]
      BY <1>2, <1>3, <1>5, <1>8 DEF RijSleutels, Schreef
    <2>2. c \in verzoek[q].gekozen
      BY <1>1, <1>2, <1>3, <2>1 DEF Plek, Aanspreek, ContactOps
    <2> QED BY <1>a, <2>1, <2>2
  <1>10. Plek(q)'
    <2>1. (Statement(q) /\ Geschrift(q) /\ Lijst(q) /\ Verdwijnt(q))'
      BY <1>1, <1>3, <1>8 DEF Schreef, Statement, Geschrift, Lijst, Verdwijnt
    <2>2. Sleutel(q)'
      BY <1>2, <1>8, SleutelBlijft DEF Plek
    <2>3. l \notin samen => Aanspreek(q)'
      BY <1>1, <1>2, <1>3, <1>8, <1>9 DEF Schreef, Plek, Aanspreek
    <2> QED BY <1>8, <2>1, <2>2, <2>3 DEF Plek, Schreef
  <1> QED BY <1>1, <1>2, <1>6, <1>7, <1>10, SchrijftStap DEF Rust

LEMMA StapSchrijfContact ==
    ASSUME IInv, NEW q \in Verzoeken, SchrijfContact(q)
    PROVE  IInv'
  <1> DEFINE l == In(q).bij
             d == In(q).doel
             R == {d}
             wordt == [r \in {d} |-> IF verzoek[q].op = "voegContactToe"
                                     THEN NieuwContact(l, In(q).primair)
                                     ELSE [rij[d] EXCEPT !.primair = In(q).primair]]
  <1>1. verzoek[q].pc = "contact" /\ Blijft /\ Schrijft(q, R, wordt, "commit")
    BY DEF SchrijfContact
  <1>2. /\ q \in Lopend /\ Soort(q) /\ Plek(q) /\ In(q) \in InvoerSoort
        /\ \A r \in RijSleutels :
             Zicht(q)[r] = IF r \in Geschreven(q) THEN Wordt(q, r) ELSE rij[r]
    BY <1>1, Bezig DEF Rust
  <1>3. /\ l \in Leveranciers /\ d \in Contacten /\ In(q).primair \in BOOLEAN
        /\ verzoek[q].op \in {"voegContactToe", "wijzigContact"}
    BY <1>1, <1>2 DEF Soort, Plek, Statement, ContactOps, InvoerSoort
  <1>4. /\ R \subseteq RijSleutels /\ R \subseteq Contacten /\ R = {d}
        /\ verzoek[q].op = "voegContactToe" => rij[d].stand = "geen"
        /\ verzoek[q].op = "wijzigContact" => rij[d].stand # "geen" /\ rij[d].van = l
    BY <1>2, <1>3 DEF RijSleutels, Plek, Sleutel
  <1>5. /\ wordt[d] \in RijSoort /\ wordt[d].van = l /\ wordt[d].code = Geen
        /\ wordt[d].primair = In(q).primair
        /\ wordt[d].stand = IF verzoek[q].op = "voegContactToe" THEN "live" ELSE rij[d].stand
    <2>1. CASE verzoek[q].op = "voegContactToe"
      <3>1. wordt[d] = NieuwContact(l, In(q).primair)
        BY <2>1
      <3> HIDE DEF wordt
      <3> QED BY <1>3, <2>1, <3>1 DEF NieuwContact, GeenRij, RijSoort
    <2>2. CASE verzoek[q].op = "wijzigContact"
      <3>1. wordt[d] = [rij[d] EXCEPT !.primair = In(q).primair]
        BY <2>2
      <3> HIDE DEF wordt
      <3>2. rij[d] \in RijSoort /\ rij[d].code = Geen /\ rij[d].van = l
        BY <1>3, <1>4, <2>2, LeveranciersSleutels DEF IInv, TypeOK, Vast, Tabellen, RijSleutels
      <3> QED BY <1>3, <2>2, <3>1, <3>2 DEF RijSoort
    <2> QED BY <1>3, <2>1, <2>2
  <1> HIDE DEF wordt, R
  <1>6. Schrijfbaar(q, R, wordt)
    BY <1>1, <1>3, <1>4, <1>5, LeveranciersSleutels DEF Schrijfbaar, RijGoed, ContactOps, Maakt
  <1>7. CodeSlot'
    BY <1>1, <1>4, <1>5, CodeSlotContact
  <1>8. Schreef(q, R, wordt, "commit")
    BY <1>1, SchreefFeit
  <1>9. ASSUME l \notin samen PROVE Een(q, l)'
    <2>1. /\ \A c \in Contacten \ {d} : Zicht(q)'[c] = Zicht(q)[c]
          /\ Zicht(q)'[d] = wordt[d] /\ uitgezet' = uitgezet /\ In(q)' = In(q)
      BY <1>3, <1>4, <1>8 DEF RijSleutels, Schreef
    <2>2. CASE In(q).primair
      <3>1. \A c \in Contacten \ {d} : Zicht(q)[c].van = l => ~ Zicht(q)[c].primair
        BY <1>1, <1>2, <1>3, <1>9, <2>2 DEF Plek, Aanspreek, ContactOps
      <3>2. wordt[d].stand = "live"
        BY <1>1, <1>2, <1>3, <1>5, <1>9 DEF Plek, Aanspreek, ContactOps
      <3> QED BY <1>3, <1>5, <2>1, <2>2, <3>1, <3>2 DEF Een, HeeftNu, Live
    <2>3. CASE ~ In(q).primair
      <3>1. \A c \in Contacten : Zicht(q)[c] = rij[c]
        BY <1>1, <1>2, <2>3 DEF Plek, Geschrift, RijSleutels
      <3>2. /\ \A c, e \in Contacten :
                 Bij(l, c) /\ Bij(l, e) /\ rij[c].primair /\ rij[e].primair => c = e
            /\ l \notin uitgezet => \A c \in Contacten : Bij(l, c) =>
                 \E e \in Contacten : Bij(l, e) /\ rij[e].primair
        BY <1>3, <1>9 DEF IInv, Vast, EenPrimair
      <3>3. \/ l \in uitgezet
            \/ rij[d].stand = "geen" /\ \E c \in Contacten : Bij(l, c)
        BY <1>1, <1>2, <1>3, <1>4, <1>9, <2>3 DEF Plek, Aanspreek, ContactOps, Bij
      <3>4. \A c, e \in Contacten : HeeftNu(q, l, c)' /\ HeeftNu(q, l, e)'
              /\ Zicht(q)'[c].primair /\ Zicht(q)'[e].primair => c = e
        BY <1>5, <2>1, <2>3, <3>1, <3>2 DEF HeeftNu, Live, Bij
      <3>5. l \notin uitgezet' =>
              \E e \in Contacten : HeeftNu(q, l, e)' /\ Zicht(q)'[e].primair
        BY <2>1, <3>1, <3>2, <3>3 DEF HeeftNu, Live, Bij
      <3> QED BY <2>1, <3>4, <3>5 DEF Een
    <2> QED BY <2>2, <2>3
  <1>10. Plek(q)'
    <2>1. (Statement(q) /\ Geschrift(q) /\ Lijst(q) /\ Verdwijnt(q))'
      BY <1>1, <1>3, <1>8 DEF Schreef, Statement, Geschrift, Lijst, Verdwijnt
    <2>2. Sleutel(q)'
      BY <1>2, <1>8, SleutelBlijft DEF Plek
    <2>3. l \notin samen => Aanspreek(q)'
      BY <1>1, <1>2, <1>3, <1>8, <1>9 DEF Schreef, Plek, Aanspreek, ContactOps
    <2> QED BY <1>8, <2>1, <2>2, <2>3 DEF Plek, Schreef
  <1> QED BY <1>1, <1>2, <1>6, <1>7, <1>10, SchrijftStap DEF Rust

LEMMA StapSchrijfContactWeg ==
    ASSUME IInv, NEW q \in Verzoeken, SchrijfContactWeg(q)
    PROVE  IInv'
  <1> DEFINE l == In(q).bij
             d == In(q).doel
             R == {d}
             wordt == [r \in {d} |-> [rij[d] EXCEPT !.stand = "weg"]]
             pc == IF rij[d].primair THEN "opvolger" ELSE "commit"
  <1>1. /\ verzoek[q].pc = "contactWeg" /\ Blijft
        /\ \/ Live(q, d) /\ Schrijft(q, R, wordt, pc)
           \/ Weigert(q)
    BY DEF SchrijfContactWeg
  <1> HIDE DEF wordt, R, pc
  <1>b. CASE Weigert(q)
    BY <1>1, <1>b, EindeStap DEF Weigert, Rust
  <1>c. CASE Live(q, d) /\ Schrijft(q, R, wordt, pc)
    <2>2. /\ q \in Lopend /\ Soort(q) /\ Plek(q)
          /\ \A r \in RijSleutels :
               Zicht(q)[r] = IF r \in Geschreven(q) THEN Wordt(q, r) ELSE rij[r]
      BY <1>1, Bezig DEF Rust
    <2>3. /\ l \in Leveranciers /\ d \in Contacten /\ Geschreven(q) = {}
          /\ verzoek[q].op = "verwijderContact" /\ rij[d].van = l
      BY <1>1, <2>2 DEF Soort, Plek, Statement, Geschrift, Sleutel, ContactOps
    <2>4. /\ R \subseteq RijSleutels /\ R \subseteq Contacten /\ R = {d}
          /\ rij[d].stand = "live" /\ rij[d] \in RijSoort /\ rij[d].code = Geen
      BY <1>c, <2>2, <2>3, LeveranciersSleutels DEF RijSleutels, IInv, TypeOK, Vast, Tabellen, Live, R
    <2>5. /\ wordt[d] \in RijSoort /\ wordt[d].van = l /\ wordt[d].code = Geen
          /\ wordt[d].stand = "weg"
      BY <2>3, <2>4 DEF RijSoort, wordt
    <2>6. Schrijfbaar(q, R, wordt)
      BY <1>1, <2>3, <2>4, <2>5, LeveranciersSleutels DEF Schrijfbaar, RijGoed, ContactOps
    <2>7. CodeSlot'
      <3>1. \A r \in R : wordt[r].code = Geen
        BY <2>4, <2>5
      <3> QED BY <1>1, <1>c, <2>4, <3>1, CodeSlotContact
    <2>8. Schreef(q, R, wordt, pc)
      BY <1>1, <1>c, SchreefFeit
    <2>9. pc \in {"opvolger", "commit"} /\ (pc = "opvolger" => rij[d].primair)
          /\ (pc = "commit" => ~ rij[d].primair)
      BY DEF pc
    <2>10. ASSUME l \notin samen, pc = "commit" PROVE Een(q, l)'
      <3>1. /\ \A c \in Contacten \ {d} : Zicht(q)'[c] = rij[c]
            /\ Zicht(q)'[d] = wordt[d] /\ uitgezet' = uitgezet /\ In(q)' = In(q)
        BY <2>2, <2>3, <2>4, <2>8 DEF RijSleutels, Schreef
      <3>2. /\ \A c, e \in Contacten :
                 Bij(l, c) /\ Bij(l, e) /\ rij[c].primair /\ rij[e].primair => c = e
            /\ l \notin uitgezet => \A c \in Contacten : Bij(l, c) =>
                 \E e \in Contacten : Bij(l, e) /\ rij[e].primair
        BY <2>3, <2>10 DEF IInv, Vast, EenPrimair
      <3> QED BY <2>5, <2>9, <2>10, <3>1, <3>2 DEF Een, HeeftNu, Live, Bij
    <2>11. Plek(q)'
      <3>1. (Statement(q) /\ Geschrift(q) /\ Lijst(q) /\ Verdwijnt(q))'
        BY <1>1, <2>3, <2>4, <2>5, <2>8, <2>9 DEF Schreef, Statement, Geschrift, Lijst, Verdwijnt
      <3>2. Sleutel(q)'
        BY <2>2, <2>8, <2>9, SleutelBlijft DEF Plek
      <3>3. l \notin samen => Aanspreek(q)'
        BY <1>1, <2>2, <2>3, <2>4, <2>8, <2>9, <2>10 DEF Schreef, Plek, Aanspreek, ContactOps
      <3> QED BY <2>8, <3>1, <3>2, <3>3 DEF Plek, Schreef
    <2> QED BY <1>1, <1>c, <2>2, <2>6, <2>7, <2>9, <2>11, SchrijftStap DEF Rust
  <1> QED BY <1>1, <1>b, <1>c

LEMMA StapSchrijfOpvolger ==
    ASSUME IInv, NEW q \in Verzoeken, SchrijfOpvolger(q)
    PROVE  IInv'
  <1> DEFINE l == In(q).bij
             d == In(q).doel
             R == verzoek[q].gekozen
             wordt == [c \in R |-> [rij[c] EXCEPT !.primair = TRUE]]
  <1>1. verzoek[q].pc = "opvolgerAan" /\ Blijft /\ Schrijft(q, R, wordt, "commit")
    BY DEF SchrijfOpvolger
  <1>a. R = verzoek[q].gekozen
    OBVIOUS
  <1> HIDE DEF wordt, R
  <1>2. /\ q \in Lopend /\ Soort(q) /\ Plek(q)
        /\ \A r \in RijSleutels :
             Zicht(q)[r] = IF r \in Geschreven(q) THEN Wordt(q, r) ELSE rij[r]
    BY <1>1, Bezig DEF Rust
  <1>3. /\ l \in Leveranciers /\ d \in Contacten /\ Geschreven(q) = {d}
        /\ Wordt(q, d).stand = "weg" /\ verzoek[q].op = "verwijderContact" /\ rij[d].van = l
        /\ \A c \in R : c \in Contacten /\ rij[c].van = l /\ rij[c].stand # "geen"
    BY <1>1, <1>2, <1>a DEF Soort, Plek, Statement, Geschrift, Sleutel, ContactOps
  <1>4. R \subseteq RijSleutels /\ R \subseteq Contacten
    BY <1>3 DEF RijSleutels
  <1>5. \A c \in R : /\ wordt[c] \in RijSoort /\ wordt[c].stand = rij[c].stand
                    /\ wordt[c].van = l /\ wordt[c].code = Geen /\ wordt[c].primair = TRUE
    <2> TAKE c \in R
    <2>1. rij[c].code = Geen /\ rij[c] \in RijSoort /\ rij[c].van = l
      BY <1>3, <1>4, LeveranciersSleutels DEF IInv, TypeOK, Vast, Tabellen
    <2> QED BY <2>1 DEF RijSoort, wordt
  <1>6. Schrijfbaar(q, R, wordt)
    BY <1>1, <1>3, <1>4, <1>5, LeveranciersSleutels DEF Schrijfbaar, RijGoed, ContactOps
  <1>7. CodeSlot'
    BY <1>1, <1>4, <1>5, CodeSlotContact
  <1>8. Schreef(q, R, wordt, "commit")
    BY <1>1, SchreefFeit
  <1>9. ASSUME l \notin samen PROVE Een(q, l)'
    <2>0. \A c \in Contacten : c \in RijSleutels
      BY DEF RijSleutels
    <2>1. /\ \A c \in R : Zicht(q)'[c] = wordt[c]
          /\ \A c \in Contacten \ R : Zicht(q)'[c] = Zicht(q)[c]
          /\ \A c \in Contacten \ {d} : Zicht(q)[c] = rij[c]
          /\ Zicht(q)[d].stand = "weg" /\ uitgezet' = uitgezet /\ In(q)' = In(q)
      BY <1>2, <1>3, <1>4, <1>8, <2>0 DEF Schreef
    <2>2. \/ R = {} /\ \A c \in Contacten : ~ HeeftNu(q, l, c)
          \/ \E c \in Contacten : R = {c} /\ HeeftNu(q, l, c)
      BY <1>1, <1>2, <1>3, <1>9, <1>a DEF Plek, Aanspreek, ContactOps
    <2>3. CASE R = {} /\ \A c \in Contacten : ~ HeeftNu(q, l, c)
      BY <2>1, <2>3 DEF Een, HeeftNu, Live
    <2>4. ASSUME NEW c \in Contacten, R = {c}, HeeftNu(q, l, c)
          PROVE  Een(q, l)'
      <3>1. c # d /\ rij[c].stand = "live" /\ HeeftNu(q, l, c)' /\ Zicht(q)'[c].primair
        BY <1>5, <2>1, <2>4 DEF HeeftNu, Live
      <3>2. rij[d].primair /\ Bij(l, d)
        BY <1>1, <1>2, <1>3, <1>9 DEF Plek, Aanspreek, ContactOps, Bij
      <3>3. \A e \in Contacten : Bij(l, e) /\ rij[e].primair => e = d
        BY <1>3, <1>9, <3>2 DEF IInv, Vast, EenPrimair
      <3>4. \A e \in Contacten : HeeftNu(q, l, e)' /\ Zicht(q)'[e].primair => e = c
        BY <2>1, <2>4, <3>3 DEF HeeftNu, Live, Bij
      <3> QED BY <3>1, <3>4 DEF Een
    <2> QED BY <2>2, <2>3, <2>4
  <1>10. Plek(q)'
    <2>1. (Statement(q) /\ Geschrift(q) /\ Lijst(q) /\ Verdwijnt(q))'
      BY <1>1, <1>3, <1>8 DEF Schreef, Statement, Geschrift, Lijst, Verdwijnt
    <2>2. Sleutel(q)'
      BY <1>2, <1>8, SleutelBlijft DEF Plek
    <2>3. l \notin samen => Aanspreek(q)'
      BY <1>1, <1>2, <1>3, <1>8, <1>9 DEF Schreef, Plek, Aanspreek, ContactOps
    <2> QED BY <1>8, <2>1, <2>2, <2>3 DEF Plek, Schreef
  <1> QED BY <1>1, <1>2, <1>6, <1>7, <1>10, SchrijftStap DEF Rust

LEMMA StapSchrijfContract ==
    ASSUME IInv, NEW q \in Verzoeken, SchrijfContract(q)
    PROVE  IInv'
  <1> DEFINE l == In(q).bij
             k == In(q).doel
             R == {k}
             wordt == [r \in {k} |-> IF verzoek[q].op = "maakContract"
                                     THEN NieuwContract(l, In(q).contact)
                                     ELSE [rij[k] EXCEPT !.contact = In(q).contact]]
  <1>1. verzoek[q].pc = "contract" /\ Blijft /\ Schrijft(q, R, wordt, "commit")
    BY DEF SchrijfContract
  <1>2. q \in Lopend /\ Soort(q) /\ Plek(q) /\ In(q) \in InvoerSoort
    BY <1>1, Bezig DEF Rust
  <1>3. /\ l \in Leveranciers /\ k \in Contracten /\ In(q).contact \in Contacten \cup {Geen}
        /\ verzoek[q].op \in {"maakContract", "wijzigContract"} /\ rij[l].stand # "geen"
        /\ verzoek[q].op = "wijzigContract" => rij[k].stand # "geen"
    BY <1>1, <1>2 DEF Soort, Plek, Statement, Sleutel, ContractOps, InvoerSoort
  <1>4. R \subseteq RijSleutels /\ R \subseteq Contracten /\ R = {k}
    BY <1>3 DEF RijSleutels
  <1>5. /\ wordt[k] \in RijSoort /\ wordt[k].code = Geen /\ wordt[k].stand # "geen"
        /\ wordt[k].van \in Leveranciers /\ rij[wordt[k].van].stand # "geen"
    <2>1. CASE verzoek[q].op = "maakContract"
      <3>1. wordt[k] = NieuwContract(l, In(q).contact)
        BY <2>1
      <3> HIDE DEF wordt
      <3>2. wordt[k] \in RijSoort /\ wordt[k].code = Geen /\ wordt[k].stand = "live"
            /\ wordt[k].van = l
        BY <1>3, <3>1 DEF NieuwContract, GeenRij, RijSoort
      <3> QED BY <1>3, <3>2
    <2>2. CASE verzoek[q].op = "wijzigContract"
      <3>1. wordt[k] = [rij[k] EXCEPT !.contact = In(q).contact]
        BY <2>2
      <3> HIDE DEF wordt
      <3>2. /\ rij[k] \in RijSoort /\ rij[k].code = Geen /\ rij[k].stand # "geen"
            /\ rij[k].van \in Leveranciers /\ rij[rij[k].van].stand # "geen"
        BY <1>3, <2>2, LeveranciersSleutels DEF IInv, TypeOK, Vast, Tabellen, RijSleutels
      <3>3. /\ wordt[k] \in RijSoort /\ wordt[k].code = rij[k].code
            /\ wordt[k].stand = rij[k].stand /\ wordt[k].van = rij[k].van
        BY <1>3, <3>1, <3>2 DEF RijSoort
      <3> QED BY <3>2, <3>3
    <2> QED BY <1>3, <2>1, <2>2
  <1> HIDE DEF wordt, R
  <1>6. Schrijfbaar(q, R, wordt)
    BY <1>3, <1>4, <1>5, LeveranciersSleutels DEF Schrijfbaar, RijGoed, ContractOps
  <1>7. CodeSlot'
    <2>1. \A r \in R : wordt[r].code = Geen
      BY <1>4, <1>5
    <2> QED BY <1>1, <1>4, <2>1, CodeSlotContact
  <1>8. Schreef(q, R, wordt, "commit")
    BY <1>1, SchreefFeit
  <1>9. Plek(q)'
    <2>1. (Statement(q) /\ Geschrift(q) /\ Lijst(q) /\ Verdwijnt(q) /\ Aanspreek(q))'
      BY <1>3, <1>8 DEF Schreef, Statement, Geschrift, Lijst, Verdwijnt, Aanspreek, ContactOps
    <2>2. Sleutel(q)'
      BY <1>2, <1>8, SleutelBlijft DEF Plek
    <2> QED BY <2>1, <2>2 DEF Plek
  <1> QED BY <1>1, <1>2, <1>6, <1>7, <1>9, SchrijftStap DEF Rust

LEMMA StapSchrijfContractWeg ==
    ASSUME IInv, NEW q \in Verzoeken, SchrijfContractWeg(q)
    PROVE  IInv'
  <1> DEFINE k == In(q).doel
             R == {k}
             wordt == [r \in {k} |-> [rij[k] EXCEPT !.stand = "weg"]]
  <1>1. /\ verzoek[q].pc = "contractWeg" /\ Blijft
        /\ \/ Schrijft(q, R, wordt, "commit")
           \/ Weigert(q)
    BY DEF SchrijfContractWeg
  <1> HIDE DEF wordt, R
  <1>b. CASE Weigert(q)
    BY <1>1, <1>b, EindeStap DEF Weigert, Rust
  <1>c. CASE Schrijft(q, R, wordt, "commit")
    <2>2. q \in Lopend /\ Soort(q) /\ Plek(q)
      BY <1>1, Bezig DEF Rust
    <2>3. /\ k \in Contracten /\ verzoek[q].op = "verwijderContract" /\ rij[k].stand # "geen"
      BY <1>1, <2>2 DEF Soort, Plek, Statement, Sleutel, ContractOps
    <2>4. /\ R \subseteq RijSleutels /\ R \subseteq Contracten /\ R = {k}
          /\ rij[k] \in RijSoort /\ rij[k].code = Geen
          /\ rij[k].van \in Leveranciers /\ rij[rij[k].van].stand # "geen"
      BY <2>3, LeveranciersSleutels DEF RijSleutels, IInv, TypeOK, Vast, Tabellen, R
    <2>5. /\ wordt[k] \in RijSoort /\ wordt[k].van = rij[k].van /\ wordt[k].code = Geen
          /\ wordt[k].stand = "weg"
      BY <2>4 DEF RijSoort, wordt
    <2>6. Schrijfbaar(q, R, wordt)
      BY <2>3, <2>4, <2>5, LeveranciersSleutels DEF Schrijfbaar, RijGoed, ContractOps
    <2>7. CodeSlot'
      <3>1. \A r \in R : wordt[r].code = Geen
        BY <2>4, <2>5
      <3> QED BY <1>1, <1>c, <2>4, <3>1, CodeSlotContact
    <2>8. Schreef(q, R, wordt, "commit")
      BY <1>1, <1>c, SchreefFeit
    <2>9. Plek(q)'
      <3>1. (Statement(q) /\ Geschrift(q) /\ Lijst(q) /\ Verdwijnt(q) /\ Aanspreek(q))'
        BY <2>3, <2>8 DEF Schreef, Statement, Geschrift, Lijst, Verdwijnt, Aanspreek, ContactOps
      <3>2. Sleutel(q)'
        BY <2>2, <2>8, SleutelBlijft DEF Plek
      <3> QED BY <3>1, <3>2 DEF Plek
    <2> QED BY <1>1, <1>c, <2>2, <2>6, <2>7, <2>9, SchrijftStap DEF Rust
  <1> QED BY <1>1, <1>b, <1>c

LEMMA StapSchrijfLijstWeg ==
    ASSUME IInv, NEW q \in Verzoeken, SchrijfLijstWeg(q)
    PROVE  IInv'
  <1> DEFINE x == In(q).bij
             R == {y \in verzoek[q].gekozen : Live(q, y)}
             wordt == [y \in R |-> GeenRij]
  <1>1. verzoek[q].pc = "lijstWeg" /\ Blijft /\ Schrijft(q, R, wordt, "lijstNieuw")
    BY DEF SchrijfLijstWeg
  <1>a. R = {y \in verzoek[q].gekozen : Live(q, y)} /\ \A y \in R : wordt[y] = GeenRij
    OBVIOUS
  <1> HIDE DEF wordt, R
  <1>2. /\ q \in Lopend /\ Soort(q) /\ Plek(q)
        /\ \A r \in RijSleutels :
             Zicht(q)[r] = IF r \in Geschreven(q) THEN Wordt(q, r) ELSE rij[r]
    BY <1>1, Bezig DEF Rust
  <1>3. /\ verzoek[q].op = "vervang" /\ Geschreven(q) = {}
        /\ \A y \in R : y \in Koppelrijen /\ LijstVan[y] = x
    BY <1>1, <1>2, <1>a DEF Plek, Statement, Geschrift, Lijst
  <1>4. R \subseteq RijSleutels /\ R \cap Codes = {} /\ R \subseteq Koppelrijen
    BY <1>3, LeveranciersSleutels DEF RijSleutels
  <1>6. Schrijfbaar(q, R, wordt)
    BY <1>3, <1>4, <1>a, NaarRij, LeveranciersSleutels DEF Schrijfbaar, RijGoed
  <1>7. CodeSlot'
    <2>1. \A r \in R : \A c \in Codes : ~ Verwijst(r, wordt[r], c)
      BY <1>a, NaarRij DEF Verwijst
    <2> QED BY <1>1, <1>4, <2>1, CodeSlotSchrijft
  <1>8. Schreef(q, R, wordt, "lijstNieuw")
    BY <1>1, SchreefFeit
  <1>9. x \notin samen => \A y \in Koppelrijen : LijstVan[y] = x => Zicht(q)'[y].stand # "live"
    <2> SUFFICES ASSUME x \notin samen, NEW y \in Koppelrijen, LijstVan[y] = x,
                        Zicht(q)'[y].stand = "live"
                 PROVE  FALSE
      OBVIOUS
    <2>1. y \notin R /\ Zicht(q)'[y] = Zicht(q)[y] /\ Zicht(q)[y] = rij[y]
      BY <1>2, <1>3, <1>a, <1>8, NaarRij DEF RijSleutels, Schreef
    <2>2. y \in verzoek[q].gekozen /\ Live(q, y)
      BY <1>1, <1>2, <1>3, <2>1 DEF Plek, Lijst, Live
    <2> QED BY <1>a, <2>1, <2>2
  <1>10. Plek(q)'
    <2>1. (Statement(q) /\ Geschrift(q) /\ Verdwijnt(q) /\ Aanspreek(q))'
      BY <1>1, <1>3, <1>8 DEF Schreef, Statement, Geschrift, Aanspreek, Verdwijnt, ContactOps
    <2>2. Sleutel(q)'
      BY <1>2, <1>8, SleutelBlijft DEF Plek
    <2>3. Lijst(q)'
      BY <1>8, <1>9 DEF Lijst, Schreef, Live
    <2> QED BY <2>1, <2>2, <2>3 DEF Plek
  <1> QED BY <1>1, <1>2, <1>6, <1>7, <1>10, SchrijftStap DEF Rust

LEMMA StapSchrijfLijstNieuw ==
    ASSUME IInv, NEW q \in Verzoeken, SchrijfLijstNieuw(q)
    PROVE  IInv'
  <1> DEFINE x == In(q).bij
             R == In(q).wens
             wordt == [y \in R |-> [GeenRij EXCEPT !.stand = "live"]]
  <1>1. /\ verzoek[q].pc = "lijstNieuw" /\ Blijft /\ Schrijft(q, R, wordt, "commit")
        /\ CodesVrij(q) /\ CodesBekend(q)
    BY DEF SchrijfLijstNieuw
  <1>a. R = In(q).wens /\ \A y \in R : wordt[y] = [GeenRij EXCEPT !.stand = "live"]
    OBVIOUS
  <1> HIDE DEF wordt, R
  <1>2. q \in Lopend /\ Soort(q) /\ Plek(q) /\ Rijen(q) /\ In(q) \in InvoerSoort
    BY <1>1, Bezig DEF Rust
  <1>3. /\ verzoek[q].op = "vervang" /\ R \subseteq Koppelrijen
        /\ \A y \in R : LijstVan[y] = x
    BY <1>1, <1>2, <1>a DEF Soort, Plek, Statement, InvoerSoort
  <1>4. R \subseteq RijSleutels /\ R \cap Codes = {}
    BY <1>3, LeveranciersSleutels DEF RijSleutels
  <1>5. \A y \in R : wordt[y] \in RijSoort /\ wordt[y].stand = "live" /\ wordt[y].code = Geen
    BY <1>a DEF GeenRij, RijSoort
  <1>6. Schrijfbaar(q, R, wordt)
    BY <1>3, <1>4, <1>5, LeveranciersSleutels DEF Schrijfbaar, RijGoed
  <1>7. CodeSlot'
    <2>1. ASSUME NEW r \in R, NEW k \in Codes, Verwijst(r, wordt[r], k)
          PROVE  rij[k].stand = "live" /\ \A p \in Verzoeken : k \notin Geschreven(p)
      <3>1. k = CodeVan[r] /\ k # Geen
        BY <1>5, <2>1, LeveranciersSleutels DEF Verwijst, RijSleutels
      <3>2. k \in Genoemd(q)
        BY <1>1, <1>a, <3>1 DEF Genoemd
      <3>3. rij[k].stand = "live" /\ \A p \in Verzoeken \ {q} : k \notin Geschreven(p)
        BY <1>1, <3>2 DEF CodesBekend, CodesVrij, Vrij, Geschreven
      <3>4. k \notin Geschreven(q)
        BY <1>2, <1>3, <2>1 DEF Rijen, RijGoed, CodeOps
      <3> QED BY <3>3, <3>4
    <2> QED BY <1>1, <1>4, <2>1, CodeSlotSchrijft
  <1>8. Schreef(q, R, wordt, "commit")
    BY <1>1, SchreefFeit
  <1>9. Plek(q)'
    <2>1. (Statement(q) /\ Geschrift(q) /\ Verdwijnt(q) /\ Aanspreek(q))'
      BY <1>1, <1>3, <1>8 DEF Schreef, Statement, Geschrift, Aanspreek, Verdwijnt, ContactOps
    <2>2. Sleutel(q)'
      BY <1>2, <1>8, SleutelBlijft DEF Plek
    <2>3. Lijst(q)'
      <3>1. \A y \in In(q).wens : y \in Geschreven(q)' /\ Wordt(q, y)'.stand = "live"
        BY <1>a, <1>5, <1>8 DEF Schreef
      <3>2. x \notin samen => \A y \in Koppelrijen :
              LijstVan[y] = x /\ Zicht(q)'[y].stand = "live" => y \in In(q).wens
        <4> SUFFICES ASSUME x \notin samen, NEW y \in Koppelrijen, LijstVan[y] = x, y \notin R
                     PROVE  Zicht(q)'[y].stand # "live"
          BY <1>a
        <4>1. Zicht(q)'[y] = Zicht(q)[y]
          BY <1>8 DEF Schreef, RijSleutels
        <4> QED BY <1>1, <1>2, <1>3, <4>1 DEF Plek, Lijst, Live
      <3> QED BY <1>8, <3>1, <3>2 DEF Lijst, Schreef, Live
    <2> QED BY <2>1, <2>2, <2>3 DEF Plek
  <1> QED BY <1>1, <1>2, <1>6, <1>7, <1>9, SchrijftStap DEF Rust

LEMMA StapSchrijfCode ==
    ASSUME IInv, NEW q \in Verzoeken, SchrijfCode(q)
    PROVE  IInv'
  <1> DEFINE c == In(q).bij
             R == {c}
             wordt == [r \in {c} |-> [GeenRij EXCEPT !.stand = "live"]]
  <1>1. /\ verzoek[q].pc = "code" /\ Blijft
        /\ \/ ~ Live(q, c) /\ Schrijft(q, R, wordt, "commit")
           \/ Weigert(q)
    BY DEF SchrijfCode
  <1>a. R = {c} /\ wordt[c] = [GeenRij EXCEPT !.stand = "live"]
    OBVIOUS
  <1> HIDE DEF wordt, R
  <1>b. CASE Weigert(q)
    BY <1>1, <1>b, EindeStap DEF Weigert, Rust
  <1>c. CASE ~ Live(q, c) /\ Schrijft(q, R, wordt, "commit")
    <2>2. /\ q \in Lopend /\ Soort(q) /\ Plek(q)
          /\ \A r \in RijSleutels :
               Zicht(q)[r] = IF r \in Geschreven(q) THEN Wordt(q, r) ELSE rij[r]
      BY <1>1, Bezig DEF Rust
    <2>3. c \in Codes /\ verzoek[q].op = "maakCode" /\ Geschreven(q) = {}
      BY <1>1, <2>2 DEF Soort, Plek, Statement, Geschrift, CodeOps
    <2>4. /\ R \subseteq RijSleutels /\ rij[c].stand # "live" /\ c \notin Koppelrijen
          /\ c \notin Leveranciers /\ Geen \notin Codes
      BY <1>a, <1>c, <2>2, <2>3, LeveranciersSleutels DEF RijSleutels, Live
    <2>5. /\ wordt[c] \in RijSoort /\ wordt[c].code = Geen /\ wordt[c].stand = "live"
      BY <1>a DEF GeenRij, RijSoort
    <2>6. Schrijfbaar(q, R, wordt)
      BY <1>a, <2>3, <2>4, <2>5, LeveranciersSleutels DEF Schrijfbaar, RijGoed, CodeOps
    <2>8. Schreef(q, R, wordt, "commit") /\ Anders(q)
      BY <1>1, <1>c, SchreefFeit, SchrijftFeit DEF IInv
    <2>7. CodeSlot'
      <3>1. Verwijzend(c) = {} /\ \A k \in Codes : Verwijzend(k)' = Verwijzend(k)
        BY <2>3, <2>4, <2>8 DEF IInv, Vast, WeesAlleenBijOverlap, Verwijzend, Verwijst, Schreef
      <3>2. \A p \in Verzoeken \ {q} :
              Geschreven(p)' = Geschreven(p) /\ \A r : Wordt(p, r)' = Wordt(p, r)
        BY <2>8 DEF Anders, Geschreven, Wordt
      <3>3. Geschreven(q)' = {c} /\ \A r \in Geschreven(q)' : Wordt(q, r)' = wordt[c]
        BY <1>a, <2>3, <2>8 DEF Schreef
      <3>4. \A k \in Codes : ~ Verwijst(c, wordt[c], k)
        BY <2>4, <2>5 DEF Verwijst
      <3>5. ASSUME NEW p \in Verzoeken, NEW r \in Geschreven(p)', NEW k \in Codes,
                   Verwijst(r, Wordt(p, r)', k)
            PROVE  rij[k].stand = "live" /\ \A o \in Verzoeken : k \notin Geschreven(o)'
        <4>1. p # q
          BY <3>3, <3>4, <3>5 DEF Geschreven, Wordt
        <4>2. rij[k].stand = "live" /\ \A o \in Verzoeken : k \notin Geschreven(o)
          BY <3>2, <3>5, <4>1 DEF IInv, CodeSlot
        <4> QED BY <2>4, <3>2, <3>3, <4>2
      <3>6. ASSUME NEW p \in Verzoeken, NEW k \in Codes \cap Geschreven(p)', NEW r \in Verwijzend(k)
            PROVE  r \in Koppelrijen \cap Geschreven(p)'
        BY <3>1, <3>2, <3>3, <3>6 DEF IInv, CodeSlot
      <3>7. \A p \in Verzoeken : \A r, k : Verwijst(r, Wordt(p, r), k)' = Verwijst(r, Wordt(p, r)', k)
        BY DEF Verwijst
      <3> QED BY <2>8, <3>1, <3>5, <3>6, <3>7 DEF CodeSlot, Schreef
    <2>9. Plek(q)'
      <3>1. (Statement(q) /\ Geschrift(q) /\ Lijst(q) /\ Verdwijnt(q) /\ Aanspreek(q))'
        BY <2>3, <2>8 DEF Schreef, Statement, Geschrift, Lijst, Verdwijnt, Aanspreek, ContactOps
      <3>2. Sleutel(q)'
        BY <2>2, <2>8, SleutelBlijft DEF Plek
      <3> QED BY <3>1, <3>2 DEF Plek
    <2> QED BY <1>1, <1>c, <2>2, <2>6, <2>7, <2>9, SchrijftStap DEF Rust
  <1> QED BY <1>1, <1>b, <1>c

LEMMA StapSchrijfCodeWeg ==
    ASSUME IInv, NEW q \in Verzoeken, SchrijfCodeWeg(q)
    PROVE  IInv'
  <1> DEFINE c == In(q).bij
             R == {c} \cup Verwijzend(c)
             wordt == [r \in R |-> GeenRij]
  <1>1. /\ verzoek[q].pc = "codeWeg" /\ Blijft /\ ~ WordtVerwezen(q, c)
        /\ \/ Verwijzend(c) \cap Leveranciers = {} /\ Schrijft(q, R, wordt, "commit")
           \/ Weigert(q)
           \/ verzoek' = [verzoek EXCEPT ![q] = [NieuwVerzoek EXCEPT !.pc = "gebruikt"]]
    BY DEF SchrijfCodeWeg
  <1>a. R = {c} \cup Verwijzend(c) /\ \A r \in R : wordt[r] = GeenRij
    OBVIOUS
  <1> HIDE DEF wordt, R
  <1>b. CASE Weigert(q)
    BY <1>1, <1>b, EindeStap DEF Weigert, Rust
  <1>d. CASE verzoek' = [verzoek EXCEPT ![q] = [NieuwVerzoek EXCEPT !.pc = "gebruikt"]]
    BY <1>1, <1>d, EindeStap DEF Rust
  <1>c. CASE Verwijzend(c) \cap Leveranciers = {} /\ Schrijft(q, R, wordt, "commit")
    <2>2. q \in Lopend /\ Soort(q) /\ Plek(q)
      BY <1>1, Bezig DEF Rust
    <2>3. c \in Codes /\ verzoek[q].op = "verwijderCode" /\ Geschreven(q) = {}
      BY <1>1, <2>2 DEF Soort, Plek, Statement, Geschrift, CodeOps
    <2>4. /\ Verwijzend(c) \subseteq Koppelrijen /\ R \subseteq RijSleutels
          /\ R \cap Codes = {c} /\ R \cap Leveranciers = {} /\ c \notin Koppelrijen
      BY <1>a, <1>c, <2>3, LeveranciersSleutels DEF RijSleutels, Verwijzend
    <2>5. \A r \in Verwijzend(c) : CodeVan[r] = c
      <3> TAKE r \in Verwijzend(c)
      <3>1. rij[r].code = Geen /\ c # Geen
        BY <2>3, <2>4, LeveranciersSleutels DEF IInv, Vast, Tabellen, RijSleutels
      <3> QED BY <3>1 DEF Verwijzend, Verwijst
    <2>6. Schrijfbaar(q, R, wordt)
      <3> SUFFICES ASSUME NEW r \in R PROVE wordt[r] \in RijSoort /\ RijGoed(q, r, wordt[r])
        BY <2>4 DEF Schrijfbaar
      <3>1. wordt[r] = GeenRij /\ wordt[r] \in RijSoort /\ wordt[r].stand = "geen"
            /\ wordt[r].code = Geen
        BY <1>a, NaarRij
      <3>2. r = c \/ (r \in Koppelrijen /\ CodeVan[r] = c)
        BY <1>a, <2>4, <2>5
      <3>3. CASE r = c
        <4>1. r \notin Leveranciers \cup Contacten \cup Contracten \cup Koppelrijen
          BY <2>3, <3>3, LeveranciersSleutels
        <4> QED BY <2>3, <3>1, <3>3, <4>1 DEF RijGoed, CodeOps
      <3>4. CASE r \in Koppelrijen /\ CodeVan[r] = c
        <4>1. r \notin Leveranciers \cup Contacten \cup Contracten \cup Codes
          BY <3>4, LeveranciersSleutels
        <4> QED BY <2>3, <3>1, <3>4, <4>1 DEF RijGoed
      <3> QED BY <3>1, <3>2, <3>3, <3>4
    <2>8. Schreef(q, R, wordt, "commit") /\ Anders(q)
      BY <1>1, <1>c, SchreefFeit, SchrijftFeit DEF IInv
    <2>7. CodeSlot'
      <3>1. \A k \in Codes : Verwijzend(k)' = Verwijzend(k)
        BY <2>8 DEF Verwijzend, Verwijst, Schreef
      <3>2. \A p \in Verzoeken \ {q} :
              Geschreven(p)' = Geschreven(p) /\ \A r : Wordt(p, r)' = Wordt(p, r)
        BY <2>8 DEF Anders, Geschreven, Wordt
      <3>3. Geschreven(q)' = R /\ \A r \in R : Wordt(q, r)'.stand = "geen"
        BY <1>a, <2>3, <2>8, NaarRij DEF Schreef
      <3>5. ASSUME NEW p \in Verzoeken, NEW r \in Geschreven(p)', NEW k \in Codes,
                   Verwijst(r, Wordt(p, r)', k)
            PROVE  rij[k].stand = "live" /\ \A o \in Verzoeken : k \notin Geschreven(o)'
        <4>1. p # q
          BY <3>3, <3>5 DEF Verwijst
        <4>2. rij[k].stand = "live" /\ \A o \in Verzoeken : k \notin Geschreven(o)
          BY <3>2, <3>5, <4>1 DEF IInv, CodeSlot
        <4>3. r \in Geschreven(p) /\ Verwijst(r, Wordt(p, r), k)
          BY <3>2, <3>5, <4>1
        <4>4. k # c
          BY <1>1, <4>1, <4>3 DEF WordtVerwezen, Geschreven, Wordt
        <4> QED BY <2>4, <3>2, <3>3, <4>2, <4>4
      <3>6. ASSUME NEW p \in Verzoeken, NEW k \in Codes \cap Geschreven(p)', NEW r \in Verwijzend(k)
            PROVE  r \in Koppelrijen \cap Geschreven(p)'
        <4>1. CASE p = q
          BY <1>a, <2>4, <3>3, <3>6, <4>1
        <4>2. CASE p # q
          BY <3>2, <3>6, <4>2 DEF IInv, CodeSlot
        <4> QED BY <4>1, <4>2
      <3>7. \A p \in Verzoeken : \A r, k : Verwijst(r, Wordt(p, r), k)' = Verwijst(r, Wordt(p, r)', k)
        BY DEF Verwijst
      <3> QED BY <2>8, <3>1, <3>5, <3>6, <3>7 DEF CodeSlot, Schreef
    <2>9. Plek(q)'
      <3>1. (Statement(q) /\ Geschrift(q) /\ Lijst(q) /\ Verdwijnt(q) /\ Aanspreek(q))'
        BY <1>a, <2>3, <2>8 DEF Schreef, Statement, Geschrift, Lijst, Verdwijnt, Aanspreek, ContactOps
      <3>2. Sleutel(q)'
        BY <2>2, <2>8, SleutelBlijft DEF Plek
      <3> QED BY <3>1, <3>2 DEF Plek
    <2> QED BY <1>1, <1>c, <2>2, <2>6, <2>7, <2>9, SchrijftStap DEF Rust
  <1> QED BY <1>1, <1>b, <1>c, <1>d

-----------------------------------------------------------------------------
(* COMMIT.                                                                 *)

(* What it leaves, and what that can be.                                   *)
Legde(q) ==
    /\ Vorm' /\ Anders(q) /\ verzoek[q].pc = "commit" /\ q \in Lopend
    /\ verzoek'[q].pc = "klaar" /\ verzoek'[q].invoer = Geen /\ verzoek'[q].gekozen = {}
    /\ Lopend' = Lopend \ {q} /\ Geschreven(q)' = {}
    /\ samen' = samen /\ uitgezet' = uitgezet
    /\ rij' = [r \in RijSleutels |-> rij'[r]]
    /\ \A r \in RijSleutels : rij'[r] = Zicht(q)[r]
    /\ \A r \in RijSleutels :
         rij'[r] = IF r \in Geschreven(q) THEN Wordt(q, r) ELSE rij[r]

Komt(q) ==
    /\ \A r \in Leveranciers \cup Contacten \cup Contracten :
         rij[r].stand # "geen" => rij'[r].stand # "geen"
    /\ \A c \in Contacten : rij[c].stand # "geen" => rij'[c].van = rij[c].van
    /\ \A c \in Contacten : rij'[c] # rij[c] =>
         /\ verzoek[q].op \in ContactOps \cup {"maakAan", "verwijder"}
         /\ rij'[c].van = In(q).bij
         /\ rij[c].van = In(q).bij \/ rij[c].stand = "geen"
         /\ rij[c].stand = "geen" => verzoek[q].op \in Maakt /\ c = In(q).doel
    /\ \A l \in Leveranciers : rij'[l].stand # rij[l].stand =>
         l = In(q).bij /\ verzoek[q].op \in {"maakAan", "verwijder"}
    /\ \A y \in Koppelrijen : rij'[y] # rij[y] =>
         \/ verzoek[q].op = "vervang" /\ LijstVan[y] = In(q).bij
         \/ verzoek[q].op = "verwijderCode" /\ CodeVan[y] = In(q).bij /\ rij'[y].stand = "geen"

LEMMA LegtVast ==
    ASSUME IInv, NEW q \in Verzoeken, Vastleggen(q)
    PROVE  Legde(q)
  <1>1. Vorm /\ Commit(q) /\ samen' = samen /\ uitgezet' = uitgezet
    BY DEF IInv, Vastleggen
  <1>2. /\ Vorm' /\ Anders(q) /\ verzoek[q].pc = "commit"
        /\ verzoek'[q].pc = "klaar" /\ verzoek'[q].invoer = Geen /\ verzoek'[q].gekozen = {}
        /\ DOMAIN verzoek'[q].schrijf = {}
        /\ rij' = [r \in DOMAIN rij |-> Zicht(q)[r]]
    BY <1>1, CommitFeit
  <1>3. /\ q \in Lopend /\ DOMAIN rij = RijSleutels
        /\ \A r \in RijSleutels :
             Zicht(q)[r] = IF r \in Geschreven(q) THEN Wordt(q, r) ELSE rij[r]
    BY <1>2, Bezig DEF Rust
  <1>4. Lopend' = Lopend \ {q}
    BY <1>2 DEF Lopend, Anders
  <1>5. \A r \in RijSleutels : rij'[r] = Zicht(q)[r]
    BY <1>2, <1>3
  <1>6. rij' = [r \in RijSleutels |-> rij'[r]]
    BY <1>2, <1>3
  <1> QED BY <1>1, <1>2, <1>3, <1>4, <1>5, <1>6 DEF Legde, Geschreven

LEMMA KomtFeit ==
    ASSUME IInv, NEW q \in Verzoeken, Legde(q)
    PROVE  Komt(q)
  <1>1. Rijen(q) /\ Sleutel(q) /\ Geschreven(q) \subseteq RijSleutels
    BY DEF Legde, IInv, Lokaal, TypeOK, Geschreven
  <1>2. \A r \in RijSleutels :
          rij'[r] = rij[r] \/ (r \in Geschreven(q) /\ RijGoed(q, r, rij'[r]))
    BY <1>1 DEF Legde, Rijen
  <1>3. \A r \in Leveranciers : rij'[r] = rij[r] \/
          (r = In(q).bij /\ ((rij'[r].stand = rij[r].stand)
             \/ (rij'[r].stand # "geen" /\ verzoek[q].op \in {"maakAan", "verwijder"})))
    BY <1>2 DEF RijGoed, RijSleutels
  <1>4. \A c \in Contacten : rij'[c] = rij[c] \/
          (/\ verzoek[q].op \in ContactOps \cup {"maakAan", "verwijder"}
           /\ rij'[c].van = In(q).bij
           /\ \/ c = In(q).doel /\ verzoek[q].op \in Maakt /\ rij'[c].stand = "live"
              \/ /\ rij[c].van = In(q).bij /\ rij[c].stand # "geen"
                 /\ rij'[c].stand # "geen")
    BY <1>2 DEF RijGoed, RijSleutels
  <1>5. \A c \in Contacten : c = In(q).doel /\ verzoek[q].op \in Maakt => rij[c].stand = "geen"
    BY <1>1, LeveranciersSleutels DEF Sleutel, Maakt, RijSleutels
  <1>6. \A k \in Contracten : rij'[k] = rij[k] \/ rij'[k].stand # "geen"
    BY <1>2 DEF RijGoed, RijSleutels
  <1>7. \A y \in Koppelrijen : rij'[y] # rij[y] =>
         \/ verzoek[q].op = "vervang" /\ LijstVan[y] = In(q).bij
         \/ verzoek[q].op = "verwijderCode" /\ CodeVan[y] = In(q).bij /\ rij'[y].stand = "geen"
    BY <1>2 DEF RijGoed, RijSleutels
  <1> QED BY <1>3, <1>4, <1>5, <1>6, <1>7 DEF Komt

(* Contacts of a supplier that only another request is busy with.          *)
LEMMA ContactenGelijk ==
    ASSUME IInv, NEW q \in Verzoeken, Legde(q), Komt(q), NEW l \in Leveranciers,
           l # In(q).bij \/ verzoek[q].op \notin ContactOps \cup {"maakAan", "verwijder"}
    PROVE  \A c \in Contacten : rij[c].van = l \/ rij'[c].van = l => rij'[c] = rij[c]
  <1>1. \A c \in Contacten : rij[c].stand = "geen" => rij[c].van = Geen
    BY NaarRij DEF IInv, Vast, Tabellen, RijSleutels
  <1> QED BY <1>1, LeveranciersSleutels DEF Komt, RijSleutels

LEMMA AnderenNaCommit ==
    ASSUME IInv, NEW q \in Verzoeken, Legde(q), Komt(q), NEW p \in Verzoeken, p # q
    PROVE  Lokaal(p)'
  <1>1. verzoek'[p] = verzoek[p] /\ Lokaal(p)
    BY DEF Legde, Anders, IInv
  <1>2. /\ (p \in Lopend') = (p \in Lopend) /\ In(p)' = In(p)
        /\ Geschreven(p)' = Geschreven(p) /\ \A r : Wordt(p, r)' = Wordt(p, r)
    BY <1>1 DEF Lopend, In, Geschreven, Wordt
  <1>3. Soort(p)' /\ Statement(p)'
    BY <1>1, <1>2 DEF Lokaal, Soort, Statement
  <1>4. Geschrift(p)'
    BY <1>1 DEF Lokaal, Geschrift, In, Geschreven, Wordt
  <1> SUFFICES ASSUME p \in Lopend
               PROVE  /\ Rijen(p)' /\ Sleutel(p)' /\ Lijst(p)'
                      /\ In(p).bij \notin samen => Verdwijnt(p)' /\ Aanspreek(p)'
    BY <1>1, <1>2, <1>3, <1>4 DEF Lokaal, Legde
  <1>5. /\ Soort(p) /\ Statement(p) /\ Rijen(p) /\ Sleutel(p) /\ Lijst(p)
        /\ q \in Lopend /\ Sleutel(q) /\ Soort(q)
        /\ Geschreven(p) \subseteq RijSleutels /\ Geschreven(q) \cap Geschreven(p) = {}
    BY <1>1 DEF Lokaal, IInv, Legde, Slot, Geschreven, TypeOK
  <1>6. /\ \A r \in RijSleutels :
             Zicht(p)[r] = IF r \in Geschreven(p) THEN Wordt(p, r) ELSE rij[r]
        /\ \A r \in RijSleutels :
             Zicht(p)'[r] = IF r \in Geschreven(p) THEN Wordt(p, r) ELSE rij'[r]
    <2>1. DOMAIN rij = RijSleutels /\ DOMAIN rij' = RijSleutels
      BY DEF IInv, TypeOK, Legde
    <2> QED BY <1>1, <2>1 DEF Zicht, Geschreven, Wordt
  <1>7. Rijen(p)'
    <2> SUFFICES ASSUME NEW r \in Geschreven(p) PROVE RijGoed(p, r, Wordt(p, r))'
      BY <1>2 DEF Rijen
    <2>1. rij'[r] = rij[r] /\ RijGoed(p, r, Wordt(p, r))
      BY <1>5 DEF Legde, Rijen
    <2>2. Wordt(p, r)' = Wordt(p, r)
      BY <1>2
    <2>3. \A l \in Leveranciers : rij[l].stand # "geen" => rij'[l].stand # "geen"
      BY DEF Komt
    <2> QED BY <1>1, <1>2, <2>1, <2>2, <2>3 DEF RijGoed
  <1>8. Sleutel(p)'
    <2>1. verzoek[p].op = "maakAan" =>
            /\ rij'[In(p).bij].stand = "geen"
            /\ In(p).doel # Geen => rij'[In(p).doel].stand = "geen"
      <3> SUFFICES ASSUME verzoek[p].op = "maakAan"
                   PROVE  /\ rij'[In(p).bij].stand = "geen"
                          /\ In(p).doel # Geen => rij'[In(p).doel].stand = "geen"
        OBVIOUS
      <3>1. In(p).bij \in Leveranciers /\ In(p).doel \in Contacten \cup {Geen}
            /\ rij[In(p).bij].stand = "geen" /\ (In(p).doel # Geen => rij[In(p).doel].stand = "geen")
        BY <1>5 DEF Soort, Sleutel, LeverancierOps
      <3>2. verzoek[q].op = "maakAan" => In(p).bij # In(q).bij
        BY <1>5 DEF IInv, EigenSleutels, Maakt
      <3>3. verzoek[q].op \in Maakt /\ In(p).doel = In(q).doel => In(p).doel = Geen
        BY <1>5 DEF IInv, EigenSleutels, Maakt
      <3>4. rij'[In(p).bij].stand = "geen"
        BY <1>5, <3>1, <3>2 DEF Komt, Sleutel
      <3>5. In(p).doel # Geen => rij'[In(p).doel].stand = "geen"
        BY <3>1, <3>3 DEF Komt
      <3> QED BY <3>4, <3>5
    <2>2. verzoek[p].op = "voegContactToe" => rij'[In(p).doel].stand = "geen"
      <3> SUFFICES ASSUME verzoek[p].op = "voegContactToe" PROVE rij'[In(p).doel].stand = "geen"
        OBVIOUS
      <3>1. In(p).doel \in Contacten /\ In(p).doel # Geen /\ rij[In(p).doel].stand = "geen"
        BY <1>5, LeveranciersSleutels DEF Soort, Sleutel, ContactOps, RijSleutels
      <3>2. verzoek[q].op \in Maakt => In(p).doel # In(q).doel
        BY <1>5, <3>1 DEF IInv, EigenSleutels, Maakt
      <3> QED BY <3>1, <3>2 DEF Komt
    <2>3. verzoek[p].op \in {"wijzig", "verwijder"} \cup ContactOps \cup ContractOps =>
            rij'[In(p).bij].stand # "geen"
      BY <1>5 DEF Komt, Sleutel, Soort, LeverancierOps
    <2>4. verzoek[p].op \in {"wijzigContact", "verwijderContact"} =>
            rij'[In(p).doel].stand # "geen" /\ rij'[In(p).doel].van = In(p).bij
      BY <1>5 DEF Komt, Sleutel, Soort, ContactOps
    <2>5. verzoek[p].op \in {"wijzigContract", "verwijderContract"} =>
            rij'[In(p).doel].stand # "geen"
      BY <1>5 DEF Komt, Sleutel, Soort, ContractOps
    <2>6. verzoek[p].pc \in {"contactenWeg", "anderenUit", "opvolgerAan"} =>
            \A c \in verzoek[p].gekozen :
               c \in Contacten /\ rij'[c].van = In(p).bij /\ rij'[c].stand # "geen"
      BY <1>5 DEF Komt, Sleutel
    <2> QED BY <1>1, <1>2, <2>1, <2>2, <2>3, <2>4, <2>5, <2>6 DEF Sleutel
  <1>9. Lijst(p)'
    <2> SUFFICES ASSUME verzoek[p].op = "vervang" PROVE Lijst(p)'
      BY <1>1 DEF Lijst
    <2>1. ASSUME In(p).bij \notin samen, NEW y \in Koppelrijen, LijstVan[y] = In(p).bij
          PROVE  rij'[y].stand = "live" => rij[y].stand = "live"
      BY <1>5, <2>1 DEF Komt, IInv, Alleen, Raakt
    <2>2. ASSUME In(p).bij \notin samen, NEW y \in Koppelrijen, LijstVan[y] = In(p).bij
          PROVE  Zicht(p)'[y].stand = "live" => Live(p, y)
      BY <1>6, <2>1, <2>2 DEF RijSleutels, Live
    <2> QED BY <1>1, <1>2, <1>5, <2>1, <2>2 DEF Lijst, Live, Legde
  <1>10. ASSUME In(p).bij \notin samen, verzoek[p].op \in ContactOps \cup {"verwijder"}
         PROVE  Verdwijnt(p)' /\ Aanspreek(p)'
    <2> DEFINE l == In(p).bij
    <2>1. l \in Leveranciers /\ rij[l].stand # "geen" /\ Verdwijnt(p) /\ Aanspreek(p)
      BY <1>1, <1>5, <1>10 DEF Lokaal, Soort, Sleutel, LeverancierOps
    <2>2. l # In(q).bij \/ verzoek[q].op \notin ContactOps \cup {"maakAan", "verwijder"}
      BY <1>5, <1>10, <2>1 DEF IInv, Alleen, Raakt, ContactOps, Sleutel
    <2>3. \A c \in Contacten : rij[c].van = l \/ rij'[c].van = l => rij'[c] = rij[c]
      BY <2>1, <2>2, ContactenGelijk
    <2>4. rij'[l].stand = rij[l].stand
      BY <2>1, <2>2 DEF Komt
    <2>5. \A c \in Contacten : Zicht(p)[c].van = l \/ Zicht(p)'[c].van = l =>
            Zicht(p)'[c] = Zicht(p)[c]
      BY <1>6, <2>3 DEF RijSleutels
    <2>6. \A c \in Contacten : HeeftNu(p, l, c)' <=> HeeftNu(p, l, c)
      BY <1>2, <2>5 DEF HeeftNu, Live
    <2>7. Verdwijnt(p)'
      BY <1>1, <1>2, <2>1, <2>6 DEF Verdwijnt
    <2>8. Een(p, l) => Een(p, l)'
      BY <1>2, <2>5, <2>6 DEF Een, HeeftNu, Legde
    <2>9. Aanspreek(p)'
      <3> SUFFICES ASSUME verzoek[p].op \in ContactOps PROVE Aanspreek(p)'
        BY <1>1 DEF Aanspreek
      <3>1. In(p).doel \in Contacten
        BY <1>5 DEF Soort
      <3>2. verzoek[p].op \in {"wijzigContact", "verwijderContact"} => rij'[In(p).doel] = rij[In(p).doel]
        BY <1>5, <2>3, <3>1 DEF Sleutel
      <3> QED BY <1>1, <1>2, <1>5, <2>1, <2>3, <2>4, <2>5, <2>6, <2>8, <3>2
              DEF Aanspreek, Statement, Legde
    <2> QED BY <2>7, <2>9
  <1>11. verzoek[p].op \notin ContactOps \cup {"verwijder"} => Verdwijnt(p)' /\ Aanspreek(p)'
    BY <1>1 DEF Verdwijnt, Aanspreek
  <1> QED BY <1>7, <1>8, <1>9, <1>10, <1>11

LEMMA CodeSlotNaCommit ==
    ASSUME IInv, NEW q \in Verzoeken, Legde(q)
    PROVE  /\ CodeSlot'
           /\ \A c \in Codes : Verwijzend(c)' # {} => rij'[c].stand = "live"
  <1>1. /\ Geschreven(q)' = {}
        /\ \A p \in Verzoeken \ {q} :
             Geschreven(p)' = Geschreven(p) /\ \A r : Wordt(p, r)' = Wordt(p, r)
    BY DEF Legde, Anders, Geschreven, Wordt
  <1>2. \A p \in Verzoeken : \A r, c : Verwijst(r, Wordt(p, r), c)' = Verwijst(r, Wordt(p, r)', c)
    BY DEF Verwijst
  <1>3. \A c \in Codes : (\A p \in Verzoeken : c \notin Geschreven(p)) => rij'[c] = rij[c]
    BY DEF Legde, RijSleutels
  <1>4. ASSUME NEW c \in Codes, NEW r \in Verwijzend(c)'
        PROVE  \/ r \in Verwijzend(c) /\ r \notin Geschreven(q)
               \/ rij[c].stand = "live" /\ \A p \in Verzoeken : c \notin Geschreven(p)
    <2>1. r \in Leveranciers \cup Koppelrijen /\ Verwijst(r, rij'[r], c)
      BY <1>4 DEF Verwijzend, Verwijst
    <2>2. rij'[r] = IF r \in Geschreven(q) THEN Wordt(q, r) ELSE rij[r]
      BY <2>1 DEF Legde, RijSleutels
    <2>3. CASE r \in Geschreven(q)
      BY <2>1, <2>2, <2>3 DEF IInv, CodeSlot
    <2>4. CASE r \notin Geschreven(q)
      BY <2>1, <2>2, <2>4 DEF Verwijzend
    <2> QED BY <2>3, <2>4
  <1>5. ASSUME NEW p \in Verzoeken, NEW r \in Geschreven(p)', NEW c \in Codes,
               Verwijst(r, Wordt(p, r), c)'
        PROVE  rij'[c].stand = "live" /\ \A o \in Verzoeken : c \notin Geschreven(o)'
    <2>1. p # q
      BY <1>1, <1>5 DEF Geschreven
    <2>2. r \in Geschreven(p) /\ Verwijst(r, Wordt(p, r), c)
      BY <1>1, <1>2, <1>5, <2>1
    <2>3. rij[c].stand = "live" /\ \A o \in Verzoeken : c \notin Geschreven(o)
      BY <2>2 DEF IInv, CodeSlot
    <2>4. \A o \in Verzoeken : c \notin Geschreven(o)'
      BY <1>1, <2>3 DEF Geschreven
    <2> QED BY <1>3, <2>3, <2>4
  <1>6. ASSUME NEW p \in Verzoeken, NEW c \in Codes, c \in Geschreven(p)', NEW r \in Verwijzend(c)'
        PROVE  r \in Koppelrijen \cap Geschreven(p)'
    <2>1. p # q
      BY <1>1, <1>6 DEF Geschreven
    <2>2. c \in Geschreven(p) /\ Geschreven(p)' = Geschreven(p)
      BY <1>1, <1>6, <2>1
    <2> QED BY <1>4, <2>2 DEF IInv, CodeSlot
  <1>7. CodeSlot'
    BY <1>5, <1>6 DEF CodeSlot
  <1>8. ASSUME NEW c \in Codes, NEW r \in Verwijzend(c)' PROVE rij'[c].stand = "live"
    <2>1. CASE r \in Verwijzend(c) /\ r \notin Geschreven(q)
      <3>1. rij[c].stand = "live"
        BY <2>1 DEF IInv, Vast, WeesAlleenBijOverlap
      <3>2. c \notin Geschreven(q)
        BY <2>1 DEF IInv, CodeSlot
      <3> QED BY <3>1, <3>2 DEF Legde, RijSleutels
    <2>2. CASE rij[c].stand = "live" /\ \A p \in Verzoeken : c \notin Geschreven(p)
      BY <1>3, <2>2
    <2> QED BY <1>4, <2>1, <2>2
  <1> QED BY <1>7, <1>8

LEMMA TabellenNaCommit ==
    ASSUME IInv, NEW q \in Verzoeken, Legde(q), Komt(q)
    PROVE  Tabellen'
  <1>1. /\ Rijen(q) /\ Soort(q) /\ Geschrift(q) /\ Sleutel(q) /\ q \in Lopend
        /\ Geschreven(q) \subseteq RijSleutels /\ verzoek[q].pc = "commit"
    BY DEF Legde, IInv, Lokaal, TypeOK, Geschreven
  <1>2. \A r \in RijSleutels :
          rij'[r] = rij[r] \/ (r \in Geschreven(q) /\ RijGoed(q, r, rij'[r]))
    BY <1>1 DEF Legde, Rijen
  <1>3. \A r \in RijSleutels : rij'[r].stand = "geen" => rij'[r] = GeenRij
    BY <1>2 DEF IInv, Vast, Tabellen, RijGoed
  <1>4. \A r \in RijSleutels \ Leveranciers : rij'[r].code = Geen
    BY <1>2 DEF IInv, Vast, Tabellen, RijGoed
  <1>5. ASSUME NEW c \in Contacten \cup Contracten, rij'[c].stand # "geen"
        PROVE  rij'[c].van \in Leveranciers /\ rij'[rij'[c].van].stand # "geen"
    <2>1. CASE rij'[c] = rij[c]
      <3>1. rij[c].van \in Leveranciers /\ rij[rij[c].van].stand # "geen"
        BY <1>5, <2>1 DEF IInv, Vast, Tabellen
      <3> QED BY <2>1, <3>1 DEF Komt
    <2>2. CASE c \in Contacten /\ rij'[c] # rij[c]
      <3>1. /\ verzoek[q].op \in ContactOps \cup {"maakAan", "verwijder"}
            /\ rij'[c].van = In(q).bij
        BY <2>2 DEF Komt
      <3>2. In(q).bij \in Leveranciers
        BY <1>1, <3>1 DEF Soort, LeverancierOps
      <3>3. CASE verzoek[q].op = "maakAan"
        <4>1. In(q).bij \in Geschreven(q)
          BY <1>1, <3>3 DEF Geschrift
        <4>2. In(q).bij \in RijSleutels /\ rij'[In(q).bij] = Wordt(q, In(q).bij)
          BY <3>2, <4>1 DEF Legde, RijSleutels
        <4>3. RijGoed(q, In(q).bij, Wordt(q, In(q).bij))
          BY <1>1, <4>1 DEF Rijen
        <4> QED BY <3>1, <3>2, <3>3, <4>2, <4>3 DEF RijGoed
      <3>4. CASE verzoek[q].op # "maakAan"
        <4>1. rij[In(q).bij].stand # "geen"
          BY <1>1, <3>1, <3>4 DEF Sleutel
        <4> QED BY <3>1, <3>2, <4>1 DEF Komt
      <3> QED BY <3>3, <3>4
    <2>3. CASE c \in Contracten /\ rij'[c] # rij[c]
      <3>1. rij'[c].van \in Leveranciers /\ rij[rij'[c].van].stand # "geen"
        BY <1>2, <2>3 DEF RijGoed, RijSleutels
      <3> QED BY <3>1 DEF Komt
    <2> QED BY <2>1, <2>2, <2>3
  <1> QED BY <1>3, <1>4, <1>5 DEF Tabellen

(* The contacts of the supplier the request is about.                      *)
LEMMA EigenContacten ==
    ASSUME IInv, NEW q \in Verzoeken, Legde(q), NEW l \in Leveranciers, l = In(q).bij
    PROVE  /\ verzoek[q].op = "verwijder" /\ l \notin samen =>
                \A c \in Contacten : rij'[c].van = l => rij'[c].stand # "live"
           /\ verzoek[q].op \in ContactOps /\ l \notin samen =>
                /\ \A c, d \in Contacten : Bij(l, c)' /\ Bij(l, d)'
                     /\ rij'[c].primair /\ rij'[d].primair => c = d
                /\ l \notin uitgezet => \A c \in Contacten : Bij(l, c)' =>
                     \E d \in Contacten : Bij(l, d)' /\ rij'[d].primair
           /\ verzoek[q].op = "maakAan" =>
                \A c \in Contacten : rij'[c].van = l /\ rij'[c].stand = "live" =>
                  c = In(q).doel /\ rij'[c].primair
  <1>1. /\ Rijen(q) /\ Soort(q) /\ Sleutel(q) /\ q \in Lopend /\ verzoek[q].pc = "commit"
        /\ l \notin samen => Verdwijnt(q) /\ Aanspreek(q)
    BY DEF Legde, IInv, Lokaal
  <1>2. \A c \in Contacten : Zicht(q)[c] = rij'[c]
    BY DEF Legde, RijSleutels
  <1>3. verzoek[q].op = "verwijder" /\ l \notin samen =>
          \A c \in Contacten : rij'[c].van = l => rij'[c].stand # "live"
    BY <1>1, <1>2 DEF Verdwijnt, HeeftNu, Live
  <1>4. ASSUME verzoek[q].op \in ContactOps, l \notin samen
        PROVE  /\ \A c, d \in Contacten : rij'[c].van = l /\ rij'[c].stand = "live"
                    /\ rij'[d].van = l /\ rij'[d].stand = "live"
                    /\ rij'[c].primair /\ rij'[d].primair => c = d
               /\ l \notin uitgezet => \A c \in Contacten :
                    rij'[c].van = l /\ rij'[c].stand = "live" =>
                    \E d \in Contacten :
                      rij'[d].van = l /\ rij'[d].stand = "live" /\ rij'[d].primair
    <2>1. Een(q, l)
      BY <1>1, <1>4 DEF Aanspreek
    <2> QED BY <1>2, <2>1 DEF Een, HeeftNu, Live
  <1>5. ASSUME verzoek[q].op = "maakAan", NEW c \in Contacten,
               rij'[c].van = l, rij'[c].stand = "live"
        PROVE  c = In(q).doel /\ rij'[c].primair
    <2>1. l \in Leveranciers /\ rij[l].stand = "geen"
      BY <1>1, <1>5 DEF Sleutel
    <2>2. ~ (rij[c].van = l /\ rij[c].stand = "live")
      BY <2>1 DEF IInv, Vast, Tabellen
    <2>3. c \in Geschreven(q) /\ rij'[c] = Wordt(q, c)
      BY <1>5, <2>2 DEF Legde, RijSleutels
    <2> QED BY <1>1, <1>5, <2>3 DEF Rijen, RijGoed
  <1> QED BY <1>3, <1>4, <1>5 DEF Bij

LEMMA EenPrimairNaCommit ==
    ASSUME IInv, NEW q \in Verzoeken, Legde(q), Komt(q)
    PROVE  EenPrimair'
  <1>1. samen' = samen /\ uitgezet' = uitgezet
    BY DEF Legde
  <1> SUFFICES ASSUME NEW l \in Leveranciers \ samen
               PROVE  /\ \A c, d \in Contacten : Bij(l, c)' /\ Bij(l, d)'
                           /\ rij'[c].primair /\ rij'[d].primair => c = d
                      /\ l \notin uitgezet => \A c \in Contacten : Bij(l, c)' =>
                           \E d \in Contacten : Bij(l, d)' /\ rij'[d].primair
    BY <1>1 DEF EenPrimair
  <1>2. CASE l # In(q).bij \/ verzoek[q].op \notin ContactOps \cup {"maakAan", "verwijder"}
    <2>1. \A c \in Contacten : rij[c].van = l \/ rij'[c].van = l => rij'[c] = rij[c]
      BY <1>2, ContactenGelijk
    <2>2. /\ \A c, d \in Contacten : Bij(l, c) /\ Bij(l, d)
               /\ rij[c].primair /\ rij[d].primair => c = d
          /\ l \notin uitgezet => \A c \in Contacten : Bij(l, c) =>
               \E d \in Contacten : Bij(l, d) /\ rij[d].primair
      BY DEF IInv, Vast, EenPrimair
    <2>3. \A c \in Contacten : /\ Bij(l, c)' <=> Bij(l, c)
                               /\ Bij(l, c) => rij'[c].primair = rij[c].primair
      BY <2>1 DEF Bij
    <2> QED BY <2>2, <2>3
  <1>3. CASE l = In(q).bij /\ verzoek[q].op \in ContactOps
    BY <1>3, EigenContacten
  <1>4. CASE l = In(q).bij /\ verzoek[q].op = "maakAan"
    <2>1. \A c \in Contacten : Bij(l, c)' => c = In(q).doel /\ rij'[c].primair
      BY <1>4, EigenContacten DEF Bij
    <2> QED BY <2>1
  <1>5. CASE l = In(q).bij /\ verzoek[q].op = "verwijder"
    <2>1. \A c \in Contacten : ~ Bij(l, c)'
      BY <1>5, EigenContacten DEF Bij
    <2> QED BY <2>1
  <1> QED BY <1>2, <1>3, <1>4, <1>5

LEMMA WeesNaCommit ==
    ASSUME IInv, NEW q \in Verzoeken, Legde(q), Komt(q)
    PROVE  WeesAlleenBijOverlap'
  <1>1. /\ Rijen(q) /\ Soort(q) /\ Sleutel(q) /\ Geschrift(q) /\ q \in Lopend
        /\ verzoek[q].pc = "commit" /\ samen' = samen /\ Geschreven(q) \subseteq RijSleutels
        /\ In(q).bij \notin samen => Verdwijnt(q) /\ Aanspreek(q)
    BY DEF Legde, IInv, Lokaal, TypeOK, Geschreven
  <1>2. ASSUME NEW c \in Contacten, rij'[c].stand = "live", rij'[rij'[c].van].stand = "weg",
               rij'[c].van \notin samen
        PROVE  FALSE
    <2>1. PICK l : l = rij'[c].van
      OBVIOUS
    <2>2. l \in Leveranciers
      BY <1>2, <2>1, TabellenNaCommit DEF Tabellen
    <2>3. CASE l # In(q).bij \/ verzoek[q].op \notin ContactOps \cup {"maakAan", "verwijder"}
      <3>1. rij'[c] = rij[c]
        BY <2>1, <2>2, <2>3, ContactenGelijk
      <3>2. rij'[l].stand = rij[l].stand
        BY <2>2, <2>3 DEF Komt
      <3> QED BY <1>2, <2>1, <3>1, <3>2 DEF IInv, Vast, WeesAlleenBijOverlap
    <2>4. CASE l = In(q).bij /\ verzoek[q].op = "maakAan"
      <3>1. l \in Geschreven(q)
        BY <1>1, <2>4 DEF Geschrift
      <3>2. rij'[l] = Wordt(q, l) /\ RijGoed(q, l, Wordt(q, l))
        BY <1>1, <2>2, <3>1 DEF Legde, Rijen
      <3> QED BY <1>2, <2>1, <2>2, <2>4, <3>2 DEF RijGoed
    <2>5. CASE l = In(q).bij /\ verzoek[q].op = "verwijder"
      BY <1>2, <2>1, <2>2, <2>5, EigenContacten
    <2>6. CASE l = In(q).bij /\ verzoek[q].op \in ContactOps
      <3>1. rij'[l] = rij[l]
        <4>1. l \in Geschreven(q) => RijGoed(q, l, Wordt(q, l))
          BY <1>1 DEF Rijen
        <4>2. l \notin Geschreven(q)
          BY <2>2, <2>6, <4>1 DEF RijGoed, ContactOps
        <4> QED BY <2>2, <4>2 DEF Legde, RijSleutels
      <3>2. verzoek[q].op # "voegContactToe"
        BY <1>1, <1>2, <2>1, <2>6, <3>1 DEF Aanspreek
      <3>3. rij[c].van = l /\ rij[c].stand = "live"
        <4>1. CASE c \in Geschreven(q)
          <5>1. rij'[c] = Wordt(q, c) /\ RijGoed(q, c, Wordt(q, c))
            BY <1>1, <4>1 DEF Legde, Rijen
          <5> QED BY <1>2, <2>1, <2>6, <3>2, <5>1 DEF RijGoed, Maakt, ContactOps
        <4>2. CASE c \notin Geschreven(q)
          <5>1. rij'[c] = rij[c]
            BY <4>2 DEF Legde, RijSleutels
          <5> QED BY <1>2, <2>1, <5>1
        <4> QED BY <4>1, <4>2
      <3> QED BY <1>2, <2>1, <3>1, <3>3 DEF IInv, Vast, WeesAlleenBijOverlap
    <2> QED BY <2>3, <2>4, <2>5, <2>6
  <1>3. \A c \in Codes : Verwijzend(c)' # {} => rij'[c].stand = "live"
    BY CodeSlotNaCommit
  <1> QED BY <1>1, <1>2, <1>3 DEF WeesAlleenBijOverlap

LEMMA LijstNaCommit ==
    ASSUME IInv, NEW q \in Verzoeken, Legde(q), Komt(q), Vastleggen(q)
    PROVE  LijstIsWens' /\ wens' \in [Lijsten -> SUBSET Koppelrijen]
  <1>1. /\ Soort(q) /\ Lijst(q) /\ Rijen(q) /\ Geschrift(q) /\ q \in Lopend
        /\ verzoek[q].pc = "commit" /\ samen' = samen
        /\ In(q) \in InvoerSoort /\ wens \in [Lijsten -> SUBSET Koppelrijen]
    BY DEF Legde, IInv, Lokaal, TypeOK, Soort
  <1>2. \A y \in Koppelrijen :
          /\ Zicht(q)[y] = rij'[y]
          /\ rij'[y] = IF y \in Geschreven(q) THEN Wordt(q, y) ELSE rij[y]
    BY DEF Legde, RijSleutels
  <1>3. ASSUME NEW x \in Lijsten
        PROVE  /\ wens[x] \subseteq Koppelrijen
               /\ \A y \in wens[x] : LijstVan[y] = x /\ rij[y].stand = "live"
               /\ x \notin samen => \A y \in Koppelrijen :
                    LijstVan[y] = x /\ rij[y].stand = "live" => y \in wens[x]
    BY <1>1 DEF IInv, Vast, LijstIsWens
  <1>4. CASE verzoek[q].op = "vervang"
    <2>1. wens' = [wens EXCEPT ![In(q).bij] = In(q).wens]
      BY <1>4 DEF Vastleggen
    <2>2. In(q).bij \in Lijsten /\ In(q).wens \subseteq Koppelrijen
      BY <1>1, <1>4 DEF Soort, InvoerSoort
    <2>3. wens' \in [Lijsten -> SUBSET Koppelrijen]
      BY <1>1, <2>1, <2>2
    <2>4. ASSUME NEW x \in Lijsten
          PROVE  /\ \A y \in wens'[x] : y \in Koppelrijen /\ LijstVan[y] = x /\ rij'[y].stand = "live"
                 /\ x \notin samen => \A y \in Koppelrijen :
                      LijstVan[y] = x /\ rij'[y].stand = "live" => y \in wens'[x]
      <3>1. CASE x = In(q).bij
        <4>1. wens'[x] = In(q).wens
          BY <1>1, <2>1, <2>2, <3>1
        <4> QED BY <1>1, <1>2, <1>4, <2>2, <3>1, <4>1 DEF Soort, Lijst, Live
      <3>2. CASE x # In(q).bij
        <4>1. wens'[x] = wens[x]
          BY <1>1, <2>1, <2>2, <3>2
        <4>2. \A y \in Koppelrijen : LijstVan[y] = x => rij'[y] = rij[y]
          BY <1>4, <3>2 DEF Komt
        <4> QED BY <1>3, <4>1, <4>2
      <3> QED BY <3>1, <3>2
    <2> QED BY <1>1, <2>3, <2>4 DEF LijstIsWens
  <1>5. CASE verzoek[q].op = "verwijderCode"
    <2>1. wens' = [x \in Lijsten |-> {y \in wens[x] : CodeVan[y] # In(q).bij}]
      BY <1>5 DEF Vastleggen
    <2>2. In(q).bij \in Codes /\ In(q).bij \in Geschreven(q)
      BY <1>1, <1>5 DEF Soort, CodeOps, Geschrift
    <2>3. wens' \in [Lijsten -> SUBSET Koppelrijen]
      BY <1>3, <2>1
    <2>4. \A y \in Koppelrijen : rij'[y] # rij[y] =>
            CodeVan[y] = In(q).bij /\ rij'[y].stand = "geen"
      BY <1>5 DEF Komt
    <2>5. ASSUME NEW y \in Koppelrijen, rij'[y].stand = "live"
          PROVE  CodeVan[y] # In(q).bij
      <3>1. rij'[y] = rij[y]
        BY <2>4, <2>5
      <3>2. y \in Geschreven(q) => y \in RijSleutels /\ RijGoed(q, y, Wordt(q, y)) /\ y \notin Leveranciers
        BY <1>1, LeveranciersSleutels DEF Rijen, RijSleutels
      <3>3. y \notin Geschreven(q)
        BY <1>2, <1>5, <2>5, <3>2 DEF RijGoed
      <3>4. CodeVan[y] = In(q).bij => y \in Verwijzend(In(q).bij)
        BY <2>5, <3>1 DEF Verwijzend, Verwijst
      <3> QED BY <2>2, <3>3, <3>4 DEF IInv, CodeSlot
    <2>6. ASSUME NEW x \in Lijsten
          PROVE  /\ \A y \in wens'[x] : y \in Koppelrijen /\ LijstVan[y] = x /\ rij'[y].stand = "live"
                 /\ x \notin samen => \A y \in Koppelrijen :
                      LijstVan[y] = x /\ rij'[y].stand = "live" => y \in wens'[x]
      <3>1. wens'[x] = {y \in wens[x] : CodeVan[y] # In(q).bij}
        BY <2>1
      <3>2. \A y \in Koppelrijen : rij'[y].stand = "live" => rij[y].stand = "live"
        BY <2>4
      <3> QED BY <1>3, <2>4, <2>5, <3>1, <3>2
    <2> QED BY <1>1, <2>3, <2>6 DEF LijstIsWens
  <1>6. CASE verzoek[q].op \notin {"vervang", "verwijderCode"}
    <2>1. wens' = wens
      BY <1>6 DEF Vastleggen
    <2>2. \A y \in Koppelrijen : rij'[y] = rij[y]
      BY <1>6 DEF Komt
    <2>3. ASSUME NEW x \in Lijsten
          PROVE  /\ \A y \in wens'[x] : y \in Koppelrijen /\ LijstVan[y] = x /\ rij'[y].stand = "live"
                 /\ x \notin samen => \A y \in Koppelrijen :
                      LijstVan[y] = x /\ rij'[y].stand = "live" => y \in wens'[x]
      BY <1>3, <2>1, <2>2
    <2> QED BY <1>1, <2>1, <2>3 DEF LijstIsWens
  <1> QED BY <1>4, <1>5, <1>6

LEMMA StapVastleggen ==
    ASSUME IInv, NEW q \in Verzoeken, Vastleggen(q)
    PROVE  IInv'
  <1>1. Legde(q)
    BY LegtVast
  <1>2. Komt(q)
    BY <1>1, KomtFeit
  <1>3. TypeOK'
    <2>1. rij' \in [RijSleutels -> RijSoort]
      <3>1. \A r \in RijSleutels : rij'[r] \in RijSoort
        BY <1>1 DEF Legde, IInv, TypeOK, Geschreven, Wordt
      <3> QED BY <1>1, <3>1 DEF Legde
    <2>2. \A p \in Verzoeken :
            /\ verzoek'[p].invoer \in InvoerSoort \cup {Geen}
            /\ verzoek'[p].gekozen \subseteq RijSleutels
            /\ DOMAIN verzoek'[p].schrijf \subseteq RijSleutels
            /\ \A r \in DOMAIN verzoek'[p].schrijf : verzoek'[p].schrijf[r] \in RijSoort
      <3> SUFFICES ASSUME NEW p \in Verzoeken
                   PROVE  /\ verzoek'[p].invoer \in InvoerSoort \cup {Geen}
                          /\ verzoek'[p].gekozen \subseteq RijSleutels
                          /\ DOMAIN verzoek'[p].schrijf \subseteq RijSleutels
                          /\ \A r \in DOMAIN verzoek'[p].schrijf :
                               verzoek'[p].schrijf[r] \in RijSoort
        OBVIOUS
      <3>1. CASE p = q
        BY <1>1, <3>1 DEF Legde, Geschreven
      <3>2. CASE p # q
        BY <1>1, <3>2 DEF Legde, Anders, IInv, TypeOK
      <3> QED BY <3>1, <3>2
    <2> QED BY <1>1, <1>2, <2>1, <2>2, LijstNaCommit DEF Legde, IInv, TypeOK
  <1>4. Slot' /\ Vorm'
    BY <1>1, SlotBlijft DEF Legde, IInv, Geschreven
  <1>5. \A p \in Verzoeken : Lokaal(p)'
    <2>1. Lokaal(q)'
      BY <1>1 DEF Legde, Lokaal, Soort, Statement, Geschrift, Rust
    <2> QED BY <1>1, <1>2, <2>1, AnderenNaCommit
  <1>6. Alleen' /\ EigenSleutels'
    <2>1. Lopend' \subseteq Lopend /\ samen' = samen
          /\ \A p \in Lopend' : verzoek'[p] = verzoek[p]
      BY <1>1 DEF Legde, Anders, Lopend
    <2> QED BY <2>1 DEF IInv, Alleen, EigenSleutels, In
  <1>7. CodeSlot'
    BY <1>1, CodeSlotNaCommit
  <1>8. Vast'
    BY <1>1, <1>2, TabellenNaCommit, EenPrimairNaCommit, WeesNaCommit, LijstNaCommit DEF Vast
  <1> QED BY <1>3, <1>4, <1>5, <1>6, <1>7, <1>8 DEF IInv

-----------------------------------------------------------------------------
(* All steps, and what follows.                                            *)

LEMMA Begin == Init => IInv
  <1> SUFFICES ASSUME Init PROVE IInv
    OBVIOUS
  <1>1. /\ Vorm /\ Lopend = {}
        /\ \A q \in Verzoeken :
             /\ verzoek[q].pc = "nieuw" /\ verzoek[q].invoer = Geen
             /\ verzoek[q].gekozen = {} /\ DOMAIN verzoek[q].schrijf = {}
    <2>1. verzoek = [q \in Verzoeken |-> NieuwVerzoek]
      BY DEF Init
    <2>2. IsVerzoek(NieuwVerzoek)
      BY DEF IsVerzoek, NieuwVerzoek
    <2>3. /\ NieuwVerzoek.pc = "nieuw" /\ NieuwVerzoek.invoer = Geen
          /\ NieuwVerzoek.gekozen = {} /\ DOMAIN NieuwVerzoek.schrijf = {}
      BY LeegDomein DEF NieuwVerzoek
    <2> QED BY <2>1, <2>2, <2>3 DEF Vorm, Lopend
  <1>2. rij = BeginRij /\ samen = {} /\ uitgezet = {}
        /\ wens = [x \in Lijsten |->
             {y \in Koppelrijen : LijstVan[y] = x /\ BeginRij[y].stand = "live"}]
    BY DEF Init
  <1>3. TypeOK
    BY <1>1, <1>2, LeveranciersBegin DEF TypeOK
  <1>4. Slot /\ CodeSlot /\ Alleen /\ EigenSleutels
    BY <1>1 DEF Slot, CodeSlot, Alleen, EigenSleutels, Geschreven
  <1>5. \A q \in Verzoeken : Lokaal(q)
    BY <1>1 DEF Lokaal, Soort, Statement, Geschrift, Rust, Geschreven
  <1>6. Tabellen
    BY <1>2, LeveranciersBegin DEF Tabellen
  <1>7. EenPrimair
    BY <1>2, LeveranciersBegin DEF EenPrimair, Bij, Heeft
  <1>8. WeesAlleenBijOverlap
    <2>1. ASSUME NEW c \in Contacten, rij[c].stand = "live", rij[rij[c].van].stand = "weg"
          PROVE  FALSE
      BY <1>2, <2>1, LeveranciersBegin DEF Heeft
    <2>2. ASSUME NEW c \in Codes, NEW r \in Verwijzend(c) PROVE rij[c].stand = "live"
      <3>1. c # Geen
        BY LeveranciersSleutels DEF RijSleutels
      <3>2. r \in Leveranciers \cup Koppelrijen /\ rij[r].stand # "geen"
            /\ (rij[r].code = c \/ (r \in Koppelrijen /\ CodeVan[r] = c))
        BY <2>2 DEF Verwijzend, Verwijst
      <3>3. CASE r \in Leveranciers
        BY <1>2, <3>1, <3>2, <3>3, LeveranciersBegin, LeveranciersSleutels
      <3>4. CASE r \in Koppelrijen
        <4>1. rij[r].code = Geen
          BY <1>2, <3>4, LeveranciersBegin, LeveranciersSleutels DEF RijSleutels
        <4> QED BY <1>2, <3>1, <3>2, <3>4, <4>1, LeveranciersBegin
      <3> QED BY <3>2, <3>3, <3>4
    <2> QED BY <2>1, <2>2 DEF WeesAlleenBijOverlap
  <1>9. LijstIsWens
    BY <1>2 DEF LijstIsWens
  <1> QED BY <1>1, <1>3, <1>4, <1>5, <1>6, <1>7, <1>8, <1>9 DEF IInv, Vast

LEMMA Stappen ==
    ASSUME IInv, NEW q \in Verzoeken, Stap(q)
    PROVE  IInv'
  BY StapZoekKvk, StapSchrijfNieuwe, StapSchrijfWijziging, StapKvkGeweigerd,
     StapCodeOnbekend, StapSchrijfCode, StapSchrijfCodeWeg,
     StapSchrijfVerwijderd, StapKiesContacten, StapSchrijfContactenWeg,
     StapKiesAnderen, StapSchrijfAnderen, StapSchrijfContact,
     StapSchrijfContactWeg, StapKiesOpvolger, StapSchrijfOpvolger,
     StapSchrijfContract, StapSchrijfContractWeg,
     StapKiesLijst, StapSchrijfLijstWeg, StapSchrijfLijstNieuw, StapVastleggen
  DEF Stap

LEMMA Stilstand == IInv /\ UNCHANGED vars => IInv'
  <1> SUFFICES ASSUME IInv, UNCHANGED vars PROVE IInv'
    OBVIOUS
  <1>1. rij' = rij /\ verzoek' = verzoek /\ samen' = samen /\ uitgezet' = uitgezet /\ wens' = wens
    BY DEF vars
  <1>2. TypeOK' /\ Vorm' /\ Slot' /\ Alleen' /\ EigenSleutels'
    BY <1>1 DEF IInv, TypeOK, Vorm, IsVerzoek, Slot, Alleen, EigenSleutels, Lopend, In
  <1>3. CodeSlot'
    BY <1>1 DEF IInv, CodeSlot, Geschreven, Wordt, Verwijst, Verwijzend
  <1>4. Vast'
    BY <1>1, VastBlijft
  <1>5. \A q \in Verzoeken : Lokaal(q)'
    <2> SUFFICES ASSUME NEW q \in Verzoeken PROVE Lokaal(q)'
      OBVIOUS
    <2>1. Anders(q) /\ Lokaal(q)
      BY <1>1 DEF Anders, IInv
    <2>2. (q \in Lopend') = (q \in Lopend) /\ Zicht(q)' = Zicht(q)
      BY <1>1 DEF Lopend, Zicht
    <2>3. Soort(q)' /\ Statement(q)' /\ Geschrift(q)'
      BY <1>1, <2>1, <2>2 DEF Lokaal, Soort, Statement, Geschrift, In, Geschreven, Wordt
    <2>4. \A r, w : RijGoed(q, r, w) => RijGoed(q, r, w)'
      BY <1>1, RijGoedBlijft
    <2>5. q \in Lopend => Rijen(q)' /\ Sleutel(q)' /\ Lijst(q)'
      <3>1. q \in Lopend => Rijen(q)'
        BY <1>1, <2>1, <2>4 DEF Lokaal, Rijen, Geschreven, Wordt
      <3>2. q \in Lopend => Sleutel(q)'
        BY <1>1, <2>1 DEF Lokaal, Sleutel, In
      <3>3. q \in Lopend => Lijst(q)'
        BY <1>1, <2>1, <2>2 DEF Lokaal, Lijst, In, Geschreven, Wordt, Live
      <3> QED BY <3>1, <3>2, <3>3
    <2>6. q \in Lopend /\ In(q).bij \notin samen => Verdwijnt(q)' /\ Aanspreek(q)'
      BY <1>1, <2>1, <2>2 DEF Lokaal, Verdwijnt, Aanspreek, Een, HeeftNu, In, Live
    <2> QED BY <1>1, <2>2, <2>3, <2>5, <2>6 DEF Lokaal, In
  <1> QED BY <1>2, <1>3, <1>4, <1>5 DEF IInv

LEMMA IInvInductief == IInv /\ [Next]_vars => IInv'
  <1> SUFFICES ASSUME IInv, [Next]_vars PROVE IInv'
    OBVIOUS
  <1>1. CASE UNCHANGED vars
    BY <1>1, Stilstand
  <1>2. ASSUME NEW q \in Verzoeken,
               \/ LeverancierVraag(q) \/ ContactVraag(q) \/ ContractVraag(q) \/ LijstVraag(q)
               \/ CodeVraag(q) \/ Stap(q) \/ Terugdraaien(q)
        PROVE  IInv'
    BY <1>2, BegintLeverancier, BegintContact, BegintContract, BegintLijst, BegintCode,
       Stappen, StapTerugdraaien
  <1> QED BY <1>1, <1>2 DEF Next

(* From the invariant to counting.                                         *)
LEMMA HoogstensEen == IInv => EenAanspreekpunt
  <1> SUFFICES ASSUME IInv, NEW l \in Leveranciers \ samen
               PROVE  LET K == {c \in Contacten : rij[c].van = l /\ rij[c].stand = "live"}
                          P == {c \in K : rij[c].primair} IN
                      /\ Cardinality(P) <= 1
                      /\ K # {} /\ l \notin uitgezet => P # {}
    BY DEF EenAanspreekpunt
  <1> DEFINE K == {c \in Contacten : rij[c].van = l /\ rij[c].stand = "live"}
             P == {c \in K : rij[c].primair}
  <1>1. /\ \A c, d \in P : c = d
        /\ l \notin uitgezet => \A c \in K : \E d \in P : TRUE
    BY DEF IInv, Vast, EenPrimair, Bij
  <1> HIDE DEF K, P
  <1>2. Cardinality(P) <= 1
    <2>1. CASE P = {}
      BY <2>1, FS_EmptySet
    <2>2. ASSUME NEW c \in P PROVE Cardinality(P) <= 1
      <3>1. P = {c}
        BY <1>1, <2>2
      <3> QED BY <3>1, FS_Singleton
    <2> QED BY <2>1, <2>2
  <1>3. K # {} /\ l \notin uitgezet => P # {}
    BY <1>1
  <1> QED BY <1>2, <1>3 DEF K, P

(* The invariant holds in every reachable state.                           *)
THEOREM LeveranciersInvariant == Spec => []IInv
  BY Begin, IInvInductief, PTL DEF Spec

(* Rows keep the shape of their table.                                     *)
THEOREM LeveranciersTypes == Spec => []TypeOK
  <1>1. IInv => TypeOK
    BY DEF IInv
  <1> QED BY LeveranciersInvariant, <1>1, PTL

(* VendorService: a supplier has at most one primary contact, and, unless  *)
(* one was switched off by hand, never contacts without one, as long as no *)
(* two requests changed its contacts at the same time.                     *)
THEOREM HoogstensEenPrimair == Spec => []EenAanspreekpunt
  BY LeveranciersInvariant, HoogstensEen, PTL

(* A deleted supplier keeps a live contact only after two requests on it   *)
(* overlapped; the category of a supplier and the area of a contract are   *)
(* there whatever overlaps.                                                *)
THEOREM GeenWeesZonderOverlap == Spec => []WeesAlleenBijOverlap
  <1>1. IInv => WeesAlleenBijOverlap
    BY DEF IInv, Vast
  <1> QED BY LeveranciersInvariant, <1>1, PTL

(* A list that was replaced holds everything the last committed request    *)
(* asked for, and nothing else unless two replacements overlapped.         *)
THEOREM LijstVervangen == Spec => []LijstIsWens
  <1>1. IInv => LijstIsWens
    BY DEF IInv, Vast
  <1> QED BY LeveranciersInvariant, <1>1, PTL
=============================================================================
