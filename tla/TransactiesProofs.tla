------------------------- MODULE TransactiesProofs -------------------------
(***************************************************************************)
(* Lemmas on the transactions of Transacties, for any number of requests:  *)
(* what each statement leaves in the request that executes it, that it     *)
(* leaves the other requests alone, and that two open transactions never   *)
(* hold the same row.  LeveranciersProofs, DossiersProofs and              *)
(* VragenlijstenProofs are built on them.                                  *)
(***************************************************************************)
EXTENDS Transacties, TLAPS

(* A request has these five fields.                                        *)
IsVerzoek(v) ==
    v = [veld \in {"pc", "op", "invoer", "gekozen", "schrijf"} |-> v[veld]]

Vorm ==
    /\ verzoek = [q \in Verzoeken |-> verzoek[q]]
    /\ \A q \in Verzoeken : IsVerzoek(verzoek[q])

(* Row locks: a row is written by one open transaction at a time.          *)
Slot ==
    \A p, q \in Verzoeken : p # q =>
        DOMAIN verzoek[p].schrijf \cap DOMAIN verzoek[q].schrijf = {}

Anders(q) == \A p \in Verzoeken \ {q} : verzoek'[p] = verzoek[p]

LEMMA LeegDomein == DOMAIN Leeg = {}
  BY DEF Leeg

(* Any step that gives one request another record.                         *)
LEMMA VerzoekVerandert ==
    ASSUME Vorm, NEW q \in Verzoeken, NEW v, IsVerzoek(v),
           verzoek' = [p \in Verzoeken |-> verzoek'[p]],
           \A p \in Verzoeken : verzoek'[p] = IF p = q THEN v ELSE verzoek[p]
    PROVE  Vorm' /\ Anders(q) /\ verzoek'[q] = v
  BY DEF Vorm, Anders

LEMMA BegintFeit ==
    ASSUME Vorm, NEW q \in Verzoeken, NEW op, NEW invoer, NEW pc,
           Begint(q, op, invoer, pc)
    PROVE  /\ Vorm' /\ Anders(q) /\ verzoek[q].pc = "nieuw"
           /\ verzoek'[q].pc = pc /\ verzoek'[q].op = op /\ verzoek'[q].invoer = invoer
           /\ verzoek'[q].gekozen = verzoek[q].gekozen
           /\ verzoek'[q].schrijf = verzoek[q].schrijf
  <1> DEFINE v == [verzoek[q] EXCEPT !.pc = pc, !.op = op, !.invoer = invoer]
  <1>1. /\ verzoek' = [p \in Verzoeken |-> verzoek'[p]]
        /\ \A p \in Verzoeken : verzoek'[p] = IF p = q THEN v ELSE verzoek[p]
    BY DEF Begint, Vorm
  <1>2. IsVerzoek(verzoek[q])
    BY DEF Vorm
  <1>3. IsVerzoek(v)
    BY <1>2 DEF IsVerzoek
  <1>4. Vorm' /\ Anders(q) /\ verzoek'[q] = v
    BY <1>1, <1>3, VerzoekVerandert
  <1>5. /\ v.pc = pc /\ v.op = op /\ v.invoer = invoer
        /\ v.gekozen = verzoek[q].gekozen /\ v.schrijf = verzoek[q].schrijf
    BY <1>2 DEF IsVerzoek
  <1> HIDE DEF v
  <1> QED BY <1>4, <1>5 DEF Begint

LEMMA NaarFeit ==
    ASSUME Vorm, NEW q \in Verzoeken, NEW pc,
           Naar(q, pc)
    PROVE  /\ Vorm' /\ Anders(q)
           /\ verzoek'[q].pc = pc
           /\ verzoek'[q].op = verzoek[q].op
           /\ verzoek'[q].invoer = verzoek[q].invoer
           /\ verzoek'[q].gekozen = verzoek[q].gekozen
           /\ verzoek'[q].schrijf = verzoek[q].schrijf
  <1> DEFINE v == [verzoek[q] EXCEPT !.pc = pc]
  <1>1. /\ verzoek' = [p \in Verzoeken |-> verzoek'[p]]
        /\ \A p \in Verzoeken : verzoek'[p] = IF p = q THEN v ELSE verzoek[p]
    BY DEF Naar, Vorm
  <1>2. IsVerzoek(verzoek[q])
    BY DEF Vorm
  <1>3. IsVerzoek(v)
    BY <1>2 DEF IsVerzoek
  <1>4. Vorm' /\ Anders(q) /\ verzoek'[q] = v
    BY <1>1, <1>3, VerzoekVerandert
  <1> QED BY <1>2, <1>4 DEF IsVerzoek, Naar

LEMMA KiestFeit ==
    ASSUME Vorm, NEW q \in Verzoeken, NEW R, NEW pc,
           Kiest(q, R, pc)
    PROVE  /\ Vorm' /\ Anders(q)
           /\ verzoek'[q].pc = pc /\ verzoek'[q].gekozen = R
           /\ verzoek'[q].op = verzoek[q].op
           /\ verzoek'[q].invoer = verzoek[q].invoer
           /\ verzoek'[q].schrijf = verzoek[q].schrijf
  <1> DEFINE v == [verzoek[q] EXCEPT !.gekozen = R, !.pc = pc]
  <1>1. /\ verzoek' = [p \in Verzoeken |-> verzoek'[p]]
        /\ \A p \in Verzoeken : verzoek'[p] = IF p = q THEN v ELSE verzoek[p]
    BY DEF Kiest, Vorm
  <1>2. IsVerzoek(verzoek[q])
    BY DEF Vorm
  <1>3. IsVerzoek(v)
    BY <1>2 DEF IsVerzoek
  <1>4. Vorm' /\ Anders(q) /\ verzoek'[q] = v
    BY <1>1, <1>3, VerzoekVerandert
  <1> QED BY <1>2, <1>4 DEF IsVerzoek, Kiest

LEMMA SchrijftFeit ==
    ASSUME Vorm, NEW q \in Verzoeken, NEW R, NEW wordt, NEW pc,
           Schrijft(q, R, wordt, pc)
    PROVE  /\ Vorm' /\ Anders(q) /\ Vrij(q, R)
           /\ verzoek'[q].pc = pc /\ verzoek'[q].gekozen = {}
           /\ verzoek'[q].op = verzoek[q].op
           /\ verzoek'[q].invoer = verzoek[q].invoer
           /\ DOMAIN verzoek'[q].schrijf = DOMAIN verzoek[q].schrijf \cup R
           /\ \A r \in DOMAIN verzoek'[q].schrijf :
                verzoek'[q].schrijf[r] = IF r \in R THEN wordt[r] ELSE verzoek[q].schrijf[r]
  <1> DEFINE w == verzoek[q].schrijf
             nieuw == [r \in DOMAIN w \cup R |-> IF r \in R THEN wordt[r] ELSE w[r]]
             v == [verzoek[q] EXCEPT !.schrijf = nieuw, !.gekozen = {}, !.pc = pc]
  <1>2. IsVerzoek(verzoek[q])
    BY DEF Vorm
  <1>1. /\ verzoek' = [p \in Verzoeken |-> verzoek'[p]]
        /\ \A p \in Verzoeken : verzoek'[p] = IF p = q THEN v ELSE verzoek[p]
    BY <1>2 DEF Schrijft, Vorm, IsVerzoek
  <1>3. IsVerzoek(v)
    BY <1>2 DEF IsVerzoek
  <1>4. Vorm' /\ Anders(q) /\ verzoek'[q] = v
    BY <1>1, <1>3, VerzoekVerandert
  <1>5. v.schrijf = nieuw /\ v.gekozen = {} /\ v.pc = pc /\ v.op = verzoek[q].op
        /\ v.invoer = verzoek[q].invoer
    BY <1>2 DEF IsVerzoek
  <1> HIDE DEF v
  <1> QED BY <1>4, <1>5 DEF Schrijft

(* A request that ends, whatever the outcome.                              *)
LEMMA EindeFeit ==
    ASSUME Vorm, NEW q \in Verzoeken, NEW uitkomst,
           verzoek' = [verzoek EXCEPT ![q] = [NieuwVerzoek EXCEPT !.pc = uitkomst]]
    PROVE  /\ Vorm' /\ Anders(q)
           /\ verzoek'[q].pc = uitkomst /\ verzoek'[q].op = Geen
           /\ verzoek'[q].invoer = Geen /\ verzoek'[q].gekozen = {}
           /\ DOMAIN verzoek'[q].schrijf = {}
  <1> DEFINE v == [NieuwVerzoek EXCEPT !.pc = uitkomst]
  <1>1. /\ verzoek' = [p \in Verzoeken |-> verzoek'[p]]
        /\ \A p \in Verzoeken : verzoek'[p] = IF p = q THEN v ELSE verzoek[p]
    BY DEF Vorm
  <1>2. IsVerzoek(NieuwVerzoek)
    BY DEF IsVerzoek, NieuwVerzoek
  <1>3. IsVerzoek(v)
    BY <1>2 DEF IsVerzoek
  <1>4. Vorm' /\ Anders(q) /\ verzoek'[q] = v
    BY <1>1, <1>3, VerzoekVerandert
  <1> QED BY <1>4, LeegDomein DEF NieuwVerzoek

(* COMMIT makes of the rows what the request saw.                          *)
LEMMA CommitFeit ==
    ASSUME Vorm, NEW q \in Verzoeken, Commit(q)
    PROVE  /\ Vorm' /\ Anders(q) /\ verzoek[q].pc = "commit"
           /\ verzoek'[q].pc = "klaar" /\ verzoek'[q].op = Geen
           /\ verzoek'[q].invoer = Geen /\ verzoek'[q].gekozen = {}
           /\ DOMAIN verzoek'[q].schrijf = {}
           /\ rij' = [r \in DOMAIN rij |-> Zicht(q)[r]]
           /\ DOMAIN rij' = DOMAIN rij
           /\ \A r \in DOMAIN rij : rij'[r] = Zicht(q)[r]
  BY EindeFeit DEF Commit, Zicht

LEMMA ZichtFeit ==
    ASSUME NEW q \in Verzoeken
    PROVE  \A r \in DOMAIN rij :
             Zicht(q)[r] = IF r \in DOMAIN verzoek[q].schrijf THEN verzoek[q].schrijf[r] ELSE rij[r]
  BY DEF Zicht

LEMMA SlotSchrijft ==
    ASSUME Vorm, Slot, NEW q \in Verzoeken, NEW R, NEW wordt, NEW pc, Schrijft(q, R, wordt, pc)
    PROVE  Slot'
  BY SchrijftFeit DEF Slot, Anders, Vrij

LEMMA SlotBlijft ==
    ASSUME Slot, NEW q \in Verzoeken, Anders(q),
           DOMAIN verzoek'[q].schrijf \subseteq DOMAIN verzoek[q].schrijf
    PROVE  Slot'
  BY DEF Slot, Anders
=============================================================================
