--------------------------- MODULE Importbestand ---------------------------
(***************************************************************************)
(* The files suppliers and contracts are imported from: csv-lezer.ts reads *)
(* a text into rows, leverancier-import-schema.ts and                      *)
(* contract-import-schema.ts recognise the columns and judge each row.     *)
(*                                                                         *)
(* A text is a sequence of characters: Quote, LF, CR, space, the four      *)
(* separators, the byte order mark, and anything else.                     *)
(***************************************************************************)
EXTENDS Integers, Sequences, FiniteSets, SequencesExt

Quote == "q"
LF == "lf"
CR == "cr"
Spatie == " "
Bom == "bom"
Scheidingstekens == <<",", ";", "tab", "|">>

-----------------------------------------------------------------------------
(* csv-lezer.ts.                                                           *)

(* What trim() takes away: white space, the line ends and the byte order   *)
(* mark among it.                                                          *)
Wit == {Spatie, LF, CR, "tab", Bom}

Trim(s) ==
    LET vol == {i \in DOMAIN s : s[i] \notin Wit} IN
    IF vol = {} THEN <<>>
    ELSE SubSeq(s, CHOOSE i \in vol : \A j \in vol : i <= j, CHOOSE i \in vol : \A j \in vol : i >= j)

EersteRegel(tekst) ==
    LET einden == {i \in DOMAIN tekst : tekst[i] = LF} IN
    IF einden = {} THEN tekst ELSE SubSeq(tekst, 1, (CHOOSE i \in einden : \A j \in einden : i <= j) - 1)

(* How often a separator stands outside the quotes.                        *)
Aantal(teken, regel) ==
    Cardinality({i \in DOMAIN regel :
        /\ regel[i] = teken
        /\ Cardinality({j \in 1..i : regel[j] = Quote}) % 2 = 0})

(* The one found most often; of those found as often, the first.           *)
BepaalScheidingsteken(regel) ==
    LET n(k) == Aantal(Scheidingstekens[k], regel) IN
    Scheidingstekens[CHOOSE k \in 1..4 : \A j \in 1..4 : n(k) >= n(j) /\ (n(k) = n(j) => k <= j)]

(* splitsRijen, one character at a time.  A quote within quotes is closing *)
(* unless the next one is a quote too.                                     *)
Begin == [rijen |-> <<>>, rij |-> <<>>, veld |-> <<>>, stand |-> "buiten"]

(* Mutant of Lees: MVM_V2's way, every quote switches.                     *)
LeesWissel(s, c, teken) ==
    CASE c = Quote -> [s EXCEPT !.stand = IF @ = "buiten" THEN "binnen" ELSE "buiten"]
      [] c # Quote /\ s.stand = "binnen" -> [s EXCEPT !.veld = Append(@, c)]
      [] c = teken /\ s.stand # "binnen" -> [s EXCEPT !.rij = Append(@, s.veld), !.veld = <<>>]
      [] c = LF /\ s.stand # "binnen" ->
           [s EXCEPT !.rijen = Append(@, Append(s.rij, s.veld)), !.rij = <<>>, !.veld = <<>>]
      [] c = CR /\ s.stand # "binnen" -> s
      [] OTHER -> [s EXCEPT !.veld = Append(@, c)]

Lees(s, c, teken) ==
    CASE s.stand = "binnen" /\ c = Quote -> [s EXCEPT !.stand = "dicht"]
      [] s.stand = "binnen" /\ c # Quote -> [s EXCEPT !.veld = Append(@, c)]
      [] s.stand = "dicht" /\ c = Quote  -> [s EXCEPT !.veld = Append(@, c), !.stand = "binnen"]
      [] s.stand = "buiten" /\ c = Quote -> [s EXCEPT !.stand = "binnen"]
      [] s.stand # "binnen" /\ c = teken ->
           [s EXCEPT !.rij = Append(@, s.veld), !.veld = <<>>, !.stand = "buiten"]
      [] s.stand # "binnen" /\ c = LF ->
           [s EXCEPT !.rijen = Append(@, Append(s.rij, s.veld)), !.rij = <<>>, !.veld = <<>>,
                     !.stand = "buiten"]
      [] s.stand # "binnen" /\ c = CR -> [s EXCEPT !.stand = "buiten"]
      [] OTHER -> [s EXCEPT !.veld = Append(@, c), !.stand = "buiten"]

SplitsRijen(tekst, teken) ==
    LET s == FoldLeft(LAMBDA acc, c : Lees(acc, c, teken), Begin, tekst) IN
    IF s.veld # <<>> \/ s.rij # <<>> THEN Append(s.rijen, Append(s.rij, s.veld)) ELSE s.rijen

LegeRij(rij) == \A i \in DOMAIN rij : Trim(rij[i]) = <<>>

(* leesCsv: koppen and rijen, without the empty rows.                      *)
LeesCsv(tekst) ==
    LET gevuld == SelectSeq(SplitsRijen(tekst, BepaalScheidingsteken(EersteRegel(tekst))),
                            LAMBDA rij : ~LegeRij(rij)) IN
    IF gevuld = <<>> THEN [koppen |-> <<>>, rijen |-> <<>>]
    ELSE [koppen |-> [i \in DOMAIN gevuld[1] |-> Trim(gevuld[1][i])], rijen |-> Tail(gevuld)]

-----------------------------------------------------------------------------
(* leverancier-import-schema.ts.                                           *)

Cijfers == {"0", "1", "2", "3", "4", "5", "6", "7", "8", "9"}
Punten == {",", "."}

Cijfer(c) == CASE c = "0" -> 0 [] c = "1" -> 1 [] c = "2" -> 2 [] c = "3" -> 3 [] c = "4" -> 4
               [] c = "5" -> 5 [] c = "6" -> 6 [] c = "7" -> 7 [] c = "8" -> 8 [] c = "9" -> 9

Getalwaarde(s) == FoldLeft(LAMBDA n, c : 10 * n + Cijfer(c), 0, s)

(* leesBedrag, in cents; -1 is invalid.  Two digits after the last point   *)
(* or comma are cents, every other point or comma groups thousands.        *)
LeesBedrag(s) ==
    LET punten == {i \in DOMAIN s : s[i] \in Punten}
        laatste == IF punten = {} THEN 0 ELSE CHOOSE i \in punten : \A j \in punten : j <= i
        centen == laatste # 0 /\ Len(s) - laatste = 2
        kaal == SelectSeq(s, LAMBDA c : c \notin Punten) IN
    IF kaal = <<>> \/ (centen /\ Len(kaal) = 2) \/ \E i \in DOMAIN kaal : kaal[i] \notin Cijfers
    THEN -1
    ELSE Getalwaarde(kaal) * (IF centen THEN 1 ELSE 100)

Sleutel(r) == IF r.kvk # "" THEN <<"kvk", r.kvk>> ELSE <<"naam", r.name>>

(* Row i is a supplier that stands on an earlier row with a name.          *)
Dubbel(rijen, i) ==
    rijen[i].name # "" /\ \E j \in 1..(i - 1) : rijen[j].name # "" /\ Sleutel(rijen[j]) = Sleutel(rijen[i])

(* A malformed KvK number, address, impact or amount is only a warning.    *)
Leveranciersbevindingen(rijen, i) ==
    LET r == rijen[i] IN
    {b \in {"naam_ontbreekt", "dubbel_in_bestand", "waarschuwing"} :
        CASE b = "naam_ontbreekt"    -> r.name = ""
          [] b = "dubbel_in_bestand" -> Dubbel(rijen, i)
          [] b = "waarschuwing"      -> r.waarschuwing}

Importeerbaar(bevindingen) ==
    bevindingen \cap {"naam_ontbreekt", "dubbel_in_bestand", "contract_naam_ontbreekt",
                      "vendor_naam_ontbreekt", "datum_volgorde_ongeldig"} = {}

Samenvatting(bevindingen) ==
    LET D == DOMAIN bevindingen IN
    [totaal          |-> Cardinality(D),
     importeerbaar   |-> Cardinality({i \in D : Importeerbaar(bevindingen[i])}),
     geblokkeerd     |-> Cardinality({i \in D : ~Importeerbaar(bevindingen[i])}),
     metWaarschuwing |-> Cardinality({i \in D : Importeerbaar(bevindingen[i]) /\ bevindingen[i] # {}})]

-----------------------------------------------------------------------------
(* contract-import-schema.ts.                                              *)

Schrikkel(j) == (j % 4 = 0 /\ j % 100 # 0) \/ j % 400 = 0

DagenIn(m, j) == IF m = 2 THEN (IF Schrikkel(j) THEN 29 ELSE 28) ELSE IF m \in {4, 6, 9, 11} THEN 30 ELSE 31

(* Date.UTC: months beyond December and days beyond the month carry over.  *)
DateUTC(d) ==
    LET maand(n) == [m |-> ((n - 1) % 12) + 1, j |-> d.jaar + ((n - 1) \div 12)]
        over[n \in 0..110, dag \in 0..99] ==
            LET x == maand(n) IN
            IF dag > DagenIn(x.m, x.j) THEN over[n + 1, dag - DagenIn(x.m, x.j)]
            ELSE [dag |-> dag, maand |-> x.m, jaar |-> x.j] IN
    IF d.dag = 0 \/ d.maand = 0 THEN [dag |-> -1, maand |-> -1, jaar |-> -1]
    ELSE over[d.maand, d.dag]

(* leesContractDatum: valid when nothing carried over.                     *)
DatumGeldig(d) == DateUTC(d) = d

Eerder(d, e) ==
    \/ d.jaar < e.jaar
    \/ d.jaar = e.jaar /\ d.maand < e.maand
    \/ d.jaar = e.jaar /\ d.maand = e.maand /\ d.dag < e.dag

GeenDatum == [dag |-> 0, maand |-> 0, jaar |-> 0]

(* What the import finds in a row of contracts, but for the three remarks  *)
(* on one cell (e-mail, criticality, risk tier), which never block it.     *)
Contractbevindingen(r) ==
    LET ja(x) == x # GeenDatum /\ DatumGeldig(x) IN
    {b \in {"contract_naam_ontbreekt", "vendor_naam_ontbreekt", "vendor_geen_matchsleutel",
            "datum_ongeldig", "datum_volgorde_ongeldig"} :
        CASE b = "contract_naam_ontbreekt"  -> r.contract = ""
          [] b = "vendor_naam_ontbreekt"    -> r.vendor = ""
          [] b = "vendor_geen_matchsleutel" -> r.coupa = ""
          [] b = "datum_ongeldig"           -> \E x \in {r.start, r.eind} : x # GeenDatum /\ ~DatumGeldig(x)
          [] b = "datum_volgorde_ongeldig"  -> ja(r.start) /\ ja(r.eind) /\ Eerder(r.eind, r.start)}

(* A column of contacts is [veld, nr]: "email" or "naam", nr 0 when the    *)
(* header has no number.  The last unnumbered column of a kind is the      *)
(* primary one, 1; an earlier one takes the next free number.              *)
Primair(koppen, i) == \A j \in DOMAIN koppen : j > i => koppen[j] # koppen[i]

Nummers(koppen) ==
    LET Neem(acc, i) ==
          LET k == koppen[i] IN
          CASE k.nr >= 2                      -> [nr  |-> Append(acc.nr, k.nr),
                                                  vrij |-> IF k.nr >= acc.vrij THEN k.nr + 1 ELSE acc.vrij]
            [] k.nr = 0 /\ Primair(koppen, i)  -> [acc EXCEPT !.nr = Append(@, 1)]
            [] k.nr = 0 /\ ~Primair(koppen, i) -> [nr |-> Append(acc.nr, acc.vrij), vrij |-> acc.vrij + 1] IN
    FoldLeft(Neem, [nr |-> <<>>, vrij |-> 2], [i \in DOMAIN koppen |-> i]).nr

(* maakInvoer: the contacts of a row, the last filled cell of each place.  *)
Leegveld == 0

Contacten(koppen, cellen) ==
    LET nr == Nummers(koppen)
        plekken == {<<koppen[i].veld, nr[i]>> : i \in DOMAIN koppen}
        kolommen(p) == {i \in DOMAIN koppen : <<koppen[i].veld, nr[i]>> = p /\ cellen[i] # Leegveld} IN
    [p \in {q \in plekken : kolommen(q) # {}} |->
        cellen[CHOOSE i \in kolommen(p) : \A j \in kolommen(p) : j <= i]]
=============================================================================
