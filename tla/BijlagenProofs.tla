--------------------------- MODULE BijlagenProofs ---------------------------
(***************************************************************************)
(* Proofs about Bijlagen, for any number of uploads and questions.         *)
(*                                                                         *)
(* What keeps max_files is the lock on the response: at most one upload    *)
(* holds it (AlleenEen), and what that one counted still holds when its    *)
(* row appears, which may be after its caller was told of an error         *)
(* (RuimteBlijft).                                                         *)
(***************************************************************************)
EXTENDS Bijlagen, FiniteSetTheorems, TLAPS

(* At most one upload has the response row.                                *)
AlleenEen == \A u, v \in Uploads : HoudtRij(u) /\ HoudtRij(v) => u = v

(* The upload that has the row was allowed in, and still is.               *)
MagNog == \A u \in Uploads : HoudtRij(u) => MagToevoegen(u)

(* Past the count there is room for one more row.                          *)
RuimteBlijft ==
    \A u \in Uploads :
        upload[u].pc \in {"geteld", "ingevoegd"} \/ u \in onderweg
            => NogRuimte(upload[u].vraag)

(* What the two stores hold of an upload at each point of its life.        *)
Levensloop ==
    \A u \in Uploads :
        /\ upload[u].pc = "nieuw" => u \notin opslag
        /\ upload[u].pc \in {"nieuw", "bewaard"} \cup InTransactie =>
             u \notin rijen /\ u \notin onderweg /\ upload[u].uitkomst = "lopend"
        /\ upload[u].pc \in {"bewaard"} \cup InTransactie => u \in opslag
        /\ u \in onderweg => u \notin rijen
        /\ u \in onderweg => upload[u].uitkomst # "opgeslagen"
        /\ upload[u].uitkomst = "opgeslagen" => u \in rijen /\ u \in opslag
        /\ upload[u].pc = "wissen" => upload[u].uitkomst # "opgeslagen"
        /\ upload[u].pc = "klaar" /\ u \in opslag => u \in rijen

BInv == TypeOK /\ AlleenEen /\ MagNog /\ RuimteBlijft /\ Levensloop /\ MaximumPerVraag

USE DEF InTransactie, Opruimen, Lopend, Afgelopen

(* One row more at a question that had room keeps within its maximum.      *)
LEMMA EenErbij ==
    ASSUME NEW S, IsFiniteSet(S), NEW x, NEW max \in Nat, Cardinality(S) < max
    PROVE  Cardinality(S \cup {x}) <= max
  <1>1. Cardinality(S \cup {x}) = IF x \in S THEN Cardinality(S) ELSE Cardinality(S) + 1
    BY FS_AddElement
  <1>2. Cardinality(S) \in Nat
    BY FS_CardinalityType
  <1> QED BY <1>1, <1>2

LEMMA RijenEindig ==
    ASSUME TypeOK, NEW q
    PROVE  IsFiniteSet(RijenBij(q)) /\ Cardinality(RijenBij(q)) \in Nat
  <1>1. RijenBij(q) \subseteq Uploads
    BY DEF RijenBij, TypeOK
  <1> QED BY <1>1, UploadsEindig, FS_Subset, FS_CardinalityType

(* Every step keeps the types.                                             *)
LEMMA TypeStap == TypeOK /\ [Next]_vars => TypeOK'
  <1> SUFFICES ASSUME TypeOK, [Next]_vars PROVE TypeOK'
    OBVIOUS
  <1> USE DEF TypeOK, Upload
  <1>1. ASSUME NEW u \in Uploads, NEW door \in {"leverancier", "medewerker"},
               NEW q \in Vragen, Bewaar(u, door, q)
        PROVE TypeOK'
    BY <1>1 DEF Bewaar
  <1>2. ASSUME NEW u \in Uploads, NEW door \in {"leverancier", "medewerker"},
               NEW q \in Vragen, NEW rest \in {{}, {u}}, BewaarMislukt(u, door, q, rest)
        PROVE TypeOK'
    BY <1>2 DEF BewaarMislukt
  <1>3. ASSUME NEW u \in Uploads, Vergrendel(u) PROVE TypeOK'
    BY <1>3 DEF Vergrendel, Naar, Uitkomst
  <1>4. ASSUME NEW u \in Uploads, Tel(u) PROVE TypeOK'
    BY <1>4 DEF Tel, Naar, Uitkomst
  <1>5. ASSUME NEW u \in Uploads, VoegIn(u) PROVE TypeOK'
    BY <1>5 DEF VoegIn, Naar
  <1>6. ASSUME NEW u \in Uploads, Commit(u) PROVE TypeOK'
    BY <1>6 DEF Commit, Uitkomst
  <1>7. ASSUME NEW u \in Uploads, TransactieFaalt(u) PROVE TypeOK'
    BY <1>7 DEF TransactieFaalt, Uitkomst
  <1>8. ASSUME NEW u \in Uploads, NEW c \in BOOLEAN, ServerBeslist(u, c) PROVE TypeOK'
    BY <1>8 DEF ServerBeslist
  <1>9. ASSUME NEW u \in Uploads, KijktOfRijBestaat(u) PROVE TypeOK'
    BY <1>9 DEF KijktOfRijBestaat, Naar
  <1>10. ASSUME NEW u \in Uploads, Wis(u) PROVE TypeOK'
    BY <1>10 DEF Wis, Naar
  <1>11. ASSUME NEW u \in Uploads, VerbindingValt(u) PROVE TypeOK'
    BY <1>11 DEF VerbindingValt, Uitkomst
  <1>12. ASSUME NEW u \in Uploads, OpruimenMislukt(u) \/ ProcesSterft(u) PROVE TypeOK'
    BY <1>12 DEF OpruimenMislukt, ProcesSterft, Naar
  <1>13. CASE StatusWijzigt
    BY <1>13 DEF StatusWijzigt, Overgang
  <1>14. CASE UNCHANGED vars
    BY <1>14 DEF vars
  <1> QED
    BY <1>1, <1>2, <1>3, <1>4, <1>5, <1>6, <1>7, <1>8, <1>9, <1>10, <1>11, <1>12,
       <1>13, <1>14 DEF Next, UploadStap, UploadStoring

(* Type correctness: no request ever leaves the statuses the CHECK         *)
(* constraint knows, and every upload past the guard has a question.       *)
THEOREM BijlagenTypeCorrect == Spec => []TypeOK
  <1>1. Init => TypeOK
    BY DEF Init, TypeOK, Upload, NieuweUpload
  <1> QED BY <1>1, TypeStap, PTL DEF Spec

-----------------------------------------------------------------------------
(* The invariant holds at the start: nothing is stored or locked.          *)
LEMMA BeginInv == Init => BInv
  <1> SUFFICES ASSUME Init PROVE BInv
    OBVIOUS
  <1>1. TypeOK
    BY DEF Init, TypeOK, Upload, NieuweUpload
  <1>2. \A u \in Uploads : ~HoudtRij(u)
    BY DEF Init, NieuweUpload, HoudtRij
  <1>3. AlleenEen /\ MagNog
    BY <1>2 DEF AlleenEen, MagNog
  <1>4. RuimteBlijft /\ Levensloop
    BY DEF Init, NieuweUpload, RuimteBlijft, Levensloop
  <1>5. MaximumPerVraag
    <2> SUFFICES ASSUME NEW q \in Vragen PROVE Cardinality(RijenBij(q)) <= MaxFiles[q]
      BY DEF MaximumPerVraag
    <2>1. RijenBij(q) = {}
      BY DEF Init, RijenBij
    <2> QED BY <2>1, FS_EmptySet, MaxFilesGetal
  <1> QED BY <1>1, <1>3, <1>4, <1>5 DEF BInv

(* A step that adds no row leaves every count as it was.                   *)
LEMMA RijenGelijk ==
    ASSUME TypeOK, rijen' = rijen,
           \A u \in Uploads : u \in rijen => upload'[u].vraag = upload[u].vraag
    PROVE  \A q : RijenBij(q)' = RijenBij(q)
  BY DEF RijenBij, TypeOK

(* Writing the file: nobody gets the lock.                                 *)
LEMMA BewaarStap ==
    ASSUME BInv, TypeOK', NEW u \in Uploads,
           NEW door \in {"leverancier", "medewerker"}, NEW q \in Vragen,
           \/ Bewaar(u, door, q)
           \/ \E rest \in {{}, {u}} : BewaarMislukt(u, door, q, rest)
    PROVE  BInv'
  <1> USE DEF BInv
  <1>0. /\ upload[u].pc = "nieuw" /\ rijen' = rijen /\ onderweg' = onderweg
        /\ status' = status
        /\ \E nieuw : upload' = [upload EXCEPT ![u] = nieuw]
        /\ upload'[u].pc \in {"bewaard", "klaar", "restant"}
    BY DEF Bewaar, BewaarMislukt, TypeOK
  <1>1. \A v \in Uploads : v # u => upload'[v] = upload[v]
    BY <1>0 DEF TypeOK
  <1>2. u \notin rijen /\ u \notin onderweg
    BY <1>0 DEF Levensloop
  <1>3. \A v \in Uploads : HoudtRij(v)' => v # u /\ HoudtRij(v)
    BY <1>0, <1>1, <1>2 DEF HoudtRij
  <1>4. AlleenEen' /\ MagNog'
    BY <1>0, <1>1, <1>3 DEF AlleenEen, MagNog, MagToevoegen
  <1>5. \A p : RijenBij(p)' = RijenBij(p)
    BY <1>0, <1>1, <1>2, RijenGelijk
  <1>6. RuimteBlijft'
    BY <1>0, <1>1, <1>2, <1>5 DEF RuimteBlijft, NogRuimte
  <1>7. MaximumPerVraag'
    BY <1>5 DEF MaximumPerVraag
  <1>8. Levensloop'
    <2>1. CASE Bewaar(u, door, q)
      BY <2>1, <1>1, <1>2 DEF Bewaar, Levensloop, TypeOK
    <2>2. CASE \E rest \in {{}, {u}} : BewaarMislukt(u, door, q, rest)
      BY <2>2, <1>1, <1>2 DEF BewaarMislukt, Levensloop, TypeOK
    <2> QED BY <2>1, <2>2
  <1> QED BY <1>4, <1>6, <1>7, <1>8

(* The lock is granted only when nobody has it, and the row is then read.  *)
LEMMA VergrendelStap ==
    ASSUME BInv, TypeOK', NEW u \in Uploads, Vergrendel(u)
    PROVE  BInv'
  <1> USE DEF BInv
  <1>0. /\ upload[u].pc = "bewaard" /\ \A v \in Uploads : ~HoudtRij(v)
        /\ UNCHANGED <<status, opslag, rijen, onderweg>>
    BY DEF Vergrendel, RijVrij
  <1>1. \A v \in Uploads : v # u => upload'[v] = upload[v]
    BY DEF Vergrendel, Naar, Uitkomst, TypeOK, Upload
  <1>2. upload'[u].vraag = upload[u].vraag /\ upload'[u].door = upload[u].door
    BY DEF Vergrendel, Naar, Uitkomst, TypeOK, Upload
  <1>3. \/ upload'[u].pc = "vergrendeld" /\ MagToevoegen(u) /\ upload'[u].uitkomst = "lopend"
        \/ upload'[u].pc = "opruimen" /\ upload'[u].uitkomst = "geweigerd"
    BY <1>0 DEF Vergrendel, Naar, Uitkomst, TypeOK, Upload, Levensloop
  <1>4. u \notin onderweg
    BY <1>0 DEF Levensloop
  <1>5. \A v \in Uploads : HoudtRij(v)' => v = u
    BY <1>0, <1>1 DEF HoudtRij
  <1>6. AlleenEen' /\ MagNog'
    BY <1>0, <1>2, <1>3, <1>4, <1>5 DEF AlleenEen, MagNog, MagToevoegen, HoudtRij
  <1>7. \A p : RijenBij(p)' = RijenBij(p)
    BY <1>0, <1>1, <1>2, RijenGelijk
  <1>8. RuimteBlijft'
    BY <1>0, <1>1, <1>3, <1>4, <1>7 DEF RuimteBlijft, NogRuimte
  <1>9. MaximumPerVraag'
    BY <1>7 DEF MaximumPerVraag
  <1>10. Levensloop'
    BY <1>0, <1>1, <1>3 DEF Levensloop
  <1> QED BY <1>6, <1>8, <1>9, <1>10

(* Counting and inserting, by the one upload that has the lock.            *)
LEMMA BinnenSlotStap ==
    ASSUME BInv, TypeOK', NEW u \in Uploads, Tel(u) \/ VoegIn(u)
    PROVE  BInv'
  <1> USE DEF BInv
  <1>0. /\ upload[u].pc \in InTransactie
        /\ UNCHANGED <<status, opslag, rijen, onderweg>>
    BY DEF Tel, VoegIn
  <1>1. \A v \in Uploads : v # u => upload'[v] = upload[v]
    BY DEF Tel, VoegIn, Naar, Uitkomst, TypeOK, Upload
  <1>2. upload'[u].vraag = upload[u].vraag /\ upload'[u].door = upload[u].door
    BY DEF Tel, VoegIn, Naar, Uitkomst, TypeOK, Upload
  <1>3. \/ /\ upload'[u].pc \in {"geteld", "ingevoegd"} /\ upload'[u].uitkomst = "lopend"
           /\ NogRuimte(upload[u].vraag)
        \/ upload'[u].pc = "opruimen" /\ upload'[u].uitkomst = "geweigerd"
    <2>1. CASE Tel(u)
      BY <2>1 DEF Tel, Naar, Uitkomst, TypeOK, Upload, Levensloop
    <2>2. CASE VoegIn(u)
      BY <2>2 DEF VoegIn, Naar, TypeOK, Upload, Levensloop, RuimteBlijft
    <2> QED BY <2>1, <2>2
  <1>4. u \notin onderweg
    BY <1>0 DEF Levensloop
  <1>5. \A v \in Uploads : HoudtRij(v)' => HoudtRij(v)
    BY <1>0, <1>1 DEF HoudtRij
  <1>6. AlleenEen' /\ MagNog'
    BY <1>0, <1>1, <1>2, <1>5 DEF AlleenEen, MagNog, MagToevoegen
  <1>7. \A p : RijenBij(p)' = RijenBij(p)
    BY <1>0, <1>1, <1>2, RijenGelijk
  <1>8. RuimteBlijft'
    BY <1>0, <1>1, <1>2, <1>3, <1>4, <1>7 DEF RuimteBlijft, NogRuimte
  <1>9. MaximumPerVraag'
    BY <1>7 DEF MaximumPerVraag
  <1>10. Levensloop'
    BY <1>0, <1>1, <1>3 DEF Levensloop
  <1> QED BY <1>6, <1>8, <1>9, <1>10

(* A row appears, from the transaction that has the lock or from one whose *)
(* COMMIT the server still had: the count of its holder is still right.    *)
LEMMA RijErbij ==
    ASSUME BInv, NEW u \in Uploads, NogRuimte(upload[u].vraag),
           HoudtRij(u), u \notin rijen, upload[u].pc # "nieuw",
           rijen' = rijen \cup {u},
           \A v \in Uploads : upload'[v].vraag = upload[v].vraag,
           \A v \in Uploads : v # u => upload'[v].pc = upload[v].pc,
           upload'[u].pc \notin {"geteld", "ingevoegd"}, u \notin onderweg',
           \A v \in Uploads : v # u => (v \in onderweg' <=> v \in onderweg)
    PROVE  MaximumPerVraag' /\ RuimteBlijft'
  <1> USE DEF BInv
  <1>0. upload[u].vraag \in Vragen
    BY DEF TypeOK
  <1>1. RijenBij(upload[u].vraag)' = RijenBij(upload[u].vraag) \cup {u}
    BY DEF RijenBij, TypeOK
  <1>2. \A p : p # upload[u].vraag => RijenBij(p)' = RijenBij(p)
    BY DEF RijenBij, TypeOK
  <1>3. Cardinality(RijenBij(upload[u].vraag) \cup {u}) <= MaxFiles[upload[u].vraag]
    BY <1>0, RijenEindig, EenErbij, MaxFilesGetal DEF NogRuimte
  <1>4. MaximumPerVraag'
    BY <1>1, <1>2, <1>3 DEF MaximumPerVraag
  <1>5. \A v \in Uploads : v # u => ~(upload'[v].pc \in {"geteld", "ingevoegd"} \/ v \in onderweg')
    BY DEF AlleenEen, HoudtRij
  <1>6. RuimteBlijft'
    BY <1>5 DEF RuimteBlijft
  <1> QED BY <1>4, <1>6

LEMMA CommitStap ==
    ASSUME BInv, TypeOK', NEW u \in Uploads, Commit(u)
    PROVE  BInv'
  <1> USE DEF BInv
  <1>0. /\ upload[u].pc = "ingevoegd" /\ rijen' = rijen \cup {u}
        /\ UNCHANGED <<status, opslag, onderweg>>
    BY DEF Commit
  <1>1. \A v \in Uploads : v # u => upload'[v] = upload[v]
    BY DEF Commit, Uitkomst, TypeOK
  <1>2. /\ upload'[u].vraag = upload[u].vraag /\ upload'[u].door = upload[u].door
        /\ upload'[u].pc = "opruimen" /\ upload'[u].uitkomst = "opgeslagen"
    BY DEF Commit, Uitkomst, TypeOK
  <1>3. u \notin onderweg /\ u \notin rijen /\ u \in opslag /\ HoudtRij(u)
    BY <1>0 DEF Levensloop, HoudtRij
  <1>4. NogRuimte(upload[u].vraag)
    BY <1>0 DEF RuimteBlijft
  <1>5. MaximumPerVraag' /\ RuimteBlijft'
    BY <1>0, <1>1, <1>2, <1>3, <1>4, RijErbij
  <1>6. AlleenEen' /\ MagNog'
    BY <1>0, <1>1, <1>2 DEF AlleenEen, MagNog, MagToevoegen, HoudtRij
  <1>7. Levensloop'
    BY <1>0, <1>1, <1>2, <1>3 DEF Levensloop
  <1> QED BY <1>5, <1>6, <1>7

LEMMA ServerBeslistStap ==
    ASSUME BInv, TypeOK', NEW u \in Uploads, NEW c \in BOOLEAN, ServerBeslist(u, c)
    PROVE  BInv'
  <1> USE DEF BInv
  <1>0. /\ u \in onderweg /\ onderweg' = onderweg \ {u}
        /\ UNCHANGED <<status, opslag, upload>>
    BY DEF ServerBeslist
  <1>1. /\ u \notin rijen /\ upload[u].uitkomst # "opgeslagen" /\ HoudtRij(u)
        /\ upload[u].pc \notin {"nieuw", "bewaard"} \cup InTransactie
    BY <1>0 DEF Levensloop, HoudtRij
  <1>2. AlleenEen' /\ MagNog'
    BY <1>0 DEF AlleenEen, MagNog, MagToevoegen, HoudtRij
  <1>3. Levensloop'
    BY <1>0, <1>1 DEF Levensloop, ServerBeslist
  <1>4. MaximumPerVraag' /\ RuimteBlijft'
    <2>1. CASE c = TRUE
      <3>1. rijen' = rijen \cup {u} /\ NogRuimte(upload[u].vraag)
        BY <2>1, <1>0 DEF ServerBeslist, RuimteBlijft
      <3> QED BY <3>1, <1>0, <1>1, RijErbij
    <2>2. CASE c = FALSE
      <3>1. rijen' = rijen
        BY <2>2 DEF ServerBeslist
      <3>2. \A p : RijenBij(p)' = RijenBij(p)
        BY <3>1, <1>0, RijenGelijk
      <3> QED BY <3>2, <1>0 DEF MaximumPerVraag, RuimteBlijft, NogRuimte
    <2> QED BY <2>1, <2>2
  <1> QED BY <1>2, <1>3, <1>4

(* The steps that end a transaction without a row, clean up, or stop.      *)
LEMMA EindStap ==
    ASSUME BInv, TypeOK', NEW u \in Uploads,
           \/ TransactieFaalt(u) \/ VerbindingValt(u) \/ KijktOfRijBestaat(u)
           \/ Wis(u) \/ OpruimenMislukt(u) \/ ProcesSterft(u)
    PROVE  BInv'
  <1> USE DEF BInv
  <1>a USE DEF TransactieFaalt, VerbindingValt, KijktOfRijBestaat, Wis,
           OpruimenMislukt, ProcesSterft
  <1>0. rijen' = rijen /\ status' = status
    OBVIOUS
  <1>1. \A v \in Uploads : v # u => upload'[v] = upload[v]
    BY DEF Naar, Uitkomst, TypeOK, Upload
  <1>2. /\ upload'[u].vraag = upload[u].vraag /\ upload'[u].door = upload[u].door
        /\ upload'[u].pc \in Opruimen \cup Afgelopen
    BY DEF Naar, Uitkomst, TypeOK, Upload
  <1>3. \A v \in Uploads : v \in onderweg' =>
          v \in onderweg \/ (v = u /\ upload[u].pc = "ingevoegd")
    OBVIOUS
  <1>4. \A v \in Uploads : HoudtRij(v)' => HoudtRij(v)
    BY <1>1, <1>2, <1>3 DEF HoudtRij
  <1>5. AlleenEen' /\ MagNog'
    BY <1>0, <1>1, <1>2, <1>4 DEF AlleenEen, MagNog, MagToevoegen
  <1>6. \A p : RijenBij(p)' = RijenBij(p)
    BY <1>0, <1>1, <1>2, RijenGelijk
  <1>7. RuimteBlijft'
    BY <1>1, <1>2, <1>3, <1>6 DEF RuimteBlijft, NogRuimte
  <1>8. MaximumPerVraag'
    BY <1>6 DEF MaximumPerVraag
  <1>9. Levensloop'
    <2>1. CASE TransactieFaalt(u) \/ VerbindingValt(u)
      BY <2>1, <1>0, <1>1 DEF Uitkomst, Levensloop, TypeOK, Upload
    <2>2. CASE KijktOfRijBestaat(u)
      BY <2>2, <1>0, <1>1 DEF Naar, Levensloop, TypeOK, Upload, HeeftGeenRij
    <2>3. CASE Wis(u)
      BY <2>3, <1>0, <1>1 DEF Naar, Levensloop, TypeOK, Upload
    <2>4. CASE OpruimenMislukt(u) \/ ProcesSterft(u)
      BY <2>4, <1>0, <1>1 DEF Naar, Levensloop, TypeOK, Upload
    <2> QED BY <2>1, <2>2, <2>3, <2>4
  <1> QED BY <1>5, <1>7, <1>8, <1>9

LEMMA StatusStap ==
    ASSUME BInv, TypeOK', StatusWijzigt
    PROVE  BInv'
  <1> USE DEF BInv
  <1>1. \A u \in Uploads : ~HoudtRij(u) /\ ~HoudtRij(u)'
    BY DEF StatusWijzigt, RijVrij, HoudtRij
  <1>2. \A p : RijenBij(p)' = RijenBij(p)
    BY DEF StatusWijzigt, RijenBij
  <1> QED BY <1>1, <1>2 DEF StatusWijzigt, AlleenEen, MagNog, RuimteBlijft, NogRuimte,
                            Levensloop, MaximumPerVraag

(* The invariant is inductive.                                             *)
LEMMA StapInv == BInv /\ [Next]_vars => BInv'
  <1> SUFFICES ASSUME BInv, [Next]_vars PROVE BInv'
    OBVIOUS
  <1>0. TypeOK'
    BY TypeStap DEF BInv
  <1>1. CASE UNCHANGED vars
    <2>1. \A p : RijenBij(p)' = RijenBij(p)
      BY <1>1 DEF vars, RijenBij
    <2> QED BY <2>1, <1>0, <1>1 DEF vars, BInv, AlleenEen, MagNog, MagToevoegen, HoudtRij,
                RuimteBlijft, NogRuimte, Levensloop, MaximumPerVraag
  <1>2. CASE StatusWijzigt
    BY <1>0, <1>2, StatusStap
  <1>3. ASSUME NEW u \in Uploads,
               \E door \in {"leverancier", "medewerker"}, q \in Vragen :
                 \/ Bewaar(u, door, q)
                 \/ \E rest \in {{}, {u}} : BewaarMislukt(u, door, q, rest)
        PROVE BInv'
    BY <1>0, <1>3, BewaarStap
  <1>4. ASSUME NEW u \in Uploads, UploadStap(u) PROVE BInv'
    BY <1>0, <1>4, VergrendelStap, BinnenSlotStap, CommitStap, ServerBeslistStap, EindStap
       DEF UploadStap
  <1>5. ASSUME NEW u \in Uploads, UploadStoring(u) PROVE BInv'
    BY <1>0, <1>5, EindStap DEF UploadStoring
  <1> QED BY <1>1, <1>2, <1>3, <1>4, <1>5 DEF Next

(* The inductive invariant: one holder of the lock at a time, whose count  *)
(* and permission stay right until its row is there.                       *)
THEOREM BijlagenInvariant == Spec => []BInv
  BY BeginInv, StapInv, PTL DEF Spec

(* Never more attachments at a question than max_files, with any number of *)
(* concurrent uploads of supplier and employees.                           *)
THEOREM MaximumHoudtStand == Spec => []MaximumPerVraag
  <1>1. BInv => MaximumPerVraag
    BY DEF BInv
  <1> QED BY <1>1, BijlagenInvariant, PTL

(* What was reported as stored stays stored.                               *)
THEOREM OpgeslagenBlijft == Spec => []GemeldIsBewaard
  <1>1. BInv => GemeldIsBewaard
    BY DEF BInv, Levensloop, GemeldIsBewaard
  <1> QED BY <1>1, BijlagenInvariant, PTL

(* A request that came to its end leaves no file without a row.            *)
THEOREM NetjesOpgeruimd == Spec => []GeenWeesbestand
  <1>1. BInv => GeenWeesbestand
    BY DEF BInv, Levensloop, GeenWeesbestand
  <1> QED BY <1>1, BijlagenInvariant, PTL

(* A row of the supplier appears only while the response is open: whoever  *)
(* commits one holds the row lock, and was admitted under it.              *)
THEOREM DichtNaIndienen == Spec => NaIndienenDicht
  <1>1. BInv /\ [Next]_vars =>
          [\A u \in rijen' \ rijen : upload[u].door = "leverancier" => status = "pending"]_vars
    <2> SUFFICES ASSUME BInv, Next, NEW u \in rijen' \ rijen, upload[u].door = "leverancier"
                 PROVE  status = "pending"
      OBVIOUS
    <2>1. u \in Uploads /\ HoudtRij(u)
      BY DEF Next, UploadStap, UploadStoring, Bewaar, BewaarMislukt, Vergrendel, Tel, VoegIn, Commit,
         TransactieFaalt, ServerBeslist, KijktOfRijBestaat, Wis, VerbindingValt,
         OpruimenMislukt, ProcesSterft, StatusWijzigt, HoudtRij
    <2> QED BY <2>1 DEF BInv, MagNog, MagToevoegen
  <1> QED BY <1>1, BijlagenInvariant, PTL DEF Spec, NaIndienenDicht
=============================================================================
