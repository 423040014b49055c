------------------------ MODULE ContractImportProofs ------------------------
(***************************************************************************)
(* Proofs about ContractImport, for any number of jobs, rows and           *)
(* concurrent confirmations.                                               *)
(*                                                                         *)
(* What an import will commit is known at each of its statements: exactly  *)
(* the contracts of the importable rows it has passed (Verloop).  What is  *)
(* committed is what confirmed requests wrote (Vastgelegd).                *)
(***************************************************************************)
EXTENDS ContractImport, TLAPS

NaContract == {"gebied", "maakGebied", "boek"}

(* The rows whose contract request r has written so far.                   *)
Gehad(r) == {i \in Importeerbaar(verzoek[r].job) :
               i < verzoek[r].rij \/ (i = verzoek[r].rij /\ verzoek[r].pc \in NaContract)}

(* Where a request is in its file.                                         *)
Plaats(r) ==
    /\ verzoek[r].pc \in Open =>
         /\ verzoek[r].job \in Jobs
         /\ verzoek[r].rij \in 1..(Len(Rijen[verzoek[r].job]) + 1)
    /\ verzoek[r].pc \in Open \ {"rij"} => HeeftRij(r) /\ MagImporteren(r)
    /\ verzoek[r].pc \in {"contact", "maakContact", "contract"} => verzoek[r].vendor \in Vendor
    /\ verzoek[r].pc = "maakContact" => HuidigeRij(r).contact # Geen
    /\ verzoek[r].pc = "maakCategorie" => HuidigeRij(r).categorie # Geen
    /\ verzoek[r].pc = "maakGebied" => HuidigeRij(r).gebied # Geen
    /\ verzoek[r].pc = "bevestigd" => verzoek[r].job \in Jobs
    /\ verzoek[r].pc \notin Open => verzoek[r].eigen = Leeg

(* The contracts in the transaction of a request.                          *)
Contracten(r) ==
    /\ \A c \in verzoek[r].eigen.contracten :
         c.door = r /\ c.job = verzoek[r].job /\ c.rij \in Gehad(r)
    /\ verzoek[r].pc \in Open =>
         \A i \in Gehad(r) : \E c \in verzoek[r].eigen.contracten : c.rij = i

(* The vendors in the transaction of a request.                            *)
NieuweVendors(r) ==
    /\ \A v \in verzoek[r].eigen.vendors : v.door = r
    /\ \A v, w \in verzoek[r].eigen.vendors : v.nummer = w.nummer /\ v.nummer # Geen => v = w
    /\ verzoek[r].pc \in {"categorie", "maakCategorie"} =>
         \A v \in verzoek[r].eigen.vendors :
            HuidigeRij(r).nummer # Geen => v.nummer # HuidigeRij(r).nummer

Uitslag(j, i, r) == IF i \in Importeerbaar(j) THEN r ELSE Geen

(* The results in the transaction of a request.                            *)
Boekingen(r) ==
    /\ \A b \in verzoek[r].eigen.boekingen :
         /\ b.job = verzoek[r].job
         /\ b.rij \in 1..Len(Rijen[b.job])
         /\ b.door = Uitslag(b.job, b.rij, r)
    /\ verzoek[r].pc \in Open =>
         \A i \in 1..(verzoek[r].rij - 1) :
            \E b \in verzoek[r].eigen.boekingen : b.rij = i

Verloop(r) == Plaats(r) /\ Contracten(r) /\ NieuweVendors(r) /\ Boekingen(r)

(* What is committed was committed by a request that is confirmed.         *)
VendorVanBevestigd ==
    \A v \in db.vendors : v.door # Geen => verzoek[v.door].pc = "bevestigd"

BoekingKlopt ==
    \A b \in db.boekingen :
        /\ b.rij \in 1..Len(Rijen[b.job])
        /\ IF b.rij \in Importeerbaar(b.job)
           THEN /\ b.door # Geen /\ verzoek[b.door].pc = "bevestigd"
                /\ verzoek[b.door].job = b.job
           ELSE b.door = Geen

AllesGeboekt ==
    \A j \in Jobs : job[j].status = "bevestigd" =>
        \A i \in 1..Len(Rijen[j]) : \E b \in db.boekingen : b.job = j /\ b.rij = i

IInv ==
    /\ TypeOK
    /\ \A r \in Verzoeken : Verloop(r)
    /\ AllesOfNiets
    /\ VendorVanBevestigd /\ EenVendorPerNummer
    /\ BoekingKlopt /\ AllesGeboekt

(* A row of a file is a row.                                               *)
LEMMA RijType ==
    ASSUME NEW r \in Verzoeken, verzoek[r].job \in Jobs,
           verzoek[r].rij \in 1..Len(Rijen[verzoek[r].job])
    PROVE  HuidigeRij(r) \in Rij
  <1>1. Rijen[verzoek[r].job] \in Seq(Rij)
    BY RijenPerJob
  <1> QED BY <1>1 DEF HuidigeRij

(* A request in the middle of a row has that row.                          *)
LEMMA InEenRij ==
    ASSUME NEW r \in Verzoeken, Plaats(r), TypeOK,
           verzoek[r].pc \in Open, verzoek[r].pc # "rij" \/ HeeftRij(r)
    PROVE  /\ verzoek[r].job \in Jobs
           /\ verzoek[r].rij \in 1..Len(Rijen[verzoek[r].job])
           /\ HuidigeRij(r) \in Rij
  <1>1. verzoek[r].job \in Jobs /\ verzoek[r].rij \in 1..(Len(Rijen[verzoek[r].job]) + 1)
    BY DEF Plaats
  <1>2. Rijen[verzoek[r].job] \in Seq(Rij)
    BY <1>1, RijenPerJob
  <1>3. verzoek[r].rij <= Len(Rijen[verzoek[r].job])
    BY DEF Plaats, HeeftRij
  <1>4. verzoek[r].rij \in 1..Len(Rijen[verzoek[r].job])
    BY <1>1, <1>2, <1>3
  <1> QED BY <1>1, <1>4, RijType

-----------------------------------------------------------------------------
(* Every step keeps the types, provided each request is at a row of its    *)
(* file.                                                                   *)
LEMMA TypeStap ==
    TypeOK /\ (\A r \in Verzoeken : Plaats(r)) /\ [Next]_vars => TypeOK'
  <1> SUFFICES ASSUME TypeOK, \A r \in Verzoeken : Plaats(r), [Next]_vars
               PROVE  TypeOK'
    OBVIOUS
  <1>1. ASSUME NEW j \in Jobs, Preview(j) PROVE TypeOK'
    BY <1>1 DEF Preview, TypeOK
  <1>2. ASSUME NEW j \in Jobs, NEW r \in Verzoeken, LeesJob(r, j) PROVE TypeOK'
    <2>1. verzoek[r] \in Verzoek
      BY DEF TypeOK
    <2>2. [verzoek[r] EXCEPT !.pc = IF job[j].status = "preview" THEN "rij" ELSE "geweigerd",
                             !.job = j, !.rij = 1] \in Verzoek
      BY <2>1 DEF Verzoek, Open, Gedaan
    <2> QED BY <1>2, <2>2 DEF LeesJob, TypeOK
  <1>3. ASSUME NEW r \in Verzoeken, ImportStap(r) \/ Faalt(r) PROVE TypeOK'
    <2> USE DEF Open, Gedaan, Verzoek
    <2>a. verzoek[r] \in Verzoek /\ verzoek[r].eigen \in Tabellen
      BY DEF TypeOK
    <2>0. ASSUME Mislukt(r) PROVE TypeOK'
      BY <2>a, <2>0 DEF Mislukt, TypeOK, Leeg, Tabellen
    <2>1. CASE SlaOver(r)
      <3>1. verzoek[r].job \in Jobs
        BY <2>1, InEenRij DEF SlaOver
      <3> QED BY <2>1, <3>1 DEF SlaOver, Boekt, TypeOK, Tabellen, Boeking
    <2>2. CASE VindVendor(r)
      BY <2>2 DEF VindVendor, Ziet, TypeOK, Tabellen
    <2>3. ASSUME verzoek[r].pc \in {"categorie", "maakCategorie"},
                 NEW codes \in SUBSET Code, MaaktVendor(r, codes), UNCHANGED <<job, db>>
          PROVE  TypeOK'
      <3>1. HuidigeRij(r) \in Rij
        BY <2>3, InEenRij
      <3>2. NieuweVendor(r) \in Vendor
        BY <3>1 DEF NieuweVendor, Vendor, Rij, TypeOK
      <3>3. [verzoek[r] EXCEPT !.pc = "contact", !.vendor = NieuweVendor(r),
                               !.eigen.vendors = @ \cup {NieuweVendor(r)},
                               !.eigen.codes = @ \cup codes] \in Verzoek
        BY <2>a, <3>2 DEF Tabellen
      <3> QED BY <2>3, <3>3 DEF MaaktVendor, TypeOK
    <2>4. CASE VindCategorie(r)
      <3>1. CASE MaaktVendor(r, {})
        BY <2>3, <2>4, <3>1 DEF VindCategorie
      <3>2. CASE verzoek' = [verzoek EXCEPT ![r].pc = "maakCategorie"]
        BY <2>4, <3>2 DEF VindCategorie, TypeOK
      <3> QED BY <2>4, <3>1, <3>2 DEF VindCategorie
    <2>5. CASE MaakCategorie(r)
      <3>1. HuidigeRij(r) \in Rij
        BY <2>5, InEenRij DEF MaakCategorie
      <3>2. CategorieCode(r) \in Code
        BY <2>5, <3>1 DEF MaakCategorie, CategorieCode, Code, Rij, Plaats
      <3> QED BY <2>3, <2>5, <3>2 DEF MaakCategorie
    <2>6. CASE VindContact(r)
      BY <2>6 DEF VindContact, Ziet, TypeOK, Tabellen
    <2>7. CASE MaakContact(r)
      <3>1. HuidigeRij(r) \in Rij /\ HuidigeRij(r).contact # Geen
                /\ verzoek[r].vendor \in Vendor
        BY <2>7, InEenRij DEF MaakContact, Plaats
      <3> DEFINE nieuw == [door |-> r, rij |-> verzoek[r].rij, vendor |-> verzoek[r].vendor,
                   sleutel |-> HuidigeRij(r).contact,
                   primair |-> \A c \in Ziet(r, "contacten") : c.vendor # verzoek[r].vendor]
      <3>2. nieuw \in Contact
        BY <3>1 DEF Contact, Rij, TypeOK
      <3>3. /\ verzoek' = [verzoek EXCEPT ![r].pc = "contract", ![r].contact = nieuw,
                                      ![r].eigen.contacten = @ \cup {nieuw}]
            /\ UNCHANGED <<job, db>>
        BY <2>7 DEF MaakContact
      <3> HIDE DEF nieuw
      <3> QED BY <2>a, <3>2, <3>3 DEF TypeOK, Tabellen
    <2>8. CASE MaakContract(r)
      <3>1. NieuwContract(r) \in Contract
        BY <2>8, InEenRij DEF MaakContract, NieuwContract, Contract, Plaats, TypeOK
      <3> QED BY <2>a, <2>8, <3>1 DEF MaakContract, TypeOK, Tabellen
    <2>9. CASE VindGebied(r)
      BY <2>9 DEF VindGebied, TypeOK
    <2>10. CASE MaakGebied(r)
      <3>1. HuidigeRij(r) \in Rij
        BY <2>10, InEenRij DEF MaakGebied
      <3>2. GebiedCode(r) \in Code
        BY <2>10, <3>1 DEF MaakGebied, GebiedCode, Code, Rij, Plaats
      <3> QED BY <2>a, <2>10, <3>2 DEF MaakGebied, TypeOK, Tabellen
    <2>11. CASE BoekRij(r)
      <3>1. verzoek[r].job \in Jobs
        BY <2>11, InEenRij DEF BoekRij
      <3> QED BY <2>11, <3>1 DEF BoekRij, Boekt, TypeOK, Tabellen, Boeking
    <2>12. CASE Bevestig(r)
      <3>1. verzoek[r].job \in Jobs
        BY <2>12 DEF Bevestig, Plaats
      <3>2. job' \in [Jobs -> [status : {"geen", "preview", "bevestigd"}, audit : Nat]]
        BY <2>12, <3>1 DEF Bevestig, TypeOK
      <3>3. db' \in Tabellen
        BY <2>12 DEF Bevestig, NaBoeking, TypeOK, Tabellen
      <3> QED BY <2>12, <3>2, <3>3 DEF Bevestig, Leeg, TypeOK, Tabellen
    <2> QED BY <1>3, <2>0, <2>1, <2>2, <2>4, <2>5, <2>6, <2>7, <2>8, <2>9, <2>10, <2>11, <2>12
            DEF ImportStap, Botst, DeadlockAfgebroken, Faalt
  <1>4. CASE UNCHANGED vars
    BY <1>4 DEF vars, TypeOK
  <1> QED BY <1>1, <1>2, <1>3, <1>4 DEF Next

-----------------------------------------------------------------------------
USE DEF Open, Gedaan, NaContract

(* What another request does leaves the course of a request alone.         *)
LEMMA AnderBlijft ==
    ASSUME NEW r, verzoek'[r] = verzoek[r], Verloop(r)
    PROVE  Verloop(r)'
  BY DEF Verloop, Plaats, Contracten, NieuweVendors, Boekingen, Gehad, HeeftRij,
         HuidigeRij, MagImporteren, Uitslag

(* A request that ends has nothing left in its transaction.                *)
LEMMA EindeVerloop ==
    ASSUME NEW r \in Verzoeken, TypeOK, verzoek'[r].eigen = Leeg,
           verzoek'[r].pc \in Gedaan,
           verzoek'[r].pc = "bevestigd" => verzoek'[r].job \in Jobs
    PROVE  Verloop(r)'
  BY DEF Verloop, Plaats, Contracten, NieuweVendors, Boekingen, Leeg

(* Within a row: a statement that does not touch a table leaves what is     *)
(* known of that table alone.                                              *)
LEMMA BinnenDeRij ==
    ASSUME NEW r \in Verzoeken, Verloop(r),
           verzoek[r].pc \in Open, verzoek'[r].pc \in Open,
           verzoek'[r].job = verzoek[r].job, verzoek'[r].rij = verzoek[r].rij
    PROVE  /\ /\ verzoek'[r].eigen.contracten = verzoek[r].eigen.contracten
              /\ verzoek'[r].pc \in NaContract <=> verzoek[r].pc \in NaContract
              => Contracten(r)'
           /\ /\ verzoek'[r].eigen.vendors = verzoek[r].eigen.vendors
              /\ verzoek'[r].pc = "categorie" => verzoek[r].pc = "categorie"
              /\ verzoek'[r].pc = "maakCategorie" => verzoek[r].pc = "categorie"
              => NieuweVendors(r)'
           /\ verzoek'[r].eigen.boekingen = verzoek[r].eigen.boekingen => Boekingen(r)'
           /\ /\ verzoek[r].pc # "rij"
              /\ verzoek'[r].pc \in {"contact", "maakContact", "contract"}
                    => verzoek'[r].vendor \in Vendor
              /\ verzoek'[r].pc = "maakContact" => HuidigeRij(r).contact # Geen
              /\ verzoek'[r].pc = "maakCategorie" => HuidigeRij(r).categorie # Geen
              /\ verzoek'[r].pc = "maakGebied" => HuidigeRij(r).gebied # Geen
              => Plaats(r)'
  <1>2. ASSUME verzoek'[r].pc \in NaContract <=> verzoek[r].pc \in NaContract
        PROVE  Gehad(r)' = Gehad(r)
    BY <1>2 DEF Gehad
  <1>3. ASSUME verzoek'[r].eigen.contracten = verzoek[r].eigen.contracten,
               verzoek'[r].pc \in NaContract <=> verzoek[r].pc \in NaContract
        PROVE  Contracten(r)'
    BY <1>2, <1>3 DEF Contracten, Verloop
  <1>4. ASSUME verzoek'[r].eigen.vendors = verzoek[r].eigen.vendors,
               verzoek'[r].pc = "categorie" => verzoek[r].pc = "categorie",
               verzoek'[r].pc = "maakCategorie" => verzoek[r].pc = "categorie"
        PROVE  NieuweVendors(r)'
    BY <1>4 DEF NieuweVendors, Verloop, HuidigeRij
  <1>5. ASSUME verzoek'[r].eigen.boekingen = verzoek[r].eigen.boekingen
        PROVE  Boekingen(r)'
    BY <1>5 DEF Boekingen, Verloop, Uitslag
  <1>6. ASSUME verzoek[r].pc # "rij",
               verzoek'[r].pc \in {"contact", "maakContact", "contract"}
                 => verzoek'[r].vendor \in Vendor,
               verzoek'[r].pc = "maakContact" => HuidigeRij(r).contact # Geen,
               verzoek'[r].pc = "maakCategorie" => HuidigeRij(r).categorie # Geen,
               verzoek'[r].pc = "maakGebied" => HuidigeRij(r).gebied # Geen
        PROVE  Plaats(r)'
    BY <1>6 DEF Plaats, Verloop, HeeftRij, MagImporteren, HuidigeRij
  <1> QED BY <1>3, <1>4, <1>5, <1>6

(* A request keeps to its course.                                          *)
LEMMA VerloopStap ==
    ASSUME TypeOK, NEW r \in Verzoeken, Verloop(r), TypeOK',
           (\E j \in Jobs : LeesJob(r, j)) \/ ImportStap(r) \/ Faalt(r)
    PROVE  Verloop(r)'
  <1>a. verzoek[r] \in Verzoek /\ verzoek[r].eigen \in Tabellen /\ verzoek[r].rij \in Nat
    BY DEF TypeOK, Verzoek
  <1> USE DEF Verzoek, Tabellen
  <1>b. \A j \in Jobs : Rijen[j] \in Seq(Rij) /\ Len(Rijen[j]) \in Nat
    BY RijenPerJob
  <1>1. ASSUME NEW j \in Jobs, LeesJob(r, j) PROVE Verloop(r)'
    <2>1. /\ verzoek[r].eigen = Leeg
          /\ verzoek'[r] = [verzoek[r] EXCEPT
               !.pc = IF job[j].status = "preview" THEN "rij" ELSE "geweigerd",
               !.job = j, !.rij = 1]
      BY <1>1 DEF LeesJob, Verloop, Plaats, TypeOK
    <2>2. Plaats(r)'
      BY <1>a, <1>b, <2>1 DEF Plaats
    <2>3. Contracten(r)' /\ NieuweVendors(r)' /\ Boekingen(r)'
      BY <1>a, <1>b, <2>1 DEF Contracten, NieuweVendors, Boekingen, Gehad,
         Importeerbaar, Leeg
    <2> QED BY <2>2, <2>3 DEF Verloop
  <1>2. ASSUME NEW door \in {Geen, r}, Boekt(r, door), HeeftRij(r),
               \/ verzoek[r].pc = "rij" /\ door = Geen /\ ~MagImporteren(r)
               \/ verzoek[r].pc = "boek" /\ door = r
        PROVE  Verloop(r)'
    <2> DEFINE boeking == [job |-> verzoek[r].job, rij |-> verzoek[r].rij, door |-> door]
    <2>1. verzoek'[r] = [verzoek[r] EXCEPT !.pc = "rij", !.rij = @ + 1,
                           !.eigen.boekingen = @ \cup {boeking}]
      BY <1>2 DEF Boekt, TypeOK
    <2>2. /\ verzoek[r].job \in Jobs
          /\ verzoek[r].rij \in 1..Len(Rijen[verzoek[r].job])
      BY <1>2, InEenRij DEF Verloop
    <2>3. Plaats(r)'
      BY <1>a, <1>b, <2>1, <2>2 DEF Plaats
    <2>4. Gehad(r)' = Gehad(r)
      BY <1>2, <1>a, <1>b, <2>1, <2>2 DEF Gehad, Importeerbaar, MagImporteren,
         HuidigeRij, Verloop, Plaats
    <2>5. Contracten(r)' /\ NieuweVendors(r)'
      BY <1>2, <1>a, <2>1, <2>4 DEF Contracten, NieuweVendors, Verloop
    <2>6. door = Uitslag(verzoek[r].job, verzoek[r].rij, r)
      BY <1>2, <2>2 DEF Uitslag, Importeerbaar, MagImporteren, HuidigeRij, Verloop, Plaats
    <2>7. Boekingen(r)'
      <3>1. ASSUME NEW b \in verzoek'[r].eigen.boekingen
            PROVE  /\ b.job = verzoek'[r].job
                   /\ b.rij \in 1..Len(Rijen[b.job])
                   /\ b.door = Uitslag(b.job, b.rij, r)
        BY <3>1, <1>a, <2>1, <2>2, <2>6 DEF Boekingen, Verloop
      <3>2. ASSUME NEW i \in 1..(verzoek'[r].rij - 1)
            PROVE  \E b \in verzoek'[r].eigen.boekingen : b.rij = i
        <4>1. CASE i = verzoek[r].rij
          <5>1. boeking \in verzoek'[r].eigen.boekingen /\ boeking.rij = i
            BY <4>1, <1>a, <2>1
          <5> QED BY <5>1
        <4>2. CASE i # verzoek[r].rij
          <5>1. i \in 1..(verzoek[r].rij - 1)
            BY <3>2, <4>2, <1>a, <2>1
          <5> QED BY <5>1, <1>2, <1>a, <2>1 DEF Boekingen, Verloop
        <4> QED BY <4>1, <4>2
      <3> QED BY <3>1, <3>2 DEF Boekingen, Uitslag
    <2> QED BY <2>3, <2>5, <2>7 DEF Verloop
  <1>3. ASSUME verzoek[r].pc \in {"categorie", "maakCategorie"}, NEW codes,
               MaaktVendor(r, codes)
        PROVE  Verloop(r)'
    <2>1. verzoek'[r] = [verzoek[r] EXCEPT
             !.pc = "contact", !.vendor = NieuweVendor(r),
             !.eigen.vendors = @ \cup {NieuweVendor(r)},
             !.eigen.codes = @ \cup codes]
      BY <1>3 DEF MaaktVendor, TypeOK
    <2>e. /\ verzoek'[r].pc = "contact" /\ verzoek'[r].vendor = NieuweVendor(r)
          /\ verzoek'[r].job = verzoek[r].job /\ verzoek'[r].rij = verzoek[r].rij
          /\ verzoek'[r].eigen = [verzoek[r].eigen EXCEPT
                                    !.vendors = @ \cup {NieuweVendor(r)},
                                    !.codes = @ \cup codes]
      BY <1>a, <2>1
    <2>f. /\ verzoek'[r].eigen.vendors = verzoek[r].eigen.vendors \cup {NieuweVendor(r)}
          /\ verzoek'[r].eigen.contracten = verzoek[r].eigen.contracten
          /\ verzoek'[r].eigen.boekingen = verzoek[r].eigen.boekingen
      BY <1>a, <2>e
    <2>2. NieuweVendor(r) \in Vendor
      BY <1>3, InEenRij DEF NieuweVendor, Vendor, Rij, Verloop
    <2>3. NieuweVendors(r)'
      <3>1. verzoek'[r].eigen.vendors = verzoek[r].eigen.vendors \cup {NieuweVendor(r)}
        BY <2>f
      <3>2. verzoek'[r].pc = "contact"
        BY <2>e
      <3>3. /\ NieuweVendor(r).door = r
            /\ NieuweVendor(r).nummer = HuidigeRij(r).nummer
        BY DEF NieuweVendor
      <3> HIDE <2>1
      <3> QED BY <1>3, <3>1, <3>2, <3>3 DEF NieuweVendors, Verloop
    <2> QED BY <1>3, <1>a, <2>e, <2>f, <2>2, <2>3, BinnenDeRij DEF Verloop
  <1>4. CASE VindVendor(r)
    <2>1. CASE \E v \in Ziet(r, "vendors") :
                  verzoek'[r] = [verzoek[r] EXCEPT !.pc = "contact", !.vendor = v]
      <3>1. PICK v \in Vendor :
              verzoek'[r] = [verzoek[r] EXCEPT !.pc = "contact", !.vendor = v]
        BY <1>a, <2>1 DEF Ziet, TypeOK
      <3>2. Plaats(r)'
        BY <1>4, <1>a, <3>1 DEF VindVendor, Plaats, Verloop, HeeftRij, MagImporteren, HuidigeRij
      <3> QED BY <1>4, <1>a, <3>1, <3>2, BinnenDeRij DEF VindVendor, Verloop
    <2>2. CASE verzoek'[r] = [verzoek[r] EXCEPT !.pc = "categorie"]
               /\ \A v \in Ziet(r, "vendors") :
                     ~(HuidigeRij(r).nummer # Geen /\ v.nummer = HuidigeRij(r).nummer)
      <3>1. Plaats(r)'
        BY <1>4, <1>a, <2>2 DEF VindVendor, Plaats, Verloop, HeeftRij, MagImporteren, HuidigeRij
      <3>2. /\ verzoek'[r].eigen.vendors = verzoek[r].eigen.vendors
            /\ verzoek'[r].pc = "categorie"
            /\ verzoek'[r].job = verzoek[r].job /\ verzoek'[r].rij = verzoek[r].rij
        BY <1>a, <2>2
      <3>3. NieuweVendors(r)'
        BY <2>2, <3>2 DEF NieuweVendors, Verloop, HuidigeRij, Ziet
      <3> QED BY <1>4, <1>a, <2>2, <3>1, <3>3, BinnenDeRij DEF VindVendor, Verloop
    <2> QED BY <1>4, <2>1, <2>2 DEF VindVendor, TypeOK
  <1>5. CASE VindCategorie(r)
    <2>1. CASE MaaktVendor(r, {})
      BY <1>3, <1>5, <2>1 DEF VindCategorie
    <2>2. CASE verzoek' = [verzoek EXCEPT ![r].pc = "maakCategorie"] /\ HuidigeRij(r).categorie # Geen
      <3>1. verzoek'[r] = [verzoek[r] EXCEPT !.pc = "maakCategorie"]
        BY <2>2 DEF TypeOK
      <3> QED BY <1>5, <1>a, <2>2, <3>1, BinnenDeRij DEF VindCategorie, Verloop
    <2> QED BY <1>5, <2>1, <2>2 DEF VindCategorie
  <1>6. CASE VindContact(r)
    <2>1. \/ verzoek'[r] = [verzoek[r] EXCEPT !.pc = "maakContact"] /\ HuidigeRij(r).contact # Geen
          \/ \E c : verzoek'[r] = [verzoek[r] EXCEPT !.pc = "contract", !.contact = c]
      <3>1. CASE verzoek' = [verzoek EXCEPT ![r].pc = "contract", ![r].contact = Geen]
        <4>1. verzoek'[r] = [verzoek[r] EXCEPT !.pc = "contract", !.contact = Geen]
          BY <3>1 DEF TypeOK
        <4> QED BY <4>1
      <3>2. ASSUME NEW c,
                   verzoek' = [verzoek EXCEPT ![r].pc = "contract", ![r].contact = c]
            PROVE  \E d : verzoek'[r] = [verzoek[r] EXCEPT !.pc = "contract", !.contact = d]
        <4>1. verzoek'[r] = [verzoek[r] EXCEPT !.pc = "contract", !.contact = c]
          BY <3>2 DEF TypeOK
        <4> QED BY <4>1
      <3>3. CASE verzoek' = [verzoek EXCEPT ![r].pc = "maakContact"]
                 /\ HuidigeRij(r).contact # Geen
        BY <3>3 DEF TypeOK
      <3>4. \/ verzoek' = [verzoek EXCEPT ![r].pc = "contract", ![r].contact = Geen]
            \/ \E c : verzoek' = [verzoek EXCEPT ![r].pc = "contract", ![r].contact = c]
            \/ verzoek' = [verzoek EXCEPT ![r].pc = "maakContact"]
               /\ HuidigeRij(r).contact # Geen
        BY <1>6, ZenonT(30) DEF VindContact
      <3> QED BY <3>1, <3>2, <3>3, <3>4
    <2>2. verzoek[r].vendor \in Vendor
      BY <1>6 DEF VindContact, Verloop, Plaats
    <2> QED BY <1>6, <1>a, <2>1, <2>2, BinnenDeRij DEF VindContact, Verloop
  <1>7. CASE MaakContact(r)
    <2>1. PICK c : verzoek'[r] = [verzoek[r] EXCEPT !.pc = "contract", !.contact = c,
                                   !.eigen.contacten = @ \cup {c}]
      BY <1>7 DEF MaakContact, TypeOK
    <2>2. verzoek[r].vendor \in Vendor
      BY <1>7 DEF MaakContact, Verloop, Plaats
    <2>e. /\ verzoek'[r].pc = "contract"
          /\ verzoek'[r].job = verzoek[r].job /\ verzoek'[r].rij = verzoek[r].rij
          /\ verzoek'[r].eigen.contracten = verzoek[r].eigen.contracten
          /\ verzoek'[r].eigen.vendors = verzoek[r].eigen.vendors
          /\ verzoek'[r].eigen.boekingen = verzoek[r].eigen.boekingen
          /\ verzoek'[r].vendor = verzoek[r].vendor
      BY <1>a, <2>1
    <2> QED BY <1>7, <1>a, <2>e, <2>2, BinnenDeRij DEF MaakContact, Verloop
  <1>8. CASE MaakContract(r)
    <2>1. verzoek'[r] = [verzoek[r] EXCEPT !.pc = "gebied",
                           !.eigen.contracten = @ \cup {NieuwContract(r)}]
      BY <1>8 DEF MaakContract, TypeOK
    <2>2. /\ verzoek[r].job \in Jobs
          /\ verzoek[r].rij \in 1..Len(Rijen[verzoek[r].job])
          /\ Rijen[verzoek[r].job][verzoek[r].rij].importable
      BY <1>8, InEenRij DEF MaakContract, Verloop, Plaats, MagImporteren, HuidigeRij
    <2>3. /\ verzoek'[r].pc = "gebied"
          /\ verzoek'[r].job = verzoek[r].job /\ verzoek'[r].rij = verzoek[r].rij
          /\ verzoek'[r].eigen.contracten = verzoek[r].eigen.contracten \cup {NieuwContract(r)}
      BY <1>a, <2>1
    <2>4. Gehad(r)' = Gehad(r) \cup {verzoek[r].rij}
      BY <1>8, <1>a, <1>b, <2>2, <2>3 DEF MaakContract, Gehad, Importeerbaar
    <2>5. /\ NieuwContract(r).door = r /\ NieuwContract(r).job = verzoek[r].job
          /\ NieuwContract(r).rij = verzoek[r].rij
      BY DEF NieuwContract
    <2>6. verzoek[r].pc \in Open
      BY <1>8 DEF MaakContract
    <2>7. Contracten(r)'
      <3> HIDE <2>1
      <3> QED BY <2>3, <2>4, <2>5, <2>6 DEF Contracten, Verloop
    <2>e. /\ verzoek'[r].pc = "gebied"
          /\ verzoek'[r].job = verzoek[r].job /\ verzoek'[r].rij = verzoek[r].rij
          /\ verzoek'[r].eigen.vendors = verzoek[r].eigen.vendors
          /\ verzoek'[r].eigen.boekingen = verzoek[r].eigen.boekingen
      BY <1>a, <2>1
    <2> QED BY <1>8, <1>a, <2>e, <2>7, BinnenDeRij DEF MaakContract, Verloop
  <1>9. CASE VindGebied(r)
    <2>1. \/ verzoek'[r] = [verzoek[r] EXCEPT !.pc = "boek"]
          \/ verzoek'[r] = [verzoek[r] EXCEPT !.pc = "maakGebied"] /\ HuidigeRij(r).gebied # Geen
      BY <1>9 DEF VindGebied, TypeOK
    <2> QED BY <1>9, <1>a, <2>1, BinnenDeRij DEF VindGebied, Verloop
  <1>10. CASE MaakGebied(r)
    <2>1. verzoek'[r] = [verzoek[r] EXCEPT !.pc = "boek",
                           !.eigen.codes = @ \cup {GebiedCode(r)}]
      BY <1>10 DEF MaakGebied, TypeOK
    <2>e. /\ verzoek'[r].pc = "boek"
          /\ verzoek'[r].job = verzoek[r].job /\ verzoek'[r].rij = verzoek[r].rij
          /\ verzoek'[r].eigen.contracten = verzoek[r].eigen.contracten
          /\ verzoek'[r].eigen.vendors = verzoek[r].eigen.vendors
          /\ verzoek'[r].eigen.boekingen = verzoek[r].eigen.boekingen
      BY <1>a, <2>1
    <2> QED BY <1>10, <1>a, <2>e, BinnenDeRij DEF MaakGebied, Verloop
  <1>11. CASE Bevestig(r)
    <2>1. verzoek'[r] = [verzoek[r] EXCEPT !.pc = "bevestigd", !.eigen = Leeg]
      BY <1>11 DEF Bevestig, TypeOK
    <2>2. verzoek[r].job \in Jobs
      BY <1>11 DEF Bevestig, Verloop, Plaats
    <2> QED BY <1>a, <2>1, <2>2, EindeVerloop
  <1>12. CASE Botst(r) \/ DeadlockAfgebroken(r) \/ Faalt(r)
    <2>1. verzoek'[r] = [verzoek[r] EXCEPT !.pc = "mislukt", !.eigen = Leeg]
      BY <1>12 DEF Botst, DeadlockAfgebroken, Faalt, Mislukt, TypeOK
    <2> QED BY <1>a, <2>1, EindeVerloop
  <1>13. CASE SlaOver(r)
    BY <1>2, <1>13 DEF SlaOver
  <1>14. CASE MaakCategorie(r)
    BY <1>3, <1>14 DEF MaakCategorie
  <1>15. CASE BoekRij(r)
    BY <1>2, <1>15 DEF BoekRij, Verloop, Plaats
  <1> QED BY <1>1, <1>4, <1>5, <1>6, <1>7, <1>8, <1>9, <1>10, <1>11, <1>12, <1>13,
             <1>14, <1>15 DEF ImportStap

-----------------------------------------------------------------------------
Vastgelegd == /\ AllesOfNiets /\ VendorVanBevestigd /\ EenVendorPerNummer
              /\ BoekingKlopt /\ AllesGeboekt

(* A step that commits nothing leaves what is committed alone.             *)
LEMMA ZonderCommit ==
    ASSUME TypeOK, Vastgelegd, UNCHANGED db,
           \A j \in Jobs : job'[j].status = "bevestigd" => job[j].status = "bevestigd",
           \A s \in Verzoeken :
              \/ verzoek'[s] = verzoek[s]
              \/ verzoek[s].pc # "bevestigd" /\ verzoek'[s].pc # "bevestigd"
    PROVE  Vastgelegd'
  <1>a. \A v \in db.vendors : v.door \in Verzoeken \cup {Geen}
    BY DEF TypeOK, Tabellen, Vendor
  <1>b. \A b \in db.boekingen : b.door \in Verzoeken \cup {Geen}
    BY DEF TypeOK, Tabellen, Boeking
  <1>1. AllesOfNiets'
    BY DEF Vastgelegd, AllesOfNiets
  <1>2. VendorVanBevestigd'
    BY <1>a DEF Vastgelegd, VendorVanBevestigd
  <1>3. EenVendorPerNummer'
    BY DEF Vastgelegd, EenVendorPerNummer
  <1>4. BoekingKlopt'
    BY <1>b DEF Vastgelegd, BoekingKlopt
  <1>5. AllesGeboekt'
    BY DEF Vastgelegd, AllesGeboekt
  <1> QED BY <1>1, <1>2, <1>3, <1>4, <1>5 DEF Vastgelegd

(* A COMMIT adds what its request was known to have written.               *)
LEMMA CommitStap ==
    ASSUME TypeOK, Vastgelegd, NEW r \in Verzoeken, Verloop(r), Bevestig(r)
    PROVE  Vastgelegd'
  <1> DEFINE eigen == verzoek[r].eigen
             j == verzoek[r].job
  <1>a. verzoek[r] \in Verzoek /\ eigen \in Tabellen /\ verzoek[r].rij \in Nat
    BY DEF TypeOK, Verzoek
  <1>b. j \in Jobs /\ verzoek[r].pc = "rij" /\ Len(Rijen[j]) \in Nat
        /\ verzoek[r].rij = Len(Rijen[j]) + 1
    <2>1. j \in Jobs /\ verzoek[r].pc = "rij"
      BY DEF Bevestig, Verloop, Plaats
    <2>2. Rijen[j] \in Seq(Rij)
      BY <2>1, RijenPerJob
    <2>3. verzoek[r].rij \in 1..(Len(Rijen[j]) + 1)
      BY <2>1 DEF Verloop, Plaats
    <2>4. ~(verzoek[r].rij <= Len(Rijen[j]))
      BY DEF Bevestig, HeeftRij
    <2>5. Len(Rijen[j]) \in Nat
      BY <2>2
    <2> QED BY <2>1, <2>3, <2>4, <2>5
  <1>c. /\ verzoek'[r].pc = "bevestigd" /\ verzoek'[r].job = j
        /\ \A s \in Verzoeken \ {r} : verzoek'[s] = verzoek[s]
    BY <1>a DEF Bevestig, TypeOK, Verzoek
  <1>d. /\ db'.vendors = db.vendors \cup eigen.vendors
        /\ db'.contracten = db.contracten \cup eigen.contracten
        /\ db'.boekingen = NaBoeking(eigen.boekingen)
    BY DEF Bevestig
  <1>e. Gehad(r) = Importeerbaar(j)
    BY <1>b DEF Gehad, Importeerbaar
  <1>1. AllesOfNiets'
    <2> SUFFICES ASSUME NEW s \in Verzoeken
                 PROVE  {<<c.job, c.rij>> : c \in {x \in db'.contracten : x.door = s}}
                          = IF verzoek'[s].pc = "bevestigd"
                            THEN {verzoek'[s].job} \X Importeerbaar(verzoek'[s].job)
                            ELSE {}
      BY DEF AllesOfNiets, Importeerbaar
    <2>1. CASE s = r
      <3>1. \A c \in db.contracten : c.door # r
        BY <1>b DEF Vastgelegd, AllesOfNiets
      <3>2. {x \in db'.contracten : x.door = r} = eigen.contracten
        BY <1>d, <3>1 DEF Verloop, Contracten
      <3>3. \A c \in eigen.contracten : c.job = j /\ c.rij \in Importeerbaar(j)
        BY <1>e DEF Verloop, Contracten
      <3>4. \A i \in Importeerbaar(j) : \E c \in eigen.contracten : c.rij = i
        BY <1>b, <1>e DEF Verloop, Contracten
      <3>5. {<<c.job, c.rij>> : c \in eigen.contracten} = {j} \X Importeerbaar(j)
        <4> HIDE DEF eigen, j
        <4> QED BY <3>3, <3>4
      <3> QED BY <2>1, <1>c, <3>2, <3>5
    <2>2. CASE s # r
      <3>1. {x \in db'.contracten : x.door = s} = {x \in db.contracten : x.door = s}
        BY <2>2, <1>d DEF Verloop, Contracten
      <3> QED BY <2>2, <1>c, <3>1 DEF Vastgelegd, AllesOfNiets
    <2> QED BY <2>1, <2>2
  <1>2. VendorVanBevestigd'
    <2> SUFFICES ASSUME NEW v \in db'.vendors, v.door # Geen
                 PROVE  verzoek'[v.door].pc = "bevestigd"
      BY DEF VendorVanBevestigd
    <2>1. CASE v \in eigen.vendors
      BY <2>1, <1>c DEF Verloop, NieuweVendors
    <2>2. CASE v \in db.vendors
      <3>1. v.door \in Verzoeken
        BY <2>2 DEF TypeOK, Tabellen, Vendor
      <3> QED BY <2>2, <3>1, <1>c DEF Vastgelegd, VendorVanBevestigd
    <2> QED BY <1>d, <2>1, <2>2
  <1>3. EenVendorPerNummer'
    <2>1. \A v \in db.vendors : v.door # r
      BY <1>b, GeenApart DEF Vastgelegd, VendorVanBevestigd
    <2> QED BY <1>d, <2>1 DEF Vastgelegd, EenVendorPerNummer, Verloop, NieuweVendors
  <1>4. BoekingKlopt'
    <2> SUFFICES ASSUME NEW b \in db'.boekingen
                 PROVE  /\ b.rij \in 1..Len(Rijen[b.job])
                        /\ IF b.rij \in Importeerbaar(b.job)
                           THEN /\ b.door # Geen /\ verzoek'[b.door].pc = "bevestigd"
                                /\ verzoek'[b.door].job = b.job
                           ELSE b.door = Geen
      BY DEF BoekingKlopt, Importeerbaar
    <2>1. CASE b \in eigen.boekingen
      BY <2>1, <1>c, GeenApart DEF Verloop, Boekingen, Uitslag
    <2>2. CASE b \in db.boekingen
      <3>1. b.door \in Verzoeken \cup {Geen}
        BY <2>2 DEF TypeOK, Tabellen, Boeking
      <3> QED BY <2>2, <3>1, <1>b, <1>c DEF Vastgelegd, BoekingKlopt
    <2> QED BY <1>d, <2>1, <2>2 DEF NaBoeking
  <1>5. AllesGeboekt'
    <2> SUFFICES ASSUME NEW k \in Jobs, job'[k].status = "bevestigd",
                        NEW i \in 1..Len(Rijen[k])
                 PROVE  \E b \in db'.boekingen : b.job = k /\ b.rij = i
      BY DEF AllesGeboekt
    <2>1. CASE k = j
      <3>1. PICK b \in eigen.boekingen : b.rij = i
        BY <2>1, <1>b DEF Verloop, Boekingen
      <3>2. b.job = k
        BY <2>1, <3>1 DEF Verloop, Boekingen
      <3> QED BY <1>d, <3>1, <3>2 DEF NaBoeking
    <2>2. CASE k # j
      <3>1. job[k].status = "bevestigd"
        BY <2>2, <1>b DEF Bevestig, TypeOK
      <3>2. PICK b \in db.boekingen : b.job = k /\ b.rij = i
        BY <3>1 DEF Vastgelegd, AllesGeboekt
      <3>3. \A n \in eigen.boekingen : <<n.job, n.rij>> # <<b.job, b.rij>>
        BY <2>2, <3>2 DEF Verloop, Boekingen
      <3> QED BY <1>d, <3>2, <3>3 DEF NaBoeking
    <2> QED BY <2>1, <2>2
  <1> QED BY <1>1, <1>2, <1>3, <1>4, <1>5 DEF Vastgelegd

(* Nothing is confirmed at the start.                                      *)
LEMMA BeginInv == Init => IInv
  <1> SUFFICES ASSUME Init PROVE IInv
    OBVIOUS
  <1>1. TypeOK
    BY BekendeNummers DEF Init, TypeOK, Tabellen, Verzoek, Vendor, Leeg
  <1>2. \A r \in Verzoeken : Verloop(r)
    BY DEF Init, Verloop, Plaats, Contracten, NieuweVendors, Boekingen, Leeg
  <1>3. AllesOfNiets
    BY DEF Init, AllesOfNiets, Leeg
  <1>4. VendorVanBevestigd /\ EenVendorPerNummer
    BY DEF Init, VendorVanBevestigd, EenVendorPerNummer, Leeg
  <1>5. BoekingKlopt /\ AllesGeboekt
    BY DEF Init, BoekingKlopt, AllesGeboekt, Leeg
  <1> QED BY <1>1, <1>2, <1>3, <1>4, <1>5 DEF IInv

(* Every step keeps the invariant.                                         *)
LEMMA StapInv == IInv /\ [Next]_vars => IInv'
  <1> SUFFICES ASSUME IInv, [Next]_vars PROVE IInv'
    OBVIOUS
  <1>0. TypeOK /\ Vastgelegd /\ \A r \in Verzoeken : Verloop(r)
    BY DEF IInv, Vastgelegd
  <1>1. TypeOK'
    BY <1>0, TypeStap DEF Verloop
  <1>2. ASSUME NEW j \in Jobs, Preview(j)
        PROVE  Vastgelegd' /\ \A r \in Verzoeken : Verloop(r)'
    <2>1. \A r \in Verzoeken : Verloop(r)'
      BY <1>0, <1>2, AnderBlijft DEF Preview
    <2>2. \A k \in Jobs : job'[k].status = "bevestigd" => job[k].status = "bevestigd"
      BY <1>0, <1>2 DEF Preview, TypeOK
    <2> QED BY <1>0, <1>2, <2>1, <2>2, ZonderCommit DEF Preview
  <1>3. ASSUME NEW r \in Verzoeken,
               (\E j \in Jobs : LeesJob(r, j)) \/ ImportStap(r) \/ Faalt(r)
        PROVE  Vastgelegd' /\ \A s \in Verzoeken : Verloop(s)'
    <2>1. \A s \in Verzoeken \ {r} : verzoek'[s] = verzoek[s]
      BY <1>0, <1>3 DEF LeesJob, ImportStap, SlaOver, VindVendor, VindCategorie,
         MaakCategorie, VindContact, MaakContact, MaakContract, VindGebied, MaakGebied,
         BoekRij, Bevestig, Botst, DeadlockAfgebroken, Faalt, Mislukt, MaaktVendor, Boekt,
         TypeOK
    <2>2. \A s \in Verzoeken : Verloop(s)'
      BY <1>0, <1>1, <1>3, <2>1, AnderBlijft, VerloopStap
    <2>3. CASE Bevestig(r)
      BY <1>0, <2>2, <2>3, CommitStap
    <2>4. CASE ~Bevestig(r)
      <3>1. UNCHANGED <<job, db>>
        BY <1>3, <2>4 DEF LeesJob, ImportStap, SlaOver, VindVendor, VindCategorie,
           MaakCategorie, VindContact, MaakContact, MaakContract, VindGebied, MaakGebied,
           BoekRij, Botst, DeadlockAfgebroken, Faalt, Mislukt
      <3>2. verzoek[r].pc # "bevestigd"
        BY <1>3, <2>4 DEF LeesJob, ImportStap, SlaOver, VindVendor, VindCategorie,
           MaakCategorie, VindContact, MaakContact, MaakContract, VindGebied, MaakGebied,
           BoekRij, Botst, DeadlockAfgebroken, Faalt, InTransactie
      <3>3. verzoek'[r].pc # "bevestigd"
        <4>0. verzoek \in [Verzoeken -> Verzoek] /\ verzoek[r] \in Verzoek
          BY <1>0 DEF TypeOK
        <4>1. CASE \E j \in Jobs : LeesJob(r, j)
          BY <4>0, <4>1 DEF LeesJob, Verzoek
        <4>2. CASE SlaOver(r) \/ BoekRij(r)
          BY <4>0, <4>2 DEF SlaOver, BoekRij, Boekt, Verzoek
        <4>3. CASE VindVendor(r) \/ VindCategorie(r) \/ MaakCategorie(r)
          BY <4>0, <4>3 DEF VindVendor, VindCategorie, MaakCategorie, MaaktVendor, Verzoek
        <4>4. CASE VindContact(r)
          <5>1. \/ verzoek'[r] = [verzoek[r] EXCEPT !.pc = "maakContact"]
                \/ \E c : verzoek'[r] = [verzoek[r] EXCEPT !.pc = "contract", !.contact = c]
            BY <4>0, <4>4 DEF VindContact
          <5> QED BY <4>0, <5>1 DEF Verzoek
        <4>7. CASE MaakContact(r)
          <5>1. PICK c : verzoek'[r] = [verzoek[r] EXCEPT !.pc = "contract", !.contact = c,
                                           !.eigen.contacten = @ \cup {c}]
            BY <4>0, <4>7 DEF MaakContact
          <5> QED BY <4>0, <5>1 DEF Verzoek
        <4>5. CASE MaakContract(r) \/ VindGebied(r) \/ MaakGebied(r)
          BY <4>0, <4>5 DEF MaakContract, VindGebied, MaakGebied, Verzoek
        <4>6. CASE Botst(r) \/ DeadlockAfgebroken(r) \/ Faalt(r)
          BY <4>0, <4>6 DEF Botst, DeadlockAfgebroken, Faalt, Mislukt, Verzoek
        <4> QED BY <1>3, <2>4, <4>1, <4>2, <4>3, <4>4, <4>5, <4>6, <4>7 DEF ImportStap
      <3> QED BY <1>0, <2>1, <2>2, <3>1, <3>2, <3>3, ZonderCommit
    <2> QED BY <2>3, <2>4
  <1>4. Vastgelegd' /\ \A r \in Verzoeken : Verloop(r)'
    <2>1. CASE UNCHANGED vars
      <3>1. \A r \in Verzoeken : Verloop(r)'
        BY <1>0, <2>1, AnderBlijft DEF vars
      <3> QED BY <1>0, <2>1, <3>1, ZonderCommit DEF vars
    <2> QED BY <1>2, <1>3, <2>1 DEF Next
  <1> QED BY <1>1, <1>4 DEF IInv, Vastgelegd

(* Whatever an import has passed of its file is what it will commit, and   *)
(* what is committed was written by a confirmed request.                   *)
THEOREM ImportInvariant == Spec => []IInv
  <1> QED BY BeginInv, StapInv, PTL DEF Spec

(* No request or table ever leaves its types; the status of a job keeps to *)
(* the CHECK constraint.                                                   *)
THEOREM ImportTypeCorrect == Spec => []TypeOK
  <1>1. IInv => TypeOK
    BY DEF IInv
  <1> QED BY <1>1, ImportInvariant, PTL

(* "Een harde alles-of-niets-garantie", for any number of rows and of      *)
(* imports at the same time.                                               *)
THEOREM AllesOfNietsHoudtStand == Spec => []AllesOfNiets
  <1>1. IInv => AllesOfNiets
    BY DEF IInv
  <1> QED BY <1>1, ImportInvariant, PTL

(* No import adds two vendors with the same number.                        *)
THEOREM GeenDubbeleVendor == Spec => []EenVendorPerNummer
  <1>1. IInv => EenVendorPerNummer
    BY DEF IInv
  <1> QED BY <1>1, ImportInvariant, PTL

(* Each row of a confirmed job refers to a contract that is there, or to   *)
(* none when the preview rejected it.                                      *)
THEOREM RijenVerwijzenGoed == Spec => []RijVerwijst
  <1>1. IInv => RijVerwijst
    <2> SUFFICES ASSUME IInv, NEW j \in Jobs, job[j].status = "bevestigd",
                        NEW i \in 1..Len(Rijen[j])
                 PROVE  \E b \in db.boekingen :
                           /\ b.job = j /\ b.rij = i
                           /\ IF i \in Importeerbaar(j)
                              THEN \E c \in db.contracten :
                                      c.door = b.door /\ c.job = j /\ c.rij = i
                              ELSE b.door = Geen
      BY DEF RijVerwijst
    <2>1. PICK b \in db.boekingen : b.job = j /\ b.rij = i
      BY DEF IInv, AllesGeboekt
    <2>2. CASE i \in Importeerbaar(j)
      <3>1. b.door \in Verzoeken /\ verzoek[b.door].pc = "bevestigd" /\ verzoek[b.door].job = j
        BY <2>1, <2>2 DEF IInv, BoekingKlopt, TypeOK, Tabellen, Boeking
      <3>2. <<j, i>> \in {<<c.job, c.rij>> : c \in {x \in db.contracten : x.door = b.door}}
        BY <2>2, <3>1 DEF IInv, AllesOfNiets
      <3> QED BY <2>1, <2>2, <3>2
    <2>3. CASE i \notin Importeerbaar(j)
      BY <2>1, <2>3 DEF IInv, BoekingKlopt
    <2> QED BY <2>2, <2>3
  <1> QED BY <1>1, ImportInvariant, PTL
=============================================================================
