--------------------------- MODULE ContractImport ---------------------------
(***************************************************************************)
(* The import of contracts from a CSV file (ContractImportService): a      *)
(* preview stores the judged rows as a job, and confirming the job writes  *)
(* all its contracts in one READ COMMITTED transaction, finding or making  *)
(* the vendor, the category, the contact and the area of each row.         *)
(*                                                                         *)
(* Confirmations run concurrently.  A SELECT sees what is committed and    *)
(* what its own transaction wrote; an INSERT of a code that another open   *)
(* transaction inserted, and an UPDATE of an import_row that it updated,   *)
(* wait for that transaction.  There is a unique key on the two tables of  *)
(* codes and none on a vendor's number or on contacts.                     *)
(*                                                                         *)
(* Abstracted: reading the CSV (its verdict per row is the constant        *)
(* Rijen), labels, extra contacts, several areas at one row, the removal   *)
(* of a vendor meanwhile, and the counters of the answer.                  *)
(***************************************************************************)
EXTENDS Naturals, Sequences

CONSTANTS Jobs, Verzoeken,          \* import jobs; requests to confirm one
          Nummers, Categorieen, Contacten, Gebieden,
          Rijen,                    \* the rows of each job, in order
          Bekend,                   \* numbers of vendors that exist already
          Geen

Rij == [importable : BOOLEAN, nummer : Nummers \cup {Geen},
        categorie : Categorieen \cup {Geen}, contact : Contacten \cup {Geen},
        gebied : Gebieden \cup {Geen}]

ASSUME RijenPerJob == Rijen \in [Jobs -> Seq(Rij)]
ASSUME BekendeNummers == Bekend \subseteq Nummers
ASSUME GeenApart == /\ Geen \notin Verzoeken \cup Nummers
                    /\ Geen \notin Categorieen \cup Contacten \cup Gebieden

VARIABLES job,          \* import_job.status and the audit lines of the job
          db,           \* the committed rows
          verzoek       \* the requests, with what their transaction wrote

vars == <<job, db, verzoek>>

Open == {"rij", "categorie", "maakCategorie", "contact", "maakContact",
         "contract", "gebied", "maakGebied", "boek"}
Gedaan == {"bevestigd", "geweigerd", "mislukt"}

Leeg == [vendors |-> {}, contacten |-> {}, contracten |-> {}, codes |-> {},
         boekingen |-> {}]

Init ==
    /\ job = [j \in Jobs |-> [status |-> "geen", audit |-> 0]]
    /\ db = [Leeg EXCEPT !.vendors =
               {[door |-> Geen, rij |-> 0, nummer |-> n] : n \in Bekend}]
    /\ verzoek = [r \in Verzoeken |->
         [pc |-> "nieuw", job |-> Geen, rij |-> 0, eigen |-> Leeg,
          vendor |-> Geen, contact |-> Geen]]

HuidigeRij(r)   == Rijen[verzoek[r].job][verzoek[r].rij]
HeeftRij(r)     == verzoek[r].rij <= Len(Rijen[verzoek[r].job])

(* Mutant of MagImporteren: the verdict of the preview is not used.        *)
NegeertOordeel(r) == TRUE
MagImporteren(r)  == HuidigeRij(r).importable

(* Mutant of Ziet: looking at committed rows only.                         *)
ZietAlleenCommits(r, tabel) == db[tabel]

(* What a statement of r sees of a table.                                  *)
Ziet(r, tabel) == db[tabel] \cup verzoek[r].eigen[tabel]

InTransactie(s) == verzoek[s].pc \in Open

(* Rows of an open transaction that make others wait.                      *)
HoudtCode(s, code) == InTransactie(s) /\ code \in verzoek[s].eigen.codes
HoudtRegel(s, j, i) ==
    InTransactie(s) /\ \E b \in verzoek[s].eigen.boekingen : b.job = j /\ b.rij = i

CategorieCode(r) == <<"categorie", HuidigeRij(r).categorie>>
GebiedCode(r)    == <<"gebied", HuidigeRij(r).gebied>>

(* Request r waits for the transaction of s.                               *)
WachtOp(r, s) ==
    /\ s # r
    /\ \/ verzoek[r].pc = "maakCategorie" /\ HoudtCode(s, CategorieCode(r))
       \/ verzoek[r].pc = "maakGebied" /\ HoudtCode(s, GebiedCode(r))
       \/ /\ verzoek[r].pc \in {"rij", "boek"} /\ HeeftRij(r)
          /\ verzoek[r].pc = "rij" => ~MagImporteren(r)
          /\ HoudtRegel(s, verzoek[r].job, verzoek[r].rij)

WachtNiet(r) == \A s \in Verzoeken : ~WachtOp(r, s)

-----------------------------------------------------------------------------
(* Mutant of Preview: a status the CHECK constraint does not know.         *)
PreviewAlsConcept(j) ==
    /\ job[j].status = "geen"
    /\ job' = [job EXCEPT ![j].status = "concept"]
    /\ UNCHANGED <<db, verzoek>>

(* One job with its rows, in a transaction of its own.                     *)
Preview(j) ==
    /\ job[j].status = "geen"
    /\ job' = [job EXCEPT ![j].status = "preview"]
    /\ UNCHANGED <<db, verzoek>>

(* The status is read without a lock, and not looked at again.             *)
LeesJob(r, j) ==
    /\ verzoek[r].pc = "nieuw"
    /\ job[j].status # "geen"
    /\ verzoek' = [verzoek EXCEPT
         ![r].pc  = IF job[j].status = "preview" THEN "rij" ELSE "geweigerd",
         ![r].job = j, ![r].rij = 1]
    /\ UNCHANGED <<job, db>>

(* Mutant of Boekt: a row that is passed over gets no result.              *)
BoektAlleenContracten(r, door) ==
    verzoek' = [verzoek EXCEPT
      ![r].pc = "rij", ![r].rij = @ + 1,
      ![r].eigen.boekingen = IF door = Geen THEN @ ELSE
          @ \cup {[job |-> verzoek[r].job, rij |-> verzoek[r].rij, door |-> door]}]

(* The result of a row, and on to the next.                                *)
Boekt(r, door) ==
    verzoek' = [verzoek EXCEPT
      ![r].pc = "rij", ![r].rij = @ + 1,
      ![r].eigen.boekingen =
          @ \cup {[job |-> verzoek[r].job, rij |-> verzoek[r].rij, door |-> door]}]

SlaOver(r) ==
    /\ verzoek[r].pc = "rij" /\ HeeftRij(r)
    /\ ~MagImporteren(r)
    /\ WachtNiet(r)
    /\ Boekt(r, Geen)
    /\ UNCHANGED <<job, db>>

(* vindOfMaakVendor: LIMIT 1, so any vendor with the number.               *)
VindVendor(r) ==
    LET gevonden == {v \in Ziet(r, "vendors") :
                       HuidigeRij(r).nummer # Geen /\ v.nummer = HuidigeRij(r).nummer}
    IN  /\ verzoek[r].pc = "rij" /\ HeeftRij(r)
        /\ MagImporteren(r)
        /\ \/ \E v \in gevonden :
                verzoek' = [verzoek EXCEPT ![r].pc = "contact", ![r].vendor = v]
           \/ /\ gevonden = {}
              /\ verzoek' = [verzoek EXCEPT ![r].pc = "categorie"]
        /\ UNCHANGED <<job, db>>

NieuweVendor(r) == [door |-> r, rij |-> verzoek[r].rij, nummer |-> HuidigeRij(r).nummer]

(* The INSERT of the vendor, after that of the categories in nieuweCodes.  *)
MaaktVendor(r, nieuweCodes) ==
    verzoek' = [verzoek EXCEPT
      ![r].pc = "contact", ![r].vendor = NieuweVendor(r),
      ![r].eigen.vendors = @ \cup {NieuweVendor(r)},
      ![r].eigen.codes = @ \cup nieuweCodes]

VindCategorie(r) ==
    /\ verzoek[r].pc = "categorie"
    /\ IF HuidigeRij(r).categorie = Geen \/ CategorieCode(r) \in Ziet(r, "codes")
       THEN MaaktVendor(r, {})
       ELSE verzoek' = [verzoek EXCEPT ![r].pc = "maakCategorie"]
    /\ UNCHANGED <<job, db>>

MaakCategorie(r) ==
    /\ verzoek[r].pc = "maakCategorie"
    /\ WachtNiet(r) /\ CategorieCode(r) \notin db.codes
    /\ MaaktVendor(r, {CategorieCode(r)})
    /\ UNCHANGED <<job, db>>

VindContact(r) ==
    LET gevonden == {c \in Ziet(r, "contacten") :
                       c.vendor = verzoek[r].vendor /\ c.sleutel = HuidigeRij(r).contact}
    IN  /\ verzoek[r].pc = "contact"
        /\ \/ /\ HuidigeRij(r).contact = Geen
              /\ verzoek' = [verzoek EXCEPT ![r].pc = "contract", ![r].contact = Geen]
           \/ \E c \in gevonden :
                verzoek' = [verzoek EXCEPT ![r].pc = "contract", ![r].contact = c]
           \/ /\ HuidigeRij(r).contact # Geen /\ gevonden = {}
              /\ verzoek' = [verzoek EXCEPT ![r].pc = "maakContact"]
        /\ UNCHANGED <<job, db>>

(* The first contact of a vendor, as far as r can see, is the primary one. *)
MaakContact(r) ==
    LET eerste == \A c \in Ziet(r, "contacten") : c.vendor # verzoek[r].vendor
        nieuw  == [door |-> r, rij |-> verzoek[r].rij, vendor |-> verzoek[r].vendor,
                   sleutel |-> HuidigeRij(r).contact, primair |-> eerste]
    IN  /\ verzoek[r].pc = "maakContact"
        /\ verzoek' = [verzoek EXCEPT ![r].pc = "contract", ![r].contact = nieuw,
                                      ![r].eigen.contacten = @ \cup {nieuw}]
        /\ UNCHANGED <<job, db>>

NieuwContract(r) == [door |-> r, job |-> verzoek[r].job, rij |-> verzoek[r].rij,
                     vendor |-> verzoek[r].vendor, contact |-> verzoek[r].contact]

MaakContract(r) ==
    /\ verzoek[r].pc = "contract"
    /\ verzoek' = [verzoek EXCEPT ![r].pc = "gebied",
                     ![r].eigen.contracten = @ \cup {NieuwContract(r)}]
    /\ UNCHANGED <<job, db>>

VindGebied(r) ==
    /\ verzoek[r].pc = "gebied"
    /\ verzoek' = [verzoek EXCEPT ![r].pc =
         IF HuidigeRij(r).gebied = Geen \/ GebiedCode(r) \in Ziet(r, "codes")
         THEN "boek" ELSE "maakGebied"]
    /\ UNCHANGED <<job, db>>

MaakGebied(r) ==
    /\ verzoek[r].pc = "maakGebied"
    /\ WachtNiet(r) /\ GebiedCode(r) \notin db.codes
    /\ verzoek' = [verzoek EXCEPT ![r].pc = "boek",
                     ![r].eigen.codes = @ \cup {GebiedCode(r)}]
    /\ UNCHANGED <<job, db>>

BoekRij(r) ==
    /\ verzoek[r].pc = "boek"
    /\ WachtNiet(r)
    /\ Boekt(r, r)
    /\ UNCHANGED <<job, db>>

(* An import_row keeps its last booking.                                   *)
NaBoeking(nieuwe) ==
    {b \in db.boekingen : \A n \in nieuwe : <<n.job, n.rij>> # <<b.job, b.rij>>}
        \cup nieuwe

(* UPDATE import_job, the audit line, COMMIT.                              *)
Bevestig(r) ==
    LET eigen == verzoek[r].eigen IN
    /\ verzoek[r].pc = "rij" /\ ~HeeftRij(r)
    /\ job' = [job EXCEPT ![verzoek[r].job].status = "bevestigd",
                          ![verzoek[r].job].audit = @ + 1]
    /\ db' = [vendors    |-> db.vendors \cup eigen.vendors,
              contacten  |-> db.contacten \cup eigen.contacten,
              contracten |-> db.contracten \cup eigen.contracten,
              codes      |-> db.codes \cup eigen.codes,
              boekingen  |-> NaBoeking(eigen.boekingen)]
    /\ verzoek' = [verzoek EXCEPT ![r].pc = "bevestigd", ![r].eigen = Leeg]

Mislukt(r) ==
    /\ verzoek' = [verzoek EXCEPT ![r].pc = "mislukt", ![r].eigen = Leeg]
    /\ UNCHANGED <<job, db>>

(* Mutant of Botst: the INSERT is tried again in the aborted transaction.  *)
BotstEnProbeertOpnieuw(r) ==
    /\ \/ verzoek[r].pc = "maakCategorie" /\ CategorieCode(r) \in db.codes
       \/ verzoek[r].pc = "maakGebied" /\ GebiedCode(r) \in db.codes
    /\ UNCHANGED vars

(* The code was committed by another since the SELECT: a unique violation  *)
(* that takes the whole import down.                                       *)
Botst(r) ==
    /\ \/ verzoek[r].pc = "maakCategorie" /\ CategorieCode(r) \in db.codes
       \/ verzoek[r].pc = "maakGebied" /\ GebiedCode(r) \in db.codes
    /\ Mislukt(r)

(* PostgreSQL ends a transaction that waits in a circle.                   *)
DeadlockAfgebroken(r) ==
    /\ InTransactie(r)
    /\ \E kring \in SUBSET Verzoeken :
         r \in kring /\ \A x \in kring : \E y \in kring : WachtOp(x, y)
    /\ Mislukt(r)

(* A lost connection or a crash, at any statement.                         *)
Faalt(r) ==
    /\ verzoek[r].pc \in Open
    /\ Mislukt(r)

-----------------------------------------------------------------------------
ImportStap(r) ==
    \/ SlaOver(r) \/ VindVendor(r) \/ VindCategorie(r) \/ MaakCategorie(r)
    \/ VindContact(r) \/ MaakContact(r) \/ MaakContract(r)
    \/ VindGebied(r) \/ MaakGebied(r) \/ BoekRij(r) \/ Bevestig(r)
    \/ Botst(r) \/ DeadlockAfgebroken(r)

Next ==
    \/ \E j \in Jobs : Preview(j) \/ \E r \in Verzoeken : LeesJob(r, j)
    \/ \E r \in Verzoeken : ImportStap(r) \/ Faalt(r)

Spec == Init /\ [][Next]_vars

(* The server goes on with a confirmation it started.                      *)
EerlijkeSpec == Spec /\ \A r \in Verzoeken : WF_vars(ImportStap(r))

-----------------------------------------------------------------------------
Vendor   == [door : Verzoeken \cup {Geen}, rij : Nat, nummer : Nummers \cup {Geen}]
Contact  == [door : Verzoeken, rij : Nat, vendor : Vendor, sleutel : Contacten,
             primair : BOOLEAN]
Contract == [door : Verzoeken, job : Jobs, rij : Nat, vendor : Vendor,
             contact : Contact \cup {Geen}]
Code     == ({"categorie"} \X Categorieen) \cup ({"gebied"} \X Gebieden)
Boeking  == [job : Jobs, rij : Nat, door : Verzoeken \cup {Geen}]
Tabellen == [vendors : SUBSET Vendor, contacten : SUBSET Contact,
             contracten : SUBSET Contract, codes : SUBSET Code,
             boekingen : SUBSET Boeking]
Verzoek  == [pc : {"nieuw"} \cup Open \cup Gedaan, job : Jobs \cup {Geen}, rij : Nat,
             eigen : Tabellen, vendor : Vendor \cup {Geen}, contact : Contact \cup {Geen}]

TypeOK ==
    /\ job \in [Jobs -> [status : {"geen", "preview", "bevestigd"}, audit : Nat]]
    /\ db \in Tabellen
    /\ verzoek \in [Verzoeken -> Verzoek]

Importeerbaar(j) == {i \in 1..Len(Rijen[j]) : Rijen[j][i].importable}

(* "Een harde alles-of-niets-garantie": a confirmation leaves one contract *)
(* for each importable row of its job, and one that failed, however far it *)
(* had come, leaves none.                                                  *)
AllesOfNiets ==
    \A r \in Verzoeken :
        {<<c.job, c.rij>> : c \in {x \in db.contracten : x.door = r}}
          = IF verzoek[r].pc = "bevestigd"
            THEN {verzoek[r].job} \X Importeerbaar(verzoek[r].job)
            ELSE {}

(* Within one file a vendor's number stands for one vendor: no import adds *)
(* the same new vendor twice.                                              *)
EenVendorPerNummer ==
    \A v, w \in db.vendors :
        v.door = w.door /\ v.nummer = w.nummer /\ v.nummer # Geen => v = w

(* Every importable row of a confirmed job leads to a contract that is     *)
(* there, and every other row to none.                                     *)
RijVerwijst ==
    \A j \in Jobs : job[j].status = "bevestigd" =>
        \A i \in 1..Len(Rijen[j]) : \E b \in db.boekingen :
            /\ b.job = j /\ b.rij = i
            /\ IF i \in Importeerbaar(j)
               THEN \E c \in db.contracten : c.door = b.door /\ c.job = j /\ c.rij = i
               ELSE b.door = Geen

(* A confirmation always ends, also when imports wait for each other.      *)
ImportEindigt ==
    \A r \in Verzoeken : verzoek[r].pc \in Open ~> verzoek[r].pc \in Gedaan
=============================================================================
