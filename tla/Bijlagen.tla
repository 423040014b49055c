------------------------------ MODULE Bijlagen ------------------------------
(***************************************************************************)
(* Attachments to one response: uploaded by the supplier                   *)
(* (BijlageService.voegToe) or by an employee on its behalf                *)
(* (BijlageBeheerService.voegToeAlsBeheer), while others submit, withdraw  *)
(* and re-invite the response.                                             *)
(*                                                                         *)
(* An upload writes to two stores that share no transaction: the file goes *)
(* to disk or S3, then a row goes to clm.survey_attachment, and what has a *)
(* file but no row is cleaned up afterwards.  Every request has a storage  *)
(* key of its own (a UUID), so an upload stands for its file and its row.  *)
(*                                                                         *)
(* Abstracted: the content check, which comes first and changes nothing.   *)
(* External: the file store and PostgreSQL, whose COMMIT may be under way  *)
(* when the connection breaks.                                             *)
(***************************************************************************)
EXTENDS Naturals, FiniteSets

CONSTANTS Uploads,      \* upload requests
          Vragen,       \* questions of the questionnaire of the round
          MaxFiles,     \* survey_question.max_files; 0 where uploads are off
          Geen

ASSUME UploadsEindig == IsFiniteSet(Uploads)
ASSUME MaxFilesGetal == MaxFiles \in [Vragen -> Nat]

VARIABLES status,       \* survey_response.status
          opslag,       \* uploads whose file is in the store
          rijen,        \* uploads whose row is committed
          onderweg,     \* uploads whose COMMIT the server has yet to process
          upload        \* the requests

vars == <<status, opslag, rijen, onderweg, upload>>

InTransactie == {"vergrendeld", "geteld", "ingevoegd"}
Opruimen     == {"opruimen", "wissen"}
Lopend       == {"bewaard"} \cup InTransactie \cup Opruimen
Afgelopen    == {"klaar", "restant", "dood"}

NieuweUpload == [pc |-> "nieuw", door |-> Geen, vraag |-> Geen, uitkomst |-> "lopend"]

Init ==
    /\ status = "pending"
    /\ opslag = {} /\ rijen = {} /\ onderweg = {}
    /\ upload = [u \in Uploads |-> NieuweUpload]

Naar(u, pc) == upload' = [upload EXCEPT ![u].pc = pc]

(* The transaction ended; what the caller will be told is fixed.           *)
Uitkomst(u, uitkomst) ==
    upload' = [upload EXCEPT ![u].pc = "opruimen", ![u].uitkomst = uitkomst]

(* Mutants of HoudtRij: SELECT status without FOR UPDATE, and a connection *)
(* that is not given back when its process dies.                           *)
HoudtRijZonderForUpdate(u) == FALSE
HoudtRijOokNaDood(u) == upload[u].pc \in {"dood"} \cup InTransactie \/ u \in onderweg

(* SELECT ... FOR UPDATE on the response, until the transaction is over on *)
(* the server.                                                             *)
HoudtRij(u) == upload[u].pc \in InTransactie \/ u \in onderweg

RijVrij == \A u \in Uploads : ~HoudtRij(u)

-----------------------------------------------------------------------------
(* Writing the file.  The supplier's guard saw an open response; the       *)
(* employee may add to any response.  Failing here is outside the try, so  *)
(* nothing is cleaned up: on disk a part of the file may stay behind.      *)
Bewaar(u, door, q) ==
    /\ upload[u].pc = "nieuw"
    /\ door = "leverancier" => status = "pending"
    /\ upload' = [upload EXCEPT ![u] =
         [pc |-> "bewaard", door |-> door, vraag |-> q, uitkomst |-> "lopend"]]
    /\ opslag' = opslag \cup {u}
    /\ UNCHANGED <<status, rijen, onderweg>>

BewaarMislukt(u, door, q, rest) ==
    /\ upload[u].pc = "nieuw"
    /\ door = "leverancier" => status = "pending"
    /\ upload' = [upload EXCEPT ![u] =
         [pc |-> IF rest = {} THEN "klaar" ELSE "restant",
          door |-> door, vraag |-> q, uitkomst |-> "fout"]]
    /\ opslag' = opslag \cup rest
    /\ UNCHANGED <<status, rijen, onderweg>>

MagToevoegen(u) == upload[u].door = "leverancier" => status = "pending"

(* The lock is granted and the row read as it then is.                     *)
Vergrendel(u) ==
    /\ upload[u].pc = "bewaard"
    /\ RijVrij
    /\ IF MagToevoegen(u) /\ MaxFiles[upload[u].vraag] > 0
       THEN Naar(u, "vergrendeld")
       ELSE Uitkomst(u, "geweigerd")
    /\ UNCHANGED <<status, opslag, rijen, onderweg>>

RijenBij(q) == {v \in rijen : upload[v].vraag = q}

NogRuimte(q) == Cardinality(RijenBij(q)) < MaxFiles[q]

(* The count is a statement of its own, with a snapshot of its own.        *)
Tel(u) ==
    /\ upload[u].pc = "vergrendeld"
    /\ IF NogRuimte(upload[u].vraag)
       THEN Naar(u, "geteld")
       ELSE Uitkomst(u, "geweigerd")
    /\ UNCHANGED <<status, opslag, rijen, onderweg>>

(* WITH CHECK of survey_attachment_isolation; it decides on the snapshot   *)
(* of the INSERT.  A violation would be an error, but while the row is     *)
(* locked its status stands still, so the check that passed under the lock *)
(* passes here too.                                                        *)
VoegIn(u) ==
    /\ upload[u].pc = "geteld"
    /\ MagToevoegen(u)
    /\ Naar(u, "ingevoegd")
    /\ UNCHANGED <<status, opslag, rijen, onderweg>>

Commit(u) ==
    /\ upload[u].pc = "ingevoegd"
    /\ rijen' = rijen \cup {u}
    /\ Uitkomst(u, "opgeslagen")
    /\ UNCHANGED <<status, opslag, onderweg>>

(* A statement fails, or the connection does, waiting for the lock         *)
(* included.  It may happen; nothing makes it happen: the pool sets no     *)
(* lock_timeout and no statement_timeout.                                  *)
TransactieFaalt(u) ==
    /\ upload[u].pc \in {"bewaard"} \cup InTransactie
    /\ Uitkomst(u, "fout")
    /\ UNCHANGED <<status, opslag, rijen, onderweg>>

(* The connection breaks after COMMIT was sent: an error for the caller,   *)
(* but the server still has the transaction, and commits it or not.        *)
VerbindingValt(u) ==
    /\ upload[u].pc = "ingevoegd"
    /\ onderweg' = onderweg \cup {u}
    /\ Uitkomst(u, "fout")
    /\ UNCHANGED <<status, opslag, rijen>>

ServerBeslist(u, gecommit) ==
    /\ u \in onderweg
    /\ onderweg' = onderweg \ {u}
    /\ rijen' = rijen \cup (IF gecommit THEN {u} ELSE {})
    /\ UNCHANGED <<status, opslag, upload>>

(* Mutants of HeeftGeenRij: cleaning up without asking, and not at all.    *)
RuimtAltijdOp(u) == TRUE
RuimtNooitOp(u)  == FALSE

(* ruimOpIndienNodig asks the database, in a transaction of its own ...    *)
HeeftGeenRij(u) == u \notin rijen

KijktOfRijBestaat(u) ==
    /\ upload[u].pc = "opruimen"
    /\ Naar(u, IF HeeftGeenRij(u) THEN "wissen" ELSE "klaar")
    /\ UNCHANGED <<status, opslag, rijen, onderweg>>

(* ... and then removes the file.                                          *)
Wis(u) ==
    /\ upload[u].pc = "wissen"
    /\ opslag' = opslag \ {u}
    /\ Naar(u, "klaar")
    /\ UNCHANGED <<status, rijen, onderweg>>

(* Either half may fail; that is logged and the outcome stands.            *)
OpruimenMislukt(u) ==
    /\ upload[u].pc \in Opruimen
    /\ Naar(u, "restant")
    /\ UNCHANGED <<status, opslag, rijen, onderweg>>

(* The process dies; PostgreSQL rolls an open transaction back.            *)
ProcesSterft(u) ==
    /\ upload[u].pc \in Lopend
    /\ Naar(u, "dood")
    /\ UNCHANGED <<status, opslag, rijen, onderweg>>

(* Mutant of Overgang: a status the CHECK constraint does not know.        *)
OvergangMetGesloten(van) ==
    CASE van = "pending" -> {"submitted", "revoked", "closed"}
      [] van = "revoked" -> {"pending"}
      [] OTHER           -> {}

(* Submitting, withdrawing and re-inviting update the response row, and    *)
(* wait for its lock.                                                      *)
Overgang(van) ==
    CASE van = "pending" -> {"submitted", "revoked"}
      [] van = "revoked" -> {"pending"}
      [] OTHER           -> {}

StatusWijzigt ==
    /\ RijVrij
    /\ status' \in Overgang(status)
    /\ UNCHANGED <<opslag, rijen, onderweg, upload>>

-----------------------------------------------------------------------------
(* What the server does of itself with an upload it let in.                *)
UploadStap(u) ==
    \/ Vergrendel(u) \/ Tel(u) \/ VoegIn(u) \/ Commit(u)
    \/ \E gecommit \in BOOLEAN : ServerBeslist(u, gecommit)
    \/ KijktOfRijBestaat(u) \/ Wis(u)

(* What may go wrong on the way, and need not.                             *)
UploadStoring(u) ==
    \/ TransactieFaalt(u) \/ VerbindingValt(u)
    \/ OpruimenMislukt(u) \/ ProcesSterft(u)

Next ==
    \/ \E u \in Uploads :
         \/ \E door \in {"leverancier", "medewerker"}, q \in Vragen :
              \/ Bewaar(u, door, q)
              \/ \E rest \in {{}, {u}} : BewaarMislukt(u, door, q, rest)
         \/ UploadStap(u)
         \/ UploadStoring(u)
    \/ StatusWijzigt

Spec == Init /\ [][Next]_vars

(* The server works on with an upload, and PostgreSQL decides a COMMIT     *)
(* whose connection broke; no failure and no one else's step is assumed.   *)
(* An upload that waits for the row lock is thus only helped by the end of *)
(* the transaction that holds it.                                          *)
EerlijkeSpec == Spec /\ \A u \in Uploads : WF_vars(UploadStap(u))

-----------------------------------------------------------------------------
Upload == [pc       : {"nieuw"} \cup Lopend \cup Afgelopen,
           door     : {"leverancier", "medewerker", Geen},
           vraag    : Vragen \cup {Geen},
           uitkomst : {"lopend", "opgeslagen", "geweigerd", "fout"}]

TypeOK ==
    /\ status \in {"pending", "submitted", "revoked"}
    /\ opslag \in SUBSET Uploads
    /\ rijen \in SUBSET Uploads
    /\ onderweg \in SUBSET Uploads
    /\ upload \in [Uploads -> Upload]
    /\ \A u \in Uploads : upload[u].pc # "nieuw" => upload[u].vraag \in Vragen

(* "... zodat twee overlappende uploads niet allebei hetzelfde aantal      *)
(* tellen en samen over max_files heen gaan": never more rows at a         *)
(* question than max_files, also when a COMMIT lands after its caller was  *)
(* told of an error.                                                       *)
MaximumPerVraag == \A q \in Vragen : Cardinality(RijenBij(q)) <= MaxFiles[q]

(* An upload that was reported as stored has its row and its file, for     *)
(* good: nobody's clean-up takes it away.                                  *)
GemeldIsBewaard ==
    \A u \in Uploads : upload[u].uitkomst = "opgeslagen" => u \in rijen \cap opslag

(* A request that came to its end, whatever its outcome, leaves no file    *)
(* without a row; only a crash or a failing clean-up does.                 *)
GeenWeesbestand ==
    \A u \in Uploads : upload[u].pc = "klaar" /\ u \in opslag => u \in rijen

(* "Na indienen geen uploads meer": a row of the supplier only appears     *)
(* while the response is open.                                             *)
NaIndienenDicht ==
    [][\A u \in rijen' \ rijen :
          upload[u].door = "leverancier" => status = "pending"]_vars

(* Every upload that got in ends, and with it its hold on the response:    *)
(* whoever holds the row lock, and whether it commits, fails or dies, the  *)
(* uploads behind it get their turn.                                       *)
UploadEindigt ==
    \A u \in Uploads : upload[u].pc \in Lopend ~> upload[u].pc \in Afgelopen /\ ~HoudtRij(u)
=============================================================================
