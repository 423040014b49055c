---------------------------- MODULE Transacties ----------------------------
(***************************************************************************)
(* The transactions of DatabaseService.withTenant, one per request, at     *)
(* PostgreSQL's default READ COMMITTED.  A statement sees the committed    *)
(* rows and what its own transaction wrote.  A written row stays locked    *)
(* until the transaction ends.  An UPDATE or DELETE of many rows takes two *)
(* steps: it picks the rows its snapshot shows, and, once nobody else has  *)
(* them locked, looks again at each and writes those that still qualify.   *)
(* Leveranciers, Beoordeling and Dossiers are built on this module.        *)
(***************************************************************************)
EXTENDS Integers, FiniteSets, Afwezig

CONSTANTS
    Verzoeken,   \* the requests
    MaxOpen      \* bound: transactions open at the same time (DATABASE_POOL_MAX)

ASSUME TransactiesMaxOpen == MaxOpen \in Nat \ {0}

VARIABLES
    rij,         \* the committed rows, by key
    verzoek      \* the requests: pc, what was asked, rows picked, rows written

Leeg == [r \in {} |-> Geen]

NieuwVerzoek ==
    [pc |-> "nieuw", op |-> Geen, invoer |-> Geen, gekozen |-> {}, schrijf |-> Leeg]

Lopend ==
    {q \in Verzoeken :
       verzoek[q].pc \notin {"nieuw", "klaar", "geweigerd", "dubbel", "gebruikt", "fout"}}

(* The rows as a statement of request q sees them.                         *)
Zicht(q) ==
    LET w == verzoek[q].schrijf IN
    [r \in DOMAIN rij |-> IF r \in DOMAIN w THEN w[r] ELSE rij[r]]

(* The rows of R that no other transaction wrote.                          *)
Vrij(q, R) == \A p \in Verzoeken \ {q} : DOMAIN verzoek[p].schrijf \cap R = {}

-----------------------------------------------------------------------------
(* BEGIN: a request passes the guards and gets a connection.               *)
Begint(q, op, invoer, pc) ==
    /\ verzoek[q].pc = "nieuw"
    /\ Cardinality(Lopend) < MaxOpen
    /\ verzoek' = [verzoek EXCEPT ![q].pc = pc, ![q].op = op, ![q].invoer = invoer]

(* A request that never gets to write.                                     *)
Weigert(q) == verzoek' = [verzoek EXCEPT ![q] = [NieuwVerzoek EXCEPT !.pc = "geweigerd"]]

Naar(q, pc) == verzoek' = [verzoek EXCEPT ![q].pc = pc]

(* The first half of an UPDATE or DELETE: the rows its snapshot picks.     *)
Kiest(q, R, pc) == verzoek' = [verzoek EXCEPT ![q].gekozen = R, ![q].pc = pc]

(* A write of the rows R, the row r becoming wordt[r].                     *)
Schrijft(q, R, wordt, pc) ==
    /\ Vrij(q, R)
    /\ verzoek' = [verzoek EXCEPT
         ![q].schrijf = [r \in DOMAIN @ \cup R |-> IF r \in R THEN wordt[r] ELSE @[r]],
         ![q].gekozen = {}, ![q].pc = pc]

(* COMMIT.                                                                 *)
Commit(q) ==
    /\ verzoek[q].pc = "commit"
    /\ rij' = Zicht(q)
    /\ verzoek' = [verzoek EXCEPT ![q] = [NieuwVerzoek EXCEPT !.pc = "klaar"]]

(* ROLLBACK after an error of the database: a unique index, a deadlock, a  *)
(* lost connection, the process dying.                                     *)
Rollback(q) ==
    /\ q \in Lopend
    /\ verzoek' = [verzoek EXCEPT ![q] = [NieuwVerzoek EXCEPT !.pc = "fout"]]
    /\ UNCHANGED rij
=============================================================================
