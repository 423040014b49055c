------------------------------ MODULE Toegang ------------------------------
(***************************************************************************)
(* Who may work in which tenant: users (clm.user), memberships             *)
(* (clm.tenant_membership), tenants and login sessions (clm.sessie), with  *)
(* the requests that change them: logging in, the first login of an        *)
(* invited user, logging out, managing members, and platform management.   *)
(*                                                                         *)
(* A request is one record with a program counter.  A step is one          *)
(* statement, or a transaction whose statements nobody can come between    *)
(* with effect.  The functions sessie_aanmaken, sessie_wisselen and        *)
(* koppel_eerste_login read and write in different statements, and so do   *)
(* the member operations; that is where requests interfere.                *)
(*                                                                         *)
(* Not in the model: the wording of errors, mail, names, the audit lines,  *)
(* and reads that change nothing.  What the forms accept is in Formulieren.*)
(***************************************************************************)
EXTENDS Integers, FiniteSets

CONSTANTS
    Gebruikers,          \* the user rows there can be
    Tenants,             \* the tenants there can be
    Identiteiten,        \* the oid claims of the identity provider
    Adressen,            \* e-mail addresses
    AdresVan,            \* the e-mail claim of each identity
    Uitnodigingen,       \* the invitation tokens randomBytes(32) can produce
    TOEGESTANE_ROLLEN,   \* the roles a member can be given
    Verzoeken,           \* requests; a session is named after the one that made it
    Platformbeheerders,  \* the users in clm.platform_admin
    BeginTenants,        \* the tenants there are at the start
    BeginGebruiker,      \* the rows of clm.user at the start
    BeginLid,            \* the rows of clm.tenant_membership at the start
    Venster,             \* SESSIE_GELDIGHEID_UREN and SUPPORT_TOEGANG_UREN, in clock ticks
    UitnodigingGeldig,   \* UITNODIGING_GELDIGHEID_UREN, in clock ticks
    MaxTijd,             \* bound: the clock stops here
    Geen                 \* SQL NULL

ASSUME ToegangTijd == /\ MaxTijd \in Nat
                      /\ Venster \in Nat \ {0}
                      /\ UitnodigingGeldig \in Nat \ {0}
ASSUME ToegangGeen ==
    /\ Geen \notin Gebruikers \cup Tenants \cup Identiteiten \cup Adressen
    /\ Geen \notin Uitnodigingen \cup Int
    /\ Geen \notin TOEGESTANE_ROLLEN \cup {"support"}

Tijd == 0..MaxTijd
Rollen == TOEGESTANE_ROLLEN \cup {"support"}

GebruikerRijen ==
    [thuis : Tenants \cup {Geen}, email : Adressen \cup {Geen},
     subject : Identiteiten \cup {Geen}, uitnodiging : Uitnodigingen \cup {Geen}, tot : Nat]
LidRijen ==
    [rol : Rollen \cup {Geen}, actief : BOOLEAN, verloopt : Nat \cup {Geen}, sinds : Nat]

GeenGebruiker == [thuis |-> Geen, email |-> Geen, subject |-> Geen,
                  uitnodiging |-> Geen, tot |-> 0]
GeenLid == [rol |-> Geen, actief |-> FALSE, verloopt |-> Geen, sinds |-> 0]
GeenSessie == [gebruiker |-> Geen, tenant |-> Geen, rol |-> Geen, verloopt |-> 0]

(* Every user with an identity and an active membership is logged in at    *)
(* the start, in a session named after the user.                           *)
Begin == {u \in Gebruikers : BeginGebruiker[u].subject # Geen
                             /\ BeginLid[u][BeginGebruiker[u].thuis].actief}
Sessies == Verzoeken \cup Begin

(* The database at the start keeps the constraints of its schema: external *)
(* subjects and invitation tokens are unique, a membership is of a user    *)
(* that exists, and a user has one active membership beside support.       *)
ASSUME ToegangBegin ==
    /\ {"admin"} \subseteq TOEGESTANE_ROLLEN /\ "support" \notin TOEGESTANE_ROLLEN
    /\ Gebruikers \cap Verzoeken = {}
    /\ AdresVan \in [Identiteiten -> Adressen]
    /\ BeginTenants \subseteq Tenants
    /\ BeginGebruiker \in [Gebruikers -> GebruikerRijen]
    /\ BeginLid \in [Gebruikers -> [Tenants -> LidRijen]]
    /\ \A u \in Gebruikers : BeginGebruiker[u].subject # Geen => BeginGebruiker[u].thuis # Geen
    /\ \A u, w \in Gebruikers : BeginGebruiker[u].subject # Geen
         /\ BeginGebruiker[u].subject = BeginGebruiker[w].subject => u = w
    /\ \A u, w \in Gebruikers : BeginGebruiker[u].uitnodiging # Geen
         /\ BeginGebruiker[u].uitnodiging = BeginGebruiker[w].uitnodiging => u = w
    /\ \A u \in Gebruikers : \A t \in Tenants :
         BeginLid[u][t].actief => BeginGebruiker[u].thuis # Geen
    /\ \A u \in Gebruikers : \A t, x \in Tenants :
         /\ BeginLid[u][t].actief /\ BeginLid[u][t].rol # "support"
         /\ BeginLid[u][x].actief /\ BeginLid[u][x].rol # "support"
         => t = x

VARIABLES
    tijd,       \* the database clock
    tenant,     \* per tenant: no row, in use, or deactivated
    gebruiker,  \* the rows of clm.user
    lid,        \* the rows of clm.tenant_membership, per user and tenant
    sessie,     \* the rows of clm.sessie
    voor,       \* per invitation ever issued, the user row it was issued for
    verzoek     \* the requests

vars == <<tijd, tenant, gebruiker, lid, sessie, voor, verzoek>>
rijen == <<tenant, gebruiker, lid, sessie, voor>>

NieuwVerzoek ==
    [pc |-> "nieuw", op |-> Geen, sessie |-> Geen, gebruiker |-> Geen, tenant |-> Geen,
     rol |-> Geen, identiteit |-> Geen, uitnodiging |-> Geen, tweede |-> FALSE,
     doel |-> Geen, wat |-> Geen, gezien |-> {}, dicht |-> {}]

Init ==
    /\ tijd = 0
    /\ tenant = [t \in Tenants |-> IF t \in BeginTenants THEN "actief" ELSE "geen"]
    /\ gebruiker = BeginGebruiker
    /\ lid = BeginLid
    /\ sessie = [s \in Sessies |->
         IF s \in Begin
         THEN [gebruiker |-> s, tenant |-> BeginGebruiker[s].thuis,
               rol |-> BeginLid[s][BeginGebruiker[s].thuis].rol, verloopt |-> Venster]
         ELSE GeenSessie]
    /\ voor = [k \in Uitnodigingen |->
         IF \E u \in Gebruikers : BeginGebruiker[u].uitnodiging = k
         THEN CHOOSE u \in Gebruikers : BeginGebruiker[u].uitnodiging = k ELSE Geen]
    /\ verzoek = [v \in Verzoeken |-> NieuwVerzoek]

-----------------------------------------------------------------------------
(* What the statements of every operation look at.                         *)

Gesloten == {t \in Tenants : tenant[t] = "gesloten"}

(* A row of clm.sessie that is not past its verloopt_op.                   *)
Leeft(s) == sessie[s] # GeenSessie /\ sessie[s].verloopt > tijd

(* The memberships sessie_aanmaken may choose from: verloopt_op is not     *)
(* among its conditions.                                                   *)
LedenVan(i) ==
    {p \in Gebruikers \X Tenants : gebruiker[p[1]].subject = i /\ lid[p[1]][p[2]].actief}

(* ORDER BY created_at LIMIT 1.                                            *)
Oudste(paren) ==
    {p \in paren : \A q \in paren : lid[p[1]][p[2]].sinds <= lid[q[1]][q[2]].sinds}

(* Mutant of Botst: without tenant_membership_een_actief_per_gebruiker.    *)
BotstNooit(u, t, rol) == FALSE

(* The unique index tenant_membership_een_actief_per_gebruiker: a user has *)
(* one active membership beside support.                                   *)
Botst(u, t, rol) ==
    /\ rol # "support"
    /\ \E ander \in Tenants \ {t} : lid[u][ander].actief /\ lid[u][ander].rol # "support"

(* A request that ended keeps nothing but its outcome.                     *)
Klaar(v, uitkomst) == verzoek' = [verzoek EXCEPT ![v] = [NieuwVerzoek EXCEPT !.pc = uitkomst]]

Naar(v, pc) == verzoek' = [verzoek EXCEPT ![v].pc = pc]

-----------------------------------------------------------------------------
(* Logging in: GET /auth/callback.                                         *)

(* A login that gets past the state cookie, the code exchange and the      *)
(* verification of the ID token, with or without an invitation in the      *)
(* cookie.  Only a token that was issued can be presented with effect.     *)
Callback(v, i, k) ==
    /\ verzoek[v].pc = "nieuw"
    /\ k # Geen => voor[k] # Geen
    /\ verzoek' = [verzoek EXCEPT ![v] =
         [NieuwVerzoek EXCEPT !.pc = "lid-zoeken", !.op = "inlog", !.identiteit = i,
            !.uitnodiging = k, !.dicht = Gesloten]]
    /\ UNCHANGED <<tijd, rijen>>

(* sessie_aanmaken returned no row: an invitation gets one chance.         *)
GeenRijGevonden(v) ==
    IF ~verzoek[v].tweede /\ verzoek[v].uitnodiging # Geen
    THEN Naar(v, "koppelen") ELSE Klaar(v, "geweigerd")

(* The first SELECT of sessie_aanmaken.                                    *)
ZoekLid(v) ==
    /\ verzoek[v].pc = "lid-zoeken"
    /\ LET paren == LedenVan(verzoek[v].identiteit) IN
       \/ \E p \in Oudste(paren) :
            verzoek' = [verzoek EXCEPT ![v].pc = "tenant-controle", ![v].gebruiker = p[1],
                          ![v].doel = p[2], ![v].rol = lid[p[1]][p[2]].rol]
       \/ paren = {} /\ GeenRijGevonden(v)
    /\ UNCHANGED <<tijd, rijen>>

(* Mutant of TenantOpen: sessie_aanmaken as migration 0010 had it.         *)
TenantNietBekeken(t) == TRUE

(* The second SELECT of sessie_aanmaken and of sessie_wisselen.            *)
TenantOpen(t) == tenant[t] = "actief"

ControleerTenant(v) ==
    /\ verzoek[v].pc = "tenant-controle"
    /\ IF TenantOpen(verzoek[v].doel) THEN Naar(v, "sessie-schrijven")
       ELSE IF verzoek[v].op = "inlog" THEN GeenRijGevonden(v)
       ELSE Klaar(v, "niet-gevonden")
    /\ UNCHANGED <<tijd, rijen>>

(* The INSERT of sessie_aanmaken and of sessie_wisselen.                   *)
SchrijfSessie(v) ==
    /\ verzoek[v].pc = "sessie-schrijven"
    /\ sessie' = [sessie EXCEPT ![v] =
         [gebruiker |-> verzoek[v].gebruiker, tenant |-> verzoek[v].doel,
          rol |-> verzoek[v].rol, verloopt |-> tijd + Venster]]
    /\ Klaar(v, "klaar")
    /\ UNCHANGED <<tijd, tenant, gebruiker, lid, voor>>

(* Mutant of Koppelbaar: as in migration 0023, the e-mail address alone    *)
(* makes the match.                                                        *)
KoppelbaarOpAdres(u, k, i) ==
    gebruiker[u].email = AdresVan[i] /\ gebruiker[u].subject = Geen /\ gebruiker[u].tot > tijd

(* The row koppel_eerste_login looks for.                                  *)
Koppelbaar(u, k, i) ==
    /\ gebruiker[u].uitnodiging = k
    /\ gebruiker[u].email = AdresVan[i]
    /\ gebruiker[u].subject = Geen
    /\ gebruiker[u].tot > tijd

LeesKoppeling(v) ==
    /\ verzoek[v].pc = "koppelen"
    /\ LET i == verzoek[v].identiteit
           rij == {u \in Gebruikers : Koppelbaar(u, verzoek[v].uitnodiging, i)}
       IN IF (\E u \in Gebruikers : gebruiker[u].subject = i) \/ rij = {}
          THEN Klaar(v, "geweigerd")
          ELSE \E u \in rij : verzoek' = [verzoek EXCEPT ![v].pc = "koppel-schrijven",
                                                         ![v].gebruiker = u]
    /\ UNCHANGED <<tijd, rijen>>

(* The UPDATE of koppel_eerste_login names the row only; the unique index  *)
(* on external_subject may refuse it.  After it sessie_aanmaken runs again.*)
SchrijfKoppeling(v) ==
    /\ verzoek[v].pc = "koppel-schrijven"
    /\ LET i == verzoek[v].identiteit
           u == verzoek[v].gebruiker
       IN IF \E w \in Gebruikers \ {u} : gebruiker[w].subject = i
          THEN /\ Klaar(v, "mislukt")
               /\ UNCHANGED <<tijd, rijen>>
          ELSE /\ gebruiker' = [gebruiker EXCEPT ![u].subject = i,
                                  ![u].uitnodiging = Geen, ![u].tot = 0]
               /\ verzoek' = [verzoek EXCEPT ![v].pc = "lid-zoeken", ![v].tweede = TRUE]
               /\ UNCHANGED <<tijd, tenant, lid, sessie, voor>>

-----------------------------------------------------------------------------
(* Requests with a session.                                                *)

(* Mutant of TeVerlengen: sessie_oplossen finds the row whatever its       *)
(* verloopt_op.                                                            *)
OokVerlopen(s) == sessie[s] # GeenSessie

(* The row the UPDATE of sessie_oplossen finds.                            *)
TeVerlengen(s) == Leeft(s)

(* TenantContextGuard: the session is found and prolonged in one UPDATE.   *)
(* What it says of the user, tenant and role is used from here on.         *)
Oplossen(v, s) ==
    /\ verzoek[v].pc = "nieuw"
    /\ IF TeVerlengen(s)
       THEN /\ sessie' = [sessie EXCEPT ![s].verloopt = tijd + Venster]
            /\ verzoek' = [verzoek EXCEPT ![v] =
                 [NieuwVerzoek EXCEPT !.pc = "toegelaten", !.sessie = s,
                    !.gebruiker = sessie[s].gebruiker, !.tenant = sessie[s].tenant,
                    !.rol = sessie[s].rol, !.dicht = Gesloten]]
       ELSE Klaar(v, "geweigerd") /\ UNCHANGED sessie
    /\ UNCHANGED <<tijd, tenant, gebruiker, lid, voor>>

(* What sessie_beeindigen leaves: the session goes, and with it whatever   *)
(* has expired.                                                            *)
Beeindigd(s) == [x \in Sessies |->
    IF x = s \/ sessie[x].verloopt < tijd THEN GeenSessie ELSE sessie[x]]

(* GET /auth/logout runs without the guard.                                *)
Uitloggen(v, s) ==
    /\ verzoek[v].pc = "nieuw"
    /\ sessie' = Beeindigd(s)
    /\ Klaar(v, "klaar")
    /\ UNCHANGED <<tijd, tenant, gebruiker, lid, voor>>

(* RolGuard on the routes of TenantLedenController.                        *)
MagLedenBeheren(v) == verzoek[v].pc = "toegelaten" /\ verzoek[v].rol \in {"admin", "support"}

(* PlatformAdminGuard: read from clm.platform_admin, not from the session. *)
IsPlatformbeheerder(v) ==
    verzoek[v].pc = "toegelaten" /\ verzoek[v].gebruiker \in Platformbeheerders

(* The users of the tenant with this address; row level security hides     *)
(* those of other tenants.                                                 *)
MetAdres(t, e) == {u \in Gebruikers : gebruiker[u].thuis = t /\ gebruiker[u].email = e}

(* The SELECT of uitnodigen decides between the cases of the method.       *)
LeesUitnodigen(v, e, rol) ==
    /\ MagLedenBeheren(v)
    /\ LET t == verzoek[v].tenant
           Kies(op, u) == verzoek' = [verzoek EXCEPT ![v].pc = "schrijven", ![v].op = op,
                                        ![v].doel = u, ![v].rol = rol, ![v].wat = e]
       IN IF MetAdres(t, e) = {} THEN Kies("uitnodigen-nieuw", Geen)
          ELSE \E u \in MetAdres(t, e) :
                 IF lid[u][t].actief /\ lid[u][t].rol # "support" THEN Klaar(v, "conflict")
                 ELSE IF lid[u][t] # GeenLid /\ ~lid[u][t].actief THEN Kies("uitnodigen-herleven", u)
                 ELSE Kies("uitnodigen-lid", u)
    /\ UNCHANGED <<tijd, rijen>>

(* A fresh token replaces the previous invitation of the row.  An          *)
(* external_subject that is already there stays.                           *)
Uitgenodigd(u, k) ==
    /\ voor' = [voor EXCEPT ![k] = u]
    /\ gebruiker' = [gebruiker EXCEPT ![u].uitnodiging = k, ![u].tot = tijd + UitnodigingGeldig]

NieuweGebruiker(u, t, e, k) ==
    /\ gebruiker[u] = GeenGebruiker
    /\ voor' = [voor EXCEPT ![k] = u]
    /\ gebruiker' = [gebruiker EXCEPT ![u] =
         [GeenGebruiker EXCEPT !.thuis = t, !.email = e, !.uitnodiging = k,
                               !.tot = tijd + UitnodigingGeldig]]

(* Mutant of NieuwLid: the role under the name the screen shows.           *)
SchermRol(rol) ==
    [GeenLid EXCEPT !.rol = IF rol = "admin" THEN "beheerder" ELSE rol, !.actief = TRUE]

NieuwLid(rol) == [GeenLid EXCEPT !.rol = rol, !.actief = TRUE, !.sinds = tijd]

(* What the membership statement of uitnodigen runs into: the unique index,*)
(* and for an INSERT the primary key (user_id, tenant_id).                 *)
Schrijfbaar(v) ==
    LET rij == lid[verzoek[v].doel][verzoek[v].tenant] IN
    /\ verzoek[v].op = "uitnodigen-lid" => rij = GeenLid
    /\ ~Botst(verzoek[v].doel, verzoek[v].tenant, verzoek[v].rol)

(* The membership and the user row are written in one transaction.  The    *)
(* mail goes out after its COMMIT; the link is in the answer either way.   *)
SchrijfUitnodigen(v, k) ==
    LET t == verzoek[v].tenant
        u == verzoek[v].doel
        rol == verzoek[v].rol
    IN /\ verzoek[v].pc = "schrijven" /\ voor[k] = Geen
       /\ verzoek[v].op \in {"uitnodigen-nieuw", "uitnodigen-herleven", "uitnodigen-lid"}
       /\ \/ /\ verzoek[v].op = "uitnodigen-nieuw"
             /\ \E w \in Gebruikers :
                  /\ NieuweGebruiker(w, t, verzoek[v].wat, k)
                  /\ lid' = [lid EXCEPT ![w][t] = NieuwLid(rol)]
             /\ Klaar(v, "klaar")
          \/ /\ verzoek[v].op # "uitnodigen-nieuw" /\ Schrijfbaar(v)
             /\ lid' = [lid EXCEPT ![u][t] =
                  IF verzoek[v].op = "uitnodigen-lid" THEN NieuwLid(rol)
                  ELSE [@ EXCEPT !.rol = rol, !.actief = TRUE]]
             /\ Uitgenodigd(u, k)
             /\ Klaar(v, "klaar")
          \/ /\ verzoek[v].op # "uitnodigen-nieuw" /\ ~Schrijfbaar(v)
             /\ Klaar(v, "mislukt")
             /\ UNCHANGED <<gebruiker, lid, voor>>
       /\ UNCHANGED <<tijd, tenant, sessie>>

Admins(t) == {w \in Gebruikers : lid[w][t].actief /\ lid[w][t].rol = "admin"}

(* Mutant of LaatsteAdmin: the count does not leave the member itself out. *)
TeltZichzelfMee(t, u) == FALSE

(* weigerAlsLaatsteAdmin: the other admins are counted, expired or not.    *)
LaatsteAdmin(t, u) ==
    lid[u][t].actief /\ lid[u][t].rol = "admin" /\ Admins(t) \ {u} = {}

(* The check of rolWijzigen and of intrekken, before their UPDATE.         *)
LeesLid(v, op, u, rol) ==
    /\ MagLedenBeheren(v)
    /\ LET t == verzoek[v].tenant IN
       IF rol # "admin" /\ LaatsteAdmin(t, u) THEN Klaar(v, "conflict")
       ELSE verzoek' = [verzoek EXCEPT ![v].pc = "schrijven", ![v].op = op, ![v].doel = u,
                          ![v].rol = rol, ![v].gezien = Admins(t)]
    /\ UNCHANGED <<tijd, rijen>>

(* The UPDATE touches an active row only, a support row included.          *)
SchrijfRol(v) ==
    LET t == verzoek[v].tenant
        u == verzoek[v].doel
        rol == verzoek[v].rol
    IN /\ verzoek[v].pc = "schrijven" /\ verzoek[v].op = "rol"
       /\ IF lid[u][t].actief /\ Botst(u, t, rol)
          THEN Klaar(v, "mislukt") /\ UNCHANGED lid
          ELSE /\ lid' = IF lid[u][t].actief THEN [lid EXCEPT ![u][t].rol = rol] ELSE lid
               /\ Klaar(v, "klaar")
       /\ UNCHANGED <<tijd, tenant, gebruiker, sessie, voor>>

SchrijfIntrekken(v) ==
    LET t == verzoek[v].tenant
        u == verzoek[v].doel
    IN /\ verzoek[v].pc = "schrijven" /\ verzoek[v].op = "intrekken"
       /\ lid' = [lid EXCEPT ![u][t].actief = FALSE]
       /\ Klaar(v, "klaar")
       /\ UNCHANGED <<tijd, tenant, gebruiker, sessie, voor>>

(* gegevensWijzigen counts the other members with the address first.       *)
LeesGegevens(v, u, e) ==
    /\ MagLedenBeheren(v)
    /\ IF \E w \in Gebruikers \ {u} : lid[w][verzoek[v].tenant].actief /\ gebruiker[w].email = e
       THEN Klaar(v, "conflict")
       ELSE verzoek' = [verzoek EXCEPT ![v].pc = "schrijven", ![v].op = "gegevens",
                          ![v].doel = u, ![v].wat = e]
    /\ UNCHANGED <<tijd, rijen>>

SchrijfGegevens(v) ==
    LET u == verzoek[v].doel IN
    /\ verzoek[v].pc = "schrijven" /\ verzoek[v].op = "gegevens"
    /\ gebruiker' = IF gebruiker[u].thuis = verzoek[v].tenant
                    THEN [gebruiker EXCEPT ![u].email = verzoek[v].wat] ELSE gebruiker
    /\ Klaar(v, "klaar")
    /\ UNCHANGED <<tijd, tenant, lid, sessie, voor>>

-----------------------------------------------------------------------------
(* Platform management.                                                    *)

(* A tenant and its first administrator, in one transaction; a name that   *)
(* is in use is refused by the unique index.                               *)
TenantAanmaken(v, t, e, k) ==
    /\ IsPlatformbeheerder(v)
    /\ tenant[t] = "geen" /\ voor[k] = Geen
    /\ \E u \in Gebruikers :
         /\ NieuweGebruiker(u, t, e, k)
         /\ lid' = [lid EXCEPT ![u][t] = NieuwLid("admin")]
    /\ tenant' = [tenant EXCEPT ![t] = "actief"]
    /\ Klaar(v, "klaar")
    /\ UNCHANGED <<tijd, sessie>>

(* supportToegangGeven: the row that is there, whatever its role, becomes  *)
(* a support row.                                                          *)
SupportRij(v, t) ==
    LET u == verzoek[v].gebruiker
        oud == lid[u][t]
    IN lid' = [lid EXCEPT ![u][t] =
                 [rol |-> "support", actief |-> TRUE, verloopt |-> tijd + Venster,
                  sinds |-> IF oud = GeenLid THEN tijd ELSE oud.sinds]]

(* POST tenants/:id/toegang.  A deactivated tenant is found as well.       *)
SupportToegang(v, t) ==
    /\ IsPlatformbeheerder(v) /\ tenant[t] # "geen"
    /\ SupportRij(v, t)
    /\ Klaar(v, "klaar")
    /\ UNCHANGED <<tijd, tenant, gebruiker, sessie, voor>>

(* POST sessie/wisselen: the support row is committed in a transaction of  *)
(* its own, before the switch.                                             *)
Wissel(v, t) ==
    /\ IsPlatformbeheerder(v) /\ tenant[t] # "geen"
    /\ SupportRij(v, t)
    /\ verzoek' = [verzoek EXCEPT ![v].pc = "wissel-sessie", ![v].op = "wissel", ![v].doel = t]
    /\ UNCHANGED <<tijd, tenant, gebruiker, sessie, voor>>

(* POST sessie/eigen-tenant: the oldest membership that is not support.    *)
EigenTenant(v) ==
    /\ IsPlatformbeheerder(v)
    /\ LET u == verzoek[v].gebruiker
           vast == {<<u, t>> : t \in {x \in Tenants : lid[u][x].actief /\ lid[u][x].rol # "support"}}
       IN \/ \E p \in Oudste(vast) :
               verzoek' = [verzoek EXCEPT ![v].pc = "wissel-sessie", ![v].op = "wissel",
                                          ![v].doel = p[2]]
          \/ vast = {} /\ Klaar(v, "niet-gevonden")
    /\ UNCHANGED <<tijd, rijen>>

(* sessie_wisselen: the current session must still live.                   *)
LeesWisselSessie(v) ==
    /\ verzoek[v].pc = "wissel-sessie"
    /\ IF Leeft(verzoek[v].sessie) THEN Naar(v, "wissel-lid") ELSE Klaar(v, "niet-gevonden")
    /\ UNCHANGED <<tijd, rijen>>

(* Unlike sessie_aanmaken this one looks at verloopt_op.                   *)
LeesWisselLid(v) ==
    /\ verzoek[v].pc = "wissel-lid"
    /\ LET rij == lid[verzoek[v].gebruiker][verzoek[v].doel] IN
       IF rij.actief /\ (rij.verloopt = Geen \/ rij.verloopt > tijd)
       THEN verzoek' = [verzoek EXCEPT ![v].pc = "tenant-controle", ![v].rol = rij.rol]
       ELSE Klaar(v, "niet-gevonden")
    /\ UNCHANGED <<tijd, rijen>>

(* tenantDeactiveren; the sessions in the tenant stay.                     *)
Deactiveer(v, t) ==
    /\ IsPlatformbeheerder(v)
    /\ \/ /\ tenant[t] = "actief"
          /\ tenant' = [tenant EXCEPT ![t] = "gesloten"]
          /\ Klaar(v, "klaar")
       \/ /\ tenant[t] # "actief"
          /\ Klaar(v, "niet-gevonden")
          /\ UNCHANGED tenant
    /\ UNCHANGED <<tijd, gebruiker, lid, sessie, voor>>

(* A request may end without its handler doing any of the above: another   *)
(* route, a role that is not allowed, a lost connection before the COMMIT. *)
Ander(v) ==
    /\ verzoek[v].pc \notin {"nieuw", "klaar", "geweigerd", "conflict", "niet-gevonden", "mislukt"}
    /\ Klaar(v, "mislukt")
    /\ UNCHANGED <<tijd, rijen>>

(* now() is the start of the transaction, so no tick falls between the     *)
(* statements of one database function.                                    *)
InFunctie == {"tenant-controle", "sessie-schrijven", "wissel-lid", "koppel-schrijven"}

Tik == /\ tijd < MaxTijd /\ \A v \in Verzoeken : verzoek[v].pc \notin InFunctie
       /\ tijd' = tijd + 1
       /\ UNCHANGED <<rijen, verzoek>>

Inloggen(v) ==
    \/ \E i \in Identiteiten, k \in Uitnodigingen \cup {Geen} : Callback(v, i, k)
    \/ ZoekLid(v) \/ ControleerTenant(v) \/ SchrijfSessie(v)
    \/ LeesKoppeling(v) \/ SchrijfKoppeling(v)

Ledenbeheer(v) ==
    \/ \E e \in Adressen, rol \in TOEGESTANE_ROLLEN : LeesUitnodigen(v, e, rol)
    \/ \E k \in Uitnodigingen : SchrijfUitnodigen(v, k)
    \/ \E u \in Gebruikers, rol \in TOEGESTANE_ROLLEN : LeesLid(v, "rol", u, rol)
    \/ \E u \in Gebruikers : LeesLid(v, "intrekken", u, Geen)
    \/ SchrijfRol(v) \/ SchrijfIntrekken(v)
    \/ \E u \in Gebruikers, e \in Adressen : LeesGegevens(v, u, e)
    \/ SchrijfGegevens(v)

Platformbeheer(v) ==
    \/ \E t \in Tenants, e \in Adressen, k \in Uitnodigingen : TenantAanmaken(v, t, e, k)
    \/ \E t \in Tenants : SupportToegang(v, t) \/ Wissel(v, t) \/ Deactiveer(v, t)
    \/ EigenTenant(v) \/ LeesWisselSessie(v) \/ LeesWisselLid(v)

Next ==
    \/ Tik
    \/ \E v \in Verzoeken :
         \/ Inloggen(v) \/ Ledenbeheer(v) \/ Platformbeheer(v) \/ Ander(v)
         \/ \E s \in Sessies : Oplossen(v, s) \/ Uitloggen(v, s)

Spec == Init /\ [][Next]_vars

-----------------------------------------------------------------------------
(* Properties.                                                             *)

Pcs == {"nieuw", "lid-zoeken", "tenant-controle", "sessie-schrijven", "koppelen",
        "koppel-schrijven", "toegelaten", "schrijven", "wissel-sessie", "wissel-lid",
        "klaar", "geweigerd", "conflict", "niet-gevonden", "mislukt"}
Ops == {"inlog", "uitnodigen-nieuw", "uitnodigen-herleven", "uitnodigen-lid", "rol",
        "intrekken", "gegevens", "wissel"}

(* The types of the rows and of what requests remember between statements. *)
TypeOK ==
    /\ tijd \in Tijd
    /\ tenant \in [Tenants -> {"geen", "actief", "gesloten"}]
    /\ gebruiker \in [Gebruikers -> GebruikerRijen]
    /\ lid \in [Gebruikers -> [Tenants -> LidRijen]]
    /\ sessie \in [Sessies ->
         [gebruiker : Gebruikers \cup {Geen}, tenant : Tenants \cup {Geen},
          rol : Rollen \cup {Geen}, verloopt : Nat]]
    /\ voor \in [Uitnodigingen -> Gebruikers \cup {Geen}]
    /\ verzoek \in [Verzoeken ->
         [pc : Pcs, op : Ops \cup {Geen}, sessie : Sessies \cup {Geen},
          gebruiker : Gebruikers \cup {Geen}, tenant : Tenants \cup {Geen},
          rol : Rollen \cup {Geen}, identiteit : Identiteiten \cup {Geen},
          uitnodiging : Uitnodigingen \cup {Geen}, tweede : BOOLEAN,
          doel : Gebruikers \cup Tenants \cup {Geen}, wat : Adressen \cup {Geen},
          gezien : SUBSET Gebruikers, dicht : SUBSET Tenants]]

(* koppel_eerste_login: a row gets an identity only through an invitation  *)
(* that was issued for that very row (migration 0024, which replaced the   *)
(* match on the e-mail address of 0023), whatever is re-invited, renamed   *)
(* or logged in meanwhile.                                                 *)
AlleenGenodigdeGekoppeld ==
    [][\A u \in Gebruikers : gebruiker'[u].subject # gebruiker[u].subject =>
         \E v \in Verzoeken :
            /\ verzoek[v].uitnodiging # Geen /\ voor[verzoek[v].uitnodiging] = u
            /\ gebruiker'[u].subject = verzoek[v].identiteit]_vars

(* sessie_aanmaken and sessie_wisselen since migration 0033: no request    *)
(* opens a session in a tenant that was deactivated before it began, by    *)
(* logging in, by a first login or by a switch.                            *)
GeenSessieInGeslotenTenant ==
    [][\A v \in Verzoeken : sessie[v] = GeenSessie /\ sessie'[v] # GeenSessie =>
         sessie'[v].tenant \notin verzoek[v].dicht]_vars

(* weigerAlsLaatsteAdmin: a tenant loses its last administrator only when  *)
(* the request that removes it had seen otherwise, there being another one *)
(* or this member not being one yet, or when a platform administrator      *)
(* turns an own membership into support access.                            *)
LaatsteAdminAlleenBijOverlap ==
    [][\A t \in Tenants : Admins(t) # {} /\ Admins(t)' = {} =>
         \E v \in Verzoeken :
            \/ /\ verzoek[v].pc = "schrijven" /\ verzoek[v].tenant = t
               /\ verzoek[v].gezien # {verzoek[v].doel}
            \/ /\ verzoek[v].gebruiker \in Platformbeheerders
               /\ lid[verzoek[v].gebruiker][t].rol = "admin"
               /\ lid'[verzoek[v].gebruiker][t].rol = "support"]_vars

(* sessie_oplossen and sessie_beeindigen: a session that has expired or    *)
(* was ended never comes back, although every request prolongs the session *)
(* it comes with and any logout cleans up after others.                    *)
SessieEindigtVoorgoed ==
    [][\A s \in Sessies :
         /\ sessie[s] # GeenSessie /\ sessie[s].verloopt <= tijd =>
              sessie'[s] \in {sessie[s], GeenSessie}
         /\ sessie[s] = GeenSessie /\ sessie'[s] # GeenSessie =>
              s \in Verzoeken /\ verzoek[s].pc = "sessie-schrijven"]_vars
=============================================================================
