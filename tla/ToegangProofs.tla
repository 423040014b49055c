--------------------------- MODULE ToegangProofs ---------------------------
(***************************************************************************)
(* Proofs about Toegang, for any number of users, tenants, invitations and *)
(* requests, from any database its constraints allow.                      *)
(*                                                                         *)
(* Requests interfere only through rows that move one way: an invitation   *)
(* stays with the row it was issued for, a user that exists stays, a       *)
(* deactivated tenant stays so, and a session is opened by the one request *)
(* it is named after (Vooruit).  So what a request found in one statement  *)
(* still says something when a later statement writes (Verloop).           *)
(***************************************************************************)
EXTENDS Toegang, TLAPS

VerzoekRijen ==
    [pc : Pcs, op : Ops \cup {Geen}, sessie : Sessies \cup {Geen},
     gebruiker : Gebruikers \cup {Geen}, tenant : Tenants \cup {Geen},
     rol : Rollen \cup {Geen}, identiteit : Identiteiten \cup {Geen},
     uitnodiging : Uitnodigingen \cup {Geen}, tweede : BOOLEAN,
     doel : Gebruikers \cup Tenants \cup {Geen}, wat : Adressen \cup {Geen},
     gezien : SUBSET Gebruikers, dicht : SUBSET Tenants]
SessieRijen ==
    [gebruiker : Gebruikers \cup {Geen}, tenant : Tenants \cup {Geen},
     rol : Rollen \cup {Geen}, verloopt : Nat]

Uitkomsten == {"klaar", "geweigerd", "conflict", "niet-gevonden", "mislukt"}

Bestaat(u) == u \in Gebruikers /\ gebruiker[u].thuis # Geen

(* A request that logs in knows its identity; the row it is about to link  *)
(* is the row its invitation was issued for.                               *)
Inlogt(v) ==
    /\ verzoek[v].pc \in {"lid-zoeken", "koppelen", "koppel-schrijven"} => verzoek[v].op = "inlog"
    /\ \/ verzoek[v].pc \in {"lid-zoeken", "koppelen", "koppel-schrijven"}
       \/ verzoek[v].pc = "tenant-controle" /\ verzoek[v].op = "inlog"
       => verzoek[v].identiteit \in Identiteiten
    /\ verzoek[v].pc \in {"koppelen", "koppel-schrijven"} =>
         verzoek[v].uitnodiging \in Uitnodigingen
    /\ verzoek[v].pc = "koppel-schrijven" =>
         /\ verzoek[v].gebruiker \in Gebruikers
         /\ voor[verzoek[v].uitnodiging] = verzoek[v].gebruiker

(* What a request writes into clm.sessie is of a user that exists, in a    *)
(* tenant that was open when the request was there.                        *)
Opent(v) ==
    /\ verzoek[v].pc \in {"tenant-controle", "sessie-schrijven"} =>
         Bestaat(verzoek[v].gebruiker) /\ verzoek[v].doel \in Tenants
    /\ verzoek[v].dicht \subseteq Gesloten
    /\ verzoek[v].pc = "sessie-schrijven" => verzoek[v].doel \notin verzoek[v].dicht
    /\ verzoek[v].pc # "klaar" => sessie[v] = GeenSessie

(* A request that was let in has a user and a tenant, and what it is about *)
(* to write is about a user.                                               *)
Beheert(v) ==
    /\ verzoek[v].pc \in {"toegelaten", "schrijven", "wissel-sessie", "wissel-lid"} =>
         /\ Bestaat(verzoek[v].gebruiker)
         /\ verzoek[v].tenant \in Tenants /\ verzoek[v].sessie \in Sessies
    /\ verzoek[v].pc \in {"wissel-sessie", "wissel-lid"} =>
         verzoek[v].op = "wissel" /\ verzoek[v].doel \in Tenants
    /\ verzoek[v].pc = "schrijven" /\ verzoek[v].op # "uitnodigen-nieuw" =>
         verzoek[v].doel \in Gebruikers
    /\ verzoek[v].pc = "schrijven"
         /\ verzoek[v].op \in {"uitnodigen-herleven", "uitnodigen-lid"} => Bestaat(verzoek[v].doel)

(* Only the two operations that can take an administrator away looked who  *)
(* the administrators were; one that saw the member alone keeps it one.    *)
ZagAdmins(v) ==
    /\ verzoek[v].gezien # {} =>
         verzoek[v].pc = "schrijven" /\ verzoek[v].op \in {"rol", "intrekken"}
    /\ verzoek[v].pc = "schrijven" /\ verzoek[v].gezien = {verzoek[v].doel} =>
         verzoek[v].op = "rol" /\ verzoek[v].rol = "admin"

Verloop(v) == Inlogt(v) /\ Opent(v) /\ Beheert(v) /\ ZagAdmins(v)

SessieVanGebruiker ==
    \A s \in Sessies : sessie[s] # GeenSessie =>
        Bestaat(sessie[s].gebruiker) /\ sessie[s].tenant \in Tenants

UitnodigingVanRij ==
    \A u \in Gebruikers : gebruiker[u].uitnodiging # Geen =>
        voor[gebruiker[u].uitnodiging] = u

LidVanGebruiker ==
    \A u \in Gebruikers : \A t \in Tenants : lid[u][t].actief => Bestaat(u)

IInv ==
    /\ TypeOK
    /\ \A v \in Verzoeken : Verloop(v)
    /\ SessieVanGebruiker /\ UitnodigingVanRij /\ LidVanGebruiker

(* What a step of request v leaves of the others and of the rows.          *)
Vooruit(v) ==
    /\ \A w \in Verzoeken \ {v} : verzoek'[w] = verzoek[w]
    /\ \A k \in Uitnodigingen : voor[k] # Geen => voor'[k] = voor[k]
    /\ \A u \in Gebruikers : Bestaat(u) => Bestaat(u)'
    /\ Gesloten \subseteq Gesloten'
    /\ \A s \in Sessies \ {v} : sessie[s] = GeenSessie => sessie'[s] = GeenSessie

-----------------------------------------------------------------------------
LEMMA VerzoekType == TypeOK <=>
    /\ tijd \in Tijd
    /\ tenant \in [Tenants -> {"geen", "actief", "gesloten"}]
    /\ gebruiker \in [Gebruikers -> GebruikerRijen]
    /\ lid \in [Gebruikers -> [Tenants -> LidRijen]]
    /\ sessie \in [Sessies -> SessieRijen]
    /\ voor \in [Uitnodigingen -> Gebruikers \cup {Geen}]
    /\ verzoek \in [Verzoeken -> VerzoekRijen]
  BY DEF TypeOK, SessieRijen, VerzoekRijen

LEMMA TijdType ==
    TypeOK => tijd \in Nat /\ tijd + Venster \in Nat /\ tijd + UitnodigingGeldig \in Nat
  BY ToegangTijd DEF TypeOK, Tijd

LEMMA NieuwType == NieuwVerzoek \in VerzoekRijen
  BY DEF NieuwVerzoek, VerzoekRijen, Pcs

(* The steps of one request leave what the others rely on.                 *)
LEMMA Anderen ==
    ASSUME TypeOK, NEW v \in Verzoeken, Vooruit(v),
           NEW w \in Verzoeken \ {v}, Verloop(w)
    PROVE  Verloop(w)'
  <1>1. verzoek'[w] = verzoek[w]
    BY DEF Vooruit
  <1>2. Inlogt(w)'
    BY <1>1, VerzoekType, ToegangGeen DEF Verloop, Inlogt, Vooruit
  <1>3. Opent(w)'
    <2>1. w \in Sessies \ {v}
      BY DEF Sessies
    <2> QED BY <1>1, <2>1 DEF Verloop, Opent, Vooruit, Bestaat
  <1>4. Beheert(w)'
    BY <1>1 DEF Verloop, Beheert, Vooruit, Bestaat
  <1>5. ZagAdmins(w)'
    BY <1>1 DEF Verloop, ZagAdmins
  <1> QED BY <1>2, <1>3, <1>4, <1>5 DEF Verloop

(* A request that ends relies on nothing any more.                         *)
LEMMA Einde ==
    ASSUME TypeOK, NEW v \in Verzoeken, NEW uitkomst \in Uitkomsten, Klaar(v, uitkomst),
           uitkomst = "klaar" \/ sessie'[v] = GeenSessie
    PROVE  /\ verzoek' \in [Verzoeken -> VerzoekRijen]
           /\ \A w \in Verzoeken \ {v} : verzoek'[w] = verzoek[w]
           /\ Verloop(v)'
  <1>1. verzoek \in [Verzoeken -> VerzoekRijen]
    BY VerzoekType
  <1>2. [NieuwVerzoek EXCEPT !.pc = uitkomst] \in VerzoekRijen
    BY NieuwType DEF VerzoekRijen, Pcs, Uitkomsten
  <1>3. /\ verzoek'[v] = [NieuwVerzoek EXCEPT !.pc = uitkomst]
        /\ verzoek' \in [Verzoeken -> VerzoekRijen]
        /\ \A w \in Verzoeken \ {v} : verzoek'[w] = verzoek[w]
    BY <1>1, <1>2 DEF Klaar
  <1>4. verzoek'[v].pc = uitkomst /\ verzoek'[v].op = Geen /\ verzoek'[v].gezien = {}
        /\ verzoek'[v].dicht = {}
    BY <1>3 DEF NieuwVerzoek
  <1> QED BY <1>3, <1>4 DEF Verloop, Inlogt, Opent, Beheert, ZagAdmins, Uitkomsten

(* The parts of the invariant that speak of rows only.                     *)
RijenKloppen ==
    /\ tijd \in Tijd
    /\ tenant \in [Tenants -> {"geen", "actief", "gesloten"}]
    /\ gebruiker \in [Gebruikers -> GebruikerRijen]
    /\ lid \in [Gebruikers -> [Tenants -> LidRijen]]
    /\ sessie \in [Sessies -> SessieRijen]
    /\ voor \in [Uitnodigingen -> Gebruikers \cup {Geen}]
    /\ SessieVanGebruiker /\ UitnodigingVanRij /\ LidVanGebruiker

LEMMA Samen ==
    ASSUME IInv, NEW v \in Verzoeken, RijenKloppen', Vooruit(v),
           verzoek' \in [Verzoeken -> VerzoekRijen], Verloop(v)'
    PROVE  IInv'
  <1>1. TypeOK'
    BY DEF RijenKloppen, TypeOK, SessieRijen, VerzoekRijen
  <1>2. ASSUME NEW w \in Verzoeken PROVE Verloop(w)'
    BY Anderen DEF IInv
  <1> QED BY <1>1, <1>2 DEF IInv, RijenKloppen

LEMMA RijenNu == IInv => RijenKloppen
  BY VerzoekType DEF IInv, RijenKloppen

(* A statement that reads, or that comes to nothing.                       *)
LEMMA Lezen ==
    ASSUME IInv, NEW v \in Verzoeken, UNCHANGED <<tijd, rijen>>,
           verzoek' \in [Verzoeken -> VerzoekRijen],
           \A w \in Verzoeken \ {v} : verzoek'[w] = verzoek[w], Verloop(v)'
    PROVE  IInv'
  <1>1. RijenKloppen
    BY RijenNu
  <1>2. RijenKloppen'
    BY <1>1 DEF RijenKloppen, rijen, SessieVanGebruiker, UitnodigingVanRij, LidVanGebruiker,
                Bestaat
  <1>3. Vooruit(v)
    BY DEF Vooruit, rijen, Bestaat, Gesloten
  <1> QED BY <1>2, <1>3, Samen

LEMMA Afgewezen ==
    ASSUME IInv, NEW v \in Verzoeken, UNCHANGED <<tijd, rijen>>,
           NEW uitkomst \in Uitkomsten, Klaar(v, uitkomst), verzoek[v].pc # "klaar"
    PROVE  IInv'
  <1>1. sessie'[v] = GeenSessie
    BY DEF rijen, IInv, Verloop, Opent
  <1> QED BY <1>1, Lezen, Einde DEF IInv

-----------------------------------------------------------------------------
LEMMA BeginInv == Init => IInv
  <1> SUFFICES ASSUME Init PROVE IInv
    OBVIOUS
  <1>1. \A u \in Begin : /\ u \in Gebruikers /\ BeginGebruiker[u].thuis \in Tenants
                         /\ BeginLid[u][BeginGebruiker[u].thuis] \in LidRijen
    BY ToegangBegin DEF Begin, GebruikerRijen
  <1>2. sessie \in [Sessies -> SessieRijen]
    BY <1>1, ToegangTijd DEF Init, SessieRijen, GeenSessie, LidRijen
  <1>3. /\ voor \in [Uitnodigingen -> Gebruikers \cup {Geen}]
        /\ UitnodigingVanRij
    <2>1. \A u \in Gebruikers : BeginGebruiker[u].uitnodiging \in Uitnodigingen \cup {Geen}
      BY ToegangBegin DEF GebruikerRijen
    <2>2. ASSUME NEW k \in Uitnodigingen
          PROVE  /\ voor[k] \in Gebruikers \cup {Geen}
                 /\ \A u \in Gebruikers : BeginGebruiker[u].uitnodiging = k => voor[k] = u
      <3>1. CASE \E u \in Gebruikers : BeginGebruiker[u].uitnodiging = k
        <4> DEFINE houder == CHOOSE u \in Gebruikers : BeginGebruiker[u].uitnodiging = k
        <4>1. houder \in Gebruikers /\ BeginGebruiker[houder].uitnodiging = k
          BY <3>1
        <4>2. voor[k] = houder
          BY <3>1 DEF Init
        <4>3. k # Geen
          BY ToegangGeen
        <4> HIDE DEF houder
        <4> QED BY <4>1, <4>2, <4>3, ToegangBegin
      <3>2. CASE ~ \E u \in Gebruikers : BeginGebruiker[u].uitnodiging = k
        BY <3>2 DEF Init
      <3> QED BY <3>1, <3>2
    <2> QED BY <2>1, <2>2 DEF Init, UitnodigingVanRij
  <1>4. TypeOK
    <2>1. verzoek \in [Verzoeken -> VerzoekRijen]
      BY NieuwType DEF Init
    <2> QED BY <1>2, <1>3, <2>1, VerzoekType, ToegangBegin, ToegangTijd DEF Init, Tijd
  <1>5. SessieVanGebruiker
    BY <1>1, ToegangGeen DEF Init, SessieVanGebruiker, Bestaat
  <1>6. LidVanGebruiker
    BY ToegangBegin DEF Init, LidVanGebruiker, Bestaat
  <1>7. ASSUME NEW v \in Verzoeken PROVE Verloop(v)
    <2>1. v \notin Begin /\ v \in Sessies
      BY ToegangBegin DEF Begin, Sessies
    <2>2. sessie[v] = GeenSessie /\ verzoek[v] = NieuwVerzoek
      BY <2>1 DEF Init
    <2> QED BY <2>2 DEF NieuwVerzoek, Verloop, Inlogt, Opent, Beheert, ZagAdmins
  <1> QED BY <1>3, <1>4, <1>5, <1>6, <1>7 DEF IInv

-----------------------------------------------------------------------------
(* Logging in.                                                             *)
LEMMA InlogStap == ASSUME IInv, NEW v \in Verzoeken, Inloggen(v) PROVE IInv'
  <1> USE DEF IInv
  <1>0. /\ verzoek \in [Verzoeken -> VerzoekRijen] /\ verzoek[v] \in VerzoekRijen
        /\ Verloop(v) /\ RijenKloppen
    BY VerzoekType, RijenNu
  <1>s. sessie[v] = GeenSessie \/ verzoek[v].pc = "klaar"
    BY <1>0 DEF Verloop, Opent
  <1>1. ASSUME NEW i \in Identiteiten, NEW k \in Uitnodigingen \cup {Geen}, Callback(v, i, k)
        PROVE  IInv'
    <2> DEFINE r == [NieuwVerzoek EXCEPT !.pc = "lid-zoeken", !.op = "inlog", !.identiteit = i,
                        !.uitnodiging = k, !.dicht = Gesloten]
    <2>1. r \in VerzoekRijen
      BY NieuwType DEF VerzoekRijen, Pcs, Ops, Gesloten
    <2>2. /\ verzoek'[v] = r /\ verzoek' \in [Verzoeken -> VerzoekRijen]
          /\ \A w \in Verzoeken \ {v} : verzoek'[w] = verzoek[w]
      BY <1>0, <1>1, <2>1 DEF Callback
    <2>3. /\ r.pc = "lid-zoeken" /\ r.op = "inlog" /\ r.identiteit = i /\ r.dicht = Gesloten
          /\ r.gezien = {}
      BY DEF NieuwVerzoek
    <2>4. Gesloten' = Gesloten /\ sessie'[v] = GeenSessie
      BY <1>1, <1>s DEF Callback, Gesloten, rijen
    <2>5. Verloop(v)'
      BY <2>2, <2>3, <2>4 DEF Verloop, Inlogt, Opent, Beheert, ZagAdmins
    <2> QED BY <1>1, <2>2, <2>5, Lezen DEF Callback
  <1>g. ASSUME verzoek[v].pc = "lid-zoeken" \/ verzoek[v].pc = "tenant-controle",
               verzoek[v].op = "inlog", GeenRijGevonden(v), UNCHANGED <<tijd, rijen>>
        PROVE  IInv'
    <2>1. CASE Klaar(v, "geweigerd")
      BY <1>g, <2>1, Afgewezen DEF Uitkomsten
    <2>2. CASE verzoek[v].uitnodiging # Geen /\ Naar(v, "koppelen")
      <3>1. /\ verzoek'[v] = [verzoek[v] EXCEPT !.pc = "koppelen"]
            /\ verzoek' \in [Verzoeken -> VerzoekRijen]
            /\ \A w \in Verzoeken \ {v} : verzoek'[w] = verzoek[w]
        BY <1>0, <2>2 DEF Naar, VerzoekRijen, Pcs
      <3>2. verzoek[v].uitnodiging \in Uitnodigingen
        BY <1>0, <2>2 DEF VerzoekRijen
      <3>3. Verloop(v)'
        BY <1>0, <1>g, <1>s, <3>1, <3>2
           DEF Verloop, Inlogt, Opent, Beheert, ZagAdmins, VerzoekRijen, Gesloten, rijen
      <3> QED BY <1>g, <3>1, <3>3, Lezen
    <2> QED BY <1>g, <2>1, <2>2 DEF GeenRijGevonden
  <1>2. CASE ZoekLid(v)
    <2> DEFINE paren == LedenVan(verzoek[v].identiteit)
    <2>0. verzoek[v].pc = "lid-zoeken" /\ verzoek[v].op = "inlog" /\ UNCHANGED <<tijd, rijen>>
      BY <1>0, <1>2 DEF ZoekLid, Verloop, Inlogt
    <2>1. ASSUME NEW p \in Oudste(paren),
                 verzoek' = [verzoek EXCEPT ![v].pc = "tenant-controle", ![v].gebruiker = p[1],
                               ![v].doel = p[2], ![v].rol = lid[p[1]][p[2]].rol]
          PROVE  IInv'
      <3>1. p \in Gebruikers \X Tenants /\ lid[p[1]][p[2]].actief
        BY <2>1 DEF Oudste, LedenVan
      <3>2. /\ p[1] \in Gebruikers /\ p[2] \in Tenants /\ Bestaat(p[1])
            /\ lid[p[1]][p[2]].rol \in Rollen \cup {Geen}
        BY <1>0, <3>1 DEF LidVanGebruiker, RijenKloppen, LidRijen
      <3>3. /\ verzoek'[v] = [verzoek[v] EXCEPT !.pc = "tenant-controle", !.gebruiker = p[1],
                               !.doel = p[2], !.rol = lid[p[1]][p[2]].rol]
            /\ \A w \in Verzoeken \ {v} : verzoek'[w] = verzoek[w]
        BY <1>0, <2>1
      <3>4. verzoek' \in [Verzoeken -> VerzoekRijen]
        <4>1. [verzoek[v] EXCEPT !.pc = "tenant-controle", !.gebruiker = p[1], !.doel = p[2],
                                 !.rol = lid[p[1]][p[2]].rol] \in VerzoekRijen
          BY <1>0, <3>2 DEF VerzoekRijen, Pcs
        <4> QED BY <1>0, <2>1, <3>3, <4>1
      <3>5. Verloop(v)'
        BY <1>0, <1>s, <2>0, <3>2, <3>3
           DEF Verloop, Inlogt, Opent, Beheert, ZagAdmins, VerzoekRijen, Gesloten, rijen, Bestaat
      <3> QED BY <2>0, <3>3, <3>4, <3>5, Lezen
    <2> QED BY <1>2, <1>g, <2>0, <2>1 DEF ZoekLid
  <1>3. CASE ControleerTenant(v)
    <2>0. verzoek[v].pc = "tenant-controle" /\ UNCHANGED <<tijd, rijen>>
      BY <1>3 DEF ControleerTenant
    <2>1. CASE TenantOpen(verzoek[v].doel) /\ Naar(v, "sessie-schrijven")
      <3>1. /\ verzoek'[v] = [verzoek[v] EXCEPT !.pc = "sessie-schrijven"]
            /\ verzoek' \in [Verzoeken -> VerzoekRijen]
            /\ \A w \in Verzoeken \ {v} : verzoek'[w] = verzoek[w]
        BY <1>0, <2>1 DEF Naar, VerzoekRijen, Pcs
      <3>2. verzoek[v].doel \notin verzoek[v].dicht
        BY <1>0, <2>1 DEF Verloop, Opent, TenantOpen, Gesloten
      <3>3. Verloop(v)'
        BY <1>0, <1>s, <2>0, <3>1, <3>2
           DEF Verloop, Inlogt, Opent, Beheert, ZagAdmins, VerzoekRijen, Gesloten, rijen, Bestaat
      <3> QED BY <2>0, <3>1, <3>3, Lezen
    <2>2. CASE verzoek[v].op = "inlog" /\ GeenRijGevonden(v)
      BY <2>0, <2>2, <1>g
    <2>3. CASE Klaar(v, "niet-gevonden")
      BY <2>0, <2>3, Afgewezen DEF Uitkomsten
    <2> QED BY <1>3, <2>1, <2>2, <2>3 DEF ControleerTenant
  <1>4. CASE SchrijfSessie(v)
    <2> DEFINE rij == [gebruiker |-> verzoek[v].gebruiker, tenant |-> verzoek[v].doel,
                       rol |-> verzoek[v].rol, verloopt |-> tijd + Venster]
    <2>0. /\ Klaar(v, "klaar") /\ UNCHANGED <<tijd, tenant, gebruiker, lid, voor>>
          /\ sessie' = [sessie EXCEPT ![v] = rij]
      BY <1>4 DEF SchrijfSessie
    <2>1. Bestaat(verzoek[v].gebruiker) /\ verzoek[v].doel \in Tenants
      BY <1>0, <1>4 DEF SchrijfSessie, Verloop, Opent
    <2>2. rij \in SessieRijen
      BY <1>0, <2>1, ToegangTijd DEF SessieRijen, VerzoekRijen, RijenKloppen, Tijd, Bestaat
    <2>3. RijenKloppen'
      BY <1>0, <2>0, <2>1, <2>2 DEF RijenKloppen, SessieVanGebruiker, UitnodigingVanRij,
         LidVanGebruiker, Bestaat
    <2>4. Verloop(v)' /\ verzoek' \in [Verzoeken -> VerzoekRijen]
          /\ \A w \in Verzoeken \ {v} : verzoek'[w] = verzoek[w]
      BY <2>0, Einde DEF Uitkomsten
    <2>5. Vooruit(v)
      BY <1>0, <2>0, <2>4 DEF Vooruit, Bestaat, Gesloten, RijenKloppen
    <2> QED BY <2>3, <2>4, <2>5, Samen
  <1>5. CASE LeesKoppeling(v)
    <2>0. verzoek[v].pc = "koppelen" /\ UNCHANGED <<tijd, rijen>>
      BY <1>5 DEF LeesKoppeling
    <2>1. CASE Klaar(v, "geweigerd")
      BY <2>0, <2>1, Afgewezen DEF Uitkomsten
    <2>2. ASSUME NEW u \in Gebruikers, Koppelbaar(u, verzoek[v].uitnodiging, verzoek[v].identiteit),
                 verzoek' = [verzoek EXCEPT ![v].pc = "koppel-schrijven", ![v].gebruiker = u]
          PROVE  IInv'
      <3>1. /\ verzoek'[v] = [verzoek[v] EXCEPT !.pc = "koppel-schrijven", !.gebruiker = u]
            /\ verzoek' \in [Verzoeken -> VerzoekRijen]
            /\ \A w \in Verzoeken \ {v} : verzoek'[w] = verzoek[w]
        <4>1. [verzoek[v] EXCEPT !.pc = "koppel-schrijven", !.gebruiker = u] \in VerzoekRijen
          BY <1>0 DEF VerzoekRijen, Pcs
        <4> QED BY <1>0, <2>2, <4>1
      <3>2. verzoek[v].uitnodiging \in Uitnodigingen /\ voor[verzoek[v].uitnodiging] = u
        BY <1>0, <2>0, <2>2, ToegangGeen
           DEF Verloop, Inlogt, Koppelbaar, RijenKloppen, UitnodigingVanRij
      <3>3. Verloop(v)'
        BY <1>0, <1>s, <2>0, <3>1, <3>2
           DEF Verloop, Inlogt, Opent, Beheert, ZagAdmins, VerzoekRijen, Gesloten, rijen
      <3> QED BY <2>0, <3>1, <3>3, Lezen
    <2> QED BY <1>5, <2>1, <2>2 DEF LeesKoppeling
  <1>6. CASE SchrijfKoppeling(v)
    <2> DEFINE i == verzoek[v].identiteit
               u == verzoek[v].gebruiker
    <2>0. verzoek[v].pc = "koppel-schrijven"
      BY <1>6 DEF SchrijfKoppeling
    <2>1. CASE Klaar(v, "mislukt") /\ UNCHANGED <<tijd, rijen>>
      BY <2>0, <2>1, Afgewezen DEF Uitkomsten
    <2>2. CASE /\ gebruiker' = [gebruiker EXCEPT ![u].subject = i,
                                  ![u].uitnodiging = Geen, ![u].tot = 0]
               /\ verzoek' = [verzoek EXCEPT ![v].pc = "lid-zoeken", ![v].tweede = TRUE]
               /\ UNCHANGED <<tijd, tenant, lid, sessie, voor>>
      <3>1. /\ verzoek'[v] = [verzoek[v] EXCEPT !.pc = "lid-zoeken", !.tweede = TRUE]
            /\ verzoek' \in [Verzoeken -> VerzoekRijen]
            /\ \A w \in Verzoeken \ {v} : verzoek'[w] = verzoek[w]
        <4>1. [verzoek[v] EXCEPT !.pc = "lid-zoeken", !.tweede = TRUE] \in VerzoekRijen
          BY <1>0 DEF VerzoekRijen, Pcs
        <4> QED BY <1>0, <2>2, <4>1
      <3>2. u \in Gebruikers /\ i \in Identiteiten
        BY <1>0, <2>0 DEF Verloop, Inlogt
      <3>3. /\ gebruiker' \in [Gebruikers -> GebruikerRijen]
            /\ \A w \in Gebruikers : gebruiker'[w].thuis = gebruiker[w].thuis
            /\ \A w \in Gebruikers : gebruiker'[w].uitnodiging \in {gebruiker[w].uitnodiging, Geen}
        BY <1>0, <2>2, <3>2 DEF RijenKloppen, GebruikerRijen
      <3>4. RijenKloppen'
        BY <1>0, <2>2, <3>3 DEF RijenKloppen, SessieVanGebruiker, UitnodigingVanRij,
           LidVanGebruiker, Bestaat
      <3>5. Vooruit(v)
        BY <2>2, <3>1, <3>3 DEF Vooruit, Bestaat, Gesloten
      <3>6. Verloop(v)'
        BY <1>0, <1>s, <2>0, <2>2, <3>1
           DEF Verloop, Inlogt, Opent, Beheert, ZagAdmins, VerzoekRijen, Gesloten
      <3> QED BY <3>1, <3>4, <3>5, <3>6, Samen
    <2> QED BY <1>6, <2>1, <2>2 DEF SchrijfKoppeling
  <1> QED BY <1>1, <1>2, <1>3, <1>4, <1>5, <1>6 DEF Inloggen

-----------------------------------------------------------------------------
(* Requests with a session, and logging out.                               *)
LEMMA SessieStap ==
    ASSUME IInv, NEW v \in Verzoeken, NEW s \in Sessies, Oplossen(v, s) \/ Uitloggen(v, s)
    PROVE  IInv'
  <1> USE DEF IInv
  <1>0. /\ verzoek \in [Verzoeken -> VerzoekRijen] /\ RijenKloppen
        /\ v \in Sessies /\ verzoek[v].pc = "nieuw" /\ sessie[v] = GeenSessie
    BY VerzoekType, RijenNu DEF Verloop, Opent, Oplossen, Uitloggen, Sessies
  <1>1. CASE Oplossen(v, s) /\ TeVerlengen(s)
    <2> DEFINE r == [NieuwVerzoek EXCEPT !.pc = "toegelaten", !.sessie = s,
                        !.gebruiker = sessie[s].gebruiker, !.tenant = sessie[s].tenant,
                        !.rol = sessie[s].rol, !.dicht = Gesloten]
    <2>0. /\ verzoek' = [verzoek EXCEPT ![v] = r]
          /\ sessie' = [sessie EXCEPT ![s].verloopt = tijd + Venster]
          /\ UNCHANGED <<tijd, tenant, gebruiker, lid, voor>>
      BY <1>1 DEF Oplossen
    <2>1. sessie[s] # GeenSessie /\ Bestaat(sessie[s].gebruiker) /\ sessie[s].tenant \in Tenants
      BY <1>1 DEF TeVerlengen, Leeft, SessieVanGebruiker
    <2>2. r \in VerzoekRijen
      BY <1>0, <2>1, NieuwType DEF VerzoekRijen, Pcs, Gesloten, RijenKloppen, SessieRijen
    <2>3. /\ verzoek'[v] = r /\ verzoek' \in [Verzoeken -> VerzoekRijen]
          /\ \A w \in Verzoeken \ {v} : verzoek'[w] = verzoek[w]
      BY <1>0, <2>0, <2>2
    <2>4. /\ sessie' \in [Sessies -> SessieRijen]
          /\ \A x \in Sessies : /\ sessie'[x].gebruiker = sessie[x].gebruiker
                                /\ sessie'[x].tenant = sessie[x].tenant
          /\ \A x \in Sessies \ {s} : sessie'[x] = sessie[x]
      <3>1. tijd + Venster \in Nat
        BY TijdType
      <3>2. [sessie[s] EXCEPT !.verloopt = tijd + Venster] \in SessieRijen
        BY <1>0, <3>1 DEF RijenKloppen, SessieRijen
      <3> QED BY <1>0, <2>0, <3>2 DEF RijenKloppen, SessieRijen
    <2>5. RijenKloppen'
      BY <1>0, <2>0, <2>1, <2>4 DEF RijenKloppen, SessieVanGebruiker, UitnodigingVanRij,
         LidVanGebruiker, Bestaat
    <2>6. Vooruit(v) /\ Gesloten' = Gesloten
      BY <2>0, <2>1, <2>3, <2>4 DEF Vooruit, Bestaat, Gesloten
    <2>7. /\ r.pc = "toegelaten" /\ r.sessie = s /\ r.gebruiker = sessie[s].gebruiker
          /\ r.tenant = sessie[s].tenant /\ r.dicht = Gesloten /\ r.gezien = {}
      BY DEF NieuwVerzoek
    <2>8. sessie'[v] = GeenSessie
      BY <1>0, <2>1, <2>4
    <2>9. Bestaat(sessie[s].gebruiker)'
      BY <2>0, <2>1, <2>4 DEF Bestaat
    <2>10. Verloop(v)'
      BY <2>0, <2>1, <2>3, <2>4, <2>6, <2>7, <2>8, <2>9
         DEF Verloop, Inlogt, Opent, Beheert, ZagAdmins, Bestaat
    <2> QED BY <2>3, <2>5, <2>6, <2>10, Samen
  <1>2. CASE Oplossen(v, s) /\ ~TeVerlengen(s)
    <2>1. Klaar(v, "geweigerd") /\ UNCHANGED <<tijd, rijen>>
      BY <1>2 DEF Oplossen, rijen
    <2> QED BY <1>0, <2>1, Afgewezen DEF Uitkomsten
  <1>3. CASE Uitloggen(v, s)
    <2>0. /\ Klaar(v, "klaar") /\ UNCHANGED <<tijd, tenant, gebruiker, lid, voor>>
          /\ sessie' = Beeindigd(s)
      BY <1>3 DEF Uitloggen
    <2>1. GeenSessie \in SessieRijen
      BY DEF GeenSessie, SessieRijen
    <2>2. /\ sessie' \in [Sessies -> SessieRijen]
          /\ \A x \in Sessies : sessie'[x] \in {sessie[x], GeenSessie}
      BY <1>0, <2>0, <2>1 DEF Beeindigd, RijenKloppen
    <2>3. RijenKloppen'
      BY <1>0, <2>0, <2>2 DEF RijenKloppen, SessieVanGebruiker, UitnodigingVanRij,
         LidVanGebruiker, Bestaat
    <2>4. Verloop(v)' /\ verzoek' \in [Verzoeken -> VerzoekRijen]
          /\ \A w \in Verzoeken \ {v} : verzoek'[w] = verzoek[w]
      BY <2>0, Einde DEF Uitkomsten
    <2>5. Vooruit(v)
      BY <2>0, <2>2, <2>4 DEF Vooruit, Bestaat, Gesloten
    <2> QED BY <2>3, <2>4, <2>5, Samen
  <1> QED BY <1>1, <1>2, <1>3

(* A write after which the request is done: the rows it leaves are what    *)
(* counts.                                                                 *)
LEMMA Schrijven ==
    ASSUME IInv, NEW v \in Verzoeken, NEW uitkomst \in Uitkomsten, Klaar(v, uitkomst),
           verzoek[v].pc # "klaar", UNCHANGED sessie, RijenKloppen',
           \A k \in Uitnodigingen : voor[k] # Geen => voor'[k] = voor[k],
           \A u \in Gebruikers : Bestaat(u) => Bestaat(u)',
           Gesloten \subseteq Gesloten'
    PROVE  IInv'
  <1>1. sessie'[v] = GeenSessie
    BY DEF IInv, Verloop, Opent
  <1>2. Verloop(v)' /\ verzoek' \in [Verzoeken -> VerzoekRijen]
        /\ \A w \in Verzoeken \ {v} : verzoek'[w] = verzoek[w]
    BY <1>1, Einde DEF IInv
  <1>3. Vooruit(v)
    BY <1>2 DEF Vooruit
  <1> QED BY <1>2, <1>3, Samen

(* A new user row with a membership.                                       *)
LEMMA NieuweRij ==
    ASSUME IInv, NEW w \in Gebruikers, NEW t \in Tenants, NEW e \in Adressen \cup {Geen},
           NEW k \in Uitnodigingen, NEW rol \in Rollen \cup {Geen}, voor[k] = Geen,
           NieuweGebruiker(w, t, e, k), lid' = [lid EXCEPT ![w][t] = NieuwLid(rol)],
           UNCHANGED <<tijd, sessie>>, tenant' \in [Tenants -> {"geen", "actief", "gesloten"}]
    PROVE  /\ RijenKloppen'
           /\ \A x \in Uitnodigingen : voor[x] # Geen => voor'[x] = voor[x]
           /\ \A u \in Gebruikers : Bestaat(u) => Bestaat(u)'
           /\ gebruiker[w] = GeenGebruiker /\ lid \in [Gebruikers -> [Tenants -> LidRijen]]
  <1> DEFINE rij == [GeenGebruiker EXCEPT !.thuis = t, !.email = e, !.uitnodiging = k,
                                          !.tot = tijd + UitnodigingGeldig]
  <1>0. /\ RijenKloppen /\ gebruiker[w] = GeenGebruiker /\ voor' = [voor EXCEPT ![k] = w]
        /\ gebruiker' = [gebruiker EXCEPT ![w] = rij]
    BY RijenNu DEF NieuweGebruiker
  <1>t. tijd \in Nat /\ tijd + UitnodigingGeldig \in Nat
    BY TijdType DEF IInv
  <1>1. rij \in GebruikerRijen /\ rij.thuis = t /\ rij.uitnodiging = k
    BY <1>t DEF GebruikerRijen, GeenGebruiker
  <1>2. NieuwLid(rol) \in LidRijen
    BY <1>t DEF NieuwLid, GeenLid, LidRijen
  <1>3. Geen \notin Tenants /\ Geen \notin Uitnodigingen /\ Geen \notin Gebruikers
    BY ToegangGeen
  <1>4. \A u \in Gebruikers : Bestaat(u) => Bestaat(u)'
    BY <1>0, <1>1, <1>3 DEF Bestaat, RijenKloppen
  <1>5. /\ gebruiker' \in [Gebruikers -> GebruikerRijen]
        /\ voor' \in [Uitnodigingen -> Gebruikers \cup {Geen}]
        /\ lid' \in [Gebruikers -> [Tenants -> LidRijen]]
    BY <1>0, <1>1, <1>2 DEF RijenKloppen
  <1>6. UitnodigingVanRij'
    <2> SUFFICES ASSUME NEW u \in Gebruikers, gebruiker'[u].uitnodiging # Geen
                 PROVE  voor'[gebruiker'[u].uitnodiging] = u
      BY DEF UitnodigingVanRij
    <2>1. CASE u = w
      BY <1>0, <1>1, <2>1 DEF RijenKloppen
    <2>2. CASE u # w
      <3>1. gebruiker'[u] = gebruiker[u] /\ voor[gebruiker[u].uitnodiging] = u
            /\ gebruiker[u].uitnodiging \in Uitnodigingen
        BY <1>0, <2>2 DEF RijenKloppen, UitnodigingVanRij, GebruikerRijen
      <3> QED BY <1>0, <1>3, <3>1 DEF RijenKloppen
    <2> QED BY <2>1, <2>2
  <1>7. LidVanGebruiker'
    <2> SUFFICES ASSUME NEW u \in Gebruikers, NEW x \in Tenants, lid'[u][x].actief
                 PROVE  Bestaat(u)'
      BY DEF LidVanGebruiker
    <2>1. CASE u = w
      BY <1>0, <1>1, <1>3, <2>1 DEF RijenKloppen, Bestaat
    <2>2. CASE u # w
      BY <1>0, <1>4, <2>2 DEF RijenKloppen, LidVanGebruiker
    <2> QED BY <2>1, <2>2
  <1>8. SessieVanGebruiker'
    BY <1>0, <1>4 DEF RijenKloppen, SessieVanGebruiker, Bestaat
  <1> QED BY <1>0, <1>3, <1>4, <1>5, <1>6, <1>7, <1>8 DEF RijenKloppen

(* A write that changes one membership, of a user that exists if it is     *)
(* active afterwards.                                                      *)
LEMMA LidRij ==
    ASSUME IInv, NEW u \in Gebruikers, NEW t \in Tenants, NEW rij \in LidRijen,
           lid' = [lid EXCEPT ![u][t] = rij], rij.actief => Bestaat(u),
           UNCHANGED <<tijd, tenant, gebruiker, sessie, voor>>
    PROVE  RijenKloppen'
  <1>1. RijenKloppen
    BY RijenNu
  <1>2. lid' \in [Gebruikers -> [Tenants -> LidRijen]]
    BY <1>1 DEF RijenKloppen
  <1>3. LidVanGebruiker'
    <2> SUFFICES ASSUME NEW w \in Gebruikers, NEW x \in Tenants, lid'[w][x].actief
                 PROVE  Bestaat(w)'
      BY DEF LidVanGebruiker
    <2>1. lid'[w][x] = IF w = u /\ x = t THEN rij ELSE lid[w][x]
      BY <1>1 DEF RijenKloppen
    <2>2. Bestaat(w)
      BY <1>1, <2>1 DEF RijenKloppen, LidVanGebruiker
    <2> QED BY <2>2 DEF Bestaat
  <1> QED BY <1>1, <1>2, <1>3
       DEF RijenKloppen, SessieVanGebruiker, UitnodigingVanRij, Bestaat

-----------------------------------------------------------------------------
(* Managing members.  A request on its way to "schrijven" keeps who it is  *)
(* and remembers what to write.                                            *)
LEMMA NaarSchrijven ==
    ASSUME IInv, NEW v \in Verzoeken, verzoek[v].pc = "toegelaten", UNCHANGED <<tijd, rijen>>,
           NEW r \in VerzoekRijen, verzoek' = [verzoek EXCEPT ![v] = r],
           r.pc = "schrijven", r.dicht = verzoek[v].dicht, r.gebruiker = verzoek[v].gebruiker,
           r.tenant = verzoek[v].tenant, r.sessie = verzoek[v].sessie,
           r.op = "uitnodigen-nieuw" \/ r.doel \in Gebruikers,
           r.op \in {"uitnodigen-herleven", "uitnodigen-lid"} => Bestaat(r.doel),
           r.gezien # {} => r.op \in {"rol", "intrekken"},
           r.gezien = {r.doel} => r.op = "rol" /\ r.rol = "admin"
    PROVE  IInv'
  <1>0. verzoek \in [Verzoeken -> VerzoekRijen] /\ Verloop(v)
    BY VerzoekType DEF IInv
  <1>1. /\ verzoek'[v] = r /\ verzoek' \in [Verzoeken -> VerzoekRijen]
        /\ \A w \in Verzoeken \ {v} : verzoek'[w] = verzoek[w]
    BY <1>0
  <1>2. Verloop(v)'
    BY <1>0, <1>1 DEF Verloop, Inlogt, Opent, Beheert, ZagAdmins, Gesloten, rijen, Bestaat
  <1> QED BY <1>1, <1>2, Lezen

LEMMA LedenStap == ASSUME IInv, NEW v \in Verzoeken, Ledenbeheer(v) PROVE IInv'
  <1> USE DEF IInv
  <1>0. /\ verzoek \in [Verzoeken -> VerzoekRijen] /\ verzoek[v] \in VerzoekRijen
        /\ Verloop(v) /\ RijenKloppen
    BY VerzoekType, RijenNu
  <1>a. Geen \notin Tenants /\ Geen \notin Uitnodigingen /\ Geen \notin Gebruikers
        /\ Geen \notin TOEGESTANE_ROLLEN /\ "admin" \in TOEGESTANE_ROLLEN
    BY ToegangGeen, ToegangBegin
  <1>w. verzoek[v].pc = "toegelaten" =>
          verzoek[v].gezien = {} /\ verzoek[v].tenant \in Tenants
    BY <1>0 DEF Verloop, ZagAdmins, Beheert
  <1>1. ASSUME NEW e \in Adressen, NEW rol \in TOEGESTANE_ROLLEN, LeesUitnodigen(v, e, rol)
        PROVE  IInv'
    <2> DEFINE t == verzoek[v].tenant
    <2>0. verzoek[v].pc = "toegelaten" /\ UNCHANGED <<tijd, rijen>>
      BY <1>1 DEF LeesUitnodigen, MagLedenBeheren
    <2>1. CASE Klaar(v, "conflict")
      BY <2>0, <2>1, Afgewezen DEF Uitkomsten
    <2>2. ASSUME NEW op \in {"uitnodigen-nieuw", "uitnodigen-herleven", "uitnodigen-lid"},
                 NEW u \in Gebruikers \cup {Geen}, op # "uitnodigen-nieuw" => Bestaat(u),
                 verzoek' = [verzoek EXCEPT ![v].pc = "schrijven", ![v].op = op,
                               ![v].doel = u, ![v].rol = rol, ![v].wat = e]
          PROVE  IInv'
      <3> DEFINE r == [verzoek[v] EXCEPT !.pc = "schrijven", !.op = op, !.doel = u, !.rol = rol,
                                         !.wat = e]
      <3>1. r \in VerzoekRijen
        <4>1. /\ "schrijven" \in Pcs /\ op \in Ops \cup {Geen} /\ rol \in Rollen \cup {Geen}
              /\ u \in Gebruikers \cup Tenants \cup {Geen} /\ e \in Adressen \cup {Geen}
          BY DEF Pcs, Ops, Rollen
        <4> QED BY <1>0, <4>1 DEF VerzoekRijen
      <3>2. verzoek' = [verzoek EXCEPT ![v] = r]
        BY <1>0, <2>2
      <3>3. /\ r.pc = "schrijven" /\ r.dicht = verzoek[v].dicht /\ r.op = op /\ r.doel = u
            /\ r.gebruiker = verzoek[v].gebruiker /\ r.tenant = t
            /\ r.sessie = verzoek[v].sessie /\ r.gezien = verzoek[v].gezien
        BY <1>0 DEF VerzoekRijen
      <3>4. r.gezien = {} /\ r.gezien # {r.doel}
        BY <1>w, <2>0, <3>3
      <3> HIDE DEF r
      <3>5. r.op = "uitnodigen-nieuw" \/ r.doel \in Gebruikers
        BY <2>2, <3>3 DEF Bestaat
      <3> QED BY <2>0, <2>2, <3>1, <3>2, <3>3, <3>4, <3>5, NaarSchrijven
    <2>3. \A u \in MetAdres(t, e) : Bestaat(u) /\ u \in Gebruikers
      BY <1>a, <1>w, <2>0 DEF MetAdres, Bestaat
    <2> QED BY <1>1, <2>1, <2>2, <2>3 DEF LeesUitnodigen
  <1>2. ASSUME NEW k \in Uitnodigingen, SchrijfUitnodigen(v, k) PROVE IInv'
    <2> DEFINE t == verzoek[v].tenant
               u == verzoek[v].doel
               rol == verzoek[v].rol
    <2>0. /\ verzoek[v].pc = "schrijven" /\ voor[k] = Geen /\ UNCHANGED <<tijd, tenant, sessie>>
          /\ t \in Tenants /\ rol \in Rollen \cup {Geen} /\ verzoek[v].wat \in Adressen \cup {Geen}
      BY <1>0, <1>2 DEF SchrijfUitnodigen, Verloop, Beheert, VerzoekRijen
    <2>1. ASSUME NEW w \in Gebruikers, NieuweGebruiker(w, t, verzoek[v].wat, k),
                 lid' = [lid EXCEPT ![w][t] = NieuwLid(rol)], Klaar(v, "klaar")
          PROVE  IInv'
      <3>1. tenant' \in [Tenants -> {"geen", "actief", "gesloten"}] /\ Gesloten' = Gesloten
        BY <1>0, <2>0 DEF RijenKloppen, Gesloten
      <3> QED BY <2>0, <2>1, <3>1, NieuweRij, Schrijven DEF Uitkomsten
    <2>2. CASE /\ verzoek[v].op \in {"uitnodigen-herleven", "uitnodigen-lid"}
               /\ lid' = [lid EXCEPT ![u][t] =
                    IF verzoek[v].op = "uitnodigen-lid" THEN NieuwLid(rol)
                    ELSE [@ EXCEPT !.rol = rol, !.actief = TRUE]]
               /\ Uitgenodigd(u, k) /\ Klaar(v, "klaar")
      <3>1. Bestaat(u) /\ u \in Gebruikers
        BY <1>0, <2>0, <2>2 DEF Verloop, Beheert, Bestaat
      <3>2. /\ voor' = [voor EXCEPT ![k] = u]
            /\ gebruiker' = [gebruiker EXCEPT ![u].uitnodiging = k,
                                              ![u].tot = tijd + UitnodigingGeldig]
        BY <2>2 DEF Uitgenodigd
      <3>3. tijd \in Nat /\ tijd + UitnodigingGeldig \in Nat
        BY TijdType
      <3>4. [gebruiker[u] EXCEPT !.uitnodiging = k, !.tot = tijd + UitnodigingGeldig]
              \in GebruikerRijen
        BY <1>0, <3>1, <3>3 DEF RijenKloppen, GebruikerRijen
      <3>5. /\ gebruiker' \in [Gebruikers -> GebruikerRijen]
            /\ \A w \in Gebruikers : gebruiker'[w].thuis = gebruiker[w].thuis
            /\ \A w \in Gebruikers \ {u} : gebruiker'[w] = gebruiker[w]
            /\ gebruiker'[u].uitnodiging = k
        BY <1>0, <3>1, <3>2, <3>4 DEF RijenKloppen, GebruikerRijen
      <3>6. NieuwLid(rol) \in LidRijen /\ [lid[u][t] EXCEPT !.rol = rol, !.actief = TRUE] \in LidRijen
        <4>1. lid[u][t] \in LidRijen
          BY <1>0, <2>0, <3>1 DEF RijenKloppen
        <4> QED BY <2>0, <3>3, <4>1 DEF NieuwLid, GeenLid, LidRijen
      <3>7. /\ lid' \in [Gebruikers -> [Tenants -> LidRijen]]
            /\ \A w \in Gebruikers \ {u} : lid'[w] = lid[w]
        BY <1>0, <2>0, <2>2, <3>1, <3>6 DEF RijenKloppen
      <3>8. \A w : Bestaat(w) <=> Bestaat(w)'
        BY <3>5 DEF Bestaat
      <3>9. UitnodigingVanRij'
        <4> SUFFICES ASSUME NEW w \in Gebruikers, gebruiker'[w].uitnodiging # Geen
                     PROVE  voor'[gebruiker'[w].uitnodiging] = w
          BY DEF UitnodigingVanRij
        <4>1. CASE w = u
          BY <1>0, <3>2, <3>5, <4>1 DEF RijenKloppen
        <4>2. CASE w # u
          <5>1. gebruiker'[w] = gebruiker[w] /\ voor[gebruiker[w].uitnodiging] = w
                /\ gebruiker[w].uitnodiging \in Uitnodigingen
            BY <1>0, <3>5, <4>2 DEF RijenKloppen, UitnodigingVanRij, GebruikerRijen
          <5> QED BY <1>0, <1>a, <2>0, <3>2, <5>1 DEF RijenKloppen
        <4> QED BY <4>1, <4>2
      <3>10. LidVanGebruiker'
        BY <1>0, <3>1, <3>7, <3>8 DEF RijenKloppen, LidVanGebruiker
      <3>11. RijenKloppen'
        BY <1>0, <2>0, <3>1, <3>2, <3>5, <3>7, <3>8, <3>9, <3>10
           DEF RijenKloppen, SessieVanGebruiker
      <3>12. \A x \in Uitnodigingen : voor[x] # Geen => voor'[x] = voor[x]
        BY <1>0, <2>0, <3>2 DEF RijenKloppen
      <3>13. Gesloten' = Gesloten
        BY <2>0 DEF Gesloten
      <3> QED BY <2>0, <2>2, <3>8, <3>11, <3>12, <3>13, Schrijven DEF Uitkomsten
    <2>3. CASE Klaar(v, "mislukt") /\ UNCHANGED <<gebruiker, lid, voor>>
      BY <2>0, <2>3, Afgewezen DEF Uitkomsten, rijen
    <2> QED BY <1>2, <2>1, <2>2, <2>3 DEF SchrijfUitnodigen
  <1>3. ASSUME NEW op \in {"rol", "intrekken"}, NEW u \in Gebruikers,
               NEW rol \in TOEGESTANE_ROLLEN \cup {Geen}, op = "intrekken" => rol = Geen,
               LeesLid(v, op, u, rol)
        PROVE  IInv'
    <2> DEFINE t == verzoek[v].tenant
               r == [verzoek[v] EXCEPT !.pc = "schrijven", !.op = op, !.doel = u, !.rol = rol,
                                       !.gezien = Admins(t)]
    <2>0. verzoek[v].pc = "toegelaten" /\ UNCHANGED <<tijd, rijen>>
      BY <1>3 DEF LeesLid, MagLedenBeheren
    <2>1. CASE Klaar(v, "conflict")
      BY <2>0, <2>1, Afgewezen DEF Uitkomsten
    <2>2. CASE /\ ~(rol # "admin" /\ LaatsteAdmin(t, u))
               /\ verzoek' = [verzoek EXCEPT ![v].pc = "schrijven", ![v].op = op, ![v].doel = u,
                                ![v].rol = rol, ![v].gezien = Admins(t)]
      <3>0. Admins(t) \subseteq Gebruikers
        BY DEF Admins
      <3>1. r \in VerzoekRijen
        BY <1>0, <1>3, <3>0 DEF VerzoekRijen, Pcs, Ops, Rollen
      <3>2. verzoek' = [verzoek EXCEPT ![v] = r]
        BY <1>0, <2>2
      <3>3. /\ r.pc = "schrijven" /\ r.dicht = verzoek[v].dicht /\ r.op = op /\ r.doel = u
            /\ r.gebruiker = verzoek[v].gebruiker /\ r.tenant = t
            /\ r.sessie = verzoek[v].sessie /\ r.gezien = Admins(t) /\ r.rol = rol
        BY <1>0 DEF VerzoekRijen
      <3>4. Admins(t) = {u} => op = "rol" /\ rol = "admin"
        BY <1>3, <1>a, <2>2 DEF Admins, LaatsteAdmin
      <3> HIDE DEF r
      <3> QED BY <1>3, <2>0, <3>1, <3>2, <3>3, <3>4, NaarSchrijven
    <2> QED BY <1>3, <2>1, <2>2 DEF LeesLid
  <1>4. CASE SchrijfRol(v)
    <2> DEFINE t == verzoek[v].tenant
               u == verzoek[v].doel
               rij == [lid[u][t] EXCEPT !.rol = verzoek[v].rol]
    <2>0. /\ verzoek[v].pc = "schrijven" /\ UNCHANGED <<tijd, tenant, gebruiker, sessie, voor>>
          /\ t \in Tenants /\ u \in Gebruikers
      BY <1>0, <1>4 DEF SchrijfRol, Verloop, Beheert
    <2>1. CASE lid' = lid /\ (Klaar(v, "klaar") \/ Klaar(v, "mislukt"))
      BY <2>0, <2>1, Afgewezen DEF Uitkomsten, rijen
    <2>2. CASE /\ lid[u][t].actief /\ lid' = [lid EXCEPT ![u][t].rol = verzoek[v].rol]
               /\ Klaar(v, "klaar")
      <3>1. rij \in LidRijen /\ rij.actief = lid[u][t].actief
        <4>1. lid[u][t] \in LidRijen /\ verzoek[v].rol \in Rollen \cup {Geen}
          BY <1>0, <2>0 DEF RijenKloppen, VerzoekRijen
        <4> QED BY <4>1 DEF LidRijen
      <3>2. lid' = [lid EXCEPT ![u][t] = rij]
        BY <1>0, <2>0, <2>2 DEF RijenKloppen
      <3>3. Bestaat(u)
        BY <1>0, <2>0, <2>2 DEF RijenKloppen, LidVanGebruiker
      <3>4. RijenKloppen'
        BY <2>0, <3>1, <3>2, <3>3, LidRij
      <3> QED BY <2>0, <2>2, <3>4, Schrijven DEF Uitkomsten, Bestaat, Gesloten
    <2> QED BY <1>4, <2>1, <2>2 DEF SchrijfRol
  <1>5. CASE SchrijfIntrekken(v)
    <2> DEFINE t == verzoek[v].tenant
               u == verzoek[v].doel
               rij == [lid[u][t] EXCEPT !.actief = FALSE]
    <2>0. /\ verzoek[v].pc = "schrijven" /\ UNCHANGED <<tijd, tenant, gebruiker, sessie, voor>>
          /\ t \in Tenants /\ u \in Gebruikers /\ Klaar(v, "klaar")
          /\ lid' = [lid EXCEPT ![u][t].actief = FALSE]
      BY <1>0, <1>5 DEF SchrijfIntrekken, Verloop, Beheert
    <2>1. rij \in LidRijen /\ ~rij.actief
      <3>1. lid[u][t] \in LidRijen
        BY <1>0, <2>0 DEF RijenKloppen
      <3> QED BY <3>1 DEF LidRijen
    <2>2. lid' = [lid EXCEPT ![u][t] = rij]
      BY <1>0, <2>0 DEF RijenKloppen
    <2>3. RijenKloppen'
      BY <2>0, <2>1, <2>2, LidRij
    <2> QED BY <2>0, <2>3, Schrijven DEF Uitkomsten, Bestaat, Gesloten
  <1>6. ASSUME NEW u \in Gebruikers, NEW e \in Adressen, LeesGegevens(v, u, e) PROVE IInv'
    <2> DEFINE r == [verzoek[v] EXCEPT !.pc = "schrijven", !.op = "gegevens", !.doel = u, !.wat = e]
    <2>0. verzoek[v].pc = "toegelaten" /\ UNCHANGED <<tijd, rijen>>
      BY <1>6 DEF LeesGegevens, MagLedenBeheren
    <2>1. CASE Klaar(v, "conflict")
      BY <2>0, <2>1, Afgewezen DEF Uitkomsten
    <2>2. CASE verzoek' = [verzoek EXCEPT ![v].pc = "schrijven", ![v].op = "gegevens",
                             ![v].doel = u, ![v].wat = e]
      <3>1. r \in VerzoekRijen
        BY <1>0 DEF VerzoekRijen, Pcs, Ops
      <3>2. verzoek' = [verzoek EXCEPT ![v] = r]
        BY <1>0, <2>2
      <3>3. /\ r.pc = "schrijven" /\ r.dicht = verzoek[v].dicht /\ r.op = "gegevens" /\ r.doel = u
            /\ r.gebruiker = verzoek[v].gebruiker /\ r.tenant = verzoek[v].tenant
            /\ r.sessie = verzoek[v].sessie /\ r.gezien = {}
        BY <1>0, <1>w, <2>0 DEF VerzoekRijen
      <3> HIDE DEF r
      <3> QED BY <2>0, <3>1, <3>2, <3>3, NaarSchrijven
    <2> QED BY <1>6, <2>1, <2>2 DEF LeesGegevens
  <1>7. CASE SchrijfGegevens(v)
    <2> DEFINE u == verzoek[v].doel
    <2>0. /\ verzoek[v].pc = "schrijven" /\ UNCHANGED <<tijd, tenant, lid, sessie, voor>>
          /\ u \in Gebruikers /\ Klaar(v, "klaar") /\ verzoek[v].wat \in Adressen \cup {Geen}
          /\ \/ gebruiker' = gebruiker
             \/ gebruiker' = [gebruiker EXCEPT ![u].email = verzoek[v].wat]
      BY <1>0, <1>7 DEF SchrijfGegevens, Verloop, Beheert, VerzoekRijen
    <2>1. /\ gebruiker' \in [Gebruikers -> GebruikerRijen]
          /\ \A w \in Gebruikers : /\ gebruiker'[w].thuis = gebruiker[w].thuis
                                   /\ gebruiker'[w].uitnodiging = gebruiker[w].uitnodiging
      BY <1>0, <2>0 DEF RijenKloppen, GebruikerRijen
    <2>2. RijenKloppen'
      BY <1>0, <2>0, <2>1 DEF RijenKloppen, SessieVanGebruiker, UitnodigingVanRij,
         LidVanGebruiker, Bestaat
    <2> QED BY <2>0, <2>1, <2>2, Schrijven DEF Uitkomsten, Bestaat, Gesloten
  <1> QED BY <1>1, <1>2, <1>3, <1>4, <1>5, <1>6, <1>7 DEF Ledenbeheer

-----------------------------------------------------------------------------
(* Platform management.                                                    *)
LEMMA SupportStap ==
    ASSUME IInv, NEW v \in Verzoeken, NEW t \in Tenants, IsPlatformbeheerder(v),
           SupportRij(v, t), UNCHANGED <<tijd, tenant, gebruiker, sessie, voor>>
    PROVE  RijenKloppen'
  <1> DEFINE u == verzoek[v].gebruiker
             oud == lid[u][t]
             rij == [rol |-> "support", actief |-> TRUE, verloopt |-> tijd + Venster,
                     sinds |-> IF oud = GeenLid THEN tijd ELSE oud.sinds]
  <1>1. u \in Gebruikers /\ Bestaat(u)
    BY DEF IInv, Verloop, Beheert, IsPlatformbeheerder, Bestaat
  <1>2. oud \in LidRijen
    BY <1>1 DEF IInv, TypeOK
  <1>3. tijd \in Nat /\ tijd + Venster \in Nat
    BY TijdType DEF IInv
  <1>4. rij \in LidRijen
    BY <1>2, <1>3 DEF LidRijen, Rollen
  <1>5. lid' = [lid EXCEPT ![u][t] = rij]
    BY DEF SupportRij
  <1> QED BY <1>1, <1>4, <1>5, LidRij

(* A request that was let in and goes on to switch tenant.                 *)
LEMMA WisselStap ==
    ASSUME IInv, NEW v \in Verzoeken, verzoek[v].pc = "toegelaten", NEW t \in Tenants,
           UNCHANGED <<sessie, tenant, gebruiker>>,
           verzoek' = [verzoek EXCEPT ![v].pc = "wissel-sessie", ![v].op = "wissel", ![v].doel = t]
    PROVE  /\ verzoek' \in [Verzoeken -> VerzoekRijen]
           /\ \A w \in Verzoeken \ {v} : verzoek'[w] = verzoek[w]
           /\ Verloop(v)'
  <1> DEFINE r == [verzoek[v] EXCEPT !.pc = "wissel-sessie", !.op = "wissel", !.doel = t]
  <1>0. verzoek \in [Verzoeken -> VerzoekRijen] /\ verzoek[v] \in VerzoekRijen /\ Verloop(v)
    BY VerzoekType DEF IInv
  <1>1. r \in VerzoekRijen
    BY <1>0 DEF VerzoekRijen, Pcs, Ops
  <1>2. verzoek' = [verzoek EXCEPT ![v] = r]
    BY <1>0
  <1>3. verzoek'[v] = r
    BY <1>0, <1>2
  <1>4. /\ r.pc = "wissel-sessie" /\ r.op = "wissel" /\ r.doel = t /\ r.dicht = verzoek[v].dicht
        /\ r.gebruiker = verzoek[v].gebruiker /\ r.tenant = verzoek[v].tenant
        /\ r.sessie = verzoek[v].sessie /\ r.gezien = verzoek[v].gezien
    BY <1>0 DEF VerzoekRijen
  <1> HIDE DEF r
  <1>5. Verloop(v)'
    BY <1>0, <1>3, <1>4 DEF Verloop, Inlogt, Opent, Beheert, ZagAdmins, Gesloten, Bestaat
  <1> QED BY <1>0, <1>1, <1>2, <1>5

LEMMA PlatformStap == ASSUME IInv, NEW v \in Verzoeken, Platformbeheer(v) PROVE IInv'
  <1> USE DEF IInv
  <1>0. /\ verzoek \in [Verzoeken -> VerzoekRijen] /\ verzoek[v] \in VerzoekRijen
        /\ Verloop(v) /\ RijenKloppen
    BY VerzoekType, RijenNu
  <1>1. ASSUME NEW t \in Tenants, NEW e \in Adressen, NEW k \in Uitnodigingen,
               TenantAanmaken(v, t, e, k)
        PROVE  IInv'
    <2>0. /\ verzoek[v].pc = "toegelaten" /\ tenant[t] = "geen" /\ voor[k] = Geen
          /\ tenant' = [tenant EXCEPT ![t] = "actief"] /\ Klaar(v, "klaar")
          /\ UNCHANGED <<tijd, sessie>>
      BY <1>1 DEF TenantAanmaken, IsPlatformbeheerder
    <2>1. /\ tenant' \in [Tenants -> {"geen", "actief", "gesloten"}]
          /\ Gesloten \subseteq Gesloten'
      BY <1>0, <2>0 DEF RijenKloppen, Gesloten
    <2>2. PICK w \in Gebruikers : /\ NieuweGebruiker(w, t, e, k)
                                  /\ lid' = [lid EXCEPT ![w][t] = NieuwLid("admin")]
      BY <1>1 DEF TenantAanmaken
    <2>3. "admin" \in Rollen \cup {Geen}
      BY ToegangBegin DEF Rollen
    <2>4. /\ RijenKloppen'
          /\ \A x \in Uitnodigingen : voor[x] # Geen => voor'[x] = voor[x]
          /\ \A u \in Gebruikers : Bestaat(u) => Bestaat(u)'
      BY <2>0, <2>1, <2>2, <2>3, NieuweRij
    <2> QED BY <2>0, <2>1, <2>4, Schrijven DEF Uitkomsten
  <1>2. ASSUME NEW t \in Tenants, SupportToegang(v, t) PROVE IInv'
    <2>0. /\ IsPlatformbeheerder(v) /\ verzoek[v].pc = "toegelaten" /\ SupportRij(v, t)
          /\ Klaar(v, "klaar") /\ UNCHANGED <<tijd, tenant, gebruiker, sessie, voor>>
      BY <1>2 DEF SupportToegang, IsPlatformbeheerder
    <2>1. RijenKloppen'
      BY <2>0, SupportStap
    <2> QED BY <2>0, <2>1, Schrijven DEF Uitkomsten, Bestaat, Gesloten
  <1>3. ASSUME NEW t \in Tenants, Wissel(v, t) PROVE IInv'
    <2>0. /\ IsPlatformbeheerder(v) /\ verzoek[v].pc = "toegelaten" /\ SupportRij(v, t)
          /\ UNCHANGED <<tijd, tenant, gebruiker, sessie, voor>>
          /\ verzoek' = [verzoek EXCEPT ![v].pc = "wissel-sessie", ![v].op = "wissel", ![v].doel = t]
      BY <1>3 DEF Wissel, IsPlatformbeheerder
    <2>1. RijenKloppen'
      BY <2>0, SupportStap
    <2>2. /\ verzoek' \in [Verzoeken -> VerzoekRijen] /\ Verloop(v)'
          /\ \A w \in Verzoeken \ {v} : verzoek'[w] = verzoek[w]
      BY <2>0, WisselStap
    <2>3. Vooruit(v)
      BY <2>0, <2>2 DEF Vooruit, Bestaat, Gesloten
    <2> QED BY <2>1, <2>2, <2>3, Samen
  <1>4. CASE EigenTenant(v)
    <2> DEFINE u == verzoek[v].gebruiker
               vast == {<<u, t>> : t \in {x \in Tenants : lid[u][x].actief
                                                          /\ lid[u][x].rol # "support"}}
    <2>0. verzoek[v].pc = "toegelaten" /\ UNCHANGED <<tijd, rijen>>
      BY <1>4 DEF EigenTenant, IsPlatformbeheerder
    <2>1. CASE Klaar(v, "niet-gevonden")
      BY <2>0, <2>1, Afgewezen DEF Uitkomsten
    <2>2. ASSUME NEW p \in Oudste(vast),
                 verzoek' = [verzoek EXCEPT ![v].pc = "wissel-sessie", ![v].op = "wissel",
                                            ![v].doel = p[2]]
          PROVE  IInv'
      <3>1. p[2] \in Tenants
        BY <2>2 DEF Oudste
      <3>2. UNCHANGED <<sessie, tenant, gebruiker>>
        BY <2>0 DEF rijen
      <3> QED BY <2>0, <2>2, <3>1, <3>2, WisselStap, Lezen
    <2> QED BY <1>4, <2>1, <2>2 DEF EigenTenant
  <1>5. CASE LeesWisselSessie(v)
    <2>0. verzoek[v].pc = "wissel-sessie" /\ UNCHANGED <<tijd, rijen>>
      BY <1>5 DEF LeesWisselSessie
    <2>1. CASE Klaar(v, "niet-gevonden")
      BY <2>0, <2>1, Afgewezen DEF Uitkomsten
    <2>2. CASE Naar(v, "wissel-lid")
      <3>1. /\ verzoek'[v] = [verzoek[v] EXCEPT !.pc = "wissel-lid"]
            /\ verzoek' \in [Verzoeken -> VerzoekRijen]
            /\ \A w \in Verzoeken \ {v} : verzoek'[w] = verzoek[w]
        BY <1>0, <2>2 DEF Naar, VerzoekRijen, Pcs
      <3>2. Verloop(v)'
        BY <1>0, <2>0, <3>1
           DEF Verloop, Inlogt, Opent, Beheert, ZagAdmins, VerzoekRijen, Gesloten, rijen, Bestaat
      <3> QED BY <2>0, <3>1, <3>2, Lezen
    <2> QED BY <1>5, <2>1, <2>2 DEF LeesWisselSessie
  <1>6. CASE LeesWisselLid(v)
    <2> DEFINE rij == lid[verzoek[v].gebruiker][verzoek[v].doel]
               r == [verzoek[v] EXCEPT !.pc = "tenant-controle", !.rol = rij.rol]
    <2>0. verzoek[v].pc = "wissel-lid" /\ UNCHANGED <<tijd, rijen>>
      BY <1>6 DEF LeesWisselLid
    <2>1. CASE Klaar(v, "niet-gevonden")
      BY <2>0, <2>1, Afgewezen DEF Uitkomsten
    <2>2. CASE verzoek' = [verzoek EXCEPT ![v].pc = "tenant-controle", ![v].rol = rij.rol]
      <3>1. Bestaat(verzoek[v].gebruiker) /\ verzoek[v].doel \in Tenants
        BY <1>0, <2>0 DEF Verloop, Beheert
      <3>2. rij \in LidRijen
        BY <1>0, <3>1 DEF RijenKloppen, Bestaat
      <3>3. r \in VerzoekRijen
        <4>1. rij.rol \in Rollen \cup {Geen}
          BY <3>2 DEF LidRijen
        <4> QED BY <1>0, <4>1 DEF VerzoekRijen, Pcs
      <3>4. verzoek' = [verzoek EXCEPT ![v] = r]
        BY <1>0, <2>2
      <3>5. /\ verzoek'[v] = r /\ verzoek' \in [Verzoeken -> VerzoekRijen]
            /\ \A w \in Verzoeken \ {v} : verzoek'[w] = verzoek[w]
        BY <1>0, <3>3, <3>4
      <3>6. /\ r.pc = "tenant-controle" /\ r.doel = verzoek[v].doel /\ r.op = verzoek[v].op
            /\ r.gebruiker = verzoek[v].gebruiker /\ r.dicht = verzoek[v].dicht
            /\ r.gezien = verzoek[v].gezien
        BY <1>0 DEF VerzoekRijen
      <3> HIDE DEF r
      <3>7. verzoek[v].op # "inlog"
        BY <1>0, <2>0 DEF Verloop, Inlogt, Opent, Beheert
      <3>8. Verloop(v)'
        BY <1>0, <2>0, <3>1, <3>5, <3>6, <3>7
           DEF Verloop, Inlogt, Opent, Beheert, ZagAdmins, Gesloten, rijen, Bestaat
      <3> QED BY <2>0, <3>5, <3>8, Lezen
    <2> QED BY <1>6, <2>1, <2>2 DEF LeesWisselLid
  <1>7. ASSUME NEW t \in Tenants, Deactiveer(v, t) PROVE IInv'
    <2>0. verzoek[v].pc = "toegelaten" /\ UNCHANGED <<tijd, gebruiker, lid, sessie, voor>>
      BY <1>7 DEF Deactiveer, IsPlatformbeheerder
    <2>1. CASE Klaar(v, "klaar") /\ tenant' = [tenant EXCEPT ![t] = "gesloten"]
      <3>1. /\ tenant' \in [Tenants -> {"geen", "actief", "gesloten"}]
            /\ Gesloten \subseteq Gesloten'
        BY <1>0, <2>1 DEF RijenKloppen, Gesloten
      <3>2. RijenKloppen'
        BY <1>0, <2>0, <3>1 DEF RijenKloppen, SessieVanGebruiker, UitnodigingVanRij,
           LidVanGebruiker, Bestaat
      <3> QED BY <2>0, <2>1, <3>1, <3>2, Schrijven DEF Uitkomsten, Bestaat
    <2>2. CASE Klaar(v, "niet-gevonden") /\ UNCHANGED tenant
      BY <2>0, <2>2, Afgewezen DEF Uitkomsten, rijen
    <2> QED BY <1>7, <2>1, <2>2 DEF Deactiveer
  <1> QED BY <1>1, <1>2, <1>3, <1>4, <1>5, <1>6, <1>7 DEF Platformbeheer

-----------------------------------------------------------------------------
LEMMA StapInv == IInv /\ [Next]_vars => IInv'
  <1> SUFFICES ASSUME IInv, [Next]_vars PROVE IInv'
    OBVIOUS
  <1> USE DEF IInv
  <1>1. CASE UNCHANGED vars
    BY <1>1 DEF vars, TypeOK, Verloop, Inlogt, Opent, Beheert, ZagAdmins, Bestaat, Gesloten,
       SessieVanGebruiker, UitnodigingVanRij, LidVanGebruiker
  <1>2. CASE Tik
    <2>1. tijd' \in Tijd
      BY <1>2, ToegangTijd DEF Tik, TypeOK, Tijd
    <2> QED BY <1>2, <2>1 DEF Tik, rijen, TypeOK, Verloop, Inlogt, Opent, Beheert, ZagAdmins,
       Bestaat, Gesloten, SessieVanGebruiker, UitnodigingVanRij, LidVanGebruiker
  <1>3. ASSUME NEW v \in Verzoeken, Ander(v) PROVE IInv'
    BY <1>3, Afgewezen DEF Ander, Uitkomsten
  <1> QED BY <1>1, <1>2, <1>3, InlogStap, LedenStap, PlatformStap, SessieStap DEF Next

(* The inductive invariant of login, members and platform management.      *)
THEOREM ToegangInvariant == Spec => []IInv
  BY BeginInv, StapInv, PTL DEF Spec

(* The rows keep the types of their columns, and what requests remember    *)
(* between statements is what the next statement expects.                  *)
THEOREM ToegangTypes == Spec => []TypeOK
  <1>1. IInv => TypeOK
    BY DEF IInv
  <1> QED BY <1>1, ToegangInvariant, PTL

(* An identity is linked to a row only by a request with the invitation    *)
(* that was issued for that row, whatever happens between its statements.  *)
THEOREM GenodigdeGekoppeld == Spec => AlleenGenodigdeGekoppeld
  <1>1. IInv /\ [Next]_vars =>
          [\A u \in Gebruikers : gebruiker'[u].subject # gebruiker[u].subject =>
             \E v \in Verzoeken :
                /\ verzoek[v].uitnodiging # Geen /\ voor[verzoek[v].uitnodiging] = u
                /\ gebruiker'[u].subject = verzoek[v].identiteit]_vars
    <2> SUFFICES ASSUME IInv, Next, NEW u \in Gebruikers,
                        gebruiker'[u].subject # gebruiker[u].subject
                 PROVE  \E v \in Verzoeken :
                           /\ verzoek[v].uitnodiging # Geen /\ voor[verzoek[v].uitnodiging] = u
                           /\ gebruiker'[u].subject = verzoek[v].identiteit
      OBVIOUS
    <2>0. gebruiker \in [Gebruikers -> GebruikerRijen]
      BY DEF IInv, TypeOK
    <2>1. PICK v \in Verzoeken : Inloggen(v) \/ Ledenbeheer(v) \/ Platformbeheer(v)
      BY DEF Next, Tik, Ander, Oplossen, Uitloggen, rijen
    <2>2. ASSUME NEW w, NEW t, NEW e, NEW k, NieuweGebruiker(w, t, e, k) PROVE FALSE
      BY <2>0, <2>2 DEF NieuweGebruiker, GeenGebruiker
    <2>3. ASSUME NEW k, Uitgenodigd(verzoek[v].doel, k) PROVE FALSE
      BY <2>0, <2>3 DEF Uitgenodigd, GebruikerRijen
    <2>4. ASSUME SchrijfGegevens(v) PROVE FALSE
      BY <2>0, <2>4 DEF SchrijfGegevens, GebruikerRijen
    <2>5. SchrijfKoppeling(v)
      BY <2>1, <2>2, <2>3, <2>4
         DEF Inloggen, Callback, ZoekLid, ControleerTenant, SchrijfSessie, LeesKoppeling,
             Ledenbeheer, LeesUitnodigen, SchrijfUitnodigen, LeesLid, SchrijfRol,
             SchrijfIntrekken, LeesGegevens, Platformbeheer, TenantAanmaken, SupportToegang,
             Wissel, Deactiveer, EigenTenant, LeesWisselSessie, LeesWisselLid, rijen
    <2>6. /\ verzoek[v].uitnodiging \in Uitnodigingen
          /\ verzoek[v].gebruiker \in Gebruikers
          /\ voor[verzoek[v].uitnodiging] = verzoek[v].gebruiker
      BY <2>5 DEF SchrijfKoppeling, IInv, Verloop, Inlogt
    <2>7. gebruiker' = [gebruiker EXCEPT ![verzoek[v].gebruiker].subject = verzoek[v].identiteit,
              ![verzoek[v].gebruiker].uitnodiging = Geen, ![verzoek[v].gebruiker].tot = 0]
      BY <2>5 DEF SchrijfKoppeling, rijen
    <2>8. u = verzoek[v].gebruiker /\ gebruiker'[u].subject = verzoek[v].identiteit
      BY <2>0, <2>6, <2>7 DEF GebruikerRijen
    <2> QED BY <2>6, <2>8, ToegangGeen
  <1> QED BY <1>1, ToegangInvariant, PTL DEF Spec, AlleenGenodigdeGekoppeld

(* Who opens a session: the request it is named after, at its INSERT.      *)
LEMMA SessieGeopend ==
    ASSUME IInv, Next, NEW s \in Sessies, sessie[s] = GeenSessie, sessie'[s] # GeenSessie
    PROVE  s \in Verzoeken /\ SchrijfSessie(s)
  <1>0. sessie \in [Sessies -> SessieRijen] /\ Verzoeken \subseteq Sessies
    BY VerzoekType DEF IInv, Sessies
  <1>1. PICK v \in Verzoeken : \/ Inloggen(v) \/ Ledenbeheer(v) \/ Platformbeheer(v)
                               \/ \E x \in Sessies : Oplossen(v, x) \/ Uitloggen(v, x)
    BY DEF Next, Tik, Ander, rijen
  <1>2. ASSUME NEW x \in Sessies, Uitloggen(v, x) PROVE FALSE
    BY <1>0, <1>2 DEF Uitloggen, Beeindigd
  <1>3. ASSUME NEW x \in Sessies, Oplossen(v, x) PROVE FALSE
    <2>1. /\ sessie[x] # GeenSessie
          /\ sessie' = [sessie EXCEPT ![x].verloopt = tijd + Venster]
      BY <1>3 DEF Oplossen, TeVerlengen, Leeft
    <2> QED BY <1>0, <2>1
  <1>4. SchrijfSessie(v)
    BY <1>1, <1>2, <1>3
       DEF Inloggen, Callback, ZoekLid, ControleerTenant, SchrijfKoppeling, LeesKoppeling,
           Ledenbeheer, LeesUitnodigen, SchrijfUitnodigen, LeesLid, SchrijfRol,
           SchrijfIntrekken, LeesGegevens, SchrijfGegevens, Platformbeheer, TenantAanmaken,
           SupportToegang, Wissel, Deactiveer, EigenTenant, LeesWisselSessie, LeesWisselLid, rijen
  <1>5. v = s
    BY <1>0, <1>4 DEF SchrijfSessie
  <1> QED BY <1>4, <1>5

(* No request opens a session in a tenant that was closed before it began: *)
(* a closed tenant stays closed, and the INSERT comes after the check.     *)
THEOREM GeslotenBlijftDicht == Spec => GeenSessieInGeslotenTenant
  <1>1. IInv /\ [Next]_vars =>
          [\A v \in Verzoeken : sessie[v] = GeenSessie /\ sessie'[v] # GeenSessie =>
             sessie'[v].tenant \notin verzoek[v].dicht]_vars
    <2> SUFFICES ASSUME IInv, Next, NEW v \in Verzoeken, sessie[v] = GeenSessie,
                        sessie'[v] # GeenSessie
                 PROVE  sessie'[v].tenant \notin verzoek[v].dicht
      OBVIOUS
    <2>1. v \in Sessies
      BY DEF Sessies
    <2>2. SchrijfSessie(v)
      BY <2>1, SessieGeopend
    <2>3. sessie'[v].tenant = verzoek[v].doel
      BY <2>1, <2>2 DEF SchrijfSessie, IInv, TypeOK
    <2> QED BY <2>2, <2>3 DEF SchrijfSessie, IInv, Verloop, Opent
  <1> QED BY <1>1, ToegangInvariant, PTL DEF Spec, GeenSessieInGeslotenTenant

(* A session that has expired or was ended never comes back.               *)
THEOREM SessieKomtNietTerug == Spec => SessieEindigtVoorgoed
  <1>1. IInv /\ [Next]_vars =>
          [\A s \in Sessies :
             /\ sessie[s] # GeenSessie /\ sessie[s].verloopt <= tijd =>
                  sessie'[s] \in {sessie[s], GeenSessie}
             /\ sessie[s] = GeenSessie /\ sessie'[s] # GeenSessie =>
                  s \in Verzoeken /\ verzoek[s].pc = "sessie-schrijven"]_vars
    <2> SUFFICES ASSUME IInv, Next, NEW s \in Sessies
                 PROVE  /\ sessie[s] # GeenSessie /\ sessie[s].verloopt <= tijd =>
                             sessie'[s] \in {sessie[s], GeenSessie}
                        /\ sessie[s] = GeenSessie /\ sessie'[s] # GeenSessie =>
                             s \in Verzoeken /\ verzoek[s].pc = "sessie-schrijven"
      OBVIOUS
    <2>1. ASSUME sessie[s] = GeenSessie, sessie'[s] # GeenSessie
          PROVE  s \in Verzoeken /\ verzoek[s].pc = "sessie-schrijven"
      BY <2>1, SessieGeopend DEF SchrijfSessie
    <2>2. ASSUME sessie[s] # GeenSessie, sessie[s].verloopt <= tijd,
                 sessie'[s] \notin {sessie[s], GeenSessie}
          PROVE  FALSE
      <3>0. /\ sessie \in [Sessies -> SessieRijen] /\ Verzoeken \subseteq Sessies
            /\ sessie[s].verloopt \in Nat /\ tijd \in Nat
        BY VerzoekType, TijdType DEF IInv, Sessies, SessieRijen
      <3>1. PICK v \in Verzoeken : \/ Inloggen(v) \/ Ledenbeheer(v) \/ Platformbeheer(v)
                                   \/ \E x \in Sessies : Oplossen(v, x) \/ Uitloggen(v, x)
        BY <2>2 DEF Next, Tik, Ander, rijen
      <3>2. ASSUME NEW x \in Sessies, Uitloggen(v, x) PROVE FALSE
        BY <2>2, <3>0, <3>2 DEF Uitloggen, Beeindigd
      <3>3. ASSUME NEW x \in Sessies, Oplossen(v, x) PROVE FALSE
        <4>1. /\ TeVerlengen(x) => sessie' = [sessie EXCEPT ![x].verloopt = tijd + Venster]
              /\ ~TeVerlengen(x) => sessie' = sessie
          BY <3>3 DEF Oplossen
        <4>2. x = s /\ TeVerlengen(x)
          BY <2>2, <3>0, <4>1
        <4> QED BY <2>2, <3>0, <4>2 DEF TeVerlengen, Leeft
      <3>4. SchrijfSessie(v)
        BY <2>2, <3>1, <3>2, <3>3
           DEF Inloggen, Callback, ZoekLid, ControleerTenant, SchrijfKoppeling, LeesKoppeling,
               Ledenbeheer, LeesUitnodigen, SchrijfUitnodigen, LeesLid, SchrijfRol,
               SchrijfIntrekken, LeesGegevens, SchrijfGegevens, Platformbeheer, TenantAanmaken,
               SupportToegang, Wissel, Deactiveer, EigenTenant, LeesWisselSessie, LeesWisselLid,
               rijen
      <3>5. v = s
        BY <2>2, <3>0, <3>4 DEF SchrijfSessie
      <3> QED BY <2>2, <3>4, <3>5 DEF SchrijfSessie, IInv, Verloop, Opent
    <2> QED BY <2>1, <2>2
  <1> QED BY <1>1, ToegangInvariant, PTL DEF Spec, SessieEindigtVoorgoed

(* A tenant loses its last administrator only to a request that had seen   *)
(* another one, or this one as no administrator, or to support access.     *)
THEOREM LaatsteAdminBewaakt == Spec => LaatsteAdminAlleenBijOverlap
  <1>1. IInv /\ [Next]_vars =>
          [\A t \in Tenants : Admins(t) # {} /\ Admins(t)' = {} =>
             \E v \in Verzoeken :
                \/ /\ verzoek[v].pc = "schrijven" /\ verzoek[v].tenant = t
                   /\ verzoek[v].gezien # {verzoek[v].doel}
                \/ /\ verzoek[v].gebruiker \in Platformbeheerders
                   /\ lid[verzoek[v].gebruiker][t].rol = "admin"
                   /\ lid'[verzoek[v].gebruiker][t].rol = "support"]_vars
    <2> SUFFICES ASSUME IInv, Next, NEW t \in Tenants, Admins(t) # {}, Admins(t)' = {}
                 PROVE  \E v \in Verzoeken :
                           \/ /\ verzoek[v].pc = "schrijven" /\ verzoek[v].tenant = t
                              /\ verzoek[v].gezien # {verzoek[v].doel}
                           \/ /\ verzoek[v].gebruiker \in Platformbeheerders
                              /\ lid[verzoek[v].gebruiker][t].rol = "admin"
                              /\ lid'[verzoek[v].gebruiker][t].rol = "support"
      OBVIOUS
    <2>0. lid \in [Gebruikers -> [Tenants -> LidRijen]]
      BY DEF IInv, TypeOK
    <2>1. PICK a \in Gebruikers : lid[a][t].actief /\ lid[a][t].rol = "admin"
      BY DEF Admins
    <2>2. ~(lid'[a][t].actief /\ lid'[a][t].rol = "admin")
      BY DEF Admins
    <2>3. PICK v \in Verzoeken : Ledenbeheer(v) \/ Platformbeheer(v)
      BY <2>1, <2>2
         DEF Next, Tik, Ander, Oplossen, Uitloggen, Inloggen, Callback, ZoekLid,
             ControleerTenant, SchrijfSessie, SchrijfKoppeling, LeesKoppeling, rijen
    <2>4. ASSUME NEW w \in Gebruikers, NEW x \in Tenants, NEW e, NEW k, NEW rij,
                 NieuweGebruiker(w, x, e, k), lid' = [lid EXCEPT ![w][x] = rij]
          PROVE  FALSE
      <3>1. w = a
        BY <2>0, <2>1, <2>2, <2>4
      <3>2. gebruiker[a].thuis # Geen
        BY <2>1 DEF IInv, LidVanGebruiker, Bestaat
      <3> QED BY <2>4, <3>1, <3>2 DEF NieuweGebruiker, GeenGebruiker
    <2>5. ASSUME NEW x \in Tenants, IsPlatformbeheerder(v), SupportRij(v, x)
          PROVE  /\ verzoek[v].gebruiker \in Platformbeheerders
                 /\ lid[verzoek[v].gebruiker][t].rol = "admin"
                 /\ lid'[verzoek[v].gebruiker][t].rol = "support"
      <3>1. verzoek[v].gebruiker \in Gebruikers
        BY <2>5 DEF IInv, Verloop, Beheert, IsPlatformbeheerder, Bestaat
      <3>2. PICK rij : rij.rol = "support"
                       /\ lid' = [lid EXCEPT ![verzoek[v].gebruiker][x] = rij]
        <4> DEFINE rij == [rol |-> "support", actief |-> TRUE, verloopt |-> tijd + Venster,
                 sinds |-> IF lid[verzoek[v].gebruiker][x] = GeenLid THEN tijd
                           ELSE lid[verzoek[v].gebruiker][x].sinds]
        <4>1. rij.rol = "support" /\ lid' = [lid EXCEPT ![verzoek[v].gebruiker][x] = rij]
          BY <2>5 DEF SupportRij
        <4> QED BY <4>1
      <3>3. verzoek[v].gebruiker = a /\ x = t
        BY <2>0, <2>1, <2>2, <3>1, <3>2
      <3> QED BY <2>0, <2>1, <2>5, <3>1, <3>2, <3>3 DEF IsPlatformbeheerder
    <2>6. CASE Platformbeheer(v)
      <3>1. ASSUME NEW x \in Tenants, NEW e, NEW k, TenantAanmaken(v, x, e, k) PROVE FALSE
        BY <2>4, <3>1 DEF TenantAanmaken
      <3>2. ASSUME NEW x \in Tenants, SupportToegang(v, x) \/ Wissel(v, x)
            PROVE  IsPlatformbeheerder(v) /\ SupportRij(v, x)
        BY <3>2 DEF SupportToegang, Wissel
      <3> QED BY <2>1, <2>2, <2>5, <2>6, <3>1, <3>2
           DEF Platformbeheer, Deactiveer, EigenTenant, LeesWisselSessie, LeesWisselLid, rijen
    <2>7. CASE Ledenbeheer(v)
      <3> DEFINE u == verzoek[v].doel
                 x == verzoek[v].tenant
      <3>1. /\ verzoek[v].pc = "schrijven" /\ x \in Tenants
            /\ \/ /\ verzoek[v].op \in {"uitnodigen-herleven", "uitnodigen-lid"}
                  /\ \E rij : lid' = [lid EXCEPT ![u][x] = rij]
               \/ SchrijfRol(v) \/ SchrijfIntrekken(v)
        <4>1. ASSUME NEW k \in Uitnodigingen, SchrijfUitnodigen(v, k)
              PROVE  /\ verzoek[v].op \in {"uitnodigen-herleven", "uitnodigen-lid"}
                     /\ \E rij : lid' = [lid EXCEPT ![u][x] = rij]
                     /\ verzoek[v].pc = "schrijven"
          <5>0. verzoek[v].pc = "schrijven" /\ x \in Tenants
            BY <4>1 DEF SchrijfUitnodigen, IInv, Verloop, Beheert
          <5>1. CASE verzoek[v].op = "uitnodigen-nieuw"
            <6>1. PICK w \in Gebruikers : /\ NieuweGebruiker(w, x, verzoek[v].wat, k)
                                          /\ lid' = [lid EXCEPT ![w][x] = NieuwLid(verzoek[v].rol)]
              BY <4>1, <5>1 DEF SchrijfUitnodigen
            <6> QED BY <2>4, <5>0, <6>1
          <5>2. CASE verzoek[v].op # "uitnodigen-nieuw"
            <6>1. lid' # lid
              BY <2>1, <2>2
            <6>2. lid' = [lid EXCEPT ![u][x] =
                    IF verzoek[v].op = "uitnodigen-lid" THEN NieuwLid(verzoek[v].rol)
                    ELSE [@ EXCEPT !.rol = verzoek[v].rol, !.actief = TRUE]]
              BY <4>1, <5>2, <6>1 DEF SchrijfUitnodigen
            <6>3. lid' = [lid EXCEPT ![u][x] =
                    IF verzoek[v].op = "uitnodigen-lid" THEN NieuwLid(verzoek[v].rol)
                    ELSE [lid[u][x] EXCEPT !.rol = verzoek[v].rol, !.actief = TRUE]]
              BY <6>2
            <6> QED BY <4>1, <5>0, <5>2, <6>3 DEF SchrijfUitnodigen
          <5> QED BY <5>1, <5>2
        <4>2. SchrijfRol(v) \/ SchrijfIntrekken(v) => verzoek[v].pc = "schrijven"
          BY DEF SchrijfRol, SchrijfIntrekken
        <4>3. \/ \E k \in Uitnodigingen : SchrijfUitnodigen(v, k)
              \/ SchrijfRol(v) \/ SchrijfIntrekken(v)
          BY <2>1, <2>2, <2>7 DEF Ledenbeheer, LeesUitnodigen, LeesLid, LeesGegevens,
             SchrijfGegevens, rijen
        <4>4. verzoek[v].pc = "schrijven" => x \in Tenants
          BY DEF IInv, Verloop, Beheert
        <4> QED BY <4>1, <4>2, <4>3, <4>4
      <3>2. /\ u \in Gebruikers /\ verzoek[v].pc = "schrijven"
            /\ verzoek[v].gezien = {u} => verzoek[v].op = "rol" /\ verzoek[v].rol = "admin"
        BY <3>1 DEF IInv, Verloop, Beheert, ZagAdmins, SchrijfRol, SchrijfIntrekken
      <3>3. x = t /\ u = a
        <4>1. lid' # lid
          BY <2>1, <2>2
        <4>2. CASE SchrijfRol(v)
          <5>1. lid' = [lid EXCEPT ![u][x].rol = verzoek[v].rol]
            BY <4>1, <4>2 DEF SchrijfRol
          <5> QED BY <2>0, <2>1, <2>2, <3>1, <3>2, <5>1
        <4>3. CASE SchrijfIntrekken(v)
          <5>1. lid' = [lid EXCEPT ![u][x].actief = FALSE]
            BY <4>3 DEF SchrijfIntrekken
          <5> QED BY <2>0, <2>1, <2>2, <3>1, <3>2, <5>1
        <4>4. ASSUME NEW rij, lid' = [lid EXCEPT ![u][x] = rij] PROVE x = t /\ u = a
          BY <2>0, <2>1, <2>2, <3>1, <3>2, <4>4
        <4> QED BY <3>1, <4>2, <4>3, <4>4
      <3>4. verzoek[v].gezien # {u}
        <4> SUFFICES ASSUME verzoek[v].gezien = {u} PROVE FALSE
          OBVIOUS
        <4>1. SchrijfRol(v) /\ verzoek[v].rol = "admin"
          BY <3>1, <3>2 DEF SchrijfIntrekken
        <4>2. lid' # lid
          BY <2>1, <2>2
        <4>3. lid' = [lid EXCEPT ![u][t].rol = "admin"]
          BY <3>3, <4>1, <4>2 DEF SchrijfRol
        <4>4. lid[a][t] \in LidRijen
          BY <2>0
        <4>5. lid'[a][t] = [lid[a][t] EXCEPT !.rol = "admin"]
          BY <2>0, <3>3, <4>3
        <4> QED BY <2>1, <2>2, <4>4, <4>5 DEF LidRijen
      <3> QED BY <3>1, <3>3, <3>4
    <2> QED BY <2>3, <2>6, <2>7
  <1> QED BY <1>1, ToegangInvariant, PTL DEF Spec, LaatsteAdminAlleenBijOverlap
=============================================================================
