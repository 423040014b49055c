-------------------------- MODULE MCVragenlijsten --------------------------
(* Small instance of Vragenlijsten: one template with a draft round, one   *)
(* without, and room for two imports and a round.                          *)
EXTENDS Vragenlijsten, TLC

CONSTANTS t1, t2, t3, t4, r1, r2, kosten

JaNee(verplicht) ==
    [answer_type |-> "yes_no", is_required |-> verplicht, allows_upload |-> Geen, max_files |-> Geen,
     comment |-> Geen, options |-> Geen, min |-> Geen, max |-> Geen, decimals |-> Geen,
     format |-> Geen]

Categorie(key, name, position) ==
    [key |-> key, name |-> name, position |-> position, min_answers |-> 0]

DocVraag(key, categorie, position) ==
    [question_key |-> key, category_key |-> categorie, position |-> position, vraag |-> JaNee(Geen)]

Document(name, categorieen, vragen) ==
    [schema_version |-> 1, verboden |-> {}, name |-> name, version |-> 1,
     categories |-> categorieen, questions |-> vragen]

(* Two categories whose names give the same key, and one that is named as  *)
(* the second of them is numbered.                                         *)
Lang == Document("lang", <<Categorie("k1", "Kosten", 1), Categorie("k2", "kosten!", 2), Categorie("k3", "Kosten 2", 3)>>,
                 <<DocVraag("v1", "k1", 1), DocVraag("v2", "k2", 2), DocVraag("v3", "k3", 3)>>)
Kort == Document("kort", <<>>, <<DocVraag("v1", Geen, 1)>>)
Anders == Document("anders", <<>>, <<DocVraag("v9", Geen, 9)>>)
Fout == [Kort EXCEPT !.name = "fout", !.verboden = {"tenant_id"}]

MCDocumenten == {Lang, Kort, Anders, Fout}
MCSlug == [n \in {"Kosten", "kosten!", "Kosten 2"} |->
             IF n = "Kosten 2" THEN <<kosten, 2>> ELSE <<kosten>>]
MCExtraCategorie == [name |-> "Kosten 2", position |-> 4, min_answers |-> 0]
MCExtraVraag == [question_key |-> "v5", position |-> 5, categorie |-> "Kosten 2", vraag |-> VraagRij(JaNee(TRUE))]

Rij(t, d, k) ==
    CASE k = Kop(t) -> LiveRij(t, Geen, {Naam(d)})
      [] k = Cat(t) -> LiveRij(t, Geen, Categorieen(d))
      [] k = Vra(t) -> LiveRij(t, Geen, VragenVan(d))

MCBeginRij == [k \in RijSleutels |->
    CASE k \in {Kop(t1), Cat(t1), Vra(t1)} -> Rij(t1, Kort, k)
      [] k \in {Kop(t2), Cat(t2), Vra(t2)} -> Rij(t2, Anders, k)
      [] k = Run(r1) -> LiveRij(t1, "draft", {})
      [] OTHER -> GeenRij]

MCSymmetrie == Permutations(Verzoeken) \cup Permutations({t3, t4})
=============================================================================
