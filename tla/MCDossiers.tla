----------------------------- MODULE MCDossiers -----------------------------
(* Small instance of Dossiers with Beoordeling for TLC: one supplier's     *)
(* response, one dossier.                                                  *)
EXTENDS Dossiers, TLC

MCDossierVan == [k \in Dossierlinks |-> CHOOSE d \in Dossierrijen : TRUE]
MCSymmetrie == Permutations(Verzoeken)
=============================================================================
