----------------------------- MODULE MCUitvraag -----------------------------
(* Constants and symmetry for model-checking Uitvraag.                     *)
EXTENDS Uitvraag, TLC

MCVerplicht   == {1}
MCSluittijden == {Geen}
MCMetSluiting == {1}

(* Vendors, supplier requests, administrators and tokens are used only as  *)
(* indices and values compared for equality.                               *)
Symmetrie == Permutations(Vendors) \cup Permutations(Verzoeken)
             \cup Permutations(Beheerders) \cup Permutations(Tokens)
=============================================================================
