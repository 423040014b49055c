------------------------------ MODULE Afwezig ------------------------------
(***************************************************************************)
(* What stands where nothing is: NULL in a column, undefined or null in a  *)
(* document or a request.  The code turns the one into the other.          *)
(***************************************************************************)
CONSTANT Geen
=============================================================================
