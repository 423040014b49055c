------------------------------ MODULE MCBijlagen ------------------------------
(* Small instance of Bijlagen for TLC: a question that takes one file and  *)
(* one without uploads.                                                    *)
EXTENDS Bijlagen

MCVragen   == {"certificaat", "toelichting"}
MCMaxFiles == [certificaat |-> 1, toelichting |-> 0]
=============================================================================
