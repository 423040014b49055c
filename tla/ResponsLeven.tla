---------------------------- MODULE ResponsLeven ----------------------------
(***************************************************************************)
(* What a survey round promises about a response, without transactions,    *)
(* snapshots, locks or clocks: a vendor is invited once, its link changes  *)
(* only after the invitation was withdrawn, and it submits at most once,   *)
(* completely, with one line of evidence, after which nothing about its    *)
(* status changes.  Uitvraag implements this specification.                *)
(*                                                                         *)
(* Saving is possible for any invited vendor, whatever its phase: that is  *)
(* what the code does, see the finding on IngediendeAntwoordenBlijven.     *)
(***************************************************************************)
EXTENDS Integers

CONSTANTS Vendors, Vragen, Verplicht, Links, GeenLink

VARIABLES
    fase,        \* "geen", "open", "ingetrokken" or "ingediend"
    link,        \* the link that leads to the response
    gebruikt,    \* the links ever given out
    beantwoord,  \* the questions with an answer
    bewijs       \* the number of audit lines of a submission

rlVars == <<fase, link, gebruikt, beantwoord, bewijs>>

RLInit ==
    /\ fase = [v \in Vendors |-> "geen"]
    /\ link = [v \in Vendors |-> GeenLink]
    /\ gebruikt = {}
    /\ beantwoord = [v \in Vendors |-> {}]
    /\ bewijs = [v \in Vendors |-> 0]

(* Every vendor of `wie` gets a link nobody ever had, all or none.         *)
Uitnodigen(wie) ==
    /\ wie # {}
    /\ \A v \in wie : fase[v] = "geen"
    /\ fase' = [v \in Vendors |-> IF v \in wie THEN "open" ELSE fase[v]]
    /\ \A v \in Vendors \ wie : link'[v] = link[v]
    /\ link' \in [Vendors -> Links \cup {GeenLink}]
    /\ \A v \in wie : link'[v] \in Links \ gebruikt
    /\ \A v, w \in wie : link'[v] = link'[w] => v = w
    /\ gebruikt' = gebruikt \cup {link'[v] : v \in wie}
    /\ UNCHANGED <<beantwoord, bewijs>>

Bewaren(v, vragen) ==
    /\ fase[v] # "geen"
    /\ beantwoord' = [beantwoord EXCEPT ![v] = @ \cup vragen]
    /\ UNCHANGED <<fase, link, gebruikt, bewijs>>

Indienen(v, vragen) ==
    /\ fase[v] = "open"
    /\ Verplicht \subseteq vragen
    /\ fase' = [fase EXCEPT ![v] = "ingediend"]
    /\ beantwoord' = [beantwoord EXCEPT ![v] = @ \cup vragen]
    /\ bewijs' = [bewijs EXCEPT ![v] = @ + 1]
    /\ UNCHANGED <<link, gebruikt>>

Intrekken(v) ==
    /\ fase[v] = "open"
    /\ fase' = [fase EXCEPT ![v] = "ingetrokken"]
    /\ UNCHANGED <<link, gebruikt, beantwoord, bewijs>>

Heruitnodigen(v, l) ==
    /\ fase[v] = "ingetrokken"
    /\ l \in Links \ gebruikt
    /\ fase' = [fase EXCEPT ![v] = "open"]
    /\ link' = [link EXCEPT ![v] = l]
    /\ gebruikt' = gebruikt \cup {l}
    /\ UNCHANGED <<beantwoord, bewijs>>

RLNext ==
    \/ \E wie \in SUBSET Vendors : Uitnodigen(wie)
    \/ \E v \in Vendors :
         \/ \E vragen \in SUBSET Vragen : Bewaren(v, vragen) \/ Indienen(v, vragen)
         \/ Intrekken(v)
         \/ \E l \in Links : Heruitnodigen(v, l)

RLSpec == RLInit /\ [][RLNext]_rlVars
=============================================================================
