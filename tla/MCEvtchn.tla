------------------------------ MODULE MCEvtchn ------------------------------
(* Evtchn with two ports. *)
EXTENDS Evtchn

CONSTANTS p1, p2

OnePort == {p1}
TwoPorts == {p1, p2}
OrdinaryPort == {p2}
=============================================================================
