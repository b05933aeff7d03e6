----------------------------- MODULE MCBalloon ------------------------------
(* Balloon with a Xen that takes back fewer pages than it is offered. *)
EXTENDS Balloon

ShortRelease == {"short_release"}
=============================================================================
