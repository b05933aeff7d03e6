----------------------------- MODULE MCSuspend ------------------------------
(* Suspend on small sets of clients and handlers. *)
EXTENDS Suspend, TLC

CONSTANTS c1, c2, h1, h2

NoClients == {}
OneClient == {c1}
TwoClients == {c1, c2}
NoHandlers == {}
TwoHandlers == {h1, h2}
HandlerSymmetry == Permutations(TwoHandlers)
=============================================================================
