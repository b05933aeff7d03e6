--------------------------- MODULE MCXenbusWatch ----------------------------
(* XenbusWatch with two watches, one of them registered, and two paths.    *)
EXTENDS XenbusWatch

(* Threads and the DPC keep running, callbacks return, xenstored answers.  *)
WatchFairness ==
    /\ \A e \in Client \cup {Late} : WF_watchVars(WatchStep(e))
    /\ WF_watchVars(S3Step)
    /\ WF_watchVars(WatchThreadStep)
    /\ \A w \in Watch : WF_watchVars(fire_watch_by_ident(w))

FairWatchSpec == WatchSpec /\ WatchFairness
=============================================================================
