---------------------------- MODULE StopTheWorld ----------------------------
(***************************************************************************)
(* What xenutil/suspend.c promises of QuiesceSystem and UnquiesceSystem:   *)
(* "once you've called this, nothing apart from you will run until you     *)
(* call UnquiesceSystem".                                                  *)
(*                                                                         *)
(* A processor is either running or stopped.  Processors stop and resume   *)
(* one at a time, but the world is held only when all of them are stopped, *)
(* and none resumes while it is held.                                      *)
(***************************************************************************)
CONSTANT CPU

VARIABLES stopped, holding

vars == <<stopped, holding>>

Init == stopped = {} /\ holding = FALSE

Stop(c) ==
    /\ ~holding
    /\ c \notin stopped
    /\ stopped' = stopped \cup {c}
    /\ UNCHANGED holding

Resume(c) ==
    /\ ~holding
    /\ c \in stopped
    /\ stopped' = stopped \ {c}
    /\ UNCHANGED holding

Hold ==
    /\ stopped = CPU
    /\ holding' = TRUE
    /\ UNCHANGED stopped

LetGo ==
    /\ holding
    /\ holding' = FALSE
    /\ UNCHANGED stopped

Next == Hold \/ LetGo \/ \E c \in CPU : Stop(c) \/ Resume(c)

Spec == Init /\ [][Next]_vars
=============================================================================
