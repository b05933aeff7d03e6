------------------------------ MODULE MCMemory ------------------------------
(***************************************************************************)
(* The parts that share memory with other domains or give it back to Xen:  *)
(* the pool of grant references, the entries of the grant table, and the   *)
(* balloon.  They share no state, and a behaviour explores one of them.    *)
(***************************************************************************)
EXTENDS GnttabPool, GnttabEntry, Balloon

CONSTANTS t1, t2

OneThread == {t1}
TwoThreads == {t1, t2}
NoThreads == {}
SeparateBytes == [r \in Ref |-> r]
NoFaults == {}

(* The same pool without grant caches, but where the table may fail to     *)
(* grow and clients exhaust it.                                            *)
Exhausted == INSTANCE GnttabPool WITH
                CacheUser <- {}, MinPopulation <- {}, ExpansionMayFail <- TRUE,
                MaxHeld <- 4, MaxLent <- 0

VARIABLE part  \* what the behaviour explores

memoryVars == <<part, vars, grantVars, balloonVars>>

MemoryInit ==
    /\ part \in {"pool", "exhausted", "entry", "balloon"}
    /\ Init
    /\ EntryInit
    /\ BalloonStart
    \* one of the initial states of what is not explored is enough
    /\ part # "entry" => gref = [t \in Granter |-> CHOOSE r \in Ref : TRUE]
    /\ part # "balloon" => store.target = MaxPages

MemoryNext ==
    /\ UNCHANGED part
    /\ \/ part = "pool" /\ Next /\ UNCHANGED <<grantVars, balloonVars>>
       \/ part = "exhausted" /\ Exhausted!Next /\ UNCHANGED <<grantVars, balloonVars>>
       \/ part = "entry" /\ EntryNext /\ UNCHANGED <<vars, balloonVars>>
       \/ part = "balloon" /\ BalloonNext /\ UNCHANGED <<vars, grantVars>>
       \* the balloon rests when its target is met, the worker is gone or
       \* an assertion has stopped the machine
       \/ part = "balloon" /\ ~WorkerReady
          /\ UNCHANGED <<vars, grantVars, balloonVars>>

MemorySpec ==
    /\ MemoryInit
    /\ [][MemoryNext]_memoryVars
    /\ part = "balloon" => BalloonFairness

(* TargetReached of Balloon, for the behaviours that explore the balloon:   *)
(* the worker meets its target (balloon.c:96), and BalloonInit returns.     *)
BalloonMeetsTarget == part = "balloon" => TargetReached
=============================================================================
