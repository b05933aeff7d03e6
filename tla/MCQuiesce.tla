----------------------------- MODULE MCQuiesce ------------------------------
(* What the suspend machinery must eventually do: Quiesce on three         *)
(* processors, one of which initiates, and Suspend with two clients that   *)
(* hold it off.  The part chosen at the start makes all the steps.         *)
EXTENDS Quiesce

CONSTANTS cpuA, cpuB, cpuC, c1, c2

MCCPU == {cpuA, cpuB, cpuC}

VARIABLES
    part,
    tpc, exit, event, suspend_thread, idle, launcher, worker, killer,
    queuedLaunches, pendingLaunches, launchesLeft, shutdown, watchFired,
    requestsLeft, cpc, tokens, anonymous, handlers, sh, pending,
    suspendCount, bugcheck

S == INSTANCE Suspend WITH
        Client <- {c1, c2}, Handler <- {}, MaxLaunches <- 0, MaxRequests <- 2,
        MaxSuspends <- 2, MaxAnonymous <- 0, Booted <- TRUE,
        XenbusMayFail <- FALSE

suspendVars ==
    <<tpc, exit, event, suspend_thread, idle, launcher, worker, killer,
      queuedLaunches, pendingLaunches, launchesLeft, shutdown, watchFired,
      requestsLeft, cpc, tokens, anonymous, handlers, sh, pending,
      suspendCount, bugcheck>>

bothVars == <<part, vars, suspendVars>>

BothInit == part \in {"quiesce", "suspend"} /\ Init /\ S!Init

(* The suspend thread may have nothing left to do; QuiesceSystem may not.  *)
BothNext ==
    \/ part = "quiesce" /\ Next /\ UNCHANGED <<part, suspendVars>>
    \/ part = "suspend" /\ S!Next /\ UNCHANGED <<part, vars>>
    \/ part = "suspend" /\ UNCHANGED bothVars

BothSpec ==
    /\ BothInit /\ [][BothNext]_bothVars
    /\ part = "quiesce" => Fairness
    /\ part = "suspend" => S!Fairness

(* inc/xsapi.h:1160-1162 and 1131-1136: a suspend asked for while tokens   *)
(* were out happens once the last one is released, and                     *)
(* EvtchnAllocateSuspendToken "always succeeds".                           *)
SuspendAndTokensProgress == S!DeferredSuspendHappens /\ S!AllocationReturns
=============================================================================
