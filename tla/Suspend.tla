------------------------------- MODULE Suspend ------------------------------
(***************************************************************************)
(* Suspend handlers, suspend tokens and the suspend thread:                *)
(* xenutil/suspend.c lines 457-996 and xenutil/thread.c.                   *)
(*                                                                         *)
(* The suspend thread waits on its event, which the control/shutdown watch *)
(* and the clients set.  It reads the node and, when that says "suspend"   *)
(* and no token is outstanding, goes through DoSuspend.  Clients allocate  *)
(* and release tokens and register and unregister handlers meanwhile.      *)
(*                                                                         *)
(* What DoSuspend does between QuiesceSystem and UnquiesceSystem is one    *)
(* step here, because nothing else runs: that is StopTheWorld, which       *)
(* module Quiesce implements.                                              *)
(***************************************************************************)
EXTENDS Integers, Sequences, FiniteSets, Functions

CONSTANTS Client,         \* threads that allocate and release tokens
          Handler,        \* suspend handler structures
          MaxLaunches,    \* bound: calls of EvtchnLaunchSuspendThread
          MaxRequests,    \* bound: times dom0 writes "suspend"
          MaxSuspends,    \* bound: suspends that are not cancelled
          MaxAnonymous,   \* bound: allocations that run out of memory
          Booted,         \* is the thread already launched at the start?
          XenbusMayFail   \* may xenbus operations of the thread fail?

ASSUME SuspendAssumption ==
    /\ IsFiniteSet(Client)
    /\ IsFiniteSet(Handler)
    /\ MaxLaunches \in Nat
    /\ MaxRequests \in Nat
    /\ MaxSuspends \in Nat
    /\ MaxAnonymous \in Nat
    /\ Booted \in BOOLEAN
    /\ XenbusMayFail \in BOOLEAN

VARIABLES
    tpc,          \* where the suspend thread is
    exit, event,  \* its xm_thread structure
    suspend_thread, \* is the pointer to that structure set?
    idle,         \* suspend_thread_idle
    launcher, worker, killer,  \* EvtchnLaunchSuspendThread,
                  \* LaunchSuspendThread and KillSuspendThread in progress
    queuedLaunches, pendingLaunches, launchesLeft,
    shutdown,     \* does control/shutdown say "suspend"?
    watchFired, requestsLeft,
    cpc,          \* where each client is
    tokens,       \* the clients whose token is on suspend_token_list
    anonymous,    \* anonymous_token_count
    handlers,     \* SuspendHandlersList
    sh,           \* the fields of each handler on it
    pending,      \* InvokeSuspendHandlers' local
    suspendCount, \* suspend_count
    bugcheck      \* has an XM_ASSERT failed?

threadVars == <<tpc, exit, event, suspend_thread>>
launchVars == <<launcher, worker, killer, queuedLaunches, pendingLaunches,
                launchesLeft>>
dom0Vars == <<shutdown, watchFired, requestsLeft>>
tokenVars == <<cpc, tokens, anonymous>>
handlerVars == <<handlers, sh, pending>>
vars == <<threadVars, idle, launchVars, dom0Vars, tokenVars, handlerVars,
          suspendCount, bugcheck>>

CbType == {"PRE_EARLY", "PRE_LATE", "EARLY", "LATE"}

(* The thread is between its last look at the tokens and the end of the    *)
(* last suspend handler.                                                   *)
Suspending == {"remove", "markPreEarly", "runPreEarly", "quiesce", "markLate",
               "runLate"}

Init ==
    /\ tpc = IF Booted THEN "cleanup" ELSE "none"
    /\ exit = FALSE
    /\ event = FALSE
    /\ suspend_thread = Booted
    /\ idle = FALSE
    /\ launcher = "ready"
    /\ worker = "ready"
    /\ killer = "ready"
    /\ queuedLaunches = 0
    /\ pendingLaunches = 0
    /\ launchesLeft = MaxLaunches
    /\ shutdown = FALSE
    /\ watchFired = Booted
    /\ requestsLeft = MaxRequests
    /\ cpc = [c \in Client |-> "out"]
    /\ tokens = {}
    /\ anonymous = 0
    /\ handlers = <<>>
    /\ sh = [h \in Handler |-> [type |-> "LATE", defunct |-> FALSE,
                                pending_run |-> FALSE, running |-> FALSE]]
    /\ pending = 0
    /\ suspendCount = 0
    /\ bugcheck = FALSE
-----------------------------------------------------------------------------
(* EvtchnLaunchSuspendThread: XenQueueWork, then the increment. *)
EvtchnLaunchSuspendThread ==
    /\ launcher = "ready"
    /\ launchesLeft > 0
    /\ launchesLeft' = launchesLeft - 1
    /\ queuedLaunches' = queuedLaunches + 1
    /\ launcher' = "queued"
    /\ UNCHANGED <<threadVars, idle, worker, killer, pendingLaunches,
                   dom0Vars, tokenVars, handlerVars, suspendCount, bugcheck>>

CountLaunch ==
    /\ launcher = "queued"
    /\ pendingLaunches' = pendingLaunches + 1
    /\ launcher' = "ready"
    /\ UNCHANGED <<threadVars, idle, worker, killer, queuedLaunches,
                   launchesLeft, dom0Vars, tokenVars, handlerVars,
                   suspendCount, bugcheck>>

(* The work item thread runs LaunchSuspendThread.  XmSpawnThread starts    *)
(* the thread before its return value reaches the suspend_thread pointer.  *)
LaunchSuspendThread ==
    /\ worker = "ready"
    /\ queuedLaunches > 0
    /\ queuedLaunches' = queuedLaunches - 1
    /\ \/ /\ ~suspend_thread
          /\ tpc' = "init"
          /\ exit' = FALSE
          /\ event' = FALSE
          /\ worker' = "spawned"
       \/ worker' = "done" /\ UNCHANGED <<tpc, exit, event>>
    /\ UNCHANGED <<suspend_thread, idle, launcher, killer, pendingLaunches,
                   launchesLeft, dom0Vars, tokenVars, handlerVars,
                   suspendCount, bugcheck>>

AssignSuspendThread ==
    /\ worker = "spawned"
    /\ suspend_thread' = TRUE
    /\ worker' = "done"
    /\ UNCHANGED <<tpc, exit, event, idle, launcher, killer, queuedLaunches,
                   pendingLaunches, launchesLeft, dom0Vars, tokenVars,
                   handlerVars, suspendCount, bugcheck>>

FinishLaunch ==
    /\ worker = "done"
    /\ worker' = "ready"
    /\ pendingLaunches' = pendingLaunches - 1
    /\ UNCHANGED <<threadVars, idle, launcher, killer, queuedLaunches,
                   launchesLeft, dom0Vars, tokenVars, handlerVars,
                   suspendCount, bugcheck>>

(* KillSuspendThread, when the machine hibernates.  XmKillThread sets the  *)
(* exit flag and the event and waits for the thread to end.                *)
KillSuspendThread ==
    /\ killer = "ready"
    /\ pendingLaunches = 0
    /\ killer' = IF suspend_thread THEN "join" ELSE "done"
    /\ exit' = (exit \/ suspend_thread)
    /\ event' = (event \/ suspend_thread)
    /\ UNCHANGED <<tpc, suspend_thread, idle, launcher, worker,
                   queuedLaunches, pendingLaunches, launchesLeft, dom0Vars,
                   tokenVars, handlerVars, suspendCount, bugcheck>>

JoinSuspendThread ==
    /\ killer = "join"
    /\ tpc = "ended"
    /\ killer' = "done"
    /\ suspend_thread' = FALSE
    /\ UNCHANGED <<tpc, exit, event, idle, launcher, worker, queuedLaunches,
                   pendingLaunches, launchesLeft, dom0Vars, tokenVars,
                   handlerVars, suspendCount, bugcheck>>
-----------------------------------------------------------------------------
(* dom0 asks for a suspend; the watch tells the thread some time later.    *)
Dom0Request ==
    /\ requestsLeft > 0
    /\ requestsLeft' = requestsLeft - 1
    /\ shutdown' = TRUE
    /\ watchFired' = TRUE
    /\ UNCHANGED <<threadVars, idle, launchVars, tokenVars, handlerVars,
                   suspendCount, bugcheck>>

DeliverWatch ==
    /\ watchFired
    /\ tpc \notin {"none", "init", "ended"}
    /\ watchFired' = FALSE
    /\ event' = TRUE
    /\ UNCHANGED <<tpc, exit, suspend_thread, idle, launchVars, shutdown,
                   requestsLeft, tokenVars, handlerVars, suspendCount,
                   bugcheck>>
-----------------------------------------------------------------------------
(* The suspend thread moves to a place and leaves all else to its caller.  *)
ThreadGoes(from, to) ==
    /\ tpc = from
    /\ tpc' = to
    /\ UNCHANGED <<exit, suspend_thread, launchVars, requestsLeft>>

(* SuspendThread up to its loop.  A new watch fires straight away. *)
ThreadInit ==
    /\ \/ ThreadGoes("init", "cleanup") /\ watchFired' = TRUE
       \/ XenbusMayFail /\ ThreadGoes("init", "ended") /\ UNCHANGED watchFired
    /\ UNCHANGED <<event, idle, shutdown, tokenVars, handlerVars,
                   suspendCount, bugcheck>>

Without(h) == SelectSeq(handlers, LAMBDA g : g # h)

Defunct == SelectSeq(handlers, LAMBDA h : sh[h].defunct)

(* One removal of SuspendCleanup's loop, with its XM_ASSERT. *)
CleanupOne ==
    /\ ThreadGoes("cleanup", "cleanup")
    /\ Defunct # <<>>
    /\ LET h == Head(Defunct) IN
         IF sh[h].pending_run \/ sh[h].running
         THEN bugcheck' = TRUE /\ UNCHANGED handlers
         ELSE handlers' = Without(h) /\ UNCHANGED bugcheck
    /\ UNCHANGED <<event, idle, shutdown, watchFired, tokenVars, sh,
                   pending, suspendCount>>

(* suspend_thread_idle is a notification event: setting it satisfies every *)
(* wait that is in progress.                                               *)
CleanupDone ==
    /\ ThreadGoes("cleanup", "wait")
    /\ Defunct = <<>>
    /\ idle' = TRUE
    /\ cpc' = [c \in Client |-> IF cpc[c] = "waiting" THEN "held" ELSE cpc[c]]
    /\ UNCHANGED <<event, shutdown, watchFired, tokens, anonymous,
                   handlerVars, suspendCount, bugcheck>>

(* XmThreadWait: it returns -1 once exit is set. *)
ThreadWait ==
    /\ exit \/ event
    /\ event' = (event /\ exit)
    /\ ThreadGoes("wait", IF exit THEN "ended" ELSE "clearIdle")
    /\ UNCHANGED <<idle, shutdown, watchFired, tokenVars, handlerVars,
                   suspendCount, bugcheck>>

(* Faulty variants, which the properties below must tell from the code,    *)
(* are defined ahead of what they replace.                                 *)
(* Here there is no KeClearEvent(&suspend_thread_idle).                    *)
KeepIdle ==
    /\ ThreadGoes("clearIdle", "read")
    /\ UNCHANGED <<event, idle, shutdown, watchFired, tokenVars, handlerVars,
                   suspendCount, bugcheck>>

ClearIdle ==
    /\ ThreadGoes("clearIdle", "read")
    /\ idle' = FALSE
    /\ UNCHANGED <<event, shutdown, watchFired, tokenVars,
                   handlerVars, suspendCount, bugcheck>>

ReadShutdown ==
    /\ \/ ThreadGoes("read", IF shutdown THEN "checkAnonymous" ELSE "cleanup")
       \/ XenbusMayFail /\ ThreadGoes("read", "cleanup")
    /\ UNCHANGED <<event, idle, shutdown, watchFired, tokenVars,
                   handlerVars, suspendCount, bugcheck>>

(* The two reads, without the lock, that decide whether to suspend now. *)
CheckAnonymous ==
    /\ ThreadGoes("checkAnonymous",
                  IF anonymous = 0 THEN "checkList" ELSE "cleanup")
    /\ UNCHANGED <<event, idle, shutdown, watchFired, tokenVars,
                   handlerVars, suspendCount, bugcheck>>

CheckList ==
    /\ ThreadGoes("checkList", IF tokens = {} THEN "remove" ELSE "cleanup")
    /\ UNCHANGED <<event, idle, shutdown, watchFired, tokenVars,
                   handlerVars, suspendCount, bugcheck>>

(* xenbus_remove of control/shutdown, which fires the watch once more. *)
RemoveShutdown ==
    /\ ThreadGoes("remove", "markPreEarly")
    /\ \/ shutdown' = FALSE /\ watchFired' = TRUE
       \/ XenbusMayFail /\ UNCHANGED <<shutdown, watchFired>>
    /\ UNCHANGED <<event, idle, tokenVars, handlerVars, suspendCount,
                   bugcheck>>
-----------------------------------------------------------------------------
Live(type) == {h \in Range(handlers) : sh[h].type = type /\ ~sh[h].defunct}

(* The first pass of InvokeSuspendHandlers for the types that run at       *)
(* PASSIVE_LEVEL: state the intent to call each handler, under the lock.   *)
Mark(type, from, to) ==
    /\ ThreadGoes(from, to)
    /\ sh' = [h \in Handler |-> [sh[h] EXCEPT !.pending_run =
                                    @ \/ h \in Live(type)]]
    /\ pending' = Cardinality(Live(type))
    /\ UNCHANGED <<event, idle, shutdown, watchFired, tokenVars,
                   handlers, suspendCount, bugcheck>>

PendingRun == SelectSeq(handlers, LAMBDA h : sh[h].pending_run)

NoneRunning == \A h \in Handler : ~sh[h].running

(* One turn of the retry loop: under the lock, pick the first handler      *)
(* whose pending_run is set, with the XM_ASSERT on defunct.                *)
StartHandler(from) ==
    /\ ThreadGoes(from, from)
    /\ NoneRunning
    /\ PendingRun # <<>>
    /\ LET h == Head(PendingRun) IN
         IF sh[h].defunct
         THEN bugcheck' = TRUE /\ UNCHANGED sh
         ELSE /\ sh' = [sh EXCEPT ![h].pending_run = FALSE,
                                  ![h].running = TRUE]
              /\ UNCHANGED bugcheck
    /\ UNCHANGED <<event, idle, shutdown, watchFired, tokenVars,
                   handlers, pending, suspendCount>>

(* The callback returns. *)
FinishHandler(from) ==
    /\ ThreadGoes(from, from)
    /\ \E h \in Handler :
         /\ sh[h].running
         /\ sh' = [sh EXCEPT ![h].running = FALSE]
    /\ bugcheck' = (pending = 0)
    /\ pending' = pending - 1
    /\ UNCHANGED <<event, idle, shutdown, watchFired, tokenVars,
                   handlers, suspendCount>>

(* The end of InvokeSuspendHandlers, with XM_ASSERT3U(pending, ==, 0). *)
HandlersDone(from, to) ==
    /\ ThreadGoes(from, to)
    /\ NoneRunning
    /\ PendingRun = <<>>
    /\ bugcheck' = (pending # 0)
    /\ UNCHANGED <<event, idle, shutdown, watchFired, tokenVars,
                   handlerVars, suspendCount>>

(* From QuiesceSystem to UnquiesceSystem: the PRE_LATE handlers, the       *)
(* hypercall and, unless it reports a cancelled suspend, the EARLY ones.   *)
SuspendResume ==
    /\ \/ /\ ThreadGoes("quiesce", "markLate")
          /\ suspendCount < MaxSuspends
          /\ suspendCount' = suspendCount + 1
       \/ ThreadGoes("quiesce", "cleanup") /\ UNCHANGED suspendCount
    /\ UNCHANGED <<event, idle, shutdown, watchFired, tokenVars,
                   handlerVars, bugcheck>>

DoSuspend ==
    \/ Mark("PRE_EARLY", "markPreEarly", "runPreEarly")
    \/ StartHandler("runPreEarly") \/ FinishHandler("runPreEarly")
    \/ HandlersDone("runPreEarly", "quiesce")
    \/ SuspendResume
    \/ Mark("LATE", "markLate", "runLate")
    \/ StartHandler("runLate") \/ FinishHandler("runLate")
    \/ HandlersDone("runLate", "cleanup")
-----------------------------------------------------------------------------
(* Clients.  KickThread is "if (suspend_thread) KeSetEvent(...)". *)
KickThread == event' = (event \/ suspend_thread)

ClientGoes(c, from, to) ==
    /\ cpc[c] = from
    /\ cpc' = [cpc EXCEPT ![c] = to]
    /\ UNCHANGED <<tpc, exit, suspend_thread, idle, launchVars, dom0Vars,
                   handlerVars, suspendCount, bugcheck>>

(* EvtchnAllocateSuspendToken under suspend_token_lock.  When there is no  *)
(* memory for the token it is anonymous.                                   *)
AllocateToken(c) ==
    /\ ClientGoes(c, "out", "listed")
    /\ tokens' = tokens \cup {c}
    /\ UNCHANGED <<anonymous, event>>

AllocateAnonymous(c) ==
    /\ ClientGoes(c, "out", "listed")
    /\ anonymous < MaxAnonymous
    /\ anonymous' = anonymous + 1
    /\ UNCHANGED <<tokens, event>>

(* The test of suspend_thread, and the wait for suspend_thread_idle. *)
TestThread(c) ==
    /\ ClientGoes(c, "listed", IF suspend_thread THEN "waiting" ELSE "unwaited")
    /\ UNCHANGED <<tokens, anonymous, event>>

WaitIdle(c) ==
    /\ ClientGoes(c, "waiting", "held")
    /\ idle
    /\ UNCHANGED <<tokens, anonymous, event>>

Holders == {c \in Client : cpc[c] \in {"held", "unwaited"}}

(* EvtchnReleaseSuspendToken under the lock, then the kick.  The branch    *)
(* for an anonymous token increments the count, as the code does.          *)
ReleaseToken(c) ==
    /\ cpc[c] \in {"held", "unwaited"}
    /\ ClientGoes(c, cpc[c], "kick")
    /\ IF c \in tokens
       THEN tokens' = tokens \ {c} /\ UNCHANGED anonymous
       ELSE anonymous' = anonymous + 1 /\ UNCHANGED tokens
    /\ UNCHANGED event

(* Faulty: the suspend thread is not woken after a release. *)
ReleaseWithoutKick(c) ==
    /\ ClientGoes(c, "kick", "out")
    /\ UNCHANGED <<event, tokens, anonymous>>

KickAfterRelease(c) ==
    /\ ClientGoes(c, "kick", "out")
    /\ KickThread
    /\ UNCHANGED <<tokens, anonymous>>

EvtchnRegisterSuspendHandler(h, type) ==
    /\ h \notin Range(handlers)
    /\ handlers' = Append(handlers, h)
    /\ sh' = [sh EXCEPT ![h] = [type |-> type, defunct |-> FALSE,
                                pending_run |-> FALSE, running |-> FALSE]]
    /\ UNCHANGED <<threadVars, idle, launchVars, dom0Vars, tokenVars, pending,
                   suspendCount, bugcheck>>

(* Faulty: the caller takes the handler off the list itself. *)
UnregisterAtOnce(h) ==
    /\ h \in Range(handlers)
    /\ handlers' = Without(h)
    /\ KickThread
    /\ UNCHANGED <<tpc, exit, suspend_thread, idle, launchVars, dom0Vars,
                   tokenVars, sh, pending, suspendCount, bugcheck>>

(* Sets defunct without the lock and leaves the rest to SuspendCleanup. *)
EvtchnUnregisterSuspendHandler(h) ==
    /\ h \in Range(handlers)
    /\ ~sh[h].defunct
    /\ sh' = [sh EXCEPT ![h].defunct = TRUE]
    /\ KickThread
    /\ UNCHANGED <<tpc, exit, suspend_thread, idle, launchVars, dom0Vars,
                   tokenVars, handlers, pending, suspendCount, bugcheck>>
-----------------------------------------------------------------------------
Launching ==
    \/ EvtchnLaunchSuspendThread \/ CountLaunch \/ LaunchSuspendThread
    \/ AssignSuspendThread \/ FinishLaunch \/ KillSuspendThread
    \/ JoinSuspendThread

SuspendThread ==
    \/ ThreadInit \/ CleanupOne \/ CleanupDone \/ ThreadWait \/ ClearIdle
    \/ ReadShutdown \/ CheckAnonymous \/ CheckList \/ RemoveShutdown
    \/ DoSuspend

TokenStep(c) ==
    \/ AllocateToken(c) \/ AllocateAnonymous(c) \/ TestThread(c)
    \/ WaitIdle(c) \/ ReleaseToken(c) \/ KickAfterRelease(c)

HandlerStep(h) ==
    \/ EvtchnUnregisterSuspendHandler(h)
    \/ \E type \in CbType : EvtchnRegisterSuspendHandler(h, type)

(* KeBugCheckEx stops the machine. *)
Next ==
    /\ ~bugcheck
    /\ \/ Launching \/ Dom0Request \/ DeliverWatch \/ SuspendThread
       \/ \E c \in Client : TokenStep(c)
       \/ \E h \in Handler : HandlerStep(h)

Spec == Init /\ [][Next]_vars

(* The threads that run the code keep running and the watch is delivered;  *)
(* dom0, and what clients choose to do, is not required to happen.         *)
Fairness ==
    /\ WF_vars(SuspendThread) /\ WF_vars(DeliverWatch)
    /\ WF_vars(CountLaunch) /\ WF_vars(LaunchSuspendThread)
    /\ WF_vars(AssignSuspendThread) /\ WF_vars(FinishLaunch)
    /\ \A c \in Client : /\ WF_vars(TestThread(c)) /\ WF_vars(WaitIdle(c))
                         /\ WF_vars(KickAfterRelease(c))

FairSpec == Spec /\ Fairness
-----------------------------------------------------------------------------
Places == {"none", "init", "cleanup", "wait", "clearIdle", "read",
           "checkAnonymous", "checkList", "ended"} \cup Suspending

TypeOK ==
    /\ tpc \in Places
    /\ exit \in BOOLEAN /\ event \in BOOLEAN /\ suspend_thread \in BOOLEAN
    /\ idle \in BOOLEAN
    /\ launcher \in {"ready", "queued"}
    /\ worker \in {"ready", "spawned", "done"}
    /\ killer \in {"ready", "join", "done"}
    /\ queuedLaunches \in Nat /\ pendingLaunches \in Int /\ launchesLeft \in Nat
    /\ shutdown \in BOOLEAN /\ watchFired \in BOOLEAN /\ requestsLeft \in Nat
    /\ cpc \in [Client -> {"out", "listed", "waiting", "held", "unwaited",
                           "kick"}]
    /\ tokens \subseteq Client
    /\ anonymous \in Nat
    /\ handlers \in Seq(Handler)
    /\ sh \in [Handler -> [type : CbType, defunct : BOOLEAN,
                           pending_run : BOOLEAN, running : BOOLEAN]]
    /\ pending \in Int
    /\ suspendCount \in Nat
    /\ bugcheck \in BOOLEAN

(* suspend.c:723-727: a client whose EvtchnAllocateSuspendToken has waited *)
(* for the idle event holds off the suspend thread until it releases the   *)
(* token, although the thread looks at the tokens without the lock.        *)
WaitedTokensInhibit ==
    (\E c \in Client : cpc[c] = "held") => tpc \notin Suspending

(* suspend.c:571-574, "We're protected against the suspend handler         *)
(* disappearing underneath us": a handler the thread means to call, or is  *)
(* calling, is still on the list, and pending is their number, however the *)
(* list changes during the pass (suspend.c:585 and 597).                   *)
HandlersInUseAreListed ==
    LET inUse == {h \in Handler : sh[h].pending_run \/ sh[h].running}
    IN  inUse \subseteq Range(handlers) /\ pending = Cardinality(inUse)

(* inc/xsapi.h:1160-1162: a suspend asked for while tokens were out        *)
(* happens once the last one is released.                                  *)
DeferredSuspendHappens ==
    (shutdown /\ tokens = {} /\ Holders = {} /\ suspend_thread)
        ~> (~shutdown \/ tokens # {} \/ Holders # {} \/ exit \/ bugcheck)

(* inc/xsapi.h:1131-1136: EvtchnAllocateSuspendToken "always succeeds".    *)
AllocationReturns ==
    \A c \in Client : (cpc[c] = "waiting") ~> (cpc[c] = "held" \/ bugcheck)

(* inc/xsapi.h:1121-1122: once EvtchnUnregisterSuspendHandler has returned *)
(* the callback "will have finished running for the last time".            *)
UnregisterIsFinal ==
    \A h \in Range(handlers) :
        sh[h].defunct => ~sh[h].running /\ ~sh[h].pending_run
=============================================================================
