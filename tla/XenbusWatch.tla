----------------------------- MODULE XenbusWatch ----------------------------
(***************************************************************************)
(* Watches: xenutil/xenbus.c lines 89-119, 732-1095, 1299-1329, 2131-2298. *)
(*                                                                         *)
(* Clients, callbacks on the watch thread, the late suspend handler and    *)
(* the recovery from S3 work on the same handlers.  A step is a section    *)
(* under watch_lock, or what lies between two such sections and the        *)
(* requests to xenstored.  A request is executed and answered in one step, *)
(* and again after a resume that finds it unanswered (module StoreCalls).  *)
(***************************************************************************)
EXTENDS Integers, Sequences, FiniteSets

CONSTANTS Client, Watch, NoWatch, Path, NoPath,
          Started, StartPath, \* the watches registered at the start, and where
          Revocable,          \* paths that xenstored may not let us watch
          MaxCalls,           \* bound: calls of clients and changes in the store
          MaxSleeps           \* bound: suspends and S3s

ASSUME WatchAssumption ==
    /\ IsFiniteSet(Watch)
    /\ NoWatch \notin Watch
    /\ Started \subseteq Watch /\ StartPath \in Path
    /\ NoPath \notin Path
    /\ Revocable \subseteq Path
    /\ \A n \in {MaxCalls, MaxSleeps} : n \in Nat

WatchThread == "watch_thread"
Late == "XenbusResumeLate"
S3 == "xenbus_recover_from_s3"
Runner == Client \cup {WatchThread, Late, S3}

VARIABLES
    (* struct xenbus_watch_handler *)
    allocated,            \* the handlers that exist
    watches,              \* head_watch_handler
    path, faulty, needs_s3_recover, currently_registered, refcount,
    safe_to_release, queued,
    pending_watches,      \* pending_watches_list
    running,              \* the handler whose callback is running
    (* What each runner is doing, to which handler, with which path. *)
    wpc, wh, wpath, purpose, old_path, old_registered, answer,
    (* xenstored: watches, events on their way, paths it refuses. *)
    registrations, events, refused,
    owed,                 \* triggered since their callback began last
    overtaken,            \* a resume or an S3 came during their redirection
    callsLeft, sleepsLeft

handlerVars == <<allocated, watches, path, faulty, needs_s3_recover,
                 currently_registered>>
refVars == <<refcount, safe_to_release>>
queueVars == <<queued, pending_watches, owed>>
runnerVars == <<wpc, wh, wpath, purpose, old_path, old_registered, answer>>
worldVars == <<registrations, events, refused>>
watchBounds == <<callsLeft, sleepsLeft>>
watchVars == <<handlerVars, refVars, queueVars, running, runnerVars, worldVars,
               overtaken, watchBounds>>

WatchInit ==
    /\ allocated = Started /\ watches = Started
    /\ path = [w \in Watch |-> IF w \in Started THEN StartPath ELSE NoPath]
    /\ faulty = [w \in Watch |-> FALSE]
    /\ needs_s3_recover = [w \in Watch |-> FALSE]
    /\ currently_registered = [w \in Watch |-> w \in Started]
    /\ refcount = [w \in Watch |-> 0]
    /\ safe_to_release = [w \in Watch |-> FALSE]
    /\ queued = [w \in Watch |-> FALSE]
    /\ pending_watches = <<>>
    /\ running = NoWatch
    /\ wpc = [e \in Runner |-> "idle"]
    /\ wh = [e \in Runner |-> NoWatch]
    /\ wpath = [e \in Runner |-> NoPath]
    /\ purpose = [e \in Runner |-> "none"]
    /\ old_path = [e \in Runner |-> NoPath]
    /\ old_registered = [e \in Runner |-> FALSE]
    /\ answer = [e \in Runner |-> "none"]
    /\ registrations = {<<StartPath, w>> : w \in Started} /\ events = {}
    /\ refused \in {{}, Revocable}
    /\ owed = {} /\ overtaken = {}
    /\ callsLeft = MaxCalls /\ sleepsLeft = MaxSleeps
-----------------------------------------------------------------------------
(* get_watch_handler and _put_watch_handler, under watch_lock.             *)
get_watch_handler(w) ==
    /\ refcount' = [refcount EXCEPT ![w] = @ + 1]
    /\ safe_to_release' = [safe_to_release EXCEPT ![w] =
                              @ /\ refcount[w] # 0]

(* The faulty variant wakes nobody. *)
put_quietly(w) ==
    /\ refcount' = [refcount EXCEPT ![w] = @ - 1]
    /\ UNCHANGED safe_to_release

put_watch_handler(w) ==
    /\ refcount' = [refcount EXCEPT ![w] = @ - 1]
    /\ safe_to_release' = [safe_to_release EXCEPT ![w] =
                              @ \/ refcount[w] = 1]

(* trigger_watch, for handlers that have a callback. *)
trigger_watch(w) ==
    /\ owed' = owed \cup {w}
    /\ IF queued[w] THEN UNCHANGED <<refVars, queued, pending_watches>>
       ELSE /\ queued' = [queued EXCEPT ![w] = TRUE]
            /\ get_watch_handler(w)
            /\ pending_watches' = Append(pending_watches, w)

(* Where runner e goes next, and with what; a request has no answer yet.   *)
Goto(e, l) ==
    /\ wpc' = [wpc EXCEPT ![e] = l]
    /\ answer' = [answer EXCEPT ![e] = "none"]

Request(e, l, w, p, why) ==
    /\ Goto(e, l)
    /\ wh' = [wh EXCEPT ![e] = w]
    /\ wpath' = [wpath EXCEPT ![e] = p]
    /\ purpose' = [purpose EXCEPT ![e] = why]

Finish(e) ==
    /\ Goto(e, "idle")
    /\ wh' = [wh EXCEPT ![e] = NoWatch]
    /\ wpath' = [wpath EXCEPT ![e] = NoPath]
    /\ purpose' = [purpose EXCEPT ![e] = "none"]
    /\ old_path' = [old_path EXCEPT ![e] = NoPath]
    /\ old_registered' = [old_registered EXCEPT ![e] = FALSE]

(* A client, or a callback, calls; one call at a time for each handler.    *)
(* No callback unregisters its own watch.                                  *)
MayCall(e) ==
    /\ wpc[e] = "idle"
    /\ callsLeft > 0
    /\ callsLeft' = callsLeft - 1
    /\ e \in Client \/ (e = WatchThread /\ running # NoWatch)

NotInUse(w) == \A e \in Client \cup {WatchThread} : wh[e] # w

(* __xenbus_watch_path up to the request. *)
xenbus_watch_path(e, w, p) ==
    /\ MayCall(e)
    /\ w \notin allocated
    /\ allocated' = allocated \cup {w}
    /\ watches' = watches \cup {w}
    /\ path' = [path EXCEPT ![w] = p]
    /\ currently_registered' = [currently_registered EXCEPT ![w] = TRUE]
    /\ Request(e, "register", w, p, "new")
    /\ UNCHANGED <<faulty, needs_s3_recover, refVars, queueVars, running,
                   old_path, old_registered, worldVars, overtaken, sleepsLeft>>

(* The rest of it. *)
WatchPathDone(e) ==
    /\ wpc[e] = "register" /\ purpose[e] = "new"
    /\ \/ /\ answer[e] = "ok"
          /\ Finish(e)
          /\ UNCHANGED currently_registered
       \/ /\ answer[e] = "error"
          /\ currently_registered' = [currently_registered EXCEPT ![wh[e]] =
                                         FALSE]
          /\ Goto(e, "unlist")
          /\ UNCHANGED <<wh, wpath, purpose, old_path, old_registered>>
    /\ UNCHANGED <<allocated, watches, path, faulty, needs_s3_recover, refVars,
                   queueVars, running, worldVars, overtaken, watchBounds>>
-----------------------------------------------------------------------------
xenbus_unregister_watch(e, w) ==
    /\ MayCall(e)
    /\ w \in watches
    /\ NotInUse(w)
    /\ e = WatchThread => w # running
    /\ Request(e, "unlist", w, NoPath, "none")
    /\ UNCHANGED <<handlerVars, refVars, queueVars, running, old_path,
                   old_registered, worldVars, overtaken, sleepsLeft>>

(* Off the list of watches and, if pending, off that one with its          *)
(* reference.                                                              *)
Unlist(w) ==
    /\ watches' = watches \ {w}
    /\ IF queued[w]
       THEN /\ pending_watches' = SelectSeq(pending_watches, LAMBDA v : v # w)
            /\ put_watch_handler(w)
       ELSE UNCHANGED <<pending_watches, refVars>>

UnlistWatch(e) ==
    /\ wpc[e] = "unlist"
    /\ Unlist(wh[e])
    /\ Goto(e, "test")
    /\ UNCHANGED <<allocated, path, faulty, needs_s3_recover,
                   currently_registered, queued, owed, running, wh, wpath,
                   purpose, old_path, old_registered, worldVars, overtaken,
                   watchBounds>>

(* "while (wh->refcount)" wait for safe_to_release.  The faulty variant    *)
(* does not.                                                               *)
IgnoreReferences(w) == TRUE

Unreferenced(w) == refcount[w] = 0

(* The fields of a handler that does not exist mean nothing. *)
FreeHandler(w) ==
    /\ allocated' = allocated \ {w}
    /\ path' = [path EXCEPT ![w] = NoPath]
    /\ faulty' = [faulty EXCEPT ![w] = FALSE]
    /\ needs_s3_recover' = [needs_s3_recover EXCEPT ![w] = FALSE]
    /\ currently_registered' = [currently_registered EXCEPT ![w] = FALSE]
    /\ safe_to_release' = [safe_to_release EXCEPT ![w] = FALSE]
    /\ queued' = [queued EXCEPT ![w] = FALSE]
    /\ owed' = owed \ {w}
    /\ overtaken' = overtaken \ {w}

TestReferences(e) ==
    /\ wpc[e] = "test"
    /\ IF Unreferenced(wh[e]) /\ ~currently_registered[wh[e]]
       THEN Finish(e) /\ FreeHandler(wh[e])
       ELSE /\ IF Unreferenced(wh[e])
               THEN Request(e, "unwatch", wh[e], path[wh[e]], "none")
               ELSE Goto(e, "await") /\ UNCHANGED <<wh, wpath, purpose>>
            /\ UNCHANGED <<allocated, path, faulty, needs_s3_recover,
                           currently_registered, safe_to_release, queued, owed,
                           overtaken, old_path, old_registered>>
    /\ UNCHANGED <<watches, refcount, pending_watches, running, worldVars,
                   watchBounds>>

AwaitRelease(e) ==
    /\ wpc[e] = "await"
    /\ safe_to_release[wh[e]]
    /\ Goto(e, "test")
    /\ UNCHANGED <<handlerVars, refVars, queueVars, running, wh, wpath, purpose,
                   old_path, old_registered, worldVars, overtaken, watchBounds>>

FreeWatch(e) ==
    /\ wpc[e] = "unwatch"
    /\ answer[e] # "none"
    /\ FreeHandler(wh[e])
    /\ Finish(e)
    /\ UNCHANGED <<watches, refcount, pending_watches, running, worldVars,
                   watchBounds>>
-----------------------------------------------------------------------------
(* The flag goes up before the request.                                    *)
xenbus_redirect_watch(e, w, p) ==
    /\ MayCall(e)
    /\ w \in watches
    /\ NotInUse(w)
    /\ p # path[w]
    /\ path' = [path EXCEPT ![w] = p]
    /\ old_path' = [old_path EXCEPT ![e] = path[w]]
    /\ old_registered' = [old_registered EXCEPT ![e] = currently_registered[w]]
    /\ currently_registered' = [currently_registered EXCEPT ![w] = TRUE]
    /\ Request(e, "register", w, p, "redirect")
    /\ UNCHANGED <<allocated, watches, faulty, needs_s3_recover, refVars,
                   queueVars, running, worldVars, overtaken, sleepsLeft>>

RedirectDone(e) ==
    /\ wpc[e] = "register" /\ purpose[e] = "redirect"
    /\ \/ /\ answer[e] = "ok"
          /\ overtaken' = overtaken \ {wh[e]}
          /\ IF old_registered[e]
             THEN /\ Request(e, "unwatch_old", wh[e], old_path[e], "redirect")
                  /\ UNCHANGED <<old_path, old_registered>>
             ELSE Finish(e)
          /\ UNCHANGED <<path, currently_registered>>
       \/ /\ answer[e] = "error"
          /\ path' = [path EXCEPT ![wh[e]] = old_path[e]]
          /\ currently_registered' = [currently_registered EXCEPT ![wh[e]] =
                                         old_registered[e]]
          /\ IF old_registered[e] THEN Finish(e)
             ELSE /\ Goto(e, "scan")
                  /\ UNCHANGED <<wh, wpath, purpose, old_path, old_registered>>
          /\ UNCHANGED overtaken
    /\ UNCHANGED <<allocated, watches, faulty, needs_s3_recover, refVars,
                   queueVars, running, worldVars, watchBounds>>

UnwatchOldDone(e) ==
    /\ wpc[e] = "unwatch_old"
    /\ answer[e] # "none"
    /\ Finish(e)
    /\ UNCHANGED <<handlerVars, refVars, queueVars, running, worldVars,
                   overtaken, watchBounds>>

xenbus_trigger_watch(e, w) ==
    /\ MayCall(e)
    /\ w \in watches
    /\ NotInUse(w)
    /\ trigger_watch(w)
    /\ UNCHANGED <<handlerVars, running, runnerVars, worldVars, overtaken,
                   sleepsLeft>>
-----------------------------------------------------------------------------
(* reregister_all_watches: look for a handler that is not registered, and  *)
(* register it without the lock but with a reference.                      *)
ScanUnregistered(e) ==
    /\ wpc[e] = "scan"
    /\ LET todo == {w \in watches : ~currently_registered[w] /\ ~faulty[w]}
       IN  \/ /\ todo = {}
              /\ Finish(e)
              /\ UNCHANGED refVars
           \/ \E w \in todo :
                /\ get_watch_handler(w)
                /\ Request(e, "register", w, path[w], "again")
                /\ UNCHANGED <<old_path, old_registered>>
    /\ UNCHANGED <<handlerVars, queueVars, running, worldVars, overtaken,
                   watchBounds>>

ReregisterDone(e) ==
    /\ wpc[e] = "register" /\ purpose[e] = "again"
    /\ \/ /\ answer[e] = "ok"
          /\ currently_registered' = [currently_registered EXCEPT ![wh[e]] =
                                         TRUE]
          /\ Goto(e, "put")
          /\ UNCHANGED faulty
       \/ /\ answer[e] = "error"
          /\ faulty' = [faulty EXCEPT ![wh[e]] = TRUE]
          /\ Goto(e, "trigger")
          /\ UNCHANGED currently_registered
    /\ UNCHANGED <<allocated, watches, path, needs_s3_recover, refVars,
                   queueVars, running, wh, wpath, purpose, old_path,
                   old_registered, worldVars, overtaken, watchBounds>>

TriggerFaulty(e) ==
    /\ wpc[e] = "trigger"
    /\ trigger_watch(wh[e])
    /\ Goto(e, "put")
    /\ UNCHANGED <<handlerVars, running, wh, wpath, purpose, old_path,
                   old_registered, worldVars, overtaken, watchBounds>>

(* "Dropped lock -> need to rescan the list".  The faulty variant stops.   *)
StopScan(e) == Request(e, "idle", NoWatch, NoPath, "none")

Rescan(e) == Request(e, "scan", NoWatch, NoPath, "none")

PutReference(e) ==
    /\ wpc[e] = "put"
    /\ put_watch_handler(wh[e])
    /\ Rescan(e)
    /\ UNCHANGED <<handlerVars, queueVars, running, old_path, old_registered,
                   worldVars, overtaken, watchBounds>>
-----------------------------------------------------------------------------
Redirecting(w) == \E e \in Client \cup {WatchThread} :
    /\ wh[e] = w
    /\ purpose[e] \in {"redirect", "again"}

(* xenbus_recover_from_s3.  The suspend token that its caller holds keeps  *)
(* suspends out.  xenstored may or may not have lost the watches.          *)
xenbus_recover_from_s3 ==
    /\ sleepsLeft > 0
    /\ sleepsLeft' = sleepsLeft - 1
    /\ wpc[S3] = "idle" /\ wpc[Late] = "idle"
    /\ registrations' \in {registrations, {}}
    /\ needs_s3_recover' = [w \in Watch |-> w \in watches \/ needs_s3_recover[w]]
    /\ Goto(S3, "s3_scan")
    /\ UNCHANGED <<allocated, watches, path, faulty, currently_registered,
                   refVars, queueVars, running, wh, wpath, purpose, old_path,
                   old_registered, events, refused, overtaken, callsLeft>>

S3Scan ==
    /\ wpc[S3] = "s3_scan"
    /\ LET todo == {w \in watches : needs_s3_recover[w] /\ ~faulty[w]}
       IN  \/ /\ todo = {}
              /\ Goto(S3, "scan")
              /\ UNCHANGED <<refVars, needs_s3_recover, wh, wpath, purpose>>
           \/ \E w \in todo :
                /\ get_watch_handler(w)
                /\ needs_s3_recover' = [needs_s3_recover EXCEPT ![w] = FALSE]
                /\ Request(S3,
                           IF currently_registered[w] THEN "s3_unwatch"
                                                      ELSE "s3_put",
                           w, path[w], "none")
    /\ UNCHANGED <<allocated, watches, path, faulty, currently_registered,
                   queueVars, running, old_path, old_registered, worldVars,
                   overtaken, watchBounds>>

S3Put ==
    /\ wpc[S3] = "s3_put" \/ (wpc[S3] = "s3_unwatch" /\ answer[S3] # "none")
    /\ currently_registered' = [currently_registered EXCEPT ![wh[S3]] = FALSE]
    /\ put_watch_handler(wh[S3])
    /\ Request(S3, "s3_scan", NoWatch, NoPath, "none")
    /\ overtaken' = overtaken \cup {w \in {wh[S3]} : Redirecting(w)}
    /\ UNCHANGED <<allocated, watches, path, faulty, needs_s3_recover, queueVars,
                   running, old_path, old_registered, worldVars, watchBounds>>

(* No listed watch is registered with the new xenstored.                   *)
FlagsCleared == [w \in Watch |-> currently_registered[w] /\ w \notin watches]

(* Suspend and resume: a new xenstored, which may refuse more.  Then       *)
(* reset_watches, and XenbusResumeLate is to come.                         *)
reset_watches ==
    /\ sleepsLeft > 0
    /\ sleepsLeft' = sleepsLeft - 1
    /\ wpc[S3] = "idle" /\ wpc[Late] = "idle"
    /\ registrations' = {} /\ events' = {}
    /\ refused' \in {refused, Revocable}
    /\ currently_registered' = FlagsCleared
    /\ overtaken' = {w \in Watch : Redirecting(w)}
    /\ Goto(Late, "scan")
    /\ UNCHANGED <<allocated, watches, path, faulty, needs_s3_recover, refVars,
                   queueVars, running, wh, wpath, purpose, old_path,
                   old_registered, callsLeft>>
-----------------------------------------------------------------------------
(* watch_thread_cb.  A trigger during the callback queues the handler      *)
(* again; the faulty variant lowers "queued" only after the callback.      *)
LowerAfterCallback(w) == UNCHANGED queued

LowerQueued(w) == queued' = [queued EXCEPT ![w] = FALSE]

BeginCallback ==
    /\ running = NoWatch
    /\ pending_watches # <<>>
    /\ LET w == Head(pending_watches)
       IN  /\ running' = w
           /\ LowerQueued(w)
           /\ owed' = owed \ {w}
    /\ pending_watches' = Tail(pending_watches)
    /\ UNCHANGED <<handlerVars, refVars, runnerVars, worldVars, overtaken,
                   watchBounds>>

EndCallback ==
    /\ running # NoWatch
    /\ wpc[WatchThread] = "idle"
    /\ put_watch_handler(running)
    /\ running' = NoWatch
    /\ UNCHANGED <<handlerVars, queueVars, runnerVars, worldVars, overtaken,
                   watchBounds>>

(* find_watch_by_ident and fire_watch_by_ident, in the DPC. *)
fire_watch_by_ident(w) ==
    /\ w \in events
    /\ events' = events \ {w}
    /\ IF w \in watches THEN trigger_watch(w)
       ELSE UNCHANGED <<refVars, queueVars>>
    /\ UNCHANGED <<handlerVars, running, runnerVars, registrations, refused,
                   overtaken, watchBounds>>

(* External: xenstored.  A new watch fires at once.  A path that is        *)
(* watched already is EEXIST, which register_watch_handler takes for       *)
(* success; the client ignores the outcome of XS_UNWATCH.                  *)
XsWatch(e) ==
    /\ wpc[e] \in {"register", "unwatch", "unwatch_old", "s3_unwatch"}
    /\ answer[e] = "none"
    /\ LET r == <<wpath[e], wh[e]>>
       IN  IF wpc[e] = "register"
           THEN IF wpath[e] \in refused
                THEN /\ answer' = [answer EXCEPT ![e] = "error"]
                     /\ UNCHANGED <<registrations, events>>
                ELSE /\ answer' = [answer EXCEPT ![e] = "ok"]
                     /\ registrations' = registrations \cup {r}
                     /\ events' = IF r \in registrations THEN events
                                  ELSE events \cup {wh[e]}
           ELSE /\ answer' = [answer EXCEPT ![e] = "ok"]
                /\ registrations' = registrations \ {r}
                /\ UNCHANGED events
    /\ UNCHANGED <<handlerVars, refVars, queueVars, running, wpc, wh, wpath,
                   purpose, old_path, old_registered, refused, overtaken,
                   watchBounds>>

XsFire ==
    /\ callsLeft > 0
    /\ callsLeft' = callsLeft - 1
    /\ \E r \in registrations : events' = events \cup {r[2]}
    /\ UNCHANGED <<handlerVars, refVars, queueVars, running, runnerVars,
                   registrations, refused, overtaken, sleepsLeft>>
-----------------------------------------------------------------------------
WatchStep(e) ==
    \/ WatchPathDone(e) \/ UnlistWatch(e) \/ TestReferences(e)
    \/ AwaitRelease(e) \/ FreeWatch(e) \/ RedirectDone(e) \/ UnwatchOldDone(e)
    \/ ScanUnregistered(e) \/ ReregisterDone(e) \/ TriggerFaulty(e)
    \/ PutReference(e) \/ XsWatch(e)

S3Step == WatchStep(S3) \/ S3Scan \/ S3Put

WatchThreadStep == WatchStep(WatchThread) \/ BeginCallback \/ EndCallback

WatchNext ==
    \/ \E e \in Client \cup {WatchThread}, w \in Watch :
         \/ \E p \in Path : xenbus_watch_path(e, w, p)
                            \/ xenbus_redirect_watch(e, w, p)
         \/ xenbus_unregister_watch(e, w)
         \/ xenbus_trigger_watch(e, w)
    \/ \E e \in Client \cup {Late} : WatchStep(e)
    \/ WatchThreadStep
    \/ xenbus_recover_from_s3 \/ S3Step
    \/ reset_watches
    \/ \E w \in Watch : fire_watch_by_ident(w)
    \/ XsFire

WatchSpec == WatchInit /\ [][WatchNext]_watchVars
-----------------------------------------------------------------------------
WatchTypeOK ==
    /\ watches \subseteq allocated /\ allocated \subseteq Watch
    /\ path \in [Watch -> Path \cup {NoPath}]
    /\ refcount \in [Watch -> Nat]
    /\ pending_watches \in Seq(Watch)
    /\ running \in Watch \cup {NoWatch}
    /\ \A e \in Runner : wh[e] \in Watch \cup {NoWatch}
    /\ registrations \subseteq Path \X Watch

PendingWatches == {pending_watches[i] : i \in 1 .. Len(pending_watches)}

(* Who holds a reference to w: the pending list, the callback, and the     *)
(* runners between their get_watch_handler and put_watch_handler.          *)
Holders(w) ==
    {e \in Runner : wh[e] = w /\ (purpose[e] = "again" \/ wpc[e] \in
                                     {"s3_unwatch", "s3_put"})}
    \cup {h \in {"pending"} : w \in PendingWatches}
    \cup {h \in {"callback"} : running = w}

(* xenbus.c:751-753 "The watch handler will not be released until          *)
(* put_watch_handler() is called": the references that are counted are     *)
(* the ones that exist, and whoever holds one holds an existing handler.   *)
(* So after xenbus_unregister_watch no callback of the watch runs and no   *)
(* re-registration of it is under way.                                     *)
NoUseAfterUnregister == \A w \in Watch :
    /\ w \in allocated => refcount[w] = Cardinality(Holders(w))
    /\ Holders(w) # {} => w \in allocated

(* trigger_watch: an event that arrives for a listed watch, be it while    *)
(* the callback for an earlier one runs, is followed by a callback that    *)
(* begins after it: until then the watch is pending.                       *)
NoTriggerLost == \A w \in owed \cap watches : queued[w] /\ w \in PendingWatches

Idle(w) == \A e \in Runner : wh[e] # w

(* xenbus.c:101 "Watch is currently registered with xenstore": the flag is *)
(* right whenever nobody is at work on the watch, whatever mix of          *)
(* redirections, resumes and S3 recoveries came before.  Two exceptions:   *)
(* a refused redirection that a resume or an S3 recovery overtook restores *)
(* a stale flag, and a watch once found faulty is skipped by the recovery. *)
RegisteredFlagTrue == \A w \in watches :
    (currently_registered[w] /\ Idle(w) /\ wpc[S3] = "idle"
        /\ w \notin overtaken /\ ~faulty[w])
        => <<path[w], w>> \in registrations

(* The master list, the references and the flags of the watches are right. *)
WatchesConsistent ==
    WatchTypeOK /\ NoUseAfterUnregister /\ RegisteredFlagTrue

(* xenbus.c:1072-1076 "We know that we're not waiting for the watch thread *)
(* from the watch thread ... More can't be created because we've removed   *)
(* the watch from the master list": a callback that unregisters another    *)
(* watch does not wait for a reference that only its own thread drops.     *)
NeverWaitsForItself ==
    wpc[WatchThread] = "await" => wh[WatchThread] \notin PendingWatches

(* xenbus_unregister_watch returns, unless the watch thread came to wait   *)
(* for itself.                                                             *)
UnregisterReturns == \A e \in Client \cup {WatchThread} :
    wpc[e] = "unlist" ~> (wpc[e] = "idle" \/ ~NeverWaitsForItself)

(* After a resume every listed watch is registered again, or found faulty, *)
(* or unregistered by its owner.                                           *)
WatchesComeBack == \A w \in Watch :
    (w \in watches /\ ~currently_registered[w] /\ ~faulty[w])
        ~> (w \notin watches \/ currently_registered[w] \/ faulty[w])
=============================================================================
