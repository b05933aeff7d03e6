------------------------------- MODULE Balloon ------------------------------
(***************************************************************************)
(* The memory balloon of xenutil/balloon.c: the worker thread, the         *)
(* callbacks of its two watches, BalloonInit, and freeze and thaw.         *)
(*                                                                         *)
(* Pages are 1..TopPage.  A page belongs to Windows, to the driver while   *)
(* it is in PfnArray, or to the balloon while it is in PfnsBalloonedOut;   *)
(* backed is what Xen has given memory.  Windows, Xen's memory operations  *)
(* and the store are external.  A step of the worker is what it does       *)
(* between two accesses to what the callbacks or a suspend may change.     *)
(*                                                                         *)
(* Nothing ever calls XmKillThread for the worker, so the branches for     *)
(* Self->exit are left out.                                                *)
(***************************************************************************)
EXTENDS RangeSet

CONSTANTS
    MaxPages,       \* memory/static-max, in pages
    ArraySize,      \* BALLOON_PFN_ARRAY_SIZE
    MaxEvents,      \* how many adverse or outside events happen: a write of
                    \* memory/target, a request that is met in part or not
                    \* at all, a migration, a hibernation, a self-test
    Faults          \* which of the faults below happen

(* "short_release": Xen takes back fewer pages than were offered.          *)
(* "no_pool": no memory for an entry of the range set when pages that Xen  *)
(*            did not populate are put back.                               *)
ASSUME BalloonConstants ==
    /\ MaxPages \in Nat \ {0} /\ ArraySize \in Nat \ {0}
    /\ MaxEvents \in Nat
    /\ Faults \subseteq {"short_release", "no_pool"}

VARIABLES
    wpc,        \* where the worker thread is
    watcher,    \* the watch thread: idle, or about to set the worker's event
    ipc,        \* BalloonInit: waiting, or returned
    Balloon,    \* the fields of struct _BALLOON that the threads share
    array,      \* PfnArray, up to its last page
    round,      \* Requested, what has been done of it, and the direction
    pages,      \* who has each page, and which of them Xen backs
    store,      \* memory/target, the two flags, a watch event on its way, and
                \* the number of migrations, SuspendGetCount()
    events      \* how many of MaxEvents have happened

balloonVars == <<wpc, watcher, ipc, Balloon, array, round, pages, store,
                 events>>

Page == 1..MaxPages

BalloonedOut == Denotation(Balloon.PfnsBalloonedOut)

-----------------------------------------------------------------------------
(* BalloonSortPfnArray, with sequences that start at 1.                    *)

Swap(h, i, j) == [h EXCEPT ![i] = h[j], ![j] = h[i]]

LargerChild(h, start, count) ==
    IF 2 * start + 1 <= count /\ h[2 * start + 1] > h[2 * start]
    THEN 2 * start + 1 ELSE 2 * start

BalloonHeapPushDown[h \in Seq(Page), start \in Nat, count \in Nat] ==
    LET child == LargerChild(h, start, count)
    IN  IF 2 * start > count \/ h[child] < h[start] THEN h
        ELSE BalloonHeapPushDown[Swap(h, start, child), child, count]

BalloonCreateHeap(a) ==
    FoldLeft(LAMBDA h, i : BalloonHeapPushDown[h, Len(a) + 1 - i, Len(a)],
             a, [i \in 1..Len(a) |-> i])

(* One turn of the loop: the largest node goes behind the heap. *)
MoveLargest[h \in Seq(Page), unsorted \in Nat] ==
    BalloonHeapPushDown[Swap(h, 1, unsorted), 1, unsorted - 1]

BalloonSortPfnArray(a) ==
    FoldLeft(LAMBDA h, i : MoveLargest[h, Len(a) + 1 - i],
             BalloonCreateHeap(a), [i \in 1..Len(a) |-> i])

-----------------------------------------------------------------------------

BalloonStart ==
    /\ wpc = "start" /\ watcher = "idle" /\ ipc = "waiting"
    /\ Balloon = [CurrentPages |-> MaxPages, TargetPages |-> MaxPages,
                  PfnsBalloonedOut |-> RangeSetInit,
                  Frozen |-> FALSE, Done |-> FALSE, Event |-> FALSE,
                  Timeout |-> FALSE,
                  FIST_inflation |-> FALSE, FIST_deflation |-> FALSE,
                  Advertized |-> FALSE, AdvertizedSuspendCount |-> 0,
                  Active |-> FALSE, ActiveSuspendCount |-> 0]
    /\ array = <<>>
    /\ round = [kind |-> "none", requested |-> 0, done |-> 0]
    /\ pages = [windows |-> Page, backed |-> Page]
    /\ store \in [target : 0..MaxPages, feature : {FALSE}, active : {FALSE},
                  event : {FALSE}, suspends : {0}]
    /\ events = 0

Events(b) ==
    /\ b => events < MaxEvents
    /\ events' = IF b THEN events + 1 ELSE events

(* The worker registers its watches, which fires them for the first time.  *)
(* Without them it ends, and BalloonInit is none the wiser.                *)
RegisterWatches ==
    /\ wpc = "start"
    /\ \/ /\ wpc' = "advertize"
          /\ store' = [store EXCEPT !.event = TRUE]
          /\ UNCHANGED <<Balloon, events>>
       \/ /\ Events(TRUE)
          /\ wpc' = "dead"
          /\ Balloon' = [Balloon EXCEPT !.Done = TRUE]
          /\ UNCHANGED store
    /\ UNCHANGED <<watcher, ipc, array, round, pages>>

AdvertizeOnce == ~Balloon.Advertized

MustAdvertize ==
    ~Balloon.Advertized \/ Balloon.AdvertizedSuspendCount # store.suspends

(* The count is noted, and then the flag is written. *)
NoteCount ==
    /\ wpc = "advertize"
    /\ IF MustAdvertize
       THEN /\ Balloon' = [Balloon EXCEPT
                             !.AdvertizedSuspendCount = store.suspends]
            /\ wpc' = "write_feature"
       ELSE /\ wpc' = "wait"
            /\ UNCHANGED Balloon
    /\ UNCHANGED <<watcher, ipc, array, round, pages, store, events>>

Advertize ==
    /\ wpc = "write_feature"
    /\ store' = [store EXCEPT !.feature = TRUE]
    /\ Balloon' = [Balloon EXCEPT !.Advertized = TRUE]
    /\ wpc' = "wait"
    /\ UNCHANGED <<watcher, ipc, array, round, pages, events>>

(* KeWaitForSingleObject returns: the event is set, or the pause is over. *)
Wake ==
    /\ wpc = "wait"
    /\ Balloon.Event \/ Balloon.Timeout
    /\ wpc' = "clear"
    /\ UNCHANGED <<watcher, ipc, Balloon, array, round, pages, store, events>>

ClearEvent ==
    /\ wpc = "clear"
    /\ Balloon' = [Balloon EXCEPT !.Event = FALSE]
    /\ wpc' = IF Balloon.Frozen THEN "advertize" ELSE "activate"
    /\ UNCHANGED <<watcher, ipc, array, round, pages, store, events>>

Activate ==
    /\ wpc = "activate"
    /\ IF ~Balloon.Active \/ Balloon.ActiveSuspendCount # store.suspends
       THEN /\ Balloon' = [Balloon EXCEPT !.ActiveSuspendCount = store.suspends]
            /\ wpc' = "write_active"
       ELSE wpc' = "decide" /\ UNCHANGED Balloon
    /\ UNCHANGED <<watcher, ipc, array, round, pages, store, events>>

WriteActive ==
    /\ wpc = "write_active"
    /\ store' = [store EXCEPT !.active = TRUE]
    /\ Balloon' = [Balloon EXCEPT !.Active = TRUE]
    /\ wpc' = "decide"
    /\ UNCHANGED <<watcher, ipc, array, round, pages, events>>

(* The comparison of TargetPages with CurrentPages, and the request;       *)
(* TargetPages is read once.                                               *)
Decide ==
    /\ wpc = "decide"
    /\ LET surplus == Balloon.CurrentPages - Balloon.TargetPages
           kind    == IF surplus > 0 THEN "inflate"
                      ELSE IF surplus < 0 THEN "deflate" ELSE "none"
       IN  /\ round' = [kind |-> kind, requested |-> Max({surplus, -surplus}),
                        done |-> 0]
           /\ wpc' = IF kind = "none" THEN "settle" ELSE "enter"
    /\ UNCHANGED <<watcher, ipc, Balloon, array, pages, store, events>>

(* The first lines of BalloonInflate and BalloonDeflate; XM_ASSERT stops   *)
(* the machine if BalloonFreeze got in between.                            *)
Enter ==
    /\ wpc = "enter"
    /\ wpc' = IF Balloon.Frozen THEN "crashed"
              ELSE IF \/ round.kind = "inflate" /\ Balloon.FIST_inflation
                      \/ round.kind = "deflate" /\ Balloon.FIST_deflation
              THEN "settle" ELSE round.kind
    /\ UNCHANGED <<watcher, ipc, Balloon, array, round, pages, store, events>>

ThisTime == Min({round.requested - round.done, ArraySize})

(* After one array: the loop goes on, or ends, early if it must or was     *)
(* slow.                                                                   *)
LoopEnds(done, abort) ==
    /\ round' = [round EXCEPT !.done = @ + done]
    /\ \E slow \in BOOLEAN :
          wpc' = IF abort \/ slow \/ round.done + done >= round.requested
                 THEN "settle" ELSE round.kind

(* Windows hands over at most count of its pages, in any order. *)
BalloonAllocatePagesForMdl(count) ==
    UNION {SetToSeqs(S) : S \in {T \in SUBSET pages.windows :
                                     Cardinality(T) <= count}}

BalloonAllocatePfnArray ==
    /\ wpc = "inflate"
    /\ \E mdl \in BalloonAllocatePagesForMdl(ThisTime) :
          /\ Events(Len(mdl) < ThisTime)
          /\ array' = BalloonSortPfnArray(mdl)
          /\ pages' = [pages EXCEPT !.windows = @ \ ToSet(mdl)]
    /\ wpc' = "release"
    /\ UNCHANGED <<watcher, ipc, Balloon, round, store>>

(* BalloonFreePfnArray: the pages are Windows' again. *)
BalloonFreePfnArray(p, S) == [p EXCEPT !.windows = @ \cup S]

Forgotten(out) == {}

(* The pages that BalloonInflate gives back to Windows. *)
Unreleased(out) == ToSet(array) \ ToSet(out)

(* BalloonReleasePfnArray, and in BalloonInflate the return of the pages   *)
(* that were not released.                                                 *)
BalloonReleasePfnArray ==
    /\ wpc = "release"
    /\ \E pool \in {0, 1, MaxPages} :
         LET old == [Balloon.PfnsBalloonedOut EXCEPT !.Pool = pool]
             add == RangeSetAddItems(old, array)
         IN  \E released \in (IF "short_release" \in Faults THEN 0..add.n
                              ELSE {add.n}) :
               LET out  == SubSeq(array, 1, released)
                   rest == SubSeq(array, released + 1, add.n)
                   new  == RangeSetRemoveItems(add.rs, rest).rs
                   \* a short allocation or release ends the loop in failure
                   abort == Len(array) < ThisTime \/ released = 0
               IN  /\ Events(released < Len(array))
                   /\ Balloon' = [Balloon EXCEPT !.PfnsBalloonedOut =
                                    RangeSetDropRseCache(new)]
                   /\ pages' = BalloonFreePfnArray(
                                  [pages EXCEPT !.backed = @ \ ToSet(out)],
                                  Unreleased(out))
                   /\ LoopEnds(released, abort)
    /\ array' = <<>>
    /\ UNCHANGED <<watcher, ipc, store>>

PutBackOneLess(rs, populated, popped) ==
    RangeSetAddItems(rs, SubSeq(popped, populated + 2, Len(popped))).rs

(* The pages that Xen did not populate go back to the range set. *)
PutBack(rs, populated, popped) ==
    RangeSetAddItems(rs, SubSeq(popped, populated + 1, Len(popped))).rs

(* BalloonPopulatePfnArray and BalloonFreePfnArray: one turn of the loop   *)
(* of BalloonDeflate.                                                      *)
BalloonPopulatePfnArray ==
    /\ wpc = "deflate"
    /\ \E pool \in (IF "no_pool" \in Faults THEN {0, MaxPages} ELSE {MaxPages}) :
         LET pop == RangeSetPopMany(Balloon.PfnsBalloonedOut, ThisTime)
         IN  \E populated \in 0..ThisTime :
               LET out == SubSeq(pop.out, 1, populated)
                   new == PutBack([pop.rs EXCEPT !.Pool = pool], populated,
                                  pop.out)
               IN  /\ Events(populated < ThisTime)
                   /\ Balloon' = [Balloon EXCEPT !.PfnsBalloonedOut =
                                    RangeSetDropRseCache(new)]
                   /\ pages' = BalloonFreePfnArray(
                                  [pages EXCEPT !.backed = @ \cup ToSet(out)],
                                  ToSet(out))
                   /\ LoopEnds(populated, populated < ThisTime)
    /\ UNCHANGED <<watcher, ipc, array, store>>

PagesNow ==
    CASE round.kind = "inflate" -> Balloon.CurrentPages - round.done
      [] round.kind = "deflate" -> Balloon.CurrentPages + round.done
      [] OTHER                  -> Balloon.CurrentPages

Rest(reached) == FALSE
PauseFor(reached) == ~reached

(* CurrentPages takes the result, and the worker rests or pauses. *)
Settle ==
    /\ wpc = "settle"
    /\ LET now     == PagesNow
           reached == now = Balloon.TargetPages
       IN  /\ Balloon' = [Balloon EXCEPT
                            !.CurrentPages = now,
                            !.Active = IF reached THEN FALSE ELSE @,
                            !.Done = @ \/ reached,
                            !.Timeout = PauseFor(reached)]
           /\ store' = [store EXCEPT !.active = IF reached THEN FALSE ELSE @]
    /\ round' = [kind |-> "none", requested |-> 0, done |-> 0]
    /\ wpc' = "advertize"
    /\ UNCHANGED <<watcher, ipc, array, pages, events>>

Worker ==
    \/ RegisterWatches \/ NoteCount \/ Advertize \/ Wake \/ ClearEvent
    \/ Activate \/ WriteActive \/ Decide \/ Enter
    \/ BalloonAllocatePfnArray \/ BalloonReleasePfnArray
    \/ BalloonPopulatePfnArray \/ Settle

Clamped(t) == Min({t, MaxPages})

(* The watch thread reads memory/target, which may fail, ... *)
BalloonTargetChanged ==
    /\ watcher = "idle" /\ store.event /\ wpc # "crashed"
    /\ store' = [store EXCEPT !.event = FALSE]
    /\ watcher' = "notify"
    /\ \/ /\ Balloon' = [Balloon EXCEPT !.TargetPages = Clamped(store.target)]
          /\ UNCHANGED events
       \/ Events(TRUE) /\ UNCHANGED Balloon
    /\ UNCHANGED <<wpc, ipc, array, round, pages>>

(* ... and wakes the worker in either case. *)
WakeWorker ==
    /\ watcher = "notify" /\ wpc # "crashed"
    /\ watcher' = "idle"
    /\ Balloon' = [Balloon EXCEPT !.Event = TRUE]
    /\ UNCHANGED <<wpc, ipc, array, round, pages, store, events>>

BalloonFISTChanged ==
    /\ wpc \notin {"start", "dead", "crashed"}
    /\ \E i, d \in BOOLEAN :
          Balloon' = [Balloon EXCEPT !.FIST_inflation = i, !.FIST_deflation = d]
    /\ Events(TRUE)
    /\ UNCHANGED <<wpc, watcher, ipc, array, round, pages, store>>

(* BalloonInit waits until the first target is met. *)
BalloonInit ==
    /\ ipc = "waiting" /\ Balloon.Done /\ wpc # "crashed"
    /\ ipc' = "returned"
    /\ UNCHANGED <<wpc, watcher, Balloon, array, round, pages, store, events>>

BalloonFreeze ==
    /\ wpc # "crashed"
    /\ Events(TRUE)
    /\ Balloon' = [Balloon EXCEPT !.Frozen = TRUE]
    /\ UNCHANGED <<wpc, watcher, ipc, array, round, pages, store>>

BalloonThaw ==
    /\ Balloon.Frozen /\ wpc # "crashed"
    /\ Balloon' = [Balloon EXCEPT !.Frozen = FALSE]
    /\ UNCHANGED <<wpc, watcher, ipc, array, round, pages, store, events>>

(* dom0 writes memory/target, sometimes above static-max. *)
Dom0Target ==
    /\ wpc # "crashed"
    /\ Events(TRUE)
    /\ \E t \in 0..MaxPages + 1 :
          store' = [store EXCEPT !.target = t,
                                 !.event = wpc \notin {"start", "dead"}]
    /\ UNCHANGED <<wpc, watcher, ipc, Balloon, array, round, pages>>

(* A migration: the flags are gone from the store, and every watch fires. *)
Migrate ==
    /\ wpc # "crashed"
    /\ Events(TRUE)
    /\ store' = [store EXCEPT !.feature = FALSE, !.active = FALSE,
                              !.suspends = @ + 1,
                              !.event = wpc \notin {"start", "dead"}]
    /\ UNCHANGED <<wpc, watcher, ipc, Balloon, array, round, pages>>

BalloonNext ==
    \/ Worker \/ BalloonTargetChanged \/ WakeWorker \/ BalloonFISTChanged
    \/ BalloonInit \/ BalloonFreeze \/ BalloonThaw \/ Dom0Target \/ Migrate

WorkerReady ==
    /\ wpc \notin {"dead", "crashed"}
    /\ wpc = "wait" => Balloon.Event \/ Balloon.Timeout

(* Weak fairness of the worker, written out: WorkerReady is what enables   *)
(* Worker, and each of its steps moves wpc or round, which nobody else     *)
(* does.                                                                   *)
WorkerScheduled ==
    []<>~WorkerReady \/ []<><<wpc' # wpc \/ round' # round>>_balloonVars

(* The worker and the watch thread are scheduled, and a pause ends. *)
BalloonFairness ==
    /\ WorkerScheduled
    /\ WF_balloonVars(BalloonTargetChanged) /\ WF_balloonVars(WakeWorker)
    /\ WF_balloonVars(BalloonInit)

BalloonSpec == BalloonStart /\ [][BalloonNext]_balloonVars /\ BalloonFairness
-----------------------------------------------------------------------------

BalloonTypeOK ==
    /\ Balloon.CurrentPages \in 0..MaxPages /\ Balloon.TargetPages \in 0..MaxPages
    /\ array \in Seq(Page) /\ Len(array) <= ArraySize
    /\ pages \in [windows : SUBSET Page, backed : SUBSET Page]

(* Windows never owns a page that Xen has taken back, and each page is with *)
(* Windows, in PfnArray or in the balloon, and in only one of them,         *)
(* whatever part of an allocation, a release or a populate succeeds         *)
(* (BalloonInflate, BalloonDeflate).                                        *)
PagesAccounted ==
    /\ pages.windows \cup ToSet(array) \subseteq pages.backed
    /\ Page = pages.windows \cup ToSet(array) \cup BalloonedOut
    /\ pages.windows \cap ToSet(array) = {}

(* PfnsBalloonedOut denotes exactly the pages that Xen has: what the        *)
(* contracts of RangeSetAdd, RangeSetPopOne and RangeSetRemoveRange add up  *)
(* to over a sequence of calls (rangeset.c:209-212, 386-387, 469-470).      *)
BalloonedOutExact == BalloonedOut = Page \ pages.backed

(* The invariants of rangeset.c:38-70 hold, NrItems counts the denotation,  *)
(* and no assertion of rangeset.c fails; the cursor, the merging and the    *)
(* cache of entries are used by all operations.                             *)
RangeSetConsistent ==
    LET rs == Balloon.PfnsBalloonedOut
    IN  /\ ~rs.Bug
        /\ WellFormed(rs)
        /\ rs.NrItems = Cardinality(Denotation(rs))

(* The heap sort leaves PfnArray ascending, for whatever pages Windows      *)
(* hands out and in whatever order.                                         *)
PfnArraySorted ==
    wpc = "release" => \A i \in 1..Len(array) - 1 : array[i] < array[i + 1]

(* XM_ASSERT at balloon.c:1056: outside a round the range set has MaxPages  *)
(* less CurrentPages items, although a round may end early in several ways  *)
(* and the target may move during it.                                       *)
CountsAgree ==
    wpc \notin {"inflate", "release", "deflate", "settle", "crashed"} =>
        Balloon.PfnsBalloonedOut.NrItems = MaxPages - Balloon.CurrentPages

(* The books of the worker: PfnsBalloonedOut is consistent and exact, the   *)
(* pages it works on are in order, and its counts agree with it.            *)
BooksExact ==
    /\ BalloonTypeOK
    /\ RangeSetConsistent /\ BalloonedOutExact
    /\ PfnArraySorted /\ CountsAgree

(* While the worker rests and nothing is about to wake it, the store shows  *)
(* that this domain balloons: a migration, which forgets the flag, is       *)
(* always noticed (comment at balloon.c:986-988).                           *)
AdvertisedAtRest ==
    wpc = "wait" /\ ~Balloon.Event /\ watcher = "idle" /\ ~store.event
        => store.feature

(* "We aim for CurrentPages == TargetPages" (balloon.c:96): if the balloon  *)
(* is never frozen and the self-test flags are off in the end, the target   *)
(* is met again and again, and BalloonInit returns.                         *)
TargetReached ==
    /\ []~Balloon.Frozen
    /\ <>[](~Balloon.FIST_inflation /\ ~Balloon.FIST_deflation)
    => /\ []<>(Balloon.CurrentPages = Balloon.TargetPages)
       /\ <>(ipc = "returned")
=============================================================================
