----------------------------- MODULE GnttabPool -----------------------------
(***************************************************************************)
(* The pool of free grant references and the grant caches that draw on it: *)
(* xenutil/gnttab.c lines 47-317, 344-357 and 386-490.  What a grant does  *)
(* to the table entry behind a reference is module GnttabEntry.            *)
(*                                                                         *)
(* Each thread owns at most one grant cache, because the caller keeps a    *)
(* cache off two CPUs at once (inc/xsapi.h:971).  References from the main *)
(* pool may be released by any thread.  A critical section of gnttab_lock  *)
(* is several steps, so that its exclusion is something to be shown.       *)
(***************************************************************************)
EXTENDS Integers, FiniteSets

CONSTANTS Thread, NoThread,
          CacheUser,        \* the threads that may allocate a cache
          PerFrame,         \* GRANT_ENTRIES_PER_PAGE
          MaxFrames,        \* MAX_NR_GRANT_FRAMES
          Reserved,         \* NR_RESERVED_ENTRIES
          Threshold,        \* GNTTAB_CACHE_THRESHOLD
          MinPopulation,    \* the values of min_population clients ask for
          ExpansionMayFail, \* may Xen reject a new grant frame?
          MaxHeld,          \* bound: main pool references out at a time
          MaxLent           \* bound: references out of one cache at a time

ASSUME PoolAssumption ==
    /\ NoThread \notin Thread
    /\ CacheUser \subseteq Thread
    /\ PerFrame \in Nat \ {0}
    /\ MaxFrames \in Nat \ {0}
    /\ Reserved \in 0..(PerFrame - 1)
    /\ Threshold \in Nat \ {0}
    /\ MinPopulation \subseteq Nat
    /\ ExpansionMayFail \in BOOLEAN
    /\ MaxHeld \in Nat
    /\ MaxLent \in Nat

XenRef == 0..(PerFrame * MaxFrames - 1)

(* wrap_GRANT_REF: the Xen reference and the id of the cache it came from. *)
wrap_GRANT_REF(x, cache) == [xen |-> x, cache |-> cache]
null_GRANT_REF == wrap_GRANT_REF(-1, 0)
GRANT_REF == [xen : XenRef, cache : 0..3]
ChangeGrantCache(g, cache) == wrap_GRANT_REF(g.xen, cache)

VARIABLES
    lock,         \* gnttab_lock
    list,         \* gnttab_list
    free_head, free_count,
    nr_frames, fully_mapped,
    next_id,      \* GnttabAllocCache's static, of which two bits are used
    \* The grant cache of each thread; a thread without one has id 0.
    id, population, nr_outstanding, min_population, head_free,
    listed,       \* is it on grant_cache_list?
    held,         \* main pool references that clients have
    lent,         \* the references clients have out of each cache
    pc, job,      \* where each thread is, and in which call
    ref, target   \* the locals of those calls

poolVars == <<list, free_head, free_count, nr_frames, fully_mapped>>
cacheVars == <<next_id, id, population, nr_outstanding, min_population,
               head_free, listed, lent>>
cacheConfig == <<next_id, id, min_population, listed>>
threadVars == <<pc, job, ref, target>>
vars == <<lock, poolVars, cacheVars, held, threadVars>>

valid_GRANT_REF(g) == g # null_GRANT_REF /\ g.xen < PerFrame * nr_frames

(* The frame that ExpandGrantTable maps: its references, lowest first, are *)
(* pushed on the free list.                                                *)
NewRefs(frame) ==
    {x \in XenRef : x >= Reserved /\ x \div PerFrame = frame}

Pushed(frame, head, l) ==
    [x \in XenRef |->
        IF x \notin NewRefs(frame) THEN l[x]
        ELSE IF x - 1 \in NewRefs(frame) THEN wrap_GRANT_REF(x - 1, 0) ELSE head]

LastOf(frame) == wrap_GRANT_REF(PerFrame * (frame + 1) - 1, 0)

(* GnttabInit maps the first frame. *)
Init ==
    /\ lock = NoThread
    /\ list = Pushed(0, null_GRANT_REF, [x \in XenRef |-> null_GRANT_REF])
    /\ free_head = LastOf(0)
    /\ free_count = PerFrame - Reserved
    /\ nr_frames = 1
    /\ fully_mapped = FALSE
    /\ next_id = 0
    /\ id = [t \in Thread |-> 0]
    /\ population = [t \in Thread |-> 0]
    /\ nr_outstanding = [t \in Thread |-> 0]
    /\ min_population = [t \in Thread |-> 0]
    /\ head_free = [t \in Thread |-> null_GRANT_REF]
    /\ listed = [t \in Thread |-> FALSE]
    /\ held = {}
    /\ lent = [t \in Thread |-> {}]
    /\ pc = [t \in Thread |-> "idle"]
    /\ job = [t \in Thread |-> "get"]
    /\ ref = [t \in Thread |-> null_GRANT_REF]
    /\ target = [t \in Thread |-> 0]
-----------------------------------------------------------------------------
Goto(t, l) == pc' = [pc EXCEPT ![t] = l]

(* Call the routine that runs j under gnttab_lock. *)
Call(t, j) ==
    /\ Goto(t, "lock")
    /\ job' = [job EXCEPT ![t] = j]

(* GnttabGetGrantRef, and the start of GnttabGrantForeignAccess. *)
GnttabGetGrantRef(t) ==
    /\ pc[t] = "idle"
    /\ Cardinality(held) < MaxHeld
    /\ Call(t, "get")
    /\ UNCHANGED <<lock, poolVars, cacheVars, held, ref, target>>

(* GnttabEndForeignAccess, once the entry has been revoked. *)
GnttabEndForeignAccess(t, g) ==
    /\ pc[t] = "idle"
    /\ held' = held \ {g}
    /\ ref' = [ref EXCEPT ![t] = g]
    /\ Call(t, "put")
    /\ UNCHANGED <<lock, poolVars, cacheVars, target>>

(* get_cache_entry, which takes the first reference off the cache of       *)
(* thread t and clears its link.                                           *)
ClearLink(g) == list' = [list EXCEPT ![g.xen] = null_GRANT_REF]

get_cache_entry(t) ==
    /\ population' = [population EXCEPT ![t] = @ - 1]
    /\ head_free' = [head_free EXCEPT ![t] = list[@.xen]]
    /\ ClearLink(head_free[t])

(* put_cache_entry: push g on the cache of thread t. *)
put_cache_entry(t, g) ==
    /\ list' = [list EXCEPT ![g.xen] = head_free[t]]
    /\ head_free' = [head_free EXCEPT ![t] = g]
    /\ population' = [population EXCEPT ![t] = @ + 1]

(* A reference leaves the cache for the client. *)
Lend(t) ==
    /\ get_cache_entry(t)
    /\ nr_outstanding' = [nr_outstanding EXCEPT ![t] = @ + 1]
    /\ lent' = [lent EXCEPT ![t] = @ \union {head_free[t]}]

GnttabGrantForeignAccessCache(t) ==
    /\ pc[t] = "idle"
    /\ listed[t]
    /\ Cardinality(lent[t]) < MaxLent
    /\ \/ /\ population[t] > 0
          /\ Lend(t)
          /\ UNCHANGED <<pc, job, target>>
       \/ /\ population[t] = 0
          /\ target' = [target EXCEPT ![t] = population[t] + Threshold]
          /\ Call(t, "grant")
          /\ UNCHANGED <<list, population, nr_outstanding, head_free, lent>>
    /\ UNCHANGED <<lock, free_head, free_count, nr_frames, fully_mapped,
                   cacheConfig, held, ref>>

(* GnttabEndForeignAccessCache, once the entry has been revoked: put the   *)
(* reference back, and trim a cache that has grown well past its use.      *)
(* The faulty variants forget the minimum and trim too much.               *)
TrimsBelowMinimum(pop, min) == Threshold

EndCacheTarget(pop, min) ==
    IF pop - Threshold < min THEN min ELSE pop - Threshold

GnttabEndForeignAccessCache(t, g) ==
    /\ pc[t] = "idle"
    /\ listed[t]
    /\ lent' = [lent EXCEPT ![t] = @ \ {g}]
    /\ nr_outstanding' = [nr_outstanding EXCEPT ![t] = @ - 1]
    /\ put_cache_entry(t, g)
    /\ LET pop == population[t] + 1
       IN  IF /\ pop > min_population[t]
              /\ pop > nr_outstanding[t] - 1 + Threshold * 2
           THEN /\ target' = [target EXCEPT ![t] =
                                EndCacheTarget(pop, min_population[t])]
                /\ Call(t, "end")
           ELSE UNCHANGED <<pc, job, target>>
    /\ UNCHANGED <<lock, free_head, free_count, nr_frames, fully_mapped,
                   cacheConfig, held, ref>>

(* GnttabAllocCache up to its ReplenishCache.  A cache id is never zero.   *)
GnttabAllocCache(t, min) ==
    /\ pc[t] = "idle"
    /\ id[t] = 0
    /\ LET new == IF next_id = 0 THEN 1 ELSE next_id
       IN  /\ next_id' = (new + 1) % 4
           /\ id' = [id EXCEPT ![t] = new]
    /\ min_population' = [min_population EXCEPT ![t] = min]
    /\ listed' = [listed EXCEPT ![t] = (min = 0)]
    /\ IF min > 0
       THEN /\ target' = [target EXCEPT ![t] = min]
            /\ Call(t, "alloc")
       ELSE UNCHANGED <<pc, job, target>>
    /\ UNCHANGED <<lock, poolVars, population, nr_outstanding, head_free, lent,
                   held, ref>>

(* GnttabFreeCache; inc/xsapi.h:998 asks that nothing be out.              *)
GnttabFreeCache(t) ==
    /\ pc[t] = "idle"
    /\ listed[t]
    /\ lent[t] = {}
    /\ Goto(t, "remove")
    /\ UNCHANGED <<lock, poolVars, cacheVars, held, job, ref, target>>

(* RemoveEntryList, under a lock of its own, and the call of TrimCache.    *)
RemoveCache(t) ==
    /\ pc[t] = "remove"
    /\ listed' = [listed EXCEPT ![t] = FALSE]
    /\ min_population' = [min_population EXCEPT ![t] = 0]
    /\ target' = [target EXCEPT ![t] = 0]
    /\ Call(t, "free")
    /\ UNCHANGED <<lock, poolVars, next_id, id, population, nr_outstanding,
                   head_free, lent, held, ref>>
-----------------------------------------------------------------------------
(* acquire_irqsafe_lock(&gnttab_lock), then the first statement each job   *)
(* has under it.  The faulty variant does not wait for the lock.           *)
FirstStep(j) ==
    CASE j = "get" -> "take"
      [] j = "put" -> "link"
      [] j \in {"grant", "alloc"} -> "replenish"
      [] j \in {"end", "free"} -> "trim"

AcquireHeld(t) ==
    /\ pc[t] = "lock"
    /\ lock' = t
    /\ Goto(t, FirstStep(job[t]))
    /\ UNCHANGED <<poolVars, cacheVars, held, job, ref, target>>

Acquire(t) ==
    /\ pc[t] = "lock"
    /\ lock = NoThread
    /\ lock' = t
    /\ Goto(t, FirstStep(job[t]))
    /\ UNCHANGED <<poolVars, cacheVars, held, job, ref, target>>

(* get_free_entry, up to the read of the list head.  An empty list makes   *)
(* ExpandGrantTable add a frame.                                           *)
Pop(t, head, count) ==
    /\ ref' = [ref EXCEPT ![t] = head]
    /\ free_count' = count - 1
    /\ Goto(t, "unlink")

TakeFree(t) ==
    /\ pc[t] = "take"
    /\ free_count > 0
    /\ Pop(t, free_head, free_count)
    /\ UNCHANGED <<lock, list, free_head, nr_frames, fully_mapped, cacheVars,
                   held, job, target>>

ExpandGrantTable(t) ==
    /\ pc[t] = "take"
    /\ free_count = 0
    /\ nr_frames < MaxFrames
    /\ ~fully_mapped
    /\ list' = Pushed(nr_frames, free_head, list)
    /\ free_head' = LastOf(nr_frames)
    /\ nr_frames' = nr_frames + 1
    /\ Pop(t, free_head', PerFrame)
    /\ UNCHANGED <<lock, fully_mapped, cacheVars, held, job, target>>

(* No new frame: for want of IO memory, because Xen rejects it, or because *)
(* the table has its full size.  get_free_entry then releases the lock,    *)
(* whether or not it took it, and returns null; ReplenishCache releases it *)
(* again.                                                                  *)
TakeFails(t) ==
    /\ pc[t] = "take"
    /\ free_count = 0
    /\ \/ /\ nr_frames = MaxFrames \/ fully_mapped \/ ExpansionMayFail
          /\ UNCHANGED fully_mapped
       \/ /\ nr_frames < MaxFrames
          /\ ExpansionMayFail
          /\ fully_mapped' = TRUE
    /\ lock' = NoThread
    /\ Goto(t, IF job[t] = "get" THEN "idle" ELSE "unlock")
    /\ UNCHANGED <<list, free_head, free_count, nr_frames, cacheVars, held, job,
                   ref, target>>

(* The rest of get_free_entry; for ReplenishCache, put_cache_entry too. *)
Unlink(t) ==
    /\ pc[t] = "unlink"
    /\ free_head' = list[ref[t].xen]
    /\ IF job[t] = "get"
       THEN /\ ClearLink(ref[t])
            /\ Goto(t, "unlock")
            /\ UNCHANGED <<population, head_free>>
       ELSE /\ put_cache_entry(t, ChangeGrantCache(ref[t], id[t]))
            /\ Goto(t, "replenish")
    /\ UNCHANGED <<lock, free_count, nr_frames, fully_mapped, cacheConfig,
                   nr_outstanding, lent, held, job, ref, target>>

(* ReplenishCache's loop test. *)
ReplenishCache(t) ==
    /\ pc[t] = "replenish"
    /\ Goto(t, IF population[t] < target[t] THEN "take" ELSE "unlock")
    /\ UNCHANGED <<lock, poolVars, cacheVars, held, job, ref, target>>

(* TrimCache's loop test and get_cache_entry, which leads to               *)
(* put_free_entry.  The faulty variant forgets ChangeGrantCache.           *)
TrimKeepsCacheId(t) ==
    /\ pc[t] = "trim"
    /\ IF population[t] > target[t]
       THEN /\ ref' = [ref EXCEPT ![t] = head_free[t]]
            /\ get_cache_entry(t)
            /\ Goto(t, "link")
       ELSE /\ Goto(t, "unlock")
            /\ UNCHANGED <<ref, list, population, head_free>>
    /\ UNCHANGED <<lock, free_head, free_count, nr_frames, fully_mapped,
                   cacheConfig, nr_outstanding, lent, held, job, target>>

TrimCache(t) ==
    /\ pc[t] = "trim"
    /\ IF population[t] > target[t]
       THEN /\ ref' = [ref EXCEPT ![t] = ChangeGrantCache(head_free[t], 0)]
            /\ get_cache_entry(t)
            /\ Goto(t, "link")
       ELSE /\ Goto(t, "unlock")
            /\ UNCHANGED <<ref, list, population, head_free>>
    /\ UNCHANGED <<lock, free_head, free_count, nr_frames, fully_mapped,
                   cacheConfig, nr_outstanding, lent, held, job, target>>

(* put_free_entry in two steps; the faulty variant does not count.         *)
Link(t) ==
    /\ pc[t] = "link"
    /\ list' = [list EXCEPT ![ref[t].xen] = free_head]
    /\ Goto(t, "linked")
    /\ UNCHANGED <<lock, free_head, free_count, nr_frames, fully_mapped,
                   cacheVars, held, job, ref, target>>

put_free_entry(t) ==
    /\ pc[t] = "linked"
    /\ free_head' = ref[t]
    /\ free_count' = free_count + 1
    /\ Goto(t, IF job[t] = "put" THEN "unlock" ELSE "trim")
    /\ UNCHANGED <<lock, list, nr_frames, fully_mapped, cacheVars, held, job,
                   ref, target>>

(* release_irqsafe_lock and what each caller does after it.  It releases   *)
(* the lock whoever holds it.                                              *)
Release(t) ==
    /\ pc[t] = "unlock"
    /\ lock' = NoThread
    /\ ref' = [ref EXCEPT ![t] = null_GRANT_REF]
    /\ \/ /\ job[t] = "get"
          /\ held' = held \union {ref[t]}
          /\ Goto(t, "idle")
          /\ UNCHANGED <<list, cacheVars>>
       \/ /\ job[t] \in {"put", "end"}
          /\ Goto(t, "idle")
          /\ UNCHANGED <<list, cacheVars, held>>
       \/ /\ job[t] = "free"
          /\ id' = [id EXCEPT ![t] = 0]
          /\ Goto(t, "idle")
          /\ UNCHANGED <<list, next_id, population, nr_outstanding,
                         min_population, head_free, listed, lent, held>>
       \/ /\ job[t] = "grant"
          /\ Goto(t, "idle")
          /\ IF population[t] > 0
             THEN Lend(t)
             ELSE UNCHANGED <<list, population, nr_outstanding, head_free, lent>>
          /\ UNCHANGED <<cacheConfig, held>>
       \/ /\ job[t] = "alloc"
          /\ IF population[t] = target[t]
             THEN /\ listed' = [listed EXCEPT ![t] = TRUE]
                  /\ Goto(t, "idle")
             ELSE /\ Goto(t, "remove")
                  /\ UNCHANGED listed
          /\ UNCHANGED <<list, next_id, id, population, nr_outstanding,
                         min_population, head_free, lent, held>>
    /\ UNCHANGED <<free_head, free_count, nr_frames, fully_mapped, job, target>>

Next ==
    \E t \in Thread :
        \/ GnttabGetGrantRef(t)
        \/ \E g \in held : GnttabEndForeignAccess(t, g)
        \/ GnttabGrantForeignAccessCache(t)
        \/ \E g \in lent[t] : GnttabEndForeignAccessCache(t, g)
        \/ t \in CacheUser /\ \E min \in MinPopulation : GnttabAllocCache(t, min)
        \/ GnttabFreeCache(t)
        \/ RemoveCache(t)
        \/ Acquire(t)
        \/ TakeFree(t)
        \/ ExpandGrantTable(t)
        \/ TakeFails(t)
        \/ Unlink(t)
        \/ ReplenishCache(t)
        \/ TrimCache(t)
        \/ Link(t)
        \/ put_free_entry(t)
        \/ Release(t)

Spec == Init /\ [][Next]_vars
-----------------------------------------------------------------------------
TypeOK ==
    /\ lock \in Thread \union {NoThread}
    /\ list \in [XenRef -> GRANT_REF \union {null_GRANT_REF}]
    /\ free_head \in GRANT_REF \union {null_GRANT_REF}
    /\ free_count \in 0..(PerFrame * MaxFrames)
    /\ nr_frames \in 1..MaxFrames
    /\ fully_mapped \in BOOLEAN
    /\ next_id \in 0..3
    /\ id \in [Thread -> 0..3]
    /\ population \in [Thread -> Nat]
    /\ nr_outstanding \in [Thread -> Nat]
    /\ min_population \in [Thread -> Nat]
    /\ head_free \in [Thread -> GRANT_REF \union {null_GRANT_REF}]
    /\ listed \in [Thread -> BOOLEAN]
    /\ held \subseteq GRANT_REF
    /\ lent \in [Thread -> SUBSET GRANT_REF]
    /\ pc \in [Thread -> {"idle", "remove", "lock", "take", "unlink",
                          "replenish", "trim", "link", "linked", "unlock"}]
    /\ job \in [Thread -> {"get", "put", "grant", "end", "alloc", "free"}]
    /\ ref \in [Thread -> GRANT_REF \union {null_GRANT_REF}]
    /\ target \in [Thread -> Nat]

(* "Called with the grant table lock already acquired" (gnttab.c:139, of   *)
(* ExpandGrantTable): a thread that is working on the free list holds      *)
(* gnttab_lock.                                                            *)
LockHeld ==
    \A t \in Thread :
        pc[t] \in {"take", "unlink", "replenish", "trim", "link", "linked"}
            => lock = t

(* Follow the links from a list head. *)
Walk(head) ==
    LET at[n \in 0..(PerFrame * MaxFrames)] ==
            IF n = 0 THEN head
            ELSE IF at[n - 1] = null_GRANT_REF THEN null_GRANT_REF
            ELSE list[at[n - 1].xen]
    IN  at

Chained(head, count) == {Walk(head)[n] : n \in 0..(count - 1)}

(* Whenever gnttab_lock is free, the free list and the list of every cache *)
(* have exactly as many references as their counts say, and then end.      *)
CountsMatchLists ==
    lock = NoThread =>
        /\ Walk(free_head)[free_count] = null_GRANT_REF
        /\ null_GRANT_REF \notin Chained(free_head, free_count)
        /\ \A t \in Thread :
              /\ Walk(head_free[t])[population[t]] = null_GRANT_REF
              /\ null_GRANT_REF \notin Chained(head_free[t], population[t])

(* Whenever gnttab_lock is free, each usable Xen reference is in exactly   *)
(* one place: the free list, one cache, the hands of one client, or the    *)
(* arguments of one call that is giving it back.  The copy there carries   *)
(* the id of its cache, or zero (gnttab.c:70-73).                          *)
Places(x) ==
    LET from(t) == wrap_GRANT_REF(x, id[t])
        plain == wrap_GRANT_REF(x, 0)
    IN  {p \in {"free", "held"} \X {NoThread} :
            plain \in IF p[1] = "free" THEN Chained(free_head, free_count)
                      ELSE held}
        \union {p \in {"cached", "lent", "returning"} \X Thread :
            CASE p[1] = "cached" -> from(p[2]) \in Chained(head_free[p[2]],
                                                          population[p[2]])
              [] p[1] = "lent" -> from(p[2]) \in lent[p[2]]
              [] p[1] = "returning" -> job[p[2]] = "put" /\ ref[p[2]] = plain}

EveryReferenceOnce ==
    lock = NoThread =>
        \A x \in Reserved..(PerFrame * nr_frames - 1) :
            Cardinality(Places(x)) = 1

(* The XM_ASSERTs of put_free_entry, get_free_entry, put_cache_entry,      *)
(* get_cache_entry and GnttabFreeCache hold where they are evaluated.      *)
AssertionsHold ==
    \A t \in Thread :
        /\ pc[t] = "link" =>
              valid_GRANT_REF(ref[t]) /\ list[ref[t].xen] = null_GRANT_REF
        /\ pc[t] = "unlink" =>
              /\ valid_GRANT_REF(ref[t])
              /\ ref[t].cache = 0
              /\ (free_count = 0) = (list[ref[t].xen] = null_GRANT_REF)
        /\ pc[t] = "remove" => nr_outstanding[t] = 0
        /\ (population[t] = 0) = (head_free[t] = null_GRANT_REF)
        /\ population[t] > 0 =>
              valid_GRANT_REF(head_free[t]) /\ head_free[t].cache = id[t]
        /\ \A g \in lent[t] : g.cache = id[t] /\ list[g.xen] = null_GRANT_REF

(* The lists and counts of the pool are right, and no XM_ASSERT on them    *)
(* fails (the three definitions above).                                    *)
PoolConsistent == CountsMatchLists /\ EveryReferenceOnce /\ AssertionsHold

(* "It is guaranteed that at least @min_population grant references can be *)
(* allocated from the cache without an error" (inc/xsapi.h:985), however   *)
(* the cache has been used and trimmed since: what is out of a cache and   *)
(* what is left in it never fall below the minimum together.               *)
MinimumKept ==
    \A t \in Thread :
        listed[t] =>
            population[t] + nr_outstanding[t] >= min_population[t]
=============================================================================
