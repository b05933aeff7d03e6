-------------------------- MODULE GnttabPoolProofs --------------------------
(* What GnttabPool guarantees for every number of threads and references.  *)
EXTENDS GnttabPool, FiniteSetTheorems, TLAPS

Busy == {"lock", "take", "unlink", "replenish", "trim", "link", "linked",
         "unlock"}

Types ==
    /\ population \in [Thread -> Nat]
    /\ nr_outstanding \in [Thread -> Int]
    /\ min_population \in [Thread -> Nat]
    /\ target \in [Thread -> Nat]
    /\ pc \in [Thread -> Busy \union {"idle", "remove"}]
    /\ job \in [Thread -> {"get", "put", "grant", "end", "alloc", "free"}]
    /\ lent = [t \in Thread |-> lent[t]]

Flags == listed \in [Thread -> BOOLEAN]

(* What a thread at each place is doing. *)
Jobs(t) ==
    /\ pc[t] = "replenish" => job[t] \in {"grant", "alloc"}
    /\ pc[t] = "trim" => job[t] \in {"end", "free"}
    /\ pc[t] \in {"link", "linked"} => job[t] \in {"put", "end", "free"}
    /\ pc[t] \in {"take", "unlink"} => job[t] \in {"get", "grant", "alloc"}

(* The counter of a cache is not short of what clients have. *)
Outstanding(t) ==
    /\ IsFiniteSet(lent[t])
    /\ Cardinality(lent[t]) =< nr_outstanding[t]

(* What a call in progress will leave in the cache. *)
Targets(t) ==
    pc[t] \in Busy =>
        /\ job[t] = "end" => target[t] >= min_population[t]
        /\ job[t] = "free" => ~listed[t]
        /\ job[t] = "alloc" => ~listed[t] /\ target[t] = min_population[t]

Minimum(t) ==
    listed[t] => population[t] + nr_outstanding[t] >= min_population[t]

(* The counts alone do not show that trimming is safe: that depends on the *)
(* target of the call in progress, and on nr_outstanding not being         *)
(* negative, which follows from what clients have.                         *)
IInv ==
    /\ Types
    /\ Flags
    /\ \A t \in Thread : Jobs(t) /\ Outstanding(t) /\ Targets(t) /\ Minimum(t)

LEMMA InitIInv == Init => IInv
<1> SUFFICES ASSUME Init PROVE IInv
    OBVIOUS
<1>1. Types /\ Flags
    BY DEF Init, Types, Flags, Busy
<1>2. ASSUME NEW t \in Thread
      PROVE  Jobs(t) /\ Outstanding(t) /\ Targets(t) /\ Minimum(t)
    BY FS_EmptySet DEF Init, Jobs, Outstanding, Targets, Minimum, Busy
<1>. QED
    BY <1>1, <1>2 DEF IInv

(* A step that moves neither references nor limits: only pc changes, along *)
(* an edge between two places of the same call.                            *)
LEMMA MoveIInv ==
    ASSUME IInv, NEW t \in Thread, NEW l \in Busy, pc[t] \in Busy,
           Goto(t, l),
           l = "replenish" => job[t] \in {"grant", "alloc"},
           l = "trim" => job[t] \in {"end", "free"},
           l \in {"link", "linked"} => job[t] \in {"put", "end", "free"},
           l \in {"take", "unlink"} => job[t] \in {"get", "grant", "alloc"},
           UNCHANGED <<population, nr_outstanding, min_population, target, job,
                       lent, listed>>
    PROVE  IInv'
<1>1. Types' /\ Flags'
    BY DEF IInv, Types, Flags, Goto
<1>2. ASSUME NEW u \in Thread
      PROVE  (Jobs(u) /\ Outstanding(u) /\ Targets(u) /\ Minimum(u))'
    BY DEF IInv, Types, Goto, Jobs, Outstanding, Targets, Minimum
<1>. QED
    BY <1>1, <1>2 DEF IInv

(* A reference goes from the cache to the client. *)
LEMMA LendIInv ==
    ASSUME IInv, NEW t \in Thread, Lend(t)
    PROVE  /\ population' = [population EXCEPT ![t] = @ - 1]
           /\ nr_outstanding' = [nr_outstanding EXCEPT ![t] = @ + 1]
           /\ lent' = [u \in Thread |-> lent'[u]]
           /\ \A u \in Thread : Outstanding(u)'
<1>1. /\ population' = [population EXCEPT ![t] = @ - 1]
      /\ nr_outstanding' = [nr_outstanding EXCEPT ![t] = @ + 1]
      /\ lent' = [lent EXCEPT ![t] = @ \union {head_free[t]}]
    BY DEF Lend, get_cache_entry
<1>2. lent' = [u \in Thread |-> lent'[u]]
    BY <1>1 DEF IInv, Types
<1>3. ASSUME NEW u \in Thread
      PROVE  Outstanding(u)'
  <2>1. IsFiniteSet(lent[u]) /\ Cardinality(lent[u]) =< nr_outstanding[u]
        /\ Cardinality(lent[u]) \in Nat /\ nr_outstanding[u] \in Int
    BY FS_CardinalityType DEF IInv, Outstanding, Types
  <2>2. /\ IsFiniteSet(lent[u] \union {head_free[t]})
        /\ Cardinality(lent[u] \union {head_free[t]}) \in Nat
        /\ Cardinality(lent[u] \union {head_free[t]}) =< Cardinality(lent[u]) + 1
    BY <2>1, FS_AddElement, FS_CardinalityType
  <2>3. CASE u = t
    <3>1. /\ lent'[u] = lent[u] \union {head_free[t]}
          /\ nr_outstanding'[u] = nr_outstanding[u] + 1
        BY <1>1, <2>3 DEF IInv, Types
    <3>. QED
        BY <2>1, <2>2, <3>1 DEF Outstanding
  <2>4. CASE u # t
    BY <1>1, <2>1, <2>4 DEF IInv, Types, Outstanding
  <2>. QED
    BY <2>3, <2>4
<1>. QED
    BY <1>1, <1>2, <1>3

LEMMA EndCacheIInv ==
    ASSUME IInv, NEW t \in Thread, NEW g \in lent[t],
           GnttabEndForeignAccessCache(t, g)
    PROVE  IInv'
<1>1. /\ population' = [population EXCEPT ![t] = @ + 1]
      /\ nr_outstanding' = [nr_outstanding EXCEPT ![t] = @ - 1]
      /\ lent' = [lent EXCEPT ![t] = @ \ {g}]
      /\ UNCHANGED <<min_population, listed>>
      /\ pc[t] = "idle"
    BY DEF GnttabEndForeignAccessCache, put_cache_entry, cacheConfig
<1>2. EndCacheTarget(population[t] + 1, min_population[t]) \in Nat
      /\ EndCacheTarget(population[t] + 1, min_population[t]) >= min_population[t]
    BY PoolAssumption DEF EndCacheTarget, IInv, Types
<1>3. \/ UNCHANGED <<pc, job, target>>
      \/ /\ target' = [target EXCEPT ![t] =
                            EndCacheTarget(population[t] + 1, min_population[t])]
         /\ pc' = [pc EXCEPT ![t] = "lock"]
         /\ job' = [job EXCEPT ![t] = "end"]
    BY DEF GnttabEndForeignAccessCache, Call, Goto
<1>4. Types' /\ Flags'
  <2>1. lent' = [u \in Thread |-> lent'[u]]
    BY <1>1 DEF IInv, Types
  <2>2. /\ population' \in [Thread -> Nat]
        /\ nr_outstanding' \in [Thread -> Int]
        /\ min_population' \in [Thread -> Nat]
    BY <1>1 DEF IInv, Types
  <2>3. /\ target' \in [Thread -> Nat]
        /\ pc' \in [Thread -> Busy \union {"idle", "remove"}]
        /\ job' \in [Thread -> {"get", "put", "grant", "end", "alloc", "free"}]
    BY <1>2, <1>3 DEF IInv, Types, Busy
  <2>4. Flags'
    BY <1>1 DEF IInv, Flags
  <2>. QED
    BY <2>1, <2>2, <2>3, <2>4 DEF Types
<1>5. ASSUME NEW u \in Thread
      PROVE  Jobs(u)' /\ Targets(u)' /\ Minimum(u)'
  <2>1. Jobs(u)'
    BY <1>3 DEF IInv, Types, Jobs
  <2>2. Targets(u)'
    BY <1>1, <1>2, <1>3 DEF IInv, Types, Targets, GnttabEndForeignAccessCache
  <2>3. Minimum(u)'
    BY <1>1 DEF IInv, Types, Minimum
  <2>. QED
    BY <2>1, <2>2, <2>3
<1>6. ASSUME NEW u \in Thread
      PROVE  Outstanding(u)'
  <2>1. IsFiniteSet(lent[u]) /\ Cardinality(lent[u]) =< nr_outstanding[u]
        /\ Cardinality(lent[u]) \in Nat /\ nr_outstanding[u] \in Int
    BY FS_CardinalityType DEF IInv, Outstanding, Types
  <2>2. CASE u = t
    <3>1. /\ lent'[u] = lent[u] \ {g}
          /\ nr_outstanding'[u] = nr_outstanding[u] - 1
        BY <1>1, <2>2 DEF IInv, Types
    <3>2. /\ IsFiniteSet(lent[u] \ {g})
          /\ Cardinality(lent[u] \ {g}) = Cardinality(lent[u]) - 1
        BY <2>1, <2>2, FS_RemoveElement
    <3>. QED
        BY <2>1, <3>1, <3>2 DEF Outstanding
  <2>3. CASE u # t
    BY <1>1, <2>1, <2>3 DEF IInv, Types, Outstanding
  <2>. QED
    BY <2>2, <2>3
<1>. QED
    BY <1>4, <1>5, <1>6 DEF IInv

LEMMA GrantCacheIInv ==
    ASSUME IInv, NEW t \in Thread, GnttabGrantForeignAccessCache(t)
    PROVE  IInv'
<1>1. CASE population[t] > 0 /\ Lend(t) /\ UNCHANGED <<pc, job, target>>
  <2>1. UNCHANGED <<min_population, listed>>
    BY DEF GnttabGrantForeignAccessCache, cacheConfig
  <2>2. Types' /\ Flags'
    BY <1>1, <2>1, LendIInv DEF IInv, Types, Flags
  <2>3. ASSUME NEW u \in Thread PROVE (Jobs(u) /\ Targets(u) /\ Minimum(u))'
    BY <1>1, <2>1, LendIInv DEF IInv, Types, Jobs, Targets, Minimum
  <2>. QED
    BY <1>1, <2>2, <2>3, LendIInv DEF IInv
<1>2. CASE /\ target' = [target EXCEPT ![t] = population[t] + Threshold]
           /\ Call(t, "grant")
           /\ UNCHANGED <<list, population, nr_outstanding, head_free, lent>>
  <2>1. UNCHANGED <<min_population, listed>>
    BY DEF GnttabGrantForeignAccessCache, cacheConfig
  <2>2. Types' /\ Flags'
    BY <1>2, <2>1, PoolAssumption DEF IInv, Types, Flags, Call, Goto, Busy
  <2>3. ASSUME NEW u \in Thread
        PROVE (Jobs(u) /\ Outstanding(u) /\ Targets(u) /\ Minimum(u))'
    BY <1>2, <2>1 DEF IInv, Types, Jobs, Outstanding, Targets, Minimum, Call, Goto
  <2>. QED
    BY <2>2, <2>3 DEF IInv
<1>. QED
    BY <1>1, <1>2 DEF GnttabGrantForeignAccessCache

LEMMA AllocIInv ==
    ASSUME IInv, NEW t \in Thread, NEW min \in MinPopulation,
           t \in CacheUser, GnttabAllocCache(t, min)
    PROVE  IInv'
<1>1. min \in Nat
    BY PoolAssumption
<1>2. Types' /\ Flags'
    BY <1>1 DEF IInv, Types, Flags, GnttabAllocCache, Call, Goto, Busy
<1>3. ASSUME NEW u \in Thread
      PROVE  (Jobs(u) /\ Outstanding(u) /\ Targets(u) /\ Minimum(u))'
  <2>1. Jobs(u)' /\ Outstanding(u)'
    BY DEF IInv, Types, Jobs, Outstanding, GnttabAllocCache, Call, Goto
  <2>2. nr_outstanding[u] >= 0
    BY FS_CardinalityType DEF IInv, Outstanding, Types
  <2>3. CASE u # t
    BY <2>1, <2>3 DEF IInv, Types, Targets, Minimum, GnttabAllocCache, Call, Goto
  <2>4. CASE u = t
    <3>1. /\ listed' = [listed EXCEPT ![t] = (min = 0)]
          /\ min_population' = [min_population EXCEPT ![t] = min]
          /\ listed \in [Thread -> BOOLEAN]
          /\ min_population \in [Thread -> Nat]
        BY DEF IInv, Types, Flags, GnttabAllocCache
    <3>1a. min_population'[t] = min
        BY <3>1
    <3>1b. listed'[t] <=> min = 0
        BY <3>1, Zenon
    <3>2. Minimum(u)'
        BY <1>1, <2>2, <2>4, <3>1a, <3>1b DEF IInv, Types, Minimum, GnttabAllocCache
    <3>3. CASE min > 0
      <4>1. ~listed'[t]
        BY <1>1, <3>1b, <3>3
      <4>2. target'[t] = min /\ job'[t] = "alloc"
        BY <3>3 DEF IInv, Types, GnttabAllocCache, Call
      <4>. QED
        BY <2>1, <2>4, <3>1a, <3>2, <4>1, <4>2 DEF Targets
    <3>4. CASE ~(min > 0)
      <4>1. pc'[t] = "idle"
        BY <3>4 DEF GnttabAllocCache
      <4>. QED
        BY <2>1, <2>4, <3>2, <4>1 DEF Targets, Busy
    <3>. QED
        BY <3>3, <3>4
  <2>. QED
    BY <2>3, <2>4
<1>. QED
    BY <1>2, <1>3 DEF IInv

(* A step that gives the thread a new call, or ends one, and leaves the    *)
(* caches alone.                                                           *)
LEMMA CallIInv ==
    ASSUME IInv, NEW t \in Thread,
           pc' \in [Thread -> Busy \union {"idle", "remove"}],
           job' \in [Thread -> {"get", "put", "grant", "end", "alloc", "free"}],
           \A u \in Thread \ {t} : pc'[u] = pc[u] /\ job'[u] = job[u],
           \/ pc'[t] \in {"idle", "remove"}
           \/ pc'[t] = "lock" /\ job'[t] \in {"get", "put"},
           UNCHANGED <<population, nr_outstanding, min_population, target, lent,
                       listed>>
    PROVE  IInv'
<1>1. Types' /\ Flags'
    BY DEF IInv, Types, Flags
<1>2. ASSUME NEW u \in Thread
      PROVE  (Jobs(u) /\ Outstanding(u) /\ Targets(u) /\ Minimum(u))'
    BY DEF IInv, Types, Jobs, Outstanding, Targets, Minimum, Busy
<1>. QED
    BY <1>1, <1>2 DEF IInv

LEMMA RemoveIInv ==
    ASSUME IInv, NEW t \in Thread, RemoveCache(t)
    PROVE  IInv'
<1>1. Types' /\ Flags'
    BY DEF IInv, Types, Flags, RemoveCache, Call, Goto, Busy
<1>2. ASSUME NEW u \in Thread
      PROVE  (Jobs(u) /\ Outstanding(u) /\ Targets(u) /\ Minimum(u))'
    BY DEF IInv, Types, Flags, Jobs, Outstanding, Targets, Minimum, RemoveCache,
           Call, Goto
<1>. QED
    BY <1>1, <1>2 DEF IInv

LEMMA UnlinkIInv ==
    ASSUME IInv, NEW t \in Thread, Unlink(t)
    PROVE  IInv'
<1>1. CASE job[t] = "get"
    BY <1>1, MoveIInv DEF Unlink, Goto, cacheConfig, Busy
<1>2. CASE job[t] # "get"
  <2>1. /\ population' = [population EXCEPT ![t] = @ + 1]
        /\ pc' = [pc EXCEPT ![t] = "replenish"]
        /\ pc[t] = "unlink"
        /\ UNCHANGED <<nr_outstanding, min_population, target, job, lent, listed>>
    BY <1>2 DEF Unlink, put_cache_entry, Goto, cacheConfig
  <2>2. Types' /\ Flags'
    BY <2>1 DEF IInv, Types, Flags, Busy
  <2>3. ASSUME NEW u \in Thread
        PROVE  (Jobs(u) /\ Outstanding(u) /\ Targets(u) /\ Minimum(u))'
    BY <1>2, <2>1 DEF IInv, Types, Jobs, Outstanding, Targets, Minimum, Busy
  <2>. QED
    BY <2>2, <2>3 DEF IInv
<1>. QED
    BY <1>1, <1>2

LEMMA TrimIInv ==
    ASSUME IInv, NEW t \in Thread, TrimCache(t)
    PROVE  IInv'
<1>1. CASE population[t] > target[t]
  <2>1. /\ population' = [population EXCEPT ![t] = @ - 1]
        /\ pc' = [pc EXCEPT ![t] = "link"]
        /\ pc[t] = "trim"
        /\ UNCHANGED <<nr_outstanding, min_population, target, job, lent, listed>>
    BY <1>1 DEF TrimCache, get_cache_entry, Goto, cacheConfig
  <2>2. Types' /\ Flags'
    BY <1>1, <2>1 DEF IInv, Types, Flags, Busy
  <2>3. ASSUME NEW u \in Thread
        PROVE  (Jobs(u) /\ Outstanding(u) /\ Targets(u))'
    BY <2>1 DEF IInv, Types, Jobs, Outstanding, Targets, Busy
  <2>4. job[t] = "end" => target[t] >= min_population[t]
    BY <2>1 DEF IInv, Targets, Busy
  <2>5. job[t] \in {"end", "free"} /\ (job[t] = "free" => ~listed[t])
    BY <2>1 DEF IInv, Jobs, Targets, Busy
  <2>6. nr_outstanding[t] >= 0
    BY FS_CardinalityType DEF IInv, Outstanding, Types
  <2>7. ASSUME NEW u \in Thread PROVE Minimum(u)'
    BY <1>1, <2>1, <2>4, <2>5, <2>6 DEF IInv, Types, Minimum
  <2>. QED
    BY <2>2, <2>3, <2>7 DEF IInv
<1>2. CASE ~(population[t] > target[t])
    BY <1>2, MoveIInv DEF TrimCache, Goto, cacheConfig, Busy
<1>. QED
    BY <1>1, <1>2

LEMMA ReleaseIInv ==
    ASSUME IInv, NEW t \in Thread, Release(t)
    PROVE  IInv'
<1>0. pc[t] = "unlock" /\ UNCHANGED <<job, target>>
    BY DEF Release
<1>1. CASE /\ Goto(t, "idle")
           /\ UNCHANGED <<population, nr_outstanding, min_population, listed,
                          lent>>
  <2>1. pc' = [pc EXCEPT ![t] = "idle"]
    BY <1>1 DEF Goto
  <2>. QED
    BY <1>0, <1>1, <2>1, CallIInv DEF IInv, Types
<1>2. CASE job[t] = "grant" /\ population[t] > 0
  <2>1. /\ Lend(t)
        /\ pc' = [pc EXCEPT ![t] = "idle"]
        /\ UNCHANGED <<min_population, listed>>
    BY <1>2 DEF Release, Goto, cacheConfig
  <2>2. Types' /\ Flags'
    BY <1>0, <1>2, <2>1, LendIInv DEF IInv, Types, Flags
  <2>3. ASSUME NEW u \in Thread PROVE (Jobs(u) /\ Targets(u) /\ Minimum(u))'
    BY <1>0, <2>1, LendIInv DEF IInv, Types, Jobs, Targets, Minimum, Busy
  <2>. QED
    BY <2>1, <2>2, <2>3, LendIInv DEF IInv
<1>3. CASE job[t] = "alloc" /\ population[t] = target[t]
  <2>1. /\ listed' = [listed EXCEPT ![t] = TRUE]
        /\ pc' = [pc EXCEPT ![t] = "idle"]
        /\ UNCHANGED <<population, nr_outstanding, min_population, lent>>
    BY <1>3 DEF Release, Goto
  <2>2. Types' /\ Flags'
    BY <1>0, <2>1 DEF IInv, Types, Flags
  <2>3. ASSUME NEW u \in Thread PROVE (Jobs(u) /\ Outstanding(u) /\ Targets(u))'
    BY <1>0, <2>1 DEF IInv, Types, Flags, Jobs, Outstanding, Targets, Busy
  <2>4. target[t] = min_population[t]
    BY <1>0, <1>3 DEF IInv, Targets, Busy
  <2>5. nr_outstanding[t] >= 0
    BY FS_CardinalityType DEF IInv, Outstanding, Types
  <2>6. ASSUME NEW u \in Thread PROVE Minimum(u)'
    BY <1>3, <2>1, <2>4, <2>5 DEF IInv, Types, Flags, Minimum
  <2>. QED
    BY <2>2, <2>3, <2>6 DEF IInv
<1>4. CASE job[t] = "alloc" /\ population[t] # target[t]
  <2>1. /\ pc' = [pc EXCEPT ![t] = "remove"]
        /\ UNCHANGED <<population, nr_outstanding, min_population, lent, listed>>
    BY <1>4 DEF Release, Goto
  <2>. QED
    BY <1>0, <2>1, CallIInv DEF IInv, Types
<1>5. CASE job[t] \in {"get", "put", "end", "free"}
    BY <1>1, <1>5 DEF Release, cacheVars
<1>6. CASE job[t] = "grant" /\ ~(population[t] > 0)
    BY <1>1, <1>6 DEF Release, cacheConfig
<1>. QED
    BY <1>2, <1>3, <1>4, <1>5, <1>6 DEF IInv, Types

LEMMA NextIInv == IInv /\ [Next]_vars => IInv'
<1> SUFFICES ASSUME IInv, [Next]_vars PROVE IInv'
    OBVIOUS
<1>1. CASE UNCHANGED vars
    BY <1>1 DEF vars, cacheVars, threadVars, IInv, Types, Flags, Jobs,
                Outstanding, Targets, Minimum
<1>2. ASSUME NEW t \in Thread,
             \/ GnttabGetGrantRef(t)
             \/ \E g \in held : GnttabEndForeignAccess(t, g)
             \/ GnttabFreeCache(t)
      PROVE  IInv'
  <2>1. /\ pc' = [pc EXCEPT ![t] = "lock"] \/ pc' = [pc EXCEPT ![t] = "remove"]
        /\ \/ job' = job /\ pc'[t] = "remove"
           \/ job' = [job EXCEPT ![t] = "get"]
           \/ job' = [job EXCEPT ![t] = "put"]
        /\ UNCHANGED <<population, nr_outstanding, min_population, target, lent,
                       listed>>
    BY <1>2 DEF GnttabGetGrantRef, GnttabEndForeignAccess, GnttabFreeCache,
                Call, Goto, cacheVars, IInv, Types
  <2>. QED
    BY <2>1, CallIInv DEF IInv, Types, Busy
<1>3. ASSUME NEW t \in Thread, Acquire(t)
      PROVE  IInv'
  <2>1. FirstStep(job[t]) \in Busy
        /\ (FirstStep(job[t]) = "replenish" => job[t] \in {"grant", "alloc"})
        /\ (FirstStep(job[t]) = "trim" => job[t] \in {"end", "free"})
        /\ (FirstStep(job[t]) \in {"link", "linked"} => job[t] = "put")
        /\ (FirstStep(job[t]) \in {"take", "unlink"} => job[t] = "get")
    BY DEF IInv, Types, FirstStep, Busy
  <2>. QED
    BY <1>3, <2>1, MoveIInv DEF Acquire, cacheVars, Busy
<1>4. ASSUME NEW t \in Thread, TakeFree(t) \/ ExpandGrantTable(t)
      PROVE  IInv'
    BY <1>4, MoveIInv
       DEF TakeFree, ExpandGrantTable, Pop, cacheVars, Busy, IInv, Jobs
<1>5. ASSUME NEW t \in Thread, TakeFails(t)
      PROVE  IInv'
  <2>1. CASE job[t] = "get"
    <3>1. pc' = [pc EXCEPT ![t] = "idle"]
        BY <1>5, <2>1 DEF TakeFails, Goto
    <3>. QED
        BY <1>5, <3>1, CallIInv DEF TakeFails, cacheVars, IInv, Types
  <2>2. CASE job[t] # "get"
    BY <1>5, <2>2, MoveIInv DEF TakeFails, cacheVars, Busy
  <2>. QED
    BY <2>1, <2>2
<1>6. ASSUME NEW t \in Thread,
             ReplenishCache(t) \/ Link(t) \/ put_free_entry(t)
      PROVE  IInv'
  <2>1. CASE ReplenishCache(t)
    BY <2>1, MoveIInv DEF ReplenishCache, cacheVars, Busy, IInv, Jobs
  <2>2. CASE Link(t)
    BY <2>2, MoveIInv DEF Link, cacheVars, Busy, IInv, Jobs
  <2>3. CASE put_free_entry(t)
    BY <2>3, MoveIInv DEF put_free_entry, cacheVars, Busy, IInv, Jobs
  <2>. QED
    BY <1>6, <2>1, <2>2, <2>3
<1>7. CASE Next
    BY <1>2, <1>3, <1>4, <1>5, <1>6, <1>7, GrantCacheIInv, EndCacheIInv,
       AllocIInv, RemoveIInv, UnlinkIInv, TrimIInv, ReleaseIInv DEF Next
<1>. QED
    BY <1>1, <1>7

(* A grant cache keeps the promise of GnttabAllocCache whatever sequence   *)
(* of grants, releases, replenishments and trims it goes through, and      *)
(* whether or not the grant table is exhausted meanwhile.                  *)
THEOREM MinimumIsKept == Spec => []MinimumKept
<1>1. IInv => MinimumKept
    BY DEF IInv, Minimum, MinimumKept
<1>. QED
    BY <1>1, InitIInv, NextIInv, PTL DEF Spec
-----------------------------------------------------------------------------
(* Without caches nobody enters get_free_entry with the lock already held, *)
(* so its release on a full table is the release of its own lock.          *)
PoolOnly(t) ==
    /\ lent[t] = {}
    /\ pc[t] \in {"idle", "lock", "take", "unlink", "link", "linked", "unlock"}
    /\ job[t] \in {"get", "put"}
    /\ pc[t] \in {"take", "unlink"} => job[t] = "get"
    /\ pc[t] \in {"link", "linked"} => job[t] = "put"
    /\ pc[t] \in {"take", "unlink", "link", "linked", "unlock"} => lock = t

PoolInv ==
    /\ pc = [t \in Thread |-> pc[t]]
    /\ job = [t \in Thread |-> job[t]]
    /\ lock \in Thread \union {NoThread}
    /\ listed = [t \in Thread |-> FALSE]
    /\ \A t \in Thread : PoolOnly(t)

LEMMA NextPoolInv ==
    ASSUME CacheUser = {}, PoolInv, [Next]_vars
    PROVE  PoolInv'
<1>1. CASE UNCHANGED vars
    BY <1>1 DEF vars, cacheVars, threadVars, PoolInv, PoolOnly
<1>2. ASSUME NEW t \in Thread,
             \/ GnttabGetGrantRef(t)
             \/ \E g \in held : GnttabEndForeignAccess(t, g)
      PROVE  PoolInv'
    BY <1>2 DEF GnttabGetGrantRef, GnttabEndForeignAccess, Call, Goto, cacheVars,
                PoolInv, PoolOnly
<1>3. ASSUME NEW t \in Thread, Acquire(t)
      PROVE  PoolInv'
    BY <1>3, PoolAssumption DEF Acquire, FirstStep, Goto, cacheVars, PoolInv, PoolOnly
<1>4. ASSUME NEW t \in Thread,
             TakeFree(t) \/ ExpandGrantTable(t)
      PROVE  PoolInv'
    BY <1>4 DEF TakeFree, ExpandGrantTable, Pop, Goto, cacheVars, PoolInv, PoolOnly
<1>5. ASSUME NEW t \in Thread, TakeFails(t)
      PROVE  PoolInv'
    BY <1>5, PoolAssumption DEF TakeFails, Goto, cacheVars, PoolInv, PoolOnly
<1>6. ASSUME NEW t \in Thread, Unlink(t) \/ Link(t) \/ put_free_entry(t)
      PROVE  PoolInv'
    BY <1>6 DEF Unlink, Link, put_free_entry, Goto, cacheVars, cacheConfig,
                PoolInv, PoolOnly
<1>7. ASSUME NEW t \in Thread, Release(t)
      PROVE  PoolInv'
    BY <1>7, PoolAssumption DEF Release, Goto, cacheVars, PoolInv, PoolOnly
<1>8. ASSUME NEW t \in Thread
      PROVE  /\ ~GnttabGrantForeignAccessCache(t)
             /\ ~\E g \in lent[t] : GnttabEndForeignAccessCache(t, g)
             /\ ~GnttabFreeCache(t)
             /\ ~RemoveCache(t)
             /\ ~ReplenishCache(t)
             /\ ~TrimCache(t)
    BY DEF GnttabGrantForeignAccessCache, GnttabEndForeignAccessCache,
           GnttabFreeCache, RemoveCache, ReplenishCache, TrimCache, PoolInv, PoolOnly
<1>9. CASE Next
    BY <1>2, <1>3, <1>4, <1>5, <1>6, <1>7, <1>8, <1>9 DEF Next
<1>. QED
    BY <1>1, <1>9

(* gnttab_lock protects the free list for any number of threads that use   *)
(* the main pool only, full table or not.                                  *)
THEOREM PoolExcludes == CacheUser = {} => (Spec => []LockHeld)
<1> SUFFICES ASSUME CacheUser = {} PROVE Spec => []LockHeld
    OBVIOUS
<1>1. Init => PoolInv
    BY DEF Init, PoolInv, PoolOnly
<1>2. PoolInv /\ [Next]_vars => PoolInv'
    BY NextPoolInv
<1>3. PoolInv => LockHeld
    BY DEF PoolInv, PoolOnly, LockHeld
<1>. QED
    BY <1>1, <1>2, <1>3, PTL DEF Spec
=============================================================================
