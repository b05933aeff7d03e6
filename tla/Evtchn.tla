------------------------------- MODULE Evtchn -------------------------------
(***************************************************************************)
(* Event channel ports: xenutil/evtchn.c lines 56-939.                     *)
(*                                                                         *)
(* Xen sets bits in the shared info page and interrupts CPU 0.  The        *)
(* interrupt handler scans the bits.  It calls the handler of an ordinary  *)
(* port at once; a DPC port it masks, and queues a DPC on the same CPU,    *)
(* which calls the handler until the bit stays clear and then unmasks the  *)
(* port.  The interrupt preempts the DPC.  On other CPUs, the owners of    *)
(* the ports allocate, raise, mask, stop and close them.  Only the table   *)
(* of handlers is under a lock, which the interrupt does not take.         *)
(*                                                                         *)
(* The shared info has one selector bit here, and the rotation of the scan *)
(* (last_evtchn_serviced) is any order.                                    *)
(***************************************************************************)
EXTENDS Integers, Sequences, FiniteSets, Functions

CONSTANTS Port, NoPort,  \* evtchn_port_handler structures
          Dpc,           \* those of class INTERDOMAIN_DPC or ALIEN
          XenPort,       \* Xen's port numbers
          Raised,        \* the structures passed to EvtchnRaiseLocally
          MaxEvents,     \* bound: events that are sent or raised
          MaxSuspends    \* bound: suspends

ASSUME EvtchnAssumption ==
    /\ IsFiniteSet(Port)
    /\ NoPort \notin Port
    /\ Dpc \subseteq Port
    /\ XenPort \subseteq Nat
    /\ Raised \subseteq Port
    /\ MaxEvents \in Nat
    /\ MaxSuspends \in Nat

Unbound == -1   \* the xen_port of a stopped port

VARIABLES
    pending, mask, sel, upcall,  \* the shared info page
    bound,         \* Xen: the structure each open port was allocated for
    handlers,      \* EventChannelHandlers
    xen_port, insert_count, stopping,  \* the structures
    ipc, snapshot, firing,       \* EvtchnHandleInterrupt, evtchns_pending
                   \* and the structure that FireHandler is given
    dpc, dport, queue,           \* DpcPortDpcHandler, its port, and the
                   \* DPCs that are queued on CPU 0
    ppc,           \* where the owner of each port is
    eventsLeft, suspendsLeft

sharedInfo == <<pending, mask, sel, upcall>>
portVars == <<xen_port, insert_count, stopping>>
tableVars == <<bound, handlers>>
intVars == <<ipc, snapshot, firing>>
dpcVars == <<dpc, dport, queue>>
bounds == <<eventsLeft, suspendsLeft>>
vars == <<sharedInfo, portVars, tableVars, intVars, dpcVars, ppc, bounds>>

Init ==
    /\ pending = {}
    /\ mask = {}
    /\ sel = FALSE
    /\ upcall = FALSE
    /\ bound = [x \in XenPort |-> NoPort]
    /\ handlers = [x \in XenPort |-> NoPort]
    /\ xen_port = [p \in Port |-> Unbound]
    /\ insert_count = [p \in Port |-> 0]
    /\ stopping = [p \in Port |-> FALSE]
    /\ ipc = "idle"
    /\ snapshot = {}
    /\ firing = NoPort
    /\ dpc = "idle"
    /\ dport = NoPort
    /\ queue = <<>>
    /\ ppc = [p \in Port |-> "free"]
    /\ eventsLeft = MaxEvents
    /\ suspendsLeft = MaxSuspends
-----------------------------------------------------------------------------
(* Xen.  An event makes the port pending and, unless it was or is masked,  *)
(* sets the selector and asks for an interrupt.                            *)
Upcall ==
    /\ sel' = TRUE
    /\ upcall' = (upcall \/ ~sel)

Raising == {"raise", "setPending", "retest", "remask", "mask", "setMasked",
            "hypercall"}
Announced == {"open", "masked", "unmasked"} \union Raising

Send(x) ==
    /\ eventsLeft > 0
    /\ bound[x] # NoPort
    /\ ppc[bound[x]] \in Announced
    /\ eventsLeft' = eventsLeft - 1
    /\ pending' = pending \union {x}
    /\ IF x \in pending \union mask THEN UNCHANGED <<sel, upcall>> ELSE Upcall
    /\ UNCHANGED <<mask, portVars, tableVars, intVars, dpcVars, ppc,
                   suspendsLeft>>

(* EVTCHNOP_unmask. *)
XenUnmask(x) ==
    /\ mask' = mask \ {x}
    /\ IF x \in mask \intersect pending THEN Upcall
                                       ELSE UNCHANGED <<sel, upcall>>
    /\ UNCHANGED pending
-----------------------------------------------------------------------------
(* EvtchnHandleInterrupt on CPU 0.  interrupt_live is ipc # "idle".        *)
InterruptStep(from, to) ==
    /\ ipc = from
    /\ ipc' = to
    /\ UNCHANGED <<xen_port, stopping, tableVars, dpc, dport, ppc,
                   bounds>>

Interrupt ==
    /\ upcall
    /\ InterruptStep("idle", "loop")
    /\ UNCHANGED <<sharedInfo, insert_count, snapshot, firing, queue>>

(* The outer loop, and interrupt_live = FALSE after it. *)
TestUpcall ==
    /\ InterruptStep("loop", IF upcall THEN "exchange" ELSE "idle")
    /\ upcall' = FALSE
    /\ UNCHANGED <<pending, mask, sel, insert_count, snapshot, firing, queue>>

ExchangeSel ==
    /\ InterruptStep("exchange", IF sel THEN "scan" ELSE "loop")
    /\ sel' = FALSE
    /\ UNCHANGED <<pending, mask, upcall, insert_count, snapshot, firing,
                   queue>>

Scan ==
    /\ InterruptStep("scan", "next")
    /\ snapshot' = pending \ mask
    /\ UNCHANGED <<sharedInfo, insert_count, firing, queue>>

(* The next port of the snapshot: one without a handler is cleared. *)
NextPort ==
    \/ /\ InterruptStep("next", "loop")
       /\ snapshot = {}
       /\ UNCHANGED <<sharedInfo, insert_count, snapshot, firing, queue>>
    \/ \E x \in snapshot :
         LET p == handlers[x] IN
           /\ InterruptStep("next", IF p = NoPort THEN "next"
                                    ELSE IF p \in Dpc THEN "mask" ELSE "clear")
           /\ snapshot' = snapshot \ {x}
           /\ firing' = p
           /\ pending' = IF p = NoPort THEN pending \ {x} ELSE pending
           /\ UNCHANGED <<mask, sel, upcall, insert_count, queue>>

(* FireHandler, for a DPC port. *)
FireMask ==
    /\ InterruptStep("mask", "insert")
    /\ mask' = mask \union {xen_port[firing]}
    /\ UNCHANGED <<pending, sel, upcall, insert_count, snapshot, firing,
                   queue>>

(* KeInsertQueueDpc: FALSE if the DPC is queued already. *)
FireInsert ==
    /\ IF firing \in Range(queue)
       THEN InterruptStep("insert", "next") /\ firing' = NoPort
                                            /\ UNCHANGED queue
       ELSE InterruptStep("insert", "count") /\ queue' = Append(queue, firing)
                                             /\ UNCHANGED firing
    /\ UNCHANGED <<sharedInfo, insert_count, snapshot>>

FireCount ==
    /\ InterruptStep("count", "next")
    /\ insert_count' = [insert_count EXCEPT ![firing] = @ + 1]
    /\ firing' = NoPort
    /\ UNCHANGED <<sharedInfo, snapshot, queue>>

(* FireHandler, for an ordinary port. *)
FireClear ==
    /\ InterruptStep("clear", "handler")
    /\ pending' = pending \ {xen_port[firing]}
    /\ UNCHANGED <<mask, sel, upcall, insert_count, snapshot, firing, queue>>

FireReturn ==
    /\ InterruptStep("handler", "next")
    /\ firing' = NoPort
    /\ UNCHANGED <<sharedInfo, insert_count, snapshot, queue>>
-----------------------------------------------------------------------------
(* DpcPortDpcHandler, which makes no step while the interrupt is live.     *)
DpcStep(from, to) ==
    /\ ipc = "idle"
    /\ dpc = from
    /\ dpc' = to
    /\ UNCHANGED <<sel, upcall, xen_port, stopping, tableVars, intVars,
                   ppc, bounds>>

StartDpc ==
    /\ DpcStep("idle", "drain")
    /\ queue # <<>>
    /\ dport' = Head(queue)
    /\ queue' = Tail(queue)
    /\ UNCHANGED <<pending, mask, insert_count>>

(* TestAndClearBit, and the callback if the bit was set. *)
Drain ==
    /\ dpc = "drain"
    /\ IF xen_port[dport] \in pending
       THEN /\ DpcStep("drain", "call")
            /\ pending' = pending \ {xen_port[dport]}
       ELSE DpcStep("drain", "unmask") /\ UNCHANGED pending
    /\ UNCHANGED <<mask, insert_count, dport, queue>>

CallReturn ==
    /\ DpcStep("call", "drain")
    /\ UNCHANGED <<pending, mask, insert_count, dport, queue>>

Unmask ==
    /\ DpcStep("unmask", "test")
    /\ mask' = mask \ {xen_port[dport]}
    /\ UNCHANGED <<pending, insert_count, dport, queue>>

(* Faulty: the DPC finishes without another look at the pending bit. *)
FinishUntested ==
    /\ DpcStep("test", "finish")
    /\ UNCHANGED <<pending, mask, insert_count, dport, queue>>

(* Faulty: the DPC keeps a port masked that is being stopped. *)
RemaskStopping ==
    /\ DpcStep("test", IF xen_port[dport] \in pending \/ stopping[dport]
                       THEN "remask" ELSE "finish")
    /\ UNCHANGED <<pending, mask, insert_count, dport, queue>>

TestPending ==
    /\ DpcStep("test",
               IF xen_port[dport] \in pending THEN "remask" ELSE "finish")
    /\ UNCHANGED <<pending, mask, insert_count, dport, queue>>

Remask ==
    /\ DpcStep("remask", "drain")
    /\ mask' = mask \union {xen_port[dport]}
    /\ UNCHANGED <<pending, insert_count, dport, queue>>

FinishDpc ==
    /\ DpcStep("finish", "idle")
    /\ insert_count' = [insert_count EXCEPT ![dport] = @ - 1]
    /\ dport' = NoPort
    /\ UNCHANGED <<pending, mask, queue>>
-----------------------------------------------------------------------------
(* The owner of a port, one thread for each.                               *)
OwnerGoes(p, from, to) ==
    /\ ppc[p] = from
    /\ ppc' = [ppc EXCEPT ![p] = to]

OwnerStep(p, from, to) ==
    /\ OwnerGoes(p, from, to)
    /\ UNCHANGED <<portVars, tableVars, intVars, dpcVars, suspendsLeft>>

LockFree == \A q \in Port : ppc[q] \notin {"unmask", "unhook"}

(* EVTCHNOP_alloc_unbound and the assignment of xen_port.  Xen is assumed  *)
(* not to hand out a number while EvtchnPortStop waits for its last users. *)
Released(x, ports) == \A q \in ports : xen_port[q] # x

EvtchnAllocUnbound(p) ==
    /\ OwnerGoes(p, "free", "hook")
    /\ \E x \in XenPort :
         /\ bound[x] = NoPort /\ Released(x, Port)
         /\ bound' = [bound EXCEPT ![x] = p]
         /\ xen_port' = [xen_port EXCEPT ![p] = x]
    /\ stopping' = [stopping EXCEPT ![p] = FALSE]
    /\ UNCHANGED <<sharedInfo, insert_count, handlers, intVars, dpcVars,
                   bounds>>

(* register_handler: the table entry, then unmask_port, under the lock. *)
register_handler(p) ==
    /\ OwnerGoes(p, "hook", "unmask")
    /\ LockFree
    /\ handlers' = [handlers EXCEPT ![xen_port[p]] = p]
    /\ UNCHANGED <<sharedInfo, portVars, bound, intVars, dpcVars,
                   bounds>>

unmask_port(p) ==
    /\ OwnerStep(p, "unmask", "open")
    /\ mask' = mask \ {xen_port[p]}
    /\ UNCHANGED <<pending, sel, upcall, eventsLeft>>

(* EvtchnRaiseLocally.  A port that is masked is so by its owner or, if it *)
(* is a DPC port, for its DPC.                                             *)
EvtchnRaiseLocally(p) ==
    /\ p \in Raised
    /\ eventsLeft > 0
    /\ ppc[p] \in {"open", "masked"}
    /\ OwnerStep(p, ppc[p], "raise")
    /\ eventsLeft' = eventsLeft - 1
    /\ UNCHANGED sharedInfo

RaiseStep(p, from, to) ==
    /\ OwnerStep(p, from, to)
    /\ UNCHANGED eventsLeft

RaiseTest(p) ==
    /\ RaiseStep(p, "raise", IF xen_port[p] \in mask THEN "setPending"
                                                    ELSE "mask")
    /\ UNCHANGED sharedInfo

SetPending(p) ==
    /\ \/ RaiseStep(p, "setPending", "retest")
       \/ RaiseStep(p, "setMasked", "hypercall")
    /\ pending' = pending \union {xen_port[p]}
    /\ UNCHANGED <<mask, sel, upcall>>

RaiseRetest(p) ==
    /\ RaiseStep(p, "retest", IF xen_port[p] \notin mask THEN "remask"
                              ELSE IF p \in Dpc THEN "open" ELSE "masked")
    /\ UNCHANGED sharedInfo

(* Faulty: the port is not masked before EVTCHNOP_unmask. *)
RaiseUnmasked(p) ==
    /\ \/ RaiseStep(p, "mask", "setMasked")
       \/ RaiseStep(p, "remask", "hypercall")
    /\ UNCHANGED sharedInfo

RaiseMask(p) ==
    /\ \/ RaiseStep(p, "mask", "setMasked")
       \/ RaiseStep(p, "remask", "hypercall")
    /\ mask' = mask \union {xen_port[p]}
    /\ UNCHANGED <<pending, sel, upcall>>

RaiseHypercall(p) ==
    /\ RaiseStep(p, "hypercall", "open")
    /\ XenUnmask(xen_port[p])

(* EvtchnPortMask and EvtchnPortUnmask, which are not for DPC ports.  When *)
(* EvtchnPortUnmask returns TRUE the caller deals with the event.          *)
EvtchnPortMask(p) ==
    /\ p \notin Dpc
    /\ OwnerStep(p, "open", "masked")
    /\ mask' = mask \union {xen_port[p]}
    /\ UNCHANGED <<pending, sel, upcall, eventsLeft>>

EvtchnPortUnmask(p) ==
    /\ OwnerStep(p, "masked", "unmasked")
    /\ mask' = mask \ {xen_port[p]}
    /\ UNCHANGED <<pending, sel, upcall, eventsLeft>>

TestAndClear(p) ==
    /\ OwnerStep(p, "unmasked", "open")
    /\ pending' = pending \ {xen_port[p]}
    /\ UNCHANGED <<mask, sel, upcall, eventsLeft>>
-----------------------------------------------------------------------------
(* EvtchnPortStop.  Under the lock: EVTCHNOP_close, then the table entry.  *)
(* On a port that is stopped already there is nothing to close.            *)
Hooked(p) == xen_port[p] # Unbound /\ handlers[xen_port[p]] = p

EvtchnPortStop(p) ==
    /\ ppc[p] \in {"open", "masked", "stopped"}
    /\ LockFree
    /\ IF Hooked(p)
       THEN /\ OwnerGoes(p, ppc[p], "unhook")
            /\ bound' = [bound EXCEPT ![xen_port[p]] = NoPort]
            /\ pending' = pending \ {xen_port[p]}
       ELSE OwnerGoes(p, ppc[p], "sync") /\ UNCHANGED <<bound, pending>>
    /\ UNCHANGED <<mask, sel, upcall, portVars, handlers, intVars, dpcVars,
                   bounds>>

Unhook(p) ==
    /\ OwnerGoes(p, "unhook", "sync")
    /\ handlers' = [handlers EXCEPT ![xen_port[p]] = NoPort]
    /\ UNCHANGED <<sharedInfo, portVars, bound, intVars, dpcVars,
                   bounds>>

(* Faulty: no SynchronizeWithInterrupt. *)
Unsynchronized(p) ==
    /\ OwnerStep(p, "sync", IF p \in Dpc THEN "stopping" ELSE "forget")
    /\ UNCHANGED <<sharedInfo, eventsLeft>>

SynchronizeWithInterrupt(p) ==
    /\ ipc = "idle"
    /\ OwnerStep(p, "sync", IF p \in Dpc THEN "stopping" ELSE "forget")
    /\ UNCHANGED <<sharedInfo, eventsLeft>>

SetStopping(p) ==
    /\ OwnerGoes(p, "stopping", "wait")
    /\ stopping' = [stopping EXCEPT ![p] = TRUE]
    /\ UNCHANGED <<sharedInfo, xen_port, insert_count, tableVars, intVars,
                   dpcVars, bounds>>

WaitForDpc(p) ==
    /\ OwnerStep(p, "wait", "forget")
    /\ insert_count[p] = 0
    /\ UNCHANGED <<sharedInfo, eventsLeft>>

(* xen_port = -1 and handler = NULL.                                       *)
Forget(p) ==
    /\ OwnerGoes(p, "forget", "stopped")
    /\ xen_port' = [xen_port EXCEPT ![p] = Unbound]
    /\ UNCHANGED <<sharedInfo, insert_count, stopping, tableVars, intVars,
                   dpcVars, bounds>>

(* The end of EvtchnClose. *)
XmFreeMemory(p) ==
    /\ OwnerStep(p, "stopped", "free")
    /\ UNCHANGED <<sharedInfo, eventsLeft>>
-----------------------------------------------------------------------------
(* A suspend, with the world stopped: CPU 0 is in no interrupt and no DPC  *)
(* and nobody holds the lock.  Owners are assumed to keep it off, with a   *)
(* suspend token or at DISPATCH_LEVEL, while they allocate or raise.       *)
(* EvtchnRecoverFromSuspend gives each listed port a new number, in a new  *)
(* shared info page, and forgets what was pending.                         *)
EvtchnRecoverFromSuspend ==
    LET listed == {p \in Port : Hooked(p)} IN
      \E new \in [listed -> XenPort] :
        LET Owner(x) == IF \E p \in listed : new[p] = x
                        THEN CHOOSE p \in listed : new[p] = x ELSE NoPort
        IN /\ IsInjective(new)
           /\ \A p \in listed : Released(new[p], Port \ listed)
           /\ xen_port' = [p \in Port |-> IF p \in listed THEN new[p]
                                                          ELSE xen_port[p]]
           /\ bound' = [x \in XenPort |-> Owner(x)]
           /\ handlers' = [x \in XenPort |-> Owner(x)]

Suspend ==
    /\ suspendsLeft > 0
    /\ ipc = "idle" /\ dpc = "idle"
    /\ LockFree /\ \A p \in Port : ppc[p] \notin Raising \union {"hook"}
    /\ suspendsLeft' = suspendsLeft - 1
    /\ EvtchnRecoverFromSuspend
    /\ pending' = {} /\ mask' = {} /\ sel' = FALSE /\ upcall' = FALSE
    /\ UNCHANGED <<insert_count, stopping, intVars, dpcVars, ppc,
                   eventsLeft>>
-----------------------------------------------------------------------------
EvtchnHandleInterrupt ==
    \/ Interrupt \/ TestUpcall \/ ExchangeSel \/ Scan \/ NextPort
    \/ FireMask \/ FireInsert \/ FireCount \/ FireClear \/ FireReturn

DpcPortDpcHandler ==
    \/ StartDpc \/ Drain \/ CallReturn \/ Unmask \/ TestPending \/ Remask
    \/ FinishDpc

(* What an owner has begun, and what it may begin. *)
Continue(p) ==
    \/ register_handler(p) \/ unmask_port(p)
    \/ RaiseTest(p) \/ SetPending(p) \/ RaiseRetest(p) \/ RaiseMask(p)
    \/ RaiseHypercall(p) \/ TestAndClear(p)
    \/ Unhook(p) \/ SynchronizeWithInterrupt(p) \/ SetStopping(p)
    \/ WaitForDpc(p) \/ Forget(p)

Begin(p) ==
    \/ EvtchnAllocUnbound(p) \/ EvtchnRaiseLocally(p) \/ EvtchnPortMask(p)
    \/ EvtchnPortUnmask(p) \/ EvtchnPortStop(p) \/ XmFreeMemory(p)

Next ==
    \/ EvtchnHandleInterrupt
    \/ DpcPortDpcHandler
    \/ \E p \in Port : Continue(p) \/ Begin(p)
    \/ \E x \in XenPort : Send(x)
    \/ Suspend

Spec == Init /\ [][Next]_vars

(* CPU 0 takes its interrupts and runs its DPCs, and owners finish what    *)
(* they have begun.                                                        *)
Fairness ==
    /\ WF_vars(EvtchnHandleInterrupt)
    /\ WF_vars(DpcPortDpcHandler)
    /\ \A p \in Port : WF_vars(Continue(p))

FairSpec == Spec /\ Fairness
-----------------------------------------------------------------------------
Firing == {"mask", "insert", "count", "clear", "handler"}

TypeOK ==
    /\ pending \subseteq XenPort
    /\ mask \subseteq XenPort
    /\ sel \in BOOLEAN /\ upcall \in BOOLEAN
    /\ bound \in [XenPort -> Port \union {NoPort}]
    /\ handlers \in [XenPort -> Port \union {NoPort}]
    /\ xen_port \in [Port -> XenPort \union {Unbound}]
    /\ insert_count \in [Port -> 0..2]
    /\ stopping \in [Port -> BOOLEAN]
    /\ ipc \in {"idle", "loop", "exchange", "scan", "next"} \union Firing
    /\ snapshot \subseteq XenPort
    /\ firing \in Port \union {NoPort}
    /\ dpc \in {"idle", "drain", "call", "unmask", "test", "remask", "finish"}
    /\ dport \in Port \union {NoPort}
    /\ queue \in Seq(Dpc)
    /\ ppc \in [Port -> Announced \union
                    {"free", "hook", "unmask", "unhook", "sync", "stopping",
                     "wait", "forget", "stopped"}]
    /\ eventsLeft \in 0..MaxEvents
    /\ suspendsLeft \in 0..MaxSuspends

(* inc/xsapi.h:740-742, "the last invocation of the callback ... has       *)
(* completed": once EvtchnPortStop is past its waits, neither the          *)
(* interrupt nor a DPC that is queued or running uses the structure.       *)
PortOutlivesUsers ==
    \A p \in Port :
        ppc[p] \in {"forget", "stopped", "free", "hook"} =>
            firing # p /\ dport # p /\ p \notin Range(queue)

(* evtchn.c:77-140: insert_count is the number of times the DPC is queued  *)
(* or running.  The interrupt counts a DPC after it has queued it, which   *)
(* nobody sees.                                                            *)
InsertCountExact ==
    \A p \in Dpc :
        insert_count[p] + (IF ipc = "count" /\ firing = p THEN 1 ELSE 0) =
            (IF p \in Range(queue) THEN 1 ELSE 0) +
            (IF dport = p THEN 1 ELSE 0)

(* The XM_ASSERTs of FireHandler (evtchn.c:620) and of DpcPortDpcHandler   *)
(* (evtchn.c:560), and the TraceBugCheck of reconstruct_handler that finds *)
(* a port number already taken (evtchn.c:407).                             *)
AssertionsHold ==
    /\ ipc = "count" => ~stopping[firing]
    /\ dpc = "call" => ppc[dport] \notin {"stopped", "free"}
    /\ \A p \in Port :
          ppc[p] = "hook" /\ LockFree => handlers[xen_port[p]] = NoPort

(* evtchn.c:585-596: "the port may have been raised in between the last    *)
(* TestAndClear() and the unmask".  An event that is pending on a DPC port *)
(* is always somebody's to deal with: an interrupt that will still look at *)
(* the bit, or a DPC before its last look.                                 *)
NoEventStranded ==
    \A x \in pending :
        LET p == handlers[x] IN
        p \in Dpc \ Raised =>
            \/ x \notin mask /\ sel /\ (upcall \/ ipc = "exchange")
            \/ x \notin mask /\ ipc = "scan"
            \/ x \in snapshot
            \/ firing = p
            \/ p \in Range(queue)
            \/ dport = p /\ dpc # "finish"

(* The DPC machinery keeps its books: every use of a DPC is counted, no    *)
(* assertion on it fails and no event is left to nobody.                   *)
DpcConsistent ==
    TypeOK /\ InsertCountExact /\ AssertionsHold /\ NoEventStranded

(* inc/xsapi.h:701-702 and 782-785: when a port is notified, by the remote *)
(* domain or by EvtchnRaiseLocally, a callback is invoked.  Before it is,  *)
(* the bit is cleared; an owner that masked its port sees to that itself.  *)
EventsDelivered ==
    \A x \in XenPort :
        (x \in pending /\ bound[x] # NoPort)
            ~> \/ x \notin pending
               \/ /\ bound[x] # NoPort
                  /\ ppc[bound[x]] \in {"masked", "unmasked"}

(* EvtchnPortStop returns: the interrupt and the DPC that it waits for end *)
(* although events keep coming on other ports.                             *)
StopReturns ==
    \A p \in Port : (ppc[p] = "sync") ~> (ppc[p] = "stopped")
=============================================================================
