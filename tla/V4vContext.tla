----------------------------- MODULE V4vContext -----------------------------
(***************************************************************************)
(* The life of the V4V driver's file contexts and rings (create.c, ring.c  *)
(* and the set-up ioctls of ioctl.c).                                      *)
(*                                                                         *)
(* A context is referenced by its handle, by the context list, by the DPCs *)
(* that walk a copy of the list, by a pending accept that will use it, by  *)
(* the lookup of a connection and, if it listens, by each of its accepters *)
(* (which also share its ring).  A listener whose handle is closed stays   *)
(* listed, PASSIVE, until its last accepter is gone.                       *)
(*                                                                         *)
(* Everything under contextLock or ringLock is one step, together with the *)
(* clean-up of a context that no one else can reach.  As the library       *)
(* does, a user closes a handle when no call on it is being dispatched,    *)
(* and that of an accepter when the accept has completed (v4vapi.h).       *)
(***************************************************************************)
EXTENDS Naturals, FiniteSets, FiniteSetsExt, SequencesExt

CONSTANTS
    Ctx,          \* the contexts (each file is opened once)
    Walker,       \* "dpc" (V4vVirqNotifyDpc), "timer" (V4vConnectTimerDpc)
                  \* or "resume" (V4vDisconnectAllStreams)
    PortCount,    \* ports are 0..PortCount - 1 (2^32 in the code)
    UserPort,     \* the ports that users bind to
    Partner,      \* the partners that users bind to
    Backlog,      \* of each listener
    MayFail       \* allocations and hypercalls may fail

V4V_PORT_NONE == 0
FirstPort == PortCount \div 2     \* 0x80000000, the first random port
NoCtx == "none"

VARIABLES
    pde,     \* contexts, their list and its length, and the rings
    walk,    \* what each walker is doing
    pending, \* the accepters for which an accept IRP is queued
    lost     \* references that no one will release

ctxVars == <<pde, walk, pending, lost>>

Unopened == [handle |-> "unopened", state |-> "none", type |-> "none", refc |-> 0,
             ring |-> NoCtx, listener |-> NoCtx, syns |-> 0]
NoRing == [refc |-> 0, registered |-> FALSE, port |-> V4V_PORT_NONE, partner |-> NoCtx]
Resting == [held |-> {}, at |-> NoCtx, seen |-> "none", look |-> NoCtx]

(* A ring is named after the context that bound it. *)
ContextInit ==
    /\ pde = [ctx |-> [c \in Ctx |-> Unopened], list |-> {}, count |-> 0,
              ring |-> [c \in Ctx |-> NoRing]]
    /\ walk = [w \in Walker |-> Resting]
    /\ pending = {}
    /\ lost = [c \in Ctx |-> 0]

-----------------------------------------------------------------------------
(* Reference counting: operators from pde to pde.                           *)

V4vAddRefContext(s, c) == [s EXCEPT !.ctx[c].refc = @ + 1]
V4vAddRefRing(s, r) == [s EXCEPT !.ring[r].refc = @ + 1]

(* A mutant of V4vReleaseRing: the list's reference is not discounted.      *)
ReleaseRingLast(s, r) ==
    IF s.ring[r].refc = 1
    THEN [s EXCEPT !.ring[r] = NoRing]
    ELSE [s EXCEPT !.ring[r].refc = @ - 1]

(* The last user but the list unlinks, unregisters and frees the ring.      *)
V4vReleaseRing(s, r) ==
    IF s.ring[r].refc = 2
    THEN [s EXCEPT !.ring[r] = NoRing]
    ELSE [s EXCEPT !.ring[r].refc = @ - 1]

(* The reference of the context is dropped; a listener that only the list   *)
(* still holds is unlinked as well.                                         *)
DropReference(s, c) ==
    IF s.ctx[c].type = "listener" /\ s.ctx[c].refc = 2
    THEN [s EXCEPT !.ctx[c].refc = 0, !.list = @ \ {c}, !.count = @ - 1]
    ELSE [s EXCEPT !.ctx[c].refc = @ - 1]

(* The clean-up that an unreferenced context is given before it is freed.   *)
FreeContext(s, c) ==
    LET unringed == IF s.ctx[c].ring = NoCtx THEN s ELSE V4vReleaseRing(s, s.ctx[c].ring)
    IN  [unringed EXCEPT !.ctx[c] = [Unopened EXCEPT !.handle = "freed"]]

(* A mutant of V4vReleaseContextInternal: a freed accepter keeps its        *)
(* reference to the listener.                                               *)
ReleaseContextOnly(s, c) ==
    LET dropped == DropReference(s, c)
    IN  IF dropped.ctx[c].refc = 0 THEN FreeContext(dropped, c) ELSE dropped

(* The release of a context; an accepter then releases its listener.        *)
V4vReleaseContextInternal(s, c) ==
    LET dropped == DropReference(s, c)
        l == s.ctx[c].listener
        listenerDropped == IF l = NoCtx THEN dropped ELSE DropReference(dropped, l)
        listenerFreed == IF l # NoCtx /\ listenerDropped.ctx[l].refc = 0
                         THEN FreeContext(listenerDropped, l) ELSE listenerDropped
    IN  IF dropped.ctx[c].refc = 0 THEN FreeContext(listenerFreed, c) ELSE dropped

V4vUnlinkFromContextList(s, c) ==
    LET unlinked == V4vReleaseContextInternal([s EXCEPT !.list = @ \ {c}], c)
    IN  [unlinked EXCEPT !.count = @ - 1]

-----------------------------------------------------------------------------
(* A step of the user's on contexts, which leaves the walkers alone. *)
Becomes(s) == pde' = s /\ UNCHANGED walk

V4vDispatchCreate(c) ==
    /\ pde.ctx[c].handle = "unopened"
    /\ Becomes([pde EXCEPT
         !.ctx[c] = [Unopened EXCEPT !.handle = "open", !.state = "uninitialized",
                                     !.refc = 2],
         !.list = @ \cup {c}, !.count = @ + 1])
    /\ UNCHANGED <<pending, lost>>

V4vCtrlInitializeFile(c) ==
    /\ pde.ctx[c].handle = "open" /\ pde.ctx[c].state = "uninitialized"
    /\ Becomes([pde EXCEPT !.ctx[c].state = "idle"])
    /\ UNCHANGED <<pending, lost>>

(* The rings in the list: those with a reference. *)
RingList == {r \in Ctx : pde.ring[r].refc > 0}
V4vPortInUse(port) == \E r \in RingList : pde.ring[r].port = port
V4vRingIdInUse(port, partner) ==
    \E r \in RingList : pde.ring[r].port = port /\ pde.ring[r].partner = partner

(* The given random port, or the one after the highest in use.              *)
V4vSparePortNumber(port) ==
    IF V4vPortInUse(port)
    THEN (Max({FirstPort} \cup {pde.ring[r].port : r \in RingList}) + 1) % PortCount
    ELSE port

(* V4vCtrlBind with a port, or with none: one is found.  A failure leaves   *)
(* the context as it was.                                                   *)
V4vCtrlBind(c, port, partner) ==
    LET p == IF port = V4V_PORT_NONE THEN V4vSparePortNumber(FirstPort) ELSE port
    IN  /\ pde.ctx[c].handle = "open" /\ pde.ctx[c].state = "idle"
        /\ port = V4V_PORT_NONE \/ ~V4vRingIdInUse(port, partner)
        /\ Becomes([pde EXCEPT
             !.ring[c] = [refc |-> 2, registered |-> TRUE, port |-> p,
                          partner |-> partner],
             !.ctx[c].ring = c, !.ctx[c].type = "datagram", !.ctx[c].state = "bound"])
        /\ UNCHANGED <<pending, lost>>

ListenBegins(c) ==
    /\ pde.ctx[c].handle = "open" /\ pde.ctx[c].state = "bound"
    /\ Becomes([pde EXCEPT !.ctx[c].type = "listener", !.ctx[c].state = "listening"])
    /\ UNCHANGED <<pending, lost>>

(* V4vDoAccepts for listener l: each SYN is given to a pending accept, if   *)
(* its ACK can be sent.                                                     *)
AcceptCompletes(l) ==
    \E a \in pending :
        /\ pde.ctx[a].listener = l /\ pde.ctx[l].syns > 0
        /\ \E result \in {"accepted"} \cup (IF MayFail THEN {"disconnected"} ELSE {}) :
             pde' = LET s == V4vReleaseContextInternal(pde, a)
                    IN  [s EXCEPT !.ctx[l].syns = @ - 1, !.ctx[a].state = result]
        /\ pending' = pending \ {a}
        /\ UNCHANGED <<walk, lost>>

(* V4vCtrlAccept on listener l with the file of a.  If the IRP cannot be    *)
(* queued, the reference for it is not given back.                          *)
AcceptBegins(l, a) ==
    LET s == V4vAddRefRing(
               V4vAddRefContext(V4vAddRefContext(pde, a), l), pde.ctx[l].ring)
        accepting == [s EXCEPT
             !.ctx[a].listener = l, !.ctx[a].ring = pde.ctx[l].ring,
             !.ctx[a].type = "accepter", !.ctx[a].state = "accepting"]
    IN  /\ pde.ctx[l].handle = "open" /\ pde.ctx[l].state = "listening"
        /\ pde.ctx[a].handle = "open" /\ pde.ctx[a].state = "uninitialized"
        /\ Becomes(accepting)
        /\ \/ pending' = pending \cup {a} /\ UNCHANGED lost
           \/ MayFail /\ lost' = [lost EXCEPT ![a] = @ + 1] /\ UNCHANGED pending

(* V4vCsqCompleteCanceledIrp for the accept: the reference goes with it     *)
(* only while the context is accepting.                                     *)
CancelAccept(a) ==
    /\ a \in pending
    /\ pending' = pending \ {a}
    /\ IF pde.ctx[a].state = "accepting"
       THEN Becomes(V4vReleaseContextInternal(pde, a)) /\ UNCHANGED lost
       ELSE lost' = [lost EXCEPT ![a] = @ + 1] /\ UNCHANGED <<pde, walk>>

UserDisconnects(c) ==
    /\ pde.ctx[c].handle = "open" /\ pde.ctx[c].state = "accepted"
    /\ Becomes([pde EXCEPT !.ctx[c].state = "disconnected"])
    /\ UNCHANGED <<pending, lost>>

(* V4vDispatchCleanup: a listener is left in the list; another context is   *)
(* taken out of it first.                                                   *)
V4vDispatchCleanup(c) ==
    /\ pde.ctx[c].handle = "open" /\ c \notin pending
    /\ IF pde.ctx[c].type = "listener"
       THEN Becomes([pde EXCEPT !.ctx[c].state = "passive", !.ctx[c].handle = "closing"])
       ELSE Becomes(V4vUnlinkFromContextList(
                      [pde EXCEPT !.ctx[c].state = "closed", !.ctx[c].handle = "closing"], c))
    /\ UNCHANGED <<pending, lost>>

CleanupRelease(c) ==
    /\ pde.ctx[c].handle = "closing"
    /\ Becomes(V4vReleaseContextInternal([pde EXCEPT !.ctx[c].handle = "closed"], c))
    /\ UNCHANGED <<pending, lost>>

-----------------------------------------------------------------------------
(* The walkers. *)

V4vGetAllContexts(w) ==
    /\ walk[w] = Resting /\ pde.list # {}
    /\ pde' = [pde EXCEPT !.ctx = [c \in Ctx |->
                 IF c \in pde.list THEN [pde.ctx[c] EXCEPT !.refc = @ + 1]
                 ELSE pde.ctx[c]]]
    /\ walk' = [walk EXCEPT ![w].held = pde.list]
    /\ UNCHANGED <<pending, lost>>

(* V4vProcessContextReads reads the state of a listener, and acts on what   *)
(* it has read until it goes on to another context (reads for the others    *)
(* take no references).                                                     *)
Visit(w, c) ==
    /\ w # "resume" /\ c \in walk[w].held /\ walk[w].look = NoCtx
    /\ pde.ctx[c].state \in {"listening", "passive"}
    /\ walk' = [walk EXCEPT ![w].at = c, ![w].seen = pde.ctx[c].state]
    /\ UNCHANGED <<pde, pending, lost>>

(* V4vDisconnectAllStreams at a stream. *)
StreamDisconnects(w, c) ==
    /\ w = "resume" /\ c \in walk[w].held
    /\ pde.ctx[c].type \in {"listener", "accepter"}
    /\ pde' = [pde EXCEPT !.ctx[c].state = "disconnected"]
    /\ UNCHANGED <<walk, pending, lost>>

(* A SYN for a context that was seen to listen (V4vProcessPreAcceptReads).  *)
SynArrives(w) ==
    LET l == walk[w].at
    IN  /\ walk[w].seen = "listening" /\ walk[w].look = NoCtx
        /\ pde.ctx[l].syns < Backlog
        /\ pde' = [pde EXCEPT !.ctx[l].syns = @ + 1]
        /\ UNCHANGED <<walk, pending, lost>>

(* Data for a connection: V4vGetContextByConnectionId finds the accepter,   *)
(* which is released when the data, or a reset, has been processed.         *)
LookUp(w, a) ==
    /\ walk[w].seen \in {"listening", "passive"} /\ walk[w].look = NoCtx
    /\ a \in pde.list /\ pde.ctx[a].state = "accepted" /\ pde.ctx[a].type = "accepter"
    /\ pde' = V4vAddRefContext(pde, a)
    /\ walk' = [walk EXCEPT ![w].look = a]
    /\ UNCHANGED <<pending, lost>>

LookupDone(w, reset) ==
    LET a == walk[w].look
        s == IF reset THEN [pde EXCEPT !.ctx[a].state = "disconnected"] ELSE pde
    IN  /\ a # NoCtx
        /\ pde' = V4vReleaseContextInternal(s, a)
        /\ walk' = [walk EXCEPT ![w].look = NoCtx]
        /\ UNCHANGED <<pending, lost>>

V4vPutAllContexts(w) ==
    /\ walk[w].held # {} /\ walk[w].look = NoCtx
    /\ pde' = FoldLeft(V4vReleaseContextInternal, pde, SetToSeq(walk[w].held))
    /\ walk' = [walk EXCEPT ![w] = Resting]
    /\ UNCHANGED <<pending, lost>>

ContextNext ==
    \/ \E c \in Ctx :
         \/ V4vDispatchCreate(c) \/ V4vCtrlInitializeFile(c) \/ ListenBegins(c)
         \/ \E port \in UserPort, partner \in Partner : V4vCtrlBind(c, port, partner)
         \/ AcceptCompletes(c) \/ CancelAccept(c) \/ UserDisconnects(c)
         \/ V4vDispatchCleanup(c) \/ CleanupRelease(c)
         \/ \E a \in Ctx \ {c} : AcceptBegins(c, a)
    \/ \E w \in Walker :
         \/ V4vGetAllContexts(w) \/ SynArrives(w) \/ V4vPutAllContexts(w)
         \/ \E c \in Ctx : \/ Visit(w, c) \/ StreamDisconnects(w, c)
                         \/ LookUp(w, c)
         \/ \E reset \in BOOLEAN : LookupDone(w, reset)

ContextSpec == ContextInit /\ [][ContextNext]_ctxVars

-----------------------------------------------------------------------------
Live == {c \in Ctx : pde.ctx[c].handle \notin {"unopened", "freed"}}

(* Who has a reference to the context. *)
References(c) ==
    (IF pde.ctx[c].handle \in {"open", "closing"} THEN 1 ELSE 0)
    + (IF c \in pde.list THEN 1 ELSE 0)
    + (IF c \in pending THEN 1 ELSE 0)
    + Cardinality({w \in Walker : c \in walk[w].held})
    + Cardinality({w \in Walker : c = walk[w].look})
    + Cardinality({a \in Live : pde.ctx[a].listener = c})
    + lost[c]

(* A context is freed exactly when its last user is done: its count is the  *)
(* number of those who will still use it (handle, list, walkers, accepts,   *)
(* lookups, accepters), whatever the order in which a closed handle, a      *)
(* passive listener's last accepter and the DPCs let go of it; and the      *)
(* count that sizes V4vGetAllContexts' array is the length of the list.     *)
ContextsOutliveUsers ==
    /\ \A c \in Ctx : IF c \in Live
                      THEN pde.ctx[c].refc = References(c) /\ References(c) > 0
                      ELSE References(c) = 0
    /\ pde.count = Cardinality(pde.list)

(* A ring is in the list, and registered with Xen, exactly as long as some  *)
(* context uses it, be it the one that bound it or an accepter; and no two  *)
(* rings have the same id, except with the port that V4vSparePortNumber's   *)
(* addition wraps to.                                                       *)
RingsMatchUsers ==
    LET users(r) == {c \in Live : pde.ctx[c].ring = r}
    IN  /\ \A r \in Ctx :
             IF users(r) = {} THEN pde.ring[r] = NoRing
             ELSE pde.ring[r].registered /\ pde.ring[r].refc = 1 + Cardinality(users(r))
        /\ \A r, q \in RingList :
             /\ r # q /\ pde.ring[r].port = pde.ring[q].port
             /\ pde.ring[r].partner = pde.ring[q].partner
             => pde.ring[r].port = V4V_PORT_NONE
=============================================================================
