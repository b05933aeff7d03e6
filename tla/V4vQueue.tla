------------------------------ MODULE V4vQueue ------------------------------
(***************************************************************************)
(* The queue of pending IRPs of the V4V driver and what sends them.        *)
(*                                                                         *)
(* csq.c keeps every pending IRP in one cancel-safe queue, and beside it a *)
(* list of the destinations that queued writes go to: each has the chain   *)
(* of those writes and the length of the first, which the driver tells Xen *)
(* to be woken when there is room.  rw.c takes writes out of the queue in  *)
(* two ways: a dispatched write drives all the writes of its file, and the *)
(* VIRQ DPC (or a thread that completed a read) drives those of each       *)
(* destination.  What cannot be sent is put back after the loop.           *)
(***************************************************************************)
EXTENDS Naturals, Sequences, FiniteSets, SequencesExt, TLC

CONSTANTS
    Irp,
    FileOf, DstOf, LenOf,  \* functions on Irp
    KindOf,                \* of an IRP: "data", "syn", "ack" or "rst"
    StreamFile,            \* the files that are streams
    Dispatcher,            \* threads that dispatch writes
    Dpc,                   \* the VIRQ DPC, serialised by dpcLock
    MAX_IRP_COUNT,         \* XENV4V_MAX_IRP_COUNT
    Capacity,              \* the size of each destination's ring
    Faults                 \* of "memory", "send", "close": what may go wrong

Files == {FileOf[i] : i \in Irp}
Dsts == {DstOf[i] : i \in Irp}
Threads == Dispatcher \cup {Dpc}
NoOne == "no one"

VARIABLES
    csq,       \* pendingIrpQueue, pendingIrpCount, destList, destCount
    op,        \* the operation in the IRP's DriverContext[0]
    completed, \* how often IoCompleteRequest was called for the IRP
    state,     \* of each file: "up" or "down" (DISCONNECTED)
    ringLock,  \* who holds the lock of each file's ring
    thread,    \* what each thread is doing
    peer,      \* of each destination: free space, the space that Xen waits
               \* for (0: none) and whether the ring exists
    virq       \* the V4V interrupt is pending

queueVars == <<csq, op, completed, state, ringLock, thread, peer, virq>>

(* The length of a write that Xen has to find room for. *)
XENV4V_PAYLOAD_DATA_LEN(i) == LenOf[i]

IsWrite(i) == op[i] \in {"data", "syn", "ack", "rst"}

Idle == [pc |-> "idle", file |-> NoOne, cur |-> NoOne, ret |-> <<>>,
         ents |-> <<>>, counter |-> 0]

QueueInit ==
    /\ csq = [queue |-> <<>>, count |-> 0, dests |-> <<>>, destCount |-> 0]
    /\ op = [i \in Irp |-> "new"]
    /\ completed = [i \in Irp |-> 0]
    /\ state = [f \in Files |-> "up"]
    /\ ringLock = [f \in Files |-> NoOne]
    /\ thread = [t \in Threads |-> Idle]
    /\ peer = [d \in Dsts |-> [space |-> Capacity, wanted |-> 0, exists |-> TRUE]]
    /\ virq = FALSE

-----------------------------------------------------------------------------
(* csq.c: operators from queue to queue, under queueLock.                   *)

DestIndex(q, d) == {k \in 1..Len(q.dests) : q.dests[k].dst = d}

(* A pushed-up IRP becomes the head of its chain, and sets the length.      *)
V4vCsqChainIrp(x, i, front) ==
    IF front
    THEN [x EXCEPT !.refc = @ + 1, !.chain = <<i>> \o @,
                   !.nextLength = XENV4V_PAYLOAD_DATA_LEN(i)]
    ELSE [x EXCEPT !.refc = @ + 1, !.chain = Append(@, i)]

(* A mutant of V4vCsqUnchainIrp: the length of the new head is not stored.  *)
UnchainKeepingLength(x, i) ==
    [x EXCEPT !.refc = @ - 1, !.chain = SelectSeq(@, LAMBDA j : j # i)]

V4vCsqUnchainIrp(x, i) ==
    LET rest == SelectSeq(x.chain, LAMBDA j : j # i)
    IN  [x EXCEPT !.refc = @ - 1, !.chain = rest,
                  !.nextLength = IF Head(x.chain) = i /\ rest # <<>>
                                 THEN XENV4V_PAYLOAD_DATA_LEN(Head(rest)) ELSE @]

V4vCsqLinkDestination(q, i, front) ==
    LET here == DestIndex(q, DstOf[i])
    IN  IF here # {}
        THEN [q EXCEPT !.dests[CHOOSE k \in here : TRUE] =
                V4vCsqChainIrp(@, i, front)]
        ELSE [q EXCEPT !.destCount = @ + 1,
                       !.dests = Append(@,
                         [dst |-> DstOf[i], refc |-> 1, chain |-> <<i>>,
                          nextLength |-> XENV4V_PAYLOAD_DATA_LEN(i)])]

V4vCsqUnlinkDestination(q, i) ==
    LET k == CHOOSE k \in DestIndex(q, DstOf[i]) : TRUE
        x == V4vCsqUnchainIrp(q.dests[k], i)
    IN  IF x.refc = 0
        THEN [q EXCEPT !.dests = RemoveAt(@, k), !.destCount = @ - 1]
        ELSE [q EXCEPT !.dests[k] = x]

V4vCsqInsertIrpEx(q, i, write, head) ==
    LET linked == IF write THEN V4vCsqLinkDestination(q, i, head) ELSE q
    IN  [linked EXCEPT !.queue = IF head THEN <<i>> \o @ ELSE Append(@, i),
                       !.count = @ + 1]

V4vCsqRemoveIrp(q, i) ==
    LET unlinked == IF IsWrite(i) THEN V4vCsqUnlinkDestination(q, i) ELSE q
    IN  [unlinked EXCEPT !.queue = SelectSeq(@, LAMBDA j : j # i),
                         !.count = @ - 1]

(* STATUS_QUOTA_EXCEEDED, and for a write STATUS_NO_MEMORY: no room for a   *)
(* destination record.                                                      *)
InsertMayFail(write) == csq.count = MAX_IRP_COUNT \/ (write /\ "memory" \in Faults)
InsertMayWork == csq.count # MAX_IRP_COUNT

(* V4vCsqPeekNextIrp with V4vCsqPeekTest, for writes of a file or to a     *)
(* destination: the writes that match, the first one being taken.          *)
WritesOfFile(q, f) == SelectSeq(q.queue, LAMBDA i : IsWrite(i) /\ FileOf[i] = f)
WritesTo(q, d) == SelectSeq(q.queue, LAMBDA i : IsWrite(i) /\ DstOf[i] = d)

(* IoCompleteRequest for each of S. *)
Complete(S) ==
    completed' = [i \in Irp |-> IF i \in S THEN completed[i] + 1 ELSE completed[i]]

(* V4vCancelAllFileIrps takes the file's writes out one after the other.    *)
V4vCancelAllFileIrps(q, f) == FoldLeft(V4vCsqRemoveIrp, q, WritesOfFile(q, f))
Cancelled(q, f) == ToSet(WritesOfFile(q, f))

-----------------------------------------------------------------------------
(* rw.c: sending.                                                           *)

Set(t, fields) == thread' = [thread EXCEPT ![t] = fields @@ @]

(* HYPERVISOR_v4v_op (send): what Xen may answer.  EAGAIN promises an       *)
(* interrupt when there is room.                                            *)
SendAnswers(i) ==
    LET p == peer[DstOf[i]]
    IN  IF ~p.exists THEN {"closed"}
        ELSE (IF p.space < XENV4V_PAYLOAD_DATA_LEN(i) THEN {"retry"} ELSE {"sent"})
             \cup ({"send"} \cap Faults)

(* V4vDisconnectStreamAndSignal, when b holds: the stream is dead and its   *)
(* queued writes are cancelled; the IRPs in done are completed as well.     *)
V4vDisconnectStreamAndSignal(b, q, f, done) ==
    /\ state' = IF b THEN [state EXCEPT ![f] = "down"] ELSE state
    /\ csq' = IF b THEN V4vCancelAllFileIrps(q, f) ELSE q
    /\ Complete(IF b THEN done \cup Cancelled(q, f) ELSE done)

(* The send of an IRP that is off the queue q, with Xen's answer a.  A SYN  *)
(* that was sent is turned into a read that waits for the ACK.              *)
V4vDoWrite(q, i, a) ==
    LET d == DstOf[i]
        failed == a \in {"closed", "send"}
    IN  /\ peer' = CASE a = "retry" ->
                          [peer EXCEPT ![d].wanted = XENV4V_PAYLOAD_DATA_LEN(i)]
                     [] a = "sent" ->
                          [peer EXCEPT ![d].space = @ - XENV4V_PAYLOAD_DATA_LEN(i)]
                     [] OTHER -> peer
        /\ op' = IF a = "sent" /\ op[i] = "syn"
                 THEN [op EXCEPT ![i] = "ack read"] ELSE op
        /\ V4vDisconnectStreamAndSignal(
             \/ failed /\ op[i] \in {"syn", "ack"}
             \/ a = "closed" /\ FileOf[i] \in StreamFile,
             q, FileOf[i],
             IF failed \/ (a = "sent" /\ op[i] # "syn") THEN {i} ELSE {})

(* A mutant of GoesBack: what was sent, and so completed, is kept as well.  *)
SentGoesBack(i, a) == a \in {"retry", "sent"}

(* The IRP is kept for V4vRequeueIrps: STATUS_RETRY or STATUS_PENDING. *)
GoesBack(i, a) == a = "retry" \/ (a = "sent" /\ op[i] = "syn")

(* V4vDispatchWrite up to the queue; resets are pushed to the front.  The   *)
(* connect ioctl queues its SYN in the same way.                            *)
V4vDispatchWrite(t, i) ==
    /\ thread[t].pc = "idle" /\ t \in Dispatcher
    /\ op[i] = "new"
    /\ op' = [op EXCEPT ![i] = KindOf[i]]
    /\ \/ /\ state[FileOf[i]] = "up" /\ InsertMayWork
          /\ csq' = V4vCsqInsertIrpEx(csq, i, TRUE, KindOf[i] = "rst")
          /\ Set(t, [pc |-> "lock ring", file |-> FileOf[i]])
          /\ UNCHANGED completed
       \/ /\ state[FileOf[i]] = "down" \/ InsertMayFail(TRUE)
          /\ Complete({i})
          /\ UNCHANGED <<csq, thread>>
    /\ UNCHANGED <<state, ringLock, peer, virq>>

LockRing(t) ==
    /\ thread[t].pc = "lock ring"
    /\ ringLock[thread[t].file] = NoOne
    /\ ringLock' = [ringLock EXCEPT ![thread[t].file] = t]
    /\ Set(t, [pc |-> "context writes"])
    /\ UNCHANGED <<csq, op, completed, state, peer, virq>>

(* V4vProcessContextWrites: one turn of the loop, and its end. *)
V4vProcessContextWrites(t) ==
    LET f == thread[t].file
        writes == WritesOfFile(csq, f)
        i == Head(writes)
    IN  /\ thread[t].pc = "context writes"
        /\ IF writes = <<>>
           THEN /\ ringLock' = [ringLock EXCEPT ![f] = NoOne]
                /\ Set(t, [pc |-> "requeue"])
                /\ UNCHANGED <<csq, op, completed, state, peer>>
           ELSE /\ \E a \in SendAnswers(i) :
                     /\ V4vDoWrite(V4vCsqRemoveIrp(csq, i), i, a)
                     /\ Set(t, [ret |-> thread[t].ret \o
                                        IF GoesBack(i, a) THEN <<i>> ELSE <<>>])
                /\ UNCHANGED ringLock
        /\ UNCHANGED virq

(* V4vRequeueIrps: each goes to the tail, or is completed if it does not    *)
(* fit; then the next destination, if there is one.                         *)
V4vRequeueIrps(t) ==
    LET i == Head(thread[t].ret)
        left == IF thread[t].ents = <<>> THEN <<>> ELSE Tail(thread[t].ents)
    IN  /\ thread[t].pc = "requeue"
        /\ \/ /\ thread[t].ret # <<>> /\ InsertMayWork
              /\ csq' = V4vCsqInsertIrpEx(csq, i, IsWrite(i), FALSE)
              /\ Set(t, [ret |-> Tail(thread[t].ret)])
              /\ UNCHANGED completed
           \/ /\ thread[t].ret # <<>> /\ InsertMayFail(IsWrite(i))
              /\ Complete({i})
              /\ Set(t, [ret |-> Tail(thread[t].ret)])
              /\ UNCHANGED csq
           \/ /\ thread[t].ret = <<>>
              /\ Set(t, IF left = <<>> THEN Idle
                        ELSE [pc |-> "destination", ents |-> left, counter |-> 0])
              /\ UNCHANGED <<csq, completed>>
        /\ UNCHANGED <<op, state, ringLock, peer, virq>>

-----------------------------------------------------------------------------
(* V4vProcessNotify, in the VIRQ DPC or after a read.                       *)

V4vVirqNotifyDpc ==
    /\ virq /\ thread[Dpc].pc = "idle"
    /\ virq' = FALSE
    /\ Set(Dpc, [pc |-> "notify"])
    /\ UNCHANGED <<csq, op, completed, state, ringLock, peer>>

(* V4vDispatchRead made room in this guest's ring. *)
NotifyAfterRead(t) ==
    /\ t \in Dispatcher /\ thread[t].pc = "idle"
    /\ Set(t, [pc |-> "notify"])
    /\ UNCHANGED <<csq, op, completed, state, ringLock, peer, virq>>

(* The first lengths of all destinations are copied under queueLock. *)
V4vCopyDestinationRingData(t) ==
    /\ thread[t].pc = "notify"
    /\ \/ Set(t, [pc |-> "ask", ents |->
                    [k \in 1..csq.destCount |->
                       [ring |-> csq.dests[k].dst,
                        space_required |-> csq.dests[k].nextLength]]])
       \/ "memory" \in Faults /\ Set(t, Idle)
    /\ UNCHANGED <<csq, op, completed, state, ringLock, peer, virq>>

(* Xen fills in the flags: with room, an interrupt it still owes is         *)
(* cancelled; without, one is scheduled.                                    *)
V4vNotify(t) ==
    LET ents == thread[t].ents
        entOf(d) == CHOOSE e \in ToSet(ents) : e.ring = d
        asked(d) == \E e \in ToSet(ents) : e.ring = d
        fits(e) == peer[e.ring].space >= e.space_required
    IN  /\ thread[t].pc = "ask"
        /\ IF ents = <<>>
           THEN Set(t, Idle) /\ UNCHANGED peer
           ELSE /\ Set(t, [pc |-> "destination", ents |->
                     [k \in DOMAIN ents |->
                        [ring |-> ents[k].ring, sufficient |-> fits(ents[k]),
                         exists |-> peer[ents[k].ring].exists]]])
                /\ peer' = [d \in Dsts |->
                     IF ~asked(d) THEN peer[d]
                     ELSE [peer[d] EXCEPT !.wanted =
                             IF fits(entOf(d)) \/ ~peer[d].exists
                             THEN 0 ELSE entOf(d).space_required]]
        /\ UNCHANGED <<csq, op, completed, state, ringLock, virq>>

(* V4vProcessDestinationWrites takes the next write for the destination.    *)
TakeByDestination(t) ==
    LET writes == WritesTo(csq, Head(thread[t].ents).ring)
    IN  /\ thread[t].pc = "destination"
        /\ IF writes = <<>>
           THEN Set(t, [pc |-> "requeue"]) /\ UNCHANGED csq
           ELSE /\ csq' = V4vCsqRemoveIrp(csq, Head(writes))
                /\ Set(t, [pc |-> "taken", cur |-> Head(writes)])
        /\ UNCHANGED <<op, completed, state, ringLock, peer, virq>>

(* The rest of the turn, under the lock of the ring of the IRP's file: it   *)
(* is completed if the destination is gone, kept if the first does not fit, *)
(* and sent otherwise; a retry ends the loop.                               *)
V4vProcessDestinationWrites(t) ==
    LET i == thread[t].cur
        e == Head(thread[t].ents)
        Then(pc, back, n) ==
            Set(t, [pc |-> pc, cur |-> NoOne, counter |-> n,
                    ret |-> thread[t].ret \o IF back THEN <<i>> ELSE <<>>])
    IN  /\ thread[t].pc = "taken"
        /\ ringLock[FileOf[i]] = NoOne
        /\ \/ /\ ~e.exists
              /\ V4vDisconnectStreamAndSignal(FileOf[i] \in StreamFile, csq,
                                              FileOf[i], {i})
              /\ Then("destination", FALSE, thread[t].counter)
              /\ UNCHANGED <<op, peer>>
           \/ /\ e.exists /\ ~e.sufficient /\ thread[t].counter = 0
              /\ Then("requeue", TRUE, 0)
              /\ UNCHANGED <<csq, op, completed, state, peer>>
           \/ /\ e.exists /\ (e.sufficient \/ thread[t].counter > 0)
              /\ \E a \in SendAnswers(i) :
                   /\ V4vDoWrite(csq, i, a)
                   /\ Then(IF a = "retry" THEN "requeue" ELSE "destination",
                           GoesBack(i, a),
                           thread[t].counter + IF a = "sent" THEN 1 ELSE 0)
        /\ UNCHANGED <<ringLock, virq>>

-----------------------------------------------------------------------------
(* The user cancels a queued IRP; an ACK arrives for a connecting stream    *)
(* (V4vProcessPreConnectReads).  Either takes the IRP out and completes it. *)
V4vCsqCompleteCanceledIrp(i) ==
    /\ i \in ToSet(csq.queue)
    /\ csq' = V4vCsqRemoveIrp(csq, i)
    /\ Complete({i})
    /\ UNCHANGED <<op, state, ringLock, thread, peer, virq>>

(* The peer reads a message: Xen interrupts once the awaited room is there. *)
PeerReads(d) ==
    LET room == peer[d].space + 1
        owed == peer[d].wanted # 0 /\ room >= peer[d].wanted
    IN  /\ peer[d].exists /\ peer[d].space < Capacity
        /\ peer' = [peer EXCEPT ![d].space = room,
                                ![d].wanted = IF owed THEN 0 ELSE @]
        /\ virq' = (virq \/ owed)
        /\ UNCHANGED <<csq, op, completed, state, ringLock, thread>>

(* The peer's ring goes away; Xen interrupts those who wait for it. *)
PeerCloses(d) ==
    /\ "close" \in Faults /\ peer[d].exists
    /\ peer' = [peer EXCEPT ![d].exists = FALSE, ![d].wanted = 0]
    /\ virq' = (virq \/ peer[d].wanted # 0)
    /\ UNCHANGED <<csq, op, completed, state, ringLock, thread>>

QueueNext ==
    \/ \E t \in Threads, i \in Irp : V4vDispatchWrite(t, i)
    \/ \E t \in Threads :
         \/ LockRing(t) \/ V4vProcessContextWrites(t) \/ V4vRequeueIrps(t)
         \/ NotifyAfterRead(t) \/ V4vCopyDestinationRingData(t) \/ V4vNotify(t)
         \/ TakeByDestination(t) \/ V4vProcessDestinationWrites(t)
    \/ V4vVirqNotifyDpc
    \/ \E i \in Irp : V4vCsqCompleteCanceledIrp(i)
    \/ \E d \in Dsts : PeerReads(d) \/ PeerCloses(d)

QueueSpec == QueueInit /\ [][QueueNext]_queueVars

-----------------------------------------------------------------------------
(* The destination list is always the exact index of the queued writes:     *)
(* one record per destination that has any, whose chain is those writes in  *)
(* queue order, with its reference count, and the length of the first,      *)
(* which is what Xen is asked to wait for; the counters that size the       *)
(* notify request agree with both lists (the ASSERTs of csq.c).             *)
DestinationsMatchQueue ==
    /\ csq.count = Len(csq.queue)
    /\ csq.count <= MAX_IRP_COUNT
    /\ csq.destCount = Len(csq.dests)
    /\ {x.dst : x \in ToSet(csq.dests)} = {DstOf[i] : i \in {j \in ToSet(csq.queue) : IsWrite(j)}}
    /\ Cardinality(ToSet(csq.dests)) = Len(csq.dests)
    /\ \A x \in ToSet(csq.dests) :
         /\ x.chain = WritesTo(csq, x.dst)
         /\ x.refc = Len(x.chain)
         /\ x.nextLength = XENV4V_PAYLOAD_DATA_LEN(Head(x.chain))

(* Where an IRP is: the places of the queue and of the threads' hands.      *)
Places(i) ==
    Cardinality({k \in DOMAIN csq.queue : csq.queue[k] = i})
    + Cardinality({t \in Threads : thread[t].cur = i})
    + Cardinality({<<t, k>> \in Threads \X (1..Cardinality(Irp)) :
                     k \in DOMAIN thread[t].ret /\ thread[t].ret[k] = i})

(* Every IRP that was dispatched is in exactly one place, the queue or the  *)
(* hands of one thread, until it is completed, and it is completed once:    *)
(* threads that take, send, cancel, disconnect and put back never lose an   *)
(* IRP or complete one that another still has.                              *)
IrpsAccounted ==
    \A i \in Irp :
        IF op[i] = "new" THEN completed[i] = 0 /\ Places(i) = 0
        ELSE completed[i] + Places(i) = 1
=============================================================================
