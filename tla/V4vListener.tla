---------------------------- MODULE V4vListener -----------------------------
(***************************************************************************)
(* A V4V stream listener and its accepters, which share the listener's     *)
(* ring (rw.c, ioctl.c).                                                   *)
(*                                                                         *)
(* DPCs take messages out of the ring, under its lock.  A SYN goes to the  *)
(* backlog, where V4vDoAccepts pairs it with an accept IRP; data goes to a *)
(* read IRP of the accepter, or else to its dataList.  Meanwhile users     *)
(* accept, read, cancel, disconnect and close.  A client that does not     *)
(* keep an IRP pending waits for the receive event instead.                *)
(*                                                                         *)
(* The loops of V4vProcessAccepterReads and V4vDoAccepts, which run under  *)
(* dataLock and synLock, are one step each: an IRP that is queued during   *)
(* such a loop might as well have been queued before it.                   *)
(***************************************************************************)
EXTENDS Naturals, Sequences, FiniteSets, SequencesExt

CONSTANTS
    Acc,          \* the files that users accept connections on
    Conn,         \* the connection ids of the peers
    SynBacklog,   \* backlog of the listener
    Reader,       \* "dpc" and "timer", which drive V4vProcessContextReads
    MaxSent,      \* bound: messages that peers send
    MaxReads,     \* bound: read IRPs
    RecvFaults    \* memory may be short

NoMsg == [kind |-> "none", conn |-> "none", id |-> 0]
NoAcc == "none"

VARIABLES
    listener, \* its state, its SYN list, its event, the accept IRPs queued
    acc,      \* of each accepter: state, connection, dataList, queued read
              \* IRPs, event, and what its reads have returned
    rxRing,   \* the messages in the ring
    reader,   \* what each DPC is doing
    user,     \* what users drive after queueing an IRP: "accepts", or the
              \* reads of an accepter
    ghost     \* messages sent, SYNs queued, connections accepted, data lost,
              \* read IRPs issued

streamVars == <<listener, acc, rxRing, reader, user, ghost>>

Off == [pc |-> "idle", seen |-> "none", msg |-> NoMsg, to |-> NoAcc, signaled |-> FALSE]

ListenerInit ==
    /\ listener = [state |-> "listening", synList |-> <<>>, event |-> FALSE,
                   accepts |-> <<>>]
    /\ acc = [a \in Acc |-> [state |-> "opened", conn |-> "none", data |-> <<>>,
                             reads |-> <<>>, event |-> FALSE, got |-> <<>>]]
    /\ rxRing = <<>>
    /\ reader = [w \in Reader |-> Off]
    /\ user = {}
    /\ ghost = [sent |-> <<>>, syns |-> <<>>, accepted |-> <<>>, dumped |-> {}, reads |-> 0]

-----------------------------------------------------------------------------
(* V4vProcessAccepterReads: reads take the queued data in order; one whose  *)
(* buffer is too small fails and leaves the data.                           *)
TakeRead(x, r) ==
    IF x.data = <<>> THEN [x EXCEPT !.reads = Append(@, r)]
    ELSE IF r = "small" THEN x
    ELSE [x EXCEPT !.data = Tail(@), !.got = Append(@, Head(x.data))]

V4vProcessAccepterReads(x, notify) ==
    LET y == FoldLeft(TakeRead, [x EXCEPT !.reads = <<>>], x.reads)
    IN  [y EXCEPT !.event = y.data # <<>> \/ (notify /\ x.event)]

(* It has set the event: data is left for which there is no IRP. *)
Signaled(x) == V4vProcessAccepterReads(x, TRUE).data # <<>>

V4vFlushAccepterQueueData(x) == [x EXCEPT !.data = <<>>]

(* V4vDoAccepts pairs SYNs and accept IRPs, both in order; the connections  *)
(* in failed could not be acknowledged.                                     *)
V4vDoAccepts(failed) ==
    LET l == listener
        n == IF Len(l.synList) < Len(l.accepts) THEN Len(l.synList) ELSE Len(l.accepts)
        paired(a) == \E k \in 1..n : l.accepts[k] = a
        connOf(a) == l.synList[CHOOSE k \in 1..n : l.accepts[k] = a]
        rest == SubSeq(l.synList, n + 1, Len(l.synList))
    IN  /\ listener' = [l EXCEPT !.synList = rest, !.event = rest # <<>>,
                                 !.accepts = SubSeq(@, n + 1, Len(@))]
        /\ acc' = [a \in Acc |->
             IF ~paired(a) THEN acc[a]
             ELSE [acc[a] EXCEPT !.conn = connOf(a),
                     !.state = IF a \in failed THEN "disconnected" ELSE "accepted"]]
        /\ ghost' = [ghost EXCEPT !.accepted = @ \o SubSeq(l.synList, 1, n)]

Failing == IF RecvFaults THEN SUBSET Acc ELSE {{}}

-----------------------------------------------------------------------------
(* The users. *)

(* A mutant of V4vCtrlAccept: the accept is queued, but not driven.         *)
AcceptQueuedOnly(a) ==
    /\ listener.state = "listening" /\ acc[a].state = "opened"
    /\ acc' = [acc EXCEPT ![a].state = "accepting"]
    /\ listener' = [listener EXCEPT !.accepts = Append(@, a)]
    /\ UNCHANGED <<rxRing, reader, user, ghost>>

V4vCtrlAccept(a) ==
    /\ listener.state = "listening" /\ acc[a].state = "opened"
    /\ acc' = [acc EXCEPT ![a].state = "accepting"]
    /\ listener' = [listener EXCEPT !.accepts = Append(@, a)]
    /\ user' = user \cup {"accepts"}
    /\ UNCHANGED <<rxRing, reader, ghost>>

DriveAccepts ==
    /\ "accepts" \in user
    /\ \E failed \in Failing : V4vDoAccepts(failed)
    /\ user' = user \ {"accepts"}
    /\ UNCHANGED <<rxRing, reader>>

(* The accept is cancelled; its file can only be closed.  *)
AcceptCancelled(a) ==
    /\ a \in ToSet(listener.accepts)
    /\ listener' = [listener EXCEPT !.accepts = SelectSeq(@, LAMBDA b : b # a)]
    /\ acc' = [acc EXCEPT ![a].state = "closed"]
    /\ UNCHANGED <<rxRing, reader, user, ghost>>

V4vDispatchRead(a, r) ==
    /\ acc[a].state = "accepted" /\ a \notin user
    /\ ghost.reads < MaxReads
    /\ ghost' = [ghost EXCEPT !.reads = @ + 1]
    /\ acc' = [acc EXCEPT ![a].reads = Append(@, r)]
    /\ user' = user \cup {a}
    /\ UNCHANGED <<listener, rxRing, reader>>

DriveReads(a) ==
    /\ a \in user
    /\ acc' = [acc EXCEPT ![a] = V4vProcessAccepterReads(@, FALSE)]
    /\ user' = user \ {a}
    /\ UNCHANGED <<listener, rxRing, reader, ghost>>

ReadCancelled(a) ==
    /\ acc[a].reads # <<>>
    /\ acc' = [acc EXCEPT ![a].reads = Tail(@)]
    /\ UNCHANGED <<listener, rxRing, reader, user, ghost>>

(* V4vCtrlDisconnect, or V4vDispatchCleanup of the accepter's file; the     *)
(* reset that either sends is one of the writes of V4vQueue.                *)
V4vCtrlDisconnect(a, state) ==
    /\ acc[a].state = "accepted"
    /\ acc' = [acc EXCEPT ![a] = [V4vFlushAccepterQueueData(@) EXCEPT !.state = state]]
    /\ UNCHANGED <<listener, rxRing, reader, user, ghost>>

(* V4vDispatchCleanup of the listener's file. *)
ListenerCloses ==
    /\ listener.state = "listening"
    /\ listener' = [listener EXCEPT !.state = "passive"]
    /\ UNCHANGED <<acc, rxRing, reader, user, ghost>>

-----------------------------------------------------------------------------
(* The DPCs. *)

Go(w, fields) == reader' = [reader EXCEPT ![w] = fields]

(* The next turn of V4vProcessListenerReads' loop. *)
Loop(w) == [Off EXCEPT !.pc = "loop", !.seen = reader[w].seen]

(* V4vProcessContextReads reads the state before the ring is locked. *)
ReadListenerState(w) ==
    /\ reader[w].pc = "idle"
    /\ Go(w, [Off EXCEPT !.pc = "lock", !.seen = listener.state])
    /\ UNCHANGED <<listener, acc, rxRing, user, ghost>>

LockListenerRing(w) ==
    /\ reader[w].pc = "lock"
    /\ \A v \in Reader : reader[v].pc \in {"idle", "lock"}
    /\ Go(w, Loop(w))
    /\ UNCHANGED <<listener, acc, rxRing, user, ghost>>

ReadsOfAccepter(w, a) ==
    /\ reader[w].pc = "idle" /\ acc[a].state = "accepted"
    /\ acc' = [acc EXCEPT ![a] = V4vProcessAccepterReads(@, FALSE)]
    /\ UNCHANGED <<listener, rxRing, reader, user, ghost>>

V4vGetContextByConnectionId(conn) ==
    {a \in Acc : acc[a].state = "accepted" /\ acc[a].conn = conn}

(* V4vProcessListenerReads up to what the message is.  For a SYN that comes *)
(* to a passive listener, the ring is read twice.                           *)
V4vProcessListenerReads(w) ==
    LET m == Head(rxRing)
        found == V4vGetContextByConnectionId(m.conn)
        next == IF Len(rxRing) > 1 THEN {rxRing[2].id} ELSE {}
        loop == [reader[w] EXCEPT !.msg = m]
    IN  /\ reader[w].pc = "loop"
        /\ \/ /\ rxRing = <<>>
              /\ Go(w, Off)
              /\ UNCHANGED <<rxRing, ghost>>
           \/ /\ rxRing # <<>> /\ m.kind = "syn" /\ reader[w].seen = "listening"
              /\ rxRing' = Tail(rxRing)
              /\ Go(w, [loop EXCEPT !.pc = "syn"])
              /\ UNCHANGED ghost
           \/ /\ rxRing # <<>> /\ m.kind = "syn" /\ reader[w].seen = "passive"
              /\ rxRing' = SubSeq(rxRing, 3, Len(rxRing))
              /\ ghost' = [ghost EXCEPT !.dumped = @ \cup next]
              /\ UNCHANGED reader
           \/ /\ rxRing # <<>> /\ m.kind # "syn" /\ found = {}
              /\ rxRing' = Tail(rxRing)
              /\ UNCHANGED <<reader, ghost>>
           \/ /\ rxRing # <<>> /\ m.kind # "syn"
              /\ \E a \in found : Go(w, [loop EXCEPT !.pc = m.kind, !.to = a])
              /\ UNCHANGED <<rxRing, ghost>>
        /\ UNCHANGED <<listener, acc, user>>

(* A full backlog is answered with a reset. *)
V4vProcessPreAcceptReads(w) ==
    /\ reader[w].pc = "syn"
    /\ IF Len(listener.synList) = SynBacklog
       THEN /\ Go(w, Loop(w))
            /\ UNCHANGED <<listener, ghost>>
       ELSE /\ listener' = [listener EXCEPT !.synList = Append(@, reader[w].msg.conn)]
            /\ ghost' = [ghost EXCEPT !.syns = Append(@, reader[w].msg.conn)]
            /\ Go(w, [reader[w] EXCEPT !.pc = "accepts"])
    /\ UNCHANGED <<acc, rxRing, user>>

DriveAcceptsOfSyn(w) ==
    /\ reader[w].pc = "accepts"
    /\ \E failed \in Failing : V4vDoAccepts(failed)
    /\ Go(w, Loop(w))
    /\ UNCHANGED <<rxRing, user>>

(* A reset disconnects the accepter and ends the loop; the message is left. *)
ResetArrives(w) ==
    LET x == acc[reader[w].to]
        y == IF x.state = "accepted" THEN V4vFlushAccepterQueueData(x) ELSE x
    IN  /\ reader[w].pc = "rst"
        /\ acc' = [acc EXCEPT ![reader[w].to] =
                     [y EXCEPT !.state = "disconnected", !.event = TRUE]]
        /\ Go(w, Off)
        /\ UNCHANGED <<listener, rxRing, user, ghost>>

(* V4vProcessAccepterBufferedReads.  First the queued data. *)
DrainQueuedData(w) ==
    LET a == reader[w].to
    IN  /\ reader[w].pc = "data"
        /\ acc' = [acc EXCEPT ![a] = V4vProcessAccepterReads(@, TRUE)]
        /\ Go(w, [reader[w] EXCEPT !.pc = "take", !.signaled = Signaled(acc[a])])
        /\ UNCHANGED <<listener, rxRing, user, ghost>>

(* Then, if there is an IRP with room, the message goes there. *)
V4vProcessAccepterBufferedReads(w) ==
    LET a == reader[w].to
        r == acc[a].reads
        room == r # <<>> /\ Head(r) = "big"
    IN  /\ reader[w].pc = "take"
        /\ \/ /\ room
              /\ acc' = [acc EXCEPT ![a].reads = Tail(r),
                                    ![a].got = Append(@, reader[w].msg.id)]
              /\ rxRing' = Tail(rxRing)
              /\ Go(w, Loop(w))
           \/ /\ ~room
              /\ acc' = [acc EXCEPT ![a].reads = IF r = <<>> THEN r ELSE Tail(r)]
              /\ Go(w, [reader[w] EXCEPT !.pc = "queue"])
              /\ UNCHANGED rxRing
        /\ UNCHANGED <<listener, user, ghost>>

(* A mutant of QueueData: the message is consumed before the allocation.    *)
QueueConsumed(w) ==
    LET a == reader[w].to
    IN  /\ reader[w].pc = "queue"
        /\ rxRing' = Tail(rxRing)
        /\ \/ acc' = [acc EXCEPT ![a].data = Append(@, reader[w].msg.id)]
           \/ RecvFaults /\ UNCHANGED acc
        /\ Go(w, Loop(w))
        /\ UNCHANGED <<listener, user, ghost>>

(* Otherwise it is queued, if memory allows. *)
QueueData(w) ==
    LET a == reader[w].to
    IN  /\ reader[w].pc = "queue"
        /\ \/ /\ acc' = [acc EXCEPT ![a].data = Append(@, reader[w].msg.id)]
              /\ rxRing' = Tail(rxRing)
              /\ Go(w, IF reader[w].signaled THEN Loop(w)
                       ELSE [reader[w] EXCEPT !.pc = "signal"])
           \/ /\ RecvFaults
              /\ Go(w, Loop(w))
              /\ UNCHANGED <<acc, rxRing>>
        /\ UNCHANGED <<listener, user, ghost>>

SignalData(w) ==
    /\ reader[w].pc = "signal"
    /\ acc' = [acc EXCEPT ![reader[w].to].event = TRUE]
    /\ Go(w, Loop(w))
    /\ UNCHANGED <<listener, rxRing, user, ghost>>

-----------------------------------------------------------------------------
(* A peer asks for a connection, sends data on one that was acknowledged,   *)
(* or resets what it asked for.                                             *)
PeerSends(kind, conn) ==
    LET asked == [kind |-> "syn", conn |-> conn]
        before == {[kind |-> m.kind, conn |-> m.conn] : m \in ToSet(ghost.sent)}
        m == [kind |-> kind, conn |-> conn, id |-> Len(ghost.sent) + 1]
    IN  /\ Len(ghost.sent) < MaxSent
        /\ \/ kind = "syn" /\ asked \notin before
           \/ kind = "data" /\ conn \in ToSet(ghost.accepted)
           \/ kind = "rst" /\ asked \in before
        /\ ghost' = [ghost EXCEPT !.sent = Append(@, m)]
        /\ rxRing' = Append(rxRing, m)
        /\ UNCHANGED <<listener, acc, reader, user>>

ListenerNext ==
    \/ \E a \in Acc : \/ V4vCtrlAccept(a) \/ AcceptCancelled(a)
                      \/ \E r \in {"big", "small"} : V4vDispatchRead(a, r)
                      \/ DriveReads(a) \/ ReadCancelled(a)
                      \/ \E s \in {"disconnected", "closed"} : V4vCtrlDisconnect(a, s)
    \/ DriveAccepts \/ ListenerCloses
    \/ \E w \in Reader :
         \/ ReadListenerState(w) \/ LockListenerRing(w) \/ V4vProcessListenerReads(w)
         \/ \E a \in Acc : ReadsOfAccepter(w, a)
         \/ V4vProcessPreAcceptReads(w) \/ DriveAcceptsOfSyn(w) \/ ResetArrives(w)
         \/ DrainQueuedData(w) \/ V4vProcessAccepterBufferedReads(w)
         \/ QueueData(w) \/ SignalData(w)
    \/ \E kind \in {"syn", "data", "rst"}, conn \in Conn : PeerSends(kind, conn)

ListenerSpec == ListenerInit /\ [][ListenerNext]_streamVars

-----------------------------------------------------------------------------
(* Connections are accepted in the order of their SYNs, each once, and no   *)
(* more than the backlog wait; and none waits unnoticed: once no thread is  *)
(* about to call V4vDoAccepts, a waiting SYN means that no accept is        *)
(* pending and that the listener's event is set.                            *)
SynsKept ==
    /\ Len(listener.synList) <= SynBacklog
    /\ ghost.accepted \o listener.synList = ghost.syns
    /\ \/ listener.synList = <<>>
       \/ "accepts" \in user
       \/ \E w \in Reader : reader[w].pc = "accepts"
       \/ listener.accepts = <<>> /\ listener.event

(* While a stream is accepted, each datum that its peer sent is in exactly  *)
(* one place: in the ring, in its dataList, or returned by one read; none   *)
(* is lost or duplicated by the DPCs, the reads, the overflows or a failed  *)
(* allocation.  The exception is a datum that follows a SYN in the ring of  *)
(* a passive listener.                                                      *)
DataAccounted ==
    \A a \in Acc : acc[a].state = "accepted" =>
        \A m \in ToSet(ghost.sent) : m.kind = "data" /\ m.conn = acc[a].conn =>
            LET in(q) == Cardinality({k \in DOMAIN q : q[k] = m.id})
                inRing == Cardinality({k \in DOMAIN rxRing : rxRing[k] = m})
                isDumped == IF m.id \in ghost.dumped THEN 1 ELSE 0
            IN  in(acc[a].data) + in(acc[a].got) + inRing + isDumped = 1

(* When data had to be queued for want of an IRP, the event that tells the  *)
(* client is set ("we have to queue the data and set the data ready event   *)
(* for clients who use it").                                                *)
DataSignalled ==
    \A a \in Acc :
        \/ acc[a].state # "accepted" \/ acc[a].data = <<>> \/ acc[a].event
        \/ a \in user
        \/ \E w \in Reader : reader[w].to = a /\ reader[w].pc \in {"take", "queue", "signal"}
=============================================================================
