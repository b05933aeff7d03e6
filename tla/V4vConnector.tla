---------------------------- MODULE V4vConnector ----------------------------
(***************************************************************************)
(* A V4V stream between two ends that each have a ring (rw.c, ioctl.c): one *)
(* file, its ring and its IRPs, which either connects or waits for a       *)
(* connection.                                                             *)
(*                                                                         *)
(* The connect IRP is queued as the write of a SYN; whoever sends it has   *)
(* the IRP off the queue, turns it into a read of the ACK and queues it    *)
(* again.  The connect-wait IRP is a read of a SYN that becomes the write  *)
(* of the ACK.  The VIRQ DPC, the connect timer's DPC and a user's read    *)
(* all drive the reads of the file, each by the state that it read before  *)
(* it took the ring's lock.                                                *)
(***************************************************************************)
EXTENDS Naturals, Sequences, FiniteSets, SequencesExt

CONSTANTS
    MaxData,     \* bound: data messages of the peer
    MaxUserReads,\* bound: read IRPs
    MaxStale,    \* bound: messages of an earlier connection on this port
    InsertFails  \* the IRP queue may be full

Pump == {"dpc", "timer", "user"}
Sender == {"ioctl", "dpc"}

VARIABLES
    conState,   \* state of the context
    connId,     \* its connection id
    irpQ,       \* its queued IRPs: the connect IRP as "syn write" or "ack read",
                \* the connect-wait IRP as "syn read" or "ack write", and reads
                \* with a "big" or a "small" buffer
    connectIrp, \* how the connect or connect-wait call has ended
    sender,     \* threads that send a SYN or an ACK
    pump,       \* threads that drive reads
    conRing,    \* the messages in the ring
    peerEnd,    \* the connection id that the peer knows: as caller, as callee
                \* and (agreed) of the connection that it takes as made
    log         \* data sent by the peer, data read, and counts for the bounds

connectorVars == <<conState, connId, irpQ, connectIrp, sender, pump, conRing, peerEnd, log>>

Parked == [pc |-> "idle", seen |-> "none", held |-> "none"]
NotSending == [pc |-> "idle", irp |-> "none"]

ConnectorInit ==
    /\ conState = "bound" /\ connId = "none" /\ irpQ = <<>> /\ connectIrp = "none"
    /\ sender = [t \in Sender |-> NotSending]
    /\ pump = [w \in Pump |-> Parked]
    /\ conRing = <<>>
    /\ peerEnd = [asked |-> "none", called |-> "none", agreed |-> "none"]
    /\ log = [sent |-> <<>>, got |-> <<>>, reads |-> 0, stale |-> 0]

-----------------------------------------------------------------------------
Writes == {"syn write", "ack write"}
Reads == {"ack read", "syn read", "big", "small"}
FirstOf(q, S) == {k \in DOMAIN q : q[k] \in S /\ \A j \in 1..k - 1 : q[j] \notin S}

(* V4vDisconnectStreamAndSignal: queued writes are cancelled, and with them *)
(* the connect call; irp is how that call stands otherwise.                 *)
Disconnected(q, irp) ==
    /\ conState' = "disconnected"
    /\ irpQ' = SelectSeq(q, LAMBDA i : i \notin Writes)
    /\ connectIrp' = IF ToSet(q) \cap Writes # {} THEN "failed" ELSE irp

V4vCtrlConnect ==
    /\ conState = "bound"
    /\ connId' = "ours"
    /\ \/ /\ conState' = "connecting" /\ connectIrp' = "pending"
          /\ irpQ' = Append(irpQ, "syn write")
       \/ /\ InsertFails
          /\ conState' = "disconnected" /\ connectIrp' = "failed"
          /\ UNCHANGED irpQ
    /\ UNCHANGED <<sender, pump, conRing, peerEnd, log>>

(* The wait drives the reads itself: a SYN may be in the ring already. *)
V4vCtrlConnectWait ==
    /\ conState = "bound"
    /\ \/ /\ conState' = "waiting" /\ connectIrp' = "pending"
          /\ irpQ' = Append(irpQ, "syn read")
          /\ pump' = [pump EXCEPT !["user"] = [Parked EXCEPT !.pc = "lock", !.seen = "waiting"]]
       \/ /\ InsertFails
          /\ conState' = "disconnected" /\ connectIrp' = "failed"
          /\ UNCHANGED <<irpQ, pump>>
    /\ UNCHANGED <<connId, sender, conRing, peerEnd, log>>

RingFree == \A w \in Pump : pump[w].pc \in {"idle", "lock"}

(* V4vProcessContextWrites of the connect call, or V4vProcessNotify, takes  *)
(* the write from the queue.  The call goes on holding the ring's lock; the *)
(* DPC takes it only now.                                                   *)
TakeConnectWrite(t) ==
    \E k \in FirstOf(irpQ, Writes) :
        /\ sender[t].pc = "idle"
        /\ IF t = "dpc" THEN pump["dpc"].pc = "idle"
                        ELSE irpQ[k] = "syn write" /\ RingFree
        /\ sender' = [sender EXCEPT ![t] = [pc |-> "send", irp |-> irpQ[k]]]
        /\ irpQ' = RemoveAt(irpQ, k)
        /\ UNCHANGED <<conState, connId, connectIrp, pump, conRing, peerEnd, log>>

(* V4vDoWrite: the message is sent, the peer's ring is full, or it is gone. *)
(* A sent SYN turns into the read of the ACK; with the ACK sent, the        *)
(* waiter is connected.                                                     *)
SendConnectWrite(t) ==
    LET irp == sender[t].irp
        Then(i) == sender' = [sender EXCEPT ![t] = IF i = "none" THEN NotSending
                                                   ELSE [pc |-> "requeue", irp |-> i]]
    IN  /\ sender[t].pc = "send" /\ RingFree
        /\ \/ /\ irp = "syn write"
              /\ peerEnd' = [peerEnd EXCEPT !.asked = connId]
              /\ Then("ack read")
              /\ UNCHANGED <<conState, irpQ, connectIrp>>
           \/ /\ irp = "ack write"
              /\ peerEnd' = [peerEnd EXCEPT !.agreed = connId]
              /\ conState' = "connected" /\ connectIrp' = "ok"
              /\ Then("none")
              /\ UNCHANGED irpQ
           \/ /\ Then(irp)
              /\ UNCHANGED <<conState, irpQ, connectIrp, peerEnd>>
           \/ /\ Disconnected(irpQ, "failed")
              /\ Then("none")
              /\ UNCHANGED peerEnd
        /\ UNCHANGED <<connId, pump, conRing, log>>

(* V4vRequeueIrps. *)
RequeueConnect(t) ==
    /\ sender[t].pc = "requeue"
    /\ \/ irpQ' = Append(irpQ, sender[t].irp) /\ UNCHANGED connectIrp
       \/ InsertFails /\ connectIrp' = "failed" /\ UNCHANGED irpQ
    /\ sender' = [sender EXCEPT ![t] = NotSending]
    /\ UNCHANGED <<conState, connId, pump, conRing, peerEnd, log>>

-----------------------------------------------------------------------------
(* V4vDispatchRead queues the read and drives the reads. *)
DispatchConnectorRead(r) ==
    /\ conState \in {"connecting", "waiting", "connected"}
    /\ pump["user"].pc = "idle" /\ log.reads < MaxUserReads
    /\ log' = [log EXCEPT !.reads = @ + 1]
    /\ irpQ' = Append(irpQ, r)
    /\ pump' = [pump EXCEPT !["user"] = [Parked EXCEPT !.pc = "lock", !.seen = conState]]
    /\ UNCHANGED <<conState, connId, connectIrp, sender, conRing, peerEnd>>

(* V4vProcessContextReads of a DPC. *)
ReadConnectorState(w) ==
    /\ w # "user" /\ pump[w].pc = "idle"
    /\ w = "dpc" => sender["dpc"].pc = "idle"
    /\ conState \in {"connecting", "waiting", "connected"}
    /\ pump' = [pump EXCEPT ![w] = [Parked EXCEPT !.pc = "lock", !.seen = conState]]
    /\ UNCHANGED <<conState, connId, irpQ, connectIrp, sender, conRing, peerEnd, log>>

LockConnectorRing(w) ==
    /\ pump[w].pc = "lock" /\ RingFree
    /\ sender["ioctl"].pc # "send"
    /\ pump' = [pump EXCEPT ![w].pc = pump[w].seen]
    /\ UNCHANGED <<conState, connId, irpQ, connectIrp, sender, conRing, peerEnd, log>>

Park(w) == pump' = [pump EXCEPT ![w] = Parked]

(* A mutant of IsAck: the connection id is not compared. *)
AnyAck(m) == m.kind = "ack"

(* The sanity check of the ACK. *)
IsAck(m) == m.kind = "ack" /\ m.conid = connId

(* The first read IRP, whatever it is, gets the first message, whatever it  *)
(* is, and they must be what the state is waiting for.                      *)
V4vProcessPreConnectReads(w) ==
    LET waiting == FirstOf(irpQ, Reads)
        k == CHOOSE k \in waiting : TRUE
        m == Head(conRing)
        is == irpQ[k]
        rest == RemoveAt(irpQ, k)
        acked == pump[w].pc = "connecting" /\ is = "ack read" /\ IsAck(m)
        called == pump[w].pc = "waiting" /\ is = "syn read" /\ m.kind = "syn"
        some == conRing # <<>> /\ waiting # {}
    IN  /\ pump[w].pc \in {"connecting", "waiting"}
        /\ \/ /\ ~some
              /\ Park(w)
              /\ UNCHANGED <<conState, connId, irpQ, connectIrp, conRing>>
           \/ /\ some /\ acked
              /\ conRing' = Tail(conRing)
              /\ conState' = "connected" /\ connectIrp' = "ok" /\ irpQ' = rest
              /\ pump' = [pump EXCEPT ![w].pc = "lock", ![w].seen = "connected"]
              /\ UNCHANGED connId
           \/ /\ some /\ called
              /\ conRing' = Tail(conRing)
              /\ connId' = m.conid
              /\ \/ /\ irpQ' = Append(rest, "ack write")
                    /\ UNCHANGED <<conState, connectIrp>>
                 \/ InsertFails /\ Disconnected(rest, "failed")
              /\ Park(w)
           \/ /\ some /\ ~acked /\ ~called
              /\ conRing' = Tail(conRing)
              /\ Disconnected(rest, IF is \in {"ack read", "syn read"}
                                    THEN "failed" ELSE connectIrp)
              /\ Park(w)
              /\ UNCHANGED connId
        /\ UNCHANGED <<sender, peerEnd, log>>

(* A turn of V4vProcessConnectorReads.  A read IRP that met a message which *)
(* is not for it is retained, and goes back to the front of the queue when  *)
(* the ring is empty.                                                       *)
V4vProcessConnectorReads(w) ==
    LET held == pump[w].held
        waiting == FirstOf(irpQ, Reads)
        k == CHOOSE k \in waiting : TRUE
        r == IF held # "none" THEN held ELSE irpQ[k]
        rest == IF held # "none" THEN irpQ ELSE RemoveAt(irpQ, k)
        m == Head(conRing)
        mine == m.conid = connId
        some == conRing # <<>> /\ (held # "none" \/ waiting # {})
        ioctl == r \in {"ack read", "syn read"}
        \* there should never be a connect IRP here; a read may be too small
        refused == ioctl \/ (r = "small" /\ mine /\ m.kind = "data")
        Hold(i) == pump' = [pump EXCEPT ![w].held = i]
    IN  /\ pump[w].pc = "connected"
        /\ \/ /\ ~some
              /\ irpQ' = IF held = "none" THEN irpQ ELSE <<held>> \o irpQ
              /\ Park(w)
              /\ UNCHANGED <<conState, connectIrp, conRing, log>>
           \/ /\ ~some /\ held # "none" /\ InsertFails
              /\ Park(w)
              /\ UNCHANGED <<conState, irpQ, connectIrp, conRing, log>>
           \/ /\ some /\ ~ioctl
              /\ m.kind = "syn" \/ ~mine \/ m.kind = "ack"
              /\ irpQ' = rest /\ conRing' = Tail(conRing) /\ Hold(r)
              /\ UNCHANGED <<conState, connectIrp, log>>
           \/ /\ some /\ ~ioctl /\ mine /\ m.kind = "rst"
              /\ Disconnected(rest, connectIrp) /\ Park(w)
              /\ UNCHANGED <<conRing, log>>
           \/ /\ some /\ refused
              /\ irpQ' = rest /\ Hold("none")
              /\ connectIrp' = IF ioctl THEN "failed" ELSE connectIrp
              /\ UNCHANGED <<conState, conRing, log>>
           \/ /\ some /\ r = "big" /\ mine /\ m.kind = "data"
              /\ irpQ' = rest /\ conRing' = Tail(conRing) /\ Hold("none")
              /\ log' = [log EXCEPT !.got = Append(@, m.id)]
              /\ UNCHANGED <<conState, connectIrp>>
        /\ UNCHANGED <<connId, sender, peerEnd>>

-----------------------------------------------------------------------------
(* V4vCtrlDisconnect of a connected stream; the reset that it sends is one  *)
(* of the writes of V4vQueue.                                               *)
UserDropsStream ==
    /\ conState = "connected"
    /\ conState' = "disconnected"
    /\ UNCHANGED <<connId, irpQ, connectIrp, sender, pump, conRing, peerEnd, log>>

(* V4vCsqCompleteCanceledIrp: a queued IRP is cancelled. *)
CancelConnectorIrp(k) ==
    /\ irpQ' = RemoveAt(irpQ, k)
    /\ connectIrp' = IF irpQ[k] \in {"big", "small"} THEN connectIrp ELSE "failed"
    /\ UNCHANGED <<conState, connId, sender, pump, conRing, peerEnd, log>>

Arrives(k, c, n) == conRing' = Append(conRing, [kind |-> k, conid |-> c, id |-> n])

(* The peer calls, answers a call, sends data, and resets what it answered. *)
PeerCalls ==
    /\ peerEnd.called = "none"
    /\ peerEnd' = [peerEnd EXCEPT !.called = "theirs"]
    /\ Arrives("syn", "theirs", 0)
    /\ UNCHANGED <<conState, connId, irpQ, connectIrp, sender, pump, log>>

PeerAnswers(k) ==
    /\ peerEnd.asked = "ours"
    /\ peerEnd' = [peerEnd EXCEPT !.asked = "answered",
                                  !.agreed = IF k = "ack" THEN "ours" ELSE @]
    /\ Arrives(k, "ours", 0)
    /\ UNCHANGED <<conState, connId, irpQ, connectIrp, sender, pump, log>>

PeerStreams ==
    /\ peerEnd.agreed # "none" /\ Len(log.sent) < MaxData
    /\ log' = [log EXCEPT !.sent = Append(@, Len(@) + 1)]
    /\ Arrives("data", peerEnd.agreed, Len(log.sent) + 1)
    /\ UNCHANGED <<conState, connId, irpQ, connectIrp, sender, pump, peerEnd>>

(* A message, or a reset, of a connection that an earlier owner of the port *)
(* had, or a peer that resets this one.                                     *)
StrayArrives(k, c) ==
    /\ log.stale < MaxStale
    /\ c = "old" \/ (c = peerEnd.agreed /\ k = "rst")
    /\ log' = [log EXCEPT !.stale = @ + 1]
    /\ Arrives(k, c, 0)
    /\ UNCHANGED <<conState, connId, irpQ, connectIrp, sender, pump, peerEnd>>

ConnectorNext ==
    \/ V4vCtrlConnect \/ V4vCtrlConnectWait
    \/ \E t \in Sender : TakeConnectWrite(t) \/ SendConnectWrite(t) \/ RequeueConnect(t)
    \/ \E r \in {"big", "small"} : DispatchConnectorRead(r)
    \/ \E w \in Pump : \/ ReadConnectorState(w) \/ LockConnectorRing(w)
                      \/ V4vProcessPreConnectReads(w) \/ V4vProcessConnectorReads(w)
    \/ UserDropsStream
    \/ \E k \in DOMAIN irpQ : CancelConnectorIrp(k)
    \/ PeerCalls \/ PeerStreams
    \/ \E k \in {"ack", "rst"} : PeerAnswers(k)
    \/ \E k \in {"ack", "data", "rst"}, c \in {"old", "ours", "theirs"} : StrayArrives(k, c)

ConnectorSpec == ConnectorInit /\ [][ConnectorNext]_connectorVars

-----------------------------------------------------------------------------
StreamData == SelectSeq(conRing, LAMBDA m : m.kind = "data" /\ m.conid = connId)

(* A stream is connected, and its connect or connect-wait call succeeds,    *)
(* only for the connection that the peer has agreed to, never for an answer *)
(* to an earlier one.  While it is up, what was read and what is in the     *)
(* ring are together all that the peer sent on it, in order, however the    *)
(* DPCs and the reads of the user interleave with the turning of the IRP    *)
(* and with stray messages.  Nothing is ever read twice or out of order.    *)
StreamAgrees ==
    /\ connectIrp = "ok" => peerEnd.agreed = connId
    /\ conState = "connected" =>
         /\ connectIrp = "ok"
         /\ log.got \o [k \in DOMAIN StreamData |-> StreamData[k].id] = log.sent
    /\ \A j, k \in DOMAIN log.got : j < k => log.got[j] < log.got[k]
=============================================================================
