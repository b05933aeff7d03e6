----------------------------- MODULE XenbusRing -----------------------------
(***************************************************************************)
(* Requests to xenstored over the shared ring: xenutil/xenbus.c lines      *)
(* 45-76, 251-299, 344-730, 1346-1580, 2060-2161 and 2404-2619.            *)
(*                                                                         *)
(* A requester has one request at a time, on its stack.  Whoever runs      *)
(* xenbus_dpc_func has the ring lock, and makes one step of each call of   *)
(* advance_tx_req and receive_from_xenstored, because xenstored works on   *)
(* the ring meanwhile.  A unit stands for a run of bytes; header and       *)
(* payload are several, so that both arrive in pieces.  A resume finds     *)
(* nobody at DISPATCH_LEVEL (module Quiesce), and a new xenstored that has *)
(* emptied the ring.                                                       *)
(***************************************************************************)
EXTENDS Integers, Sequences, FiniteSets

CONSTANTS Requester, NoRequester,
          HighIrql,        \* the requesters that call at DISPATCH_LEVEL
          CallerBuffer,    \* those that supply the reply buffer
          RingSize,        \* XENSTORE_RING_SIZE
          IndexModulus,    \* ring indices are free running, of 32 bits
          IdModulus,       \* so are sequence numbers
          HeaderLen, RequestLen, EventLen, BufferLen,
          ReplyLen,        \* of the answer to each requester
          MaxRequests,     \* bound
          MaxDisturbances  \* bound: watch events, resumes and hibernations

ASSUME RingAssumption ==
    /\ IsFiniteSet(Requester)
    /\ NoRequester \notin Requester
    /\ HighIrql \subseteq Requester
    /\ CallerBuffer \subseteq Requester
    /\ RingSize \in Nat \ {0}
    /\ IndexModulus \in Nat
    /\ IndexModulus > RingSize
    /\ IndexModulus % RingSize = 0
    /\ IdModulus \in Nat
    /\ IdModulus > Cardinality(Requester)
    /\ HeaderLen + EventLen <= RingSize
    /\ \A n \in {RequestLen, EventLen, BufferLen, MaxRequests,
                 MaxDisturbances} : n \in Nat
    /\ ReplyLen \in [Requester -> Nat]
    /\ HeaderLen \in Nat \ {0}

Dpc == "xenbus_dpc"       \* runs xenbus_dpc_func, as requesters may
Nobody == "nobody"
WatchEvent == -1          \* stands for the id of a watch event
Forgotten == -2           \* a request of the system that crashed

VARIABLES
    (* struct xenstore_domain_interface *)
    req, rsp, req_prod, req_cons, rsp_prod, rsp_cons,
    (* The driver. *)
    pending_reqs,         \* head_pending_xenbus_req to tail_...
    current_tx_req, current_rx_req,
    discard,              \* cons_response_discard_bytes
    mapped, evtchn,       \* shared_buf and xenbus_evtchn are not null
    ring_lock, dpc_step, fire_evtchn,
    dpc_queued,
    sequence_number,
    (* struct xenbus_pending_req *)
    req_id, tx_done, reply_len, reply_buf, rx_done, reply, replied,
    rpc,                  \* where each requester is
    (* xenstored, and how often it has run each request and may. *)
    xs_awake, xs_in, xs_work, xs_out, runs, runs_allowed,
    requestsLeft, disturbancesLeft

sharedVars == <<req, rsp, req_prod, req_cons, rsp_prod, rsp_cons>>
listVars == <<pending_reqs, current_tx_req, current_rx_req, discard>>
dpcVars == <<ring_lock, dpc_step, fire_evtchn, dpc_queued>>
portVars == <<mapped, evtchn>>
txVars == <<req_id, tx_done>>
rxVars == <<reply_len, reply_buf, rx_done, reply, replied>>
xsVars == <<xs_awake, xs_in, xs_work, xs_out, runs, runs_allowed>>
ringBounds == <<requestsLeft, disturbancesLeft>>
ringVars == <<sharedVars, listVars, dpcVars, portVars, sequence_number, txVars,
              rxVars, rpc, xsVars, ringBounds>>

Min2(a, b) == IF a < b THEN a ELSE b
AllocateLater == -1       \* reply_payload is null until the header is here

(* The units of a message: who it is for, the length of its payload, and   *)
(* the place of the unit.                                                  *)
Units(id, len) == [n \in 1..(HeaderLen + len) |-> <<id, len, n>>]
Payload(id, len) == SubSeq(Units(id, len), HeaderLen + 1, HeaderLen + len)

(* The faulty variant does not wrap round. *)
memcpy_straight(ring, data, idx) ==
    [i \in 0..(RingSize - 1) |->
        IF i - (idx % RingSize) \in 0..(Len(data) - 1)
        THEN data[i - (idx % RingSize) + 1] ELSE ring[i]]

memcpy_to_ring(ring, data, idx) ==
    [i \in 0..(RingSize - 1) |->
        IF (i - idx) % RingSize < Len(data) THEN data[((i - idx) % RingSize) + 1]
        ELSE ring[i]]

memcpy_from_ring(ring, idx, n) ==
    [k \in 1..n |-> ring[(idx + k - 1) % RingSize]]

Used(prod, cons) == (prod - cons) % IndexModulus
Plus(idx, n) == (idx + n) % IndexModulus

(* The crash kernel may find an answer that nobody waits for any more. *)
RingInit ==
    /\ req = [i \in 0..(RingSize - 1) |-> <<>>]
    /\ rsp = [i \in 0..(RingSize - 1) |-> <<>>]
    /\ req_prod = 0 /\ req_cons = 0 /\ rsp_prod = 0 /\ rsp_cons = 0
    /\ pending_reqs = <<>>
    /\ current_tx_req = NoRequester
    /\ current_rx_req = NoRequester
    /\ discard = 0
    /\ mapped = FALSE /\ evtchn = FALSE
    /\ ring_lock = Nobody /\ dpc_step = "idle" /\ fire_evtchn = FALSE
    /\ dpc_queued = FALSE
    /\ sequence_number = 0
    /\ req_id = [t \in Requester |-> 0]
    /\ tx_done = [t \in Requester |-> 0]
    /\ reply_len = [t \in Requester |-> 0]
    /\ reply_buf = [t \in Requester |-> 0]
    /\ rx_done = [t \in Requester |-> 0]
    /\ reply = [t \in Requester |-> <<>>]
    /\ replied = [t \in Requester |-> FALSE]
    /\ rpc = [t \in Requester |-> "idle"]
    /\ xs_in = <<>> /\ xs_work = {}
    /\ runs = [t \in Requester |-> 0]
    /\ runs_allowed = [t \in Requester |-> 0]
    /\ requestsLeft = MaxRequests
    /\ \/ xs_out = <<>> /\ disturbancesLeft = MaxDisturbances
       \/ xs_out = Units(Forgotten, RingSize - HeaderLen) /\ disturbancesLeft = 0
    /\ xs_awake = (xs_out # <<>>)
-----------------------------------------------------------------------------
(* initialise_sg_list takes a sequence number, initialise_pending_req and  *)
(* set_reply_buffer prepare the request, start_operation lets it pass.     *)
initialise_pending_req(t) ==
    /\ req_id' = [req_id EXCEPT ![t] = (sequence_number + 1) % IdModulus]
    /\ tx_done' = [tx_done EXCEPT ![t] = 0]
    /\ reply_len' = [reply_len EXCEPT ![t] = 0]
    /\ reply_buf' = [reply_buf EXCEPT ![t] =
                        IF t \in CallerBuffer THEN BufferLen ELSE AllocateLater]
    /\ rx_done' = [rx_done EXCEPT ![t] = 0]
    /\ reply' = [reply EXCEPT ![t] = <<>>]
    /\ replied' = [replied EXCEPT ![t] = FALSE]

start_operation(t) ==
    /\ rpc[t] = "idle"
    /\ requestsLeft > 0
    /\ requestsLeft' = requestsLeft - 1
    /\ sequence_number' = (sequence_number + 1) % IdModulus
    /\ initialise_pending_req(t)
    /\ rpc' = [rpc EXCEPT ![t] = "submit"]
    /\ runs' = [runs EXCEPT ![t] = 0]
    /\ runs_allowed' = [runs_allowed EXCEPT ![t] = 1]
    /\ UNCHANGED <<sharedVars, listVars, dpcVars, portVars, xs_awake, xs_in,
                   xs_work, xs_out, disturbancesLeft>>

(* submit_request.  EvtchnRaiseLocally leads to xenbus_evtchn_handler.     *)
submit_request(t) ==
    /\ rpc[t] = "submit"
    /\ ring_lock = Nobody
    /\ pending_reqs' = Append(pending_reqs, t)
    /\ current_tx_req' = IF current_tx_req = NoRequester THEN t
                         ELSE current_tx_req
    /\ dpc_queued' = (dpc_queued \/ evtchn)
    /\ rpc' = [rpc EXCEPT ![t] = "wait"]
    /\ UNCHANGED <<sharedVars, current_rx_req, discard, ring_lock, dpc_step,
                   fire_evtchn, portVars, sequence_number, txVars, rxVars,
                   xsVars, ringBounds>>

(* get_request_results: ten milliseconds without an answer.  The faulty    *)
(* variant sends the request again.                                        *)
SendAgain(t) ==
    IF current_tx_req = NoRequester /\ Len(pending_reqs) = 1
    THEN /\ current_tx_req' = t
         /\ tx_done' = [tx_done EXCEPT ![t] = 0]
    ELSE UNCHANGED <<current_tx_req, tx_done>>

OnlyWait(t) == UNCHANGED <<current_tx_req, tx_done>>

QueueDpcAgain(t) ==
    /\ rpc[t] = "wait"
    /\ t \notin HighIrql
    /\ ~replied[t]
    /\ ~dpc_queued
    /\ dpc_queued' = TRUE
    /\ OnlyWait(t)
    /\ UNCHANGED <<sharedVars, pending_reqs, current_rx_req, discard, ring_lock,
                   dpc_step, fire_evtchn, portVars, sequence_number, req_id,
                   rxVars, rpc, xsVars, ringBounds>>

(* "Unhook from the pending list".                                         *)
Unhook(t) == pending_reqs' = SelectSeq(pending_reqs, LAMBDA u : u # t)

get_request_results(t) ==
    /\ rpc[t] = "wait"
    /\ replied[t]
    /\ ring_lock = Nobody
    /\ Unhook(t)
    /\ rpc' = [rpc EXCEPT ![t] = "idle"]
    /\ UNCHANGED <<sharedVars, current_tx_req, current_rx_req, discard, dpcVars,
                   portVars, sequence_number, txVars, rxVars, xsVars, ringBounds>>

-----------------------------------------------------------------------------
(* xenbus_dpc_func, as the DPC or from get_request_results. *)
BeginDpc(c) ==
    /\ ring_lock = Nobody
    /\ \/ c = Dpc /\ dpc_queued
       \/ c \in HighIrql /\ rpc[c] = "wait" /\ ~replied[c] /\ mapped
    /\ dpc_queued' = (c # Dpc /\ dpc_queued)
    /\ IF mapped
       THEN ring_lock' = c /\ dpc_step' = "transmit" /\ fire_evtchn' = FALSE
       ELSE UNCHANGED <<ring_lock, dpc_step, fire_evtchn>>
    /\ UNCHANGED <<sharedVars, listVars, portVars, sequence_number, txVars,
                   rxVars, rpc, xsVars, ringBounds>>

Successor(t) ==
    LET after == {k \in 2..Len(pending_reqs) : pending_reqs[k - 1] = t}
    IN  IF after = {} THEN NoRequester
        ELSE pending_reqs[CHOOSE k \in after : TRUE]

(* The room that advance_tx_req sees.                                      *)
FreeUnits == RingSize - Used(req_prod, req_cons)

advance_tx_req ==
    /\ dpc_step = "transmit"
    /\ current_tx_req # NoRequester
    /\ FreeUnits > 0
    /\ LET t == current_tx_req
           all == Units(req_id[t], RequestLen)
           this_pass == Min2(Len(all) - tx_done[t], FreeUnits)
           done == tx_done[t] + this_pass
       IN  /\ req' = memcpy_to_ring(req, SubSeq(all, tx_done[t] + 1, done),
                                    req_prod)
           /\ req_prod' = Plus(req_prod, this_pass)
           /\ tx_done' = [tx_done EXCEPT ![t] = done]
           /\ current_tx_req' = IF done = Len(all) THEN Successor(t) ELSE t
    /\ fire_evtchn' = TRUE
    /\ UNCHANGED <<rsp, req_cons, rsp_prod, rsp_cons, pending_reqs,
                   current_rx_req, discard, ring_lock, dpc_step, dpc_queued,
                   portVars, sequence_number, req_id, rxVars, rpc, xsVars, ringBounds>>

StopTransmitting ==
    /\ dpc_step = "transmit"
    /\ current_tx_req = NoRequester \/ FreeUnits = 0
    /\ dpc_step' = "receive"
    /\ UNCHANGED <<sharedVars, listVars, ring_lock, fire_evtchn, dpc_queued,
                   portVars, sequence_number, txVars, rxVars, rpc, xsVars, ringBounds>>

(* One call of receive_from_xenstored that took n units and asks to be     *)
(* called again, or not.                                                   *)
Received(n, again) ==
    /\ rsp_cons' = Plus(rsp_cons, n)
    /\ fire_evtchn' = (fire_evtchn \/ again)
    /\ dpc_step' = IF again THEN "receive" ELSE "release"
    /\ UNCHANGED <<req, rsp, req_prod, req_cons, rsp_prod, pending_reqs,
                   current_tx_req, ring_lock, dpc_queued, portVars,
                   sequence_number, txVars, rpc, xsVars, ringBounds>>

Available == Used(rsp_prod, rsp_cons)

(* Units of an answer nobody expects.  With none available the code spins  *)
(* here, which is no step.                                                 *)
ReceiveDiscarded ==
    /\ dpc_step = "receive"
    /\ discard > 0
    /\ Available > 0
    /\ LET n == Min2(discard, Available)
       IN  discard' = discard - n /\ Received(n, TRUE)
    /\ UNCHANGED <<current_rx_req, rxVars>>

(* More of the current answer.  What the buffer has no room for is lost.   *)
(* The faulty variant copies it all the same.                              *)
AnswerPart(t) == Min2(Available, reply_len[t] - rx_done[t])

CopyAll(t) == AnswerPart(t)

CopyWhatFits(t) ==
    IF reply_buf[t] > rx_done[t]
    THEN Min2(AnswerPart(t), reply_buf[t] - rx_done[t])
    ELSE 0

ReceiveAnswer ==
    /\ dpc_step = "receive"
    /\ discard = 0
    /\ current_rx_req # NoRequester
    /\ LET t == current_rx_req
           n == AnswerPart(t)
           complete == rx_done[t] + n = reply_len[t]
       IN  /\ reply' = [reply EXCEPT ![t] =
                  @ \o memcpy_from_ring(rsp, rsp_cons, CopyWhatFits(t))]
           /\ rx_done' = [rx_done EXCEPT ![t] = @ + n]
           /\ replied' = [replied EXCEPT ![t] = complete]
           /\ current_rx_req' = IF complete THEN NoRequester ELSE t
           /\ Received(n, n > 0)
    /\ UNCHANGED <<discard, reply_len, reply_buf>>

find_pending_rx_req(id) ==
    {t \in Requester :
        req_id[t] = id /\ \E k \in 1..Len(pending_reqs) : pending_reqs[k] = t}

(* The header of a message; a watch event has to be there as a whole, and  *)
(* is handed to fire_watch_by_ident (module XenbusWatch).                  *)
ReceiveHeader ==
    /\ dpc_step = "receive"
    /\ discard = 0
    /\ current_rx_req = NoRequester
    /\ Available >= HeaderLen
    /\ LET hdr == rsp[rsp_cons % RingSize]
           len == hdr[2]
           for == find_pending_rx_req(hdr[1])
       IN  \/ /\ hdr[1] = WatchEvent
              /\ IF Available >= HeaderLen + len
                 THEN Received(HeaderLen + len, TRUE)
                 ELSE Received(0, FALSE)
              /\ UNCHANGED <<current_rx_req, discard, rxVars>>
           \/ /\ hdr[1] # WatchEvent
              /\ for = {}
              /\ discard' = len
              /\ Received(HeaderLen, TRUE)
              /\ UNCHANGED <<current_rx_req, rxVars>>
           \/ \E t \in for :
                /\ current_rx_req' = t
                /\ reply_len' = [reply_len EXCEPT ![t] = len]
                /\ rx_done' = [rx_done EXCEPT ![t] = 0]
                /\ \E size \in {0, len} :      \* XmAllocateMemory may fail
                      reply_buf' = [reply_buf EXCEPT ![t] =
                                       IF @ = AllocateLater THEN size ELSE @]
                /\ reply' = [reply EXCEPT ![t] = <<>>]
                /\ Received(HeaderLen, TRUE)
                /\ UNCHANGED <<discard, replied>>

ReceiveNothing ==
    /\ dpc_step = "receive"
    /\ discard = 0
    /\ current_rx_req = NoRequester
    /\ Available < HeaderLen
    /\ Received(0, FALSE)
    /\ UNCHANGED <<current_rx_req, discard, rxVars>>

(* EvtchnNotifyRemote.  The faulty variant forgets it after a receive.     *)
NotifyForTransmitOnly ==
    fire_evtchn /\ evtchn /\ Used(req_prod, req_cons) > 0

Notify == fire_evtchn /\ evtchn

EndDpc ==
    /\ dpc_step = "release"
    /\ xs_awake' = (xs_awake \/ Notify)
    /\ ring_lock' = Nobody
    /\ dpc_step' = "idle"
    /\ fire_evtchn' = FALSE
    /\ UNCHANGED <<sharedVars, listVars, dpc_queued, portVars,
                   sequence_number, txVars, rxVars, rpc, xs_in,
                   xs_work, xs_out, runs, runs_allowed, ringBounds>>
-----------------------------------------------------------------------------
(* xenstored.  It reads what it finds, executes requests in any order, and *)
(* writes answers and watch events as far as there is room.  With nothing  *)
(* left that it can do it sleeps until it is notified.                     *)
XsGoOn ==
    xs_awake' = (\/ req_prod' # req_cons'
                 \/ xs_work' # {}
                 \/ xs_out' # <<>> /\ Used(rsp_prod', rsp_cons') < RingSize)

XsRead ==
    /\ xs_awake
    /\ LET n == Min2(Used(req_prod, req_cons),
                     HeaderLen + RequestLen - Len(xs_in))
           got == xs_in \o memcpy_from_ring(req, req_cons, n)
       IN  /\ n > 0
           /\ req_cons' = Plus(req_cons, n)
           /\ IF Len(got) = HeaderLen + RequestLen
              THEN /\ xs_work' = xs_work \cup {got[1][1]}
                   /\ xs_in' = <<>>
              ELSE /\ xs_in' = got
                   /\ UNCHANGED xs_work
    /\ UNCHANGED <<req, rsp, req_prod, rsp_prod, rsp_cons, listVars, dpcVars,
                   portVars, sequence_number, txVars, rxVars, rpc, xs_out, runs,
                   runs_allowed, ringBounds>>
    /\ XsGoOn

XsExecute ==
    /\ xs_awake
    /\ \E id \in xs_work, t \in Requester :
        /\ req_id[t] = id
        /\ rpc[t] = "wait"
        /\ xs_work' = xs_work \ {id}
        /\ xs_out' = xs_out \o Units(id, ReplyLen[t])
        /\ runs' = [runs EXCEPT ![t] = @ + 1]
    /\ UNCHANGED <<sharedVars, listVars, dpcVars, portVars, sequence_number,
                   txVars, rxVars, rpc, xs_in, runs_allowed, ringBounds>>
    /\ XsGoOn

XsEvent ==
    /\ disturbancesLeft > 0
    /\ disturbancesLeft' = disturbancesLeft - 1
    /\ xs_awake' = TRUE
    /\ xs_out' = xs_out \o Units(WatchEvent, EventLen)
    /\ UNCHANGED <<sharedVars, listVars, dpcVars, portVars, sequence_number,
                   txVars, rxVars, rpc, xs_in, xs_work, runs,
                   runs_allowed, requestsLeft>>

XsWrite ==
    /\ xs_awake
    /\ LET n == Min2(Len(xs_out), RingSize - Used(rsp_prod, rsp_cons))
       IN  /\ n > 0
           /\ rsp' = memcpy_to_ring(rsp, SubSeq(xs_out, 1, n), rsp_prod)
           /\ rsp_prod' = Plus(rsp_prod, n)
           /\ xs_out' = SubSeq(xs_out, n + 1, Len(xs_out))
    /\ dpc_queued' = (dpc_queued \/ evtchn)
    /\ UNCHANGED <<req, req_prod, req_cons, rsp_cons, listVars, ring_lock,
                   dpc_step, fire_evtchn, portVars, sequence_number, txVars,
                   rxVars, rpc, xs_in, xs_work, runs, runs_allowed, ringBounds>>
    /\ XsGoOn

(* A new xenstored takes over, with an empty ring. *)
NewXenstored ==
    /\ req_prod' = 0 /\ req_cons' = 0 /\ rsp_prod' = 0 /\ rsp_cons' = 0
    /\ xs_awake' = FALSE
    /\ xs_in' = <<>>
    /\ xs_work' = {}
    /\ xs_out' = <<>>
-----------------------------------------------------------------------------
(* reset_requests.                                                         *)
Segregate(done, todo) == done \o todo

reset_requests ==
    LET done == SelectSeq(pending_reqs, LAMBDA t : replied[t])
        todo == SelectSeq(pending_reqs, LAMBDA t : ~replied[t])
        again == {todo[k] : k \in 1..Len(todo)}
    IN  /\ pending_reqs' = Segregate(done, todo)
        /\ current_tx_req' = IF todo = <<>> THEN NoRequester ELSE todo[1]
        /\ current_rx_req' = NoRequester
        /\ tx_done' = [t \in Requester |->
                          IF t \in again THEN 0 ELSE tx_done[t]]
        /\ runs_allowed' = [t \in Requester |->
                               IF t \in again THEN runs[t] + 1
                               ELSE runs_allowed[t]]

(* Quiesced: nobody is at DISPATCH_LEVEL. *)
AllBelowDispatch ==
    /\ ring_lock = Nobody
    /\ \A t \in HighIrql : rpc[t] = "idle"

(* XenbusResumeEarly: the requests; watches are in XenbusWatch, and        *)
(* transactions in XenbusTransaction.                                      *)
XenbusResumeEarly ==
    /\ mapped
    /\ disturbancesLeft > 0
    /\ disturbancesLeft' = disturbancesLeft - 1
    /\ AllBelowDispatch
    /\ NewXenstored
    /\ reset_requests
    /\ dpc_queued' = (dpc_queued \/ evtchn)
    /\ UNCHANGED <<req, rsp, discard, ring_lock, dpc_step, fire_evtchn, portVars,
                   sequence_number, req_id, rxVars, rpc, runs,
                   requestsLeft>>

(* XenevtchnInitXenbus, at first or coming back from hibernation.          *)
XenevtchnInitXenbus ==
    /\ ~evtchn
    /\ ring_lock = Nobody
    /\ mapped' = TRUE
    /\ evtchn' = TRUE
    /\ reset_requests
    /\ IF mapped THEN NewXenstored
       ELSE UNCHANGED <<req_prod, req_cons, rsp_prod, rsp_cons, xs_awake, xs_in,
                        xs_work, xs_out>>
    /\ UNCHANGED <<req, rsp, discard, dpcVars, sequence_number, req_id, rxVars,
                   rpc, runs, requestsLeft, disturbancesLeft>>

CleanupXenbus ==
    /\ evtchn
    /\ ring_lock = Nobody
    /\ disturbancesLeft > 0
    /\ disturbancesLeft' = disturbancesLeft - 1
    /\ evtchn' = FALSE
    /\ UNCHANGED <<sharedVars, listVars, dpcVars, mapped, sequence_number,
                   txVars, rxVars, rpc, xsVars, requestsLeft>>
-----------------------------------------------------------------------------
RequesterStep(t) ==
    submit_request(t) \/ get_request_results(t)

DpcStep ==
    \/ advance_tx_req \/ StopTransmitting \/ ReceiveDiscarded \/ ReceiveAnswer
    \/ ReceiveHeader \/ ReceiveNothing \/ EndDpc

XenstoredStep == XsRead \/ XsExecute \/ XsWrite

RingNext ==
    \/ \E t \in Requester :
          start_operation(t) \/ RequesterStep(t) \/ QueueDpcAgain(t)
    \/ \E c \in {Dpc} \cup HighIrql : BeginDpc(c)
    \/ DpcStep
    \/ XenstoredStep \/ XsEvent
    \/ XenbusResumeEarly \/ XenevtchnInitXenbus \/ CleanupXenbus

RingSpec == RingInit /\ [][RingNext]_ringVars
-----------------------------------------------------------------------------
RingTypeOK ==
    /\ req_prod \in 0..(IndexModulus - 1) /\ req_cons \in 0..(IndexModulus - 1)
    /\ rsp_prod \in 0..(IndexModulus - 1) /\ rsp_cons \in 0..(IndexModulus - 1)
    /\ Used(req_prod, req_cons) <= RingSize
    /\ Used(rsp_prod, rsp_cons) <= RingSize
    /\ pending_reqs \in Seq(Requester)
    /\ current_tx_req \in Requester \cup {NoRequester}
    /\ current_rx_req \in Requester \cup {NoRequester}
    /\ discard \in Nat
    /\ ring_lock \in {Nobody, Dpc} \cup HighIrql
    /\ dpc_step \in {"idle", "transmit", "receive", "release"}
    /\ {mapped, evtchn, fire_evtchn, dpc_queued, xs_awake} \subseteq BOOLEAN
    /\ req_id \in [Requester -> 0..(IdModulus - 1)]
    /\ tx_done \in [Requester -> 0..(HeaderLen + RequestLen)]
    /\ rx_done \in [Requester -> Nat]
    /\ replied \in [Requester -> BOOLEAN]
    /\ rpc \in [Requester -> {"idle", "submit", "wait"}]

Waiting == {t \in Requester : rpc[t] = "wait"}

(* A request is on the stack of its requester, which returns from          *)
(* get_request_results (xenbus.c:634-651) once it is replied to.  So what  *)
(* is listed belongs to requesters that wait there, each once, and nobody  *)
(* transmits from or receives into a request that has its answer: the      *)
(* XM_ASSERTs of lines 645 and 646.                                        *)
NoDanglingRequest ==
    /\ \A k \in 1..Len(pending_reqs) : rpc[pending_reqs[k]] = "wait"
    /\ Len(pending_reqs) = Cardinality(Waiting)
    /\ \A t \in {current_tx_req, current_rx_req} \ {NoRequester} :
          rpc[t] = "wait" /\ ~replied[t]

(* current_tx_req is the first request that is not fully transmitted, also *)
(* after reset_requests has sorted out which ones start again: what comes  *)
(* before it is out, what comes after it has not begun.                    *)
TransmissionInOrder ==
    LET all == HeaderLen + RequestLen
        here == {k \in 1..Len(pending_reqs) : pending_reqs[k] = current_tx_req}
    IN  \A k \in 1..Len(pending_reqs) :
            tx_done[pending_reqs[k]] \in
                IF here = {} \/ \E h \in here : k < h THEN {all}
                ELSE IF k \in here THEN 0..(all - 1) ELSE {0}

(* xenstored never sees two requests mixed, half a request, or one from a  *)
(* requester that has gone, whatever is transmitted again.                 *)
RequestsIntact ==
    /\ \A id \in xs_work : \E t \in Waiting : req_id[t] = id
    /\ xs_in # <<>> =>
          \E t \in Waiting :
              xs_in = SubSeq(Units(req_id[t], RequestLen), 1, Len(xs_in))

(* A requester gets the answer to its own request, complete, in order, and *)
(* as much of it as its buffer has room for, although answers arrive in    *)
(* pieces and in any order and are mixed with events and with an answer    *)
(* from before a crash (receive_from_xenstored).                           *)
ReplyIsOwn ==
    \A t \in Requester :
        rpc[t] = "wait" /\ replied[t] =>
            /\ runs[t] > 0
            /\ reply_len[t] = ReplyLen[t]
            /\ reply[t] = SubSeq(Payload(req_id[t], ReplyLen[t]), 1,
                                 Min2(ReplyLen[t], reply_buf[t]))

(* What the DPC keeps about the requests is right at both ends of the      *)
(* ring: the definitions above.                                            *)
RequestsConsistent ==
    RingTypeOK /\ NoDanglingRequest /\ TransmissionInOrder /\ RequestsIntact

(* Every request that was submitted gets its answer: nothing waits for a   *)
(* notification that is not sent, in spite of full rings, sleeping         *)
(* xenstored, resumes and hibernation.                                     *)
RequestsReturn == \A t \in Requester : rpc[t] = "wait" ~> rpc[t] = "idle"

(* The promise of StoreCalls: a request is executed before it returns, and *)
(* more than once only if a resume came before its answer.                 *)
Calls == INSTANCE StoreCalls
           WITH calls <- {t \in Requester : rpc[t] # "idle"},
                executed <- runs,
                allowed <- runs_allowed

ImplementsStoreCalls == Calls!StoreSpec
=============================================================================
