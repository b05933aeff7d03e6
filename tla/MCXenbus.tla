------------------------------ MODULE MCXenbus ------------------------------
(* Requests, transactions and the switch of Xenbus, each on a small        *)
(* instance of its own: the part chosen at the start makes all the steps.  *)
EXTENDS XenbusRing, XenbusTransaction, XenbusSwitch

CONSTANTS r1, r2

VARIABLE part

MCRequester == {r1, r2}
MCHighIrql == {r2}
MCCallerBuffer == {r1}
MCReplyLen == [t \in MCRequester |-> IF t = r1 THEN 0 ELSE 2]

xenbusVars == <<part, ringVars, transactionVars, switchVars>>

XenbusInit ==
    /\ part \in {"ring", "transaction", "switch"}
    /\ RingInit /\ TransactionInit /\ SwitchInit
    \* one of the initial states of what is not explored is enough
    /\ part # "ring" => xs_out = <<>>

XenbusNext ==
    \/ /\ part = "ring"
       /\ RingNext
       /\ UNCHANGED <<part, transactionVars, switchVars>>
    \/ /\ part = "transaction"
       /\ TransactionNext
       /\ UNCHANGED <<part, ringVars, switchVars>>
    \/ /\ part = "switch"
       /\ SwitchNext
       /\ UNCHANGED <<part, ringVars, transactionVars>>

(* Requesters and DPCs run, a requester waits at most ten milliseconds,    *)
(* xenstored does what it can, and a system that hibernates comes back.    *)
RingFairness ==
    /\ \A t \in Requester :
          /\ WF_ringVars(part = "ring" /\ RequesterStep(t))
          /\ WF_ringVars(part = "ring" /\ QueueDpcAgain(t))
    /\ \A c \in {Dpc} \cup HighIrql : WF_ringVars(part = "ring" /\ BeginDpc(c))
    /\ WF_ringVars(part = "ring" /\ DpcStep)
    /\ WF_ringVars(part = "ring" /\ XenstoredStep)
    /\ SF_ringVars(part = "ring" /\ XenevtchnInitXenbus)

XenbusSpec ==
    /\ XenbusInit /\ [][XenbusNext]_xenbusVars
    /\ RingFairness
=============================================================================
