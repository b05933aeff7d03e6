----------------------------- MODULE StoreCalls -----------------------------
(***************************************************************************)
(* What submit_request_and_await_result promises its callers: a request is *)
(* executed by xenstored between the call and the return.  It is executed  *)
(* once, or once more for each resume that overtakes the answer.           *)
(***************************************************************************)
EXTENDS Naturals

CONSTANT Requester

VARIABLES calls,    \* the requesters inside a call
          executed, \* how often each call has been executed
          allowed   \* how often it may be

storeVars == <<calls, executed, allowed>>

StoreInit ==
    /\ calls = {}
    /\ executed = [t \in Requester |-> 0]
    /\ allowed = [t \in Requester |-> 0]

Call(t) ==
    /\ t \notin calls
    /\ calls' = calls \cup {t}
    /\ executed' = [executed EXCEPT ![t] = 0]
    /\ allowed' = [allowed EXCEPT ![t] = 1]

Execute(t) ==
    /\ t \in calls
    /\ executed[t] < allowed[t]
    /\ executed' = [executed EXCEPT ![t] = @ + 1]
    /\ UNCHANGED <<calls, allowed>>

(* A new xenstored; it may execute again what is not answered yet. *)
Renew(S) ==
    /\ S \subseteq calls
    /\ allowed' = [t \in Requester |->
                      IF t \in S THEN executed[t] + 1 ELSE allowed[t]]
    /\ UNCHANGED <<calls, executed>>

Return(t) ==
    /\ t \in calls
    /\ executed[t] > 0
    /\ calls' = calls \ {t}
    /\ UNCHANGED <<executed, allowed>>

StoreNext ==
    \/ \E t \in Requester : Call(t) \/ Execute(t) \/ Return(t)
    \/ \E S \in SUBSET Requester : Renew(S)

StoreSpec == StoreInit /\ [][StoreNext]_storeVars
=============================================================================
