-------------------------- MODULE XenbusTransaction -------------------------
(***************************************************************************)
(* Transactions: xenutil/xenbus.c lines 78-87, 320-342, 386-396, 1224-1262 *)
(* (reads), 1582-1831, 1907-1968 and 2038-2058.                            *)
(*                                                                         *)
(* Every user runs xenbus_change_state on the same node with a transaction *)
(* of its own.  A request is sent, executed by xenstored and answered; a   *)
(* resume meets a new xenstored, knows none of the open transactions, and  *)
(* sends the requests that have no answer again (module StoreCalls).  The  *)
(* identifiers of the new xenstored are taken to differ from the old ones. *)
(***************************************************************************)
EXTENDS Integers, FiniteSets

CONSTANTS User,
          MaxTransactions,    \* bound: transactions started
          MaxFailures,        \* bound: requests that xenstored refuses
          MaxResumes          \* bound

ASSUME TransactionAssumption ==
    /\ IsFiniteSet(User)
    /\ \A n \in {MaxTransactions, MaxFailures, MaxResumes} : n \in Nat

SUCCESS == "STATUS_SUCCESS"
RETRY == "STATUS_RETRY"
ENOENT == "STATUS_OBJECT_NAME_NOT_FOUND"
UNSUCCESSFUL == "STATUS_UNSUCCESSFUL"
NtStatus == {SUCCESS, RETRY, ENOENT, UNSUCCESSFUL}
Poison == 0                   \* stands for 0x66778899

VARIABLES
    tpc,                  \* what each user has asked for, or "idle"
    sent,                 \* its request: "sent", "executed", "answered"
    result,               \* what xenstored said of it
    open_transactions,    \* head_open_transaction: the users that have one
    status, trans_id,     \* struct xenbus_transaction
    may_retry,            \* the transaction is ended with abort = 0
    aborts,               \* what XS_TRANSACTION_END says
    returned,             \* what xenbus_change_state returned
    (* xenstored *)
    transactions,         \* the open ones: id, base version, written?
    version,              \* of the node
    next_id,
    committed,            \* users whose write was committed
    failuresLeft, resumesLeft

userVars == <<tpc, sent, result, status, trans_id, may_retry, aborts, returned>>
storedVars == <<transactions, version, next_id, committed>>
transactionVars == <<userVars, open_transactions, storedVars, failuresLeft,
                     resumesLeft>>

TransactionInit ==
    /\ tpc = [u \in User |-> "idle"]
    /\ sent = [u \in User |-> "answered"]
    /\ result = [u \in User |-> SUCCESS]
    /\ open_transactions = {}
    /\ status = [u \in User |-> SUCCESS]
    /\ trans_id = [u \in User |-> Poison]
    /\ may_retry = [u \in User |-> TRUE]
    /\ aborts = [u \in User |-> FALSE]
    /\ returned = [u \in User |-> "none"]
    /\ transactions = {} /\ version = 0 /\ next_id = 1 /\ committed = {}
    /\ failuresLeft = MaxFailures /\ resumesLeft = MaxResumes
-----------------------------------------------------------------------------
Submit(u, l) ==
    /\ tpc' = [tpc EXCEPT ![u] = l]
    /\ sent' = [sent EXCEPT ![u] = "sent"]

Answered(u, l) == tpc[u] = l /\ sent[u] = "answered"

(* xenbus_fail_transaction: the compare-exchange keeps the first failure.  *)
Failed(old, new) == IF old = SUCCESS THEN new ELSE old

(* __xenbus_transaction_start up to the request.                           *)
xenbus_transaction_start(u) ==
    /\ next_id <= MaxTransactions
    /\ open_transactions' = open_transactions \cup {u}
    /\ status' = [status EXCEPT ![u] = SUCCESS]
    /\ Submit(u, "start")

xenbus_change_state(u) ==
    /\ tpc[u] = "idle"
    /\ xenbus_transaction_start(u)
    /\ committed' = committed \ {u}
    /\ returned' = [returned EXCEPT ![u] = "none"]
    /\ UNCHANGED <<result, trans_id, may_retry, aborts, transactions, version,
                   next_id, failuresLeft, resumesLeft>>

(* __xenbus_transaction_end up to the request.  The faulty variant spares  *)
(* itself the request if the transaction has failed.                       *)
EndQuietly(u, st, abort) ==
    /\ tpc' = [tpc EXCEPT ![u] = "end"]
    /\ sent' = [sent EXCEPT ![u] = IF st = SUCCESS THEN "sent" ELSE "answered"]
    /\ may_retry' = [may_retry EXCEPT ![u] = ~abort]
    /\ aborts' = [aborts EXCEPT ![u] = abort]

MustAbort(st, abort) == abort \/ st # SUCCESS

xenbus_transaction_end(u, st, abort) ==
    /\ Submit(u, "end")
    /\ may_retry' = [may_retry EXCEPT ![u] = ~abort]
    /\ aborts' = [aborts EXCEPT ![u] = MustAbort(st, abort)]

(* The rest of the start, and xenbus_read_state up to its request, which   *)
(* transaction_status may forbid.                                          *)
StartAnswered(u) ==
    /\ Answered(u, "start")
    /\ LET st == Failed(status[u], result[u])
       IN  /\ status' = [status EXCEPT ![u] = st]
           /\ IF st = SUCCESS
              THEN Submit(u, "read") /\ UNCHANGED <<may_retry, aborts>>
              ELSE xenbus_transaction_end(u, st, TRUE)
    /\ UNCHANGED <<result, trans_id, returned, open_transactions, storedVars,
                   failuresLeft, resumesLeft>>

(* xenbus_write_state follows a successful read if the transaction still   *)
(* stands; a failed read ends the transaction.                             *)
ReadAnswered(u) ==
    /\ Answered(u, "read")
    /\ LET st == Failed(status[u], result[u])
       IN  /\ status' = [status EXCEPT ![u] = st]
           /\ IF st = SUCCESS
              THEN Submit(u, "write") /\ UNCHANGED <<may_retry, aborts>>
              ELSE xenbus_transaction_end(u, st, result[u] # SUCCESS)
    /\ UNCHANGED <<result, trans_id, returned, open_transactions, storedVars,
                   failuresLeft, resumesLeft>>

(* The outcome of the write is in the transaction's status only. *)
WriteAnswered(u) ==
    /\ Answered(u, "write")
    /\ LET st == Failed(status[u], result[u])
       IN  /\ status' = [status EXCEPT ![u] = st]
           /\ xenbus_transaction_end(u, st, FALSE)
    /\ UNCHANGED <<result, trans_id, returned, open_transactions, storedVars,
                   failuresLeft, resumesLeft>>

(* The rest of the end: a success of xenstored's yields to the status of   *)
(* the transaction.  The faulty variant reports xenstored's word alone.    *)
WordOfXenstored(u) == result[u]

EndStatus(u) == IF result[u] = SUCCESS THEN status[u] ELSE result[u]

EndAnswered(u) ==
    /\ Answered(u, "end")
    /\ IF may_retry[u] /\ EndStatus(u) = RETRY
       THEN /\ xenbus_transaction_start(u)
            /\ committed' = committed \ {u}
            /\ UNCHANGED returned
       ELSE /\ open_transactions' = open_transactions \ {u}
            /\ tpc' = [tpc EXCEPT ![u] = "idle"]
            /\ returned' = [returned EXCEPT ![u] =
                               IF may_retry[u] THEN EndStatus(u) ELSE status[u]]
            /\ UNCHANGED <<sent, status, committed>>
    /\ UNCHANGED <<result, trans_id, may_retry, aborts, transactions, version,
                   next_id, failuresLeft, resumesLeft>>

(* abort_all_transactions, in XenbusResumeEarly.                           *)
Abort(st) == IF st = SUCCESS THEN RETRY ELSE st

abort_all_transactions ==
    /\ resumesLeft > 0
    /\ resumesLeft' = resumesLeft - 1
    /\ status' = [u \in User |-> IF u \in open_transactions THEN Abort(status[u])
                                 ELSE status[u]]
    /\ transactions' = {}
    /\ sent' = [u \in User |-> IF sent[u] = "executed" THEN "sent" ELSE sent[u]]
    /\ UNCHANGED <<tpc, result, trans_id, may_retry, aborts, returned,
                   open_transactions, version, next_id, committed, failuresLeft>>
-----------------------------------------------------------------------------
(* External: xenstored.  It knows a transaction by its id; it commits if   *)
(* the node is as the transaction found it.  The reply to the start, which *)
(* the user reads into trans_id, is written there when it is sent.         *)
Executed(u, res) ==
    /\ result' = [result EXCEPT ![u] = res]
    /\ sent' = [sent EXCEPT ![u] = "executed"]

XsStart(u) ==
    /\ tpc[u] = "start"
    /\ Executed(u, SUCCESS)
    /\ trans_id' = [trans_id EXCEPT ![u] = next_id]
    /\ next_id' = next_id + 1
    /\ transactions' = transactions \cup
                          {[id |-> next_id, base |-> version, written |-> FALSE]}
    /\ UNCHANGED <<version, committed, failuresLeft>>

XsFail(u) ==
    /\ tpc[u] \in {"start", "read", "write"}
    /\ failuresLeft > 0
    /\ failuresLeft' = failuresLeft - 1
    /\ Executed(u, UNSUCCESSFUL)
    /\ trans_id' = IF tpc[u] = "start" THEN [trans_id EXCEPT ![u] = Poison]
                   ELSE trans_id
    /\ UNCHANGED <<transactions, version, next_id, committed>>

XsAccess(u) ==
    /\ tpc[u] \in {"read", "write"}
    /\ LET mine == {t \in transactions : t.id = trans_id[u]}
       IN  /\ Executed(u, IF mine = {} THEN ENOENT ELSE SUCCESS)
           /\ transactions' = (transactions \ mine) \cup
                {[t EXCEPT !.written = @ \/ tpc[u] = "write"] : t \in mine}
    /\ UNCHANGED <<trans_id, version, next_id, committed, failuresLeft>>

XsEnd(u) ==
    /\ tpc[u] = "end"
    /\ LET mine == {t \in transactions : t.id = trans_id[u]}
           clash == \E t \in mine : t.base # version
           done == ~aborts[u] /\ ~clash /\ \E t \in mine : t.written
       IN  /\ Executed(u, IF mine = {} THEN ENOENT
                          ELSE IF aborts[u] \/ ~clash THEN SUCCESS ELSE RETRY)
           /\ transactions' = transactions \ mine
           /\ version' = IF done THEN version + 1 ELSE version
           /\ committed' = IF done THEN committed \cup {u} ELSE committed
    /\ UNCHANGED <<trans_id, next_id, failuresLeft>>

XsTransact(u) ==
    /\ sent[u] = "sent"
    /\ XsStart(u) \/ XsFail(u) \/ XsAccess(u) \/ XsEnd(u)
    /\ UNCHANGED <<tpc, status, may_retry, aborts, returned, open_transactions,
                   resumesLeft>>

XsReply(u) ==
    /\ sent[u] = "executed"
    /\ sent' = [sent EXCEPT ![u] = "answered"]
    /\ UNCHANGED <<tpc, result, status, trans_id, may_retry, aborts, returned,
                   open_transactions, storedVars, failuresLeft, resumesLeft>>
-----------------------------------------------------------------------------
TransactionStep(u) ==
    \/ StartAnswered(u) \/ ReadAnswered(u) \/ WriteAnswered(u) \/ EndAnswered(u)
    \/ XsTransact(u) \/ XsReply(u)

TransactionNext ==
    \/ \E u \in User : xenbus_change_state(u) \/ TransactionStep(u)
    \/ abort_all_transactions

TransactionSpec == TransactionInit /\ [][TransactionNext]_transactionVars
-----------------------------------------------------------------------------
TransactionTypeOK ==
    /\ tpc \in [User -> {"idle", "start", "read", "write", "end"}]
    /\ sent \in [User -> {"sent", "executed", "answered"}]
    /\ result \in [User -> NtStatus]
    /\ open_transactions = {u \in User : tpc[u] # "idle"}
    /\ status \in [User -> NtStatus]
    /\ trans_id \in [User -> Nat]
    /\ may_retry \in [User -> BOOLEAN]
    /\ aborts \in [User -> BOOLEAN]
    /\ returned \in [User -> NtStatus \cup {"none"}]
    /\ transactions \subseteq [id : Nat, base : Nat, written : BOOLEAN]
    /\ version \in Nat /\ next_id \in Nat \ {0}
    /\ committed \subseteq User
    /\ failuresLeft \in Nat /\ resumesLeft \in Nat

(* xenbus_change_state reports success only if xenstored committed the     *)
(* transaction, with the write in it, in one piece: a resume between any   *)
(* two requests, or between the commit and its answer, never leads to a    *)
(* success for less.                                                       *)
SuccessMeansCommitted == \A u \in User :
    returned[u] = SUCCESS => u \in committed

(* xenbus.c:1751 "In any case, the transaction must be ended on the        *)
(* xenstore side": a user that has returned, whatever failed on the way,   *)
(* has no transaction open in the present xenstored.                       *)
NoTransactionLeft == \A t \in transactions : \E u \in User :
    t.id = trans_id[u] /\ tpc[u] # "idle"

(* The inductive form of the two.  Identifiers are not shared; while a     *)
(* transaction stands, xenstored has it, with what the user did in it; a   *)
(* success of its end is a commit.                                         *)
Mine(u) == {t \in transactions : t.id = trans_id[u]}

IdsDistinct ==
    /\ \A t \in transactions : t.id # Poison /\ t.id < next_id
    /\ \A u \in User : trans_id[u] < next_id
    /\ \A u, v \in User : (u # v /\ trans_id[u] = trans_id[v])
                              => trans_id[u] = Poison

StandingIsOpen(u) == status[u] = SUCCESS =>
    /\ (tpc[u] = "start" /\ sent[u] # "sent" /\ result[u] = SUCCESS)
           => Mine(u) # {}
    /\ tpc[u] \in {"read", "write"} => Mine(u) # {}
    /\ (tpc[u] = "write" /\ sent[u] # "sent" /\ result[u] = SUCCESS)
           => \A t \in Mine(u) : t.written
    /\ tpc[u] = "end" =>
         /\ ~aborts[u] /\ may_retry[u]
         /\ sent[u] = "sent" => Mine(u) # {} /\ \A t \in Mine(u) : t.written
         /\ (sent[u] # "sent" /\ result[u] = SUCCESS) => u \in committed

EndedIsClosed(u) ==
    (\/ tpc[u] = "idle"
     \/ tpc[u] = "start" /\ sent[u] = "sent"
     \/ tpc[u] = "end" /\ sent[u] # "sent") => Mine(u) = {}

TransactionInv ==
    /\ IdsDistinct
    /\ \A u \in User : tpc[u] # "idle" => returned[u] = "none"
    /\ \A u \in User : StandingIsOpen(u) /\ EndedIsClosed(u)
    /\ SuccessMeansCommitted
    /\ NoTransactionLeft

(* xenbus_fail_transaction and abort_all_transactions ("Preserve the error *)
(* code if they've already been aborted"): the first failure of a          *)
(* transaction stays its status until the transaction is gone.             *)
FirstFailureKept == [][\A u \in open_transactions :
    (status[u] # SUCCESS /\ status'[u] # status[u])
        => Answered(u, "end")]_transactionVars
=============================================================================
