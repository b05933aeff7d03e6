----------------------- MODULE XenbusTransactionProofs ----------------------
(***************************************************************************)
(* What transactions promise, for every set of users and every bound.      *)
(***************************************************************************)
EXTENDS XenbusTransaction, TLAPS

USE DEF NtStatus, SUCCESS, RETRY, ENOENT, UNSUCCESSFUL, Poison

(* Every step keeps the variables in their types, and the list of open     *)
(* transactions holds the users that are at work.                          *)
THEOREM TransactionTypeCorrect == TransactionSpec => []TransactionTypeOK
<1>1. TransactionInit => TransactionTypeOK
  BY TransactionAssumption DEF TransactionInit, TransactionTypeOK
<1>2. ASSUME TransactionTypeOK, [TransactionNext]_transactionVars
      PROVE  TransactionTypeOK'
  <2> USE <1>2 DEF TransactionTypeOK
  <2>1. ASSUME NEW u \in User, xenbus_change_state(u)
        PROVE  TransactionTypeOK'
    BY <2>1 DEF xenbus_change_state, xenbus_transaction_start, Submit
  <2>2. ASSUME NEW u \in User, StartAnswered(u)
        PROVE  TransactionTypeOK'
    <3>1. /\ tpc[u] # "idle" /\ Failed(status[u], result[u]) \in NtStatus
          /\ UNCHANGED <<result, trans_id, returned, open_transactions, storedVars,
                         failuresLeft, resumesLeft>>
          /\ status' = [status EXCEPT ![u] = Failed(status[u], result[u])]
      BY <2>2 DEF StartAnswered, Answered, Failed
    <3>2. CASE Failed(status[u], result[u]) = SUCCESS
      BY <2>2, <3>1, <3>2 DEF StartAnswered, Submit, storedVars
    <3>3. CASE Failed(status[u], result[u]) # SUCCESS
      <4>1. PICK a \in BOOLEAN, b \in BOOLEAN :
              /\ tpc' = [tpc EXCEPT ![u] = "end"]
              /\ sent' = [sent EXCEPT ![u] = "sent"]
              /\ may_retry' = [may_retry EXCEPT ![u] = a]
              /\ aborts' = [aborts EXCEPT ![u] = b]
        BY <2>2, <3>3, Zenon
           DEF StartAnswered, Submit, xenbus_transaction_end, MustAbort
      <4> QED
        BY <3>1, <4>1 DEF storedVars
    <3> QED
      BY <3>2, <3>3
  <2>3. ASSUME NEW u \in User, ReadAnswered(u)
        PROVE  TransactionTypeOK'
    <3>1. /\ tpc[u] # "idle" /\ Failed(status[u], result[u]) \in NtStatus
          /\ UNCHANGED <<result, trans_id, returned, open_transactions, storedVars,
                         failuresLeft, resumesLeft>>
          /\ status' = [status EXCEPT ![u] = Failed(status[u], result[u])]
      BY <2>3 DEF ReadAnswered, Answered, Failed
    <3>2. CASE Failed(status[u], result[u]) = SUCCESS
      BY <2>3, <3>1, <3>2 DEF ReadAnswered, Submit, storedVars
    <3>3. CASE Failed(status[u], result[u]) # SUCCESS
      <4>1. PICK a \in BOOLEAN, b \in BOOLEAN :
              /\ tpc' = [tpc EXCEPT ![u] = "end"]
              /\ sent' = [sent EXCEPT ![u] = "sent"]
              /\ may_retry' = [may_retry EXCEPT ![u] = a]
              /\ aborts' = [aborts EXCEPT ![u] = b]
        BY <2>3, <3>3, Zenon
           DEF ReadAnswered, Submit, xenbus_transaction_end, MustAbort
      <4> QED
        BY <3>1, <4>1 DEF storedVars
    <3> QED
      BY <3>2, <3>3
  <2>4. ASSUME NEW u \in User, WriteAnswered(u)
        PROVE  TransactionTypeOK'
    BY <2>4 DEF WriteAnswered, Answered, Submit, xenbus_transaction_end,
                MustAbort, Failed, storedVars
  <2>5. ASSUME NEW u \in User, EndAnswered(u)
        PROVE  TransactionTypeOK'
    BY <2>5 DEF EndAnswered, Answered, Submit, xenbus_transaction_start,
                EndStatus
  <2>6. ASSUME NEW u \in User, XsTransact(u)
        PROVE  TransactionTypeOK'
    <3>1. CASE XsStart(u)
      <4>1. [id |-> next_id, base |-> version, written |-> FALSE]
               \in [id : Nat, base : Nat, written : BOOLEAN]
        OBVIOUS
      <4>2. transactions' \subseteq [id : Nat, base : Nat, written : BOOLEAN]
        BY <3>1, <4>1 DEF XsStart
      <4>3. next_id' \in Nat \ {0}
        BY <3>1 DEF XsStart
      <4> QED
        BY <2>6, <3>1, <4>2, <4>3 DEF XsTransact, XsStart, Executed
    <3>2. CASE XsFail(u)
      BY <2>6, <3>2 DEF XsTransact, XsFail, Executed
    <3>3. CASE XsAccess(u)
      BY <2>6, <3>3 DEF XsTransact, XsAccess, Executed
    <3>4. CASE XsEnd(u)
      BY <2>6, <3>4 DEF XsTransact, XsEnd, Executed
    <3> QED
      BY <2>6, <3>1, <3>2, <3>3, <3>4 DEF XsTransact
  <2>7. ASSUME NEW u \in User, XsReply(u)
        PROVE  TransactionTypeOK'
    BY <2>7 DEF XsReply, storedVars
  <2>8. CASE abort_all_transactions
    BY <2>8 DEF abort_all_transactions, Abort
  <2>9. CASE UNCHANGED transactionVars
    BY <2>9 DEF transactionVars, userVars, storedVars
  <2> QED
    BY <2>1, <2>2, <2>3, <2>4, <2>5, <2>6, <2>7, <2>8, <2>9
       DEF TransactionNext, TransactionStep
<1> QED
  BY <1>1, <1>2, PTL DEF TransactionSpec

-----------------------------------------------------------------------------
(* A step of the user's own leaves xenstored alone.                        *)
LEMMA UserStepKeepsInv ==
  ASSUME TransactionTypeOK, TransactionInv, NEW u \in User,
         \/ xenbus_change_state(u) \/ StartAnswered(u) \/ ReadAnswered(u)
         \/ WriteAnswered(u) \/ EndAnswered(u) \/ XsReply(u)
  PROVE  TransactionInv'
<1> USE DEF TransactionTypeOK
<1>1. /\ UNCHANGED <<transactions, trans_id, next_id>>
      /\ committed \ {u} \subseteq committed'
      /\ \A v \in User \ {u} :
           /\ tpc'[v] = tpc[v] /\ sent'[v] = sent[v] /\ result'[v] = result[v]
           /\ status'[v] = status[v] /\ aborts'[v] = aborts[v]
           /\ may_retry'[v] = may_retry[v] /\ returned'[v] = returned[v]
  <2>1. CASE xenbus_change_state(u)
    BY <2>1 DEF xenbus_change_state, xenbus_transaction_start, Submit
  <2>2. CASE StartAnswered(u)
    <3>1. CASE Failed(status[u], result[u]) = SUCCESS
      BY <2>2, <3>1 DEF StartAnswered, Submit, storedVars
    <3>2. CASE Failed(status[u], result[u]) # SUCCESS
      BY <2>2, <3>2 DEF StartAnswered, Submit, xenbus_transaction_end, storedVars
    <3> QED
      BY <3>1, <3>2
  <2>3. CASE ReadAnswered(u)
    BY <2>3 DEF ReadAnswered, Submit, xenbus_transaction_end, storedVars
  <2>4. CASE WriteAnswered(u)
    BY <2>4 DEF WriteAnswered, Submit, xenbus_transaction_end, storedVars
  <2>5. CASE EndAnswered(u)
    BY <2>5 DEF EndAnswered, Submit, xenbus_transaction_start
  <2>6. CASE XsReply(u)
    BY <2>6 DEF XsReply, storedVars
  <2> QED
    BY <2>1, <2>2, <2>3, <2>4, <2>5, <2>6
<1>2. IdsDistinct'
  BY <1>1 DEF TransactionInv, IdsDistinct
<1>3. \A v \in User : Mine(v)' = Mine(v)
  BY <1>1 DEF Mine
<1>4. ASSUME NEW v \in User \ {u}
      PROVE  StandingIsOpen(v)' /\ EndedIsClosed(v)'
  BY <1>1, <1>3 DEF TransactionInv, StandingIsOpen, EndedIsClosed
<1>5. StandingIsOpen(u) /\ EndedIsClosed(u)
  BY DEF TransactionInv
<1>6. StandingIsOpen(u)' /\ EndedIsClosed(u)'
  <2>1. CASE xenbus_change_state(u)
    BY <1>3, <1>5, <2>1 DEF StandingIsOpen, EndedIsClosed, xenbus_change_state,
       xenbus_transaction_start, Submit
  <2>2. CASE StartAnswered(u)
    BY <1>3, <1>5, <2>2 DEF StandingIsOpen, EndedIsClosed, StartAnswered,
       Answered, Failed, Submit, xenbus_transaction_end, MustAbort
  <2>3. CASE ReadAnswered(u)
    BY <1>3, <1>5, <2>3 DEF StandingIsOpen, EndedIsClosed, ReadAnswered,
       Answered, Failed, Submit, xenbus_transaction_end, MustAbort
  <2>4. CASE WriteAnswered(u)
    BY <1>3, <1>5, <2>4 DEF StandingIsOpen, EndedIsClosed, WriteAnswered,
       Answered, Failed, Submit, xenbus_transaction_end, MustAbort
  <2>5. CASE EndAnswered(u)
    BY <1>3, <1>5, <2>5 DEF StandingIsOpen, EndedIsClosed, EndAnswered,
       Answered, Submit, xenbus_transaction_start
  <2>6. CASE XsReply(u)
    BY <1>3, <1>5, <2>6 DEF StandingIsOpen, EndedIsClosed, XsReply, storedVars
  <2> QED
    BY <2>1, <2>2, <2>3, <2>4, <2>5, <2>6
<1>7. SuccessMeansCommitted'
  <2>1. ASSUME NEW v \in User \ {u}, returned'[v] = SUCCESS
        PROVE  v \in committed'
    BY <1>1, <2>1 DEF TransactionInv, SuccessMeansCommitted
  <2>2. ASSUME returned'[u] = SUCCESS
        PROVE  u \in committed'
    <3>1. CASE EndAnswered(u)
      <4>1. CASE may_retry[u] /\ EndStatus(u) = RETRY
        BY <2>2, <3>1, <4>1 DEF TransactionInv, EndAnswered, Answered
      <4>2. CASE ~(may_retry[u] /\ EndStatus(u) = RETRY)
        <5>1. /\ tpc[u] = "end" /\ sent[u] = "answered"
              /\ committed' = committed
              /\ returned'[u] = IF may_retry[u] THEN EndStatus(u)
                                ELSE status[u]
          BY <3>1, <4>2 DEF EndAnswered, Answered
        <5>2. status[u] = SUCCESS /\ may_retry[u]
          BY <1>5, <2>2, <5>1 DEF EndStatus, StandingIsOpen
        <5>3. result[u] = SUCCESS
          BY <2>2, <5>1, <5>2 DEF EndStatus
        <5> QED
          BY <1>5, <5>1, <5>2, <5>3 DEF StandingIsOpen
      <4> QED
        BY <4>1, <4>2
    <3>2. CASE ~EndAnswered(u)
      BY <2>2, <3>2
         DEF xenbus_change_state, StartAnswered, ReadAnswered, WriteAnswered,
             XsReply, storedVars, TransactionInv, SuccessMeansCommitted
    <3> QED
      BY <3>1, <3>2
  <2> QED
    BY <2>1, <2>2 DEF SuccessMeansCommitted
<1>8. NoTransactionLeft'
  <2> SUFFICES ASSUME NEW t \in transactions'
               PROVE  \E v \in User : t.id = trans_id'[v] /\ tpc'[v] # "idle"
    BY DEF NoTransactionLeft
  <2>1. PICK v \in User : t.id = trans_id[v] /\ tpc[v] # "idle"
    BY <1>1 DEF TransactionInv, NoTransactionLeft
  <2>2. CASE v # u
    BY <1>1, <2>1, <2>2
  <2>3. CASE v = u
    <3>1. Mine(u)' # {}
      BY <1>1, <2>1, <2>3 DEF Mine
    <3>2. tpc'[u] # "idle"
      BY <1>6, <3>1 DEF EndedIsClosed
    <3> QED
      BY <1>1, <2>1, <2>3, <3>2
  <2> QED
    BY <2>2, <2>3
<1>9. \A v \in User : tpc'[v] # "idle" => returned'[v] = "none"
  <2>1. ASSUME NEW v \in User \ {u}, tpc'[v] # "idle"
        PROVE  returned'[v] = "none"
    BY <1>1, <2>1 DEF TransactionInv
  <2>2. ASSUME tpc'[u] # "idle"
        PROVE  returned'[u] = "none"
    BY <2>2 DEF TransactionInv, xenbus_change_state, StartAnswered,
       ReadAnswered, WriteAnswered, EndAnswered, Answered, XsReply
  <2> QED
    BY <2>1, <2>2
<1> QED
  BY <1>2, <1>4, <1>6, <1>7, <1>8, <1>9 DEF TransactionInv

(* xenstored begins a transaction with an identifier of its own, marks the *)
(* one an access belongs to, and closes the one that ends; it touches no   *)
(* other.                                                                  *)
LEMMA XenstoredKeepsInv ==
  ASSUME TransactionTypeOK, TransactionInv, NEW u \in User, XsTransact(u)
  PROVE  TransactionInv'
<1> USE DEF TransactionTypeOK
<1>1. /\ sent[u] = "sent" /\ sent'[u] = "executed"
      /\ UNCHANGED <<tpc, status, may_retry, aborts, returned>>
      /\ \A v \in User \ {u} :
           /\ sent'[v] = sent[v] /\ result'[v] = result[v]
           /\ trans_id'[v] = trans_id[v]
      /\ committed \subseteq committed'
      /\ next_id' >= next_id
  BY DEF XsTransact, XsStart, XsFail, XsAccess, XsEnd, Executed
<1>2. IdsDistinct /\ StandingIsOpen(u) /\ EndedIsClosed(u)
  BY DEF TransactionInv
<1>3. /\ IdsDistinct'
      /\ \A v \in User \ {u} : Mine(v)' = Mine(v)
      /\ StandingIsOpen(u)' /\ EndedIsClosed(u)'
      /\ \A t \in transactions' :
           \/ t.id = trans_id'[u] /\ tpc[u] # "idle"
           \/ t \in transactions /\ t.id # trans_id[u]
  <2>1. CASE XsStart(u)
    <3>1. /\ tpc[u] = "start" /\ trans_id'[u] = next_id
          /\ next_id' = next_id + 1
      BY <2>1 DEF XsStart
    <3> DEFINE new == [id |-> next_id, base |-> version, written |-> FALSE]
    <3>2. transactions' = transactions \cup {new} /\ new.id = next_id
      BY <2>1 DEF XsStart
    <3> HIDE DEF new
    <3>3. \A t \in transactions : t.id \in Nat
      OBVIOUS
    <3>4. IdsDistinct'
      BY <1>1, <1>2, <3>1, <3>2, <3>3 DEF IdsDistinct
    <3>5. \A v \in User \ {u} : Mine(v)' = Mine(v)
      BY <1>1, <1>2, <3>1, <3>2 DEF IdsDistinct, Mine
    <3>6. Mine(u)' # {}
      BY <3>1, <3>2 DEF Mine
    <3>7. StandingIsOpen(u)' /\ EndedIsClosed(u)'
      BY <1>1, <3>1, <3>6 DEF StandingIsOpen, EndedIsClosed
    <3>8. \A t \in transactions : t.id # trans_id[u]
      BY <1>1, <1>2, <3>1 DEF EndedIsClosed, Mine
    <3> QED
      BY <3>1, <3>2, <3>4, <3>5, <3>7, <3>8
  <2>2. CASE XsFail(u)
    <3>1. /\ tpc[u] \in {"start", "read", "write"} /\ result'[u] # SUCCESS
          /\ UNCHANGED <<transactions, next_id>>
          /\ trans_id'[u] = IF tpc[u] = "start" THEN Poison ELSE trans_id[u]
      BY <2>2 DEF XsFail, Executed
    <3>2. IdsDistinct'
      BY <1>1, <1>2, <3>1 DEF IdsDistinct
    <3>3. \A v \in User \ {u} : Mine(v)' = Mine(v)
      BY <1>1, <3>1 DEF Mine
    <3>4. tpc[u] # "start" => Mine(u)' = Mine(u)
      BY <3>1 DEF Mine
    <3>5. StandingIsOpen(u)' /\ EndedIsClosed(u)'
      BY <1>1, <1>2, <3>1, <3>4 DEF StandingIsOpen, EndedIsClosed
    <3>6. \A t \in transactions : tpc[u] = "start" => t.id # trans_id[u]
      BY <1>1, <1>2 DEF EndedIsClosed, Mine
    <3> QED
      BY <3>1, <3>2, <3>3, <3>5, <3>6
  <2>3. CASE XsAccess(u)
    <3> DEFINE mark(t) == [t EXCEPT !.written = @ \/ tpc[u] = "write"]
    <3>1. /\ tpc[u] \in {"read", "write"} /\ UNCHANGED <<trans_id, next_id>>
          /\ transactions' = (transactions \ Mine(u))
                                \cup {mark(t) : t \in Mine(u)}
      BY <2>3 DEF XsAccess, Mine
    <3>2. \A t \in Mine(u) : /\ mark(t).id = t.id
                             /\ mark(t).written = (t.written \/ tpc[u] = "write")
      BY DEF Mine
    <3> HIDE DEF mark
    <3>3. /\ \A t \in transactions' : \/ t \in transactions \ Mine(u)
                                      \/ \E s \in Mine(u) : t = mark(s)
          /\ \A t \in Mine(u) : t \in transactions /\ t.id = trans_id[u]
      BY <3>1 DEF Mine
    <3>4. IdsDistinct'
      BY <1>2, <3>1, <3>2, <3>3 DEF IdsDistinct
    <3>5. ASSUME NEW v \in User \ {u}
          PROVE  Mine(v)' = Mine(v)
      <4>1. CASE trans_id[v] = trans_id[u]
        <5>1. trans_id[u] = Poison
          BY <1>2, <4>1 DEF IdsDistinct
        <5>2. Mine(u) = {}
          BY <1>2, <5>1 DEF IdsDistinct, Mine
        <5> QED
          BY <3>1, <5>2 DEF Mine
      <4>2. CASE trans_id[v] # trans_id[u]
        BY <3>1, <3>2, <3>3, <4>2 DEF Mine
      <4> QED
        BY <4>1, <4>2
    <3>6. Mine(u) # {} => Mine(u)' # {}
      BY <3>1, <3>2, <3>3 DEF Mine
    <3>7. ASSUME tpc[u] = "write", NEW t \in Mine(u)'
          PROVE  t.written
      <4>1. t \in transactions' /\ t.id = trans_id[u]
        BY <3>1, <3>7 DEF Mine
      <4>2. PICK s \in Mine(u) : t = mark(s)
        BY <3>3, <4>1 DEF Mine
      <4>3. mark(s).written
        BY <3>2, <3>7, Zenon
      <4> QED
        BY <4>2, <4>3
    <3>8. StandingIsOpen(u)' /\ EndedIsClosed(u)'
      BY <1>1, <1>2, <3>1, <3>6, <3>7 DEF StandingIsOpen, EndedIsClosed
    <3>9. \A t \in transactions' :
            \/ t.id = trans_id'[u]
            \/ t \in transactions /\ t.id # trans_id[u]
      BY <3>1, <3>2, <3>3 DEF Mine
    <3> QED
      BY <3>1, <3>4, <3>5, <3>8, <3>9
  <2>4. CASE XsEnd(u)
    <3>1. /\ tpc[u] = "end" /\ UNCHANGED <<trans_id, next_id>>
          /\ transactions' = transactions \ Mine(u)
      BY <2>4 DEF XsEnd, Mine
    <3>2. IdsDistinct'
      BY <1>2, <3>1 DEF IdsDistinct
    <3>3. \A v \in User \ {u} : Mine(v)' = Mine(v)
      BY <1>2, <3>1 DEF IdsDistinct, Mine
    <3>4. Mine(u)' = {}
      BY <3>1 DEF Mine
    <3>5. EndedIsClosed(u)'
      BY <3>4 DEF EndedIsClosed
    <3>6. ASSUME status[u] = SUCCESS, result'[u] = SUCCESS
          PROVE  u \in committed'
      <4>1. /\ ~aborts[u] /\ Mine(u) # {}
            /\ \A t \in Mine(u) : t.written
        BY <1>1, <1>2, <3>1, <3>6 DEF StandingIsOpen
      <4>2. ~(\E t \in Mine(u) : t.base # version)
        BY <2>4, <3>6, <4>1 DEF XsEnd, Executed, Mine
      <4> QED
        BY <2>4, <4>1, <4>2 DEF XsEnd, Mine
    <3>7. StandingIsOpen(u)'
      BY <1>1, <1>2, <3>1, <3>6 DEF StandingIsOpen
    <3> QED
      BY <3>1, <3>2, <3>3, <3>5, <3>7 DEF Mine
  <2> QED
    BY <2>1, <2>2, <2>3, <2>4 DEF XsTransact
<1>4. ASSUME NEW v \in User \ {u}
      PROVE  StandingIsOpen(v)' /\ EndedIsClosed(v)'
  BY <1>1, <1>3 DEF TransactionInv, StandingIsOpen, EndedIsClosed
<1>5. SuccessMeansCommitted'
  BY <1>1 DEF TransactionInv, SuccessMeansCommitted
<1>6. NoTransactionLeft'
  <2> SUFFICES ASSUME NEW t \in transactions'
               PROVE  \E v \in User : t.id = trans_id'[v] /\ tpc'[v] # "idle"
    BY DEF NoTransactionLeft
  <2>1. CASE t.id = trans_id'[u] /\ tpc[u] # "idle"
    BY <1>1, <2>1
  <2>2. CASE t \in transactions /\ t.id # trans_id[u]
    <3>1. PICK v \in User : t.id = trans_id[v] /\ tpc[v] # "idle"
      BY <2>2 DEF TransactionInv, NoTransactionLeft
    <3> QED
      BY <1>1, <2>2, <3>1
  <2> QED
    BY <1>3, <2>1, <2>2
<1>7. \A v \in User : tpc'[v] # "idle" => returned'[v] = "none"
  BY <1>1 DEF TransactionInv
<1> QED
  BY <1>3, <1>4, <1>5, <1>6, <1>7 DEF TransactionInv

(* A resume closes every transaction and leaves none standing.             *)
LEMMA ResumeKeepsInv ==
  ASSUME TransactionTypeOK, TransactionInv, abort_all_transactions
  PROVE  TransactionInv'
<1> USE DEF TransactionTypeOK
<1>1. /\ transactions' = {}
      /\ UNCHANGED <<tpc, result, trans_id, next_id, returned, committed>>
      /\ \A u \in User : tpc[u] # "idle" => status'[u] # SUCCESS
  BY DEF abort_all_transactions, Abort
<1>2. \A u \in User : Mine(u)' = {}
  BY <1>1 DEF Mine
<1>3. \A u \in User : StandingIsOpen(u)' /\ EndedIsClosed(u)'
  BY <1>1, <1>2 DEF StandingIsOpen, EndedIsClosed
<1> QED
  BY <1>1, <1>3 DEF TransactionInv, IdsDistinct, SuccessMeansCommitted,
     NoTransactionLeft

(* While a transaction stands, the present xenstored has it open with all  *)
(* that the user did in it; a user that has ended left nothing behind.     *)
THEOREM TransactionInductive == TransactionSpec => []TransactionInv
<1>1. TransactionInit => TransactionInv
  BY DEF TransactionInit, TransactionInv, IdsDistinct, StandingIsOpen,
     EndedIsClosed, Mine, SuccessMeansCommitted, NoTransactionLeft
<1>2. ASSUME TransactionTypeOK, TransactionInv,
             [TransactionNext]_transactionVars
      PROVE  TransactionInv'
  <2>1. ASSUME NEW u \in User, xenbus_change_state(u) \/ TransactionStep(u)
        PROVE  TransactionInv'
    BY <1>2, <2>1, UserStepKeepsInv, XenstoredKeepsInv DEF TransactionStep
  <2>2. CASE abort_all_transactions
    BY <1>2, <2>2, ResumeKeepsInv
  <2>3. CASE UNCHANGED transactionVars
    BY <1>2, <2>3 DEF TransactionInv, IdsDistinct, StandingIsOpen,
       EndedIsClosed, Mine, SuccessMeansCommitted, NoTransactionLeft,
       transactionVars, userVars, storedVars
  <2> QED
    BY <1>2, <2>1, <2>2, <2>3 DEF TransactionNext
<1> QED
  BY <1>1, <1>2, TransactionTypeCorrect, PTL DEF TransactionSpec

(* xenbus_change_state reports success only for a committed write.         *)
THEOREM SuccessIsCommitted == TransactionSpec => []SuccessMeansCommitted
<1>1. TransactionInv => SuccessMeansCommitted
  BY DEF TransactionInv
<1> QED
  BY <1>1, TransactionInductive, PTL

(* __xenbus_transaction_end leaves no transaction open in xenstored.       *)
THEOREM EveryTransactionEnds == TransactionSpec => []NoTransactionLeft
<1>1. TransactionInv => NoTransactionLeft
  BY DEF TransactionInv
<1> QED
  BY <1>1, TransactionInductive, PTL

(* The first failure of a transaction is the one that it keeps.            *)
THEOREM FailureIsFinal == TransactionSpec => FirstFailureKept
<1>1. ASSUME TransactionTypeOK, [TransactionNext]_transactionVars,
             NEW u \in open_transactions,
             status[u] # SUCCESS, status'[u] # status[u]
      PROVE  Answered(u, "end")
  <2> USE <1>1 DEF TransactionTypeOK
  <2>1. ASSUME NEW v \in User, xenbus_change_state(v)
        PROVE  Answered(u, "end")
    BY <2>1 DEF xenbus_change_state, xenbus_transaction_start
  <2>2. ASSUME NEW v \in User,
               StartAnswered(v) \/ ReadAnswered(v) \/ WriteAnswered(v)
        PROVE  Answered(u, "end")
    BY <2>2 DEF StartAnswered, ReadAnswered, WriteAnswered, Failed
  <2>3. ASSUME NEW v \in User, EndAnswered(v)
        PROVE  Answered(u, "end")
    BY <2>3 DEF EndAnswered, xenbus_transaction_start
  <2>4. ASSUME NEW v \in User, XsTransact(v) \/ XsReply(v)
        PROVE  Answered(u, "end")
    BY <2>4 DEF XsTransact, XsReply
  <2>5. CASE abort_all_transactions
    BY <2>5 DEF abort_all_transactions, Abort
  <2>6. CASE UNCHANGED transactionVars
    BY <2>6 DEF transactionVars, userVars
  <2> QED
    BY <2>1, <2>2, <2>3, <2>4, <2>5, <2>6 DEF TransactionNext, TransactionStep
<1>2. TransactionTypeOK /\ [TransactionNext]_transactionVars
        => [\A u \in open_transactions :
              (status[u] # SUCCESS /\ status'[u] # status[u])
                  => Answered(u, "end")]_transactionVars
  BY <1>1
<1> QED
  BY <1>2, TransactionTypeCorrect, PTL DEF TransactionSpec, FirstFailureKept
=============================================================================
