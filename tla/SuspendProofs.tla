---------------------------- MODULE SuspendProofs ---------------------------
(***************************************************************************)
(* Theorems about the suspend tokens of Suspend, for any number of clients *)
(* and handlers, any number of launches of the thread and any failures.    *)
(***************************************************************************)
EXTENDS Suspend, TLAPS

(* What the argument needs to know of the types. *)
TokenTypes ==
    /\ cpc \in [Client -> {"out", "listed", "waiting", "held", "unwaited",
                           "kick"}]
    /\ anonymous \in Nat

(* The thread exists only while somebody will answer for it, so a second   *)
(* one is never spawned next to it.                                        *)
OneThread ==
    tpc \notin {"none", "ended"} => suspend_thread \/ worker = "spawned"

(* From the read of control/shutdown on, suspend_thread_idle is clear. *)
BusyIsNotIdle ==
    tpc \in Suspending \cup {"read", "checkAnonymous", "checkList"} => ~idle

(* A client that has its token is on the list or in the anonymous count. *)
TokensAccounted ==
    \A c \in Client :
        cpc[c] \in {"listed", "waiting", "held", "unwaited"} /\ c \notin tokens
            => anonymous > 0

(* Having found no anonymous tokens, the thread can only be surprised by   *)
(* clients on the list, and having found the list empty by none.           *)
ChecksAreFinal ==
    \A c \in Client : cpc[c] = "held" =>
        /\ tpc = "checkList" => c \in tokens
        /\ tpc \notin Suspending

IInv == TokenTypes /\ OneThread /\ BusyIsNotIdle /\ TokensAccounted
            /\ ChecksAreFinal
-----------------------------------------------------------------------------
LEMMA InitIInv == Init => IInv
  BY DEF Init, IInv, TokenTypes, OneThread, BusyIsNotIdle, TokensAccounted,
         ChecksAreFinal, Suspending

(* The launcher, the work item and the killer. *)
LEMMA LaunchStep == IInv /\ Launching => IInv'
<1> SUFFICES ASSUME IInv, Launching PROVE IInv'
  OBVIOUS
<1> USE DEF IInv, TokenTypes, OneThread, BusyIsNotIdle, TokensAccounted,
            ChecksAreFinal, Suspending, threadVars, tokenVars
<1>1. CASE EvtchnLaunchSuspendThread
  BY <1>1 DEF EvtchnLaunchSuspendThread
<1>2. CASE CountLaunch
  BY <1>2 DEF CountLaunch
<1>3. CASE LaunchSuspendThread
  BY <1>3 DEF LaunchSuspendThread
<1>4. CASE AssignSuspendThread
  BY <1>4 DEF AssignSuspendThread
<1>5. CASE FinishLaunch
  BY <1>5 DEF FinishLaunch
<1>6. CASE KillSuspendThread
  BY <1>6 DEF KillSuspendThread
<1>7. CASE JoinSuspendThread
  BY <1>7 DEF JoinSuspendThread
<1> QED
  BY <1>1, <1>2, <1>3, <1>4, <1>5, <1>6, <1>7 DEF Launching

(* A step of the suspend thread that leaves the tokens and the idle event. *)
LEMMA ThreadStep ==
  ASSUME IInv, NEW from, NEW to, ThreadGoes(from, to),
         UNCHANGED <<idle, tokenVars>>,
         from = "none" => to = "none", from = "ended" => to = "ended",
         to \in Suspending \cup {"read", "checkAnonymous", "checkList"}
            => ~idle,
         to = "checkList" => from = "checkList" \/ anonymous = 0,
         to \in Suspending =>
            \/ from \in Suspending
            \/ from = "checkList" /\ tokens = {}
  PROVE  IInv'
<1> USE DEF IInv, ThreadGoes, tokenVars, launchVars
<1>1. TokenTypes' /\ TokensAccounted'
  BY DEF TokenTypes, TokensAccounted
<1>2. OneThread' /\ BusyIsNotIdle'
  BY DEF OneThread, BusyIsNotIdle
<1>3. ChecksAreFinal'
  BY DEF ChecksAreFinal, TokenTypes, TokensAccounted
<1> QED
  BY <1>1, <1>2, <1>3

LEMMA ThreadIInv == IInv /\ SuspendThread => IInv'
<1> SUFFICES ASSUME IInv, SuspendThread PROVE IInv'
  OBVIOUS
<1>1. CASE ThreadInit
  BY <1>1, ThreadStep DEF ThreadInit, Suspending, tokenVars
<1>2. CASE CleanupOne
  BY <1>2, ThreadStep DEF CleanupOne, Suspending, tokenVars
<1>3. CASE CleanupDone
  <2> USE <1>3 DEF CleanupDone, ThreadGoes, IInv, launchVars
  <2>1. TokenTypes' /\ TokensAccounted'
    BY DEF TokenTypes, TokensAccounted
  <2> QED
    BY <2>1 DEF OneThread, BusyIsNotIdle, ChecksAreFinal, Suspending
<1>4. CASE ThreadWait
  BY <1>4, ThreadStep DEF ThreadWait, Suspending, tokenVars
<1>5. CASE ClearIdle
  BY <1>5
  DEF ClearIdle, ThreadGoes, IInv, TokenTypes, OneThread, BusyIsNotIdle,
      TokensAccounted, ChecksAreFinal, Suspending, launchVars, tokenVars
<1>6. CASE ReadShutdown
  <2>1. tpc = "read" => ~idle
    BY DEF IInv, BusyIsNotIdle
  <2> QED
    BY <1>6, <2>1, ThreadStep DEF ReadShutdown, ThreadGoes, Suspending, tokenVars
<1>7. CASE CheckAnonymous
  <2>1. tpc = "checkAnonymous" => ~idle
    BY DEF IInv, BusyIsNotIdle
  <2> QED
    BY <1>7, <2>1, ThreadStep
    DEF CheckAnonymous, ThreadGoes, Suspending, tokenVars
<1>8. CASE CheckList
  <2>1. tpc = "checkList" => ~idle
    BY DEF IInv, BusyIsNotIdle
  <2> QED
    BY <1>8, <2>1, ThreadStep DEF CheckList, ThreadGoes, Suspending, tokenVars
<1>9. ASSUME NEW from \in Suspending, NEW to \in Suspending \cup {"cleanup"},
             ThreadGoes(from, to), UNCHANGED <<idle, tokenVars>>
      PROVE  IInv'
  <2>1. ~idle
    BY <1>9 DEF IInv, BusyIsNotIdle, ThreadGoes
  <2> USE <1>9, <2>1 DEF ThreadGoes, IInv, Suspending, launchVars, tokenVars
  <2>2. TokenTypes' /\ TokensAccounted'
    BY DEF TokenTypes, TokensAccounted
  <2> QED
    BY <2>2 DEF OneThread, BusyIsNotIdle, ChecksAreFinal
<1>10. CASE RemoveShutdown
  BY <1>9, <1>10 DEF RemoveShutdown, Suspending, tokenVars
<1>11. CASE DoSuspend
  BY <1>9, <1>11
  DEF DoSuspend, Mark, StartHandler, FinishHandler, HandlersDone,
      SuspendResume, Suspending, tokenVars
<1> QED
  BY <1>1, <1>2, <1>3, <1>4, <1>5, <1>6, <1>7, <1>8, <1>10, <1>11
  DEF SuspendThread

(* The clients.  A wait ends only while the idle event is set. *)
LEMMA ClientIInv ==
  ASSUME IInv, NEW c \in Client, TokenStep(c)
  PROVE  IInv'
<1> USE DEF IInv, ClientGoes, launchVars
<1>1. OneThread' /\ BusyIsNotIdle'
  BY DEF TokenStep, AllocateToken, AllocateAnonymous, TestThread, WaitIdle,
         ReleaseToken, KickAfterRelease, OneThread, BusyIsNotIdle
<1>2. TokenTypes' /\ TokensAccounted'
  <2> USE DEF TokenTypes, TokensAccounted
  <2>1. CASE AllocateToken(c)
    BY <2>1 DEF AllocateToken
  <2>2. CASE AllocateAnonymous(c)
    BY <2>2 DEF AllocateAnonymous
  <2>3. CASE TestThread(c)
    BY <2>3 DEF TestThread
  <2>4. CASE WaitIdle(c)
    BY <2>4 DEF WaitIdle
  <2>5. CASE ReleaseToken(c)
    BY <2>5 DEF ReleaseToken
  <2>6. CASE KickAfterRelease(c)
    BY <2>6 DEF KickAfterRelease
  <2> QED
    BY <2>1, <2>2, <2>3, <2>4, <2>5, <2>6 DEF TokenStep
<1>3. ChecksAreFinal'
  BY DEF TokenStep, AllocateToken, AllocateAnonymous, TestThread, WaitIdle,
         ReleaseToken, KickAfterRelease, ChecksAreFinal, BusyIsNotIdle,
         TokenTypes
<1> QED
  BY <1>1, <1>2, <1>3

LEMMA NextIInv == IInv /\ [Next]_vars => IInv'
<1> SUFFICES ASSUME IInv, [Next]_vars PROVE IInv'
  OBVIOUS
<1>1. CASE Launching
  BY <1>1, LaunchStep
<1>2. CASE SuspendThread
  BY <1>2, ThreadIInv
<1>3. ASSUME NEW c \in Client, TokenStep(c) PROVE IInv'
  BY <1>3, ClientIInv
<1>4. CASE UNCHANGED <<tpc, suspend_thread, worker, idle, tokenVars>>
  BY <1>4 DEF IInv, TokenTypes, OneThread, BusyIsNotIdle, TokensAccounted,
              ChecksAreFinal, tokenVars
<1>5. CASE Dom0Request \/ DeliverWatch
  BY <1>4, <1>5 DEF Dom0Request, DeliverWatch, threadVars, launchVars
<1>6. ASSUME NEW h \in Handler, HandlerStep(h) PROVE IInv'
  BY <1>4, <1>6
  DEF HandlerStep, EvtchnRegisterSuspendHandler,
      EvtchnUnregisterSuspendHandler, threadVars, launchVars
<1>7. CASE UNCHANGED vars
  BY <1>4, <1>7 DEF vars, threadVars, launchVars
<1> QED
  BY <1>1, <1>2, <1>3, <1>5, <1>6, <1>7 DEF Next
-----------------------------------------------------------------------------
(* suspend.c:723-727 and 939-945: a token whose allocation waited for the  *)
(* idle event keeps the suspend thread out of DoSuspend and out of every   *)
(* suspend handler until it is released.                                   *)
THEOREM TokensHoldOffSuspend == Spec => []WaitedTokensInhibit
<1>1. Init => IInv
  BY InitIInv
<1>2. IInv /\ [Next]_vars => IInv'
  BY NextIInv
<1>3. IInv => WaitedTokensInhibit
  BY DEF IInv, ChecksAreFinal, WaitedTokensInhibit
<1> QED
  BY <1>1, <1>2, <1>3, PTL DEF Spec
=============================================================================
