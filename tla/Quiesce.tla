------------------------------- MODULE Quiesce ------------------------------
(***************************************************************************)
(* The two-stage capture of every virtual processor, xenutil/suspend.c     *)
(* lines 74-430.  The suspend thread calls QuiesceSystem on one processor, *)
(* the Initiator; every other processor runs SpinProcessorDpc.             *)
(*                                                                         *)
(* A processor's pc names its place in the code:                           *)
(*   run       outside the protocol                                        *)
(*   queue     QuiesceSystem: queueing the DPCs, then spinning on          *)
(*             _g_ProcessorSpinCount1                                      *)
(*   wait1     SpinProcessorDpc: spinning while _g_QuiescePhase is 0       *)
(*   raise, spin, cas, outer                                               *)
(*             the loops of GatherInterruptDisabledProcessors              *)
(*   ack2      SpinProcessorDpc: about to decrement SpinCount2             *)
(*   release   SpinProcessorDpc: spinning until _g_QuiescePhase is 0       *)
(*   wait2     QuiesceSystem: spinning on _g_ProcessorSpinCount2           *)
(*   critical  between QuiesceSystem and UnquiesceSystem                   *)
(*   unlock    UnquiesceSystem after it has set _g_QuiescePhase to 0       *)
(*                                                                         *)
(* Windows is in the model through synchronous inter-processor interrupts: *)
(* a processor that has interrupts enabled may send one and then spins     *)
(* until its target, once it has interrupts enabled, answers.              *)
(***************************************************************************)
EXTENDS Integers, FiniteSets

CONSTANTS CPU,          \* the virtual processors
          Initiator,    \* the one QuiesceSystem runs on
          NoCPU,        \* "not waiting for an IPI"
          MaxIpis,      \* bound: IPIs sent in a behaviour
          MaxTimeouts   \* bound: QUIESCE_WAIT expiries nobody needed

ASSUME CPUAssumption ==
    /\ IsFiniteSet(CPU)
    /\ Initiator \in CPU
    /\ NoCPU \notin CPU
    /\ MaxIpis \in Nat
    /\ MaxTimeouts \in Nat

VARIABLES
    pc,              \* where each processor is
    irql,            \* "low" (below DISPATCH_LEVEL), "dispatch" or "high"
    old,             \* the local read before the compare-and-exchange
    processorCount,  \* QuiesceSystem's local, shared by pointer
    frame,           \* is that stack frame alive?
    spin1,           \* _g_ProcessorSpinCount1
    spin2,           \* _g_ProcessorSpinCount2
    phase,           \* _g_QuiescePhase
    quiesced,        \* _g_Quiesced
    unqueued,        \* processors the DPC loop has still to reach
    queued,          \* processors whose DPC is queued and not yet started
    ipi,             \* the processor whose answer each one is spinning for
    ipisLeft, timeoutsLeft

counters == <<processorCount, spin1, spin2>>
env == <<ipi, ipisLeft>>
vars == <<pc, irql, old, processorCount, frame, spin1, spin2, phase, quiesced,
          unqueued, queued, ipi, ipisLeft, timeoutsLeft>>

Aux == CPU \ {Initiator}
N == Cardinality(CPU)

(* The code in which GatherInterruptDisabledProcessors uses *Count. *)
Gather == {"raise", "spin", "cas", "outer"}

Init ==
    /\ pc = [c \in CPU |-> "run"]
    /\ irql = [c \in CPU |-> "low"]
    /\ old = [c \in CPU |-> 0]
    /\ processorCount = 0
    /\ frame = FALSE
    /\ spin1 = 0
    /\ spin2 = 0
    /\ phase = 0
    /\ quiesced = FALSE
    /\ unqueued = {}
    /\ queued = {}
    /\ ipi = [c \in CPU |-> NoCPU]
    /\ ipisLeft = MaxIpis
    /\ timeoutsLeft = MaxTimeouts

(* c executes its own code, as opposed to spinning in an interrupt. *)
Runs(c, at) == pc[c] = at /\ ipi[c] = NoCPU

Goto(c, at) == pc' = [pc EXCEPT ![c] = at]

(* Interrupts held off while c was at HIGH_LEVEL are taken at once. *)
AnswerIpisTo(c) == ipi' = [d \in CPU |-> IF ipi[d] = c THEN NoCPU ELSE ipi[d]]

SetIrql(c, level) == irql' = [irql EXCEPT ![c] = level]
-----------------------------------------------------------------------------
(* QuiesceSystem up to the DPC loop: the spin lock is taken, which raises  *)
(* to DISPATCH_LEVEL, and the counts are set.                              *)
QuiesceSystem ==
    /\ Runs(Initiator, "run")
    /\ Goto(Initiator, "queue")
    /\ SetIrql(Initiator, "dispatch")
    /\ spin1' = N - 1
    /\ spin2' = N - 1
    /\ processorCount' = N
    /\ frame' = TRUE
    /\ unqueued' = Aux
    /\ UNCHANGED <<old, phase, quiesced, queued, env, timeoutsLeft>>

QueueDpc(c) ==
    /\ Runs(Initiator, "queue")
    /\ c \in unqueued
    /\ unqueued' = unqueued \ {c}
    /\ queued' = queued \cup {c}
    /\ UNCHANGED <<pc, irql, old, counters, frame, phase, quiesced, env,
                   timeoutsLeft>>

(* SpinCount1 has been seen at 0: every other processor is in its DPC. *)
EnterPhase1 ==
    /\ Runs(Initiator, "queue")
    /\ unqueued = {}
    /\ spin1 = 0
    /\ phase' = 1
    /\ Goto(Initiator, "raise")
    /\ UNCHANGED <<irql, old, counters, frame, quiesced, unqueued, queued,
                   env, timeoutsLeft>>

(* SpinProcessorDpc starts on c once c is below DISPATCH_LEVEL. *)
StartDpc(c) ==
    /\ Runs(c, "run")
    /\ c \in queued
    /\ queued' = queued \ {c}
    /\ SetIrql(c, "dispatch")
    /\ spin1' = spin1 - 1
    /\ Goto(c, "wait1")
    /\ UNCHANGED <<old, processorCount, frame, spin2, phase, quiesced,
                   unqueued, env, timeoutsLeft>>

SeePhase1(c) ==
    /\ Runs(c, "wait1")
    /\ phase # 0
    /\ Goto(c, "raise")
    /\ UNCHANGED <<irql, old, counters, frame, phase, quiesced, unqueued,
                   queued, env, timeoutsLeft>>
-----------------------------------------------------------------------------
(* Faulty variants, which the properties below must tell from the code,    *)
(* are defined ahead of what they replace.                                 *)
(* Here the count is decremented without raising the IRQL.                 *)
CountWithoutRaising(c) ==
    /\ Runs(c, "raise")
    /\ processorCount' = processorCount - 1
    /\ Goto(c, "spin")
    /\ UNCHANGED <<irql, old, frame, spin1, spin2, phase, quiesced, unqueued,
                   queued, env, timeoutsLeft>>

(* GatherInterruptDisabledProcessors. *)
Raise(c) ==
    /\ Runs(c, "raise")
    /\ SetIrql(c, "high")
    /\ processorCount' = processorCount - 1
    /\ Goto(c, "spin")
    /\ UNCHANGED <<old, frame, spin1, spin2, phase, quiesced, unqueued,
                   queued, env, timeoutsLeft>>

(* The inner loop ends because *Count is 0, read by its condition or after *)
(* QUIESCE_WAIT spins.                                                     *)
SeeZero(c) ==
    /\ Runs(c, "spin")
    /\ processorCount = 0
    /\ Goto(c, "outer")
    /\ UNCHANGED <<irql, old, counters, frame, phase, quiesced, unqueued,
                   queued, env, timeoutsLeft>>

(* More than QUIESCE_WAIT spins.  An expiry that some processor, spinning  *)
(* for c to answer its IPI, depends on is always allowed; MaxTimeouts      *)
(* bounds the others.                                                      *)
Timeout(c) ==
    /\ Runs(c, "spin")
    /\ processorCount # 0
    /\ \/ (\E d \in CPU : ipi[d] = c) /\ UNCHANGED timeoutsLeft
       \/ timeoutsLeft > 0 /\ timeoutsLeft' = timeoutsLeft - 1
    /\ old' = [old EXCEPT ![c] = processorCount]
    /\ Goto(c, "cas")
    /\ UNCHANGED <<irql, counters, frame, phase, quiesced, unqueued, queued,
                   env>>

(* Faulty: the count goes back up but interrupts stay off. *)
BackOffWithoutLowering(c) ==
    /\ Runs(c, "cas")
    /\ processorCount = old[c]
    /\ processorCount' = old[c] + 1
    /\ Goto(c, "outer")
    /\ UNCHANGED <<irql, old, frame, spin1, spin2, phase, quiesced, unqueued,
                   queued, env, timeoutsLeft>>

BackOff(c) ==
    /\ Runs(c, "cas")
    /\ processorCount = old[c]
    /\ processorCount' = old[c] + 1
    /\ SetIrql(c, "dispatch")
    /\ AnswerIpisTo(c)
    /\ Goto(c, "outer")
    /\ UNCHANGED <<old, frame, spin1, spin2, phase, quiesced, unqueued,
                   queued, ipisLeft, timeoutsLeft>>

LoseCas(c) ==
    /\ Runs(c, "cas")
    /\ processorCount # old[c]
    /\ Goto(c, "spin")
    /\ UNCHANGED <<irql, old, counters, frame, phase, quiesced, unqueued,
                   queued, env, timeoutsLeft>>

(* The condition of the outer loop. *)
TestCount(c) ==
    /\ Runs(c, "outer")
    /\ Goto(c, IF processorCount # 0 THEN "raise"
               ELSE IF c = Initiator THEN "wait2" ELSE "ack2")
    /\ UNCHANGED <<irql, old, counters, frame, phase, quiesced, unqueued,
                   queued, env, timeoutsLeft>>
-----------------------------------------------------------------------------
Acknowledge(c) ==
    /\ Runs(c, "ack2")
    /\ spin2' = spin2 - 1
    /\ Goto(c, "release")
    /\ UNCHANGED <<irql, old, processorCount, frame, spin1, phase, quiesced,
                   unqueued, queued, env, timeoutsLeft>>

(* Faulty: QuiesceSystem returns without the wait on SpinCount2. *)
QuiescedEarly ==
    /\ Runs(Initiator, "wait2")
    /\ quiesced' = TRUE
    /\ frame' = FALSE
    /\ Goto(Initiator, "critical")
    /\ UNCHANGED <<irql, old, counters, phase, unqueued, queued, env,
                   timeoutsLeft>>

(* Faulty: QuiesceSystem returns at the IRQL it was called at. *)
QuiescedLowered ==
    /\ Runs(Initiator, "wait2")
    /\ spin2 = 0
    /\ quiesced' = TRUE
    /\ frame' = FALSE
    /\ SetIrql(Initiator, "dispatch")
    /\ Goto(Initiator, "critical")
    /\ UNCHANGED <<old, counters, phase, unqueued, queued, env, timeoutsLeft>>

(* SpinCount2 has been seen at 0: QuiesceSystem returns, its frame goes. *)
Quiesced ==
    /\ Runs(Initiator, "wait2")
    /\ spin2 = 0
    /\ quiesced' = TRUE
    /\ frame' = FALSE
    /\ Goto(Initiator, "critical")
    /\ UNCHANGED <<irql, old, counters, phase, unqueued, queued, env,
                   timeoutsLeft>>

UnquiesceSystem ==
    /\ Runs(Initiator, "critical")
    /\ quiesced' = FALSE
    /\ phase' = 0
    /\ Goto(Initiator, "unlock")
    /\ UNCHANGED <<irql, old, counters, frame, unqueued, queued, env,
                   timeoutsLeft>>

(* KeLowerIrql and the release of the spin lock. *)
Unlock ==
    /\ Runs(Initiator, "unlock")
    /\ SetIrql(Initiator, "low")
    /\ AnswerIpisTo(Initiator)
    /\ Goto(Initiator, "run")
    /\ UNCHANGED <<old, counters, frame, phase, quiesced, unqueued, queued,
                   ipisLeft, timeoutsLeft>>

(* The auxiliary sees the phase go back to 0 and returns from its DPC. *)
ReleaseAux(c) ==
    /\ Runs(c, "release")
    /\ phase = 0
    /\ SetIrql(c, "low")
    /\ AnswerIpisTo(c)
    /\ Goto(c, "run")
    /\ UNCHANGED <<old, counters, frame, phase, quiesced, unqueued, queued,
                   ipisLeft, timeoutsLeft>>
-----------------------------------------------------------------------------
(* Windows: a synchronous IPI, for a TLB flush say, from code or from an   *)
(* interrupt handler, and the target's interrupt handler answering it.     *)
SendIpi(c, d) ==
    /\ irql[c] # "high"
    /\ ipi[c] = NoCPU
    /\ d # c
    /\ ipisLeft > 0
    /\ ipisLeft' = ipisLeft - 1
    /\ ipi' = [ipi EXCEPT ![c] = d]
    /\ UNCHANGED <<pc, irql, old, counters, frame, phase, quiesced, unqueued,
                   queued, timeoutsLeft>>

AnswerIpi(d) ==
    /\ irql[d] # "high"
    /\ \E c \in CPU : ipi[c] = d
    /\ AnswerIpisTo(d)
    /\ UNCHANGED <<pc, irql, old, counters, frame, phase, quiesced, unqueued,
                   queued, ipisLeft, timeoutsLeft>>

Protocol(c) ==
    \/ Raise(c) \/ SeeZero(c) \/ Timeout(c) \/ BackOff(c) \/ LoseCas(c)
    \/ TestCount(c)

AuxStep(c) ==
    \/ StartDpc(c) \/ SeePhase1(c) \/ Acknowledge(c) \/ ReleaseAux(c)

InitiatorStep ==
    \/ QuiesceSystem \/ EnterPhase1 \/ Quiesced \/ UnquiesceSystem \/ Unlock

Next ==
    \/ InitiatorStep
    \/ \E c \in Aux : QueueDpc(c) \/ AuxStep(c)
    \/ \E c \in CPU : Protocol(c) \/ AnswerIpi(c)
    \/ \E c, d \in CPU : SendIpi(c, d)

Spec == Init /\ [][Next]_vars

(* Each processor keeps executing, and an interrupt that is not held off   *)
(* is taken.  Beginning a quiesce and sending IPIs are never required.     *)
Fairness ==
    /\ WF_vars(EnterPhase1) /\ WF_vars(Quiesced) /\ WF_vars(UnquiesceSystem)
    /\ WF_vars(Unlock)
    /\ \A c \in Aux : WF_vars(QueueDpc(c)) /\ WF_vars(AuxStep(c))
    /\ \A c \in CPU : WF_vars(Protocol(c)) /\ WF_vars(AnswerIpi(c))

FairSpec == Spec /\ Fairness
-----------------------------------------------------------------------------
TypeOK ==
    /\ pc \in [CPU -> {"run", "queue", "wait1", "ack2", "release", "wait2",
                       "critical", "unlock"} \cup Gather]
    /\ irql \in [CPU -> {"low", "dispatch", "high"}]
    /\ old \in [CPU -> Int]
    /\ processorCount \in Int
    /\ spin1 \in Int
    /\ spin2 \in Int
    /\ frame \in BOOLEAN
    /\ phase \in {0, 1}
    /\ quiesced \in BOOLEAN
    /\ unqueued \subseteq Aux
    /\ queued \subseteq Aux
    /\ ipi \in [CPU -> CPU \cup {NoCPU}]
    /\ ipisLeft \in Nat
    /\ timeoutsLeft \in Nat

(* suspend.c:280-283, "nothing apart from you will run until you call      *)
(* UnquiesceSystem": while _g_Quiesced is set every auxiliary processor is *)
(* spinning in SpinProcessorDpc with its interrupts off.                   *)
NothingElseRuns ==
    quiesced => \A c \in Aux : pc[c] = "release" /\ irql[c] = "high"

(* suspend.c:367-371, "Don't return from this routine until you *KNOW*     *)
(* that all DPCs have advanced beyond the point where they are using the   *)
(* DPC's deferred context parameter": no processor is inside               *)
(* GatherInterruptDisabledProcessors once processorCount's frame is gone.  *)
FrameOutlivesUsers == \A c \in CPU : pc[c] \in Gather => frame

(* suspend.c:246, 261 and 302: the ASSERTs on the spin counts before each  *)
(* decrement, and on the phase on entry to QuiesceSystem, also when an     *)
(* auxiliary is still leaving the DPC of the quiesce before.               *)
SpinAssertions ==
    /\ \A c \in Aux : c \in queued /\ pc[c] = "run" => spin1 > 0
    /\ \A c \in Aux : pc[c] = "ack2" => spin2 > 0
    /\ pc[Initiator] = "run" => phase = 0

(* suspend.c:201-202, "Must never bump from zero as if zero is seen other  *)
(* processors will have advanced out of this routine".                     *)
NeverBumpFromZero ==
    [][frame /\ processorCount = 0 => processorCount' = 0]_vars

(* The promise of StopTheWorld: a processor is stopped while it has        *)
(* interrupts off, and the world is held while _g_Quiesced is set.         *)
World == INSTANCE StopTheWorld
           WITH stopped <- {c \in CPU : irql[c] = "high"},
                holding <- quiesced

ImplementsStopTheWorld == World!Spec

(* suspend.c:156-164 and 284-289: a quiesce that has begun completes,      *)
(* whatever IPIs are in flight, because interrupts stay on until every     *)
(* processor is in its DPC and a processor that waits too long backs off.  *)
QuiesceCompletes == (pc[Initiator] = "queue") ~> quiesced
=============================================================================
