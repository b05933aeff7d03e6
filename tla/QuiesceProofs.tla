---------------------------- MODULE QuiesceProofs ---------------------------
(***************************************************************************)
(* Theorems about the capture protocol of Quiesce, for any number of       *)
(* processors and any bounds on IPIs and timeouts.                         *)
(***************************************************************************)
EXTENDS Quiesce, FiniteSetTheorems, TLAPS

(* The processors processorCount does not count any more: they have raised *)
(* to HIGH_LEVEL in this quiesce and not backed off since.                 *)
Captured(c) ==
    \/ pc[c] \in {"spin", "cas", "ack2", "wait2"}
    \/ pc[c] = "outer" /\ irql[c] = "high"
    \/ pc[c] = "release" /\ phase = 1

Uncaptured == {c \in CPU : ~Captured(c)}

(* The processors that have read processorCount at 0. *)
SawZero(c) ==
    \/ pc[c] \in {"ack2", "wait2"}
    \/ pc[c] = "outer" /\ irql[c] = "high"
    \/ pc[c] = "release" /\ phase = 1

(* The auxiliaries SpinCount2 and, before phase 1, SpinCount1 count. *)
Unacknowledged == {c \in Aux : ~(pc[c] = "release" /\ phase = 1)}
Unstarted == {c \in Aux : pc[c] # "wait1"}

(* Where the processors can be: who can be at which place, at which IRQL,  *)
(* and how the initiator's place fixes the phase, the frame and the flag.  *)
Places ==
    /\ \A c \in CPU :
          /\ pc[c] \in {"spin", "cas", "ack2", "release", "wait2", "critical",
                        "unlock"} => irql[c] = "high"
          /\ pc[c] \in {"raise", "wait1", "queue"} => irql[c] = "dispatch"
          /\ pc[c] = "run" => irql[c] = "low"
          /\ pc[c] = "outer" => irql[c] \in {"dispatch", "high"}
    /\ pc[Initiator] \notin {"wait1", "ack2", "release"}
    /\ \A c \in Aux : pc[c] \notin {"queue", "wait2", "critical", "unlock"}
    /\ phase = 1 <=> pc[Initiator] \in Gather \cup {"wait2", "critical"}
    /\ frame <=> pc[Initiator] \in Gather \cup {"queue", "wait2"}
    /\ quiesced <=> pc[Initiator] = "critical"
    /\ phase = 1 => \A c \in Aux : pc[c] # "run"
    /\ phase = 0 => \A c \in Aux : pc[c] \in {"run", "wait1", "release"}
    /\ pc[Initiator] = "critical" => \A c \in Aux : pc[c] = "release"

(* How the DPCs queued and started partition the auxiliaries. *)
Queues ==
    /\ pc[Initiator] # "queue" => queued = {} /\ unqueued = {}
    /\ queued \cap unqueued = {}
    /\ \A c \in Aux : pc[c] = "wait1" => c \notin queued \cup unqueued
    /\ \A c \in Aux : pc[c] = "wait1" /\ phase = 0 => pc[Initiator] = "queue"

(* The counters are the sizes of the sets they stand for. *)
Counts ==
    /\ frame => processorCount = Cardinality(Uncaptured)
    /\ frame => spin2 = Cardinality(Unacknowledged)
    /\ pc[Initiator] = "queue" => spin1 = Cardinality(Unstarted)

(* Once one processor has read 0 the count stays there, so that the local  *)
(* a compare-and-exchange starts from is never 0.                          *)
Zero ==
    /\ frame => \A c \in CPU : SawZero(c) => processorCount = 0
    /\ \A c \in CPU : pc[c] = "cas" => old[c] # 0

IInv == TypeOK /\ Places /\ Queues /\ Counts /\ Zero
-----------------------------------------------------------------------------
(* Sizes of sets of processors. *)
LEMMA Sizes ==
  ASSUME NEW S \in SUBSET CPU
  PROVE  /\ Cardinality(S) \in Nat
         /\ Cardinality(S) = 0 <=> S = {}
         /\ \A c \in S : Cardinality(S \ {c}) = Cardinality(S) - 1
         /\ \A c \in CPU \ S : Cardinality(S \cup {c}) = Cardinality(S) + 1
<1>1. IsFiniteSet(S)
  BY CPUAssumption, FS_Subset
<1> QED
  BY <1>1, FS_CardinalityType, FS_EmptySet, FS_RemoveElement, FS_AddElement

LEMMA AuxSize == Cardinality(Aux) = N - 1 /\ N \in Nat
  BY Sizes, CPUAssumption DEF Aux, N

(* processorCount's set shrinks, grows or stays as processors move. *)
LEMMA UncapturedStep ==
  ASSUME TypeOK, TypeOK', NEW c \in CPU,
         \A d \in CPU \ {c} : Captured(d)' <=> Captured(d)
  PROVE  /\ (Captured(c)' <=> Captured(c)) => Uncaptured' = Uncaptured
         /\ Captured(c)' /\ ~Captured(c) =>
              Cardinality(Uncaptured') = Cardinality(Uncaptured) - 1
         /\ ~Captured(c)' /\ Captured(c) =>
              Cardinality(Uncaptured') = Cardinality(Uncaptured) + 1
<1>1. (Captured(c)' <=> Captured(c)) => Uncaptured' = Uncaptured
  BY DEF Uncaptured
<1>2. Captured(c)' /\ ~Captured(c) => /\ Uncaptured' = Uncaptured \ {c}
                                      /\ c \in Uncaptured
  BY DEF Uncaptured
<1>3. ~Captured(c)' /\ Captured(c) => /\ Uncaptured' = Uncaptured \cup {c}
                                      /\ c \in CPU \ Uncaptured
  BY DEF Uncaptured
<1>4. Uncaptured \in SUBSET CPU
  BY DEF Uncaptured
<1> QED
  BY <1>1, <1>2, <1>3, <1>4, Sizes

LEMMA InitIInv == Init => IInv
<1> SUFFICES ASSUME Init PROVE IInv
  OBVIOUS
<1>1. TypeOK
  <2>1. frame \in BOOLEAN /\ quiesced \in BOOLEAN
    BY Zenon DEF Init
  <2>2. ipi \in [CPU -> CPU \cup {NoCPU}] /\ ipisLeft \in Nat /\ timeoutsLeft \in Nat
    BY CPUAssumption DEF Init
  <2> QED
    BY <2>1, <2>2 DEF Init, TypeOK, Gather
<1>2. Places /\ Queues /\ Counts /\ Zero
  BY CPUAssumption
  DEF Init, Places, Queues, Counts, Zero, SawZero, Aux, Gather
<1> QED
  BY <1>1, <1>2 DEF IInv

LEMMA TypeStep == TypeOK /\ [Next]_vars => TypeOK'
<1> SUFFICES ASSUME TypeOK, [Next]_vars PROVE TypeOK'
  OBVIOUS
<1> USE CPUAssumption DEF TypeOK, Gather, Aux, Goto, SetIrql, Runs, counters,
        env, AnswerIpisTo
<1>1. CASE InitiatorStep
  <2> USE AuxSize DEF Aux
  <2>1. CASE QuiesceSystem
    BY <2>1 DEF QuiesceSystem
  <2>2. CASE EnterPhase1
    BY <2>2 DEF EnterPhase1
  <2>3. CASE Quiesced
    BY <2>3 DEF Quiesced
  <2>4. CASE UnquiesceSystem
    BY <2>4 DEF UnquiesceSystem
  <2>5. CASE Unlock
    BY <2>5 DEF Unlock
  <2> QED
    BY <1>1, <2>1, <2>2, <2>3, <2>4, <2>5 DEF InitiatorStep
<1>2. ASSUME NEW c \in Aux, QueueDpc(c) PROVE TypeOK'
  BY <1>2 DEF QueueDpc
<1>3. ASSUME NEW c \in Aux, AuxStep(c) PROVE TypeOK'
  <2>1. CASE StartDpc(c)
    BY <2>1 DEF StartDpc
  <2>2. CASE SeePhase1(c)
    BY <2>2 DEF SeePhase1
  <2>3. CASE Acknowledge(c)
    BY <2>3 DEF Acknowledge
  <2>4. CASE ReleaseAux(c)
    BY <2>4 DEF ReleaseAux
  <2> QED
    BY <1>3, <2>1, <2>2, <2>3, <2>4 DEF AuxStep
<1>4. ASSUME NEW c \in CPU, Protocol(c) PROVE TypeOK'
  <2>1. CASE Raise(c)
    BY <2>1 DEF Raise
  <2>2. CASE SeeZero(c)
    BY <2>2 DEF SeeZero
  <2>3. CASE Timeout(c)
    BY <2>3 DEF Timeout
  <2>4. CASE BackOff(c)
    BY <2>4 DEF BackOff
  <2>5. CASE LoseCas(c)
    BY <2>5 DEF LoseCas
  <2>6. CASE TestCount(c)
    BY <2>6 DEF TestCount
  <2> QED
    BY <1>4, <2>1, <2>2, <2>3, <2>4, <2>5, <2>6 DEF Protocol
<1>5. ASSUME NEW c \in CPU, AnswerIpi(c) PROVE TypeOK'
  BY <1>5 DEF AnswerIpi
<1>6. ASSUME NEW c \in CPU, NEW d \in CPU, SendIpi(c, d) PROVE TypeOK'
  BY <1>6 DEF SendIpi
<1>7. CASE UNCHANGED vars
  BY <1>7 DEF vars
<1> QED
  BY <1>1, <1>2, <1>3, <1>4, <1>5, <1>6, <1>7 DEF Next

(* Every action preserves the invariant.  The counters need most of the    *)
(* work: each action either leaves the three sets they measure alone or    *)
(* moves one processor into or out of one of them.                         *)
LEMMA NextIInv == IInv /\ [Next]_vars => IInv'
<1> SUFFICES ASSUME IInv, [Next]_vars
             PROVE  Places' /\ Queues' /\ Counts' /\ Zero'
  BY TypeStep DEF IInv
<1> TypeOK'
  BY TypeStep DEF IInv
<1> USE CPUAssumption
    DEF IInv, TypeOK, Aux, Gather, Goto, SetIrql, Runs, counters, env
<1>1. CASE QuiesceSystem
  <2> USE <1>1 DEF QuiesceSystem
  <2>1. Places' /\ Queues'
    BY DEF Places, Queues
  <2>2. Uncaptured' = CPU /\ Unacknowledged' = Aux /\ Unstarted' = Aux
    BY DEF Places, Queues, Uncaptured, Unacknowledged, Unstarted, Captured
  <2>3. Counts'
    BY <2>2, AuxSize DEF Counts, N
  <2>4. Zero'
    BY DEF Places, Queues, Zero, SawZero
  <2> QED
    BY <2>1, <2>3, <2>4
<1>2. ASSUME NEW c \in Aux, QueueDpc(c) PROVE Places' /\ Queues' /\ Counts' /\ Zero'
  <2> USE <1>2 DEF QueueDpc
  <2>1. Places' /\ Queues'
    BY DEF Places, Queues
  <2>2. Uncaptured' = Uncaptured /\ Unacknowledged' = Unacknowledged /\ Unstarted' = Unstarted
    BY DEF Uncaptured, Unacknowledged, Unstarted, Captured
  <2> QED
    BY <2>1, <2>2 DEF Counts, Zero, SawZero
<1>3. CASE EnterPhase1
  <2> USE <1>3 DEF EnterPhase1
  <2>1. Unstarted = {}
    BY Sizes, Unstarted \in SUBSET CPU DEF Counts, Unstarted
  <2>2. Places' /\ Queues'
    BY <2>1 DEF Places, Queues, Unstarted
  <2>3. Uncaptured' = Uncaptured /\ Unacknowledged' = Unacknowledged
    BY <2>1 DEF Places, Uncaptured, Unacknowledged, Unstarted, Captured
  <2>4. Counts'
    BY <2>3 DEF Counts, Places
  <2>5. Zero'
    BY <2>1 DEF Places, Zero, SawZero, Unstarted
  <2> QED
    BY <2>2, <2>4, <2>5
<1>4. ASSUME NEW c \in Aux, StartDpc(c) PROVE Places' /\ Queues' /\ Counts' /\ Zero'
  <2> USE <1>4 DEF StartDpc
  <2>1. Places' /\ Queues'
    BY DEF Places, Queues
  <2>2. Uncaptured' = Uncaptured /\ Unacknowledged' = Unacknowledged
    BY DEF Places, Uncaptured, Unacknowledged, Captured
  <2>3. Unstarted' = Unstarted \ {c} /\ c \in Unstarted /\ Unstarted \in SUBSET CPU
    BY DEF Unstarted
  <2>4. Counts'
    BY <2>2, <2>3, Sizes DEF Counts, Queues
  <2>5. Zero'
    BY DEF Places, Zero, SawZero
  <2> QED
    BY <2>1, <2>4, <2>5
<1>5. ASSUME NEW c \in Aux, SeePhase1(c) PROVE Places' /\ Queues' /\ Counts' /\ Zero'
  <2> USE <1>5 DEF SeePhase1
  <2>1. Places' /\ Queues'
    BY DEF Places, Queues
  <2>2. Uncaptured' = Uncaptured /\ Unacknowledged' = Unacknowledged
    BY DEF Places, Uncaptured, Unacknowledged, Captured
  <2>3. Counts'
    BY <2>2 DEF Counts, Places
  <2>4. Zero'
    BY DEF Zero, SawZero
  <2> QED
    BY <2>1, <2>3, <2>4
<1>6. ASSUME NEW c \in CPU, Raise(c) PROVE Places' /\ Queues' /\ Counts' /\ Zero'
  <2> USE <1>6 DEF Raise
  <2>1. Places' /\ Queues'
    BY DEF Places, Queues
  <2>2. Unacknowledged' = Unacknowledged /\ pc[Initiator]' # "queue" /\ frame
    BY DEF Places, Unacknowledged
  <2>3. /\ \A d \in CPU \ {c} : Captured(d)' <=> Captured(d)
        /\ Captured(c)' /\ ~Captured(c)
    BY DEF Captured
  <2>4. Cardinality(Uncaptured') = Cardinality(Uncaptured) - 1
    BY <2>3, UncapturedStep
  <2>5. Counts'
    BY <2>2, <2>4 DEF Counts
  <2>6. c \in Uncaptured /\ Uncaptured \in SUBSET CPU
    BY <2>3 DEF Uncaptured
  <2>7. processorCount # 0
    BY <2>2, <2>6, Sizes DEF Counts
  <2>8. Zero'
    BY <2>2, <2>7 DEF Zero, SawZero
  <2> QED
    BY <2>1, <2>5, <2>8
<1>7. ASSUME NEW c \in CPU, SeeZero(c) PROVE Places' /\ Queues' /\ Counts' /\ Zero'
  <2> USE <1>7 DEF SeeZero
  <2>1. Places' /\ Queues'
    BY DEF Places, Queues
  <2>2. Uncaptured' = Uncaptured /\ Unacknowledged' = Unacknowledged
    BY DEF Places, Uncaptured, Unacknowledged, Captured
  <2>3. Counts'
    BY <2>2 DEF Counts, Places
  <2>4. Zero'
    BY DEF Zero, SawZero
  <2> QED
    BY <2>1, <2>3, <2>4
<1>8. ASSUME NEW c \in CPU, Timeout(c) PROVE Places' /\ Queues' /\ Counts' /\ Zero'
  <2> USE <1>8 DEF Timeout
  <2>1. Places' /\ Queues'
    BY DEF Places, Queues
  <2>2. Uncaptured' = Uncaptured /\ Unacknowledged' = Unacknowledged
    BY DEF Places, Uncaptured, Unacknowledged, Captured
  <2>3. Counts'
    BY <2>2 DEF Counts, Places
  <2>4. Zero'
    BY DEF Zero, SawZero
  <2> QED
    BY <2>1, <2>3, <2>4
<1>9. ASSUME NEW c \in CPU, BackOff(c) PROVE Places' /\ Queues' /\ Counts' /\ Zero'
  <2> USE <1>9 DEF BackOff
  <2>1. Places' /\ Queues'
    BY DEF Places, Queues
  <2>2. Unacknowledged' = Unacknowledged /\ pc[Initiator]' # "queue" /\ frame
    BY DEF Places, Unacknowledged
  <2>3. /\ \A d \in CPU \ {c} : Captured(d)' <=> Captured(d)
        /\ ~Captured(c)' /\ Captured(c)
    BY DEF Captured
  <2>4. Cardinality(Uncaptured') = Cardinality(Uncaptured) + 1
    BY <2>3, UncapturedStep
  <2>5. Counts'
    BY <2>2, <2>4 DEF Counts
  <2>6. processorCount # 0
    BY DEF Zero
  <2>7. Zero'
    BY <2>2, <2>6 DEF Zero, SawZero
  <2> QED
    BY <2>1, <2>5, <2>7
<1>10. ASSUME NEW c \in CPU, LoseCas(c) PROVE Places' /\ Queues' /\ Counts' /\ Zero'
  <2> USE <1>10 DEF LoseCas
  <2>1. Places' /\ Queues'
    BY DEF Places, Queues
  <2>2. Uncaptured' = Uncaptured /\ Unacknowledged' = Unacknowledged
    BY DEF Places, Uncaptured, Unacknowledged, Captured
  <2>3. Counts'
    BY <2>2 DEF Counts, Places
  <2>4. Zero'
    BY DEF Zero, SawZero
  <2> QED
    BY <2>1, <2>3, <2>4
<1>11. ASSUME NEW c \in CPU, TestCount(c) PROVE Places' /\ Queues' /\ Counts' /\ Zero'
  <2> USE <1>11 DEF TestCount
  <2>1. frame
    BY DEF Places
  <2>2. irql[c] = "high" <=> processorCount = 0
    <3>1. irql[c] = "high" => processorCount = 0
      BY <2>1 DEF Zero, SawZero
    <3>2. irql[c] # "high" => c \in Uncaptured /\ Uncaptured \in SUBSET CPU
      BY DEF Uncaptured, Captured
    <3> QED
      BY <2>1, <3>1, <3>2, Sizes DEF Counts
  <2>3. Places' /\ Queues'
    BY <2>2 DEF Places, Queues
  <2>4. Uncaptured' = Uncaptured /\ Unacknowledged' = Unacknowledged
    BY <2>2 DEF Places, Uncaptured, Unacknowledged, Captured
  <2>5. Counts'
    BY <2>4 DEF Counts, Places
  <2>6. Zero'
    BY <2>2 DEF Zero, SawZero, Places
  <2> QED
    BY <2>3, <2>5, <2>6
<1>12. ASSUME NEW c \in Aux, Acknowledge(c) PROVE Places' /\ Queues' /\ Counts' /\ Zero'
  <2> USE <1>12 DEF Acknowledge
  <2>1. Places' /\ Queues'
    BY DEF Places, Queues
  <2>2. phase = 1
    BY DEF Places
  <2>3. Uncaptured' = Uncaptured
    BY <2>2 DEF Uncaptured, Captured
  <2>4. /\ Unacknowledged' = Unacknowledged \ {c}
        /\ c \in Unacknowledged
        /\ Unacknowledged \in SUBSET CPU
    BY <2>2 DEF Unacknowledged
  <2>5. Counts'
    BY <2>2, <2>3, <2>4, Sizes DEF Counts, Places
  <2>6. Zero'
    BY <2>2 DEF Zero, SawZero
  <2> QED
    BY <2>1, <2>5, <2>6
<1>13. CASE Quiesced
  <2> USE <1>13 DEF Quiesced
  <2>1. Unacknowledged = {}
    BY Sizes, Unacknowledged \in SUBSET CPU DEF Counts, Places, Unacknowledged
  <2>2. Places' /\ Queues'
    BY <2>1 DEF Places, Queues, Unacknowledged
  <2> QED
    BY <2>2 DEF Counts, Zero
<1>14. CASE UnquiesceSystem
  <2> USE <1>14 DEF UnquiesceSystem
  <2>1. Places' /\ Queues'
    BY DEF Places, Queues
  <2> QED
    BY <2>1 DEF Places, Counts, Zero
<1>15. CASE Unlock
  <2> USE <1>15 DEF Unlock
  <2>1. Places' /\ Queues'
    BY DEF Places, Queues
  <2> QED
    BY <2>1 DEF Places, Counts, Zero
<1>16. ASSUME NEW c \in Aux, ReleaseAux(c) PROVE Places' /\ Queues' /\ Counts' /\ Zero'
  <2> USE <1>16 DEF ReleaseAux
  <2>1. Places' /\ Queues'
    BY DEF Places, Queues
  <2>2. Uncaptured' = Uncaptured /\ Unacknowledged' = Unacknowledged /\ Unstarted' = Unstarted
    BY DEF Places, Uncaptured, Unacknowledged, Unstarted, Captured
  <2>3. Counts'
    BY <2>2 DEF Counts, Places
  <2>4. Zero'
    BY DEF Places, Zero, SawZero
  <2> QED
    BY <2>1, <2>3, <2>4
<1>17. CASE UNCHANGED <<pc, irql, old, counters, frame, phase, quiesced,
                        unqueued, queued>>
  <2>1. Uncaptured' = Uncaptured /\ Unacknowledged' = Unacknowledged /\ Unstarted' = Unstarted
    BY <1>17 DEF Uncaptured, Unacknowledged, Unstarted, Captured
  <2> QED
    BY <1>17, <2>1 DEF Places, Queues, Counts, Zero, SawZero
<1> QED
  BY <1>1, <1>2, <1>3, <1>4, <1>5, <1>6, <1>7, <1>8, <1>9, <1>10, <1>11,
     <1>12, <1>13, <1>14, <1>15, <1>16, <1>17
  DEF Next, InitiatorStep, AuxStep, Protocol, AnswerIpi, SendIpi, vars

(* The inductive invariant holds throughout. *)
THEOREM Invariance == Spec => []IInv
<1>1. Init => IInv
  BY InitIInv
<1>2. IInv /\ [Next]_vars => IInv'
  BY NextIInv
<1> QED
  BY <1>1, <1>2, PTL DEF Spec
-----------------------------------------------------------------------------
(* Every variable keeps its type. *)
THEOREM TypeCorrect == Spec => []TypeOK
<1>1. IInv => TypeOK
  BY DEF IInv
<1> QED
  BY <1>1, Invariance, PTL

(* QuiesceSystem's promise, suspend.c:280-283: for any number of processors *)
(* and any IPI traffic, nothing but the initiator runs while _g_Quiesced is *)
(* set.                                                                     *)
THEOREM QuiesceExcludes == Spec => []NothingElseRuns
<1>1. IInv => NothingElseRuns
  BY DEF IInv, Places, NothingElseRuns, Aux
<1> QED
  BY <1>1, Invariance, PTL

(* suspend.c:367-371: the frame that holds processorCount outlives every   *)
(* use a DPC makes of it.                                                   *)
THEOREM FrameIsSafe == Spec => []FrameOutlivesUsers
<1>1. IInv => FrameOutlivesUsers
  BY CPUAssumption
  DEF IInv, TypeOK, Places, FrameOutlivesUsers, Aux, Gather
<1> QED
  BY <1>1, Invariance, PTL

(* The ASSERTs at suspend.c:246, 261 and 302 never fail. *)
THEOREM AssertionsHold == Spec => []SpinAssertions
<1> SUFFICES ASSUME IInv PROVE SpinAssertions
  BY Invariance, PTL
<1>1. ASSUME NEW c \in Aux, c \in queued, pc[c] = "run" PROVE spin1 > 0
  <2>1. c \in Unstarted /\ Unstarted \in SUBSET CPU
    BY <1>1 DEF Unstarted, Aux
  <2>2. spin1 = Cardinality(Unstarted)
    BY <1>1 DEF IInv, Queues, Counts
  <2> QED
    BY <2>1, <2>2, Sizes
<1>2. ASSUME NEW c \in Aux, pc[c] = "ack2" PROVE spin2 > 0
  <2>1. c \in Unacknowledged /\ Unacknowledged \in SUBSET CPU
    BY <1>2 DEF Unacknowledged, Aux
  <2>2. phase = 1 /\ pc[Initiator] # "critical"
    BY <1>2 DEF IInv, TypeOK, Places
  <2>3. spin2 = Cardinality(Unacknowledged)
    BY <2>2 DEF IInv, Places, Counts
  <2> QED
    BY <2>1, <2>3, Sizes
<1>3. pc[Initiator] = "run" => phase = 0
  BY DEF IInv, TypeOK, Places, Gather
<1> QED
  BY <1>1, <1>2, <1>3 DEF SpinAssertions

(* suspend.c:201-202: no compare-and-exchange bumps processorCount from 0. *)
THEOREM ZeroIsFinal == Spec => NeverBumpFromZero
<1>1. IInv /\ [Next]_vars =>
        [frame /\ processorCount = 0 => processorCount' = 0]_vars
  <2> SUFFICES ASSUME IInv, Next, frame, processorCount = 0
               PROVE  processorCount' = 0
    BY DEF vars
  <2>1. CASE QuiesceSystem
    BY <2>1 DEF QuiesceSystem, Runs, IInv, Places, Gather
  <2>2. ASSUME NEW c \in CPU, Raise(c) PROVE FALSE
    <3>1. c \in Uncaptured /\ Uncaptured \in SUBSET CPU
      BY <2>2 DEF Raise, Runs, Uncaptured, Captured
    <3> QED
      BY <3>1, Sizes DEF IInv, Counts
  <2>3. ASSUME NEW c \in CPU, BackOff(c) PROVE FALSE
    BY <2>3 DEF BackOff, Runs, IInv, Zero
  <2> QED
    BY <2>1, <2>2, <2>3
    DEF Next, InitiatorStep, AuxStep, Protocol, QueueDpc, EnterPhase1,
        StartDpc, SeePhase1, SeeZero, Timeout, LoseCas, TestCount,
        Acknowledge, Quiesced, UnquiesceSystem, Unlock, ReleaseAux, SendIpi,
        AnswerIpi, counters
<1> QED
  BY <1>1, Invariance, PTL DEF Spec, NeverBumpFromZero

(* The protocol implements StopTheWorld: the world is held only when every *)
(* processor has stopped, and none resumes while it is held.               *)
THEOREM Refinement == Spec => ImplementsStopTheWorld
<1> USE DEF World!Init, World!Next, World!Stop, World!Resume, World!Hold,
            World!LetGo, World!vars
<1>1. Init => World!Init
  BY DEF Init
<1>2. IInv /\ [Next]_vars => [World!Next]_(World!vars)
  <2> SUFFICES ASSUME IInv, [Next]_vars
               PROVE  [World!Next]_(World!vars)
    OBVIOUS
  <2> USE DEF IInv, TypeOK, Places, Aux, Gather, Runs, Goto, SetIrql
  <2>1. ASSUME NEW c \in CPU, irql' = [irql EXCEPT ![c] = "high"],
               irql[c] # "high", ~quiesced, UNCHANGED quiesced
        PROVE  World!Stop(c)
    BY <2>1
  <2>2. ASSUME NEW c \in CPU, NEW l \in {"low", "dispatch"},
               irql' = [irql EXCEPT ![c] = l],
               irql[c] = "high", ~quiesced, UNCHANGED quiesced
        PROVE  World!Resume(c)
    BY <2>2
  <2>3. ASSUME NEW c \in CPU, NEW l \in {"low", "dispatch"},
               irql' = [irql EXCEPT ![c] = l],
               irql[c] # "high", UNCHANGED quiesced
        PROVE  UNCHANGED World!vars
    BY <2>3
  <2>4. CASE QuiesceSystem
    BY <2>3, <2>4, CPUAssumption DEF QuiesceSystem
  <2>5. ASSUME NEW c \in Aux, StartDpc(c) PROVE UNCHANGED World!vars
    BY <2>3, <2>5 DEF StartDpc
  <2>6. ASSUME NEW c \in CPU, Raise(c) PROVE World!Stop(c)
    BY <2>1, <2>6 DEF Raise
  <2>7. ASSUME NEW c \in CPU, BackOff(c) PROVE World!Resume(c)
    BY <2>2, <2>7 DEF BackOff
  <2>8. CASE Quiesced
    <3>1. \A c \in Aux : pc'[c] = "release"
      BY <2>8, NextIInv DEF Quiesced
    <3> QED
      BY <2>8, <3>1 DEF Quiesced
  <2>9. CASE UnquiesceSystem
    BY <2>9 DEF UnquiesceSystem
  <2>10. CASE Unlock
    BY <2>2, <2>10, CPUAssumption DEF Unlock
  <2>11. ASSUME NEW c \in Aux, ReleaseAux(c) PROVE World!Resume(c)
    BY <2>2, <2>11 DEF ReleaseAux
  <2>12. CASE UNCHANGED <<irql, quiesced>>
    BY <2>12
  <2> QED
    BY <2>4, <2>5, <2>6, <2>7, <2>8, <2>9, <2>10, <2>11, <2>12
    DEF Next, InitiatorStep, AuxStep, Protocol, QueueDpc, EnterPhase1,
        SeePhase1, SeeZero, Timeout, LoseCas, TestCount, Acknowledge,
        SendIpi, AnswerIpi, vars
<1> QED
  BY <1>1, <1>2, Invariance, PTL DEF Spec, ImplementsStopTheWorld, World!Spec
=============================================================================
