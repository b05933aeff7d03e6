------------------------------- MODULE MCV4v --------------------------------
(***************************************************************************)
(* The parts of the V4V driver: the reading of a ring, the queue of IRPs   *)
(* and its writes, the contexts and rings, a listener with its accepters,  *)
(* and a stream with a ring at each end.  Each has the state that its      *)
(* properties are about and leaves the rest of the driver to the others; a *)
(* behaviour explores one of them.                                         *)
(***************************************************************************)
EXTENDS V4vCopyOut, V4vQueue, V4vContext, V4vListener, V4vConnector

(* Two writes of a datagram file, and the SYN and a reset of a stream, to   *)
(* two destinations.                                                        *)
Irps == {"a", "b", "syn", "rst"}
Files2 == [i \in Irps |-> IF i \in {"a", "b"} THEN "dgram" ELSE "stream"]
Dsts2 == [i \in Irps |-> IF i = "rst" THEN "e" ELSE "d"]
Lengths == [i \in Irps |-> IF i = "b" THEN 2 ELSE 1]
Kinds == [i \in Irps |-> IF i \in {"syn", "rst"} THEN i ELSE "data"]
AllFaults == {"memory", "send", "close"}

(* Accepters, connection ids and contexts are interchangeable: they are     *)
(* used in the order of their numbers.                                      *)
UsedInOrder ==
    LET called == {m.conn : m \in ToSet(ghost.sent)}
    IN  /\ acc["a2"].state # "opened" => acc["a1"].state # "opened"
        /\ "x2" \in called => "x1" \in called

Opened(c) == pde.ctx[c].handle # "unopened"
OpenedInOrder ==
    /\ Opened("c2") => Opened("c1")
    /\ Opened("c3") => Opened("c2")

(* A bound: with all contexts opened, the walkers take turns.               *)
OneWalker == Opened("c3") => \E w \in Walker : walk[w] = Resting

VARIABLE part  \* what the behaviour explores

v4vVars == <<part, ringVars, queueVars, ctxVars, streamVars, connectorVars>>

V4vInit ==
    /\ part \in {"ring", "queue", "contexts", "listener", "connector"}
    /\ RingInit /\ QueueInit /\ ContextInit /\ ListenerInit /\ ConnectorInit
    \* one of the initial states of what is not explored is enough
    /\ part # "ring" => rx_ptr = 0

V4vNext ==
    /\ UNCHANGED part
    /\ \/ /\ part = "ring" /\ RingNext
          /\ UNCHANGED <<queueVars, ctxVars, streamVars, connectorVars>>
       \/ /\ part = "queue" /\ QueueNext
          /\ UNCHANGED <<ringVars, ctxVars, streamVars, connectorVars>>
       \/ /\ part = "contexts" /\ ContextNext /\ OpenedInOrder' /\ OneWalker'
          /\ UNCHANGED <<ringVars, queueVars, streamVars, connectorVars>>
       \/ /\ part = "listener" /\ ListenerNext /\ UsedInOrder'
          /\ UNCHANGED <<ringVars, queueVars, ctxVars, connectorVars>>
       \/ /\ part = "connector" /\ ConnectorNext
          /\ UNCHANGED <<ringVars, queueVars, ctxVars, streamVars>>

V4vSpec == V4vInit /\ [][V4vNext]_v4vVars
=============================================================================
