---------------------------- MODULE XenbusSwitch ----------------------------
(***************************************************************************)
(* Turning xenbus off and on: xenutil/xenbus.c lines 189-199, 491-531,     *)
(* 553-563, 2424-2431 and 2790-2889.                                       *)
(*                                                                         *)
(* Operations count themselves in and out under xenbus_operation_lock; one *)
(* thread turns the driver off and waits until none is counted.            *)
(***************************************************************************)
EXTENDS Integers, FiniteSets

CONSTANT Operation            \* the threads that submit requests

ASSUME SwitchAssumption == IsFiniteSet(Operation)

VARIABLES
    in_flight,            \* operations between submit_request and its end
    refusals,             \* operations that got STATUS_DEVICE_NOT_READY
    allow_new_xenbus_operation, allow_xenbus_watch_operation,
    xenbus_outstanding_ctr,
    switch_pc,            \* xenbus_driver_off: "on", "waiting", "off", "warned"
    restarted             \* XenevtchnInitXenbus ran with operations in flight

switchVars == <<in_flight, refusals, allow_new_xenbus_operation,
                allow_xenbus_watch_operation, xenbus_outstanding_ctr, switch_pc,
                restarted>>

SwitchInit ==
    /\ in_flight = {} /\ refusals = {}
    /\ allow_new_xenbus_operation = TRUE
    /\ allow_xenbus_watch_operation = TRUE
    /\ xenbus_outstanding_ctr = 0
    /\ switch_pc = "on"
    /\ restarted = FALSE
-----------------------------------------------------------------------------
submit_operation(o) ==
    /\ o \notin in_flight
    /\ IF allow_new_xenbus_operation
       THEN /\ xenbus_outstanding_ctr' = xenbus_outstanding_ctr + 1
            /\ in_flight' = in_flight \cup {o}
            /\ refusals' = refusals \ {o}
       ELSE /\ refusals' = refusals \cup {o}
            /\ UNCHANGED <<xenbus_outstanding_ctr, in_flight>>
    /\ UNCHANGED <<allow_new_xenbus_operation, allow_xenbus_watch_operation,
                   switch_pc, restarted>>

(* The reply has come: the request is unhooked and end_operation called.   *)
end_operation(o) ==
    /\ o \in in_flight
    /\ in_flight' = in_flight \ {o}
    /\ xenbus_outstanding_ctr' = xenbus_outstanding_ctr - 1
    /\ UNCHANGED <<refusals, allow_new_xenbus_operation,
                   allow_xenbus_watch_operation, switch_pc, restarted>>

xenbus_driver_off ==
    /\ switch_pc # "waiting"
    /\ allow_new_xenbus_operation' = FALSE
    /\ allow_xenbus_watch_operation' = FALSE
    /\ switch_pc' = "waiting"
    /\ UNCHANGED <<in_flight, refusals, xenbus_outstanding_ctr, restarted>>

(* Back only with none outstanding.  The faulty variant does not wait.     *)
DoNotWait == TRUE

NoneOutstanding == xenbus_outstanding_ctr = 0

DriverIsOff ==
    /\ switch_pc = "waiting"
    /\ NoneOutstanding
    /\ switch_pc' = "off"
    /\ UNCHANGED <<in_flight, refusals, allow_new_xenbus_operation,
                   allow_xenbus_watch_operation, xenbus_outstanding_ctr,
                   restarted>>

(* Above PASSIVE_LEVEL it cannot wait. *)
DriverOffWarns ==
    /\ switch_pc = "waiting"
    /\ xenbus_outstanding_ctr # 0
    /\ switch_pc' = "warned"
    /\ UNCHANGED <<in_flight, refusals, allow_new_xenbus_operation,
                   allow_xenbus_watch_operation, xenbus_outstanding_ctr,
                   restarted>>

(* Neither takes the lock, so either may come while driver_off waits.  The *)
(* watches are registered again: module XenbusWatch.                       *)
xenbus_driver_on ==
    /\ allow_new_xenbus_operation' = TRUE
    /\ UNCHANGED <<in_flight, refusals, allow_xenbus_watch_operation,
                   xenbus_outstanding_ctr, switch_pc, restarted>>

xenbus_mtc_allow_divergency ==
    /\ allow_new_xenbus_operation' = TRUE
    /\ allow_xenbus_watch_operation' = TRUE
    /\ UNCHANGED <<in_flight, refusals, xenbus_outstanding_ctr, switch_pc,
                   restarted>>

(* Coming back from hibernation. *)
RestartSwitch ==
    /\ allow_new_xenbus_operation' = TRUE
    /\ allow_xenbus_watch_operation' = TRUE
    /\ xenbus_outstanding_ctr' = 0
    /\ restarted' = (restarted \/ in_flight # {})
    /\ UNCHANGED <<in_flight, refusals, switch_pc>>
-----------------------------------------------------------------------------
SwitchNext ==
    \/ \E o \in Operation : submit_operation(o) \/ end_operation(o)
    \/ xenbus_driver_off \/ DriverIsOff \/ DriverOffWarns
    \/ xenbus_driver_on \/ xenbus_mtc_allow_divergency
    \/ RestartSwitch

SwitchSpec == SwitchInit /\ [][SwitchNext]_switchVars
-----------------------------------------------------------------------------
SwitchTypeOK ==
    /\ in_flight \subseteq Operation
    /\ refusals \subseteq Operation
    /\ allow_new_xenbus_operation \in BOOLEAN
    /\ allow_xenbus_watch_operation \in BOOLEAN
    /\ xenbus_outstanding_ctr \in Int
    /\ switch_pc \in {"on", "waiting", "off", "warned"}
    /\ restarted \in BOOLEAN

(* xenbus_driver_off, xenbus.c:2792-2793: "It must guarantee that no       *)
(* inflight xenbus operations to xenstore are taking place".  It does,     *)
(* once it has returned at passive level and as long as nobody turns the   *)
(* driver on -- unless an initialisation zeroed the counter under          *)
(* operations in flight.                                                   *)
OffMeansNoneInFlight ==
    (switch_pc = "off" /\ ~allow_new_xenbus_operation /\ ~restarted)
        => in_flight = {}

(* The inductive form: the counter counts. *)
SwitchInv ==
    ~restarted =>
        /\ xenbus_outstanding_ctr = Cardinality(in_flight)
        /\ (switch_pc = "off" /\ ~allow_new_xenbus_operation)
               => in_flight = {}
=============================================================================
