------------------------- MODULE XenbusSwitchProofs -------------------------
(***************************************************************************)
(* Turning xenbus off leaves no operation in flight, for every set of      *)
(* threads that submit requests.                                           *)
(***************************************************************************)
EXTENDS XenbusSwitch, FiniteSetTheorems, TLAPS

(* Every step keeps the variables in their types. *)
THEOREM SwitchTypeCorrect == SwitchSpec => []SwitchTypeOK
<1>1. SwitchInit => SwitchTypeOK
  <2>1. 0 \in Int
    OBVIOUS
  <2> QED
    BY <2>1, Zenon DEF SwitchInit, SwitchTypeOK
<1>2. ASSUME SwitchTypeOK, [SwitchNext]_switchVars
      PROVE  SwitchTypeOK'
  <2>1. ASSUME NEW o \in Operation, submit_operation(o)
        PROVE  SwitchTypeOK'
    BY <1>2, <2>1 DEF SwitchTypeOK, submit_operation
  <2>2. ASSUME NEW o \in Operation, end_operation(o)
        PROVE  SwitchTypeOK'
    BY <1>2, <2>2 DEF SwitchTypeOK, end_operation
  <2>3. CASE xenbus_driver_off
    BY <1>2, <2>3 DEF SwitchTypeOK, xenbus_driver_off
  <2>4. CASE DriverIsOff
    BY <1>2, <2>4 DEF SwitchTypeOK, DriverIsOff
  <2>5. CASE DriverOffWarns
    BY <1>2, <2>5 DEF SwitchTypeOK, DriverOffWarns
  <2>6. CASE xenbus_driver_on
    BY <1>2, <2>6 DEF SwitchTypeOK, xenbus_driver_on
  <2>7. CASE xenbus_mtc_allow_divergency
    BY <1>2, <2>7 DEF SwitchTypeOK, xenbus_mtc_allow_divergency
  <2>8. CASE RestartSwitch
    BY <1>2, <2>8 DEF SwitchTypeOK, RestartSwitch
  <2>9. CASE UNCHANGED switchVars
    BY <1>2, <2>9 DEF SwitchTypeOK, switchVars
  <2> QED
    BY <1>2, <2>1, <2>2, <2>3, <2>4, <2>5, <2>6, <2>7, <2>8, <2>9
       DEF SwitchNext
<1> QED
  BY <1>1, <1>2, PTL DEF SwitchSpec

(* An operation that starts is counted once, one that ends is discounted.  *)
LEMMA CountInAndOut ==
  ASSUME NEW S \in SUBSET Operation, NEW o \in Operation
  PROVE  /\ IsFiniteSet(S)
         /\ Cardinality(S) \in Nat
         /\ o \notin S => Cardinality(S \cup {o}) = Cardinality(S) + 1
         /\ o \in S => Cardinality(S \ {o}) = Cardinality(S) - 1
<1>1. IsFiniteSet(S)
  BY FS_Subset, SwitchAssumption
<1> QED
  BY <1>1, FS_CardinalityType, FS_AddElement, FS_RemoveElement

(* start_operation and end_operation keep the counter exact; the switch    *)
(* reports "off" only when it reads zero under the lock, and no operation  *)
(* starts while new ones are refused.                                      *)
THEOREM SwitchInductive == SwitchSpec => []SwitchInv
<1>1. SwitchInit => SwitchInv
  BY FS_EmptySet DEF SwitchInit, SwitchInv
<1>2. ASSUME SwitchTypeOK, SwitchInv, [SwitchNext]_switchVars
      PROVE  SwitchInv'
  <2>1. ASSUME NEW o \in Operation, submit_operation(o)
        PROVE  SwitchInv'
    <3>1. CASE allow_new_xenbus_operation
      BY <1>2, <2>1, <3>1, CountInAndOut
         DEF SwitchTypeOK, SwitchInv, submit_operation
    <3>2. CASE ~allow_new_xenbus_operation
      BY <1>2, <2>1, <3>2 DEF SwitchTypeOK, SwitchInv, submit_operation
    <3> QED
      BY <3>1, <3>2
  <2>2. ASSUME NEW o \in Operation, end_operation(o)
        PROVE  SwitchInv'
    BY <1>2, <2>2, CountInAndOut DEF SwitchTypeOK, SwitchInv, end_operation
  <2>3. CASE xenbus_driver_off
    BY <1>2, <2>3 DEF SwitchTypeOK, SwitchInv, xenbus_driver_off
  <2>4. CASE DriverIsOff
    <3>1. IsFiniteSet(in_flight)
      BY <1>2, FS_Subset, SwitchAssumption DEF SwitchTypeOK
    <3> QED
      BY <1>2, <2>4, <3>1, FS_EmptySet DEF SwitchInv, DriverIsOff, NoneOutstanding
  <2>5. CASE DriverOffWarns
    BY <1>2, <2>5 DEF SwitchInv, DriverOffWarns
  <2>6. CASE xenbus_driver_on
    BY <1>2, <2>6 DEF SwitchInv, xenbus_driver_on
  <2>7. CASE xenbus_mtc_allow_divergency
    BY <1>2, <2>7 DEF SwitchInv, xenbus_mtc_allow_divergency
  <2>8. CASE RestartSwitch
    BY <1>2, <2>8, FS_EmptySet DEF SwitchTypeOK, SwitchInv, RestartSwitch
  <2>9. CASE UNCHANGED switchVars
    BY <1>2, <2>9 DEF SwitchInv, switchVars
  <2> QED
    BY <1>2, <2>1, <2>2, <2>3, <2>4, <2>5, <2>6, <2>7, <2>8, <2>9
       DEF SwitchNext
<1> QED
  BY <1>1, <1>2, SwitchTypeCorrect, PTL DEF SwitchSpec

(* xenbus_driver_off keeps its promise, whatever threads submit requests.  *)
THEOREM OffIsQuiet == SwitchSpec => []OffMeansNoneInFlight
<1>1. SwitchInv => OffMeansNoneInFlight
  BY DEF SwitchInv, OffMeansNoneInFlight
<1> QED
  BY <1>1, SwitchInductive, PTL
=============================================================================
