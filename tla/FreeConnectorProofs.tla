------------------------- MODULE FreeConnectorProofs -------------------------
(***************************************************************************)
(* Proofs about FreeConnector, for every set of pilot statuses and safety  *)
(* entries.                                                                *)
(***************************************************************************)
EXTENDS FreeConnector, TLAPS

(***************************************************************************)
(* What process needs to know about the present state: the duty that goes  *)
(* with it.  PowerExactlyInCD and FaultIsDriven are not inductive alone:   *)
(* do_unexpected leaves the relay as it is and keeps the first one only    *)
(* because A and F, where it is called, already have the relay open, and   *)
(* do_supply_power starts no PWM of its own.                               *)
(***************************************************************************)
DutyFollowsState ==
    /\ state = "A" => target = "idle"
    /\ state \in {"B", "C", "D"} => target = "pwm"
    /\ state \in {"E", "F"} => target = "zero"

RelayFollowsState == relay <=> state \in {"C", "D"}

IInv == TypeOK /\ DutyFollowsState /\ RelayFollowsState

-----------------------------------------------------------------------------
\* A row that fires in state s: the state it leads to and what it does.  The
\* pilot status is the one seen by the guard that let it fire.
Step(s) ==
    \/ /\ s = "E" /\ state' = "A" /\ do_stop_pwm
    \/ /\ s = "A"
       /\ \/ pilot = "B" /\ state' = "B" /\ do_start_pwm
          \/ state' = "F" /\ do_unexpected
          \/ state' = "F" /\ do_evse_error
    \/ /\ s = "B"
       /\ \/ state' = "A" /\ do_stop_pwm
          \/ pilot = "C" /\ state' = "C" /\ do_supply_power
          \/ pilot = "D" /\ state' = "D" /\ do_supply_power
          \/ state' = "F" /\ do_ev_error
          \/ state' = "F" /\ do_evse_error
    \/ /\ s \in {"C", "D"}
       /\ \/ state' = "A" /\ do_stop_all
          \/ state' = "B" /\ do_stop_power
          \/ state' \in {"C", "D"} /\ UNCHANGED <<target, relay, error>>
          \/ state' = "F" /\ do_ev_error
          \/ state' = "F" /\ do_evse_error
    \/ /\ s = "F" /\ state' = "A" /\ do_stop_pwm

\* A step of process() is the step of one of the rows, with its guard.
LEMMA ProcessStep ==
    ASSUME IInv, process
    PROVE  Step(state)
<1> DEFINE T == transitions(state)
<1>1. PICK i \in 1..Len(T) :
          /\ Fires(i)
          /\ do(T[i].action)
          /\ state' = T[i].next
  BY DEF process
<1>2. T[i].guard
  BY <1>1 DEF Fires
<1>3. state \in Status
  BY DEF IInv, TypeOK
<1>4. CASE state = "E"
  <2>1. T = << Row(is_initial, "do_stop_pwm", "A") >>
    BY <1>4 DEF transitions
  <2>2. i = 1
    BY <2>1
  <2> QED
    BY <1>1, <1>4, <2>1, <2>2 DEF Row, do, Step
<1>5. CASE state = "A"
  <2>1. T = <<
            Row(connector_is_state_x("B"), "do_start_pwm", "B"),
            Row(connector_is_state_x("C"), "do_unexpected", "F"),
            Row(connector_is_state_x("D"), "do_unexpected", "F"),
            Row(connector_is_state_x("E"), "do_unexpected", "F"),
            Row(is_state_f, "do_evse_error", "F") >>
    BY <1>5 DEF transitions
  <2>2. i \in 1..5
    BY <2>1
  <2>3. CASE i = 1
    <3>1. connector_is_state_x("B")
      BY <1>2, <2>1, <2>3 DEF Row
    <3>2. pilot = "B"
      BY <3>1 DEF connector_is_state_x, iec61851_state
    <3> QED
      BY <1>1, <1>5, <2>1, <2>3, <3>2 DEF Row, do, Step
  <2>4. CASE i \in 2..5
    BY <1>1, <1>5, <2>1, <2>4 DEF Row, do, Step
  <2> QED
    BY <2>2, <2>3, <2>4
<1>6. CASE state = "B"
  <2>1. T = <<
            Row(connector_is_state_x("A"), "do_stop_pwm", "A"),
            Row(connector_is_state_x2("C"), "do_supply_power", "C"),
            Row(connector_is_state_x2("D"), "do_supply_power", "D"),
            Row(connector_is_state_x("E"), "do_ev_error", "F"),
            Row(is_state_f, "do_evse_error", "F") >>
    BY <1>6 DEF transitions
  <2>2. i \in 1..5
    BY <2>1
  <2>3. CASE i = 2
    <3>1. connector_is_state_x2("C")
      BY <1>2, <2>1, <2>3 DEF Row
    <3>2. pilot = "C"
      BY <3>1 DEF connector_is_state_x2, iec61851_state
    <3> QED
      BY <1>1, <1>6, <2>1, <2>3, <3>2 DEF Row, do, Step
  <2>4. CASE i = 3
    <3>1. connector_is_state_x2("D")
      BY <1>2, <2>1, <2>4 DEF Row
    <3>2. pilot = "D"
      BY <3>1 DEF connector_is_state_x2, iec61851_state
    <3> QED
      BY <1>1, <1>6, <2>1, <2>4, <3>2 DEF Row, do, Step
  <2>5. CASE i \in {1, 4, 5}
    BY <1>1, <1>6, <2>1, <2>5 DEF Row, do, Step
  <2> QED
    BY <2>2, <2>3, <2>4, <2>5
<1>7. CASE state \in {"C", "D"}
  <2> DEFINE other == IF state = "C" THEN "D" ELSE "C"
  <2>1. T = <<
            Row(connector_is_state_x("A"), "do_stop_all", "A"),
            Row(connector_is_state_x("B"), "do_stop_power", "B"),
            Row(connector_is_state_x(other), "null", other),
            Row(connector_is_state_x("E"), "do_ev_error", "F"),
            Row(is_state_f, "do_evse_error", "F") >>
    BY <1>7 DEF transitions
  <2>2. i \in 1..5 /\ other \in {"C", "D"}
    BY <2>1
  <2> HIDE DEF other
  <2> QED
    BY <1>1, <1>7, <2>1, <2>2 DEF Row, do, Step
<1>8. CASE state = "F"
  <2>1. T = <<
            Row(connector_is_state_x("A"), "do_unexpected", "F"),
            Row(connector_is_state_x("B"), "do_unexpected", "F"),
            Row(connector_is_state_x("C"), "do_unexpected", "F"),
            Row(connector_is_state_x("D"), "do_unexpected", "F"),
            Row(connector_is_state_x("E"), "do_unexpected", "F"),
            Row(is_recovered, "do_stop_pwm", "A") >>
    BY <1>8 DEF transitions
  <2>2. i \in 1..6
    BY <2>1
  <2>3. iec61851_state = "F"
    BY <1>8 DEF IInv, DutyFollowsState, iec61851_state
  <2>4. \A x \in {"A", "B", "C", "D", "E"} : ~connector_is_state_x(x)
    BY <2>3 DEF connector_is_state_x
  <2>5. ASSUME i # 6 PROVE FALSE
    <3>1. \E x \in {"A", "B", "C", "D", "E"} :
              T[i].guard = connector_is_state_x(x)
      BY <2>1, <2>2, <2>5 DEF Row
    <3> QED
      BY <1>2, <2>4, <3>1
  <2> QED
    BY <1>1, <1>8, <2>1, <2>5 DEF Row, do, Step
<1> QED
  BY <1>3, <1>4, <1>5, <1>6, <1>7, <1>8 DEF Status

-----------------------------------------------------------------------------
(* The inductive invariant *)

\* The invariant holds when the connector is initialised.
LEMMA InitInv == Init => IInv
BY DEF Init, LineInit, IInv, TypeOK, LineTypeOK, Status, Duty,
       DutyFollowsState, RelayFollowsState

\* Everything a row does keeps the duty and the relay in step with the state.
LEMMA ProcessInv ==
    ASSUME IInv, process
    PROVE  IInv'
<1>1. Step(state)
  BY ProcessStep
<1>2. since' \in {"new", "settled", "timeout"} /\ UNCHANGED <<pilot, actual, failing, uptime>>
  BY DEF process, IInv, TypeOK
<1>3. TypeOK'
  <2>1. state' \in Status
    BY <1>1 DEF Step, IInv, TypeOK, Status
  <2>2. target' \in Duty
    BY <1>1 DEF Step, IInv, TypeOK, LineTypeOK, Duty, do_stop_pwm,
       do_start_pwm, do_supply_power, do_stop_power, do_stop_all, do_unexpected,
       do_error, do_evse_error, do_ev_error
  <2>3. relay' \in BOOLEAN
    BY <1>1 DEF Step, IInv, TypeOK, LineTypeOK, do_stop_pwm,
       do_start_pwm, do_supply_power, do_stop_power, do_stop_all, do_unexpected,
       do_error, do_evse_error, do_ev_error
  <2>4. error' \in {"none", "ev", "evse", "emergency"}
    BY <1>1 DEF Step, IInv, TypeOK, do_stop_pwm,
       do_start_pwm, do_supply_power, do_stop_power, do_stop_all, do_unexpected,
       do_error, do_evse_error, do_ev_error
  <2> QED
    BY <1>2, <2>1, <2>2, <2>3, <2>4 DEF IInv, TypeOK, LineTypeOK
<1>4. DutyFollowsState'
  BY <1>1 DEF Step, IInv, DutyFollowsState, do_stop_pwm,
     do_start_pwm, do_supply_power, do_stop_power, do_stop_all, do_unexpected,
     do_error, do_evse_error, do_ev_error
<1>5. RelayFollowsState'
  BY <1>1 DEF Step, IInv, RelayFollowsState, do_stop_pwm,
     do_start_pwm, do_supply_power, do_stop_power, do_stop_all, do_unexpected,
     do_error, do_evse_error, do_ev_error
<1> QED
  BY <1>3, <1>4, <1>5 DEF IInv

\* What happens on the pilot line and at the safety inputs keeps it.
LEMMA LineInv ==
    ASSUME IInv, Line
    PROVE  IInv'
<1>1. UNCHANGED <<target, relay, state, error, since, uptime>>
  BY DEF Line, LineNext, PilotChange, DutyMeasured, SafetyChange
<1>2. pilot' \in Status
  BY PilotAssumption
     DEF IInv, TypeOK, LineTypeOK, Line, LineNext, PilotChange, DutyMeasured,
         SafetyChange
<1>3. actual' \in Duty
  BY DEF IInv, TypeOK, LineTypeOK, Line, LineNext, PilotChange, DutyMeasured,
         SafetyChange
<1>4. failing' \subseteq {"ip", "op", "es"}
  BY SafetyAssumption
     DEF IInv, TypeOK, LineTypeOK, Line, LineNext, PilotChange, DutyMeasured,
         SafetyChange
<1> QED
  BY <1>1, <1>2, <1>3, <1>4
     DEF IInv, TypeOK, LineTypeOK, DutyFollowsState, RelayFollowsState

\* So does the passing of time.
LEMMA ElapseInv ==
    ASSUME IInv, Elapse
    PROVE  IInv'
BY DEF IInv, Elapse, lineVars, TypeOK, LineTypeOK, DutyFollowsState,
       RelayFollowsState

\* So does doing nothing.
LEMMA StutterInv ==
    ASSUME IInv, UNCHANGED vars
    PROVE  IInv'
BY DEF IInv, vars, lineVars, TypeOK, LineTypeOK, DutyFollowsState,
       RelayFollowsState

\* The inductive invariant holds in every reachable state.
THEOREM Invariance == Spec => []IInv
<1>1. IInv /\ [Next]_vars => IInv'
  BY ProcessInv, ElapseInv, LineInv, StutterInv DEF Next
<1> QED
  BY InitInv, <1>1, PTL DEF Spec

\* Every variable keeps its type, for every set of constants.
THEOREM TypeCorrect == Spec => []TypeOK
<1>1. IInv => TypeOK
  BY DEF IInv
<1> QED
  BY Invariance, <1>1, PTL

\* The relay is closed exactly in C and D, and then current is offered:
\* do_unexpected and do_supply_power may rely on the state they are called in.
THEOREM PowerSafe == Spec => []PowerExactlyInCD
<1>1. IInv => PowerExactlyInCD
  BY DEF IInv, TypeOK, LineTypeOK, PowerExactlyInCD, DutyFollowsState,
         RelayFollowsState
<1> QED
  BY Invariance, <1>1, PTL

\* State F drives the pilot to the fault level.
THEOREM FaultDriven == Spec => []FaultIsDriven
<1>1. IInv => FaultIsDriven
  BY DEF IInv, FaultIsDriven, DutyFollowsState, iec61851_state
<1> QED
  BY Invariance, <1>1, PTL

-----------------------------------------------------------------------------
\* The connector implements PowerSupply: every row, and everything that
\* happens beside the machine, is a step of it or leaves it unchanged.
THEOREM Refinement == Spec => KeepsPowerPromise
<1>1. Init => Promise!Init
  BY DEF Init, LineInit, Promise!Init
<1>2. ASSUME IInv, [Next]_vars
      PROVE  [Promise!Next]_<<pilot, target = "pwm", relay>>
  <2>1. CASE process
    <3>1. Step(state) /\ pilot' = pilot
      BY <1>2, <2>1, ProcessStep DEF process
    <3> QED
      BY <1>2, <3>1 DEF Step, IInv, TypeOK, LineTypeOK, DutyFollowsState,
         RelayFollowsState, do_stop_pwm, do_start_pwm, do_supply_power,
         do_stop_power, do_stop_all, do_unexpected, do_error, do_evse_error,
         do_ev_error, Promise!Next, Promise!Vehicle, Promise!Offer,
         Promise!Close, Promise!Open, Promise!Withdraw
  <2>2. CASE Line
    BY <2>2 DEF Line, LineNext, PilotChange, DutyMeasured, SafetyChange,
       Promise!Next, Promise!Vehicle
  <2>3. CASE Elapse
    BY <2>3 DEF Elapse, lineVars
  <2>4. CASE UNCHANGED vars
    BY <2>4 DEF vars, lineVars
  <2> QED
    BY <1>2, <2>1, <2>2, <2>3, <2>4 DEF Next
<1> QED
  BY Invariance, <1>1, <1>2, PTL DEF Spec, KeepsPowerPromise, Promise!Spec
=============================================================================
