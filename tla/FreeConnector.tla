---------------------------- MODULE FreeConnector ----------------------------
(***************************************************************************)
(* The connector that charges without a backend (free_connector.c): a      *)
(* state machine over the IEC 61851 states, stepped by charger_process().  *)
(* One step of the machine takes the first row of the current state whose  *)
(* guard holds (fsm_step of libmcu).                                       *)
(***************************************************************************)
EXTENDS ControlPilot, Sequences

VARIABLES
    state,    \* the state of the machine
    error,    \* connector_error()
    since,    \* how long ago the state changed: "new" (at most 2 s),
              \* "settled" (over 2 s), "timeout" (6 s or more)
    uptime    \* the charger has been up for more than 2 s

vars == <<lineVars, state, error, since, uptime>>

Init ==
    /\ LineInit
    /\ state = "E"
    /\ error = "none"
    /\ since = "new"
    /\ uptime = FALSE

-----------------------------------------------------------------------------
(* Guards *)

is_initial == state = "E" /\ target = "zero" /\ actual = "zero"

is_state_f == connector_is_evse_error(state, uptime, since # "new")

\* Mutant: waits for the vehicle to be unplugged as well.
recovered_when_unplugged ==
    /\ is_input_power_ok /\ ~is_emergency_stop /\ since = "timeout"
    /\ pilot = "A"

is_recovered == is_input_power_ok /\ ~is_emergency_stop /\ since = "timeout"

Row(guard, action, next) == [guard |-> guard, action |-> action, next |-> next]

\* The rows of a state, in the order in which they are tried.
transitions(s) ==
    CASE s = "E" -> << Row(is_initial, "do_stop_pwm", "A") >>
      [] s = "A" -> <<
            Row(connector_is_state_x("B"), "do_start_pwm", "B"),
            Row(connector_is_state_x("C"), "do_unexpected", "F"),
            Row(connector_is_state_x("D"), "do_unexpected", "F"),
            Row(connector_is_state_x("E"), "do_unexpected", "F"),
            Row(is_state_f, "do_evse_error", "F") >>
      [] s = "B" -> <<
            Row(connector_is_state_x("A"), "do_stop_pwm", "A"),
            Row(connector_is_state_x2("C"), "do_supply_power", "C"),
            Row(connector_is_state_x2("D"), "do_supply_power", "D"),
            Row(connector_is_state_x("E"), "do_ev_error", "F"),
            Row(is_state_f, "do_evse_error", "F") >>
      [] s \in {"C", "D"} -> <<
            Row(connector_is_state_x("A"), "do_stop_all", "A"),
            Row(connector_is_state_x("B"), "do_stop_power", "B"),
            Row(connector_is_state_x(IF s = "C" THEN "D" ELSE "C"), "null",
                IF s = "C" THEN "D" ELSE "C"),
            Row(connector_is_state_x("E"), "do_ev_error", "F"),
            Row(is_state_f, "do_evse_error", "F") >>
      [] s = "F" -> <<
            Row(connector_is_state_x("A"), "do_unexpected", "F"),
            Row(connector_is_state_x("B"), "do_unexpected", "F"),
            Row(connector_is_state_x("C"), "do_unexpected", "F"),
            Row(connector_is_state_x("D"), "do_unexpected", "F"),
            Row(connector_is_state_x("E"), "do_unexpected", "F"),
            Row(is_recovered, "do_stop_pwm", "A") >>

-----------------------------------------------------------------------------
(* Actions of the rows *)

do_stop_pwm == target' = "idle" /\ UNCHANGED <<relay, error>>

do_start_pwm == target' = "pwm" /\ UNCHANGED <<relay, error>>

do_supply_power == relay' = TRUE /\ UNCHANGED <<target, error>>

\* Mutant: forgets the relay.
stop_power_keeps_relay == UNCHANGED <<target, relay, error>>

do_stop_power == relay' = FALSE /\ UNCHANGED <<target, error>>

\* Mutant: stops the pilot only.
stop_all_keeps_relay == target' = "idle" /\ UNCHANGED <<relay, error>>

do_stop_all == relay' = FALSE /\ target' = "idle" /\ UNCHANGED error

do_unexpected == target' = "zero" /\ error' = "evse" /\ UNCHANGED relay

\* Mutant: does not drive the pilot to the fault level.
error_keeps_pilot == relay' = FALSE /\ UNCHANGED target

do_error == relay' = FALSE /\ target' = "zero"

do_evse_error ==
    /\ do_error
    /\ error' = IF is_emergency_stop THEN "emergency" ELSE "evse"

do_ev_error == do_error /\ error' = "ev"

do(action) ==
    \/ action = "do_stop_pwm" /\ do_stop_pwm
    \/ action = "do_start_pwm" /\ do_start_pwm
    \/ action = "do_supply_power" /\ do_supply_power
    \/ action = "do_stop_power" /\ do_stop_power
    \/ action = "do_stop_all" /\ do_stop_all
    \/ action = "do_unexpected" /\ do_unexpected
    \/ action = "do_evse_error" /\ do_evse_error
    \/ action = "do_ev_error" /\ do_ev_error
    \/ action = "null" /\ UNCHANGED <<target, relay, error>>

-----------------------------------------------------------------------------
(* Steps *)

Fires(i) ==
    /\ transitions(state)[i].guard
    /\ \A j \in 1..(i-1) : ~transitions(state)[j].guard

\* connector_process(): one step of the machine, and on_state_change().
process ==
    /\ \E i \in 1..Len(transitions(state)) :
          /\ Fires(i)
          /\ do(transitions(state)[i].action)
          /\ state' = transitions(state)[i].next
    /\ since' = IF state' = state THEN since ELSE "new"
    /\ UNCHANGED <<pilot, actual, failing, uptime>>

\* Seconds pass.
Elapse ==
    /\ \/ since = "new" /\ since' = "settled" /\ uptime' = uptime
       \/ since = "settled" /\ since' = "timeout" /\ uptime' = uptime
       \/ ~uptime /\ uptime' = TRUE /\ since' = since
    /\ UNCHANGED <<lineVars, state, error>>

Line == LineNext /\ UNCHANGED <<state, error, since, uptime>>

Next == process \/ Elapse \/ Line

Spec == Init /\ [][Next]_vars

\* The runner calls charger_process() every 50 ms, the pilot is scanned every
\* 10 ms and time goes on: each is taken again and again as long as it can be.
FairSpec ==
    /\ Spec
    /\ WF_vars(process)
    /\ WF_vars(Elapse)
    /\ WF_vars(DutyMeasured /\ UNCHANGED <<state, error, since, uptime>>)

-----------------------------------------------------------------------------
(* Properties *)

\* Every variable of the connector has a value the code can give it.
TypeOK ==
    /\ LineTypeOK
    /\ state \in Status
    /\ error \in {"none", "ev", "evse", "emergency"}
    /\ since \in {"new", "settled", "timeout"}
    /\ uptime \in BOOLEAN

\* The relay is closed exactly in the states C and D, and only while the
\* pilot offers current: do_supply_power, do_stop_power, do_stop_all and
\* do_error between them leave no way out of C and D with the relay closed,
\* although do_unexpected, on the way to F, does not touch it.
PowerExactlyInCD ==
    /\ relay <=> state \in {"C", "D"}
    /\ relay => target = "pwm"

\* A fault is shown to the vehicle for as long as it lasts: state F always
\* drives the pilot to -12 V, so the rows of F for the states A to E, which
\* would restart nothing and count an unexpected change, never fire.
FaultIsDriven == state = "F" => target = "zero" /\ iec61851_state = "F"

\* What PowerSupply promises, kept by this connector.
Promise == INSTANCE PowerSupply
    WITH ev <- pilot, offered <- target = "pwm", closed <- relay
KeepsPowerPromise == Promise!Spec

\* An emergency stop that stays pressed ends with the relay open, provided
\* the vehicle does not alternate between C and D for ever: the rows C to D
\* and D to C come before the one for an EVSE error.
EmergencyOpensRelay ==
    <>[][pilot' = pilot]_pilot
        => (relay /\ is_emergency_stop ~> ~relay \/ ~is_emergency_stop)

\* A fault is left again, by is_recovered, once the input power is good, the
\* emergency stop is released and IEC61851_EV_RESPONSE_TIMEOUT_SEC is over.
FaultRecovers ==
    <>[](is_input_power_ok /\ ~is_emergency_stop) => (state = "F" ~> state # "F")
=============================================================================
