---------------------------- MODULE ControlPilot ----------------------------
(***************************************************************************)
(* The line between the charger and the vehicle as the connectors see it:  *)
(* connector.c on top of iec61851.c.  The vehicle shows itself as a pilot  *)
(* status, the charger answers with a pilot duty and with the relay that   *)
(* closes the power circuit, and the safety entries ("ip" input power,     *)
(* "op" output power, "es" emergency stop) report whether the line is      *)
(* sound.  FreeConnector and OcppConnector are both built on it.           *)
(*                                                                         *)
(* A duty is abstracted to what the code tells apart: "zero" (0 %, a       *)
(* constant -12 V), "idle" (100 %, a constant +12 V) and "pwm" (anything   *)
(* between, which offers current to the vehicle).                          *)
(***************************************************************************)
EXTENDS Naturals

CONSTANTS
    PilotStatus,   \* the statuses pilot_status() may report
    SafetyEntry    \* the safety entries that may fail

Status == {"A", "B", "C", "D", "E", "F"}

ASSUME PilotAssumption == PilotStatus \subseteq Status
ASSUME SafetyAssumption == SafetyEntry \subseteq {"ip", "op", "es"}

VARIABLES
    pilot,    \* the last status measured on the pilot line
    target,   \* the duty the charger drives (pilot_duty_pct)
    actual,   \* the duty last measured back (pilot_duty)
    relay,    \* is_supplying_power
    failing   \* the safety entries whose status is not OK

lineVars == <<pilot, target, actual, relay, failing>>

Duty == {"zero", "idle", "pwm"}

LineTypeOK ==
    /\ pilot \in Status
    /\ target \in Duty
    /\ actual \in Duty
    /\ relay \in BOOLEAN
    /\ failing \subseteq {"ip", "op", "es"}

\* Power-up: the structures are zeroed and pilot_enable() starts the PWM at
\* 0 %, so the first status measured is F and the relay is open.
LineInit ==
    /\ pilot = "F"
    /\ target = "zero"
    /\ actual = "zero"
    /\ relay = FALSE
    /\ failing = {}

-----------------------------------------------------------------------------
(* What the connectors read. *)

\* A duty of zero is reported as state F whatever is measured.
iec61851_state == IF target = "zero" THEN "F" ELSE pilot

connector_is_state_x(s) == iec61851_state = s

connector_is_state_x2(s) == iec61851_state = s /\ target = "pwm"

connector_is_occupied_state(s) == s \in {"B", "C", "D"}

is_input_power_ok == "ip" \notin failing
is_output_power_ok == "op" \notin failing
is_emergency_stop == "es" \in failing

\* Mutant: the emergency stop is not looked at.
evse_error_without_emergency(state, stabilized, settled) ==
    \/ target = "zero"
    \/ ~is_input_power_ok /\ stabilized
    \/ state \in {"C", "D"} /\ ~is_output_power_ok /\ settled
    \/ iec61851_state \in {"E", "F"}

\* state is the connector state the caller is in, stabilized says that the
\* charger has been up, and settled that it has been in that state, for
\* longer than INITIAL_STABILIZATION_SEC.
connector_is_evse_error(state, stabilized, settled) ==
    \/ target = "zero"
    \/ ~is_input_power_ok /\ stabilized
    \/ is_emergency_stop
    \/ state \in {"C", "D"} /\ ~is_output_power_ok /\ settled
    \/ iec61851_state \in {"E", "F"}

-----------------------------------------------------------------------------
(* What happens on the line by itself. *)

\* The vehicle or the cable changes and the next waveform is classified.
PilotChange ==
    /\ \E p \in PilotStatus \ {pilot} : pilot' = p
    /\ UNCHANGED <<target, actual, relay, failing>>

\* A scan of the pilot catches up with the duty that is driven.
DutyMeasured ==
    /\ actual # target
    /\ actual' = target
    /\ UNCHANGED <<pilot, target, relay, failing>>

\* A safety entry fails or recovers.
SafetyChange ==
    /\ \E e \in SafetyEntry :
          failing' = IF e \in failing THEN failing \ {e} ELSE failing \cup {e}
    /\ UNCHANGED <<pilot, target, actual, relay>>

LineNext == PilotChange \/ DutyMeasured \/ SafetyChange
=============================================================================
