------------------------------- MODULE Relay --------------------------------
(***************************************************************************)
(* The driver of the relay: src/relay.c.  The relay is picked up with a    *)
(* high duty; a one-shot timer lowers the duty to what holds it.  The      *)
(* timer runs on_hold_timeout() in a thread of its own: each call that     *)
(* relay_turn_on() and relay_turn_off() make is a step, and the callback   *)
(* can have been entered before the timer is stopped.                      *)
(*                                                                         *)
(* The drivers of the PWM channel and of the timer are not part of the     *)
(* repository.  What lm_pwm_update_duty() does to a stopped channel is     *)
(* left open: it stays off or comes back on.                               *)
(***************************************************************************)
EXTENDS Naturals

VARIABLES
    pwm,       \* the duty of the channel: 0 when it is stopped
    timer,     \* the one-shot timer is armed
    entered,   \* the timer's thread has entered on_hold_timeout()
    caller,    \* the next call of the function that is under way
    want,      \* what the last function called is to achieve
    late       \* on_hold_timeout() was entered before the last function stopped the timer

relayVars == <<pwm, timer, entered, caller, want, late>>

PickupMin == 75
PickupDefault == PickupMin + 10
HoldMin == 42

AtLeast(pct, min) == IF pct < min THEN min ELSE pct

\* relay_turn_on(): turn_on_ext() with the default pickup duty.  Of
\* relay_turn_on_ext() the duty may be any; the least one is as good as any.
relay_turn_on ==
    /\ caller = "idle"
    /\ \E pickup_pct \in {0, PickupDefault} : pwm' = AtLeast(pickup_pct, PickupMin)
    /\ caller' = "on_stop"
    /\ want' = TRUE
    /\ late' = entered
    /\ UNCHANGED <<timer, entered>>

turn_on_stop ==
    /\ caller = "on_stop"
    /\ timer' = FALSE
    /\ late' = (late \/ entered)
    /\ caller' = "on_start"
    /\ UNCHANGED <<pwm, entered, want>>

turn_on_start ==
    /\ caller = "on_start"
    /\ timer' = TRUE
    /\ caller' = "idle"
    /\ UNCHANGED <<pwm, entered, want, late>>

turn_on_ext == relay_turn_on \/ turn_on_stop \/ turn_on_start

\* Mutant: leaves the timer running.
turn_off_PwmOnly ==
    /\ caller = "idle"
    /\ pwm' = 0
    /\ want' = FALSE
    /\ late' = entered
    /\ UNCHANGED <<timer, entered, caller>>

\* relay_turn_off(): the timer first, then the channel.
turn_off_stop ==
    /\ caller = "idle"
    /\ timer' = FALSE
    /\ late' = entered
    /\ want' = FALSE
    /\ caller' = "off_pwm"
    /\ UNCHANGED <<pwm, entered>>

turn_off_pwm ==
    /\ caller = "off_pwm"
    /\ pwm' = 0
    /\ caller' = "idle"
    /\ UNCHANGED <<timer, entered, want, late>>

relay_turn_off == turn_off_stop \/ turn_off_pwm

\* The timer expires: its thread enters the callback.
TimerExpires ==
    /\ timer
    /\ timer' = FALSE
    /\ entered' = TRUE
    /\ UNCHANGED <<pwm, caller, want, late>>

\* hold_duty_pct is never set, so the least holding duty is used.
HoldDuty == AtLeast(0, HoldMin)

on_hold_timeout ==
    /\ entered
    /\ entered' = FALSE
    /\ pwm' \in IF pwm = 0 THEN {0, HoldDuty} ELSE {HoldDuty}
    /\ late' = (late \/ caller # "idle")
    /\ UNCHANGED <<timer, caller, want>>

RelayInit ==
    /\ pwm = 0
    /\ timer = FALSE
    /\ entered = FALSE
    /\ caller = "idle"
    /\ want = FALSE
    /\ late = FALSE

RelayNext == turn_on_ext \/ relay_turn_off \/ TimerExpires \/ on_hold_timeout

\* The threads run: a call that is under way goes on, the timer expires and
\* its callback ends.  Nobody has to turn the relay on or off.
RelayFairness ==
    /\ WF_relayVars(turn_on_stop \/ turn_on_start \/ turn_off_pwm)
    /\ WF_relayVars(TimerExpires)
    /\ WF_relayVars(on_hold_timeout)

RelaySpec == RelayInit /\ [][RelayNext]_relayVars /\ RelayFairness

-----------------------------------------------------------------------------
(* Properties *)

\* The variables keep their types.
RelayTypeOK ==
    /\ pwm \in {0, HoldMin, PickupMin, PickupDefault}
    /\ timer \in BOOLEAN /\ entered \in BOOLEAN
    /\ want \in BOOLEAN /\ late \in BOOLEAN
    /\ caller \in {"idle", "on_stop", "on_start", "off_pwm"}

\* Once relay_turn_off() has returned the timer is stopped and the channel is
\* off, unless on_hold_timeout() had been entered when the timer was stopped: then
\* its update of the duty comes after the stop of the channel.
OffIsOff == caller = "idle" /\ ~want => ~timer /\ (pwm # 0 => late)

\* The relay is held only after it has been picked up for the whole delay: a
\* lower duty while the timer of this pickup runs comes from a callback of the
\* pickup before it.
PickedUpFirst == want /\ timer /\ caller = "idle" /\ pwm < PickupMin => late

\* A relay that is turned on and left on ends up held, whatever the callback
\* of an earlier pickup does.
LeftOn == want /\ caller = "idle"
Held == pwm = HoldDuty
EventuallyHeld == <>[]LeftOn => <>[]Held

\* relay.c switches the relay off, and from pick-up to hold no sooner than it
\* may, whatever the timer thread does in between but for the race above.
RelayFollows == RelayTypeOK /\ OffIsOff /\ PickedUpFirst
=============================================================================
