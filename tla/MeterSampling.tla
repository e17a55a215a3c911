--------------------------- MODULE MeterSampling ----------------------------
(***************************************************************************)
(* When the OCPP connector sends meter values: send_metering()             *)
(* (charger/ocpp/ocpp_connector.c) with the two conditions of              *)
(* ocpp_connector_internal.c, one for a sample every so many seconds and   *)
(* one for a sample whenever the clock is at a multiple of so many.  Both  *)
(* go by the clock, which the CSMS sets (app_adjust_time_on_drift()), in   *)
(* rounds of the charger's thread that can come late.                      *)
(*                                                                         *)
(* now       the clock, in seconds; while it stands still many rounds run; *)
(* conf      MeterValueSampleInterval and ClockAlignedDataInterval;        *)
(* session   charging or not, and the two times of struct session_metering *)
(*           (0 at the start of a session: the first samples are due);     *)
(* seen      history: whether a round ran since the clock moved or a       *)
(*           setting changed, the seconds without one (late), whether the  *)
(*           session has no periodic sample yet (first), the seconds that  *)
(*           really passed since the last one, by how much the clock was   *)
(*           set back and forward meanwhile, and the aligned samples sent  *)
(*           in this second.                                               *)
(***************************************************************************)
EXTENDS Integers

CONSTANTS
    Intervals,      \* the values of the two settings; 0 is never
    MaxTime,        \* bound: the clock
    MaxLate,        \* bound: seconds without a round
    MaxSteps        \* bound: changes of the settings and of the clock

ASSUME SamplingAssumption ==
    /\ Intervals \subseteq Nat /\ MaxTime \in Nat
    /\ MaxLate \in Nat \ {0} /\ MaxSteps \in Nat

VARIABLES now, conf, session, seen, changes

samplingVars == <<now, conf, session, seen, changes>>

(* struct session_metering, as far as it says when. *)
SessionMetering ==
    [state : {"none", "Charging", "SuspendedEV"},
     time_sample_periodic : 0..MaxTime, time_clock_periodic : 0..MaxTime]

ClearedSession ==
    [state |-> "none", time_sample_periodic |-> 0, time_clock_periodic |-> 0]

Unseen == [round |-> FALSE, late |-> 0, first |-> TRUE, since |-> 0,
           back |-> 0, forward |-> 0, aligned |-> 0]

\* Mutant: late by one.
SampleDue_Late(timestamp, interval) == interval # 0 /\ now > timestamp + interval

(* The condition of update_metering_core(). *)
SampleDue(timestamp, interval) == interval # 0 /\ now >= timestamp + interval

ocpp_connector_update_metering == SampleDue(session.time_sample_periodic, conf.sample)

update_metering_clock_aligned ==
    /\ conf.clock # 0 /\ now % conf.clock = 0
    /\ SampleDue(session.time_clock_periodic, conf.clock)

send_metering ==
    LET periodic == ocpp_connector_update_metering
        aligned == update_metering_clock_aligned
    IN /\ session' = [session EXCEPT
                        !.state = "Charging",
                        !.time_sample_periodic = IF periodic THEN now ELSE @,
                        !.time_clock_periodic = IF aligned THEN now ELSE @]
       /\ seen' = [seen EXCEPT
                     !.round = TRUE, !.late = 0,
                     !.first = @ /\ ~periodic,
                     !.since = IF periodic THEN 0 ELSE @,
                     !.back = IF periodic THEN 0 ELSE @,
                     !.forward = IF periodic THEN 0 ELSE @,
                     !.aligned = IF aligned THEN @ + 1 ELSE @]

-----------------------------------------------------------------------------
(* do_charging() from Preparing turns the duty cycle on and returns. *)
ChargingStarts ==
    /\ session.state = "none"
    /\ session' = [session EXCEPT !.state = "Charging"]
    /\ seen' = Unseen
    /\ UNCHANGED <<now, conf, changes>>

(* A round in Charging, or the one that returns from SuspendedEV. *)
do_charging ==
    /\ session.state \in {"Charging", "SuspendedEV"}
    /\ send_metering
    /\ UNCHANGED <<now, conf, changes>>

do_suspendedEV ==
    /\ session.state = "Charging"
    /\ session' = [session EXCEPT !.state = "SuspendedEV"]
    /\ UNCHANGED <<now, conf, seen, changes>>

(* ocpp_connector_clear_session() at the end of do_finishing(). *)
do_finishing ==
    /\ session.state # "none"
    /\ session' = ClearedSession
    /\ seen' = Unseen
    /\ UNCHANGED <<now, conf, changes>>

Second ==
    /\ now < MaxTime
    /\ now' = now + 1
    /\ session.state = "Charging" => seen.round \/ seen.late < MaxLate
    /\ seen' = IF session.state = "none" THEN seen
               ELSE [seen EXCEPT
                  !.round = FALSE, !.aligned = 0,
                  !.late = IF session.state = "Charging" THEN @ + 1 ELSE 0,
                  !.since = @ + 1]
    /\ UNCHANGED <<conf, session, changes>>

Changes == changes > 0 /\ changes' = changes - 1

(* app_adjust_time_on_drift() *)
ClockSet ==
    /\ Changes
    /\ \E t \in 1..MaxTime \ {now} :
         /\ now' = t
         /\ seen' = [seen EXCEPT
                       !.round = FALSE, !.aligned = 0,
                       !.back = IF t < now THEN @ + (now - t) ELSE @,
                       !.forward = IF t > now THEN @ + (t - now) ELSE @]
    /\ UNCHANGED <<conf, session>>

ChangeConfiguration ==
    /\ Changes
    /\ \E i \in Intervals :
         conf' \in {[conf EXCEPT !.sample = i], [conf EXCEPT !.clock = i]}
    /\ seen' = [seen EXCEPT !.round = FALSE]
    /\ UNCHANGED <<now, session>>

-----------------------------------------------------------------------------
SamplingInit ==
    /\ now = 1
    /\ conf \in [sample : Intervals, clock : Intervals]
    /\ session = ClearedSession
    /\ seen = Unseen
    /\ changes = MaxSteps

SamplingNext ==
    \/ ChargingStarts \/ do_charging \/ do_suspendedEV \/ do_finishing
    \/ Second \/ ClockSet \/ ChangeConfiguration

SamplingSpec == SamplingInit /\ [][SamplingNext]_samplingVars

(* The variables keep their types. *)
SamplingTypeOK ==
    /\ now \in 1..MaxTime
    /\ conf \in [sample : Intervals, clock : Intervals]
    /\ session \in SessionMetering
    /\ seen \in [round : BOOLEAN, late : 0..(MaxLate + 1), first : BOOLEAN,
                 since : 0..(MaxTime * (MaxSteps + 1)), back : Nat, forward : Nat,
                 aligned : Nat]
    /\ changes \in 0..MaxSteps

(* After a round the last periodic sample is less than its interval old,   *)
(* plus the time by which the clock was set back since, for which sampling *)
(* pauses, and minus the time it was set forward; and a session that has   *)
(* none is only possible while the clock counts from 0 and has not reached *)
(* the interval: the times of the session before do not hold it up.        *)
SamplesInTime ==
    session.state = "Charging" /\ seen.round /\ conf.sample # 0 =>
        IF seen.first THEN now < conf.sample
        ELSE seen.since < conf.sample + seen.back - seen.forward

(* Of the rounds in one second, which all find the clock at a multiple of  *)
(* the interval, one sends the aligned sample.                             *)
AlignedOnce == seen.aligned <= 1

(* As long as neither the clock nor a setting is changed, no multiple of   *)
(* the interval goes by without its sample if a round ran in that second;  *)
(* one without a round is left out for good.                               *)
EverySlot ==
    [][Second /\ changes = MaxSteps /\ session.state = "Charging" /\ seen.round
         /\ conf.clock # 0 /\ now % conf.clock = 0
       => seen.aligned = 1]_samplingVars

\* A session that charges is sampled as configured: periodic samples in time,
\* clock-aligned ones at every slot and only once.
SampledAsSet == [](SamplingTypeOK /\ SamplesInTime /\ AlignedOnce) /\ EverySlot
=============================================================================
