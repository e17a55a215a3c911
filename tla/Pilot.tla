-------------------------------- MODULE Pilot --------------------------------
(***************************************************************************)
(* The control pilot driver: src/pilot.c.  A timer measures one cycle of   *)
(* the pilot signal every ten milliseconds; the highest and the lowest     *)
(* voltage that are not outliers give the status, with a hysteresis; the   *)
(* result is copied to one of three buffers, from which pilot_error(),     *)
(* pilot_millivolt() and the like read without a lock.  The callback of a  *)
(* timer that has not returned may be entered again in another thread, as  *)
(* the timers of ports/host/apptmr.c do.                                   *)
(*                                                                         *)
(* A half-cycle has four samples instead of up to 500: the level, except   *)
(* for one sample, the first or another one, that may be off.  The share   *)
(* of high samples is kept as the duty of the PWM when it was measured.    *)
(* Times are in intervals of the timer.                                    *)
(***************************************************************************)
EXTENDS Integers, Sequences, FiniteSets, FiniteSetsExt

CONSTANTS
    Highs,          \* levels of the high half-cycle, in mV
    Lows,           \* levels of the low half-cycle
    Duties,         \* duties of the PWM, in percent
    Timers,         \* threads that run callbacks of the timer
    MaxAdcErrors    \* measurements that may fail

ASSUME PilotAssumption ==
    /\ Highs \subseteq 2197..3100 /\ Lows \subseteq 200..1796
    /\ Duties \subseteq 0..100
    /\ MaxAdcErrors \in Nat

VARIABLES
    duty_pct,   \* what the PWM drives
    cb,         \* of each timer thread: pc, prev_status, bad: a first sample was off
    running,
    measured,   \* the waveform the callbacks share
    cached,     \* slot: the buffer in use, view: what it holds
    status,
    age,        \* intervals since timestamp was set, and since a measurement;
                \* skipped: the callback has run without one since
    reader,     \* pc, slot, scans: completed since it took the slot, torn
    change,     \* the last change of the status: from, hi, bad
    adcErrors,
    overlap     \* running was tested before another thread set it, or after
                \* another thread had changed the status

pilotVars == <<duty_pct, cb, running, measured, cached, status, age, reader, change, adcErrors, overlap>>

MAX_WAVEFORMS == 3
NoiseTolerance == 50
NoLevel == 0
NoWave == [hi |-> 0, lo |-> 0, duty |-> 0]
Upward == [a |-> 3038, b |-> 2718, c |-> 2397, d |-> 2076, e |-> 767]
Downward == [a |-> 2985, b |-> 2644, c |-> 2344, d |-> 2022, e |-> 767]

\* The values of pilot_status_t: a higher voltage is a greater status.
STATUS_A == 12
STATUS_B == 9
STATUS_C == 6
STATUS_D == 3
STATUS_E == 0
STATUS_F == -12
UNKNOWN == 255
PilotStatuses == {STATUS_A, STATUS_B, STATUS_C, STATUS_D, STATUS_E, STATUS_F, UNKNOWN}

-----------------------------------------------------------------------------
(* One measurement *)

sqrt_u32(v) == CHOOSE x \in 0..v : x * x <= v /\ (x + 1) * (x + 1) > v

get_average(data) == (data[1] + data[2] + data[3] + data[4]) \div 4

AbsDiff(x, y) == IF x < y THEN y - x ELSE x - y

calculate_standard_deviation(data, avg) ==
    sqrt_u32(MapThenSumSet(LAMBDA i : AbsDiff(data[i], avg) * AbsDiff(data[i], avg), 1..4) \div 4)

\* remove_outliers(): the first sample counts for the extreme values even if
\* it is an outlier.
Within(data) ==
    LET avg == get_average(data)
        dev == Max({calculate_standard_deviation(data, avg), NoiseTolerance})
    IN  {data[1]} \union {data[i] : i \in {j \in 1..4 : AbsDiff(data[j], avg) <= dev}}

remove_outliers(data) == [max |-> Max(Within(data)), min |-> Min(Within(data))]

\* The samples of a half-cycle at a level, with one at position i that is off.
Samples(level, i, off) == [j \in 1..4 |-> IF j = i THEN level + off ELSE level]

evaluate_status(high, low, lim) ==
    IF low > lim.e THEN STATUS_E
    ELSE IF high > lim.a THEN STATUS_A
    ELSE IF high > lim.b THEN STATUS_B
    ELSE IF high > lim.c THEN STATUS_C
    ELSE IF high > lim.d THEN STATUS_D
    ELSE STATUS_F

\* A status above the last one is judged by the upward limits.
StatusAfter(prev_status, w) ==
    LET new_status == evaluate_status(w.hi, w.lo, Downward)
    IN  IF new_status > prev_status THEN evaluate_status(w.hi, w.lo, Upward) ELSE new_status

\* The cycles there are: one sample of the high or of the low half-cycle is
\* off, or none is.  bad: it is the first one.
Cycles ==
    {[hi  |-> remove_outliers(Samples(h, i, offs[1])).max,
      lo  |-> remove_outliers(Samples(l, i, offs[2])).min,
      bad |-> i = 1 /\ offs # <<0, 0>>] :
        h \in Highs, l \in Lows, i \in 1..2,
        offs \in {<<0, 0>>, <<-200, 0>>, <<200, 0>>, <<0, -200>>, <<0, 200>>}}

\* measure(): with a duty of 0 or 100 there is only one half-cycle, and the
\* extreme value of the other one is 0.
waveform(w) ==
    [hi   |-> IF duty_pct = 0 THEN NoLevel ELSE w.hi,
     lo   |-> IF duty_pct = 100 THEN NoLevel ELSE w.lo,
     duty |-> duty_pct]

-----------------------------------------------------------------------------
(* on_timeout() *)

Dormant == [pc |-> "idle", prev |-> UNKNOWN, bad |-> FALSE]

Fires(t) ==
    /\ cb[t].pc = "idle"
    /\ cb' = [cb EXCEPT ![t] = [pc |-> "check", prev |-> status, bad |-> FALSE]]
    /\ age' = [age EXCEPT !.timestamp = 0]
    /\ UNCHANGED <<duty_pct, running, measured, cached, status, reader, change, adcErrors, overlap>>

\* The job before this one is not done: the callback returns.
Check(t) ==
    /\ cb[t].pc = "check"
    /\ cb' = [cb EXCEPT ![t] = IF running THEN Dormant ELSE [@ EXCEPT !.pc = "set"]]
    /\ age' = [age EXCEPT !.skipped = @ \/ running]
    /\ overlap' = (overlap \/ (~running /\ (cb[t].prev # status \/ \E u \in Timers : cb[u].pc = "set")))
    /\ UNCHANGED <<duty_pct, running, measured, cached, status, reader, change, adcErrors>>

SetRunning(t) ==
    /\ cb[t].pc = "set"
    /\ running' = TRUE
    /\ cb' = [cb EXCEPT ![t].pc = "measure"]
    /\ UNCHANGED <<duty_pct, measured, cached, status, age, reader, change, adcErrors, overlap>>

measure(t) ==
    /\ cb[t].pc = "measure"
    /\ \/ \E w \in Cycles :
            /\ measured' = waveform(w)
            /\ cb' = [cb EXCEPT ![t].pc = "cache", ![t].bad = w.bad]
            /\ age' = [age EXCEPT !.measured = 0, !.skipped = FALSE]
            /\ UNCHANGED adcErrors
       \/ /\ adcErrors < MaxAdcErrors
          /\ adcErrors' = adcErrors + 1
          /\ cb' = [cb EXCEPT ![t].pc = "done"]
          /\ age' = [age EXCEPT !.skipped = TRUE]
          /\ UNCHANGED measured
    /\ UNCHANGED <<duty_pct, running, cached, status, reader, change, overlap>>

\* Mutant: copies into the buffer in use.
get_next_cache_Same == cached.slot

get_next_cache == (cached.slot + 1) % MAX_WAVEFORMS

\* update_cache() copies to the next buffer and then makes it the one in use.
update_cache(t) ==
    /\ cb[t].pc = "cache"
    /\ cached' = [slot |-> get_next_cache, view |-> measured]
    /\ reader' = IF reader.pc = "idle" THEN reader
                 ELSE [reader EXCEPT !.scans = Min({@ + 1, MAX_WAVEFORMS}),
                                     !.torn = @ \/ reader.slot = get_next_cache]
    /\ cb' = [cb EXCEPT ![t].pc = "status"]
    /\ UNCHANGED <<duty_pct, running, measured, status, age, change, adcErrors, overlap>>

update_status(t) ==
    /\ cb[t].pc = "status"
    /\ \E new \in {StatusAfter(cb[t].prev, measured)} :
        /\ status' = new
        /\ change' = IF new = status THEN change
                     ELSE [from |-> status, hi |-> measured.hi, bad |-> cb[t].bad]
    /\ cb' = [cb EXCEPT ![t].pc = "done"]
    /\ UNCHANGED <<duty_pct, running, measured, cached, age, reader, adcErrors, overlap>>

\* The waveform is cleared when the next measurement begins; nothing reads it
\* before.
Done(t) ==
    /\ cb[t].pc = "done"
    /\ running' = FALSE
    /\ cb' = [cb EXCEPT ![t] = Dormant]
    /\ measured' = IF \E u \in Timers \ {t} : cb[u].pc # "idle" THEN measured ELSE NoWave
    /\ UNCHANGED <<duty_pct, cached, status, age, reader, change, adcErrors, overlap>>

on_timeout(t) ==
    \/ Fires(t) \/ Check(t) \/ SetRunning(t) \/ measure(t)
    \/ update_cache(t) \/ update_status(t) \/ Done(t)

-----------------------------------------------------------------------------
(* The users and the world *)

is_within_boundary(w) ==
    \A x \in {w.hi, w.lo}, s \in {"a", "b", "c", "d"} : ~(Downward[s] <= x /\ x <= Upward[s])

\* pilot_error() and pilot_ok().
check_error ==
    IF age.timestamp > 2 THEN "TOO_LONG_INTERVAL"
    ELSE IF cached.view.duty # duty_pct THEN "DUTY_MISMATCH"
    ELSE IF ~is_within_boundary(cached.view) THEN "FLUCTUATING"
    ELSE "NONE"

\* pilot_millivolt(), get_duty(): the pointer is taken, the fields are read.
ReadBegins ==
    /\ reader.pc = "idle"
    /\ reader' = [pc |-> "reading", slot |-> cached.slot, scans |-> 0, torn |-> FALSE]
    /\ UNCHANGED <<duty_pct, cb, running, measured, cached, status, age, change, adcErrors, overlap>>

ReadEnds ==
    /\ reader.pc = "reading"
    /\ reader' = [reader EXCEPT !.pc = "idle", !.scans = 0, !.slot = 0, !.torn = FALSE]
    /\ UNCHANGED <<duty_pct, cb, running, measured, cached, status, age, change, adcErrors, overlap>>

pilot_set_duty(d) ==
    /\ duty_pct' = d
    /\ UNCHANGED <<cb, running, measured, cached, status, age, reader, change, adcErrors, overlap>>

IntervalPasses ==
    /\ age.measured < 3
    /\ age' = [age EXCEPT !.timestamp = @ + 1, !.measured = @ + 1]
    /\ UNCHANGED <<duty_pct, cb, running, measured, cached, status, reader, change, adcErrors, overlap>>

\* pilot_create() and pilot_enable().
PilotInit ==
    /\ duty_pct \in Duties
    /\ cb = [t \in Timers |-> Dormant]
    /\ running = FALSE
    /\ measured = NoWave
    /\ cached = [slot |-> MAX_WAVEFORMS - 1, view |-> NoWave]
    /\ status = UNKNOWN
    /\ age = [timestamp |-> 0, measured |-> 0, skipped |-> FALSE]
    /\ reader = [pc |-> "idle", slot |-> 0, scans |-> 0, torn |-> FALSE]
    /\ change = [from |-> UNKNOWN, hi |-> 0, bad |-> FALSE]
    /\ adcErrors = 0
    /\ overlap = FALSE

PilotNext ==
    \/ \E t \in Timers : on_timeout(t)
    \/ ReadBegins \/ ReadEnds \/ IntervalPasses
    \/ \E d \in Duties : pilot_set_duty(d)

PilotSpec == PilotInit /\ [][PilotNext]_pilotVars

-----------------------------------------------------------------------------
(* Properties *)

\* The variables keep their types.
PilotTypeOK ==
    /\ duty_pct \in Duties
    /\ \A t \in Timers :
        /\ cb[t].pc \in {"idle", "check", "set", "measure", "cache", "status", "done"}
        /\ cb[t].prev \in PilotStatuses
    /\ running \in BOOLEAN
    /\ cached.slot \in 0..(MAX_WAVEFORMS - 1)
    /\ status \in PilotStatuses
    /\ reader.scans \in 0..MAX_WAVEFORMS
    /\ adcErrors \in 0..MaxAdcErrors

\* A status is left and taken up again only after the voltage has moved by
\* more than the noise: nothing within the hysteresis makes it chatter.  The
\* exceptions are a first sample that is off, which remove_outliers() lets
\* count, and callbacks that overlap.
NoChatter ==
    [][ /\ status' # status /\ status' = change.from
        /\ STATUS_E \notin {status, status'}
        /\ ~change.bad /\ ~change'.bad /\ ~overlap
        => AbsDiff(measured.hi, change.hi) > NoiseTolerance ]_pilotVars

\* A sample that is off does not change the extreme values of a measurement,
\* unless it is the first one of its half-cycle.
OutliersDropped ==
    [][ \A t \in Timers :
            cb[t].pc = "measure" /\ cb'[t].pc = "cache" /\ ~cb'[t].bad =>
                measured'.hi \in Highs \union {NoLevel} /\ measured'.lo \in Lows \union {NoLevel} ]_pilotVars

\* A reader gets a buffer that is overwritten under it only if three more
\* measurements end while it reads.
ReadersUndisturbed == reader.torn => reader.scans >= MAX_WAVEFORMS

\* Two callbacks work on the shared waveform only if one tested running
\* before the other had set it.
OneMeasures ==
    Cardinality({t \in Timers : cb[t].pc \in {"measure", "cache", "status"}}) > 1 => overlap

\* pilot_ok() is said of a signal that has not been measured for more than two
\* intervals only if the ADC failed, a callback overran or one is under way.
\* These are the ways: timestamp is set when the callback begins, whether or
\* not it measures, so a timer that has stopped is noticed, and not "the adc
\* error" that the comment in check_error() names beside it.
StallNoticed ==
    age.measured > 2 /\ check_error = "NONE" => age.skipped \/ \E t \in Timers : cb[t].pc # "idle"

\* What the connector relies on in pilot.c: the status follows the signal and
\* not its noise, one callback measures at a time, readers get whole waveforms
\* and a measurement that has stopped is noticed.
SignalRight ==
    /\ [](PilotTypeOK /\ ReadersUndisturbed /\ OneMeasures /\ StallNoticed)
    /\ NoChatter /\ OutliersDropped
=============================================================================
