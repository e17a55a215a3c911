---------------------------- MODULE PowerSafety -----------------------------
(***************************************************************************)
(* The watch on the power line: src/safety/power_safety.c.  Every falling  *)
(* edge of the mains is put in a ring of time stamps by an interrupt; a    *)
(* timer looks at the ring once a second and works out the frequency; the  *)
(* charger asks check() at any time between two ticks.                     *)
(*                                                                         *)
(* During a second the mains has some frequency; its edges fall on whole   *)
(* milliseconds and may bounce.  The ring keeps the distances between the  *)
(* edges instead of their times.  Ages are in whole seconds.               *)
(***************************************************************************)
EXTENDS Integers, Sequences, FiniteSetsExt

CONSTANTS
    Expected,        \* the frequencies the mains may be configured to have
    Mains            \* the frequencies the mains may have in a second, 0 for none

ASSUME PowerAssumption ==
    /\ Expected \subseteq 50..60
    /\ Mains \subseteq 0..120

VARIABLES
    waves,     \* the ring: distance of each edge from the one before it
    last,      \* last_falling_time, in milliseconds from the start of this second
    ps,        \* freq, missing_samples, age of the last update
    second,    \* the frequency of the mains in this second and its edges so far
    hist,      \* the frequency of the mains in the last three seconds, newest first
    basis      \* the frequencies sampled since the last update, and for it

psVars == <<waves, last, ps, second, hist, basis>>

DebounceMs == 8
Tolerance == 3
MaxSamples == 60
SecondMs == 1000

Byte(n) == n % 256
Signed(n) == IF n % 256 >= 128 THEN (n % 256) - 256 ELSE n % 256

\* The mains falls every 1/f seconds.
EdgeAt(k) == ((k - 1) * SecondMs) \div second.f

\* The ring rotates: it keeps the newest samples.
Rotated(r) == IF Len(r) > MaxSamples * 2 THEN Tail(r) ELSE r

\* on_gpio_event(): an edge too soon after the last one that counted is none.
on_gpio_event(t) ==
    IF t - last < DebounceMs THEN UNCHANGED <<waves, last>>
    ELSE /\ waves' = Rotated(Append(waves, t - last))
         /\ last' = t

Edge ==
    /\ second.k < second.f
    /\ on_gpio_event(EdgeAt(second.k + 1))
    /\ second' = [second EXCEPT !.k = @ + 1]
    /\ UNCHANGED <<ps, hist, basis>>

\* The contact bounces three milliseconds after the edge.
Bounce ==
    /\ second.k > 0
    /\ on_gpio_event(EdgeAt(second.k) + 3)
    /\ UNCHANGED <<ps, second, hist, basis>>

\* calc_freq(): the mean of the frequencies of all distances but the first,
\* divided by the number of samples and rounded; the ring is read out.
RECURSIVE SumFreq(_, _, _)
SumFreq(r, lo, hi) ==
    IF lo > hi THEN 0
    ELSE IF lo = hi THEN Byte(SecondMs \div r[lo])
    ELSE SumFreq(r, lo, (lo + hi) \div 2) + SumFreq(r, (lo + hi) \div 2 + 1, hi)

calc_freq(r) == Byte(((SumFreq(r, 2, Len(r)) * 10) \div Len(r) + 5) \div 10)

is_uptodate(age) == age < 2
is_pulse_active == SecondMs - last < SecondMs

\* Mutant: does not notice that no pulse arrives.
process_samples_NeverStale(age, missing) ==
    IF ~is_pulse_active THEN waves' = waves /\ ps' = ps
    ELSE IF missing > Tolerance
    THEN waves' = waves /\ ps' = [ps EXCEPT !.missing = missing]
    ELSE waves' = <<>> /\ ps' = [freq |-> calc_freq(waves), missing |-> 0, age |-> 0]

\* process_samples(), a second after the last time: age is that of the last
\* update.
process_samples(age, missing) ==
    LET freq == IF is_uptodate(age) THEN ps.freq ELSE 0
    IN  IF ~is_pulse_active
        THEN waves' = waves /\ ps' = [ps EXCEPT !.freq = freq, !.age = age]
        ELSE IF missing > Tolerance
        THEN waves' = waves /\ ps' = [freq |-> freq, missing |-> missing, age |-> age]
        ELSE waves' = <<>> /\ ps' = [freq |-> calc_freq(waves), missing |-> 0, age |-> 0]

\* on_periodic_timer(); the next second has a frequency of its own.
on_periodic_timer ==
    /\ second.k = second.f
    /\ process_samples(Min({ps.age + 1, 2}), Signed(MaxSamples - Len(waves)))
    /\ last' = Max({last - SecondMs, 0 - 2 * SecondMs})
    /\ LET since == basis.since \union ({second.f} \ {0})
       IN  basis' = IF waves' = waves THEN [basis EXCEPT !.since = since]
                    ELSE [since |-> {}, of |-> since]
    /\ hist' = <<second.f>> \o SubSeq(hist, 1, 2)
    /\ \E f \in Mains : second' = [f |-> f, k |-> 0]

check(expected_freq) ==
    IF ~is_uptodate(ps.age) THEN "STALE"
    ELSE IF ps.missing > Tolerance THEN "SAMPLING_ERROR"
    ELSE IF ps.freq < expected_freq - Tolerance \/ ps.freq > expected_freq + Tolerance
    THEN "ABNORMAL_FREQUENCY"
    ELSE "OK"

\* power_safety_create() and enable(): nothing sampled, updated at time 0,
\* which is the time of the boot.
PsInit ==
    /\ waves = <<>>
    /\ last = 0
    /\ \E age \in 0..2 : ps = [freq |-> 0, missing |-> 0, age |-> age]
    /\ \E f \in Mains : second = [f |-> f, k |-> 0]
    /\ hist = <<0, 0, 0>>
    /\ basis = [since |-> {}, of |-> {}]

PsNext == Edge \/ Bounce \/ on_periodic_timer

PsSpec == PsInit /\ [][PsNext]_psVars

-----------------------------------------------------------------------------
(* Properties *)

\* The variables keep their types.
PsTypeOK ==
    /\ Len(waves) <= MaxSamples * 2
    /\ last \in (0 - 2 * SecondMs)..SecondMs
    /\ second.f \in Mains /\ second.k \in 0..second.f
    /\ ps.freq \in 0..255 /\ ps.missing \in -128..127 /\ ps.age \in 0..2
    /\ \A i \in 1..3 : hist[i] \in Mains \union {0}

Steady(f) == \A i \in 1..3 : hist[i] = f

\* check() says OK only if one of the seconds that were sampled was within
\* the tolerated band, give or take a Hertz for the divisions of calc_freq(),
\* or if one was below the band and another above it: the mean is taken over
\* all the samples since the last update, so 25 Hz and 60 Hz, even with an
\* outage of any length between them, make an OK of 49 Hz.  Bounces of the
\* signal and a mains that comes and goes never do.
OkMeansMains ==
    \A expected_freq \in Expected : check(expected_freq) = "OK" =>
        /\ \E f \in basis.of : f >= expected_freq - (Tolerance + 1)
        /\ \E f \in basis.of : f <= expected_freq + (Tolerance + 1)

\* After two seconds with no mains check() is not OK any more.
OutageSeen ==
    hist[1] = 0 /\ hist[2] = 0 =>
        \A expected_freq \in Expected : check(expected_freq) # "OK"

\* A mains that has kept the expected frequency for three seconds is OK, if
\* it gives at least 57 samples a second.  Below that the sampling window of
\* 60 samples is not filled in one second: check() answers SAMPLING_ERROR
\* every other second, the whole time, at 50 Hz as at 56 Hz.
SteadyMainsOk ==
    \A expected_freq \in Expected : Steady(expected_freq) =>
        check(expected_freq) = IF expected_freq >= MaxSamples - Tolerance \/ ps.missing = 0
                THEN "OK" ELSE "SAMPLING_ERROR"

\* check() tells the mains that is there from one that is missing or off.
MainsWatched == PsTypeOK /\ OkMeansMains /\ OutageSeen /\ SteadyMainsOk
=============================================================================
