------------------------------ MODULE Watchdog ------------------------------
(***************************************************************************)
(* The software watchdogs of the host port (ports/host/wdt.c): a list of   *)
(* them, which a task looks through and then sleeps for the shortest       *)
(* period.  The users (runner, pilot, network manager) create, enable,     *)
(* disable and feed theirs from threads of their own.                      *)
(*                                                                         *)
(* dogs    struct wdt: enabled, and the time since it was fed; Absent      *)
(*         before wdt_new() and after wdt_delete();                        *)
(* kennel  the list, its front first;                                      *)
(* nap     the time the task still sleeps, and min_period_ms;              *)
(* owner   history: what the user of each has asked for last, whether the  *)
(*         dog was fed since it was enabled, the time since either, and    *)
(*         whether the task has reported it since, or another instead;     *)
(* alarm   a report, with the owner's side of it, until time passes.       *)
(***************************************************************************)
EXTENDS Integers, Sequences, SequencesExt

CONSTANTS
    Dogs,       \* the watchdogs
    Period,     \* their periods
    LongestNap  \* what min_period_ms starts with

ASSUME WatchdogAssumption ==
    /\ Period \in [Dogs -> Nat \ {0}]
    /\ LongestNap \in Nat \ {0}

VARIABLES dogs, kennel, nap, owner, alarm

dogVars == <<dogs, kennel, nap, owner, alarm>>

\* bound: times count up to this
Old == LongestNap + Max(Range(Period)) + 1

NotMade == [made |-> FALSE, enabled |-> FALSE, age |-> 0]
Nobody == [asked |-> "nothing", fed |-> FALSE, idle |-> 0, told |-> "no"]
Silence == [on |-> FALSE, asked |-> "nothing", fed |-> FALSE, late |-> FALSE]

Later(t) == IF t < Old THEN t + 1 ELSE Old

Listed(d) == dogs[d].made

-----------------------------------------------------------------------------
is_timedout(d) == dogs[d].enabled /\ dogs[d].age >= Period[d]

(* any_timeouts(): the first one of the list that is. *)
Hungry == SelectSeq(kennel, is_timedout)

(* One round of the task; without a callback the report goes to the        *)
(* manager's, which on_watchdog_timeout() is.                              *)
wdt_task_round ==
    /\ nap.left = 0
    /\ nap' = [nap EXCEPT !.left = nap.period]
    /\ IF Hungry = <<>> THEN UNCHANGED <<owner, alarm>>
       ELSE \E d \in {Head(Hungry)} :
              /\ owner' = [e \in Dogs |->
                   IF e \notin Range(Hungry) THEN owner[e]
                   ELSE [owner[e] EXCEPT !.told = IF e = d THEN "yes" ELSE "behind"]]
              /\ alarm' = [on |-> TRUE, asked |-> owner[d].asked, fed |-> owner[d].fed,
                           late |-> owner[d].idle >= Period[d]]
    /\ UNCHANGED <<dogs, kennel>>

MinPeriod(d) == IF nap.period > Period[d] THEN Period[d] ELSE nap.period

(* malloc() leaves enabled and last_feed_ms as they are in memory. *)
wdt_new(d) ==
    /\ ~Listed(d)
    /\ \E garbage \in BOOLEAN, age \in {0, Old} :
         dogs' = [dogs EXCEPT ![d] = [made |-> TRUE, enabled |-> garbage, age |-> age]]
    /\ kennel' = <<d>> \o kennel
    /\ nap' = [nap EXCEPT !.period = MinPeriod(d)]
    /\ owner' = [owner EXCEPT ![d] = Nobody]
    /\ UNCHANGED alarm

wdt_enable(d) ==
    /\ Listed(d) /\ owner[d].asked # "on"
    /\ dogs' = [dogs EXCEPT ![d].enabled = TRUE]
    /\ owner' = [owner EXCEPT ![d] = [Nobody EXCEPT !.asked = "on"]]
    /\ UNCHANGED <<kennel, nap, alarm>>

wdt_disable(d) ==
    /\ Listed(d) /\ owner[d].asked = "on"
    /\ dogs' = [dogs EXCEPT ![d].enabled = FALSE]
    /\ owner' = [owner EXCEPT ![d] = [Nobody EXCEPT !.asked = "off"]]
    /\ UNCHANGED <<kennel, nap, alarm>>

wdt_feed(d) ==
    /\ Listed(d)
    /\ dogs' = [dogs EXCEPT ![d].age = 0]
    /\ owner' = [owner EXCEPT ![d].fed = TRUE, ![d].idle = 0, ![d].told = "no"]
    /\ UNCHANGED <<kennel, nap, alarm>>

wdt_delete(d) ==
    /\ Listed(d)
    /\ dogs' = [dogs EXCEPT ![d] = NotMade]
    /\ kennel' = SelectSeq(kennel, LAMBDA e : e # d)
    /\ owner' = [owner EXCEPT ![d] = Nobody]
    /\ UNCHANGED <<nap, alarm>>

(* Time passes; the task is not late. *)
DogTick ==
    /\ nap.left > 0
    /\ nap' = [nap EXCEPT !.left = @ - 1]
    /\ dogs' = [d \in Dogs |->
         IF Listed(d) THEN [dogs[d] EXCEPT !.age = Later(@)] ELSE dogs[d]]
    /\ owner' = [d \in Dogs |->
         IF owner[d].asked = "on" THEN [owner[d] EXCEPT !.idle = Later(@)] ELSE owner[d]]
    /\ alarm' = Silence
    /\ UNCHANGED kennel

wdt_init ==
    /\ dogs = [d \in Dogs |-> NotMade]
    /\ kennel = <<>>
    /\ nap = [left |-> 0, period |-> LongestNap]
    /\ owner = [d \in Dogs |-> Nobody]
    /\ alarm = Silence

DogNext ==
    \/ wdt_task_round \/ DogTick
    \/ \E d \in Dogs :
         wdt_new(d) \/ wdt_enable(d) \/ wdt_disable(d) \/ wdt_feed(d) \/ wdt_delete(d)

DogSpec == wdt_init /\ [][DogNext]_dogVars

-----------------------------------------------------------------------------
(* The variables keep their types; the list holds each dog once. *)
DogTypeOK ==
    /\ dogs \in [Dogs -> [made : BOOLEAN, enabled : BOOLEAN, age : 0..Old]]
    /\ Range(kennel) = {d \in Dogs : Listed(d)} /\ IsInjective(kennel)
    /\ nap \in [left : 0..LongestNap, period : 1..LongestNap]
    /\ owner \in [Dogs -> [asked : {"nothing", "on", "off"}, fed : BOOLEAN,
                           idle : 0..Old, told : {"no", "behind", "yes"}]]
    /\ alarm \in [on : BOOLEAN, asked : {"nothing", "on", "off"}, fed : BOOLEAN,
                  late : BOOLEAN]

(* A report, which restarts the charger, is about a user that has not fed  *)
(* its watchdog for a period, except in two cases: the watchdog was never  *)
(* enabled nor disabled (wdt_new() sets neither field), or it was enabled  *)
(* and not yet fed (wdt_enable() keeps the time of the last feed).         *)
AlarmHasCause ==
    alarm.on =>
        \/ alarm.asked = "on" /\ alarm.late
        \/ alarm.asked = "nothing"
        \/ alarm.asked = "on" /\ ~alarm.fed

(* A user that stops feeding is noticed within its period and the longest  *)
(* sleep, and reported, unless one ahead of it in the list starves too:    *)
(* the task reports the first only.                                        *)
StarvedNoticed ==
    \A d \in Dogs :
        owner[d].asked = "on" /\ owner[d].idle >= Period[d] + LongestNap =>
            owner[d].told # "no"

\* A watchdog of the host port expires when, and only when, it is not fed.
DogsWatch == DogTypeOK /\ AlarmHasCause /\ StarvedNoticed
=============================================================================
