------------------------------ MODULE AppTimer ------------------------------
(***************************************************************************)
(* The timers of the host port (ports/host/apptmr.c): a pool of APPTMR_MAX *)
(* slots over POSIX timers, which are external.  An expiry starts a thread *)
(* that runs callback_wrapper() with a pointer to the slot; it can still   *)
(* be on its way when the timer is stopped, deleted or its slot reused.    *)
(*                                                                         *)
(* pool      the slots: whose callback is in it, and its POSIX timer;      *)
(* tmr       the slot each user has got (0: none), whether it has stopped  *)
(*           the timer since it started it, and whether a start that was   *)
(*           accepted still has to have its call (history);                *)
(* count_created;  leaked  the slots nobody can give back (history);       *)
(* flights   the threads on their way: their slot, the user whose timer    *)
(*           expired, and whether that was stopped or deleted since;       *)
(* called    the call of the last step (history).                          *)
(***************************************************************************)
EXTENDS Integers, FiniteSets, FiniteSetsExt, Sequences, SequencesExt

CONSTANTS
    Clients,    \* the users of timers
    PoolSize,   \* APPTMR_MAX
    MaxFlights, \* bound: threads on their way for one slot
    MaxTimerErrors  \* bound: failures of timer_create()

ASSUME AppTimerAssumption ==
    PoolSize \in Nat \ {0} /\ MaxFlights \in Nat /\ MaxTimerErrors \in Nat

VARIABLES pool, tmr, count_created, leaked, flights, called

tmrVars == <<pool, tmr, count_created, leaked, flights, called>>

NoUser == "nobody"
Empty == [user |-> NoUser, periodic |-> FALSE, armed |-> FALSE]
NoTimer == [slot |-> 0, quiet |-> TRUE, owed |-> FALSE]
NoCall == [by |-> NoUser, of |-> NoUser, late |-> FALSE, quiet |-> FALSE]

Free == {s \in 1..PoolSize : pool[s] = Empty}
Has(u) == tmr[u].slot # 0

(* The threads on their way for u now come late. *)
Overtaken(u) ==
    [k \in DOMAIN flights |->
       IF flights[k].of = u THEN [flights[k] EXCEPT !.late = TRUE] ELSE flights[k]]

-----------------------------------------------------------------------------
new_apptmr == Min(Free)

(* Without a free slot the caller gets NULL; when timer_create() fails it  *)
(* gets NULL as well, and the slot stays taken.                            *)
apptmr_create(u) ==
    /\ ~Has(u) /\ Free # {}
    /\ \E periodic \in BOOLEAN :
         pool' = [pool EXCEPT ![new_apptmr] =
                    [user |-> u, periodic |-> periodic, armed |-> FALSE]]
    /\ \/ /\ tmr' = [tmr EXCEPT ![u] = [NoTimer EXCEPT !.slot = new_apptmr]]
          /\ count_created' = count_created + 1
          /\ UNCHANGED leaked
       \/ /\ Cardinality(leaked) < MaxTimerErrors
          /\ leaked' = leaked \union {new_apptmr}
          /\ UNCHANGED <<tmr, count_created>>
    /\ called' = NoCall
    /\ UNCHANGED flights

(* Of a timeout below a second: a longer one is all nanoseconds, which     *)
(* timer_settime() refuses, and changes nothing.                           *)
start_apptmr(u) ==
    /\ Has(u)
    /\ pool' = [pool EXCEPT ![tmr[u].slot].armed = TRUE]
    /\ tmr' = [tmr EXCEPT ![u].quiet = FALSE, ![u].owed = TRUE]
    /\ called' = NoCall
    /\ UNCHANGED <<count_created, leaked, flights>>

\* Mutant: leaves the timer armed.
stop_apptmr_Later(u) ==
    /\ Has(u)
    /\ tmr' = [tmr EXCEPT ![u].quiet = TRUE, ![u].owed = FALSE]
    /\ flights' = Overtaken(u)
    /\ called' = NoCall
    /\ UNCHANGED <<pool, count_created, leaked>>

stop_apptmr(u) ==
    /\ Has(u)
    /\ pool' = [pool EXCEPT ![tmr[u].slot].armed = FALSE]
    /\ tmr' = [tmr EXCEPT ![u].quiet = TRUE, ![u].owed = FALSE]
    /\ flights' = Overtaken(u)
    /\ called' = NoCall
    /\ UNCHANGED <<count_created, leaked>>

apptmr_delete(u) ==
    /\ Has(u)
    /\ pool' = [pool EXCEPT ![tmr[u].slot] = Empty]
    /\ tmr' = [tmr EXCEPT ![u] = NoTimer]
    /\ flights' = Overtaken(u)
    /\ count_created' = count_created - 1
    /\ called' = NoCall
    /\ UNCHANGED leaked

(* The POSIX timer of a slot expires. *)
Expires(s) ==
    /\ pool[s].armed
    /\ Cardinality({k \in DOMAIN flights : flights[k].slot = s}) < MaxFlights
    /\ pool' = [pool EXCEPT ![s].armed = pool[s].periodic]
    /\ flights' = Append(flights, [slot |-> s, of |-> pool[s].user, late |-> FALSE])
    /\ called' = NoCall
    /\ UNCHANGED <<tmr, count_created, leaked>>

callback_wrapper(k) ==
    LET f == flights[k]
        u == pool[f.slot].user
    IN /\ flights' = RemoveAt(flights, k)
       /\ IF u = NoUser THEN called' = NoCall /\ UNCHANGED tmr
          ELSE /\ called' = [by |-> u, of |-> f.of, late |-> f.late,
                             quiet |-> tmr[u].quiet]
               /\ tmr' = [tmr EXCEPT ![u].owed = @ /\ (f.late \/ f.of # u)]
       /\ UNCHANGED <<pool, count_created, leaked>>

TmrInit ==
    /\ pool = [s \in 1..PoolSize |-> Empty]
    /\ tmr = [u \in Clients |-> NoTimer]
    /\ count_created = 0
    /\ leaked = {}
    /\ flights = <<>>
    /\ called = NoCall

TmrNext ==
    \/ \E u \in Clients :
         apptmr_create(u) \/ start_apptmr(u) \/ stop_apptmr(u) \/ apptmr_delete(u)
    \/ \E s \in 1..PoolSize : Expires(s)
    \/ \E k \in DOMAIN flights : callback_wrapper(k)

TmrSpec == TmrInit /\ [][TmrNext]_tmrVars

-----------------------------------------------------------------------------
(* The variables keep their types. *)
TmrTypeOK ==
    /\ pool \in [1..PoolSize -> [user : Clients \union {NoUser},
                                 periodic : BOOLEAN, armed : BOOLEAN]]
    /\ tmr \in [Clients -> [slot : 0..PoolSize, quiet : BOOLEAN, owed : BOOLEAN]]
    /\ count_created \in 0..PoolSize
    /\ leaked \subseteq 1..PoolSize
    /\ Len(flights) <= PoolSize * MaxFlights
    /\ called \in [by : Clients \union {NoUser}, of : Clients \union {NoUser},
                   late : BOOLEAN, quiet : BOOLEAN]

(* A timer's callback runs when another user's timer has expired only if   *)
(* that one was deleted before its thread ran, and its slot given out      *)
(* again.                                                                  *)
RightCallback == called.by # called.of => called.late

(* The callback of a timer that its user has stopped runs only in a thread *)
(* that had started before: apptmr_stop() does not wait for it.            *)
QuietOnceStopped == called.quiet => called.late

(* A taken slot belongs to one user, who can give it back, except those of *)
(* failed creations, which the pool never gets back.                       *)
SlotsOwned ==
    /\ \A s \in 1..PoolSize \ leaked :
         pool[s] # Empty => pool[s].user # NoUser /\ tmr[pool[s].user].slot = s
    /\ count_created = Cardinality({s \in 1..PoolSize \ leaked : pool[s] # Empty})

(* A start that was accepted has its call to come, unless the timer was    *)
(* stopped or deleted: the timer is armed, or its thread is on its way.    *)
CallToCome ==
    \A u \in Clients : tmr[u].owed =>
        \/ pool[tmr[u].slot].armed
        \/ \E k \in DOMAIN flights : flights[k].of = u /\ ~flights[k].late

\* A timer of the host port calls its owner's callback while it runs, and
\* nobody's otherwise, and its slot has one owner.
TimersRight ==
    TmrTypeOK /\ RightCallback /\ QuietOnceStopped /\ SlotsOwned /\ CallToCome
=============================================================================
