------------------------------ MODULE Shutdown ------------------------------
(***************************************************************************)
(* The end of a run of the program: src/main.c, with the watchdog manager  *)
(* (ports/host/wdt.c) and the clean-up that src/logger.c registers.  The   *)
(* actor thread runs the charger and feeds the watchdog.  A reboot that is *)
(* asked for, or a watchdog that is not fed, sends a message to the        *)
(* clean-up actor and starts a timer in case the actor thread is stuck;    *)
(* both run cleanup_handler(), which flushes the logs and reboots.         *)
(*                                                                         *)
(* Time is abstracted: a watchdog is stale when it has not been fed for    *)
(* ten seconds, which happens only to a thread that does not run its       *)
(* handler, and the rate limit grants a request a minute.                  *)
(***************************************************************************)
EXTENDS Naturals

VARIABLES
    actor,       \* booting, run, stuck, clean: the actor thread
    mail,        \* a message for the clean-up actor is queued
    cleanup,     \* the timer of raise_cleanup(): armed, its thread cleaning
    wdt,         \* the runner's watchdog: fresh or stale
    tokens,      \* of the rate limit of on_watchdog_timeout()
    fileLock,    \* a thread that will never run again holds the lock of the logs
    asked,       \* a reboot has been asked for
    rebooted,
    twice        \* why two threads may be cleaning up

shutVars == <<actor, mail, cleanup, wdt, tokens, fileLock, asked, rebooted, twice>>

\* raise_cleanup(): a second call while a thread is cleaning up starts the
\* timer again.
raise_cleanup ==
    /\ cleanup' = [cleanup EXCEPT !.armed = TRUE]
    /\ mail' = TRUE
    /\ twice' = IF actor = "clean" \/ cleanup.cleaning THEN twice \union {"again"} ELSE twice

\* reboot_gracefully(): app_reboot(), the reboot command, a reset.
reboot_gracefully ==
    /\ raise_cleanup
    /\ asked' = TRUE
    /\ UNCHANGED <<actor, wdt, tokens, fileLock, rebooted>>

\* main() has started the actors: until then nothing feeds the watchdog.
main_done ==
    /\ actor = "booting"
    /\ actor' = "run"
    /\ UNCHANGED <<mail, cleanup, wdt, tokens, fileLock, asked, rebooted, twice>>

runner_handler ==
    /\ actor = "run"
    /\ wdt' = "fresh"
    /\ UNCHANGED <<actor, mail, cleanup, tokens, fileLock, asked, rebooted, twice>>

\* A handler does not return, maybe with the lock of the logs.
ActorStuck ==
    /\ actor \in {"booting", "run"}
    /\ actor' = "stuck"
    /\ fileLock' \in BOOLEAN
    /\ UNCHANGED <<mail, cleanup, wdt, tokens, asked, rebooted, twice>>

Starved ==
    /\ actor # "run"
    /\ wdt' = "stale"
    /\ UNCHANGED <<actor, mail, cleanup, tokens, fileLock, asked, rebooted, twice>>

\* Mutant: does not raise the clean-up.
on_watchdog_timeout_Never == UNCHANGED <<cleanup, mail, twice, tokens>>

on_watchdog_timeout ==
    IF tokens > 0 THEN raise_cleanup /\ tokens' = tokens - 1
    ELSE UNCHANGED <<cleanup, mail, twice, tokens>>

\* wdt_task(): a stale watchdog is reported at every period, until it is fed.
wdt_task ==
    /\ wdt = "stale"
    /\ on_watchdog_timeout
    /\ UNCHANGED <<actor, wdt, fileLock, asked, rebooted>>

MinutePasses ==
    /\ tokens' = 1
    /\ UNCHANGED <<actor, mail, cleanup, wdt, fileLock, asked, rebooted, twice>>

\* Mutant: leaves the timer armed.
cleanup_handler_Armed ==
    /\ actor = "run" /\ mail
    /\ mail' = FALSE
    /\ actor' = "clean"
    /\ twice' = IF cleanup.cleaning THEN twice \union {"expired"} ELSE twice
    /\ UNCHANGED <<cleanup, wdt, tokens, fileLock, asked, rebooted>>

\* cleanup_handler() in the actor thread: the timer is stopped first.
cleanup_handler ==
    /\ actor = "run" /\ mail
    /\ mail' = FALSE
    /\ actor' = "clean"
    /\ cleanup' = [cleanup EXCEPT !.armed = FALSE]
    /\ twice' = IF cleanup.cleaning THEN twice \union {"expired"} ELSE twice
    /\ UNCHANGED <<wdt, tokens, fileLock, asked, rebooted>>

on_cleanup_timeout ==
    /\ cleanup.armed
    /\ cleanup' = [armed |-> FALSE, cleaning |-> TRUE]
    /\ UNCHANGED <<actor, mail, wdt, tokens, fileLock, asked, rebooted, twice>>

\* cleanup_execute() flushes the logs, for which it needs their lock, and the
\* board is rebooted.
cleanup_execute ==
    /\ actor = "clean" \/ cleanup.cleaning
    /\ ~fileLock
    /\ rebooted' = TRUE
    /\ UNCHANGED <<actor, mail, cleanup, wdt, tokens, fileLock, asked, twice>>

ShutInit ==
    /\ actor = "booting"
    /\ mail = FALSE
    /\ cleanup = [armed |-> FALSE, cleaning |-> FALSE]
    /\ wdt = "fresh"
    /\ tokens = 1
    /\ fileLock = FALSE
    /\ asked = FALSE
    /\ rebooted = FALSE
    /\ twice = {}

ShutNext ==
    /\ ~rebooted
    /\ \/ reboot_gracefully \/ main_done \/ runner_handler \/ ActorStuck \/ Starved
       \/ wdt_task \/ MinutePasses \/ cleanup_handler \/ on_cleanup_timeout \/ cleanup_execute

\* Every thread that is not stuck runs, timers expire, minutes pass.
ShutFairness ==
    /\ WF_shutVars(~rebooted /\ main_done)
    /\ WF_shutVars(~rebooted /\ Starved)
    /\ WF_shutVars(~rebooted /\ wdt_task)
    /\ WF_shutVars(~rebooted /\ MinutePasses)
    /\ WF_shutVars(~rebooted /\ cleanup_handler)
    /\ WF_shutVars(~rebooted /\ on_cleanup_timeout)
    /\ WF_shutVars(~rebooted /\ cleanup_execute)

ShutSpec == ShutInit /\ [][ShutNext]_shutVars /\ ShutFairness

-----------------------------------------------------------------------------
(* Properties *)

\* The variables keep their types.
ShutTypeOK ==
    /\ actor \in {"booting", "run", "stuck", "clean"}
    /\ mail \in BOOLEAN
    /\ cleanup \in [armed : BOOLEAN, cleaning : BOOLEAN]
    /\ wdt \in {"fresh", "stale"}
    /\ tokens \in 0..1
    /\ fileLock \in BOOLEAN /\ asked \in BOOLEAN /\ rebooted \in BOOLEAN
    /\ twice \subseteq {"again", "expired"}

\* A reboot that was asked for happens, even if the actor thread is stuck:
\* only a thread that is stuck with the lock of the logs can prevent it.
RebootSettled == rebooted \/ fileLock
RebootFollows == asked ~> RebootSettled

\* A charger that is stuck, at boot or later, is rebooted by the watchdog and
\* does not depend on the message to the actor that is stuck.
StuckIsRebooted == (actor = "stuck") ~> RebootSettled

\* cleanup_handler() runs in two threads at once only if the timer had
\* expired before the actor took its message, or if the clean-up was raised
\* again while a thread was cleaning up.
CleanedUpOnce == actor = "clean" /\ cleanup.cleaning => twice # {}

\* The clean-up of the charger runs in one thread, but for the cases above.
CleanUpAlone == ShutTypeOK /\ CleanedUpOnce
=============================================================================
