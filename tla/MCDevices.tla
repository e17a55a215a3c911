----------------------------- MODULE MCDevices ------------------------------
(***************************************************************************)
(* The modules of the devices, of what watches over them and of how the    *)
(* charger is set up at boot, in one run.  They share no variable, so      *)
(* every behaviour is of one of them: part says which, and the others stay *)
(* in their initial state.                                                 *)
(*                                                                         *)
(* The pilot is looked at three times: what it makes of a signal, what a   *)
(* reader sees while it is measured, and what callbacks in several threads *)
(* do to each other.  Each time the other two sources of states are cut.   *)
(* The inputs are looked at twice: the emergency stop with the debug       *)
(* button, and the debug button with the USB input.  The start is looked   *)
(* at twice: with every command, and with memory that runs out.            *)
(***************************************************************************)
EXTENDS Pilot, PowerSafety, Relay, UserInput, Shutdown, ChargerSetup, Watchdog,
        AppTimer

CONSTANTS t1, t2

VARIABLE part

Parts == {"signal", "reading", "threads", "mains", "relay", "stop", "debug",
          "shutdown", "setup", "memory", "dogs", "timers"}
PilotParts == {"signal", "reading", "threads"}
InputParts == {"stop", "debug"}
SetupParts == {"setup", "memory"}

devicesVars == <<pilotVars, psVars, relayVars, inputVars, shutVars, setupVars,
                 dogVars, tmrVars, part>>

MCPeriod == [d \in Dogs |-> IF d = t1 THEN 1 ELSE 2]

\* One initial state of the modules that have several, for a part that does
\* not run or, the threads of the pilot, does not need them.
Still ==
    /\ part \notin {"signal", "reading"} => duty_pct = Max(Duties)
    /\ part # "mains" => second.f = Max(Mains) /\ ps.age = 0
    /\ part # "stop" => ~line["estop"]
    /\ part # "debug" => ~line["usb"]
    /\ part \notin InputParts => ~line["dbg"]

DevicesInit ==
    /\ part \in Parts
    /\ PilotInit /\ PsInit /\ RelayInit /\ InputInit /\ ShutInit
    /\ SetupInit /\ wdt_init /\ TmrInit
    /\ Still

\* One level of each half-cycle and one thread only.
OneLevel == measured'.hi \in {0, Max(Highs)} /\ measured'.lo \in {0, Min(Lows)}
OneThread == \A t \in Timers \ {t1} : cb'[t] = Dormant
InTime == age'.timestamp = 0

PilotFocus ==
    CASE part = "signal" -> UNCHANGED <<reader, duty_pct>> /\ InTime /\ OneThread
      [] part = "reading" -> OneLevel /\ InTime /\ OneThread
      [] part = "threads" -> UNCHANGED <<reader, duty_pct>> /\ OneLevel

InputFocus == IF part = "stop" THEN ~line'["usb"] ELSE ~line'["estop"] /\ busFaults' = 0

SetupFocus ==
    IF part = "setup" THEN budget'.faults = MaxSetupFaults ELSE cli'.pc = "idle"

DevicesNext ==
    /\ UNCHANGED part
    /\ \/ /\ part \in PilotParts /\ PilotNext /\ PilotFocus
          /\ UNCHANGED <<psVars, relayVars, inputVars, shutVars, setupVars,
                         dogVars, tmrVars>>
       \/ /\ part = "mains" /\ PsNext
          /\ UNCHANGED <<pilotVars, relayVars, inputVars, shutVars, setupVars,
                         dogVars, tmrVars>>
       \/ /\ part = "relay" /\ RelayNext
          /\ UNCHANGED <<pilotVars, psVars, inputVars, shutVars, setupVars,
                         dogVars, tmrVars>>
       \/ /\ part \in InputParts /\ InputNext /\ InputFocus
          /\ UNCHANGED <<pilotVars, psVars, relayVars, shutVars, setupVars,
                         dogVars, tmrVars>>
       \/ /\ part = "shutdown" /\ ShutNext
          /\ UNCHANGED <<pilotVars, psVars, relayVars, inputVars, setupVars,
                         dogVars, tmrVars>>
       \/ /\ part \in SetupParts /\ SetupNext /\ SetupFocus
          /\ UNCHANGED <<pilotVars, psVars, relayVars, inputVars, shutVars,
                         dogVars, tmrVars>>
       \/ /\ part = "dogs" /\ DogNext
          /\ UNCHANGED <<pilotVars, psVars, relayVars, inputVars, shutVars,
                         setupVars, tmrVars>>
       \/ /\ part = "timers" /\ TmrNext
          /\ UNCHANGED <<pilotVars, psVars, relayVars, inputVars, shutVars,
                         setupVars, dogVars>>

\* The fairness of the part that runs.
DevicesFairness ==
    /\ WF_relayVars(part = "relay" /\ (turn_on_stop \/ turn_on_start \/ turn_off_pwm))
    /\ WF_relayVars(part = "relay" /\ TimerExpires)
    /\ WF_relayVars(part = "relay" /\ on_hold_timeout)
    /\ WF_inputVars(part \in InputParts /\ process)
    /\ WF_inputVars(part \in InputParts /\ exio_handler)
    /\ WF_inputVars(part \in InputParts /\ on_gpio_intr_Ends)
    /\ WF_inputVars(part \in InputParts /\ main)
    /\ WF_shutVars(part = "shutdown" /\ ~rebooted /\ main_done)
    /\ WF_shutVars(part = "shutdown" /\ ~rebooted /\ Starved)
    /\ WF_shutVars(part = "shutdown" /\ ~rebooted /\ wdt_task)
    /\ WF_shutVars(part = "shutdown" /\ ~rebooted /\ MinutePasses)
    /\ WF_shutVars(part = "shutdown" /\ ~rebooted /\ cleanup_handler)
    /\ WF_shutVars(part = "shutdown" /\ ~rebooted /\ on_cleanup_timeout)
    /\ WF_shutVars(part = "shutdown" /\ ~rebooted /\ cleanup_execute)
    /\ WF_setupVars(part \in SetupParts /\ (start_charger \/ CrashReboot))

DevicesSpec == DevicesInit /\ [][DevicesNext]_devicesVars /\ DevicesFairness

\* The services of the host port: a watchdog expires when it is not fed and only
\* then, and a timer calls its owner's callback while it runs and only then.
HostTimersRight == DogsWatch /\ TimersRight

\* The properties of the parts, put together in two families: what lasts in the
\* part that runs and what must last then, and what is due and what settles it.
\* As the part never changes, the families hold if and only if EventuallyHeld
\* and StopReported, and RebootFollows, StuckIsRebooted and EventuallyRuns
\* hold, each in its part.
Lasts == (part = "relay" /\ LeftOn) \/ (part = "stop" /\ line["estop"])
Answered == (part = "relay" /\ Held) \/ (part = "stop" /\ Reported)
Due ==
    \/ part = "shutdown" /\ (asked \/ actor = "stuck")
    \/ part \in SetupParts /\ budget.commands = 0
Settled ==
    \/ part = "shutdown" /\ RebootSettled
    \/ part \in SetupParts /\ SetUpSettled

\* What must happen at last: a relay that is left on is held, the emergency
\* stop is reported while it is pressed and only then, a charger that is stuck
\* or is to be rebooted is rebooted, and one that is set up runs.
DevicesServe == (<>[]Lasts => <>[]Answered) /\ StopLifted /\ (Due ~> Settled)
=============================================================================
