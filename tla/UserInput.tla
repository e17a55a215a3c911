----------------------------- MODULE UserInput ------------------------------
(***************************************************************************)
(* From the emergency stop to the safety check: the I/O expander and its   *)
(* interrupt (src/exio.c, src/periph.c), the thread that samples the       *)
(* buttons (src/usrinp.c), the safety entry that listens to it             *)
(* (src/safety/emergency_stop_safety.c), and the order in which main.c and *)
(* app.c start them.                                                       *)
(*                                                                         *)
(* The thread sleeps on a semaphore.  An interrupt posts it; the thread    *)
(* then samples all buttons until none is busy.  The interrupt of the      *)
(* debug button, the actor that reads the expander, the thread and the     *)
(* thread that boots are interleaved.  The button library is not part of   *)
(* the repository: a button changes when two samples in a row differ from  *)
(* its state, and is busy while it is pressed or about to change.          *)
(***************************************************************************)
EXTENDS Naturals, FiniteSets

CONSTANT MaxBusFaults    \* reads of the expander for the stop that may fail

ASSUME InputAssumption == MaxBusFaults \in Nat

Buttons == {"dbg", "estop", "usb"}
Expander == {"estop", "usb"}

VARIABLES
    line,      \* the level of each input
    button,    \* what the library holds of each: pressed, changing
    poll,      \* the count of the semaphore
    sampler,   \* where the thread of usrinp.c is
    busy,      \* a button sampled in this round is busy
    exio,      \* the actor that reads the expander has been woken
    dbgbtn,    \* raised, intr: the interrupt is enabled, isr: it is being served
    es,        \* enabled, pressed: the safety entry
    boot,      \* how far main() has come
    excuses,   \* why an input may have gone unnoticed
    busFaults

inputVars == <<line, button, poll, sampler, busy, exio, dbgbtn, es, boot, excuses, busFaults>>

\* More posts than this add nothing: every one makes the thread sample all.
MaxPolls == 1
Post(n) == IF poll + n > MaxPolls THEN MaxPolls ELSE poll + n

-----------------------------------------------------------------------------
(* The inputs *)

on_gpio_intr_Ends ==
    /\ dbgbtn.isr
    /\ dbgbtn' = [raised |-> TRUE, intr |-> FALSE, isr |-> FALSE]
    /\ UNCHANGED <<line, button, poll, sampler, busy, exio, es, boot, excuses, busFaults>>

\* on_gpio_intr(): the semaphore is posted before the interrupt is disabled
\* and raised is set, and the thread may run on the other core in between.
on_gpio_intr(pressed) ==
    IF pressed /\ dbgbtn.intr /\ ~dbgbtn.isr
    THEN poll' = Post(1) /\ dbgbtn' = [dbgbtn EXCEPT !.isr = TRUE]
    ELSE UNCHANGED <<poll, dbgbtn>>

\* An input changes.  The expander interrupts on every change of its inputs:
\* on_exio_intr() wakes the actor.
Change(i) ==
    /\ line' = [line EXCEPT ![i] = ~@]
    /\ IF i \in Expander
       THEN exio' = TRUE /\ UNCHANGED <<poll, dbgbtn>>
       ELSE on_gpio_intr(~line[i]) /\ UNCHANGED exio
    /\ boot # "early"
    /\ UNCHANGED <<button, sampler, busy, es, boot, excuses, busFaults>>

\* exio_handler(): only a level that is high raises.  exio_get_intr_source()
\* does not look at the result of the read: when it fails nothing is raised.
exio_handler ==
    /\ exio
    /\ exio' = FALSE
    /\ \/ /\ poll' = Post(Cardinality({i \in Expander : line[i]}))
          /\ UNCHANGED <<excuses, busFaults>>
       \/ /\ busFaults < MaxBusFaults
          /\ busFaults' = busFaults + 1
          /\ excuses' = excuses \union {"bus"}
          /\ UNCHANGED poll
    /\ UNCHANGED <<line, button, sampler, busy, dbgbtn, es, boot>>

-----------------------------------------------------------------------------
(* The thread of usrinp.c *)

\* button_step() and button_busy().
button_step(b, level) ==
    IF level = b.pressed THEN [b EXCEPT !.changing = FALSE]
    ELSE IF b.changing THEN [pressed |-> level, changing |-> FALSE]
    ELSE [b EXCEPT !.changing = TRUE]

button_busy(b) == b.pressed \/ b.changing

\* get_exio_state() and get_estop_state(), get_usb_vbus_state(): when the
\* expander cannot be read the level is that of the last time, which the
\* state of the button tells.
prev(b) == b.pressed # b.changing

Levels ==
    {line["estop"]} \union IF busFaults < MaxBusFaults THEN {prev(button["estop"])} ELSE {}

Sampled(i, level) ==
    /\ button' = [button EXCEPT ![i] = button_step(@, level)]
    /\ busy' = (busy \/ button_busy(button_step(button[i], level)))
    /\ busFaults' = IF level = line[i] THEN busFaults ELSE busFaults + 1

TaskWakes ==
    /\ sampler = "wait" /\ poll > 0 /\ boot # "early"
    /\ poll' = poll - 1
    /\ sampler' = "dbg"
    /\ busy' = FALSE
    /\ UNCHANGED <<line, button, exio, dbgbtn, es, boot, excuses, busFaults>>

\* Mutant: leaves the interrupt disabled.
EnableInterrupt_Never(b) == UNCHANGED <<dbgbtn, excuses>>

\* The interrupt is enabled again once the button is idle and the interrupt
\* is known to have been served.
EnableInterrupt(b) ==
    /\ dbgbtn' = IF ~button_busy(b) /\ dbgbtn.raised
                 THEN [dbgbtn EXCEPT !.raised = FALSE, !.intr = TRUE] ELSE dbgbtn
    /\ excuses' = IF dbgbtn.isr /\ ~button_busy(b)
                  THEN excuses \union {"served early"} ELSE excuses

process_button ==
    /\ sampler = "dbg"
    /\ Sampled("dbg", line["dbg"])
    /\ EnableInterrupt(button_step(button["dbg"], line["dbg"]))
    /\ sampler' = "estop"
    /\ UNCHANGED <<line, poll, exio, es, boot>>

\* on_emergency_stop() of the safety entry, if it has been registered.
on_emergency_stop(b) ==
    es' = IF es.enabled THEN [es EXCEPT !.pressed = b.pressed] ELSE es

process_estop ==
    /\ sampler = "estop"
    /\ \E level \in Levels :
       LET b == button_step(button["estop"], level)
           turned == b.pressed # button["estop"].pressed
           failed == IF level = line["estop"] THEN {} ELSE {"bus"}
       IN  /\ Sampled("estop", level)
           /\ IF turned THEN on_emergency_stop(b) ELSE UNCHANGED es
           /\ excuses' = failed \union
                  IF ~turned THEN excuses
                  ELSE IF es.enabled THEN excuses \ {"before enable"}
                  ELSE excuses \union {"before enable"}
    /\ sampler' = "usb"
    /\ UNCHANGED <<line, poll, exio, dbgbtn, boot>>

\* process_usb(), whose reads are left to succeed, and the end of a round of
\* process(): another one follows after a sleep, as long as a button is busy.
process_usb ==
    /\ sampler = "usb"
    /\ Sampled("usb", line["usb"])
    /\ sampler' = IF busy' THEN "sleep" ELSE "wait"
    /\ UNCHANGED <<line, poll, exio, dbgbtn, es, boot, excuses>>

NextRound ==
    /\ sampler = "sleep"
    /\ sampler' = "dbg"
    /\ busy' = FALSE
    /\ UNCHANGED <<line, button, poll, exio, dbgbtn, es, boot, excuses, busFaults>>

process == TaskWakes \/ process_button \/ process_estop \/ process_usb \/ NextRound

-----------------------------------------------------------------------------
(* The boot *)

\* usrinp_init(): main() has already called periph_init().
usrinp_init ==
    /\ boot = "early"
    /\ boot' = "started"
    /\ UNCHANGED <<line, button, poll, sampler, busy, exio, dbgbtn, es, excuses, busFaults>>

\* app_init() raises the USB input, in case it is already connected.
usrinp_raise ==
    /\ boot = "started"
    /\ boot' = "raised"
    /\ poll' = Post(1)
    /\ UNCHANGED <<line, button, sampler, busy, exio, dbgbtn, es, excuses, busFaults>>

\* start_charger() adds the emergency stop to the safety entries: enable().
enable ==
    /\ boot = "raised"
    /\ boot' = "done"
    /\ es' = [es EXCEPT !.enabled = TRUE]
    /\ UNCHANGED <<line, button, poll, sampler, busy, exio, dbgbtn, excuses, busFaults>>

main == usrinp_init \/ usrinp_raise \/ enable

InputInit ==
    /\ line \in [Buttons -> BOOLEAN]
    /\ button = [i \in Buttons |-> [pressed |-> FALSE, changing |-> FALSE]]
    /\ poll = 0
    /\ sampler = "wait"
    /\ busy = FALSE
    /\ exio = FALSE
    /\ dbgbtn = [raised |-> FALSE, intr |-> TRUE, isr |-> FALSE]
    /\ es = [enabled |-> FALSE, pressed |-> FALSE]
    /\ boot = "early"
    /\ excuses = {}
    /\ busFaults = 0

InputNext ==
    \/ \E i \in Buttons : Change(i)
    \/ on_gpio_intr_Ends \/ exio_handler \/ process \/ main

\* Every thread runs; nobody has to touch an input.
InputFairness ==
    /\ WF_inputVars(process)
    /\ WF_inputVars(exio_handler)
    /\ WF_inputVars(on_gpio_intr_Ends)
    /\ WF_inputVars(main)

InputSpec == InputInit /\ [][InputNext]_inputVars /\ InputFairness

-----------------------------------------------------------------------------
(* Properties *)

\* The variables keep their types.
InputTypeOK ==
    /\ line \in [Buttons -> BOOLEAN]
    /\ button \in [Buttons -> [pressed : BOOLEAN, changing : BOOLEAN]]
    /\ poll \in 0..MaxPolls
    /\ sampler \in {"wait", "dbg", "estop", "usb", "sleep"}
    /\ busy \in BOOLEAN /\ exio \in BOOLEAN
    /\ dbgbtn \in [raised : BOOLEAN, intr : BOOLEAN, isr : BOOLEAN]
    /\ es \in [enabled : BOOLEAN, pressed : BOOLEAN]
    /\ boot \in {"early", "started", "raised", "done"}
    /\ excuses \subseteq {"bus", "served early", "before enable"}
    /\ busFaults \in 0..MaxBusFaults

\* Nothing is going on and nothing will, until an input changes.
AtRest ==
    /\ sampler = "wait" /\ poll = 0 /\ ~exio /\ ~dbgbtn.isr /\ boot = "done"

\* An emergency stop that is pressed and stays pressed is reported by check(),
\* and keeps being reported, unless it was pressed before start_charger()
\* registered the callback, or the expander could not be read when it
\* interrupted or when the thread sampled.  No order of wake-ups, samples and
\* releases hides a press.
Reported == es.pressed \/ excuses \intersect {"bus", "before enable"} # {}
StopReported == <>[](line["estop"]) => <>[]Reported

\* check() never goes on reporting an emergency stop that has been released.
StopLifted == <>[](~line["estop"]) => <>[](~es.pressed)

\* When everything is at rest check() agrees with the button, unless a read
\* of the expander failed.
RestAgrees == AtRest /\ es.pressed # line["estop"] => "bus" \in excuses

\* When everything is at rest the debug button can interrupt again, unless
\* the thread had finished its round between the post of the semaphore and
\* the end of on_gpio_intr(): then its interrupt stays disabled until another
\* input wakes the thread.
DebugButtonArmed == AtRest /\ ~dbgbtn.intr => "served early" \in excuses

\* Once the thread is at rest its inputs are what the buttons say, and can
\* wake it again.
InputsSettle == InputTypeOK /\ RestAgrees /\ DebugButtonArmed
=============================================================================
