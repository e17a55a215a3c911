---------------------------- MODULE ChargerSetup ----------------------------
(***************************************************************************)
(* How the charger's settings become a charger: the commands of the        *)
(* command line (cli/cmd_config.c), the record they change, and the start  *)
(* of the application (app.c, charger/factory.c), which makes the safety   *)
(* entries, the charger and the connector from it, down to the duty cycle  *)
(* that tells the vehicle how much it may draw (iec61851.c).  The command  *)
(* line has a thread of its own, started before the charger is made.       *)
(*                                                                         *)
(* ram     chg.mode and chg.param as config.c holds them, flash as stored; *)
(*         limit is the maximum the user last asked for (history; 0: none) *)
(*         and dropped that the code has put the default in its place;     *)
(* cli     a command between its config_get() and config_set(), with what  *)
(*         it is about to write;                                           *)
(* app     where start_charger() is, and what it has made so far; moded:   *)
(*         the mode was changed meanwhile (history);                       *)
(* watch   the list of struct safety.                                      *)
(*                                                                         *)
(* A parameter set has the two output limits in mA and the input fields    *)
(* that are not 0: nobody looks at more of them.  The record is saved by   *)
(* the command and by every other thread that saves an entry of its own;   *)
(* what a failing save does is in Config.                                  *)
(***************************************************************************)
EXTENDS Integers, FiniteSets, Sequences

CONSTANTS
    Amps,           \* the values a user gives to a command, in A
    MaxCommands,    \* bound: commands and power cycles
    MaxSetupFaults  \* bound: failed allocations and entries not enabled

ASSUME SetupAssumption ==
    Amps \subseteq Nat /\ MaxCommands \in Nat /\ MaxSetupFaults \in Nat

VARIABLES ram, flash, cli, app, watch, budget

setupVars == <<ram, flash, cli, app, watch, budget>>

K == 1000
Inputs == {"voltage", "frequency", "current"}
Modes == {"free", "ocpp"}
Entries == <<"ip", "op", "es">>

Params == [max : Nat, min : Nat, inputs : SUBSET Inputs]
Zeroed == [max |-> 0, min |-> 0, inputs |-> {}]

charger_default_param == [max |-> 31818, min |-> 31818, inputs |-> Inputs]

charger_is_param_valid(p) == p.inputs = Inputs

connector_validate_param(p) == p.min <= p.max

-----------------------------------------------------------------------------
(* What the duty cycle for a current offers the vehicle. *)

iec61851_milliampere_to_duty(mA) ==
    IF mA > 80 * K THEN 96
    ELSE IF mA >= 55 * K THEN ((mA * 10) \div K) \div 25 + 64
    ELSE IF mA >= 6 * K THEN ((mA * 10) \div 6) \div K
    ELSE 100

iec61851_duty_to_milliampere(duty) ==
    IF duty > 97 THEN 0
    ELSE IF duty > 96 THEN 80 * K
    ELSE IF duty > 85 THEN ((duty - 64) * 25 * K) \div 10
    ELSE IF duty >= 10 THEN (duty * 6 * K) \div 10
    ELSE IF duty >= 8 THEN 6 * K
    ELSE 0

calc_output_current(p) == p.max

connector_start_duty(p) == iec61851_milliampere_to_duty(calc_output_current(p))

Offered(p) == iec61851_duty_to_milliampere(connector_start_duty(p))

-----------------------------------------------------------------------------
(* The command line. *)

Typed ==
    /\ cli.pc = "idle" /\ app.pc # "crashed"
    /\ budget.commands > 0 /\ budget' = [budget EXCEPT !.commands = @ - 1]

(* A command has read the parameters and is about to write p. *)
Writes(p, limit, dropped) ==
    cli' = [pc |-> "set", param |-> p, limit |-> limit, dropped |-> dropped]

\* Mutant: accepts more than the range.
InRange_Wide(a) == a >= 6 /\ a <= 60

InRange(a) == a >= 6 /\ a <= 50

(* do_set_input_voltage(), _frequency() and _current(). *)
do_set_input(f) ==
    /\ Typed
    /\ Writes([ram.param EXCEPT !.inputs = @ \union {f}], ram.limit, ram.dropped)
    /\ UNCHANGED <<ram, flash, app, watch>>

do_set_output_max_current ==
    /\ Typed
    /\ \E a \in {x \in Amps : InRange(x)} :
         Writes([ram.param EXCEPT !.max = a * K], a * K, FALSE)
    /\ UNCHANGED <<ram, flash, app, watch>>

(* It writes the default parameters where its siblings read the present    *)
(* ones, and has done so when it refuses the value.                        *)
do_set_output_min_current ==
    /\ Typed
    /\ ram' = [ram EXCEPT !.param = charger_default_param, !.dropped = ram.limit # 0]
    /\ \E a \in Amps :
         IF InRange(a) /\ a <= charger_default_param.max \div K
         THEN Writes([ram'.param EXCEPT !.min = a * K], ram.limit, ram'.dropped)
         ELSE UNCHANGED cli
    /\ UNCHANGED <<flash, app, watch>>

(* config_set() at the end of these. *)
CommandWrites ==
    /\ cli.pc = "set" /\ app.pc # "crashed"
    /\ ram' = [ram EXCEPT !.param = cli.param, !.limit = cli.limit,
                          !.dropped = cli.dropped]
    /\ cli' = [cli EXCEPT !.pc = "idle"]
    /\ UNCHANGED <<flash, app, watch, budget>>

SetsMode(mode) == app' = [app EXCEPT !.moded = @ \/ mode # ram.mode]

do_set_mode ==
    /\ Typed
    /\ \E mode \in Modes : ram' = [ram EXCEPT !.mode = mode] /\ SetsMode(mode)
    /\ UNCHANGED <<flash, cli, watch>>

(* config_reset(NULL): chg.mode has a default, chg.param has not. *)
do_reset ==
    /\ Typed
    /\ ram' = [mode |-> "free", param |-> Zeroed, limit |-> 0, dropped |-> FALSE]
    /\ SetsMode("free")
    /\ UNCHANGED <<flash, cli, watch>>

do_save ==
    /\ app.pc # "crashed" /\ flash # ram
    /\ flash' = ram
    /\ UNCHANGED <<ram, cli, app, watch, budget>>

-----------------------------------------------------------------------------
(* start_charger(), in the main thread. *)

At(pc) == app.pc = pc /\ UNCHANGED <<flash, cli>>

NoMemory ==
    /\ budget.faults > 0
    /\ budget' = [budget EXCEPT !.faults = @ - 1]

(* A null pointer is dereferenced: the chip restarts. *)
Crashes == app' = [app EXCEPT !.pc = "crashed"] /\ UNCHANGED <<ram, watch>>

get_charger_mode == ram.mode

(* charger_factory_create() reads the mode, then the parameters, and       *)
(* replaces parameters that are not valid; charger_init() crashes on a     *)
(* charger that could not be allocated.                                    *)
FactoryReadsMode ==
    /\ At("mode")
    /\ app' = [app EXCEPT !.pc = "param", !.charger = get_charger_mode]
    /\ UNCHANGED <<ram, watch, budget>>

FactoryReadsParam ==
    /\ At("param")
    /\ app' = [app EXCEPT !.pc = IF charger_is_param_valid(ram.param) THEN "init"
                                 ELSE "default",
                          !.param = ram.param, !.limit = ram.limit,
                          !.dropped = ram.dropped]
    /\ UNCHANGED <<ram, watch, budget>>

FactoryWritesDefault ==
    /\ At("default")
    /\ ram' = [ram EXCEPT !.param = charger_default_param, !.dropped = ram.limit # 0]
    /\ app' = [app EXCEPT !.pc = "init", !.param = charger_default_param,
                          !.dropped = app.limit # 0]
    /\ UNCHANGED <<watch, budget>>

charger_init ==
    /\ At("init")
    /\ \/ app' = [app EXCEPT !.pc = "safety"] /\ UNCHANGED <<ram, watch, budget>>
       \/ NoMemory /\ Crashes

(* The end of the list, unless the entry is in it. *)
add_entry(list, entry) ==
    IF \E i \in DOMAIN list : list[i] = entry THEN list ELSE Append(list, entry)

(* The three entries, one after the other; nobody looks at the result.     *)
(* Without memory for the list itself the first one crashes.               *)
safety_add_and_enable ==
    /\ At("safety")
    /\ \/ /\ \E n \in {app.tried + 1} :
              app' = [app EXCEPT !.tried = n,
                                 !.pc = IF n = Len(Entries) THEN "connector" ELSE @]
          /\ \/ watch' = add_entry(watch, Entries[app'.tried]) /\ UNCHANGED budget
             \/ NoMemory /\ UNCHANGED watch
          /\ UNCHANGED ram
       \/ app.tried = 0 /\ NoMemory /\ Crashes

connector_factory_create(mode) == IF mode = "ocpp" THEN "ocpp" ELSE "free"

(* Without memory for its entry the charger runs without the connector. *)
charger_attach_connector(connector) ==
    /\ \/ app' = [app EXCEPT !.pc = "running", !.connector = connector]
          /\ UNCHANGED budget
       \/ app' = [app EXCEPT !.pc = "running"] /\ NoMemory
    /\ UNCHANGED <<ram, watch>>

(* charger_attach_connector() dereferences what the factory returned. *)
CreateConnector ==
    /\ At("connector")
    /\ \/ /\ connector_validate_param(app.param)
          /\ charger_attach_connector(connector_factory_create(get_charger_mode))
       \/ ~connector_validate_param(app.param) /\ Crashes /\ UNCHANGED budget
       \/ NoMemory /\ Crashes

start_charger ==
    \/ FactoryReadsMode \/ FactoryReadsParam \/ FactoryWritesDefault
    \/ charger_init \/ safety_add_and_enable \/ CreateConnector

Boots ==
    /\ ram' = flash
    /\ cli' = [pc |-> "idle", param |-> Zeroed, limit |-> 0, dropped |-> FALSE]
    /\ app' = [pc |-> "mode", param |-> Zeroed, limit |-> 0, dropped |-> FALSE,
               charger |-> "none", connector |-> "none", tried |-> 0, moded |-> FALSE]
    /\ watch' = <<>>
    /\ UNCHANGED flash

CrashReboot == app.pc = "crashed" /\ Boots /\ UNCHANGED budget

PowerCycle ==
    /\ app.pc = "running" /\ budget.commands > 0 /\ Boots
    /\ budget' = [budget EXCEPT !.commands = @ - 1]

-----------------------------------------------------------------------------
(* The first start: config.c has applied its defaults. *)
SetupInit ==
    /\ flash = [mode |-> "free", param |-> Zeroed, limit |-> 0, dropped |-> FALSE]
    /\ ram = flash
    /\ cli = [pc |-> "idle", param |-> Zeroed, limit |-> 0, dropped |-> FALSE]
    /\ app = [pc |-> "mode", param |-> Zeroed, limit |-> 0, dropped |-> FALSE,
              charger |-> "none", connector |-> "none", tried |-> 0, moded |-> FALSE]
    /\ watch = <<>>
    /\ budget = [commands |-> MaxCommands, faults |-> MaxSetupFaults]

SetupNext ==
    \/ \E f \in Inputs : do_set_input(f)
    \/ do_set_output_max_current \/ do_set_output_min_current
    \/ CommandWrites \/ do_set_mode \/ do_reset \/ do_save
    \/ start_charger \/ CrashReboot \/ PowerCycle

(* The main thread runs, and a crash restarts the chip. *)
SetupFairness == WF_setupVars(start_charger \/ CrashReboot)

SetupSpec == SetupInit /\ [][SetupNext]_setupVars /\ SetupFairness

Records == [mode : Modes, param : Params, limit : Nat, dropped : BOOLEAN]

(* The variables keep their types; the list of entries their order. *)
SetupTypeOK ==
    /\ ram \in Records /\ flash \in Records
    /\ cli \in [pc : {"idle", "set"}, param : Params, limit : Nat, dropped : BOOLEAN]
    /\ app \in [pc : {"mode", "param", "default", "init", "safety", "connector",
                      "running", "crashed"},
                param : Params, limit : Nat, dropped : BOOLEAN,
                charger : Modes \union {"none"}, connector : Modes \union {"none"},
                tried : 0..Len(Entries), moded : BOOLEAN]
    /\ \E S \in SUBSET DOMAIN Entries :
         /\ Len(watch) = Cardinality(S)
         /\ \A i \in S : watch[Cardinality({j \in S : j <= i})] = Entries[i]
    /\ budget \in [commands : 0..MaxCommands, faults : 0..MaxSetupFaults]

(* A running charger offers what its parameters allow, and less only by    *)
(* the rounding of the duty cycle, for every maximum the commands accept:  *)
(* the currents above 51 A, which iec61851.c offers 55 A for, stay out of  *)
(* the record.                                                             *)
OfferedAsAllowed ==
    app.pc = "running" =>
        app.param.max - Offered(app.param) \in 0..599

(* A running charger offers more than the maximum the user asked for last  *)
(* only if the code itself put the default in its place: because           *)
(* chg.min_out_curr was set after it, or because a reset before it had     *)
(* cleared the input fields, without which the start takes the defaults.   *)
LimitKept ==
    app.pc = "running" /\ app.limit # 0 /\ ~app.dropped =>
        Offered(app.param) <= app.limit

(* The start crashes only for want of memory, or because the user set the  *)
(* maximum below the minimum, which chg.max_out_curr does not refuse; no   *)
(* other command leads there.                                              *)
CrashHasCause ==
    app.pc = "crashed" =>
        \/ budget.faults < MaxSetupFaults
        \/ app.param.max = app.limit /\ app.param.min > app.limit

(* The connector and the charger are of one kind, although each reads the  *)
(* mode for itself, unless the mode was changed while they were made or    *)
(* since; and only without memory is there none.                           *)
OneKind ==
    app.pc = "running" =>
        \/ app.connector = app.charger
        \/ app.connector = "none" /\ budget.faults < MaxSetupFaults
        \/ app.moded

(* Once the user leaves it alone, a charger comes to run, or its stored    *)
(* minimum is above its stored maximum: then it restarts for ever.         *)
SetUpSettled == app.pc = "running" \/ flash.param.min > flash.param.max
EventuallyRuns == (budget.commands = 0) ~> SetUpSettled

\* The stored parameters make a charger and a connector of one kind that offer
\* what was configured and no more than the input allows, or a crash with one
\* of the causes above.
SetUpRight ==
    SetupTypeOK /\ OfferedAsAllowed /\ LimitKept /\ CrashHasCause /\ OneKind
=============================================================================
