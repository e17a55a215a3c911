------------------------------- MODULE NetMgr -------------------------------
(***************************************************************************)
(* The network manager (src/net/netmgr.c) over one network interface       *)
(* (ports/esp-idf/eth_w5500.c or ports/esp-idf/wifi.c).  A thread waits on *)
(* a counting semaphore, drains the queue of interface events without the  *)
(* mutex, and takes one step of a seven-state machine under the mutex.     *)
(* Timers, driver callbacks and other threads set flags, push events and   *)
(* post the semaphore at any moment.                                       *)
(*                                                                         *)
(* nm    the manager and its only entry, one field per C field;            *)
(* dev   the interface driver and the hardware below it;                   *)
(* msgq  the manager's event queue; sem the semaphore;                     *)
(* told  the last of CONNECTED and DISCONNECTED a subscriber heard, and    *)
(* dropped, whether a full queue ever lost an event: history, to state     *)
(*       properties.                                                       *)
(*                                                                         *)
(* Time is the single threshold that matters in a state: nm.elapsed says   *)
(* that the connection timeout (S1, S3, S5), the re-enable delay (S2) or   *)
(* the back-off (S4) has passed since the state was entered.               *)
(***************************************************************************)
EXTENDS Naturals, Sequences, SequencesExt

CONSTANTS
    MaxRetry,       \* NETMGR_MAX_RETRY
    MaxMessages,    \* MAX_MESSAGES, the capacity of msgq
    MaxPosts,       \* bound: the semaphore does not count beyond it
    MaxFaults       \* bound: failed calls, lost links, scans, repeated enables

ASSUME NetMgrAssumption ==
    /\ MaxRetry \in Nat \ {0}
    /\ MaxMessages \in Nat \ {0}
    /\ MaxPosts \in Nat \ {0}
    /\ MaxFaults \in Nat

VARIABLES nm, dev, msgq, sem, told, dropped

netMgrVars == <<nm, dev, msgq, sem, told, dropped>>

NetifEvents == {"UNKNOWN", "CONNECTED", "DISCONNECTED", "IP_ACQUIRED",
                "STARTED", "STOPPED"}

ExternalStates == {"OFF", "EXHAUSTED", "INITIALIZED", "DISABLED", "ENABLED",
                   "DISCONNECTED", "CONNECTED"}

(* struct netmgr and its struct netmgr_entry. *)
Managers ==
    [state : 0..6, event : NetifEvents, restart : BOOLEAN, errors : Nat,
     attempts : 0..MaxRetry, elapsed : BOOLEAN, external : ExternalStates,
     enabled : BOOLEAN, ping : BOOLEAN, tasks : {"none", "waiting", "again"},
     timer : BOOLEAN, wdt : BOOLEAN, fresh : BOOLEAN, health : BOOLEAN]

Exhausted(r) == r.attempts >= MaxRetry

-----------------------------------------------------------------------------
(* The interface driver.  phase is how far the link has come; every call   *)
(* may fail.  The events a call causes (pending) come from the system's    *)
(* event loop, whose task has a higher priority than the manager's thread: *)
(* they arrive after the step that made the call and before the next, and  *)
(* only if the driver's handlers are still hooked and the manager's        *)
(* callback is still registered.                                           *)

DevOk == [kind : {"eth", "wifi"}, static : BOOLEAN, cb : BOOLEAN,
          hooked : BOOLEAN, phase : {"off", "on", "linked", "addressed"},
          pending : Seq(NetifEvents), faults : 0..MaxFaults]

(* A driver call may fail for reasons of its own until the faults are used *)
(* up: from then on the system is calm.                                    *)
Calm(d) == d.faults = 0

Outcomes(d) == IF Calm(d) THEN {TRUE} ELSE BOOLEAN

Fault(d, ok) == IF ok THEN d ELSE [d EXCEPT !.faults = @ - 1]

DevAdd(d, es) == [d EXCEPT !.pending = @ \o es]

(* Results of a driver call: a set of pairs <<driver afterwards, success>>. *)
EthConnect(d) ==
    IF d.phase # "off" THEN {<<d, FALSE>>}      \* esp_eth_start: started already
    ELSE {IF ok THEN <<DevAdd([d EXCEPT !.phase = "on"], <<"STARTED">>), TRUE>>
                ELSE <<Fault(d, ok), FALSE>> : ok \in Outcomes(d)}

WifiConnect(d) ==
    {IF ok THEN <<[d EXCEPT !.phase = IF @ = "off" THEN "on" ELSE @], TRUE>>
           ELSE <<Fault(d, ok), FALSE>> : ok \in Outcomes(d)}

NetifConnect(d) == IF d.kind = "eth" THEN EthConnect(d) ELSE WifiConnect(d)

LinkLost(d) ==
    IF d.phase \in {"linked", "addressed"} THEN <<"DISCONNECTED">> ELSE <<>>

NetifDisconnect(d) ==
    IF d.kind = "eth" /\ d.phase = "off" THEN {<<d, FALSE>>}
    ELSE {IF ok
          THEN <<DevAdd([d EXCEPT !.phase = "off"],
                        LinkLost(d) \o (IF d.kind = "eth" THEN <<"STOPPED">>
                                                          ELSE <<>>)), TRUE>>
          ELSE <<Fault(d, ok), FALSE>> : ok \in Outcomes(d)}

NetifEnable(d) ==
    {<<DevAdd([Fault(d, ok) EXCEPT !.hooked = TRUE],
              IF ok /\ d.kind = "wifi" THEN <<"STARTED">> ELSE <<>>), ok>> :
        ok \in Outcomes(d)}

(* The Ethernet driver unhooks its handlers: what is pending will be lost. *)
NetifDisable(d) ==
    {<<IF d.kind = "eth" THEN [Fault(d, ok) EXCEPT !.hooked = FALSE]
       ELSE IF ok THEN DevAdd([d EXCEPT !.phase = "off"],
                              LinkLost(d) \o <<"STOPPED">>)
       ELSE Fault(d, ok), ok>> :
        ok \in Outcomes(d)}

(* init() and register_event_callback(): the Ethernet driver has one slot  *)
(* for a callback; set_ip_info() is not supported by the Wi-Fi interface.  *)
NetifInit(d) ==
    {<<[Fault(d, ok) EXCEPT !.cb = TRUE],
       /\ ok
       /\ ~(d.kind = "eth" /\ d.cb)
       /\ ~(d.kind = "wifi" /\ d.static)>> : ok \in Outcomes(d)}

NetifDeinit(d) == [d EXCEPT !.cb = FALSE]

-----------------------------------------------------------------------------
(* Guards of the transition table. *)

is_error(r) == r.enabled /\ (Exhausted(r) \/ r.errors >= MaxRetry)

is_state_s0(r) == \/ ~r.enabled \/ r.restart \/ Exhausted(r)
                  \/ r.state = 1 /\ r.elapsed

is_state_s1(r) == r.enabled /\ ~is_error(r)

is_state_s2(r) == r.state = 1 \/ (r.state = 3 /\ r.elapsed) \/ r.errors # 0

is_state_s3(r) == r.elapsed

is_state_s4(r) == \/ r.state = 3
                  \/ r.state = 5 /\ (r.elapsed \/ r.event = "DISCONNECTED")
                  \/ r.state = 6 /\ r.event # "IP_ACQUIRED"

is_state_s5(r) == r.attempts = 0 \/ r.elapsed       \* retry_first or back-off over

is_state_s6(r) == r.event = "IP_ACQUIRED"

NetGuard(name, r) ==
    CASE name = "is_state_s0" -> is_state_s0(r)
      [] name = "is_state_s1" -> is_state_s1(r)
      [] name = "is_state_s2" -> is_state_s2(r)
      [] name = "is_state_s3" -> is_state_s3(r)
      [] name = "is_state_s4" -> is_state_s4(r)
      [] name = "is_state_s5" -> is_state_s5(r)
      [] name = "is_state_s6" -> is_state_s6(r)
      [] name = "is_error"    -> is_error(r)
      [] name = "is_ping_req" -> r.ping
      [] name = "is_task_req" -> r.tasks # "none"

-----------------------------------------------------------------------------
(* Actions of the transition table: sets of pairs <<manager, driver>>. *)

do_disconnect(r, d) ==
    {<<[r EXCEPT !.timer = @ /\ r.state # 6,
                 !.errors = IF o[2] THEN @ ELSE @ + 1], o[1]>> :
        o \in NetifDisconnect(d)}

do_disable(r, d) ==
    UNION {{<<p[1], o[1]>> : o \in NetifDisable(p[2])} :
        p \in IF r.state >= 5 THEN do_disconnect(r, d) ELSE {<<r, d>>}}

do_off(r, d) ==
    {<<[p[1] EXCEPT !.wdt = FALSE, !.restart = FALSE], NetifDeinit(p[2])>> :
        p \in IF r.state >= 3 THEN do_disable(r, d) ELSE {<<r, d>>}}

do_on(r, d) ==
    {<<IF o[2] THEN [r EXCEPT !.wdt = TRUE]
               ELSE [r EXCEPT !.restart = TRUE, !.errors = @ + 1], o[1]>> :
        o \in NetifInit(d)}

do_enable(r, d) ==
    {<<IF o[2] THEN [r EXCEPT !.errors = 0]
               ELSE [r EXCEPT !.restart = TRUE, !.errors = @ + 1], o[1]>> :
        o \in NetifEnable(d)}

do_connect(r, d) ==
    {<<[r EXCEPT !.attempts = @ + 1, !.errors = IF o[2] THEN @ ELSE @ + 1,
                 !.fresh = FALSE], o[1]>> : o \in NetifConnect(d)}

do_connected(r, d) == {<<[r EXCEPT !.attempts = 0, !.timer = TRUE], d>>}

do_ping(r, d) ==
    LET up == d.phase = "addressed"
    IN  {<<[r EXCEPT !.ping = FALSE, !.errors = IF up /\ ok THEN @ ELSE @ + 1],
           IF up THEN Fault(d, ok) ELSE d>> : ok \in Outcomes(d)}

(* Every task runs; those that return true stay and post the semaphore.    *)
(* One task: waiting for its first run, or to be run again.                *)
do_task(r, d) == {<<[r EXCEPT !.tasks = k], d>> : k \in {"none", "again"}}

(* The unrecoverable callback: the application registers none. *)
do_reset(r, d) == {<<r, d>>}

NetAction(name, r, d) ==
    CASE name = "do_on"          -> do_on(r, d)
      [] name = "do_reset"       -> do_reset(r, d)
      [] name = "do_off"         -> do_off(r, d)
      [] name \in {"do_initialized", "do_enabled"} -> {<<r, d>>}
      [] name = "do_enable"      -> do_enable(r, d)
      [] name = "do_disable"     -> do_disable(r, d)
      [] name = "do_connect"     -> do_connect(r, d)
      [] name = "do_disconnect"  -> do_disconnect(r, d)
      [] name = "do_connected"   -> do_connected(r, d)
      [] name = "do_ping"        -> do_ping(r, d)
      [] name = "do_task"        -> do_task(r, d)

NetTransitions == <<
    <<0, "is_state_s1", "do_on",          1>>,
    <<0, "is_error",    "do_reset",       0>>,
    <<1, "is_state_s0", "do_off",         0>>,
    <<1, "is_state_s2", "do_initialized", 2>>,
    <<2, "is_state_s0", "do_off",         0>>,
    <<2, "is_state_s3", "do_enable",      3>>,
    <<3, "is_state_s0", "do_off",         0>>,
    <<3, "is_state_s2", "do_disable",     2>>,
    <<3, "is_state_s4", "do_enabled",     4>>,
    <<4, "is_state_s0", "do_off",         0>>,
    <<4, "is_state_s2", "do_disable",     2>>,
    <<4, "is_state_s5", "do_connect",     5>>,
    <<5, "is_state_s0", "do_off",         0>>,
    <<5, "is_state_s2", "do_disable",     2>>,
    <<5, "is_state_s4", "do_disconnect",  4>>,
    <<5, "is_state_s6", "do_connected",   6>>,
    <<6, "is_state_s0", "do_off",         0>>,
    <<6, "is_state_s2", "do_disable",     2>>,
    <<6, "is_state_s4", "do_disconnect",  4>>,
    <<6, "is_ping_req", "do_ping",        6>>,
    <<6, "is_task_req", "do_task",        6>> >>

-----------------------------------------------------------------------------
(* What subscribers see. *)

get_event_from_state(r, next, prev) ==
    CASE next = 0 /\ Exhausted(r) -> "EXHAUSTED"
      [] next = 2 /\ prev > 2     -> "DISABLED"
      [] next = 4 /\ prev > 4     -> "DISCONNECTED"
      [] next \in {0, 1} /\ ~(next = 0 /\ Exhausted(r)) -> "OFF"
      [] next \in {2, 3} /\ ~(next = 2 /\ prev > 2)     -> "INITIALIZED"
      [] next \in {4, 5} /\ ~(next = 4 /\ prev > 4)     -> "ENABLED"
      [] next = 6                 -> "CONNECTED"

(* The events dispatched when the external state changes, in order. *)
Dispatched(next, prev, e) ==
    (IF next < prev /\ prev >= 6 THEN <<"DISCONNECTED">> ELSE <<>>)
    \o (IF next < prev /\ prev >= 4 THEN <<"DISABLED">> ELSE <<>>)
    \o <<e>>

(* A subscriber of CONNECTED and DISCONNECTED, such as ws.c. *)
Heard(before, es) ==
    LET mine == SelectSeq(es, LAMBDA e : e \in {"CONNECTED", "DISCONNECTED"})
    IN  IF mine = <<>> THEN before ELSE mine[Len(mine)]

on_state_change(r, next, prev) ==
    LET e == get_event_from_state(r, next, prev)
    IN  [r EXCEPT !.state = next, !.elapsed = FALSE, !.external = e]

-----------------------------------------------------------------------------
NetMgrInit ==
    /\ \E h \in BOOLEAN : nm =
            [state |-> 0, event |-> "UNKNOWN", restart |-> FALSE, errors |-> 0,
             attempts |-> 0, elapsed |-> FALSE, external |-> "OFF",
             enabled |-> FALSE, ping |-> FALSE, tasks |-> "none", timer |-> FALSE,
             wdt |-> FALSE, fresh |-> FALSE, health |-> h]
    /\ dev \in [kind : {"eth", "wifi"}, static : BOOLEAN, cb : {FALSE},
                hooked : {FALSE}, phase : {"off"}, pending : {<<>>},
                faults : {MaxFaults}]
    /\ dev.static => dev.kind = "wifi"
    /\ msgq = <<>>
    /\ sem = 0
    /\ told = "DISCONNECTED"
    /\ dropped = FALSE

\* Mutant: takes the first event of the queue for the last one.
process_event_First(r) ==
    [r EXCEPT !.event = IF msgq = <<>> THEN @ ELSE Head(msgq),
              !.restart = @ \/ Contains(msgq, "UNKNOWN"),
              !.fresh = @ \/ Contains(msgq, "IP_ACQUIRED")]

(* process_event(): empties msgq, without the mutex. *)
process_event(r) ==
    [r EXCEPT !.event = IF msgq = <<>> THEN @ ELSE Last(msgq),
              !.restart = @ \/ Contains(msgq, "UNKNOWN"),
              !.fresh = @ \/ Contains(msgq, "IP_ACQUIRED")]

(* The first row of the present state whose guard holds; 0 when none does. *)
NetRow(r) ==
    LET rows == {i \in DOMAIN NetTransitions :
                    /\ NetTransitions[i][1] = r.state
                    /\ NetGuard(NetTransitions[i][2], r)}
    IN  IF rows = {} THEN 0 ELSE CHOOSE i \in rows : \A j \in rows : i <= j

(* fsm_step() with its state-change callback: what row i may lead to, each   *)
(* the manager, the driver and the events dispatched.                      *)
fsm_step(r, d, i) ==
    LET t == NetTransitions[i]
        Changed(p) ==
            IF t[4] = r.state THEN <<p[1], p[2], <<>>>>
            ELSE LET n == on_state_change(p[1], t[4], r.state)
                 IN  <<n, p[2], IF n.external = r.external THEN <<>>
                                ELSE Dispatched(t[4], r.state, n.external)>>
    IN  IF i = 0 THEN {<<r, d, <<>>>>}
        ELSE {Changed(p) : p \in NetAction(t[3], r, d)}

(* sem_post(): the count saturates, a post fewer than the code would make. *)
Posted(n) == IF n < MaxPosts THEN n + 1 ELSE n

(* on_eth_event(), on_wifi_events() and on_netif_event(): events are pushed *)
(* while msgq has room, and the semaphore is posted either way.            *)
Expand(d, es) ==
    IF d.kind = "wifi" /\ es = <<"CONNECTED">>
    THEN <<"CONNECTED", "IP_ACQUIRED">> ELSE es

on_netif_event(q, d, raised, posts) ==
    LET es == IF d.hooked /\ d.cb THEN Expand(d, raised) ELSE <<>>
        room == MaxMessages - Len(q)
    IN  [msgq |-> q \o SubSeq(es, 1, IF Len(es) < room THEN Len(es) ELSE room),
         sem  |-> IF es # <<>> THEN Posted(posts) ELSE posts,
         dropped |-> dropped \/ Len(es) > room]

(* process(): a step, after which the semaphore is posted again unless the *)
(* manager is connected, or off with its retries used up.  A task that     *)
(* stays posts it too.                                                     *)
AfterStep(b, row) ==
    LET Posts(r) == \/ r.state # 6 /\ ~(r.state = 0 /\ Exhausted(r))
                    \/ /\ r.state = 6 /\ row # 0 /\ r.tasks = "again"
                       /\ NetTransitions[row][3] = "do_task"
    IN  {[nm |-> s[1], dev |-> [s[2] EXCEPT !.pending = <<>>],
          told |-> Heard(told, s[3]),
          inbox |-> on_netif_event(<<>>, s[2], s[2].pending,
                                   IF Posts(s[1]) THEN sem ELSE sem - 1)] :
            s \in fsm_step(b, dev, row)}

Receive(inbox) ==
    /\ msgq' = inbox.msgq
    /\ sem' = inbox.sem
    /\ dropped' = inbox.dropped

(* thread(): sem_wait() returns, the queue is emptied, and process() takes *)
(* its step under the mutex.  An event that arrives between the two calls  *)
(* is one that arrives after the step.                                     *)
process ==
    /\ sem > 0
    /\ \E b \in {process_event(nm)} : \E row \in {NetRow(b)} :
         \E a \in AfterStep(b, row) :
            /\ nm' = a.nm
            /\ dev' = a.dev
            /\ told' = a.told
            /\ Receive(a.inbox)

-----------------------------------------------------------------------------
(* Other threads, timers and the driver. *)

netmgr_enable ==
    /\ nm.enabled => ~Calm(dev)
    /\ sem' = Posted(sem)
    /\ dev' = IF nm.enabled THEN Fault(dev, FALSE) ELSE dev
    /\ nm' = [nm EXCEPT !.attempts = 0, !.errors = 0, !.enabled = TRUE]
    /\ UNCHANGED <<msgq, told, dropped>>

netmgr_disable ==
    /\ nm.enabled /\ ~Calm(dev)
    /\ sem' = Posted(sem)
    /\ dev' = Fault(dev, FALSE)
    /\ nm' = [nm EXCEPT !.enabled = FALSE]
    /\ UNCHANGED <<msgq, told, dropped>>

netmgr_register_task ==
    /\ nm.tasks = "none"
    /\ sem' = Posted(sem)
    /\ nm' = [nm EXCEPT !.tasks = "waiting"]
    /\ UNCHANGED <<dev, msgq, told, dropped>>

on_periodic_timer ==
    /\ nm.timer
    /\ sem' = Posted(sem)
    /\ nm' = [nm EXCEPT !.ping = @ \/ nm.health]
    /\ UNCHANGED <<dev, msgq, told, dropped>>

(* Once the system is calm a step is not 10 s late and a link comes up     *)
(* within the connection timeout.                                          *)
TimePasses ==
    /\ ~nm.elapsed /\ nm.state \in 1..5
    /\ Calm(dev) =>
         \/ nm.state \in {2, 4}
         \/ /\ nm.state = 5 /\ dev.phase \in {"off", "addressed"}
            /\ msgq = <<>> /\ nm.event # "IP_ACQUIRED"
    /\ nm' = [nm EXCEPT !.elapsed = TRUE]
    /\ UNCHANGED <<dev, msgq, sem, told, dropped>>

(* The hardware below the driver. *)
Raise(d, ph, es) ==
    /\ dev' = [d EXCEPT !.phase = ph]
    /\ Receive(on_netif_event(msgq, dev, es, sem))
    /\ UNCHANGED <<nm, told>>

LinkUp ==
    /\ dev.phase = "on"
    /\ Raise(dev, IF dev.kind = "wifi" THEN "addressed" ELSE "linked", <<"CONNECTED">>)

GotIp == dev.phase = "linked" /\ Raise(dev, "addressed", <<"IP_ACQUIRED">>)

LinkDown ==
    /\ dev.phase \in {"linked", "addressed"} /\ ~Calm(dev)
    /\ Raise(Fault(dev, FALSE), "on", <<"DISCONNECTED">>)

(* A Wi-Fi scan asked for on the console: on_wifi_events() passes it on as *)
(* an event the manager does not know.                                     *)
WifiScan ==
    /\ dev.kind = "wifi" /\ dev.hooked /\ ~Calm(dev)
    /\ Raise(Fault(dev, FALSE), dev.phase, <<"UNKNOWN">>)

(* From some moment on nothing fails any more. *)
CalmDown ==
    /\ ~Calm(dev)
    /\ dev' = [dev EXCEPT !.faults = 0]
    /\ UNCHANGED <<nm, msgq, sem, told, dropped>>

NetMgrNext ==
    \/ process
    \/ netmgr_enable \/ netmgr_disable \/ netmgr_register_task
    \/ on_periodic_timer \/ TimePasses
    \/ LinkUp \/ GotIp \/ LinkDown \/ WifiScan \/ CalmDown

(* The thread takes a step when it can, time passes, and hardware that is  *)
(* calm comes up.                                                          *)
NetMgrFairness ==
    /\ WF_netMgrVars(process)
    /\ WF_netMgrVars(TimePasses)
    /\ WF_netMgrVars(on_periodic_timer)
    /\ WF_netMgrVars(LinkUp)
    /\ WF_netMgrVars(GotIp)

NetMgrSpec == NetMgrInit /\ [][NetMgrNext]_netMgrVars /\ NetMgrFairness

-----------------------------------------------------------------------------
(* The variables keep their types; the queue its capacity, the attempts    *)
(* their maximum.                                                          *)
NetMgrTypeOK ==
    /\ nm \in Managers
    /\ dev \in DevOk
    /\ msgq \in Seq(NetifEvents) /\ Len(msgq) <= MaxMessages
    /\ sem \in Nat
    /\ told \in {"CONNECTED", "DISCONNECTED"}
    /\ dropped \in BOOLEAN

(* Subscribers of CONNECTED and DISCONNECTED were last told CONNECTED      *)
(* exactly while the manager is in S6, whatever path led out of it         *)
(* (on_state_change dispatches the missing DISCONNECTED itself).           *)
SubscribersInStep == (told = "CONNECTED") <=> (nm.state = 6)

(* While the watchdog is on the thread can never be left asleep: either    *)
(* the semaphore is posted or the manager is connected and its periodic    *)
(* timer runs, so the watchdog is fed (netmgr.c:925, 941).                 *)
WatchdogFed ==
    nm.wdt => sem > 0 \/ (nm.state = 6 /\ nm.timer)

(* The ping timer runs exactly while connected: it is neither forgotten    *)
(* nor left behind by any way out of S6.                                   *)
TimerWithConnection == nm.timer <=> nm.state = 6

(* The manager is in S6 without an address only for as long as an event    *)
(* that says so is on its way, because the IP_ACQUIRED it acts on is older *)
(* than the connection (entry->event survives do_disable), or because a    *)
(* full queue swallowed the event.                                         *)
ConnectedWithAddress ==
    nm.state = 6 /\ dev.phase # "addressed" =>
        \/ ~nm.fresh \/ dropped
        \/ msgq # <<>>
        \/ nm.event # "IP_ACQUIRED"

(* Once nothing fails any more, an enabled manager reaches S6 on a link    *)
(* with an address, or has used up its attempts; or it is in S6 on an      *)
(* IP_ACQUIRED older than the connection, which netmgr_enable() brings     *)
(* about when it clears the error count while S5 waits for the link.       *)
ConnectionDue == Calm(dev) /\ nm.enabled
ConnectionSettled ==
    \/ nm.state = 6 /\ (dev.phase = "addressed" \/ ~nm.fresh)
    \/ Exhausted(nm)
    \/ nm.errors >= MaxRetry
EventuallyConnected == ConnectionDue ~> ConnectionSettled

(* Without health checks, a task registered while the connection lasts is  *)
(* run or the connection goes down: each tick of the periodic timer posts  *)
(* the semaphore.  (With health checks the step of every tick goes to the  *)
(* ping row, which comes first in the table, and a task whose own post was *)
(* spent by a reconnection can wait for ever.)                             *)
TaskDue == nm.tasks = "waiting" /\ nm.state = 6 /\ ~nm.health
TaskSettled == nm.tasks # "waiting" \/ nm.state # 6
TaskServed == TaskDue ~> TaskSettled

\* What the charger relies on in netmgr.c: the subscribers, the watchdog and
\* the periodic timer follow the manager in and out of S6, and S6 means that
\* there is an address.
ManagerInStep ==
    /\ NetMgrTypeOK /\ SubscribersInStep /\ WatchdogFed /\ TimerWithConnection
    /\ ConnectedWithAddress
=============================================================================
