------------------------------ MODULE WsClient ------------------------------
(***************************************************************************)
(* The link to the CSMS: the websocket client                              *)
(* (ports/esp-idf/websocket/esp_websocket_client.c), the server object     *)
(* built on it (ports/esp-idf/ws.c) and the two threads that use it: the   *)
(* network manager's, which runs ws.c's callbacks with the manager's mutex *)
(* held, and the charger's (csms.c), which sends, reconnects and looks at  *)
(* the downtime.  The client has a task of its own; a restarted client has *)
(* a new one, and the old one may still be on its way out.                 *)
(*                                                                         *)
(* cl      struct esp_websocket_client: state, run, the two status bits,   *)
(*         wait_for_pong_resp;                                             *)
(* tpc     where each client task is; "none" is a free slot;               *)
(* thr     where the network manager's and the charger's thread are inside *)
(*         server_enable(), server_disable() and send();                   *)
(* ws      struct ws_server, and whether its restart is in the manager's   *)
(*         task list (queued) and the network is up (online);              *)
(* down    how long the link has really been down (history);               *)
(* reboot  ext_post_process() asked for a reboot: the model stops there.   *)
(*                                                                         *)
(* A time is "zero" (the value 0, that is the epoch), "recent" or "old"    *)
(* (more than CSMS_REBOOT_TRIGGER_DOWNTIME_SEC, a day, ago).               *)
(***************************************************************************)
EXTENDS Naturals, FiniteSets

CONSTANTS
    RestartErrors,  \* RESTART_ERROR_COUNT
    MaxTasks,       \* bound: client tasks alive at once
    MaxWsFaults     \* bound: failures, closes by the server, lost networks

ASSUME WsAssumption ==
    /\ RestartErrors \in Nat
    /\ MaxTasks \in Nat \ {0}
    /\ MaxWsFaults \in Nat

VARIABLES cl, tpc, thr, ws, down, reboot, wsFaults

wsVars == <<cl, tpc, thr, ws, down, reboot, wsFaults>>

Tasks == 1..MaxTasks
Callers == {"net", "chg"}

TaskPcs == {"none", "begin", "loop", "lerr", "ltold", "poll", "perr", "pabort",
            "ptold", "finish", "stop", "end"}
CallerPcs == {"idle", "close", "werr", "wtold", "wait", "forced", "enable",
              "started", "serr", "stold"}

(* struct esp_websocket_client and struct ws_server. *)
Clients ==
    [state : {"UNKNOW", "INIT", "CONNECTED", "WAIT_TIMEOUT", "CLOSING"},
     run : BOOLEAN, stopped : BOOLEAN, closeSent : BOOLEAN, pong : BOOLEAN]

Servers ==
    [enabled : BOOLEAN, offline : {"zero", "recent", "old"}, started : BOOLEAN,
     errors : 0..RestartErrors, timer : BOOLEAN, queued : BOOLEAN, online : BOOLEAN]

Started == cl.state \in {"INIT", "CONNECTED", "WAIT_TIMEOUT", "CLOSING"}
Connected == cl.state = "CONNECTED"     \* esp_websocket_client_is_connected()

(* The network manager holds its mutex while its thread is in a callback.  *)
MutexFree == thr["net"] = "idle"

(* client->lock is held across a callback by these. *)
LockFree ==
    /\ \A i \in Tasks : tpc[i] \notin {"lerr", "ltold"}
    /\ \A c \in Callers : thr[c] \notin {"werr", "wtold", "serr", "stold"}

(* A task that was created has begun before a server has answered, let     *)
(* alone before seconds have passed.                                       *)
TasksBegan == \A i \in Tasks : tpc[i] # "begin"

TaskAt(i, pc) == tpc' = [tpc EXCEPT ![i] = pc]
CallerAt(c, pc) == thr' = [thr EXCEPT ![c] = pc]
Faulty == wsFaults > 0 /\ wsFaults' = wsFaults - 1

-----------------------------------------------------------------------------
(* Callbacks of ws.c, run in the thread that dispatches the event. *)

(* WEBSOCKET_EVENT_ERROR and _FINISH: one error too many puts the restart  *)
(* in the manager's task list, which takes the manager's mutex.            *)
OnErrorEvent ==
    \/ /\ ws.errors < RestartErrors
       /\ ws' = [ws EXCEPT !.errors = @ + 1]
    \/ /\ ws.errors = RestartErrors /\ MutexFree
       /\ ws' = [ws EXCEPT !.errors = 0, !.queued = TRUE]

\* Mutant: does not note the time.
OnDisconnectedEvent_Lost == UNCHANGED ws

OnDisconnectedEvent ==
    ws' = [ws EXCEPT !.offline = IF @ = "zero" THEN "recent" ELSE @]

OnConnectedEvent == ws' = [ws EXCEPT !.offline = "zero", !.timer = FALSE]

(* esp_websocket_client_abort_connection() up to its event: the state is   *)
(* changed first, the DISCONNECTED callback runs afterwards.               *)
abort_connection(st) == IF st = "UNKNOW" THEN st ELSE "WAIT_TIMEOUT"

-----------------------------------------------------------------------------
(* esp_websocket_client_task() *)

TaskBegin(i) ==
    /\ tpc[i] = "begin"
    /\ cl' = [cl EXCEPT !.run = TRUE, !.state = "INIT", !.stopped = FALSE,
                        !.closeSent = FALSE]
    /\ TaskAt(i, "loop")
    /\ UNCHANGED <<thr, ws, down, wsFaults>>

TaskLoopEnds(i) ==
    /\ tpc[i] = "loop" /\ ~cl.run
    /\ TaskAt(i, "finish")
    /\ UNCHANGED <<cl, thr, ws, down, wsFaults>>

InLoop(i, st) == tpc[i] = "loop" /\ cl.run /\ LockFree /\ cl.state = st

ConnectOk(i) ==
    /\ InLoop(i, "INIT") /\ ws.online /\ TasksBegan
    /\ cl' = [cl EXCEPT !.state = "CONNECTED", !.pong = FALSE]
    /\ OnConnectedEvent
    /\ down' = "recent"
    /\ TaskAt(i, "poll")
    /\ UNCHANGED <<thr, wsFaults>>

ConnectFails(i) ==
    /\ InLoop(i, "INIT") /\ TasksBegan
    /\ IF ws.online THEN Faulty ELSE UNCHANGED wsFaults
    /\ TaskAt(i, "lerr")
    /\ UNCHANGED <<cl, thr, ws, down>>

(* A PING is sent unless a close is under way; or no PONG came in time. *)
SendPing(i) ==
    /\ InLoop(i, "CONNECTED")
    /\ cl' = [cl EXCEPT !.pong = @ \/ ~cl.closeSent]
    /\ TaskAt(i, "poll")
    /\ UNCHANGED <<thr, ws, down, wsFaults>>

PongTimeout(i) ==
    /\ InLoop(i, "CONNECTED") /\ cl.pong /\ ~cl.closeSent
    /\ Faulty
    /\ TaskAt(i, "lerr")
    /\ UNCHANGED <<cl, thr, ws, down>>

WaitOver(i) ==
    /\ InLoop(i, "WAIT_TIMEOUT") /\ TasksBegan
    /\ cl' = [cl EXCEPT !.state = "INIT"]
    /\ TaskAt(i, "loop")
    /\ UNCHANGED <<thr, ws, down, wsFaults>>

EchoClose(i) ==
    /\ InLoop(i, "CLOSING")
    /\ cl' = [cl EXCEPT !.closeSent = TRUE]
    /\ TaskAt(i, "poll")
    /\ UNCHANGED <<thr, ws, down, wsFaults>>

(* The error callback, with the lock held, then the abort and its event. *)
TaskError(i) ==
    /\ tpc[i] = "lerr"
    /\ OnErrorEvent
    /\ cl' = [cl EXCEPT !.state = abort_connection(@)]
    /\ TaskAt(i, IF Started THEN "ltold" ELSE "poll")
    /\ UNCHANGED <<thr, down, wsFaults>>

TaskTold(i) ==
    /\ tpc[i] \in {"ltold", "ptold"}
    /\ OnDisconnectedEvent
    /\ TaskAt(i, IF tpc[i] = "ltold" THEN "poll" ELSE "loop")
    /\ UNCHANGED <<cl, thr, down, wsFaults>>

(* After the lock is given back the state is read again. *)
PollNothing(i) ==
    /\ tpc[i] = "poll" /\ ~(cl.state = "CLOSING" /\ cl.closeSent)
    /\ TaskAt(i, "loop")
    /\ UNCHANGED <<cl, thr, ws, down, wsFaults>>

PollFails(i) ==
    /\ tpc[i] = "poll" /\ Connected
    /\ IF ws.online THEN Faulty ELSE UNCHANGED wsFaults
    /\ TaskAt(i, "perr")
    /\ UNCHANGED <<cl, thr, ws, down>>

(* esp_websocket_client_recv(): a PONG, or the close frame of the server,  *)
(* its answer when this side closed first.                                 *)
RecvPong(i) ==
    /\ tpc[i] = "poll" /\ Connected /\ cl.pong
    /\ cl' = [cl EXCEPT !.pong = FALSE]
    /\ TaskAt(i, "loop")
    /\ UNCHANGED <<thr, ws, down, wsFaults>>

RecvClose(i) ==
    /\ tpc[i] = "poll" /\ Connected
    /\ IF cl.closeSent THEN UNCHANGED wsFaults ELSE Faulty
    /\ cl' = [cl EXCEPT !.state = "CLOSING"]
    /\ TaskAt(i, "loop")
    /\ UNCHANGED <<thr, ws, down>>

PollError(i) ==
    /\ tpc[i] = "perr"
    /\ OnErrorEvent
    /\ TaskAt(i, "pabort")
    /\ UNCHANGED <<cl, thr, down, wsFaults>>

PollAbort(i) ==
    /\ tpc[i] = "pabort" /\ LockFree
    /\ cl' = [cl EXCEPT !.state = abort_connection(@)]
    /\ TaskAt(i, IF Started THEN "ptold" ELSE "loop")
    /\ UNCHANGED <<thr, ws, down, wsFaults>>

(* The connection is closed for good: ws.c does not set close_reconnect,   *)
(* and does nothing on WEBSOCKET_EVENT_CLOSED.                             *)
PollClosed(i) ==
    /\ tpc[i] = "poll" /\ cl.state = "CLOSING" /\ cl.closeSent
    /\ cl' = [cl EXCEPT !.run = FALSE, !.state = "UNKNOW"]
    /\ TaskAt(i, "finish")
    /\ UNCHANGED <<thr, ws, down, wsFaults>>

TaskFinish(i) ==
    /\ tpc[i] = "finish"
    /\ OnErrorEvent
    /\ TaskAt(i, "stop")
    /\ UNCHANGED <<cl, thr, down, wsFaults>>

\* Mutant: the task ends without saying so.
TaskStop_Silent(i) ==
    /\ tpc[i] = "stop"
    /\ TaskAt(i, "end")
    /\ UNCHANGED <<cl, thr, ws, down, wsFaults>>

TaskStop(i) ==
    /\ tpc[i] = "stop"
    /\ cl' = [cl EXCEPT !.stopped = TRUE]
    /\ TaskAt(i, "end")
    /\ UNCHANGED <<thr, ws, down, wsFaults>>

(* The last write of the task comes after the bit its closer waits for.    *)
TaskEnd(i) ==
    /\ tpc[i] = "end"
    /\ cl' = [cl EXCEPT !.state = "UNKNOW"]
    /\ TaskAt(i, "none")
    /\ UNCHANGED <<thr, ws, down, wsFaults>>

esp_websocket_client_task(i) ==
    \/ TaskBegin(i) \/ TaskLoopEnds(i) \/ ConnectOk(i) \/ ConnectFails(i)
    \/ SendPing(i) \/ PongTimeout(i) \/ WaitOver(i) \/ EchoClose(i)
    \/ TaskError(i) \/ TaskTold(i) \/ PollNothing(i) \/ PollFails(i)
    \/ RecvPong(i) \/ RecvClose(i) \/ PollError(i) \/ PollAbort(i)
    \/ PollClosed(i) \/ TaskFinish(i) \/ TaskStop(i) \/ TaskEnd(i)

-----------------------------------------------------------------------------
(* ws.c disable(): esp_websocket_client_close() sends a close frame if it  *)
(* can, waits for the task to stop, and after a timeout makes it stop.     *)

Disabled(c, pc) ==
    /\ ws' = [ws EXCEPT !.enabled = FALSE]
    /\ CallerAt(c, pc)

CloseNotRunning(c) ==
    /\ thr[c] = "close" /\ ~cl.run
    /\ Disabled(c, "enable")
    /\ UNCHANGED <<cl, tpc, down, wsFaults>>

SendClose(c) ==
    /\ thr[c] = "close" /\ cl.run
    /\ Connected => LockFree
    /\ cl' = [cl EXCEPT !.closeSent = TRUE]
    /\ CallerAt(c, "wait")
    /\ UNCHANGED <<tpc, ws, down, wsFaults>>

SendCloseFails(c) ==
    /\ thr[c] = "close" /\ cl.run /\ Connected /\ LockFree
    /\ Faulty
    /\ CallerAt(c, "werr")
    /\ UNCHANGED <<cl, tpc, ws, down>>

(* esp_websocket_client_send_with_exact_opcode() failed: its error and     *)
(* DISCONNECTED callbacks run in the calling thread.                       *)
WriteError(c) ==
    /\ thr[c] \in {"werr", "serr"}
    /\ OnErrorEvent
    /\ cl' = [cl EXCEPT !.state = abort_connection(@),
                        !.closeSent = @ \/ (thr[c] = "werr" /\ ~Started)]
    /\ CallerAt(c, IF Started THEN (IF thr[c] = "werr" THEN "wtold" ELSE "stold")
                   ELSE (IF thr[c] = "werr" THEN "wait" ELSE "idle"))
    /\ UNCHANGED <<tpc, down, wsFaults>>

WriteTold(c) ==
    /\ thr[c] \in {"wtold", "stold"}
    /\ OnDisconnectedEvent
    /\ cl' = [cl EXCEPT !.closeSent = @ \/ thr[c] = "wtold"]
    /\ CallerAt(c, IF thr[c] = "wtold" THEN "wait" ELSE "idle")
    /\ UNCHANGED <<tpc, down, wsFaults>>

CloseStopped(c) ==
    /\ thr[c] = "wait" /\ cl.stopped
    /\ Disabled(c, "enable")
    /\ UNCHANGED <<cl, tpc, down, wsFaults>>

CloseTimeout(c) ==
    /\ thr[c] = "wait" /\ ~cl.stopped /\ TasksBegan
    /\ cl' = [cl EXCEPT !.run = FALSE]
    /\ CallerAt(c, "forced")
    /\ UNCHANGED <<tpc, ws, down, wsFaults>>

CloseForced(c) ==
    /\ thr[c] = "forced" /\ cl.stopped
    /\ cl' = [cl EXCEPT !.state = "UNKNOW"]
    /\ Disabled(c, "enable")
    /\ UNCHANGED <<tpc, down, wsFaults>>

(* ws.c enable(): esp_websocket_client_start() refuses a client whose      *)
(* state says that it runs; the fields of ws are set after it returned.    *)
EnableRefused(c) ==
    /\ thr[c] = "enable"
    /\ \/ Started /\ UNCHANGED wsFaults
       \/ Faulty
    /\ CallerAt(c, "idle")
    /\ UNCHANGED <<cl, tpc, ws, down>>

EnableStarts(c) ==
    /\ thr[c] = "enable" /\ ~Started
    /\ \E i \in Tasks :
         /\ tpc[i] = "none" /\ \A j \in 1..(i - 1) : tpc[j] # "none"
         /\ TaskAt(i, "begin")
    /\ cl' = [cl EXCEPT !.stopped = FALSE, !.closeSent = FALSE]
    /\ CallerAt(c, "started")
    /\ UNCHANGED <<ws, down, wsFaults>>

EnableDone(c) ==
    /\ thr[c] = "started"
    /\ ws' = [ws EXCEPT !.enabled = TRUE, !.offline = "recent"]
    /\ CallerAt(c, "idle")
    /\ UNCHANGED <<cl, tpc, down, wsFaults>>

Restart(c) ==
    \/ CloseNotRunning(c) \/ SendClose(c) \/ SendCloseFails(c)
    \/ WriteError(c) \/ WriteTold(c)
    \/ CloseStopped(c) \/ CloseTimeout(c) \/ CloseForced(c)
    \/ EnableRefused(c) \/ EnableStarts(c) \/ EnableDone(c)

-----------------------------------------------------------------------------
(* The network manager's thread. *)

(* do_task() runs on_websocket_error(): too early, it starts a timer that  *)
(* puts it in the list again; else it closes the client and starts it.     *)
on_websocket_error ==
    /\ MutexFree /\ ws.online /\ ws.queued
    /\ \/ ~ws.enabled /\ ws' = [ws EXCEPT !.queued = FALSE] /\ UNCHANGED thr
       \/ ws.enabled /\ ws' = [ws EXCEPT !.queued = FALSE, !.timer = TRUE]
                     /\ UNCHANGED thr
       \/ ws.enabled /\ ws' = [ws EXCEPT !.queued = FALSE]
                     /\ CallerAt("net", "close")
    /\ UNCHANGED <<cl, tpc, down, wsFaults>>

on_timeout ==
    /\ ws.timer /\ MutexFree /\ TasksBegan
    /\ ws' = [ws EXCEPT !.timer = FALSE, !.queued = TRUE]
    /\ UNCHANGED <<cl, tpc, thr, down, wsFaults>>

(* on_net_event(): only the first connection starts the client. *)
NetConnected ==
    /\ MutexFree /\ ~ws.online
    /\ ws' = [ws EXCEPT !.online = TRUE, !.timer = FALSE, !.started = TRUE]
    /\ IF ws.started THEN UNCHANGED thr ELSE CallerAt("net", "enable")
    /\ UNCHANGED <<cl, tpc, down, wsFaults>>

NetDisconnected ==
    /\ MutexFree /\ ws.online /\ Faulty
    /\ ws' = [ws EXCEPT !.online = FALSE, !.timer = FALSE]
    /\ UNCHANGED <<cl, tpc, thr, down>>

(* The charger's thread. *)

SendFails ==
    /\ thr["chg"] = "idle" /\ ws.enabled /\ Connected /\ LockFree
    /\ Faulty
    /\ CallerAt("chg", "serr")
    /\ UNCHANGED <<cl, tpc, ws, down>>

csms_reconnect ==
    /\ thr["chg"] = "idle" /\ Connected /\ Faulty
    /\ CallerAt("chg", "close")
    /\ UNCHANGED <<cl, tpc, ws, down>>

(* downtime(): the age of ws.offline, and 0 is a time like any other. *)
downtime ==
    IF ~ws.enabled \/ Connected THEN "recent"
    ELSE IF ws.offline = "zero" THEN "old" ELSE ws.offline

ext_post_process ==
    /\ thr["chg"] = "idle" /\ downtime = "old"
    /\ reboot' = TRUE
    /\ UNCHANGED <<cl, tpc, thr, ws, down, wsFaults>>

(* The network manager's thread holds its mutex and waits for a task that  *)
(* waits for the mutex in its error callback; or it waits for itself.      *)
NeedsMutex(pc) == /\ pc \in {"lerr", "perr", "finish", "werr", "serr"}
                  /\ ws.errors = RestartErrors

MutualWait ==
    \/ NeedsMutex(thr["net"])
    \/ /\ thr["net"] \in {"close", "wait", "forced"}
       /\ \/ \E i \in Tasks : NeedsMutex(tpc[i])
          \/ NeedsMutex(thr["chg"])

(* No thread takes a day between two statements, unless it is stuck. *)
DayPasses ==
    /\ \/ /\ \A i \in Tasks : tpc[i] \in {"none", "loop"}
          /\ \A c \in Callers : thr[c] \in {"idle", "forced"}
       \/ MutualWait
    /\ down' = IF Connected THEN "recent" ELSE "old"
    /\ ws' = [ws EXCEPT !.offline = IF @ = "recent" THEN "old" ELSE @]
    /\ UNCHANGED <<cl, tpc, thr, wsFaults>>

-----------------------------------------------------------------------------
WsInit ==
    /\ cl = [state |-> "UNKNOW", run |-> FALSE, stopped |-> TRUE,
             closeSent |-> FALSE, pong |-> FALSE]
    /\ tpc = [i \in Tasks |-> "none"]
    /\ thr = [c \in Callers |-> "idle"]
    /\ ws = [enabled |-> FALSE, offline |-> "zero", started |-> FALSE,
             errors |-> 0, timer |-> FALSE, queued |-> FALSE, online |-> FALSE]
    /\ down = "recent"
    /\ reboot = FALSE
    /\ wsFaults = MaxWsFaults

WsRuns ==
    \/ \E i \in Tasks : esp_websocket_client_task(i)
    \/ \E c \in Callers : Restart(c)
    \/ on_websocket_error \/ on_timeout
    \/ NetConnected \/ NetDisconnected
    \/ SendFails \/ csms_reconnect \/ DayPasses

WsNext ==
    /\ ~reboot
    /\ (WsRuns /\ UNCHANGED reboot) \/ ext_post_process

(* Tasks and threads run, and the network comes back. *)
WsFairness ==
    /\ \A i \in Tasks :
          WF_wsVars(~reboot /\ esp_websocket_client_task(i) /\ UNCHANGED reboot)
    /\ \A c \in Callers : WF_wsVars(~reboot /\ Restart(c) /\ UNCHANGED reboot)
    /\ WF_wsVars(~reboot /\ NetConnected /\ UNCHANGED reboot)

WsSpec == WsInit /\ [][WsNext]_wsVars /\ WsFairness

(* The variables keep their types. *)
WsTypeOK ==
    /\ cl \in Clients
    /\ tpc \in [Tasks -> TaskPcs]
    /\ thr \in [Callers -> CallerPcs]
    /\ ws \in Servers
    /\ down \in {"recent", "old"}
    /\ reboot \in BOOLEAN
    /\ wsFaults \in 0..MaxWsFaults

(* Somebody is between the state change of an abort and its callback. *)
AbortUnderWay ==
    \/ \E i \in Tasks : tpc[i] \in {"ltold", "ptold"}
    \/ \E c \in Callers : thr[c] \in {"wtold", "stold"}

Restarting == \E c \in Callers : thr[c] \in {"close", "werr", "wtold", "wait",
                                             "forced", "enable", "started"}

Live == {i \in Tasks : tpc[i] # "none"}
Alone == Cardinality(Live) <= 1

(* Between two connections of a client with one task the time of the loss  *)
(* is known, except during a restart and while the DISCONNECTED callback   *)
(* has yet to run: ws.c keeps 0 for "connected", and downtime() reads it   *)
(* as a time.                                                              *)
OfflineKnown ==
    /\ ws.enabled /\ cl.state \in {"INIT", "WAIT_TIMEOUT"}
    /\ Alone /\ ~AbortUnderWay /\ ~Restarting
    => ws.offline # "zero"

(* A reboot is asked for less than a day after the link was lost only when *)
(* the client has ended without a DISCONNECTED event (the server closed    *)
(* the connection), when that event is on its way, or when                 *)
(* the time of the last enable() outlived a connection made before         *)
(* enable() returned, during a restart, or when two tasks run the client.  *)
EarlyReboot ==
    reboot /\ down = "recent" =>
        \/ ws.offline = "zero" /\ (~Started \/ cl.state = "CLOSING" \/ AbortUnderWay)
        \/ ws.offline = "old"
        \/ Restarting \/ ~Alone

(* A thread that made the client stop waits for the stopped bit of a       *)
(* client that the other thread has started again in the meantime.         *)
StopMissed(c) == thr[c] = "forced" /\ cl.run

(* Restarting the client always comes to an end, in either thread, unless  *)
(* the network manager's thread is in the mutual wait above or the other   *)
(* thread's restart hid the stop from this one.                            *)
RestartDue(c) == thr[c] # "idle"
RestartSettled(c) == thr[c] = "idle" \/ MutualWait \/ StopMissed(c) \/ reboot
RestartEnds == \A c \in Callers : RestartDue(c) ~> RestartSettled(c)

(* A task in its loop finds the state its predecessor wrote last. *)
Overwritten == cl.state = "UNKNOW" /\ \E i \in Tasks : tpc[i] \in {"loop", "poll"}

(* Once nothing fails any more an enabled client gets its connection,      *)
(* unless it has no task left, its task found its state overwritten by the *)
(* task before it, or the threads wait for each other.                     *)
OnlineDue == wsFaults = 0 /\ ws.enabled
OnlineSettled ==
    \/ Connected \/ ~ws.enabled \/ reboot \/ MutualWait
    \/ Live = {} \/ Overwritten
EventuallyOnline == OnlineDue ~> OnlineSettled
=============================================================================
