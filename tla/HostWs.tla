------------------------------- MODULE HostWs -------------------------------
(***************************************************************************)
(* The websocket client of the host port (ports/host/ws.c) over            *)
(* libwebsockets, which is external: a thread that serves the context and  *)
(* connects again when it is not connected, and the charger's thread that  *)
(* sends and receives.  Nothing is locked between them.                    *)
(*                                                                         *)
(* context   what ws->context points to: nothing, a context, or one that   *)
(*           is destroyed;                                                 *)
(* wsi       what ws->wsi points to: nothing, a connection that is being   *)
(*           made, an open one, or one that is gone;                       *)
(* is_connected;  idle  the time since last_reconnect;  thread  the point  *)
(*           ws_thread() is at;  rxlen  the texts in rxq;                  *)
(* sender    send_data(): where it is, and whether the connection has gone *)
(*           since it tested is_connected (history);                       *)
(* lost      the contexts nothing points to any more (history);            *)
(* written   what the last write went to, and that flag (history);         *)
(* hostFaults  the failures so far (bound).                                *)
(***************************************************************************)
EXTENDS Integers

CONSTANTS
    RetryAfter,     \* DEFAULT_RECONNECT_INTERVAL_SEC
    RxTexts,        \* the texts rxq has room for
    MaxHostFaults   \* bound: failures of the network, the server and memory

ASSUME HostWsAssumption ==
    RetryAfter \in Nat \ {0} /\ RxTexts \in Nat /\ MaxHostFaults \in Nat

VARIABLES context, wsi, is_connected, idle, thread, rxlen, sender, lost, written,
          hostFaults

hostVars == <<context, wsi, is_connected, idle, thread, rxlen, sender, lost, written,
              hostFaults>>

NotWritten == [to |-> "open", raced |-> FALSE]

Handshaking == context = "live" /\ wsi = "connecting"

HostFault == hostFaults < MaxHostFaults /\ hostFaults' = hostFaults + 1

-----------------------------------------------------------------------------
(* LWS_CALLBACK_CLIENT_CLOSED and LWS_CALLBACK_CLIENT_CONNECTION_ERROR *)
ConnectionGone ==
    /\ wsi' = "gone"
    /\ is_connected' = FALSE
    /\ sender' = [sender EXCEPT !.raced = (sender.pc = "write")]
    /\ UNCHANGED rxlen

(* LWS_CALLBACK_CLIENT_ESTABLISHED *)
Established ==
    /\ wsi' = "open"
    /\ is_connected' = TRUE
    /\ UNCHANGED <<rxlen, sender>>

(* LWS_CALLBACK_CLIENT_RECEIVE: what does not fit is left out. *)
Received ==
    /\ rxlen' = IF rxlen < RxTexts THEN rxlen + 1 ELSE rxlen
    /\ UNCHANGED <<wsi, is_connected, sender>>

(* lws_service() of a context calls on_ws_event(), or has nothing to do; a *)
(* handshake ends within the interval, or it is a fault.                   *)
on_ws_event ==
    \/ /\ wsi = "connecting"
       /\ \/ Established /\ UNCHANGED hostFaults
          \/ ConnectionGone /\ HostFault
    \/ /\ wsi = "open"
       /\ \/ Received /\ UNCHANGED hostFaults
          \/ ConnectionGone /\ HostFault
    \/ /\ wsi = "connecting" => idle # RetryAfter - 1
       /\ UNCHANGED <<wsi, is_connected, rxlen, sender, hostFaults>>

(* The first half of the loop of ws_thread().  lws_service() of a context  *)
(* that is destroyed ends the program or does nothing.                     *)
ThreadService ==
    /\ thread = "service"
    /\ CASE context = "live" -> on_ws_event /\ thread' = "retry"
         [] context = "null" ->
              /\ thread' = "retry"
              /\ UNCHANGED <<wsi, is_connected, rxlen, sender, hostFaults>>
         [] context = "destroyed" ->
              /\ thread' \in {"retry", "crashed"}
              /\ UNCHANGED <<wsi, is_connected, rxlen, sender, hostFaults>>
    /\ UNCHANGED <<context, idle, lost, written>>

(* A new context; the one before is not destroyed. *)
connect_to_server ==
    /\ lost' = (lost \/ context = "live")
    /\ \/ context' = "null" /\ UNCHANGED wsi /\ HostFault
       \/ context' = "destroyed" /\ wsi' = "none" /\ HostFault
       \/ context' = "live" /\ wsi' = "connecting" /\ UNCHANGED hostFaults

RetryDue == ~is_connected /\ idle = RetryAfter

(* The second half of the loop. *)
ThreadRetry ==
    /\ thread = "retry"
    /\ thread' = "service"
    /\ IF RetryDue
       THEN connect_to_server /\ idle' = 0
       ELSE UNCHANGED <<context, wsi, hostFaults, lost, idle>>
    /\ UNCHANGED <<is_connected, rxlen, sender, written>>

SecondPasses ==
    /\ idle < RetryAfter
    /\ idle' = idle + 1
    /\ IF Handshaking /\ idle' = RetryAfter THEN HostFault ELSE UNCHANGED hostFaults
    /\ UNCHANGED <<context, wsi, is_connected, thread, rxlen, sender, lost, written>>

-----------------------------------------------------------------------------
(* send_data() of a text that is not too long, up to its copy *)
SendTest ==
    /\ thread # "crashed" /\ sender.pc = "idle" /\ is_connected
    /\ sender' = [pc |-> "write", raced |-> FALSE]
    /\ written' = NotWritten
    /\ UNCHANGED <<context, wsi, is_connected, idle, thread, rxlen, lost, hostFaults>>

(* lws_write() *)
SendWrite ==
    /\ thread # "crashed" /\ sender.pc = "write"
    /\ sender' = [pc |-> "idle", raced |-> FALSE]
    /\ written' = [to |-> wsi, raced |-> sender.raced]
    /\ UNCHANGED <<context, wsi, is_connected, idle, thread, rxlen, lost, hostFaults>>

(* One read takes up to a buffer of texts. *)
recv_data ==
    /\ thread # "crashed" /\ rxlen > 0
    /\ rxlen' \in 0..(rxlen - 1)
    /\ UNCHANGED <<context, wsi, is_connected, idle, thread, sender, lost, written,
                   hostFaults>>

(* ws_create_server(): last_reconnect is 0, long ago. *)
HostWsInit ==
    /\ context = "null" /\ wsi = "none"
    /\ is_connected = FALSE
    /\ idle = RetryAfter
    /\ thread = "service"
    /\ rxlen = 0
    /\ sender = [pc |-> "idle", raced |-> FALSE]
    /\ lost = FALSE
    /\ written = NotWritten
    /\ hostFaults = 0

ws_thread == ThreadService \/ ThreadRetry

HostWsNext == ws_thread \/ SecondPasses \/ SendTest \/ SendWrite \/ recv_data

HostWsSpec ==
    /\ HostWsInit
    /\ [][HostWsNext]_hostVars
    /\ WF_hostVars(ws_thread)
    /\ WF_hostVars(SecondPasses)

-----------------------------------------------------------------------------
(* The variables keep their types. *)
HostWsTypeOK ==
    /\ context \in {"null", "live", "destroyed"}
    /\ wsi \in {"none", "connecting", "open", "gone"}
    /\ is_connected \in BOOLEAN /\ lost \in BOOLEAN
    /\ idle \in 0..RetryAfter
    /\ thread \in {"service", "retry", "crashed"}
    /\ rxlen \in 0..RxTexts
    /\ sender \in [pc : {"idle", "write"}, raced : BOOLEAN]
    /\ written.to \in {"none", "connecting", "open", "gone"}
    /\ hostFaults \in 0..MaxHostFaults

(* A text is written to a connection that is not open only if that was     *)
(* closed between send_data()'s test of is_connected and its write: the    *)
(* two threads share no lock.                                              *)
WrittenToOpen == written.to # "open" => written.raced

(* The thread goes on with a destroyed context, and may end the program,   *)
(* only after a connection failed at once: nothing else destroys a context *)
(* while ws->context still points to it.  Every reconnection after a       *)
(* connection that was made, or was too slow, leaves a context behind.     *)
ContextLostByFault ==
    thread = "crashed" \/ context = "destroyed" \/ lost => hostFaults > 0

(* A charger that begins to connect is connected in the end, once the      *)
(* failures have ended, unless the program has.                            *)
HandshakeSettled == is_connected \/ thread = "crashed"
HostOnline == Handshaking ~> HandshakeSettled
=============================================================================
