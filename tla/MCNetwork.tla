----------------------------- MODULE MCNetwork ------------------------------
(***************************************************************************)
(* The seven modules of the network side in one run.  They share no        *)
(* variable, so every behaviour is of one of them: part says which, and    *)
(* the others stay in their initial state.                                 *)
(***************************************************************************)
EXTENDS NetMgr, WsClient, RxStream, OcppMessages, WsSetup, HostWs, NetUtil

VARIABLE part

Parts == {"manager", "client", "stream", "messages", "setup", "host", "command"}

networkVars == <<netMgrVars, wsVars, rxVars, msgVars, setVars, hostVars, net, part>>

\* Nothing, the largest number, one more, and one that runs over to 2.
MCGroups == {<<>>, <<2, 5, 5>>, <<2, 5, 6>>, <<6, 5, 5, 3, 8>>}

\* The first initial state of the modules that have several, for a part that
\* does not run.
Still ==
    /\ part # "manager" => dev.kind = "eth" /\ ~nm.health
    /\ part # "setup" => cred = "none"

NetworkInit ==
    /\ part \in Parts
    /\ NetMgrInit /\ WsInit /\ RxInit /\ MsgInit /\ SetInit
    /\ HostWsInit /\ NetInit
    /\ Still

NetworkNext ==
    /\ UNCHANGED part
    /\ \/ /\ part = "manager" /\ NetMgrNext
          /\ UNCHANGED <<wsVars, rxVars, msgVars, setVars, hostVars, net>>
       \/ /\ part = "client" /\ WsNext
          /\ UNCHANGED <<netMgrVars, rxVars, msgVars, setVars, hostVars, net>>
       \/ /\ part = "stream" /\ RxNext
          /\ UNCHANGED <<netMgrVars, wsVars, msgVars, setVars, hostVars, net>>
       \/ /\ part = "messages" /\ MsgNext
          /\ UNCHANGED <<netMgrVars, wsVars, rxVars, setVars, hostVars, net>>
       \/ /\ part = "setup" /\ SetNext
          /\ UNCHANGED <<netMgrVars, wsVars, rxVars, msgVars, hostVars, net>>
       \/ /\ part = "host" /\ HostWsNext
          /\ UNCHANGED <<netMgrVars, wsVars, rxVars, msgVars, setVars, net>>
       \/ /\ part = "command" /\ NetUtilNext
          /\ UNCHANGED <<netMgrVars, wsVars, rxVars, msgVars, setVars, hostVars>>

\* The fairness of the part that runs.
NetworkFairness ==
    /\ WF_netMgrVars(part = "manager" /\ process)
    /\ WF_netMgrVars(part = "manager" /\ TimePasses)
    /\ WF_netMgrVars(part = "manager" /\ on_periodic_timer)
    /\ WF_netMgrVars(part = "manager" /\ LinkUp)
    /\ WF_netMgrVars(part = "manager" /\ GotIp)
    /\ \A i \in Tasks : WF_wsVars(/\ part = "client" /\ ~reboot
                                  /\ esp_websocket_client_task(i) /\ UNCHANGED reboot)
    /\ \A c \in Callers : WF_wsVars(/\ part = "client" /\ ~reboot
                                    /\ Restart(c) /\ UNCHANGED reboot)
    /\ WF_wsVars(part = "client" /\ ~reboot /\ NetConnected /\ UNCHANGED reboot)
    /\ WF_rxVars(part = "stream" /\ ocpp_recv)
    /\ WF_hostVars(part = "host" /\ ws_thread)
    /\ WF_hostVars(part = "host" /\ SecondPasses)

NetworkSpec == NetworkInit /\ [][NetworkNext]_networkVars /\ NetworkFairness

\* What the charger relies on in its websocket clients.  The downtime is that of
\* the link (EarlyReboot, OfflineKnown), and what a client has allocated is
\* freed, whatever step of its set-up or of a connection fails, and not used
\* after that: in the making and deletion of the target's client, and in the
\* connections of the host's.
ClientsClean ==
    /\ WsTypeOK /\ EarlyReboot /\ OfflineKnown
    /\ SetTypeOK /\ NothingLost /\ LockDeleted
    /\ HostWsTypeOK /\ ContextLostByFault /\ WrittenToOpen

\* The leads-to properties of the parts, put together in two families: what is
\* due in the part that runs, and what settles it.  As the part never changes,
\* a family holds if and only if EventuallyConnected, EventuallyOnline,
\* HostOnline and CleanReceived (the first family), TaskServed, RestartEnds
\* and Realigned (the second) hold, each in its part.
LinkDue ==
    \/ part = "manager" /\ ConnectionDue
    \/ part = "client" /\ OnlineDue
    \/ part = "host" /\ Handshaking
    \/ part = "stream"
LinkSettled ==
    \/ part = "manager" /\ ConnectionSettled
    \/ part = "client" /\ OnlineSettled
    \/ part = "host" /\ HandshakeSettled
    \/ part = "stream" /\ AllReceived
WorkDue(c) ==
    \/ part = "manager" /\ TaskDue
    \/ part = "client" /\ RestartDue(c)
    \/ part = "stream" /\ Misaligned
WorkSettled(c) ==
    \/ part = "manager" /\ TaskSettled
    \/ part = "client" /\ RestartSettled(c)
    \/ part = "stream" /\ aligned

\* What must happen at last on the way to the CSMS: the network and the link
\* come back after every loss, restarts and tasks come to an end, and whole
\* messages are received, those behind a damaged one included.
NetworkServes ==
    /\ LinkDue ~> LinkSettled
    /\ \A c \in Callers : WorkDue(c) ~> WorkSettled(c)
=============================================================================
