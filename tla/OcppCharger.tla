----------------------------- MODULE OcppCharger -----------------------------
(***************************************************************************)
(* The charger under OCPP: charger_process() of charger.c with             *)
(* extension_ocpp.c, the handlers of CSMS messages (handler.c), the        *)
(* callbacks that save the checkpoint and reboot (app.c), one              *)
(* OcppConnector, and around them the CSMS, the OCPP library, the network, *)
(* the clock, the user at the idtag command and loss of power.             *)
(*                                                                         *)
(* One call of charger_process() is four steps, in the order of pc:        *)
(*   "step"  ocpp_step() of the library takes at most one incoming message *)
(*           and calls its handler, which may leave one message in mq;     *)
(*   "mq"    ext_pre_process() takes one message from mq;                  *)
(*   "conn"  connector_process() steps the connector;                      *)
(*   "post"  ext_post_process() decides about rebooting.                   *)
(* The idtag command runs in another thread: it may come between any two.  *)
(***************************************************************************)
EXTENDS OcppConnector

CONSTANTS
    ValidUid,    \* the idTags the CSMS knows
    Parent,      \* the parent idTag it gives for each of them
    InitConf,    \* the boolean configuration keys set at first
    Writable,    \* the keys ChangeConfiguration flips
    Calls,       \* the calls the CSMS makes
    Env          \* what may go wrong around the charger

ASSUME CsmsAssumption ==
    /\ ValidUid \subseteq Uid
    /\ Parent \in [Uid -> Pid \cup {NoPid}]

VARIABLES
    pc,          \* the step of charger_process() that comes next
    mq,          \* the charger's message queue
    reboot,      \* reboot_required
    rebooting,   \* app_reboot() has handed over to the cleanup actor
    nvm,         \* what config_save() has made persistent
    opened,      \* the transactions the CSMS has started
    closed       \* the transactions the CSMS has been told have stopped

connVars == <<state, session, auth_cb, csms_up, occupied, reset, evtq>>
libVars == <<reqs, connected>>
storeVars == <<checkpoint, cache, conf, nvm>>
csmsVars == <<opened, closed>>
vars == <<lineVars, connVars, libVars, storeVars, csmsVars,
          pc, mq, reboot, rebooting>>

Boot == Request("Boot", NoUid, 0)

EmptyCheckpoint == [tid |-> 0, unavailable |-> FALSE, charger |-> FALSE]

\* ext_init() restores the checkpoint and queues BootNotification.
Booted(n) ==
    /\ state = "Booting"
    /\ session = NoSession
    /\ auth_cb = "none"
    /\ csms_up = FALSE
    /\ occupied = FALSE
    /\ reset = FALSE
    /\ evtq = {}
    /\ reqs = <<Boot>>
    /\ connected = FALSE
    /\ checkpoint = n.checkpoint
    /\ conf = n.conf
    /\ pc = "step"
    /\ mq = <<>>
    /\ reboot = "none"
    /\ rebooting = FALSE

Init ==
    /\ LineInit
    /\ nvm = [checkpoint |-> EmptyCheckpoint, conf |-> InitConf]
    /\ Booted(nvm)
    /\ cache = [u \in Uid |-> NoEntry]
    /\ opened = {}
    /\ closed = {}

mq_send(type) == mq' = Append(mq, type)

-----------------------------------------------------------------------------
(* Answers to the request at the head of the queue.  The library holds it  *)
(* until the handler returns.                                              *)

Answered(type) == connected /\ reqs # <<>> /\ Head(reqs).type = type

\* The CSMS accepts only idTags it knows, and may refuse those as well.
Accepts(ok) == ok => Head(reqs).uid \in ValidUid

ParentOf(u) == IF u \in Uid THEN Parent[u] ELSE NoPid

\* Note that the idTag cached and reported is the one in trial now.
do_auth(ok) ==
    /\ Answered("Authorize") /\ Accepts(ok)
    /\ LET entry == [status |-> IF ok THEN "ACCEPTED" ELSE "REJECTED",
                     pid |-> ParentOf(Head(reqs).uid)]
           store == IF is_session_pending(session)
                    THEN [cache EXCEPT ![session.trial] = entry] ELSE cache
           s == IF ok THEN session ELSE clear_session_pending(session)
       IN  /\ cache' = store
           /\ session' = dispatch_auth_result(auth_cb, ok, s, store)
    /\ auth_cb' = "none"
    /\ reqs' = Tail(reqs)
    /\ UNCHANGED <<state, csms_up, occupied, reset, evtq, connected, checkpoint,
                   conf, nvm, csmsVars, mq, reboot>>

do_bootnoti(status) ==
    /\ Answered("Boot")
    /\ IF status = "Accepted"
       THEN /\ mq_send("CSMS_UP")
            /\ reqs' = Tail(reqs)
            /\ UNCHANGED connected
       ELSE /\ reqs' = ocpp_push_request(Tail(reqs), Boot)
            /\ connected' = (status # "Rejected")
            /\ UNCHANGED mq
    /\ UNCHANGED <<connVars, storeVars, csmsVars, reboot>>

\* The CSMS may set an expiry date for the idTag.
do_start_transaction(ok, dated) ==
    /\ Answered("Start") /\ Accepts(ok)
    /\ IF ok
       THEN \E t \in Tid \ opened :
               /\ opened' = opened \cup {t}
               /\ session' = [session EXCEPT
                     !.tid = t,
                     !.expiry = IF dated THEN "valid" ELSE @,
                     !.pid = IF ParentOf(Head(reqs).uid) # NoPid
                             THEN ParentOf(Head(reqs).uid) ELSE @]
               /\ mq_send("BILLING_STARTED")
       ELSE session' = NoSession /\ UNCHANGED <<opened, mq>>
    /\ reqs' = Tail(reqs)
    /\ UNCHANGED <<state, auth_cb, csms_up, occupied, reset, evtq, connected,
                   storeVars, closed, reboot>>

do_stop_transaction ==
    /\ Answered("Stop")
    /\ closed' = closed \cup {Head(reqs).tid}
    /\ mq_send("BILLING_ENDED")
    /\ reqs' = Tail(reqs)
    /\ UNCHANGED <<connVars, connected, storeVars, opened, reboot>>

\* An answer without a handler, or whose handler only sets the clock.
NotiAnswered ==
    /\ Answered("Noti")
    /\ reqs' = Tail(reqs)
    /\ UNCHANGED <<connVars, connected, storeVars, csmsVars, mq, reboot>>

-----------------------------------------------------------------------------
(* Calls of the CSMS *)

\* connectorId 0 leaves the choice of the connector to the charger.
do_remote_start(u, any) ==
    /\ IF any /\ occupied THEN UNCHANGED <<session, auth_cb, reqs>>
       ELSE try_occupy(u, TRUE)
    /\ UNCHANGED <<state, csms_up, occupied, reset, evtq, connected, storeVars,
                   csmsVars, mq, reboot>>

do_remote_stop(t) ==
    /\ session' = IF has_transaction(t) THEN release(session) ELSE session
    /\ UNCHANGED <<state, auth_cb, csms_up, occupied, reset, evtq, libVars,
                   storeVars, csmsVars, mq, reboot>>

do_reset(type) ==
    /\ reboot' = IF type = "Hard" THEN "forced" ELSE "remote"
    /\ mq_send("REMOTE_RESET")
    /\ UNCHANGED <<connVars, libVars, storeVars, csmsVars>>

\* connectorId 0 means the charger and every connector of it.
do_change_availability(all, unavailable) ==
    /\ IF all
       THEN /\ checkpoint' = [checkpoint EXCEPT !.unavailable = unavailable,
                                                !.charger = unavailable]
            /\ mq_send("AVAILABILITY_CHANGED_0")
       ELSE IF ~checkpoint.charger /\ checkpoint.unavailable # unavailable
       THEN /\ checkpoint' = [checkpoint EXCEPT !.unavailable = unavailable]
            /\ mq_send("AVAILABILITY_CHANGED")
       ELSE UNCHANGED <<checkpoint, mq>>
    /\ UNCHANGED <<connVars, libVars, cache, conf, nvm, csmsVars, reboot>>

do_change_configuration(key, set) ==
    /\ conf' = IF set THEN conf \cup {key} ELSE conf \ {key}
    /\ mq_send("CONFIGURATION_CHANGED")
    /\ UNCHANGED <<connVars, libVars, checkpoint, cache, nvm, csmsVars, reboot>>

do_clear_cache ==
    /\ cache' = [u \in Uid |-> NoEntry]
    /\ UNCHANGED <<connVars, libVars, checkpoint, conf, nvm, csmsVars, mq, reboot>>

-----------------------------------------------------------------------------
(* ocpp_step(), and on_ocpp_event() with handler_process() for what comes in *)

CallResult ==
    \/ \E ok \in BOOLEAN : do_auth(ok)
    \/ \E status \in {"Accepted", "Pending", "Rejected"} : do_bootnoti(status)
    \/ \E ok, dated \in BOOLEAN : do_start_transaction(ok, dated)
    \/ do_stop_transaction
    \/ NotiAnswered

Sends(type) == connected /\ type \in Calls

Call ==
    \/ Sends("RemoteStart") /\ \E u \in Uid, any \in BOOLEAN : do_remote_start(u, any)
    \/ Sends("RemoteStop") /\ \E t \in opened : do_remote_stop(t)
    \/ Sends("Reset") /\ \E type \in {"Soft", "Hard"} : do_reset(type)
    \/ /\ Sends("ChangeAvailability")
       /\ \E all, unavailable \in BOOLEAN : do_change_availability(all, unavailable)
    \/ /\ Sends("ChangeConfiguration")
       /\ \E key \in Writable, set \in BOOLEAN : do_change_configuration(key, set)
    \/ Sends("ClearCache") /\ do_clear_cache

Nothing == UNCHANGED <<connVars, libVars, storeVars, csmsVars, mq, reboot>>

Incoming(message) ==
    /\ pc = "step" /\ pc' = "mq"
    /\ message
    /\ UNCHANGED <<lineVars, rebooting>>

ocpp_step == Incoming(CallResult) \/ Incoming(Call) \/ Incoming(Nothing)

-----------------------------------------------------------------------------
(* ext_pre_process(): one message of mq *)

\* on_charger_event() and on_connector_event() save what has changed.
Saved(field, value) == [nvm EXCEPT ![field] = value]

\* Mutant: saves the charger's availability only.
availability_of_charger(conn0) ==
    /\ reqs' = IF conn0 THEN Notified(reqs) ELSE reqs
    /\ nvm' = IF conn0 THEN Saved("checkpoint", checkpoint) ELSE nvm
    /\ UNCHANGED <<csms_up, reset, evtq, checkpoint>>

proc_availability(conn0) ==
    /\ reqs' = IF conn0 THEN Notified(reqs) ELSE reqs
    /\ nvm' = Saved("checkpoint", checkpoint)
    /\ UNCHANGED <<csms_up, reset, evtq, checkpoint>>

proc_configuration ==
    /\ nvm' = Saved("conf", conf)
    /\ UNCHANGED <<csms_up, reset, evtq, checkpoint, reqs>>

proc_csms_up ==
    /\ csms_up' = TRUE
    /\ reqs' = Notified(reqs)
    /\ UNCHANGED <<reset, evtq, checkpoint, nvm>>

\* Mutant: does not tell the connectors.
remote_reset_untold == UNCHANGED <<csms_up, reset, evtq, checkpoint, nvm, reqs>>

proc_remote_reset ==
    /\ reset' = TRUE
    /\ UNCHANGED <<csms_up, evtq, checkpoint, nvm, reqs>>

\* Mutant: raises no event.
start_transaction_silently ==
    /\ checkpoint' = [checkpoint EXCEPT !.tid = session.tid]
    /\ UNCHANGED <<csms_up, reset, evtq, nvm, reqs>>

proc_start_transaction ==
    /\ checkpoint' = [checkpoint EXCEPT !.tid = session.tid]
    /\ evtq' = evtq \cup {"BILLING_STARTED"}
    /\ UNCHANGED <<csms_up, reset, nvm, reqs>>

proc_stop_transaction ==
    /\ checkpoint' = [checkpoint EXCEPT !.tid = 0]
    /\ evtq' = evtq \cup {"BILLING_ENDED"}
    /\ UNCHANGED <<csms_up, reset, nvm, reqs>>

proc(type) ==
    \/ type = "AVAILABILITY_CHANGED_0" /\ proc_availability(TRUE)
    \/ type = "AVAILABILITY_CHANGED" /\ proc_availability(FALSE)
    \/ type = "CONFIGURATION_CHANGED" /\ proc_configuration
    \/ type = "CSMS_UP" /\ proc_csms_up
    \/ type = "REMOTE_RESET" /\ proc_remote_reset
    \/ type = "BILLING_STARTED" /\ proc_start_transaction
    \/ type = "BILLING_ENDED" /\ proc_stop_transaction

\* Mutant: takes no message before BootNotification has been accepted.
mq_recv_when_up ==
    /\ pc = "mq" /\ pc' = "conn"
    /\ IF mq = <<>> \/ ~csms_up
       THEN UNCHANGED <<csms_up, reset, evtq, checkpoint, nvm, reqs, mq>>
       ELSE proc(Head(mq)) /\ mq' = Tail(mq)
    /\ UNCHANGED <<lineVars, state, session, auth_cb, occupied, connected, cache,
                   conf, csmsVars, reboot, rebooting>>

mq_recv ==
    /\ pc = "mq" /\ pc' = "conn"
    /\ IF mq = <<>>
       THEN UNCHANGED <<csms_up, reset, evtq, checkpoint, nvm, reqs, mq>>
       ELSE proc(Head(mq)) /\ mq' = Tail(mq)
    /\ UNCHANGED <<lineVars, state, session, auth_cb, occupied, connected, cache,
                   conf, csmsVars, reboot, rebooting>>

-----------------------------------------------------------------------------
(* The rest of charger_process() *)

\* process() of the connector: a step of the machine; then the events that
\* were raised reach on_connector_event(), which saves the checkpoint.
connector_process ==
    /\ pc = "conn" /\ pc' = "post"
    /\ fsm_step
    /\ evtq' = {}
    /\ nvm' = IF evtq # {} THEN Saved("checkpoint", checkpoint) ELSE nvm
    /\ UNCHANGED <<pilot, actual, failing, auth_cb, csms_up, reset, connected,
                   checkpoint, cache, conf, csmsVars, mq, reboot, rebooting>>

IsCharging == state \in {"Charging", "SuspendedEV"}

\* A CSMS that stays down for CSMS_REBOOT_TRIGGER_DOWNTIME_SEC is a reason to
\* reboot; a reboot waits for the requests that are pending.
ext_post_process ==
    /\ pc = "post" /\ pc' = "step"
    /\ IF reboot = "none"
       THEN /\ reboot' \in {"none"} \cup
                   (IF ~connected /\ "outage" \in Env THEN {"required"} ELSE {})
            /\ UNCHANGED rebooting
       ELSE /\ rebooting' = \/ rebooting
                            \/ /\ ocpp_count_pending_requests = 0
                               /\ ~(reboot = "required" /\ IsCharging)
            /\ UNCHANGED reboot
    /\ UNCHANGED <<lineVars, connVars, libVars, storeVars, csmsVars, mq>>

charger_process == ocpp_step \/ mq_recv \/ connector_process \/ ext_post_process

-----------------------------------------------------------------------------
(* What happens beside the loop *)

\* The idtag command.
Tag ==
    /\ \E u \in Uid : do_tag(u)
    /\ UNCHANGED <<lineVars, state, csms_up, occupied, reset, evtq, connected,
                   storeVars, csmsVars, pc, mq, reboot, rebooting>>

\* The session expires; an authorization has been pending for too long.
Expire ==
    /\ "timeout" \in Env
    /\ \/ session.expiry = "valid" /\ session' = [session EXCEPT !.expiry = "past"]
       \/ /\ is_session_pending(session) /\ ~session.aged
          /\ session' = [session EXCEPT !.aged = TRUE]
    /\ UNCHANGED <<lineVars, state, auth_cb, csms_up, occupied, reset, evtq,
                   libVars, storeVars, csmsVars, pc, mq, reboot, rebooting>>

\* app_adjust_time_on_drift() sets the clock back.
ClockSetBack ==
    /\ "clock" \in Env
    /\ session.expiry = "past"
    /\ session' = [session EXCEPT !.expiry = "valid"]
    /\ UNCHANGED <<lineVars, state, auth_cb, csms_up, occupied, reset, evtq,
                   libVars, storeVars, csmsVars, pc, mq, reboot, rebooting>>

Connect ==
    /\ ~connected /\ connected' = TRUE
    /\ UNCHANGED <<lineVars, connVars, reqs, storeVars, csmsVars, pc, mq, reboot,
                   rebooting>>

Disconnect ==
    /\ "outage" \in Env
    /\ connected /\ connected' = FALSE
    /\ UNCHANGED <<lineVars, connVars, reqs, storeVars, csmsVars, pc, mq, reboot,
                   rebooting>>

\* The library gives up a request that is not answered.
DropRequest ==
    /\ "drop" \in Env
    /\ reqs # <<>> /\ reqs' = Tail(reqs)
    /\ UNCHANGED <<lineVars, connVars, connected, storeVars, csmsVars, pc, mq,
                   reboot, rebooting>>

\* The updater has installed an image: UPDATER_EVT_REBOOT_REQUIRED.
on_updater_event ==
    /\ "dfu" \in Env
    /\ reboot' = "required"
    /\ UNCHANGED <<lineVars, connVars, libVars, storeVars, csmsVars, pc, mq,
                   rebooting>>

\* The processor starts again with what is in persistent storage.
Restart ==
    /\ pilot' = "F" /\ target' = "zero" /\ actual' = "zero" /\ relay' = FALSE
    /\ state' = "Booting"
    /\ session' = NoSession
    /\ auth_cb' = "none"
    /\ csms_up' = FALSE
    /\ occupied' = FALSE
    /\ reset' = FALSE
    /\ evtq' = {}
    /\ reqs' = <<Boot>>
    /\ connected' = FALSE
    /\ checkpoint' = nvm.checkpoint
    /\ conf' = nvm.conf
    /\ pc' = "step"
    /\ mq' = <<>>
    /\ reboot' = "none"
    /\ rebooting' = FALSE
    /\ UNCHANGED <<failing, cache, nvm, csmsVars>>

\* cleanup_handler(), some time after app_reboot().
Reboot == rebooting /\ Restart

PowerLoss == "powerloss" \in Env /\ Restart

Line ==
    /\ LineNext
    /\ UNCHANGED <<connVars, libVars, storeVars, csmsVars, pc, mq, reboot, rebooting>>

Next ==
    \/ charger_process \/ Tag \/ Line
    \/ Expire \/ ClockSetBack
    \/ Connect \/ Disconnect \/ DropRequest
    \/ on_updater_event \/ Reboot \/ PowerLoss

Spec == Init /\ [][Next]_vars

\* The runner calls charger_process() every 50 ms, the pilot is scanned every
\* 10 ms, the server reconnects by itself and the cleanup actor runs.  A CSMS
\* that is connected answers a request, if not at the first step then at a
\* later one: the library keeps the request until then.
FairSpec ==
    /\ Spec
    /\ WF_vars(charger_process)
    /\ SF_vars(Incoming(CallResult))
    /\ WF_vars(Connect)
    /\ WF_vars(Reboot)
    /\ WF_vars(DutyMeasured /\ UNCHANGED <<connVars, libVars, storeVars, csmsVars,
                                          pc, mq, reboot, rebooting>>)

-----------------------------------------------------------------------------
(* Types *)

Message == {"AVAILABILITY_CHANGED_0", "AVAILABILITY_CHANGED",
            "CONFIGURATION_CHANGED", "CSMS_UP", "REMOTE_RESET",
            "BILLING_STARTED", "BILLING_ENDED"}

State == {"Booting", "Available", "Preparing", "Charging", "SuspendedEV",
          "Finishing", "Unavailable", "Faulted"}

SessionType ==
    [tid : Tid \cup {0}, uid : Uid \cup {NoUid}, pid : Pid \cup {NoPid},
     trial : Uid \cup {NoUid}, aged : BOOLEAN, expiry : {"none", "valid", "past"}]

CheckpointType ==
    [tid : Tid \cup {0}, unavailable : BOOLEAN, charger : BOOLEAN]

RequestType ==
    [type : {"Boot", "Authorize", "Start", "Stop", "Noti"},
     uid : Uid \cup {NoUid}, tid : Tid \cup {0}]

EntryType ==
    [status : {"NO_ENTRY", "ACCEPTED", "REJECTED"}, pid : Pid \cup {NoPid}]

\* Every variable has a value the code can give it.
TypeOK ==
    /\ LineTypeOK
    /\ state \in State
    /\ session \in SessionType
    /\ auth_cb \in {"none", "occupy", "release"}
    /\ csms_up \in BOOLEAN /\ occupied \in BOOLEAN /\ reset \in BOOLEAN
    /\ evtq \subseteq {"BILLING_STARTED", "BILLING_ENDED"}
    /\ reqs \in Seq(RequestType)
    /\ connected \in BOOLEAN
    /\ checkpoint \in CheckpointType
    /\ cache \in [Uid -> EntryType]
    /\ conf \subseteq InitConf \cup Writable
    /\ nvm \in [checkpoint : CheckpointType, conf : SUBSET (InitConf \cup Writable)]
    /\ pc \in {"step", "mq", "conn", "post"}
    /\ mq \in Seq(Message)
    /\ reboot \in {"none", "required", "remote", "forced"}
    /\ rebooting \in BOOLEAN
    /\ opened \subseteq Tid /\ closed \subseteq Tid \cup {0}

-----------------------------------------------------------------------------
(* Safety *)

Pending(type) == {i \in 1..Len(reqs) : reqs[i].type = type}

\* The relay is closed in no state but Charging and current is offered in no
\* state but Charging and SuspendedEV, although the actions that leave these
\* states each undo only a part of what do_charging has done.
PowerOnlyWhileCharging ==
    /\ relay => state = "Charging"
    /\ target = "pwm" <=> state \in {"Charging", "SuspendedEV"}

\* Whenever the relay is closed, the energy is billed: the session has a
\* transaction that the CSMS has started and not been told to stop, and it
\* is in persistent storage already, so that a loss of power at this moment
\* still ends with a StopTransaction for it.
PowerIsBilled ==
    relay => /\ session.tid \in opened \ closed
             /\ nvm.checkpoint.tid = session.tid

\* A StopTransaction that is queued is for the transaction in the checkpoint.
\* Its answer clears the checkpoint without looking at the transaction, so
\* this is what keeps it from clearing the record of another one.
StopMatchesCheckpoint ==
    \A i \in Pending("Stop") : reqs[i].tid # 0 /\ reqs[i].tid = checkpoint.tid

\* A transaction is stopped at most once and two transactions never overlap:
\* while a StartTransaction or StopTransaction is queued, no other one is,
\* and no session has a transaction.
OneTransaction ==
    \A i, j \in Pending("Start") \cup Pending("Stop") : i = j /\ session.tid = 0

\* A handler never finds mq full: ocpp_charger_mq_send() has no caller that
\* looks at its result, and the message that would be lost is the one that
\* makes a transaction persistent.  A cycle brings at most one message and
\* takes it out before the connector is stepped.
MqIsDrained == Len(mq) <= 1 /\ (mq # <<>> => pc = "mq")

\* A checkpoint that has changed is not left unsaved: outside the part of a
\* cycle that changes it, persistent storage has what RAM has.
CheckpointIsSaved ==
    pc \in {"post", "step"} => nvm = [checkpoint |-> checkpoint, conf |-> conf]

-----------------------------------------------------------------------------
(* Action properties *)

\* An unavailable connector starts nothing: whatever the session, neither is
\* StartTransaction sent nor a charge begun until it is available again.
UnavailableStartsNothing ==
    [][checkpoint.unavailable =>
          /\ ~(state = "Preparing" /\ state' = "Charging")
          /\ Pending("Start") = {} => Pending("Start")' = {}]_vars

\* While a charge is on, no idTag ends the session but the one that started
\* it and those the CSMS puts under the same parent, whatever idTags are
\* presented meanwhile and in whatever order the answers about them come.
OnlyFamilyReleases ==
    [][IsCharging /\ IsCharging' /\ is_session_established(session)
          => \/ is_session_established(session')
             \/ session'.trial = session.uid
             \/ /\ Answered("Authorize")
                /\ session.pid # NoPid
                /\ ParentOf(Head(reqs).uid) = session.pid]_vars

-----------------------------------------------------------------------------
(* Refinement *)

\* What PowerSupply promises, kept by this connector.
Promise == INSTANCE PowerSupply
    WITH ev <- pilot, offered <- target = "pwm", closed <- relay
KeepsPowerPromise == Promise!Spec

-----------------------------------------------------------------------------
(* Liveness *)

\* A session that is released while the vehicle draws power, by a second
\* idTag or by RemoteStopTransaction, ends with the relay open.
ReleaseOpensRelay ==
    relay /\ ~is_session_established(session)
        ~> ~relay \/ is_session_established(session)

\* A transaction that a loss of power has cut off is stopped once the charger
\* has booted for good: do_missing_transaction sends what do_finishing could
\* not.
MissingIsStopped ==
    <>[](state # "Booting")
        => \A t \in Tid : state = "Booting" /\ checkpoint.tid = t ~> t \in closed

\* Users stop presenting idTags, and vehicles stay as they are.
QuietUsers == <>[][~Tag]_vars
QuietVehicle == <>[][pilot' = pilot]_pilot

\* A user who is authorized and has plugged in gets to charge, or is told
\* otherwise: is_charging_rdy waits for a moment without any request pending,
\* which comes when users stop presenting idTags.
AuthorizedIsServed ==
    QuietUsers =>
        (state = "Preparing" /\ pilot = "B" /\ is_session_active(session)
            ~> state = "Charging" \/ pilot # "B" \/ ~is_session_established(session))

\* A Reset that the CSMS sends is carried out: the transaction in progress is
\* stopped and its requests are answered first, but neither goes on for ever.
ResetReboots ==
    QuietUsers /\ QuietVehicle =>
        (reboot \in {"remote", "forced"} /\ csms_up ~> ~csms_up)

-----------------------------------------------------------------------------
(* What the repository says and the code does not do.  Each of these is    *)
(* violated; README.md explains the runs that show it.                     *)

\* docs/markdown/charger.md gives an EVSE error as a way out of Charging.  An
\* emergency stop is one, but transitions has no row for it in Charging.
EmergencyEndsCharging ==
    relay /\ is_emergency_stop ~> state # "Charging" \/ ~is_emergency_stop

\* docs/markdown/ocpp_auth.md: with LocalPreAuthorize a cached idTag is used
\* and the server's answer followed up.  occupy_online() builds the request
\* after occupy() has emptied the trial idTag it is built from.
FollowUpNamesUser ==
    \A i \in Pending("Authorize") : reqs[i].uid # NoUid

\* ocpp_connector_internal.h: if the authorization request is accepted, the
\* trial idTag becomes the current one.  do_auth() does this with the idTag
\* in trial at the time of the answer, whichever the request named.
OnlyAcceptedIsCurrent == session.uid \in ValidUid \cup {NoUid}

\* ocpp_connector_internal.h: the checkpoint keeps the transaction until the
\* charge is completed, so that none is missed.  A session cleared between
\* StartTransaction.conf and Charging leaves nothing that would stop it.
TransactionsAreKept ==
    \A t \in opened \ closed : t \in {session.tid, checkpoint.tid}
=============================================================================
