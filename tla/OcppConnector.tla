---------------------------- MODULE OcppConnector ----------------------------
(***************************************************************************)
(* The connector that charges under an OCPP 1.6 central system (CSMS):     *)
(* ocpp_connector.c and ocpp_connector_internal.c.  It has two interfaces. *)
(* process() steps a state machine from the charger's loop.  The occupy    *)
(* and release calls, made by the idtag command and by the handlers of     *)
(* CSMS messages, change the session the machine looks at.  Both push      *)
(* requests for the CSMS onto the queue of the OCPP library.               *)
(*                                                                         *)
(* This module gives the parts, OcppCharger puts them into steps.  The     *)
(* state Reserved and its rows are left out: nothing in the source sets    *)
(* the reserved flag, so is_reserved never holds.  Time is abstracted to   *)
(* what the guards ask of it: whether the session has expired and whether  *)
(* an authorization has been pending for ConnectionTimeOut.  The reason    *)
(* given in StopTransaction is payload and left out.                       *)
(***************************************************************************)
EXTENDS ControlPilot, Sequences

CONSTANTS
    Uid, NoUid,      \* idTags, and the empty one
    Pid, NoPid,      \* parent idTags, and the empty one
    LocalList,       \* the idTags the local list accepts
    Tid,             \* the transaction ids the CSMS hands out
    MaxRequests      \* how many requests the library queues unless forced to

ASSUME UidAssumption == NoUid \notin Uid /\ LocalList \subseteq Uid
ASSUME PidAssumption == NoPid \notin Pid
ASSUME TidAssumption == Tid \subseteq Nat \ {0}
ASSUME QueueAssumption == MaxRequests \in Nat \ {0}

VARIABLES
    state,        \* the state of the machine
    session,      \* struct charging_session
    auth_cb,      \* the callback waiting for an authorization: "none",
                  \* "occupy" or "release"
    csms_up,      \* set once BootNotification has been accepted
    occupied,     \* connector_is_occupied()
    reset,        \* remote_reset_requested
    evtq,         \* the billing events raised for the application
    checkpoint,   \* the checkpoint in RAM
    reqs,         \* requests the OCPP library has not got rid of
    cache,        \* the authorization cache
    conf,         \* the boolean configuration keys that are set
    connected     \* server_connected()

NoSession ==
    [tid |-> 0, uid |-> NoUid, pid |-> NoPid, trial |-> NoUid,
     aged |-> FALSE, expiry |-> "none"]

NoEntry == [status |-> "NO_ENTRY", pid |-> NoPid]

-----------------------------------------------------------------------------
(* Requests to the CSMS.  "Noti" stands for the requests whose answer      *)
(* changes nothing: StatusNotification, MeterValues and the like.          *)

Request(type, uid, tid) == [type |-> type, uid |-> uid, tid |-> tid]
Noti == Request("Noti", NoUid, 0)

ocpp_push_request(q, r) == IF Len(q) < MaxRequests THEN Append(q, r) ELSE q
ocpp_push_request_force(q, r) == Append(q, r)
ocpp_count_pending_requests == Len(reqs)

\* StopTransaction names the idTag in trial, if any, else the current one.
StopRequest(s) ==
    Request("Stop", IF s.trial # NoUid THEN s.trial ELSE s.uid, s.tid)

-----------------------------------------------------------------------------
(* The session *)

is_session_established(s) == s.uid # NoUid
is_session_active(s) == s.uid # NoUid /\ s.expiry # "past"
is_session_pending(s) == s.trial # NoUid
is_transaction_started(s) == s.tid # 0

set_session_pending(s, u) == [s EXCEPT !.trial = u, !.aged = FALSE]
clear_session_pending(s) == [s EXCEPT !.trial = NoUid]

has_active_authorization(s) == is_session_established(s) \/ is_session_pending(s)

has_transaction(t) == session.tid = t \/ checkpoint.tid = t

\* ocpp_connector_occupy(): the idTag in trial becomes the current one.
occupy(s) ==
    [clear_session_pending(s) EXCEPT !.uid = s.trial, !.expiry = "valid"]

\* ocpp_connector_release()
release(s) ==
    IF state \in {"Charging", "SuspendedEV"}
    THEN [(IF is_session_pending(s) THEN s ELSE set_session_pending(s, s.uid))
             EXCEPT !.uid = NoUid, !.pid = NoPid]
    ELSE NoSession

uid_status(store, u) == IF u = NoUid THEN NoEntry ELSE store[u]

can_user_release(s, store) ==
    \/ s.trial # NoUid /\ s.uid = s.trial
    \/ LET pid == uid_status(store, s.trial).pid IN pid # NoPid /\ s.pid = pid

\* Mutant: lets every accepted idTag release.
dispatch_to_anyone(cb, ok, s, store) ==
    IF ok /\ cb = "occupy" THEN occupy(s)
    ELSE IF ok /\ cb = "release" THEN release(s)
    ELSE s

\* ocpp_connector_dispatch_auth_result(): what the callback that is waiting
\* makes of a result.  The callback is forgotten in any case.
dispatch_auth_result(cb, ok, s, store) ==
    IF ok /\ cb = "occupy" THEN occupy(s)
    ELSE IF ok /\ cb = "release" /\ can_user_release(s, store) THEN release(s)
    ELSE s

authorize_locally(u) ==
    IF "LocalAuthListEnabled" \in conf /\ u \in LocalList THEN "ACCEPTED"
    ELSE IF "AuthorizationCacheEnabled" \in conf THEN cache[u].status
    ELSE "NO_ENTRY"

release_pending_request_if_timedout(s) ==
    IF is_session_pending(s) /\ s.aged THEN clear_session_pending(s) ELSE s

-----------------------------------------------------------------------------
(* try_occupy and try_release: they decide session, auth_cb and reqs. *)

\* The result is reported at once, so that no callback stays behind.
Decided(s) == session' = s /\ auth_cb' = "none" /\ UNCHANGED reqs

\* The CSMS is asked; the callback waits for the answer.  Note that the
\* request carries the idTag in trial at the time it is built.
Asked(s, cb) ==
    /\ session' = s
    /\ auth_cb' = cb
    /\ reqs' = ocpp_push_request(reqs, Request("Authorize", s.trial, 0))

occupy_online(s, u, remote) ==
    LET pre_auth == /\ ~remote
                    /\ "LocalPreAuthorize" \in conf
                    /\ authorize_locally(u) = "ACCEPTED"
    IN  Asked(IF pre_auth THEN occupy(s) ELSE s, "occupy")

occupy_offline(s, u) ==
    LET accepted == /\ "LocalAuthorizeOffline" \in conf
                    /\ \/ authorize_locally(u) = "ACCEPTED"
                       \/ /\ authorize_locally(u) = "NO_ENTRY"
                          /\ "AllowOfflineTxForUnknownId" \in conf
    IN  Decided(IF accepted THEN occupy(s) ELSE clear_session_pending(s))

try_occupy(u, remote) ==
    LET s == release_pending_request_if_timedout(session)
        pending == set_session_pending(s, u)
    IN  IF has_active_authorization(s) THEN Decided(s)
        ELSE IF remote /\ "AuthorizeRemoteTxRequests" \notin conf
             THEN Decided(occupy(pending))
        ELSE IF connected THEN occupy_online(pending, u, remote)
        ELSE occupy_offline(pending, u)

try_release(u) ==
    LET s == release_pending_request_if_timedout(session)
        pending == set_session_pending(s, u)
    IN  IF ~is_session_established(s) THEN Decided(s)
        ELSE IF s.uid = u THEN Decided(release(pending))
        ELSE IF connected THEN Asked(pending, "release")
        ELSE Decided(s)

\* The idtag command: a user presents an idTag.
do_tag(u) ==
    IF has_active_authorization(session) THEN try_release(u) ELSE try_occupy(u, FALSE)

-----------------------------------------------------------------------------
(* Guards of the state machine.  The tests of the present state that only  *)
(* repeat the row a guard stands in are left out, and so is the row from   *)
(* Preparing to Finishing, which those tests never let fire.               *)

is_booting == actual # "idle" \/ target # "idle"

is_available ==
    /\ csms_up
    /\ connector_is_state_x("A")
    /\ ~is_session_active(session)

is_preparing ==
    /\ csms_up
    /\ \/ connector_is_state_x("B")
       \/ connector_is_state_x("A") /\ is_session_active(session)

Paying == is_session_established(session) /\ is_transaction_started(session)
Drawing == connector_is_state_x2("C") \/ connector_is_state_x2("D")

\* Mutants: charges whatever the pilot shows; asks again for a session that
\* has not expired, although do_request_tid has let it expire.
charging_without_plug ==
    CASE state = "Preparing" -> Paying
      [] state = "SuspendedEV" -> Drawing
      [] OTHER -> Drawing \/ Paying

charging_while_active ==
    CASE state = "Preparing" ->
            connector_is_state_x("B") /\ Paying /\ is_session_active(session)
      [] state = "SuspendedEV" -> Drawing
      [] OTHER -> Drawing \/ Paying

is_charging ==
    CASE state = "Preparing" -> connector_is_state_x("B") /\ Paying
      [] state = "SuspendedEV" -> Drawing
      [] OTHER -> Drawing \/ Paying

\* Mutant: does not wait for the requests that are pending.
charging_rdy_at_once ==
    /\ connector_is_state_x("B")
    /\ is_session_active(session)
    /\ ~is_transaction_started(session)

is_charging_rdy ==
    /\ connector_is_state_x("B")
    /\ is_session_active(session)
    /\ ~is_transaction_started(session)
    /\ ocpp_count_pending_requests = 0

is_suspendedEV == connector_is_state_x("B")

\* Mutant: a session that is released does not end the charge.
finishing_unless_released == reset \/ iec61851_state \in {"A", "E", "F"}

is_finishing ==
    \/ reset
    \/ iec61851_state \in {"A", "E", "F"}
    \/ ~is_session_established(session)

\* Mutant: waits until the vehicle is unplugged.
unavailable_when_unplugged ==
    csms_up /\ connector_is_state_x("A") /\ checkpoint.unavailable

is_unavailable == csms_up /\ ~connector_is_state_x("F") /\ checkpoint.unavailable

\* No state with this guard maps to C or D, so the output power does not
\* matter; "ip" fails no earlier than INITIAL_STABILIZATION_SEC after boot.
is_faulted == connector_is_evse_error("F", TRUE, FALSE)

Row(guard, action, next) == [guard |-> guard, action |-> action, next |-> next]

\* The rows of a state, in the order in which they are tried.
transitions(s) ==
    CASE s = "Booting" -> <<
            Row(is_booting, "do_boot", "Booting"),
            Row(is_unavailable, "do_unavailable", "Unavailable"),
            Row(is_available, "do_available", "Available"),
            Row(is_preparing, "do_preparing", "Preparing") >>
      [] s = "Available" -> <<
            Row(is_faulted, "do_faulted", "Faulted"),
            Row(is_unavailable, "do_unavailable", "Unavailable"),
            Row(is_preparing, "do_preparing", "Preparing") >>
      [] s = "Preparing" -> <<
            Row(is_faulted, "do_faulted", "Faulted"),
            Row(is_unavailable, "do_unavailable", "Unavailable"),
            Row(is_available, "do_available", "Available"),
            Row(is_charging_rdy, "do_request_tid", "Preparing"),
            Row(is_charging, "do_charging", "Charging") >>
      [] s = "Charging" -> <<
            Row(is_suspendedEV, "do_suspendedEV", "SuspendedEV"),
            Row(is_finishing, "do_finishing", "Finishing"),
            Row(is_charging, "do_charging", "Charging") >>
      [] s = "SuspendedEV" -> <<
            Row(is_charging, "do_charging", "Charging"),
            Row(is_finishing, "do_finishing", "Finishing"),
            Row(is_suspendedEV, "do_charging", "SuspendedEV") >>
      [] s = "Finishing" -> <<
            Row(is_faulted, "do_faulted", "Faulted"),
            Row(is_unavailable, "do_unavailable", "Unavailable"),
            Row(is_available, "do_available", "Available"),
            Row(is_preparing, "do_preparing", "Preparing") >>
      [] s = "Unavailable" -> <<
            Row(is_unavailable, "null", "Unavailable"),
            Row(is_faulted, "do_faulted", "Faulted"),
            Row(is_available, "do_available", "Available"),
            Row(is_preparing, "do_preparing", "Preparing") >>
      [] s = "Faulted" -> <<
            Row(is_faulted, "null", "Faulted"),
            Row(is_unavailable, "do_unavailable", "Unavailable"),
            Row(is_available, "do_available", "Available"),
            Row(is_preparing, "do_preparing", "Preparing") >>

-----------------------------------------------------------------------------
(* Actions of the rows.  They decide target, relay, session, reqs and      *)
(* occupied.                                                               *)

Notified(q) == ocpp_push_request(q, Noti)

\* A transaction found in the checkpoint after a boot is stopped.
HasMissing == state = "Booting" /\ checkpoint.tid # 0

\* Mutant: does not copy the transaction from the checkpoint.
missing_without_tid(q, s) ==
    IF HasMissing THEN ocpp_push_request_force(q, StopRequest(s)) ELSE q

do_missing_transaction(q, s) ==
    IF HasMissing
    THEN ocpp_push_request_force(q, StopRequest([s EXCEPT !.tid = checkpoint.tid]))
    ELSE q

do_boot == target' = "idle" /\ UNCHANGED <<relay, session, reqs, occupied>>

do_available ==
    /\ reqs' = do_missing_transaction(Notified(reqs), NoSession)
    /\ session' = NoSession
    /\ occupied' = FALSE
    /\ UNCHANGED <<target, relay>>

\* Mutant: looks for a missing transaction in do_available only.
preparing_forgets_missing ==
    /\ reqs' = IF state # "Finishing" THEN Notified(reqs) ELSE reqs
    /\ occupied' = TRUE
    /\ UNCHANGED <<target, relay, session>>

do_preparing ==
    /\ reqs' = do_missing_transaction(
                  IF state # "Finishing" THEN Notified(reqs) ELSE reqs, session)
    /\ session' = IF HasMissing THEN NoSession ELSE session
    /\ occupied' = TRUE
    /\ UNCHANGED <<target, relay>>

do_request_tid ==
    /\ reqs' = ocpp_push_request_force(reqs, Request("Start", session.uid, 0))
    /\ session' = [session EXCEPT !.expiry = "past"]
    /\ UNCHANGED <<target, relay, occupied>>

\* Up to two MeterValues, the sampled and the clock-aligned one, are due.
send_metering(q) == reqs' \in {q, Notified(q), Notified(Notified(q))}

do_charging ==
    /\ \/ /\ state = "Preparing"
          /\ target' = "pwm"
          /\ UNCHANGED <<relay, reqs>>
       \/ /\ state = "Charging"
          /\ relay' = TRUE
          /\ send_metering(IF relay THEN reqs ELSE Notified(reqs))
          /\ UNCHANGED target
       \/ /\ state = "SuspendedEV"
          /\ send_metering(reqs)
          /\ UNCHANGED <<target, relay>>
    /\ UNCHANGED <<session, occupied>>

do_suspendedEV ==
    /\ relay' = FALSE
    /\ reqs' = Notified(reqs)
    /\ UNCHANGED <<target, session, occupied>>

\* Mutant: leaves the relay to the next state.
finishing_keeps_relay ==
    /\ target' = "idle"
    /\ reqs' = Notified(ocpp_push_request_force(reqs, StopRequest(session)))
    /\ session' = NoSession
    /\ UNCHANGED <<relay, occupied>>

do_finishing ==
    /\ relay' = IF state = "Charging" THEN FALSE ELSE relay
    /\ target' = "idle"
    /\ reqs' = Notified(ocpp_push_request_force(reqs, StopRequest(session)))
    /\ session' = NoSession
    /\ UNCHANGED occupied

do_unavailable ==
    /\ reqs' = do_missing_transaction(Notified(reqs), NoSession)
    /\ session' = NoSession
    /\ UNCHANGED <<target, relay, occupied>>

do_faulted ==
    /\ reqs' = Notified(reqs)
    /\ session' = NoSession
    /\ UNCHANGED <<target, relay, occupied>>

do(action) ==
    \/ action = "do_boot" /\ do_boot
    \/ action = "do_available" /\ do_available
    \/ action = "do_preparing" /\ do_preparing
    \/ action = "do_request_tid" /\ do_request_tid
    \/ action = "do_charging" /\ do_charging
    \/ action = "do_suspendedEV" /\ do_suspendedEV
    \/ action = "do_finishing" /\ do_finishing
    \/ action = "do_unavailable" /\ do_unavailable
    \/ action = "do_faulted" /\ do_faulted
    \/ action = "null" /\ UNCHANGED <<target, relay, session, reqs, occupied>>

Fires(i) ==
    /\ transitions(state)[i].guard
    /\ \A j \in 1..(i-1) : ~transitions(state)[j].guard

\* fsm_step(): the first row of the state whose guard holds, or none.
fsm_step ==
    \/ \E i \in 1..Len(transitions(state)) :
          /\ Fires(i)
          /\ do(transitions(state)[i].action)
          /\ state' = transitions(state)[i].next
    \/ /\ \A i \in 1..Len(transitions(state)) : ~transitions(state)[i].guard
       /\ UNCHANGED <<target, relay, session, reqs, occupied, state>>
=============================================================================
