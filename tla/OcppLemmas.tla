------------------------------ MODULE OcppLemmas ------------------------------
(***************************************************************************)
(* What the parts of OcppCharger do, for every set of idTags,              *)
(* transactions, calls and faults: lemmas about the session, the queue of  *)
(* requests, the calls of the user and the CSMS, and the state machine.    *)
(* OcppChargerProofs builds the theorems on them.                          *)
(***************************************************************************)
EXTENDS OcppCharger, TLAPS

-----------------------------------------------------------------------------
(* The session *)

\* What a call can make of a session: the transaction is kept, unless the
\* session is cleared, which no call does to a charge that is on.
After(s) == {x \in SessionType : x.tid = s.tid \/ (~IsCharging /\ x.tid = 0)}

\* A session that has been cleared has no transaction.
LEMMA NoSessionType == NoSession \in SessionType /\ NoSession.tid = 0
BY DEF NoSession, SessionType

\* Two calls in a row make of a session what one may.
LEMMA AfterTrans ==
    ASSUME NEW s, NEW x \in After(s), NEW y \in After(x)
    PROVE  y \in After(s)
BY DEF After

\* Each operation on a session keeps the transaction, or clears it outside
\* a charge.
LEMMA SessionOps ==
    ASSUME NEW s \in SessionType, NEW u \in Uid \cup {NoUid}
    PROVE  /\ s \in After(s)
           /\ set_session_pending(s, u) \in After(s)
           /\ clear_session_pending(s) \in After(s)
           /\ occupy(s) \in After(s)
           /\ release(s) \in After(s)
           /\ release_pending_request_if_timedout(s) \in After(s)
<1>1. set_session_pending(s, u) \in After(s)
  BY DEF set_session_pending, SessionType, After
<1>2. clear_session_pending(s) \in After(s)
  BY DEF clear_session_pending, SessionType, After
<1>3. occupy(s) \in After(s)
  BY DEF occupy, clear_session_pending, SessionType, After
<1>4. release(s) \in After(s)
  <2> DEFINE kept == IF is_session_pending(s) THEN s
                     ELSE set_session_pending(s, s.uid)
  <2>1. set_session_pending(s, s.uid) \in SessionType
        /\ set_session_pending(s, s.uid).tid = s.tid
    BY DEF set_session_pending, SessionType
  <2>2. kept \in SessionType /\ kept.tid = s.tid
    BY <2>1
  <2>3. release(s) = IF IsCharging
                     THEN [kept EXCEPT !.uid = NoUid, !.pid = NoPid]
                     ELSE NoSession
    BY DEF release, IsCharging
  <2> HIDE DEF kept
  <2>4. [kept EXCEPT !.uid = NoUid, !.pid = NoPid] \in SessionType
        /\ [kept EXCEPT !.uid = NoUid, !.pid = NoPid].tid = s.tid
    BY <2>2 DEF SessionType
  <2> QED
    BY <2>3, <2>4, NoSessionType DEF After
<1> QED
  BY <1>1, <1>2, <1>3, <1>4 DEF release_pending_request_if_timedout, After

\* So does the callback that waits for an authorization.
LEMMA DispatchType ==
    ASSUME NEW s \in SessionType, NEW cb, NEW ok, NEW store
    PROVE  dispatch_auth_result(cb, ok, s, store) \in After(s)
BY SessionOps DEF dispatch_auth_result

-----------------------------------------------------------------------------
(* The queue of requests *)

\* The requests that are built are requests.
LEMMA RequestTypes ==
    /\ Boot \in RequestType
    /\ Noti \in RequestType
    /\ \A u \in Uid \cup {NoUid} : Request("Authorize", u, 0) \in RequestType
    /\ \A s \in SessionType :
          /\ Request("Start", s.uid, 0) \in RequestType
          /\ StopRequest(s) \in RequestType
BY DEF Boot, Noti, StopRequest, Request, RequestType, SessionType

\* Pushing a request gives a queue of requests.
LEMMA PushType ==
    ASSUME NEW q \in Seq(RequestType), NEW r \in RequestType
    PROVE  /\ ocpp_push_request(q, r) \in Seq(RequestType)
           /\ ocpp_push_request_force(q, r) \in Seq(RequestType)
           /\ Notified(q) \in Seq(RequestType)
BY RequestTypes DEF ocpp_push_request, ocpp_push_request_force, Notified

-----------------------------------------------------------------------------
(* Calls *)

Callbacks == {"none", "occupy", "release"}

\* What try_occupy and try_release decide.
Effect ==
    /\ session' \in After(session)
    /\ auth_cb' \in Callbacks
    /\ \/ reqs' = reqs
       \/ \E u \in Uid \cup {NoUid} :
             reqs' = ocpp_push_request(reqs, Request("Authorize", u, 0))

\* A call decided at once has the effect of a call.
LEMMA DecidedEffect ==
    ASSUME NEW s \in After(session), Decided(s)
    PROVE  Effect
BY DEF Decided, Effect, Callbacks

\* So has a call that asks the CSMS.
LEMMA AskedEffect ==
    ASSUME NEW s \in After(session), NEW cb \in Callbacks, Asked(s, cb)
    PROVE  Effect
BY DEF Asked, Effect, After, SessionType

\* Every path through try_occupy has the effect of a call.
LEMMA OccupyEffect ==
    ASSUME session \in SessionType, NEW u \in Uid, NEW remote, try_occupy(u, remote)
    PROVE  Effect
<1> DEFINE s == release_pending_request_if_timedout(session)
           pending == set_session_pending(s, u)
<1>1. s \in After(session)
  BY SessionOps
<1>2. s \in SessionType
  BY <1>1 DEF After
<1>3. pending \in After(s)
  BY <1>2, SessionOps
<1>4. pending \in SessionType
  BY <1>3 DEF After
<1>5. occupy(pending) \in After(pending) /\ clear_session_pending(pending) \in After(pending)
  BY <1>4, SessionOps
<1>6. pending \in After(session)
  BY <1>1, <1>3, AfterTrans
<1>7. occupy(pending) \in After(session) /\ clear_session_pending(pending) \in After(session)
  BY <1>5, <1>6, AfterTrans
<1>8. \/ Decided(s)
      \/ Decided(occupy(pending))
      \/ occupy_online(pending, u, remote)
      \/ occupy_offline(pending, u)
  BY DEF try_occupy
<1> HIDE DEF s, pending
<1>9. CASE occupy_online(pending, u, remote)
  <2>1. Asked(pending, "occupy") \/ Asked(occupy(pending), "occupy")
    BY <1>9 DEF occupy_online
  <2> QED
    BY <1>6, <1>7, <2>1, AskedEffect DEF Callbacks
<1>10. CASE occupy_offline(pending, u)
  <2>1. Decided(occupy(pending)) \/ Decided(clear_session_pending(pending))
    BY <1>10 DEF occupy_offline
  <2> QED
    BY <1>7, <2>1, DecidedEffect
<1> QED
  BY <1>1, <1>7, <1>8, <1>9, <1>10, DecidedEffect

\* Every path through try_release has the effect of a call.
LEMMA ReleaseEffect ==
    ASSUME session \in SessionType, NEW u \in Uid, try_release(u)
    PROVE  Effect
<1> DEFINE s == release_pending_request_if_timedout(session)
           pending == set_session_pending(s, u)
<1>1. s \in After(session)
  BY SessionOps
<1>2. s \in SessionType
  BY <1>1 DEF After
<1>3. pending \in After(s)
  BY <1>2, SessionOps
<1>4. pending \in SessionType /\ pending \in After(session)
  BY <1>1, <1>3, AfterTrans DEF After
<1>5. release(pending) \in After(session)
  BY <1>4, SessionOps, AfterTrans
<1>6. Decided(s) \/ Decided(release(pending)) \/ Asked(pending, "release")
  BY DEF try_release
<1> HIDE DEF s, pending
<1> QED
  BY <1>1, <1>4, <1>5, <1>6, DecidedEffect, AskedEffect DEF Callbacks

\* So the idtag command has.
LEMMA TagEffect ==
    ASSUME session \in SessionType, NEW u \in Uid, do_tag(u)
    PROVE  Effect
BY OccupyEffect, ReleaseEffect DEF do_tag

-----------------------------------------------------------------------------
(* The state machine *)

Resting == State \ {"Charging", "SuspendedEV"}

\* The steps fsm_step takes, with what the guards of the row, and those of the
\* rows before it, say where it matters.
MachineStep ==
    \/ state' = state /\ UNCHANGED <<target, relay, session, reqs, occupied>>
    \/ state = "Booting" /\ state' = "Booting" /\ do_boot
    \/ state \in Resting /\ state' = "Unavailable" /\ do_unavailable /\ csms_up
    \/ state \in Resting /\ state' = "Available" /\ do_available /\ csms_up
    \/ state \in Resting /\ state' = "Preparing" /\ do_preparing /\ csms_up
    \/ state \in Resting \ {"Booting"} /\ state' = "Faulted" /\ do_faulted
    \/ /\ state = "Preparing" /\ state' = "Preparing" /\ do_request_tid
       /\ is_charging_rdy /\ ~is_unavailable
    \/ /\ state = "Preparing" /\ state' = "Charging" /\ do_charging
       /\ connector_is_state_x("B") /\ Paying /\ ~is_unavailable
    \/ state = "Charging" /\ state' = "SuspendedEV" /\ do_suspendedEV
    \/ IsCharging /\ state' = "Finishing" /\ do_finishing
    \/ /\ state = "Charging" /\ state' = "Charging" /\ do_charging
       /\ iec61851_state \notin {"A", "B", "E", "F"}
    \/ state = "SuspendedEV" /\ IsCharging' /\ do_charging

\* fsm_step takes one of the steps of MachineStep: the rows of each state,
\* in the order of transitions.
LEMMA FsmStep ==
    ASSUME state \in State, fsm_step
    PROVE  MachineStep
<1> DEFINE T == transitions(state)
<1>1. CASE UNCHANGED <<target, relay, session, reqs, occupied, state>>
  BY <1>1 DEF MachineStep
<1>2. CASE \E i \in 1..Len(T) :
               Fires(i) /\ do(T[i].action) /\ state' = T[i].next
  <2>1. PICK i \in 1..Len(T) : Fires(i) /\ do(T[i].action) /\ state' = T[i].next
    BY <1>2
  <2>2. T[i].guard /\ \A j \in 1..(i-1) : ~T[j].guard
    BY <2>1 DEF Fires
  <2>3. CASE state = "Booting"
    <3>1. T = <<
            Row(is_booting, "do_boot", "Booting"),
            Row(is_unavailable, "do_unavailable", "Unavailable"),
            Row(is_available, "do_available", "Available"),
            Row(is_preparing, "do_preparing", "Preparing") >>
      BY <2>3 DEF transitions
    <3>2. i \in 1..4
      BY <3>1
    <3>3. i # 1 => csms_up
      <4>1. i # 1 => is_unavailable \/ is_available \/ is_preparing
        BY <2>2, <3>1, <3>2 DEF Row
      <4> QED
        BY <4>1 DEF is_unavailable, is_available, is_preparing
    <3> QED
      BY <2>1, <2>3, <3>1, <3>2, <3>3 DEF Row, do, MachineStep, Resting, State
  <2>4. CASE state = "Available"
    <3>1. T = <<
            Row(is_faulted, "do_faulted", "Faulted"),
            Row(is_unavailable, "do_unavailable", "Unavailable"),
            Row(is_preparing, "do_preparing", "Preparing") >>
      BY <2>4 DEF transitions
    <3>2. i \in 1..3
      BY <3>1
    <3>3. i # 1 => csms_up
      <4>1. i # 1 => is_unavailable \/ is_preparing
        BY <2>2, <3>1, <3>2 DEF Row
      <4> QED
        BY <4>1 DEF is_unavailable, is_preparing
    <3> QED
      BY <2>1, <2>4, <3>1, <3>2, <3>3 DEF Row, do, MachineStep, Resting, State
  <2>5. CASE state = "Preparing"
    <3>1. T = <<
            Row(is_faulted, "do_faulted", "Faulted"),
            Row(is_unavailable, "do_unavailable", "Unavailable"),
            Row(is_available, "do_available", "Available"),
            Row(is_charging_rdy, "do_request_tid", "Preparing"),
            Row(is_charging, "do_charging", "Charging") >>
      BY <2>5 DEF transitions
    <3>2. i \in 1..5
      BY <3>1
    <3>3. CASE i \in {1, 2, 3}
      <4>1. i # 1 => csms_up
        <5>1. i # 1 => is_unavailable \/ is_available
          BY <2>2, <3>1, <3>3 DEF Row
        <5> QED
          BY <5>1 DEF is_unavailable, is_available
      <4> QED
        BY <2>1, <2>5, <3>1, <3>3, <4>1 DEF Row, do, MachineStep, Resting, State
    <3>4. CASE i = 4
      <4>1. is_charging_rdy /\ ~is_unavailable
        BY <2>2, <3>1, <3>4 DEF Row
      <4> QED
        BY <2>1, <2>5, <3>1, <3>4, <4>1 DEF Row, do, MachineStep
    <3>5. CASE i = 5
      <4>1. is_charging /\ ~is_unavailable
        BY <2>2, <3>1, <3>5 DEF Row
      <4>2. connector_is_state_x("B") /\ Paying
        BY <2>5, <4>1 DEF is_charging
      <4> QED
        BY <2>1, <2>5, <3>1, <3>5, <4>1, <4>2 DEF Row, do, MachineStep
    <3> QED
      BY <3>2, <3>3, <3>4, <3>5
  <2>6. CASE state = "Charging"
    <3>1. T = <<
            Row(is_suspendedEV, "do_suspendedEV", "SuspendedEV"),
            Row(is_finishing, "do_finishing", "Finishing"),
            Row(is_charging, "do_charging", "Charging") >>
      BY <2>6 DEF transitions
    <3>2. i \in 1..3
      BY <3>1
    <3>3. CASE i = 3
      <4>1. ~is_suspendedEV /\ ~is_finishing
        BY <2>2, <3>1, <3>3 DEF Row
      <4>2. iec61851_state \notin {"A", "B", "E", "F"}
        BY <4>1 DEF is_suspendedEV, is_finishing, connector_is_state_x
      <4> QED
        BY <2>1, <2>6, <3>1, <3>3, <4>2 DEF Row, do, MachineStep
    <3>4. CASE i \in {1, 2}
      BY <2>1, <2>6, <3>1, <3>4 DEF Row, do, MachineStep, IsCharging
    <3> QED
      BY <3>2, <3>3, <3>4
  <2>7. CASE state = "SuspendedEV"
    <3>1. T = <<
            Row(is_charging, "do_charging", "Charging"),
            Row(is_finishing, "do_finishing", "Finishing"),
            Row(is_suspendedEV, "do_charging", "SuspendedEV") >>
      BY <2>7 DEF transitions
    <3>2. i \in 1..3
      BY <3>1
    <3> QED
      BY <2>1, <2>7, <3>1, <3>2 DEF Row, do, MachineStep, IsCharging
  <2>8. CASE state = "Finishing"
    <3>1. T = <<
            Row(is_faulted, "do_faulted", "Faulted"),
            Row(is_unavailable, "do_unavailable", "Unavailable"),
            Row(is_available, "do_available", "Available"),
            Row(is_preparing, "do_preparing", "Preparing") >>
      BY <2>8 DEF transitions
    <3>2. i \in 1..4
      BY <3>1
    <3>3. i # 1 => csms_up
      <4>1. i # 1 => is_unavailable \/ is_available \/ is_preparing
        BY <2>2, <3>1, <3>2 DEF Row
      <4> QED
        BY <4>1 DEF is_unavailable, is_available, is_preparing
    <3> QED
      BY <2>1, <2>8, <3>1, <3>2, <3>3 DEF Row, do, MachineStep, Resting, State
  <2>9. CASE state = "Unavailable"
    <3>1. T = <<
            Row(is_unavailable, "null", "Unavailable"),
            Row(is_faulted, "do_faulted", "Faulted"),
            Row(is_available, "do_available", "Available"),
            Row(is_preparing, "do_preparing", "Preparing") >>
      BY <2>9 DEF transitions
    <3>2. i \in 1..4
      BY <3>1
    <3>3. i \in {3, 4} => csms_up
      BY <2>2, <3>1, <3>2 DEF Row, is_available, is_preparing
    <3> QED
      BY <2>1, <2>9, <3>1, <3>2, <3>3 DEF Row, do, MachineStep, Resting, State
  <2>10. CASE state = "Faulted"
    <3>1. T = <<
            Row(is_faulted, "null", "Faulted"),
            Row(is_unavailable, "do_unavailable", "Unavailable"),
            Row(is_available, "do_available", "Available"),
            Row(is_preparing, "do_preparing", "Preparing") >>
      BY <2>10 DEF transitions
    <3>2. i \in 1..4
      BY <3>1
    <3>3. i # 1 => csms_up
      <4>1. i # 1 => is_unavailable \/ is_available \/ is_preparing
        BY <2>2, <3>1, <3>2 DEF Row
      <4> QED
        BY <4>1 DEF is_unavailable, is_available, is_preparing
    <3> QED
      BY <2>1, <2>10, <3>1, <3>2, <3>3 DEF Row, do, MachineStep, Resting, State
  <2> QED
    BY <2>3, <2>4, <2>5, <2>6, <2>7, <2>8, <2>9, <2>10 DEF State
<1> QED
  BY <1>1, <1>2 DEF fsm_step
=============================================================================
