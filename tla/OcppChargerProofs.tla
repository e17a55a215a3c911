-------------------------- MODULE OcppChargerProofs --------------------------
(***************************************************************************)
(* Theorems about OcppCharger, for every set of idTags, transactions,      *)
(* calls and faults.                                                       *)
(***************************************************************************)
EXTENDS OcppLemmas

-----------------------------------------------------------------------------
(* Types *)

\* The charger starts with values of the right type.
LEMMA InitType == Init => TypeOK
<1> SUFFICES ASSUME Init PROVE TypeOK
  OBVIOUS
<1>1. EmptyCheckpoint \in CheckpointType
  BY DEF EmptyCheckpoint, CheckpointType
<1>2. nvm \in [checkpoint : CheckpointType, conf : SUBSET (InitConf \cup Writable)]
      /\ checkpoint = EmptyCheckpoint /\ conf = InitConf
  BY <1>1 DEF Init, Booted
<1>3. LineTypeOK
  BY DEF Init, LineInit, LineTypeOK, Status, Duty
<1>4. cache \in [Uid -> EntryType]
  BY DEF Init, NoEntry, EntryType
<1>5. reqs \in Seq(RequestType)
  BY RequestTypes DEF Init, Booted
<1>6. mq \in Seq(Message)
  BY DEF Init, Booted
<1> QED
  BY <1>1, <1>2, <1>3, <1>4, <1>5, <1>6, NoSessionType
     DEF Init, Booted, TypeOK, State

\* The pilot line and the safety inputs keep their types.
LEMMA LineStepType == LineTypeOK /\ LineNext => LineTypeOK'
BY PilotAssumption, SafetyAssumption
   DEF LineTypeOK, LineNext, PilotChange, DutyMeasured, SafetyChange

\* What do_auth stores is an entry of the cache.
LEMMA EntryTypes ==
    ASSUME NEW u, NEW ok \in BOOLEAN
    PROVE  [status |-> IF ok THEN "ACCEPTED" ELSE "REJECTED",
            pid |-> ParentOf(u)] \in EntryType
<1>1. ParentOf(u) \in Pid \cup {NoPid}
  BY CsmsAssumption DEF ParentOf
<1> QED
  BY <1>1 DEF EntryType

\* Taking the first request leaves a queue of requests.
LEMMA PopType ==
    ASSUME reqs \in Seq(RequestType), reqs # <<>>
    PROVE  Tail(reqs) \in Seq(RequestType) /\ Head(reqs) \in RequestType
OBVIOUS

\* Taking the first message leaves a queue of messages.
LEMMA MqTailType ==
    ASSUME mq \in Seq(Message), mq # <<>>
    PROVE  Tail(mq) \in Seq(Message)
OBVIOUS

\* mq_send leaves a queue of messages.
LEMMA MqSendType ==
    ASSUME mq \in Seq(Message), NEW type \in Message, mq_send(type)
    PROVE  mq' \in Seq(Message)
BY DEF mq_send

\* The answers of the CSMS keep the types.
LEMMA CallResultType ==
    ASSUME TypeOK, CallResult, pc' \in {"step", "mq", "conn", "post"},
           UNCHANGED <<lineVars, rebooting>>
    PROVE  TypeOK'
<1> USE DEF TypeOK
<1>0. LineTypeOK'
  BY DEF LineTypeOK, lineVars
<1>1. ASSUME NEW ok \in BOOLEAN, do_auth(ok) PROVE TypeOK'
  <2> DEFINE entry == [status |-> IF ok THEN "ACCEPTED" ELSE "REJECTED",
                       pid |-> ParentOf(Head(reqs).uid)]
             store == IF is_session_pending(session)
                      THEN [cache EXCEPT ![session.trial] = entry] ELSE cache
             s == IF ok THEN session ELSE clear_session_pending(session)
  <2>1. cache' = store /\ session' = dispatch_auth_result(auth_cb, ok, s, store)
    BY <1>1 DEF do_auth
  <2>2. entry \in EntryType
    BY EntryTypes
  <2>3. s \in SessionType
    BY SessionOps DEF After
  <2> HIDE DEF entry, s
  <2>4. store \in [Uid -> EntryType]
    BY <2>2 DEF SessionType, is_session_pending
  <2>5. session' \in SessionType
    BY <2>1, <2>3, DispatchType DEF After
  <2>6. reqs' \in Seq(RequestType)
    BY <1>1, PopType DEF do_auth, Answered
  <2> QED
    BY <1>0, <1>1, <2>1, <2>4, <2>5, <2>6 DEF do_auth, csmsVars
<1>2. ASSUME NEW status \in {"Accepted", "Pending", "Rejected"}, do_bootnoti(status)
      PROVE  TypeOK'
  <2>1. Tail(reqs) \in Seq(RequestType)
    BY <1>2, PopType DEF do_bootnoti, Answered
  <2>2. reqs' \in Seq(RequestType)
    BY <1>2, <2>1, PushType, RequestTypes DEF do_bootnoti
  <2>3. mq' \in Seq(Message)
    BY <1>2, MqSendType DEF do_bootnoti, Message
  <2>4. connected' \in BOOLEAN
    BY <1>2 DEF do_bootnoti
  <2> QED
    BY <1>0, <1>2, <2>2, <2>3, <2>4 DEF do_bootnoti, connVars, storeVars, csmsVars
<1>3. ASSUME NEW ok \in BOOLEAN, NEW dated \in BOOLEAN, do_start_transaction(ok, dated)
      PROVE  TypeOK'
  <2>1. reqs' \in Seq(RequestType)
    BY <1>3, PopType DEF do_start_transaction, Answered
  <2>2. ParentOf(Head(reqs).uid) \in Pid \cup {NoPid}
    BY CsmsAssumption DEF ParentOf
  <2>3. session' \in SessionType
    <3>1. CASE ok
      <4> DEFINE e == IF dated THEN "valid" ELSE session.expiry
                 p == IF ParentOf(Head(reqs).uid) # NoPid
                      THEN ParentOf(Head(reqs).uid) ELSE session.pid
      <4>1. PICK t \in Tid : session' = [session EXCEPT !.tid = t, !.expiry = e, !.pid = p]
        BY <1>3, <3>1 DEF do_start_transaction
      <4>2. e \in {"none", "valid", "past"} /\ p \in Pid \cup {NoPid}
        BY <2>2 DEF SessionType
      <4> HIDE DEF e, p
      <4> QED
        BY <4>1, <4>2 DEF SessionType
    <3>2. CASE ~ok
      BY <1>3, <3>2, NoSessionType DEF do_start_transaction
    <3> QED
      BY <3>1, <3>2
  <2>4. opened' \subseteq Tid
    BY <1>3 DEF do_start_transaction
  <2>5. mq' \in Seq(Message)
    BY <1>3, MqSendType DEF do_start_transaction, Message
  <2> QED
    BY <1>0, <1>3, <2>1, <2>3, <2>4, <2>5 DEF do_start_transaction, storeVars
<1>4. CASE do_stop_transaction
  <2>1. reqs' \in Seq(RequestType) /\ Head(reqs).tid \in Tid \cup {0}
    BY <1>4, PopType DEF do_stop_transaction, Answered, RequestType
  <2>2. mq' \in Seq(Message)
    BY <1>4, MqSendType DEF do_stop_transaction, Message
  <2> QED
    BY <1>0, <1>4, <2>1, <2>2 DEF do_stop_transaction, connVars, storeVars
<1>5. CASE NotiAnswered
  <2>1. reqs' \in Seq(RequestType)
    BY <1>5, PopType DEF NotiAnswered, Answered
  <2> QED
    BY <1>0, <1>5, <2>1 DEF NotiAnswered, connVars, storeVars, csmsVars
<1> QED
  BY <1>1, <1>2, <1>3, <1>4, <1>5 DEF CallResult

\* try_occupy and try_release keep the types.
LEMMA EffectType ==
    ASSUME reqs \in Seq(RequestType), Effect
    PROVE  /\ session' \in SessionType
           /\ auth_cb' \in {"none", "occupy", "release"}
           /\ reqs' \in Seq(RequestType)
<1>1. reqs' \in Seq(RequestType)
  BY PushType, RequestTypes DEF Effect
<1> QED
  BY <1>1 DEF Effect, After, Callbacks

\* RemoteStartTransaction does what try_occupy does, or nothing.
LEMMA RemoteStartEffect ==
    ASSUME session \in SessionType, auth_cb \in Callbacks,
           NEW u \in Uid, NEW any, do_remote_start(u, any)
    PROVE  Effect
<1>1. CASE UNCHANGED <<session, auth_cb, reqs>>
  BY <1>1, SessionOps DEF Effect
<1>2. CASE try_occupy(u, TRUE)
  BY <1>2, OccupyEffect
<1> QED
  BY <1>1, <1>2 DEF do_remote_start

\* The calls of the CSMS keep the types.
LEMMA CallType ==
    ASSUME TypeOK, Call, pc' \in {"step", "mq", "conn", "post"},
           UNCHANGED <<lineVars, rebooting>>
    PROVE  TypeOK'
<1> USE DEF TypeOK
<1>0. LineTypeOK'
  BY DEF LineTypeOK, lineVars
<1>1. ASSUME NEW u \in Uid, NEW any \in BOOLEAN, do_remote_start(u, any)
      PROVE  TypeOK'
  <2>1. Effect
    BY <1>1, RemoteStartEffect DEF Callbacks
  <2> QED
    BY <1>0, <1>1, <2>1, EffectType DEF do_remote_start, storeVars, csmsVars
<1>2. ASSUME NEW t \in opened, do_remote_stop(t) PROVE TypeOK'
  <2>1. session' \in SessionType
    BY <1>2, SessionOps DEF do_remote_stop, After
  <2> QED
    BY <1>0, <1>2, <2>1 DEF do_remote_stop, libVars, storeVars, csmsVars
<1>3. ASSUME NEW type \in {"Soft", "Hard"}, do_reset(type) PROVE TypeOK'
  <2>1. mq' \in Seq(Message)
    BY <1>3, MqSendType DEF do_reset, Message
  <2> QED
    BY <1>0, <1>3, <2>1 DEF do_reset, connVars, libVars, storeVars, csmsVars
<1>4. ASSUME NEW all \in BOOLEAN, NEW unavailable \in BOOLEAN,
             do_change_availability(all, unavailable)
      PROVE  TypeOK'
  <2>1. mq' \in Seq(Message)
    BY <1>4, MqSendType DEF do_change_availability, Message
  <2>2. checkpoint' \in CheckpointType
    <3>1. [checkpoint EXCEPT !.unavailable = unavailable] \in CheckpointType
      BY DEF CheckpointType
    <3>2. [checkpoint EXCEPT !.unavailable = unavailable,
                             !.charger = unavailable] \in CheckpointType
      BY DEF CheckpointType
    <3>3. checkpoint \in CheckpointType
      OBVIOUS
    <3> HIDE DEF TypeOK
    <3> QED
      BY <1>4, <3>1, <3>2, <3>3 DEF do_change_availability
  <2> QED
    BY <1>0, <1>4, <2>1, <2>2 DEF do_change_availability, connVars, libVars, csmsVars
<1>5. ASSUME NEW key \in Writable, NEW set \in BOOLEAN,
             do_change_configuration(key, set)
      PROVE  TypeOK'
  <2>1. mq' \in Seq(Message)
    BY <1>5, MqSendType DEF do_change_configuration, Message
  <2>2. conf' \subseteq InitConf \cup Writable
    BY <1>5 DEF do_change_configuration
  <2> QED
    BY <1>0, <1>5, <2>1, <2>2 DEF do_change_configuration, connVars, libVars, csmsVars
<1>6. CASE do_clear_cache
  <2>1. cache' \in [Uid -> EntryType]
    BY <1>6 DEF do_clear_cache, NoEntry, EntryType
  <2> QED
    BY <1>0, <1>6, <2>1 DEF do_clear_cache, connVars, libVars, csmsVars
<1> QED
  BY <1>1, <1>2, <1>3, <1>4, <1>5, <1>6 DEF Call

\* Whatever ocpp_step takes in keeps the types.
LEMMA StepType == TypeOK /\ ocpp_step => TypeOK'
<1> SUFFICES ASSUME TypeOK, ocpp_step PROVE TypeOK'
  OBVIOUS
<1>1. pc' \in {"step", "mq", "conn", "post"} /\ UNCHANGED <<lineVars, rebooting>>
  BY DEF ocpp_step, Incoming
<1>2. CASE CallResult
  BY <1>1, <1>2, CallResultType
<1>3. CASE Call
  BY <1>1, <1>3, CallType
<1>4. CASE Nothing
  BY <1>1, <1>4 DEF Nothing, TypeOK, LineTypeOK, lineVars, connVars, libVars,
                    storeVars, csmsVars
<1> QED
  BY <1>2, <1>3, <1>4 DEF ocpp_step, Incoming

\* The message that is taken, if there is one.
LEMMA RecvCases ==
    ASSUME mq_recv
    PROVE  \/ mq = <<>> /\ UNCHANGED <<csms_up, reset, evtq, checkpoint, nvm, reqs, mq>>
           \/ /\ mq # <<>> /\ mq' = Tail(mq)
              /\ \/ Head(mq) = "AVAILABILITY_CHANGED_0" /\ proc_availability(TRUE)
                 \/ Head(mq) = "AVAILABILITY_CHANGED" /\ proc_availability(FALSE)
                 \/ Head(mq) = "CONFIGURATION_CHANGED" /\ proc_configuration
                 \/ Head(mq) = "CSMS_UP" /\ proc_csms_up
                 \/ Head(mq) = "REMOTE_RESET" /\ proc_remote_reset
                 \/ Head(mq) = "BILLING_STARTED" /\ proc_start_transaction
                 \/ Head(mq) = "BILLING_ENDED" /\ proc_stop_transaction
BY DEF mq_recv, proc

\* The message that is taken from mq keeps the types.
LEMMA RecvType == TypeOK /\ mq_recv => TypeOK'
<1> SUFFICES ASSUME TypeOK, mq_recv PROVE TypeOK'
  OBVIOUS
<1> USE DEF TypeOK
<1>0. LineTypeOK' /\ pc' = "conn"
  BY DEF mq_recv, LineTypeOK, lineVars
<1>1. mq' \in Seq(Message)
  <2>1. mq' = mq \/ (mq # <<>> /\ mq' = Tail(mq))
    BY RecvCases
  <2>2. mq \in Seq(Message)
    OBVIOUS
  <2> HIDE DEF TypeOK
  <2> QED
    BY <2>1, <2>2, MqTailType
<1>2. csms_up' \in BOOLEAN /\ reset' \in BOOLEAN
  BY RecvCases DEF proc_availability, proc_configuration, proc_csms_up,
     proc_remote_reset, proc_start_transaction, proc_stop_transaction
<1>3. evtq' \subseteq {"BILLING_STARTED", "BILLING_ENDED"}
  BY RecvCases DEF proc_availability, proc_configuration, proc_csms_up,
     proc_remote_reset, proc_start_transaction, proc_stop_transaction
<1>4. checkpoint' \in CheckpointType
  <2>1. [checkpoint EXCEPT !.tid = session.tid] \in CheckpointType
    BY DEF CheckpointType, SessionType
  <2>2. [checkpoint EXCEPT !.tid = 0] \in CheckpointType
    BY DEF CheckpointType
  <2>3. checkpoint \in CheckpointType
    OBVIOUS
  <2> QED
    BY <2>1, <2>2, <2>3, RecvCases DEF proc_availability, proc_configuration,
       proc_csms_up, proc_remote_reset, proc_start_transaction, proc_stop_transaction
<1>5. nvm' \in [checkpoint : CheckpointType, conf : SUBSET (InitConf \cup Writable)]
  <2>1. Saved("checkpoint", checkpoint)
            \in [checkpoint : CheckpointType, conf : SUBSET (InitConf \cup Writable)]
    BY DEF Saved
  <2>2. Saved("conf", conf)
            \in [checkpoint : CheckpointType, conf : SUBSET (InitConf \cup Writable)]
    BY DEF Saved
  <2> QED
    BY <2>1, <2>2, RecvCases DEF proc_availability, proc_configuration, proc_csms_up,
       proc_remote_reset, proc_start_transaction, proc_stop_transaction
<1>6. reqs' \in Seq(RequestType)
  <2>1. Notified(reqs) \in Seq(RequestType)
    BY PushType, RequestTypes
  <2> QED
    BY <2>1, RecvCases DEF proc_availability, proc_configuration, proc_csms_up,
       proc_remote_reset, proc_start_transaction, proc_stop_transaction
<1> QED
  BY <1>0, <1>1, <1>2, <1>3, <1>4, <1>5, <1>6 DEF mq_recv, csmsVars

\* A step of the machine keeps the types.
LEMMA MachineType ==
    ASSUME TypeOK, MachineStep
    PROVE  /\ state' \in State /\ occupied' \in BOOLEAN
           /\ target' \in Duty /\ relay' \in BOOLEAN
           /\ session' \in SessionType
           /\ reqs' \in Seq(RequestType)
<1> USE DEF TypeOK
<1>1. state' \in State
  BY DEF MachineStep, State, IsCharging
<1>2. occupied' \in BOOLEAN /\ target' \in Duty /\ relay' \in BOOLEAN
  BY DEF MachineStep, LineTypeOK, Duty, do_boot, do_unavailable, do_available,
     do_preparing, do_faulted, do_request_tid, do_charging, do_suspendedEV, do_finishing
<1>3. session' \in SessionType
  <2>1. [session EXCEPT !.expiry = "past"] \in SessionType
    BY DEF SessionType
  <2> QED
    BY <2>1, NoSessionType DEF MachineStep, do_boot, do_unavailable, do_available,
       do_preparing, do_faulted, do_request_tid, do_charging, do_suspendedEV, do_finishing
<1>4. reqs' \in Seq(RequestType)
  <2>1. \A q \in Seq(RequestType) : Notified(q) \in Seq(RequestType)
    BY PushType, RequestTypes
  <2>2. ASSUME NEW q \in Seq(RequestType), NEW s \in SessionType
        PROVE  do_missing_transaction(q, s) \in Seq(RequestType)
    <3>1. [s EXCEPT !.tid = checkpoint.tid] \in SessionType
      BY DEF SessionType, CheckpointType
    <3> QED
      BY <3>1, PushType, RequestTypes DEF do_missing_transaction
  <2>3. \A s \in SessionType :
           ocpp_push_request_force(reqs, StopRequest(s)) \in Seq(RequestType)
    BY PushType, RequestTypes
  <2>4. ocpp_push_request_force(reqs, Request("Start", session.uid, 0)) \in Seq(RequestType)
    BY PushType, RequestTypes
  <2>5. CASE do_unavailable \/ do_available \/ do_preparing
    <3> DEFINE q == IF state # "Finishing" THEN Notified(reqs) ELSE reqs
    <3>1. q \in Seq(RequestType) /\ Notified(reqs) \in Seq(RequestType)
      BY <2>1
    <3>2. \/ reqs' = do_missing_transaction(Notified(reqs), NoSession)
          \/ reqs' = do_missing_transaction(q, session)
      BY <2>5 DEF do_unavailable, do_available, do_preparing
    <3> HIDE DEF q
    <3>3. session \in SessionType /\ NoSession \in SessionType
      BY NoSessionType
    <3>4. /\ do_missing_transaction(q, session) \in Seq(RequestType)
          /\ do_missing_transaction(Notified(reqs), NoSession) \in Seq(RequestType)
      BY <2>2, <3>1, <3>3 DEF do_missing_transaction
    <3> QED
      BY <3>2, <3>4
  <2>6. CASE do_charging
    <3>1. ASSUME NEW q \in Seq(RequestType), send_metering(q)
          PROVE  reqs' \in Seq(RequestType)
      BY <2>1, <3>1 DEF send_metering
    <3> QED
      BY <2>1, <2>6, <3>1 DEF do_charging
  <2>7. CASE do_boot \/ do_faulted \/ do_request_tid \/ do_suspendedEV
    BY <2>1, <2>4, <2>7 DEF do_boot, do_faulted, do_request_tid, do_suspendedEV
  <2>8. CASE do_finishing
    <3>1. ocpp_push_request_force(reqs, StopRequest(session)) \in Seq(RequestType)
      BY <2>3
    <3> QED
      BY <2>1, <2>8, <3>1 DEF do_finishing
  <2> QED
    BY <2>5, <2>6, <2>7, <2>8 DEF MachineStep
<1> QED
  BY <1>1, <1>2, <1>3, <1>4

\* A step of the connector keeps the types.
LEMMA ConnectorType == TypeOK /\ connector_process => TypeOK'
<1> SUFFICES ASSUME TypeOK, connector_process PROVE TypeOK'
  OBVIOUS
<1>1. MachineStep
  BY FsmStep DEF connector_process, TypeOK
<1>2. nvm' \in [checkpoint : CheckpointType, conf : SUBSET (InitConf \cup Writable)]
  BY DEF connector_process, Saved, TypeOK
<1>3. LineTypeOK'
  BY <1>1, MachineType DEF connector_process, TypeOK, LineTypeOK
<1> QED
  BY <1>1, <1>2, <1>3, MachineType DEF connector_process, TypeOK, csmsVars

\* A restart keeps the types.
LEMMA RestartType == TypeOK /\ Restart => TypeOK'
<1> SUFFICES ASSUME TypeOK, Restart PROVE TypeOK'
  OBVIOUS
<1>1. reqs' \in Seq(RequestType)
  BY RequestTypes DEF Restart
<1>2. mq' \in Seq(Message)
  BY DEF Restart
<1>3. LineTypeOK'
  BY DEF Restart, TypeOK, LineTypeOK, Status, Duty
<1> QED
  BY <1>1, <1>2, <1>3, NoSessionType DEF Restart, TypeOK, State, csmsVars

\* The parts of TypeOK, for the steps that leave most of the state alone.
ConnTypeOK ==
    /\ state \in State
    /\ session \in SessionType
    /\ auth_cb \in {"none", "occupy", "release"}
    /\ csms_up \in BOOLEAN /\ occupied \in BOOLEAN /\ reset \in BOOLEAN
    /\ evtq \subseteq {"BILLING_STARTED", "BILLING_ENDED"}

StoreTypeOK ==
    /\ checkpoint \in CheckpointType
    /\ cache \in [Uid -> EntryType]
    /\ conf \subseteq InitConf \cup Writable
    /\ nvm \in [checkpoint : CheckpointType, conf : SUBSET (InitConf \cup Writable)]

LoopTypeOK ==
    /\ pc \in {"step", "mq", "conn", "post"}
    /\ mq \in Seq(Message)
    /\ reboot \in {"none", "required", "remote", "forced"}
    /\ rebooting \in BOOLEAN
    /\ opened \subseteq Tid /\ closed \subseteq Tid \cup {0}

\* TypeOK is the conjunction of its parts, before a step and after it.
LEMMA TypeParts ==
    /\ TypeOK <=> /\ LineTypeOK /\ ConnTypeOK /\ StoreTypeOK /\ LoopTypeOK
                  /\ reqs \in Seq(RequestType) /\ connected \in BOOLEAN
    /\ TypeOK' <=> /\ LineTypeOK' /\ ConnTypeOK' /\ StoreTypeOK' /\ LoopTypeOK'
                   /\ reqs' \in Seq(RequestType) /\ connected' \in BOOLEAN
BY DEF TypeOK, ConnTypeOK, StoreTypeOK, LoopTypeOK

\* What does not change keeps its type.
LEMMA TypeFrame ==
    /\ LineTypeOK /\ UNCHANGED lineVars => LineTypeOK'
    /\ ConnTypeOK /\ UNCHANGED connVars => ConnTypeOK'
    /\ StoreTypeOK /\ UNCHANGED storeVars => StoreTypeOK'
    /\ LoopTypeOK /\ UNCHANGED <<pc, mq, reboot, rebooting, csmsVars>> => LoopTypeOK'
<1>1. LineTypeOK /\ UNCHANGED lineVars => LineTypeOK'
  BY DEF LineTypeOK, lineVars
<1>2. ConnTypeOK /\ UNCHANGED connVars => ConnTypeOK'
  BY DEF ConnTypeOK, connVars
<1>3. StoreTypeOK /\ UNCHANGED storeVars => StoreTypeOK'
  BY DEF StoreTypeOK, storeVars
<1>4. LoopTypeOK /\ UNCHANGED <<pc, mq, reboot, rebooting, csmsVars>> => LoopTypeOK'
  BY DEF LoopTypeOK, csmsVars
<1> QED
  BY <1>1, <1>2, <1>3, <1>4

\* The steps beside the loop keep the types, and so does ext_post_process.
LEMMA BesideType ==
    ASSUME TypeOK, Tag \/ Line \/ Expire \/ ClockSetBack \/ Connect \/ Disconnect
                   \/ DropRequest \/ on_updater_event \/ ext_post_process
    PROVE  TypeOK'
<1> USE DEF TypeOK, csmsVars, storeVars, libVars, connVars
<1>0. UNCHANGED lineVars => LineTypeOK'
  BY DEF LineTypeOK, lineVars
<1>1. CASE Tag
  <2>1. Effect
    BY <1>1, TagEffect DEF Tag
  <2>2. /\ session' \in SessionType
        /\ auth_cb' \in {"none", "occupy", "release"}
        /\ reqs' \in Seq(RequestType)
    BY <2>1, EffectType
  <2>3. UNCHANGED <<lineVars, state, csms_up, occupied, reset, evtq, connected,
                    storeVars, csmsVars, pc, mq, reboot, rebooting>>
    BY <1>1 DEF Tag
  <2> QED
    BY <1>0, <2>2, <2>3
<1>2. CASE Line
  <2>1. LineTypeOK'
    BY <1>2, LineStepType DEF Line
  <2> HIDE DEF TypeOK, csmsVars, storeVars, libVars, connVars
  <2>2. /\ UNCHANGED connVars /\ UNCHANGED storeVars
        /\ UNCHANGED <<pc, mq, reboot, rebooting, csmsVars>>
    BY <1>2 DEF Line
  <2>3. UNCHANGED <<reqs, connected>>
    BY <1>2 DEF Line, libVars
  <2> QED
    BY <2>1, <2>2, <2>3, TypeParts, TypeFrame
<1>3. CASE Expire
  <2>1. session' \in SessionType
    <3>1. [session EXCEPT !.expiry = "past"] \in SessionType
      BY DEF SessionType
    <3>2. [session EXCEPT !.aged = TRUE] \in SessionType
      BY DEF SessionType
    <3> QED
      BY <1>3, <3>1, <3>2 DEF Expire
  <2> QED
    BY <1>0, <1>3, <2>1 DEF Expire
<1>4. CASE ClockSetBack
  <2>1. session' \in SessionType
    BY <1>4 DEF ClockSetBack, SessionType
  <2> QED
    BY <1>0, <1>4, <2>1 DEF ClockSetBack
<1>5. CASE Connect \/ Disconnect
  <2>1. connected' \in BOOLEAN
    BY <1>5 DEF Connect, Disconnect
  <2> HIDE DEF TypeOK, csmsVars, storeVars, libVars, connVars
  <2>2. /\ UNCHANGED lineVars /\ UNCHANGED connVars /\ UNCHANGED storeVars
        /\ UNCHANGED <<pc, mq, reboot, rebooting, csmsVars>> /\ UNCHANGED reqs
    BY <1>5 DEF Connect, Disconnect
  <2> QED
    BY <2>1, <2>2, TypeParts, TypeFrame
<1>8. CASE on_updater_event
  BY <1>0, <1>8 DEF on_updater_event
<1>6. CASE DropRequest
  <2>1. reqs' \in Seq(RequestType)
    BY <1>6, PopType DEF DropRequest
  <2> HIDE DEF TypeOK, csmsVars, storeVars, libVars, connVars
  <2>2. /\ UNCHANGED lineVars /\ UNCHANGED connVars /\ UNCHANGED storeVars
        /\ UNCHANGED <<pc, mq, reboot, rebooting, csmsVars>> /\ UNCHANGED connected
    BY <1>6 DEF DropRequest
  <2> QED
    BY <2>1, <2>2, TypeParts, TypeFrame
<1>7. CASE ext_post_process
  BY <1>0, <1>7 DEF ext_post_process
<1> QED
  BY <1>1, <1>2, <1>3, <1>4, <1>5, <1>6, <1>7, <1>8

\* TypeOK is inductive.
LEMMA NextType == TypeOK /\ [Next]_vars => TypeOK'
<1> SUFFICES ASSUME TypeOK, [Next]_vars PROVE TypeOK'
  OBVIOUS
<1>1. CASE UNCHANGED vars
  <2>1. /\ UNCHANGED lineVars /\ UNCHANGED connVars /\ UNCHANGED storeVars
        /\ UNCHANGED <<pc, mq, reboot, rebooting, csmsVars>> /\ UNCHANGED libVars
    BY <1>1 DEF vars
  <2>2. UNCHANGED <<reqs, connected>>
    BY <2>1 DEF libVars
  <2> QED
    BY <2>1, <2>2, TypeParts, TypeFrame
<1>2. CASE Next
  BY <1>2, StepType, RecvType, ConnectorType, RestartType, BesideType
     DEF Next, charger_process, Reboot, PowerLoss
<1> QED
  BY <1>1, <1>2

\* Every variable keeps to the values TypeOK gives it, in every state the
\* charger reaches.
THEOREM TypeCorrect == Spec => []TypeOK
BY InitType, NextType, PTL DEF Spec

-----------------------------------------------------------------------------
(* Power *)

\* Only the state machine and a restart change the state, the duty driven or
\* the relay.
LEMMA PowerCases ==
    ASSUME [Next]_vars
    PROVE  \/ UNCHANGED <<state, pilot, target, relay>>
           \/ Line
           \/ connector_process
           \/ Restart
<1>1. CASE ocpp_step
  <2>1. UNCHANGED lineVars
    BY <1>1 DEF ocpp_step, Incoming
  <2>2. UNCHANGED state
    BY <1>1 DEF ocpp_step, Incoming, CallResult, Call, Nothing, do_auth, do_bootnoti,
       do_start_transaction, do_stop_transaction, NotiAnswered, do_remote_start,
       do_remote_stop, do_reset, do_change_availability, do_change_configuration,
       do_clear_cache, connVars
  <2> QED
    BY <2>1, <2>2 DEF lineVars
<1>2. CASE mq_recv \/ ext_post_process \/ Tag \/ Expire \/ ClockSetBack
  BY <1>2 DEF mq_recv, ext_post_process, Tag, Expire, ClockSetBack, lineVars, connVars
<1>3. CASE Connect \/ Disconnect \/ DropRequest \/ on_updater_event \/ UNCHANGED vars
  BY <1>3 DEF Connect, Disconnect, DropRequest, on_updater_event, vars, lineVars, connVars
<1> QED
  BY <1>1, <1>2, <1>3 DEF Next, charger_process, Reboot, PowerLoss

\* PowerOnlyWhileCharging is inductive: each action of a row leaves the
\* duty and the relay as the state it leads to wants them.
LEMMA NextPower ==
    ASSUME TypeOK, PowerOnlyWhileCharging, [Next]_vars
    PROVE  PowerOnlyWhileCharging'
<1> USE DEF PowerOnlyWhileCharging
<1>1. CASE UNCHANGED <<state, pilot, target, relay>>
  BY <1>1
<1>2. CASE Line
  BY <1>2 DEF Line, LineNext, PilotChange, DutyMeasured, SafetyChange, connVars
<1>3. CASE connector_process
  <2>1. MachineStep
    BY <1>3, FsmStep DEF connector_process, TypeOK
  <2>2. CASE /\ state \in Resting /\ state' \in Resting
             /\ target' \in {target, "idle"} /\ relay' = relay
    BY <2>2 DEF Resting
  <2>3. CASE state \in Resting /\ do_charging /\ state' = "Charging"
    BY <2>3 DEF do_charging, Resting
  <2>4. CASE IsCharging /\ IsCharging' /\ (do_charging \/ do_suspendedEV)
             /\ (state' # "Charging" => state = "SuspendedEV" \/ do_suspendedEV)
    <3>1. CASE do_charging
      <4>1. CASE state = "Charging"
        <5>1. target' = target /\ (do_suspendedEV => relay' = FALSE) /\ relay' = TRUE
          BY <3>1, <4>1 DEF do_charging, do_suspendedEV
        <5> QED
          BY <2>4, <4>1, <5>1 DEF IsCharging
      <4>2. CASE state = "SuspendedEV"
        <5>1. target' = target /\ relay' = relay
          BY <3>1, <4>2 DEF do_charging
        <5> QED
          BY <2>4, <4>2, <5>1 DEF IsCharging
      <4> QED
        BY <2>4, <4>1, <4>2 DEF IsCharging
    <3>2. CASE do_suspendedEV
      BY <2>4, <3>2 DEF do_suspendedEV, IsCharging
    <3> QED
      BY <2>4, <3>1, <3>2
  <2>5. CASE IsCharging /\ state' = "Finishing" /\ do_finishing
    BY <2>5 DEF do_finishing, IsCharging
  <2>6. CASE state' = state /\ UNCHANGED <<target, relay, session, reqs, occupied>>
    BY <2>6
  <2>7. CASE \/ state = "Booting" /\ state' = "Booting" /\ do_boot
             \/ state \in Resting /\ state' = "Unavailable" /\ do_unavailable
             \/ state \in Resting /\ state' = "Available" /\ do_available
             \/ state \in Resting /\ state' = "Preparing" /\ do_preparing
             \/ state \in Resting /\ state' = "Faulted" /\ do_faulted
             \/ state = "Preparing" /\ state' = "Preparing" /\ do_request_tid
    BY <2>2, <2>7 DEF Resting, State, do_boot, do_unavailable, do_available,
       do_preparing, do_faulted, do_request_tid
  <2> QED
    BY <2>1, <2>3, <2>4, <2>5, <2>6, <2>7 DEF MachineStep, Resting, State, IsCharging
<1>4. CASE Restart
  BY <1>4 DEF Restart
<1> QED
  BY <1>1, <1>2, <1>3, <1>4, PowerCases

\* The relay is closed in no state but Charging and current is offered in no
\* state but Charging and SuspendedEV, whatever becomes of the session, the
\* requests and the CSMS meanwhile: the rows of transitions and the actions
\* that undo what do_charging has done fit together.
THEOREM PowerSafe == Spec => []PowerOnlyWhileCharging
<1>1. Init => PowerOnlyWhileCharging
  BY DEF Init, LineInit, Booted, PowerOnlyWhileCharging
<1> QED
  BY <1>1, NextPower, TypeCorrect, PTL DEF Spec

\* Every step of the charger is a step of PowerSupply or changes nothing
\* that PowerSupply sees.
LEMMA PromiseStep ==
    ASSUME TypeOK, PowerOnlyWhileCharging, [Next]_vars
    PROVE  [Promise!Next]_<<pilot, target = "pwm", relay>>
<1> USE DEF PowerOnlyWhileCharging
<1>1. CASE UNCHANGED <<state, pilot, target, relay>>
  BY <1>1
<1>2. CASE Line
  <2>1. UNCHANGED <<target, relay>>
    BY <1>2 DEF Line, LineNext, PilotChange, DutyMeasured, SafetyChange
  <2> QED
    BY <2>1 DEF Promise!Next, Promise!Vehicle
<1>3. CASE connector_process
  <2>1. MachineStep
    BY <1>3, FsmStep DEF connector_process, TypeOK
  <2>2. pilot' = pilot
    BY <1>3 DEF connector_process
  <2>3. CASE state = "Preparing" /\ state' = "Charging" /\ do_charging
             /\ connector_is_state_x("B")
    <3>1. target # "pwm" /\ target' = "pwm" /\ relay' = relay
      BY <2>3 DEF do_charging
    <3>2. pilot = "B"
      BY <2>3 DEF connector_is_state_x, iec61851_state
    <3> QED
      BY <2>2, <3>1, <3>2 DEF Promise!Next, Promise!Offer
  <2>4. CASE state = "Charging" /\ state' = "Charging" /\ do_charging
             /\ iec61851_state \notin {"A", "B", "E", "F"}
    <3>1. target = "pwm" /\ target' = target /\ relay' = TRUE
      BY <2>4 DEF do_charging
    <3>2. pilot \in {"C", "D"}
      BY <2>4, <3>1 DEF iec61851_state, TypeOK, LineTypeOK, Status
    <3>3. CASE relay
      <4>1. relay' = relay
        BY <3>1, <3>3 DEF TypeOK, LineTypeOK
      <4> QED
        BY <3>1, <4>1, <2>2
    <3>4. CASE ~relay
      BY <2>2, <3>1, <3>2, <3>4 DEF Promise!Next, Promise!Close
    <3> QED
      BY <3>3, <3>4
  <2>5. CASE state = "Charging" /\ state' = "SuspendedEV" /\ do_suspendedEV
    <3>1. target' = target /\ relay' = FALSE
      BY <2>5 DEF do_suspendedEV
    <3>2. CASE relay
      BY <3>1, <3>2 DEF Promise!Next, Promise!Open
    <3>3. CASE ~relay
      BY <3>1, <3>3, <2>2 DEF TypeOK, LineTypeOK, Promise!Next, Promise!Vehicle
    <3> QED
      BY <3>2, <3>3
  <2>6. CASE IsCharging /\ state' = "Finishing" /\ do_finishing
    <3>1. target = "pwm" /\ target' = "idle" /\ relay' = FALSE
      BY <2>6 DEF do_finishing, IsCharging, TypeOK, LineTypeOK
    <3> QED
      BY <3>1 DEF Promise!Next, Promise!Withdraw
  <2>7. CASE state = "Booting" /\ state' = "Booting" /\ do_boot
    BY <2>2, <2>7 DEF do_boot
  <2>8. CASE state = "SuspendedEV" /\ IsCharging' /\ do_charging
    BY <2>2, <2>8 DEF do_charging
  <2>9. CASE do_unavailable \/ do_available \/ do_preparing \/ do_faulted
             \/ do_request_tid \/ UNCHANGED <<target, relay, session, reqs, occupied>>
    BY <2>2, <2>9 DEF do_unavailable, do_available, do_preparing, do_faulted, do_request_tid
  <2> QED
    BY <2>1, <2>3, <2>4, <2>5, <2>6, <2>7, <2>8, <2>9 DEF MachineStep
<1>4. CASE Restart
  <2>1. target' = "zero" /\ relay' = FALSE
    BY <1>4 DEF Restart
  <2>2. CASE target = "pwm"
    BY <2>1, <2>2 DEF Promise!Next, Promise!Withdraw
  <2>3. CASE target # "pwm"
    <3>1. relay = FALSE
      BY <2>3 DEF TypeOK, LineTypeOK
    <3> QED
      BY <2>1, <2>3, <3>1 DEF Promise!Next, Promise!Vehicle
  <2> QED
    BY <2>2, <2>3
<1> QED
  BY <1>1, <1>2, <1>3, <1>4, PowerCases

\* The OCPP connector implements PowerSupply, with restarts at any moment:
\* current is first offered to a vehicle in state B, the relay closes for one
\* in state C or D under an offer, and no offer is withdrawn with the relay
\* left closed.
THEOREM Refinement == Spec => KeepsPowerPromise
<1>1. Init => Promise!Init
  BY DEF Init, LineInit, Promise!Init
<1> QED
  BY <1>1, PromiseStep, TypeCorrect, PowerSafe, PTL DEF Spec, KeepsPowerPromise, Promise!Spec
=============================================================================
