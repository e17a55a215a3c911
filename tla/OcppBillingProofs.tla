-------------------------- MODULE OcppBillingProofs --------------------------
(***************************************************************************)
(* Theorems about OcppCharger that concern transactions and what is        *)
(* persistent: that no message is lost, that what has changed is saved,    *)
(* and that the energy supplied is billed.                                 *)
(***************************************************************************)
EXTENDS OcppChargerProofs

-----------------------------------------------------------------------------
(* The message queue and persistent storage *)

\* MqIsDrained, in a form the steps keep.
MqInv ==
    /\ pc # "mq" => mq = <<>>
    /\ mq = <<>> \/ \E m \in Message : mq = <<m>>

Announced == {<<"AVAILABILITY_CHANGED_0">>, <<"AVAILABILITY_CHANGED">>}

\* What RAM has and persistent storage has not, a message or an event is
\* under way to save.
SaveInv ==
    /\ evtq # {} => pc = "conn"
    /\ nvm.conf = conf \/ mq = <<"CONFIGURATION_CHANGED">>
    /\ nvm.checkpoint = checkpoint \/ evtq # {} \/ mq \in Announced

\* Which steps matter to what is stored.
LEMMA StoreCases ==
    ASSUME [Next]_vars
    PROVE  \/ UNCHANGED <<pc, mq, evtq, nvm, conf, checkpoint, opened, closed>>
           \/ ocpp_step \/ mq_recv \/ connector_process \/ ext_post_process \/ Restart
<1>1. CASE Tag \/ Line \/ Expire \/ ClockSetBack
  BY <1>1 DEF Tag, Line, Expire, ClockSetBack, connVars, storeVars, csmsVars
<1>2. CASE Connect \/ Disconnect \/ DropRequest \/ on_updater_event \/ UNCHANGED vars
  BY <1>2 DEF Connect, Disconnect, DropRequest, on_updater_event, vars, connVars,
     storeVars, csmsVars
<1> QED
  BY <1>1, <1>2 DEF Next, charger_process, Reboot, PowerLoss

\* What ocpp_step leaves in an empty mq, and what it changes with it.
StepEffect ==
    /\ pc = "step" /\ pc' = "mq" /\ UNCHANGED <<evtq, nvm>>
    /\ \/ mq' = mq /\ UNCHANGED <<conf, checkpoint>>
       \/ \E m \in {"CSMS_UP", "REMOTE_RESET", "BILLING_STARTED", "BILLING_ENDED"} :
             mq' = Append(mq, m) /\ UNCHANGED <<conf, checkpoint>>
       \/ mq' = Append(mq, "CONFIGURATION_CHANGED") /\ UNCHANGED checkpoint
       \/ \E m \in {"AVAILABILITY_CHANGED_0", "AVAILABILITY_CHANGED"} :
             mq' = Append(mq, m) /\ UNCHANGED conf

\* What each handler called by ocpp_step sends and changes.
LEMMA OcppStepEffect == ocpp_step => StepEffect
<1> SUFFICES ASSUME ocpp_step PROVE StepEffect
  OBVIOUS
<1>1. pc = "step" /\ pc' = "mq"
  BY DEF ocpp_step, Incoming
<1> USE DEF connVars, storeVars, mq_send
<1>2. CASE CallResult
  <2>1. CASE \E ok \in BOOLEAN : do_auth(ok)
    BY <1>1, <2>1 DEF do_auth, StepEffect
  <2>2. CASE \E status \in {"Accepted", "Pending", "Rejected"} : do_bootnoti(status)
    BY <1>1, <2>2 DEF do_bootnoti, StepEffect
  <2>3. CASE \E ok, dated \in BOOLEAN : do_start_transaction(ok, dated)
    BY <1>1, <2>3 DEF do_start_transaction, StepEffect
  <2>4. CASE do_stop_transaction \/ NotiAnswered
    BY <1>1, <2>4 DEF do_stop_transaction, NotiAnswered, StepEffect
  <2> QED
    BY <1>2, <2>1, <2>2, <2>3, <2>4 DEF CallResult
<1>3. CASE Call
  <2>1. CASE \E u \in Uid, any \in BOOLEAN : do_remote_start(u, any)
    BY <1>1, <2>1 DEF do_remote_start, StepEffect
  <2>2. CASE \E t \in opened : do_remote_stop(t)
    BY <1>1, <2>2 DEF do_remote_stop, StepEffect
  <2>3. CASE \E type \in {"Soft", "Hard"} : do_reset(type)
    BY <1>1, <2>3 DEF do_reset, StepEffect
  <2>4. CASE \E all, unavailable \in BOOLEAN : do_change_availability(all, unavailable)
    BY <1>1, <2>4 DEF do_change_availability, StepEffect
  <2>5. CASE \E key \in Writable, set \in BOOLEAN : do_change_configuration(key, set)
    BY <1>1, <2>5 DEF do_change_configuration, StepEffect
  <2>6. CASE do_clear_cache
    BY <1>1, <2>6 DEF do_clear_cache, StepEffect
  <2> QED
    BY <1>3, <2>1, <2>2, <2>3, <2>4, <2>5, <2>6 DEF Call
<1>4. CASE Nothing
  BY <1>1, <1>4 DEF Nothing, StepEffect
<1> QED
  BY <1>2, <1>3, <1>4 DEF ocpp_step, Incoming

\* With one message at most, taking it empties the queue.
LEMMA RecvOne ==
    ASSUME MqInv, mq_recv
    PROVE  /\ mq' = <<>> /\ pc = "mq" /\ pc' = "conn" /\ conf' = conf
           /\ mq # <<>> => mq = <<Head(mq)>>
<1>1. CASE mq = <<>>
  BY <1>1, RecvCases DEF mq_recv
<1>2. CASE mq # <<>>
  <2>1. PICK m \in Message : mq = <<m>>
    BY <1>2 DEF MqInv
  <2>2. mq' = Tail(mq)
    BY <1>2, RecvCases
  <2> QED
    BY <2>1, <2>2 DEF mq_recv
<1> QED
  BY <1>1, <1>2

\* Every step keeps MqInv and SaveInv.
LEMMA NextStore ==
    ASSUME TypeOK, MqInv, SaveInv, [Next]_vars
    PROVE  MqInv' /\ SaveInv'
<1>1. CASE UNCHANGED <<pc, mq, evtq, nvm, conf, checkpoint, opened, closed>>
  BY <1>1 DEF MqInv, SaveInv
<1>2. CASE ocpp_step
  <2>1. StepEffect /\ mq = <<>> /\ evtq = {}
    BY <1>2, OcppStepEffect DEF StepEffect, MqInv, SaveInv
  <2>2. nvm.conf = conf /\ nvm.checkpoint = checkpoint
    BY <2>1 DEF SaveInv, Announced
  <2>3. \A m : Append(<<>>, m) = <<m>>
    OBVIOUS
  <2> QED
    BY <2>1, <2>2, <2>3 DEF StepEffect, MqInv, SaveInv, Announced, Message
<1>3. CASE mq_recv
  <2>1. mq' = <<>> /\ pc = "mq" /\ pc' = "conn" /\ conf' = conf
    BY <1>3, RecvOne
  <2>2. nvm'.conf = conf
    <3>1. Saved("checkpoint", checkpoint).conf = nvm.conf /\ Saved("conf", conf).conf = conf
      BY DEF Saved, TypeOK
    <3>2. mq = <<"CONFIGURATION_CHANGED">>
             => Head(mq) = "CONFIGURATION_CHANGED" /\ mq # <<>>
      OBVIOUS
    <3> QED
      BY <1>3, <3>1, <3>2, RecvCases DEF SaveInv, proc_availability, proc_configuration,
         proc_csms_up, proc_remote_reset, proc_start_transaction, proc_stop_transaction
  <2>3. nvm'.checkpoint = checkpoint' \/ evtq' # {}
    <3>1. Saved("checkpoint", checkpoint).checkpoint = checkpoint
          /\ Saved("conf", conf).checkpoint = nvm.checkpoint
      BY DEF Saved, TypeOK
    <3>2. mq \in Announced
             => Head(mq) \in {"AVAILABILITY_CHANGED_0", "AVAILABILITY_CHANGED"} /\ mq # <<>>
      BY DEF Announced
    <3>3. evtq = {}
      BY <2>1 DEF SaveInv
    <3> QED
      BY <1>3, <3>1, <3>2, <3>3, RecvCases DEF SaveInv, proc_availability,
         proc_configuration, proc_csms_up, proc_remote_reset, proc_start_transaction,
         proc_stop_transaction
  <2> QED
    BY <2>1, <2>2, <2>3 DEF MqInv, SaveInv
<1>4. CASE connector_process
  <2>1. mq = <<>> /\ mq' = mq /\ evtq' = {} /\ conf' = conf /\ checkpoint' = checkpoint
        /\ pc' = "post"
    BY <1>4 DEF connector_process, MqInv
  <2>2. nvm' = (IF evtq # {} THEN Saved("checkpoint", checkpoint) ELSE nvm)
    BY <1>4 DEF connector_process
  <2>3. nvm.conf = conf /\ (nvm.checkpoint = checkpoint \/ evtq # {})
    BY <2>1 DEF SaveInv, Announced
  <2>4. nvm'.conf = conf /\ nvm'.checkpoint = checkpoint
    BY <2>2, <2>3 DEF Saved, TypeOK
  <2> QED
    BY <2>1, <2>4 DEF MqInv, SaveInv
<1>5. CASE ext_post_process
  BY <1>5 DEF ext_post_process, MqInv, SaveInv, connVars, storeVars
<1>6. CASE Restart
  BY <1>6 DEF Restart, MqInv, SaveInv
<1> QED
  BY <1>1, <1>2, <1>3, <1>4, <1>5, <1>6, StoreCases

\* A charger that starts has nothing unsaved.
LEMMA InitStore == Init => MqInv /\ SaveInv
BY DEF Init, Booted, MqInv, SaveInv

\* TypeOK, MqInv and SaveInv hold in every state the charger reaches.
THEOREM StoreInvariance == Spec => [](TypeOK /\ MqInv /\ SaveInv)
BY InitStore, NextStore, InitType, NextType, PTL DEF Spec

\* ocpp_charger_mq_send() never meets a full queue: there is at most one
\* message, and only between ocpp_step() and ext_pre_process().
THEOREM NoMessageLost == Spec => []MqIsDrained
<1>1. MqInv => MqIsDrained
  <2> SUFFICES ASSUME MqInv PROVE MqIsDrained
    OBVIOUS
  <2>1. CASE mq = <<>>
    <3>1. Len(mq) = 0
      BY <2>1
    <3> QED
      BY <2>1, <3>1 DEF MqIsDrained
  <2>2. CASE \E m \in Message : mq = <<m>>
    <3>1. PICK m \in Message : mq = <<m>>
      BY <2>2
    <3>2. Len(mq) = 1 /\ mq # <<>>
      BY <3>1
    <3> QED
      BY <3>2 DEF MqInv, MqIsDrained
  <2> QED
    BY <2>1, <2>2 DEF MqInv
<1> QED
  BY <1>1, StoreInvariance, PTL

\* Before and after the part of a cycle that changes them, the checkpoint and
\* the configuration are in persistent storage, whichever calls and answers
\* come and wherever a loss of power interrupts.
THEOREM StorageIsCurrent == Spec => []CheckpointIsSaved
<1>1. TypeOK /\ MqInv /\ SaveInv => CheckpointIsSaved
  <2> SUFFICES ASSUME TypeOK, MqInv, SaveInv, pc \in {"post", "step"}
               PROVE  nvm = [checkpoint |-> checkpoint, conf |-> conf]
    BY DEF CheckpointIsSaved
  <2>1. mq = <<>> /\ evtq = {}
    BY DEF MqInv, SaveInv
  <2>2. nvm.conf = conf /\ nvm.checkpoint = checkpoint
    BY <2>1 DEF SaveInv, Announced
  <2> QED
    BY <2>2 DEF TypeOK
<1> QED
  BY <1>1, StoreInvariance, PTL

-----------------------------------------------------------------------------
(* Transactions *)

IsTx(r) == r.type \in {"Start", "Stop"}
NoTx(q) == \A i \in 1..Len(q) : ~IsTx(q[i])

\* The requests q about transactions, with the session's transaction s and
\* the checkpoint's c.
QueueInv(q, s, c) ==
    \A i \in 1..Len(q) : IsTx(q[i]) =>
        /\ s = 0
        /\ q[i].type = "Stop" => q[i].tid = c /\ c # 0
        /\ \A j \in 1..Len(q) : IsTx(q[j]) => i = j

\* Where a transaction is between StartTransaction and StopTransaction.
TxInv ==
    /\ QueueInv(reqs, session.tid, checkpoint.tid)
    /\ state = "Booting" => NoTx(reqs) /\ session.tid = 0
    /\ IsCharging => session.tid # 0
    /\ session.tid # 0 =>
          /\ session.tid \in opened \ closed
          /\ checkpoint.tid = session.tid \/ mq = <<"BILLING_STARTED">>
    /\ mq = <<"BILLING_STARTED">> => NoTx(reqs)
    /\ mq = <<"BILLING_ENDED">> => NoTx(reqs) /\ session.tid = 0
    /\ closed \subseteq opened
    /\ checkpoint.tid \in opened \cup {0}
    /\ nvm.checkpoint.tid \in opened \cup {0}
    /\ relay => nvm.checkpoint.tid = session.tid

\* The change from q to p brings no request about a transaction.
Quiet(q, p) ==
    /\ \A s, c : QueueInv(q, s, c) => QueueInv(p, s, c)
    /\ NoTx(q) => NoTx(p)

\* Quiet changes compose.
LEMMA QuietTrans ==
    ASSUME NEW q, NEW p, NEW r, Quiet(q, p), Quiet(p, r)
    PROVE  Quiet(q, r)
BY DEF Quiet

\* Pushing a request that is not about a transaction is quiet, whether the
\* queue has room for it or not.
LEMMA QuietPush ==
    ASSUME NEW q \in Seq(RequestType), NEW r \in RequestType, ~IsTx(r)
    PROVE  Quiet(q, ocpp_push_request(q, r))
<1>1. CASE ocpp_push_request(q, r) = q
  BY <1>1 DEF Quiet
<1>2. CASE ocpp_push_request(q, r) = Append(q, r)
  <2> DEFINE p == Append(q, r)
  <2>1. Len(p) = Len(q) + 1 /\ p[Len(q) + 1] = r /\ \A i \in 1..Len(q) : p[i] = q[i]
    OBVIOUS
  <2>2. Len(q) \in Nat
    OBVIOUS
  <2> HIDE DEF p
  <2>3. \A i \in 1..Len(p) : IsTx(p[i]) => i \in 1..Len(q) /\ p[i] = q[i]
    BY <2>1, <2>2
  <2>4. NoTx(q) => NoTx(p)
    BY <2>3 DEF NoTx
  <2>5. ASSUME NEW s, NEW c, QueueInv(q, s, c) PROVE QueueInv(p, s, c)
    BY <2>3, <2>5 DEF QueueInv
  <2> QED
    BY <1>2, <2>4, <2>5 DEF Quiet, p
<1> QED
  BY <1>1, <1>2 DEF ocpp_push_request

\* StatusNotification and MeterValues are such requests.
LEMMA QuietNotified ==
    ASSUME NEW q \in Seq(RequestType)
    PROVE  Quiet(q, Notified(q)) /\ Notified(q) \in Seq(RequestType)
BY QuietPush, PushType, RequestTypes DEF Notified, Noti, Request, IsTx

\* Answering or giving up the first request is quiet.
LEMMA QuietTail ==
    ASSUME NEW q \in Seq(RequestType), q # <<>>
    PROVE  Quiet(q, Tail(q))
<1>1. Len(q) \in Nat /\ Len(Tail(q)) = Len(q) - 1
      /\ \A i \in 1..Len(Tail(q)) : Tail(q)[i] = q[i + 1] /\ i + 1 \in 1..Len(q)
  OBVIOUS
<1>2. NoTx(q) => NoTx(Tail(q))
  BY <1>1 DEF NoTx
<1>3. ASSUME NEW s, NEW c, QueueInv(q, s, c) PROVE QueueInv(Tail(q), s, c)
  <2> SUFFICES ASSUME NEW i \in 1..Len(Tail(q)), IsTx(Tail(q)[i])
               PROVE  /\ s = 0
                      /\ Tail(q)[i].type = "Stop" => Tail(q)[i].tid = c /\ c # 0
                      /\ \A j \in 1..Len(Tail(q)) : IsTx(Tail(q)[j]) => i = j
    BY DEF QueueInv
  <2>1. Tail(q)[i] = q[i + 1] /\ i + 1 \in 1..Len(q)
    BY <1>1
  <2>2. s = 0 /\ (Tail(q)[i].type = "Stop" => Tail(q)[i].tid = c /\ c # 0)
    BY <1>3, <2>1 DEF QueueInv
  <2>3. ASSUME NEW j \in 1..Len(Tail(q)), IsTx(Tail(q)[j]) PROVE i = j
    <3>1. Tail(q)[j] = q[j + 1] /\ j + 1 \in 1..Len(q)
      BY <1>1
    <3>2. i + 1 = j + 1
      BY <1>3, <2>1, <2>3, <3>1 DEF QueueInv
    <3> QED
      BY <1>1, <3>2
  <2> QED
    BY <2>2, <2>3
<1> QED
  BY <1>2, <1>3 DEF Quiet

\* The head is the only request about a transaction, if it is one.
LEMMA HeadTx ==
    ASSUME NEW q \in Seq(RequestType), q # <<>>, IsTx(Head(q)),
           NEW s, NEW c, QueueInv(q, s, c)
    PROVE  /\ s = 0
           /\ Head(q).type = "Stop" => Head(q).tid = c /\ c # 0
           /\ NoTx(Tail(q))
<1>1. Len(q) \in Nat /\ 1 \in 1..Len(q) /\ Head(q) = q[1] /\ Len(Tail(q)) = Len(q) - 1
      /\ \A i \in 1..Len(Tail(q)) : Tail(q)[i] = q[i + 1] /\ i + 1 \in 1..Len(q)
  OBVIOUS
<1>2. s = 0 /\ (Head(q).type = "Stop" => Head(q).tid = c /\ c # 0)
  BY <1>1 DEF QueueInv
<1>3. \A i \in 1..Len(Tail(q)) : ~IsTx(Tail(q)[i])
  <2> SUFFICES ASSUME NEW i \in 1..Len(Tail(q)), IsTx(Tail(q)[i]) PROVE FALSE
    OBVIOUS
  <2>1. IsTx(q[i + 1]) /\ i + 1 \in 1..Len(q)
    BY <1>1
  <2>2. 1 = i + 1
    BY <1>1, <2>1 DEF QueueInv
  <2> QED
    BY <1>1, <2>2
<1> QED
  BY <1>2, <1>3 DEF NoTx

\* A request about a transaction may be forced into a queue that has none.
LEMMA ForceTx ==
    ASSUME NEW q \in Seq(RequestType), NEW r, NoTx(q), NEW c,
           r.type = "Stop" => r.tid = c /\ c # 0
    PROVE  QueueInv(ocpp_push_request_force(q, r), 0, c)
<1> DEFINE p == Append(q, r)
<1>1. Len(p) = Len(q) + 1 /\ p[Len(q) + 1] = r /\ Len(q) \in Nat
      /\ \A i \in 1..Len(q) : p[i] = q[i]
  OBVIOUS
<1> HIDE DEF p
<1>2. \A i \in 1..Len(p) : IsTx(p[i]) => i = Len(q) + 1 /\ p[i] = r
  BY <1>1 DEF NoTx
<1>3. QueueInv(p, 0, c)
  BY <1>2 DEF QueueInv
<1> QED
  BY <1>3 DEF p, ocpp_push_request_force

\* What QueueInv says of a queue without, and of a session with, a transaction.
LEMMA QueueFacts ==
    ASSUME NEW q, NEW s, NEW c
    PROVE  /\ NoTx(q) => QueueInv(q, s, c)
           /\ QueueInv(q, s, c) => QueueInv(q, 0, c)
           /\ QueueInv(q, s, c) /\ s # 0 => NoTx(q)
BY DEF NoTx, QueueInv

Billing == {<<"BILLING_STARTED">>, <<"BILLING_ENDED">>}

\* Steps that leave transactions alone, except that they may clear a session
\* outside a charge.
QuietStep ==
    /\ Quiet(reqs, reqs')
    /\ UNCHANGED <<state, relay, opened, closed>>
    /\ session'.tid = session.tid \/ (~IsCharging /\ session'.tid = 0)
    /\ checkpoint'.tid = checkpoint.tid
    /\ \/ nvm'.checkpoint.tid = nvm.checkpoint.tid
       \/ nvm'.checkpoint.tid = checkpoint.tid /\ mq \notin Billing
    /\ mq' = mq \/ (mq \notin Billing /\ mq' \notin Billing)

\* Steps that leave transactions alone keep TxInv.
LEMMA QuietStepTx ==
    ASSUME TxInv, PowerOnlyWhileCharging, QuietStep
    PROVE  TxInv'
<1>1. QueueInv(reqs', session'.tid, checkpoint'.tid)
  BY QueueFacts DEF TxInv, QuietStep, Quiet
<1>2. state' = "Booting" => NoTx(reqs') /\ session'.tid = 0
  BY DEF TxInv, QuietStep, Quiet
<1>3. IsCharging' => session'.tid # 0
  BY DEF TxInv, QuietStep, IsCharging
<1>4. session'.tid # 0 =>
          /\ session'.tid \in opened' \ closed'
          /\ checkpoint'.tid = session'.tid \/ mq' = <<"BILLING_STARTED">>
  BY DEF TxInv, QuietStep, Billing
<1>5. /\ mq' = <<"BILLING_STARTED">> => NoTx(reqs')
      /\ mq' = <<"BILLING_ENDED">> => NoTx(reqs') /\ session'.tid = 0
  BY DEF TxInv, QuietStep, Billing, Quiet
<1>6. relay' => nvm'.checkpoint.tid = session'.tid
  <2> SUFFICES ASSUME relay' PROVE nvm'.checkpoint.tid = session'.tid
    OBVIOUS
  <2>1. relay /\ IsCharging
    BY DEF QuietStep, PowerOnlyWhileCharging, IsCharging
  <2>2. session'.tid = session.tid /\ session.tid # 0 /\ nvm.checkpoint.tid = session.tid
    BY <2>1 DEF QuietStep, TxInv
  <2>3. mq \notin Billing => checkpoint.tid = session.tid
    BY <2>2 DEF TxInv, Billing
  <2> QED
    BY <2>2, <2>3 DEF QuietStep
<1>7. /\ closed' \subseteq opened'
      /\ checkpoint'.tid \in opened' \cup {0}
      /\ nvm'.checkpoint.tid \in opened' \cup {0}
  BY DEF TxInv, QuietStep
<1> QED
  BY <1>1, <1>2, <1>3, <1>4, <1>5, <1>6, <1>7 DEF TxInv

\* try_occupy and try_release push nothing about transactions.
LEMMA EffectQuiet ==
    ASSUME TypeOK, Effect
    PROVE  /\ Quiet(reqs, reqs')
           /\ session'.tid = session.tid \/ (~IsCharging /\ session'.tid = 0)
<1>1. CASE reqs' = reqs
  BY <1>1 DEF Quiet, Effect, After
<1>2. CASE \E u \in Uid \cup {NoUid} :
              reqs' = ocpp_push_request(reqs, Request("Authorize", u, 0))
  <2>1. PICK u \in Uid \cup {NoUid} :
              reqs' = ocpp_push_request(reqs, Request("Authorize", u, 0))
    BY <1>2
  <2>2. ~IsTx(Request("Authorize", u, 0)) /\ Request("Authorize", u, 0) \in RequestType
    BY RequestTypes DEF IsTx, Request
  <2>3. reqs \in Seq(RequestType)
    BY DEF TypeOK
  <2> QED
    BY <2>1, <2>2, <2>3, QuietPush DEF Effect, After
<1> QED
  BY <1>1, <1>2 DEF Effect

\* The steps beside the loop are quiet, and so is ext_post_process.
LEMMA BesideTx ==
    ASSUME TypeOK, [Next]_vars
    PROVE  QuietStep \/ ocpp_step \/ mq_recv \/ connector_process \/ Restart
<1> USE DEF QuietStep, lineVars, connVars, libVars, storeVars, csmsVars
<1>0. reqs' = reqs => Quiet(reqs, reqs')
  BY DEF Quiet
<1>1. CASE Tag
  <2>1. Effect
    BY <1>1, TagEffect DEF Tag, TypeOK
  <2>2. UNCHANGED <<state, relay, opened, closed, checkpoint, nvm, mq>>
    BY <1>1 DEF Tag
  <2> QED
    BY <2>1, <2>2, EffectQuiet
<1>2. CASE Line
  <2>1. UNCHANGED relay
    BY <1>2 DEF Line, LineNext, PilotChange, DutyMeasured, SafetyChange
  <2> QED
    BY <1>0, <1>2, <2>1 DEF Line
<1>3. CASE Expire \/ ClockSetBack
  <2>1. session'.tid = session.tid
    BY <1>3 DEF Expire, ClockSetBack, TypeOK, SessionType
  <2>2. UNCHANGED <<state, relay, opened, closed, checkpoint, nvm, mq, reqs>>
    BY <1>3 DEF Expire, ClockSetBack
  <2> QED
    BY <1>0, <2>1, <2>2
<1>4. CASE DropRequest
  <2>1. Quiet(reqs, reqs')
    BY <1>4, QuietTail DEF DropRequest, TypeOK
  <2> QED
    BY <1>4, <2>1 DEF DropRequest
<1>5. CASE Connect \/ Disconnect \/ on_updater_event \/ ext_post_process \/ UNCHANGED vars
  <2>1. UNCHANGED <<state, relay, opened, closed, checkpoint, nvm, mq, reqs, session>>
    BY <1>5 DEF Connect, Disconnect, on_updater_event, ext_post_process, vars
  <2> QED
    BY <1>0, <2>1
<1> QED
  BY <1>1, <1>2, <1>3, <1>4, <1>5 DEF Next, charger_process, Reboot, PowerLoss

\* No call of the CSMS touches a transaction, not even
\* RemoteStopTransaction: it only releases the session.
LEMMA CallTx ==
    ASSUME TypeOK, mq = <<>>, UNCHANGED relay, Call \/ Nothing
    PROVE  QuietStep
<1> USE DEF connVars, libVars, storeVars, csmsVars
<1>0. /\ reqs' = reqs => Quiet(reqs, reqs')
      /\ mq \notin Billing
      /\ \A m \in Message \ {"BILLING_STARTED", "BILLING_ENDED"} :
            Append(mq, m) \notin Billing
  BY DEF Quiet, Billing
<1>1. ASSUME NEW u \in Uid, NEW any \in BOOLEAN, do_remote_start(u, any)
      PROVE  QuietStep
  <2>1. Effect
    BY <1>1, RemoteStartEffect DEF TypeOK, Callbacks
  <2>2. UNCHANGED <<state, opened, closed, checkpoint, nvm, mq>>
    BY <1>1 DEF do_remote_start
  <2> QED
    BY <2>1, <2>2, EffectQuiet DEF QuietStep
<1>2. ASSUME NEW t \in opened, do_remote_stop(t) PROVE QuietStep
  <2>1. session'.tid = session.tid \/ (~IsCharging /\ session'.tid = 0)
    BY <1>2, SessionOps DEF do_remote_stop, TypeOK, After
  <2>2. UNCHANGED <<state, opened, closed, checkpoint, nvm, mq, reqs>>
    BY <1>2 DEF do_remote_stop
  <2> QED
    BY <1>0, <2>1, <2>2 DEF QuietStep
<1>3. ASSUME NEW type \in {"Soft", "Hard"}, do_reset(type) PROVE QuietStep
  BY <1>0, <1>3 DEF do_reset, mq_send, QuietStep, Message
<1>4. ASSUME NEW all \in BOOLEAN, NEW unavailable \in BOOLEAN,
             do_change_availability(all, unavailable)
      PROVE  QuietStep
  <2>1. checkpoint'.tid = checkpoint.tid
    BY <1>4 DEF do_change_availability, TypeOK, CheckpointType
  <2> QED
    BY <1>0, <1>4, <2>1 DEF do_change_availability, mq_send, QuietStep, Message
<1>5. ASSUME NEW key \in Writable, NEW set \in BOOLEAN,
             do_change_configuration(key, set)
      PROVE  QuietStep
  BY <1>0, <1>5 DEF do_change_configuration, mq_send, QuietStep, Message
<1>6. CASE do_clear_cache
  BY <1>0, <1>6 DEF do_clear_cache, QuietStep
<1>7. CASE Nothing
  BY <1>0, <1>7 DEF Nothing, QuietStep
<1> QED
  BY <1>1, <1>2, <1>3, <1>4, <1>5, <1>6, <1>7 DEF Call

\* The answers of the CSMS keep TxInv; those to StartTransaction and
\* StopTransaction find their request alone in the queue.
LEMMA AnswerTx ==
    ASSUME TypeOK, PowerOnlyWhileCharging, TxInv, mq = <<>>, UNCHANGED relay, CallResult
    PROVE  TxInv'
<1> USE DEF connVars, libVars, storeVars, csmsVars
<1>0. reqs \in Seq(RequestType) /\ session \in SessionType
  BY DEF TypeOK
<1>1. ASSUME NEW ok \in BOOLEAN, do_auth(ok) PROVE TxInv'
  <2> DEFINE s == IF ok THEN session ELSE clear_session_pending(session)
  <2>1. s \in After(session) /\ s \in SessionType
    BY <1>0, SessionOps DEF After
  <2>2. PICK store : session' = dispatch_auth_result(auth_cb, ok, s, store)
    BY <1>1 DEF do_auth
  <2> HIDE DEF s
  <2>3. session' \in After(session)
    BY <2>1, <2>2, DispatchType, AfterTrans
  <2>4. Quiet(reqs, reqs')
    BY <1>0, <1>1, QuietTail DEF do_auth, Answered
  <2>5. UNCHANGED <<state, opened, closed, checkpoint, nvm, mq>>
    BY <1>1 DEF do_auth
  <2>6. QuietStep
    BY <2>3, <2>4, <2>5 DEF QuietStep, After
  <2> QED
    BY <2>6, QuietStepTx
<1>2. ASSUME NEW status \in {"Accepted", "Pending", "Rejected"}, do_bootnoti(status)
      PROVE  TxInv'
  <2>1. Quiet(reqs, Tail(reqs)) /\ Tail(reqs) \in Seq(RequestType)
    BY <1>0, <1>2, QuietTail, PopType DEF do_bootnoti, Answered
  <2>2. ~IsTx(Boot) /\ Boot \in RequestType
    BY RequestTypes DEF IsTx, Boot, Request
  <2>3. Quiet(reqs, ocpp_push_request(Tail(reqs), Boot))
    BY <2>1, <2>2, QuietPush, QuietTrans
  <2>4. mq' = mq \/ mq' = <<"CSMS_UP">>
    BY <1>2 DEF do_bootnoti, mq_send
  <2>5. UNCHANGED <<state, opened, closed, checkpoint, nvm, session>>
    BY <1>2 DEF do_bootnoti
  <2>6. Quiet(reqs, reqs')
    BY <1>2, <2>1, <2>3 DEF do_bootnoti
  <2>7. mq \notin Billing /\ <<"CSMS_UP">> \notin Billing
    BY DEF Billing
  <2>8. QuietStep
    BY <2>4, <2>5, <2>6, <2>7 DEF QuietStep
  <2> QED
    BY <2>8, QuietStepTx
<1>3. ASSUME NEW ok \in BOOLEAN, NEW dated \in BOOLEAN, do_start_transaction(ok, dated)
      PROVE  TxInv'
  <2>1. reqs # <<>> /\ IsTx(Head(reqs)) /\ reqs' = Tail(reqs)
    BY <1>3 DEF do_start_transaction, Answered, IsTx
  <2>2. session.tid = 0 /\ NoTx(reqs')
    BY <1>0, <2>1, HeadTx DEF TxInv
  <2>3. ~IsCharging /\ ~relay
    BY <2>2 DEF TxInv, PowerOnlyWhileCharging, IsCharging
  <2>4. state # "Booting"
    <3>1. Head(reqs) = reqs[1] /\ 1 \in 1..Len(reqs)
      BY <1>0, <2>1
    <3> QED
      BY <2>1, <3>1 DEF TxInv, NoTx
  <2>5. UNCHANGED <<state, closed, checkpoint, nvm>>
    BY <1>3 DEF do_start_transaction
  <2>6. QueueInv(reqs', session'.tid, checkpoint'.tid)
    BY <2>2, QueueFacts
  <2>7. CASE ok
    <3>1. PICK t \in Tid \ opened : opened' = opened \cup {t} /\ session'.tid = t
      <4> DEFINE e == IF dated THEN "valid" ELSE session.expiry
                 p == IF ParentOf(Head(reqs).uid) # NoPid
                      THEN ParentOf(Head(reqs).uid) ELSE session.pid
      <4>1. PICK t \in Tid \ opened :
               opened' = opened \cup {t}
               /\ session' = [session EXCEPT !.tid = t, !.expiry = e, !.pid = p]
        BY <1>3, <2>7 DEF do_start_transaction
      <4> HIDE DEF e, p
      <4> QED
        BY <1>0, <4>1 DEF SessionType
    <3>2. mq' = <<"BILLING_STARTED">>
      <4>1. mq' = Append(mq, "BILLING_STARTED")
        BY <1>3, <2>7 DEF do_start_transaction, mq_send
      <4> QED
        BY <4>1
    <3>3. session'.tid \in opened' \ closed' /\ closed' \subseteq opened'
      BY <2>5, <3>1 DEF TxInv
    <3> QED
      BY <2>2, <2>3, <2>4, <2>5, <2>6, <3>1, <3>2, <3>3 DEF TxInv, IsCharging
  <2>8. CASE ~ok
    <3>1. session'.tid = 0 /\ UNCHANGED <<opened, mq>>
      BY <1>3, <2>8, NoSessionType DEF do_start_transaction
    <3> QED
      BY <2>2, <2>3, <2>4, <2>5, <2>6, <3>1 DEF TxInv, IsCharging
  <2> QED
    BY <2>7, <2>8
<1>4. CASE do_stop_transaction
  <2>1. reqs # <<>> /\ Head(reqs).type = "Stop" /\ IsTx(Head(reqs)) /\ reqs' = Tail(reqs)
    BY <1>4 DEF do_stop_transaction, Answered, IsTx
  <2>2. session.tid = 0 /\ NoTx(reqs') /\ Head(reqs).tid = checkpoint.tid
        /\ checkpoint.tid # 0
    BY <1>0, <2>1, HeadTx DEF TxInv
  <2>3. UNCHANGED <<state, session, opened, checkpoint, nvm>>
    BY <1>4 DEF do_stop_transaction
  <2>4. closed' = closed \cup {checkpoint.tid} /\ mq' = <<"BILLING_ENDED">>
    BY <1>4, <2>2 DEF do_stop_transaction, mq_send
  <2>5. QueueInv(reqs', session'.tid, checkpoint'.tid)
    BY <2>2, QueueFacts
  <2>6. ~IsCharging /\ ~relay
    BY <2>2 DEF TxInv, PowerOnlyWhileCharging, IsCharging
  <2> QED
    BY <2>2, <2>3, <2>4, <2>5, <2>6 DEF TxInv, IsCharging
<1>5. CASE NotiAnswered
  <2>1. Quiet(reqs, reqs')
    BY <1>0, <1>5, QuietTail DEF NotiAnswered, Answered
  <2>2. QuietStep
    BY <1>5, <2>1 DEF NotiAnswered, QuietStep
  <2> QED
    BY <2>2, QuietStepTx
<1> QED
  BY <1>1, <1>2, <1>3, <1>4, <1>5 DEF CallResult

\* Whatever ocpp_step takes in keeps TxInv.
LEMMA StepTx ==
    ASSUME TypeOK, PowerOnlyWhileCharging, MqInv, TxInv, ocpp_step
    PROVE  TxInv'
<1>1. mq = <<>> /\ UNCHANGED relay
  BY DEF ocpp_step, Incoming, MqInv, lineVars
<1> QED
  BY <1>1, AnswerTx, CallTx, QuietStepTx DEF ocpp_step, Incoming

\* The message that is taken from mq keeps TxInv: BILLING_STARTED and
\* BILLING_ENDED find no request about a transaction in the queue.
LEMMA RecvTx ==
    ASSUME TypeOK, PowerOnlyWhileCharging, MqInv, TxInv, mq_recv
    PROVE  TxInv'
<1> USE DEF csmsVars
<1>0. /\ mq' = <<>> /\ (mq # <<>> => mq = <<Head(mq)>>)
      /\ UNCHANGED <<state, relay, session, opened, closed>>
  BY RecvOne DEF mq_recv, lineVars
<1>1. reqs \in Seq(RequestType) /\ session \in SessionType /\ checkpoint \in CheckpointType
  BY DEF TypeOK
<1>2. Quiet(reqs, reqs) /\ Quiet(reqs, Notified(reqs))
  BY <1>1, QuietNotified DEF Quiet
<1>3. Saved("checkpoint", checkpoint).checkpoint = checkpoint
      /\ Saved("conf", conf).checkpoint = nvm.checkpoint
  BY DEF Saved, TypeOK
<1>4. CASE mq = <<>>
  <2>1. QuietStep
    BY <1>0, <1>2, <1>4, RecvCases DEF QuietStep, Billing
  <2> QED
    BY <2>1, QuietStepTx
<1>5. CASE mq # <<>> /\ Head(mq) \notin {"BILLING_STARTED", "BILLING_ENDED"}
  <2>1. mq \notin Billing /\ mq' \notin Billing
    BY <1>0, <1>5 DEF Billing
  <2>2. Quiet(reqs, reqs') /\ checkpoint' = checkpoint
        /\ (nvm'.checkpoint = checkpoint \/ nvm'.checkpoint = nvm.checkpoint)
    BY <1>2, <1>3, <1>5, RecvCases DEF proc_availability, proc_configuration,
       proc_csms_up, proc_remote_reset
  <2>3. QuietStep
    BY <1>0, <2>1, <2>2 DEF QuietStep
  <2> QED
    BY <2>3, QuietStepTx
<1>6. CASE mq # <<>> /\ Head(mq) = "BILLING_STARTED"
  <2>1. mq = <<"BILLING_STARTED">>
    BY <1>0, <1>6
  <2>2. NoTx(reqs) /\ UNCHANGED <<nvm, reqs>>
    BY <1>6, <2>1, RecvCases DEF TxInv, proc_start_transaction
  <2>3. checkpoint'.tid = session.tid
    BY <1>1, <1>6, RecvCases DEF proc_start_transaction, CheckpointType
  <2>4. QueueInv(reqs', session'.tid, checkpoint'.tid)
    BY <2>2, QueueFacts
  <2>5. checkpoint'.tid \in opened \cup {0}
    BY <2>3 DEF TxInv
  <2>6. mq' # <<"BILLING_STARTED">> /\ mq' # <<"BILLING_ENDED">>
    BY <1>0
  <2> QED
    BY <1>0, <2>2, <2>3, <2>4, <2>5, <2>6 DEF TxInv, IsCharging
<1>7. CASE mq # <<>> /\ Head(mq) = "BILLING_ENDED"
  <2>1. mq = <<"BILLING_ENDED">>
    BY <1>0, <1>7
  <2>2. NoTx(reqs) /\ UNCHANGED <<nvm, reqs>> /\ session.tid = 0
    BY <1>7, <2>1, RecvCases DEF TxInv, proc_stop_transaction
  <2>3. checkpoint'.tid = 0
    BY <1>1, <1>7, RecvCases DEF proc_stop_transaction, CheckpointType
  <2>4. QueueInv(reqs', session'.tid, checkpoint'.tid)
    BY <2>2, QueueFacts
  <2>6. mq' # <<"BILLING_STARTED">> /\ mq' # <<"BILLING_ENDED">>
    BY <1>0
  <2> QED
    BY <1>0, <2>2, <2>3, <2>4, <2>6 DEF TxInv, IsCharging
<1> QED
  BY <1>4, <1>5, <1>6, <1>7

\* A restart, at any moment, keeps TxInv.
LEMMA RestartTx ==
    ASSUME TxInv, Restart
    PROVE  TxInv'
<1>1. NoTx(reqs')
  BY DEF Restart, NoTx, IsTx, Boot, Request
<1>2. session'.tid = 0
  BY NoSessionType DEF Restart
<1>3. QueueInv(reqs', session'.tid, checkpoint'.tid)
  BY <1>1, QueueFacts
<1>4. mq' # <<"BILLING_STARTED">> /\ mq' # <<"BILLING_ENDED">>
  BY DEF Restart
<1> QED
  BY <1>1, <1>2, <1>3, <1>4 DEF TxInv, Restart, csmsVars, IsCharging

\* What a step of the machine does to the requests and the session.
LEMMA MachineTx ==
    ASSUME TypeOK, TxInv, mq = <<>>, MachineStep
    PROVE  /\ QueueInv(reqs', session'.tid, checkpoint.tid)
           /\ state' = "Booting" => NoTx(reqs') /\ session'.tid = 0
           /\ IsCharging' => session'.tid # 0
           /\ session'.tid \in {session.tid, 0}
<1>0. reqs \in Seq(RequestType) /\ session \in SessionType /\ checkpoint \in CheckpointType
  BY DEF TypeOK
<1>1. QueueInv(reqs, session.tid, checkpoint.tid)
  BY DEF TxInv
<1>2. NoSession \in SessionType /\ NoSession.tid = 0
  BY NoSessionType
<1>3. Quiet(reqs, reqs) /\ Quiet(reqs, Notified(reqs))
  BY <1>0, QuietNotified DEF Quiet
<1>4. CASE /\ state \in Resting
           /\ state' \in {"Unavailable", "Available", "Preparing"}
           /\ do_unavailable \/ do_available \/ do_preparing
  <2> DEFINE q == IF do_preparing /\ state = "Finishing" THEN reqs ELSE Notified(reqs)
  <2>1. Quiet(reqs, q) /\ q \in Seq(RequestType)
    BY <1>0, <1>3, QuietNotified
  <2>2. PICK s \in SessionType : reqs' = do_missing_transaction(q, s)
    <3>1. CASE do_preparing
      <4>1. reqs' = do_missing_transaction(q, session)
        BY <3>1 DEF do_preparing
      <4> QED
        BY <1>0, <4>1
    <3>2. CASE ~do_preparing
      <4>1. reqs' = do_missing_transaction(q, NoSession)
        BY <1>4, <3>2 DEF do_unavailable, do_available
      <4> QED
        BY <1>2, <4>1
    <3> QED
      BY <3>1, <3>2
  <2>3. session' = session \/ session' = NoSession
    BY <1>4 DEF do_unavailable, do_available, do_preparing
  <2>4. state' # "Booting" /\ ~IsCharging'
    BY <1>4 DEF IsCharging
  <2> HIDE DEF q
  <2>5. CASE HasMissing
    <3> DEFINE r == StopRequest([s EXCEPT !.tid = checkpoint.tid])
    <3>1. r.type = "Stop" /\ r.tid = checkpoint.tid
      BY DEF StopRequest, Request, SessionType
    <3>2. reqs' = ocpp_push_request_force(q, r)
      BY <2>2, <2>5 DEF do_missing_transaction
    <3> HIDE DEF r
    <3>3. NoTx(q) /\ session.tid = 0 /\ checkpoint.tid # 0
      BY <2>1, <2>5 DEF HasMissing, TxInv, Quiet
    <3>4. QueueInv(reqs', 0, checkpoint.tid)
      BY <2>1, <3>1, <3>2, <3>3, ForceTx
    <3> QED
      BY <1>2, <2>3, <2>4, <3>3, <3>4
  <2>6. CASE ~HasMissing
    <3>1. Quiet(reqs, reqs')
      BY <2>1, <2>2, <2>6 DEF do_missing_transaction
    <3>2. QueueInv(reqs', session.tid, checkpoint.tid)
      BY <1>1, <3>1 DEF Quiet
    <3> QED
      BY <1>2, <2>3, <2>4, <3>2, QueueFacts
  <2> QED
    BY <2>5, <2>6
<1>5. CASE do_faulted /\ state' = "Faulted"
  <2>1. reqs' = Notified(reqs) /\ session'.tid = 0 /\ ~IsCharging'
    BY <1>2, <1>5 DEF do_faulted, IsCharging
  <2>2. QueueInv(reqs', session.tid, checkpoint.tid)
    BY <1>1, <1>3, <2>1 DEF Quiet
  <2> QED
    BY <1>5, <2>1, <2>2, QueueFacts
<1>6. CASE state = "Preparing" /\ state' = "Preparing" /\ do_request_tid /\ is_charging_rdy
  <2>1. NoTx(reqs) /\ session.tid = 0
    BY <1>0, <1>6 DEF is_charging_rdy, ocpp_count_pending_requests, NoTx,
       is_transaction_started
  <2>2. session'.tid = session.tid
    BY <1>0, <1>6 DEF do_request_tid, SessionType
  <2> DEFINE r == Request("Start", session.uid, 0)
  <2>3. r.type # "Stop"
    BY DEF Request
  <2>4. reqs' = ocpp_push_request_force(reqs, r)
    BY <1>6 DEF do_request_tid
  <2> HIDE DEF r
  <2>5. QueueInv(reqs', 0, checkpoint.tid)
    BY <1>0, <2>1, <2>3, <2>4, ForceTx
  <2> QED
    BY <1>6, <2>1, <2>2, <2>5 DEF IsCharging
<1>7. CASE state = "Preparing" /\ state' = "Charging" /\ do_charging /\ Paying
  <2>1. session.tid # 0 /\ UNCHANGED <<session, reqs>>
    BY <1>7 DEF do_charging, Paying, is_transaction_started
  <2> QED
    BY <1>1, <1>7, <2>1
<1>8. CASE IsCharging /\ IsCharging' /\ (do_charging \/ do_suspendedEV)
  <2>1. session' = session /\ session.tid # 0
    BY <1>8 DEF do_charging, do_suspendedEV, TxInv
  <2>2. Quiet(reqs, reqs')
    <3>1. \A q \in Seq(RequestType) : Quiet(reqs, q) => Quiet(reqs, Notified(q))
          /\ Notified(q) \in Seq(RequestType)
      BY QuietNotified, QuietTrans
    <3>2. ASSUME NEW q \in Seq(RequestType), Quiet(reqs, q), send_metering(q)
          PROVE  Quiet(reqs, reqs')
      BY <3>1, <3>2 DEF send_metering
    <3>3. CASE do_charging
      <4>1. send_metering(reqs) \/ send_metering(Notified(reqs))
        BY <1>8, <3>3 DEF do_charging, IsCharging
      <4> QED
        BY <1>0, <1>3, <3>1, <3>2, <4>1
    <3>4. CASE do_suspendedEV
      BY <1>3, <3>4 DEF do_suspendedEV
    <3> QED
      BY <1>8, <3>3, <3>4
  <2>3. QueueInv(reqs', session.tid, checkpoint.tid)
    BY <1>1, <2>2 DEF Quiet
  <2>4. state' # "Booting"
    BY <1>8 DEF IsCharging
  <2> QED
    BY <2>1, <2>3, <2>4
<1>9. CASE IsCharging /\ state' = "Finishing" /\ do_finishing
  <2>1. session.tid # 0 /\ checkpoint.tid = session.tid /\ NoTx(reqs)
    BY <1>1, <1>9, QueueFacts DEF TxInv
  <2> DEFINE r == StopRequest(session)
             q == ocpp_push_request_force(reqs, r)
  <2>2. r.type = "Stop" /\ r.tid = checkpoint.tid /\ r \in RequestType
    BY <1>0, <2>1, RequestTypes DEF StopRequest, Request
  <2>3. reqs' = Notified(q) /\ session'.tid = 0
    BY <1>2, <1>9 DEF do_finishing
  <2> HIDE DEF r
  <2>4. QueueInv(q, 0, checkpoint.tid) /\ q \in Seq(RequestType)
    BY <1>0, <2>1, <2>2, ForceTx, PushType
  <2> HIDE DEF q
  <2>5. QueueInv(reqs', 0, checkpoint.tid)
    BY <2>3, <2>4, QuietNotified DEF Quiet
  <2> QED
    BY <1>9, <2>3, <2>5 DEF IsCharging
<1>10. CASE state' = state /\ UNCHANGED <<session, reqs>>
  BY <1>1, <1>10 DEF TxInv, IsCharging
<1>11. CASE state = "Booting" /\ state' = "Booting" /\ do_boot
  BY <1>10, <1>11 DEF do_boot
<1> QED
  BY <1>4, <1>5, <1>6, <1>7, <1>8, <1>9, <1>10, <1>11 DEF MachineStep, IsCharging

\* A step of the connector, with the save that ends it, keeps TxInv.
LEMMA ConnectorTx ==
    ASSUME TypeOK, PowerOnlyWhileCharging, MqInv, SaveInv, TxInv,
           [Next]_vars, connector_process
    PROVE  TxInv'
<1>1. /\ mq = <<>> /\ mq' = <<>> /\ evtq' = {} /\ checkpoint' = checkpoint
      /\ UNCHANGED <<opened, closed>>
  BY DEF connector_process, MqInv, csmsVars
<1>2. nvm'.checkpoint = checkpoint
  <2>1. SaveInv'
    BY NextStore
  <2> QED
    BY <1>1, <2>1 DEF SaveInv, Announced
<1>3. MachineStep
  BY FsmStep DEF connector_process, TypeOK
<1>4. /\ QueueInv(reqs', session'.tid, checkpoint'.tid)
      /\ state' = "Booting" => NoTx(reqs') /\ session'.tid = 0
      /\ IsCharging' => session'.tid # 0
      /\ session'.tid \in {session.tid, 0}
  BY <1>1, <1>3, MachineTx
<1>5. session'.tid # 0 => /\ session'.tid \in opened' \ closed'
                          /\ checkpoint'.tid = session'.tid
  BY <1>1, <1>4 DEF TxInv
<1>6. relay' => IsCharging'
  <2>1. PowerOnlyWhileCharging'
    BY NextPower
  <2> QED
    BY <2>1 DEF PowerOnlyWhileCharging, IsCharging
<1>7. relay' => nvm'.checkpoint.tid = session'.tid
  BY <1>1, <1>2, <1>4, <1>5, <1>6
<1>8. mq' # <<"BILLING_STARTED">> /\ mq' # <<"BILLING_ENDED">>
  BY <1>1
<1>9. /\ closed' \subseteq opened'
      /\ checkpoint'.tid \in opened' \cup {0}
      /\ nvm'.checkpoint.tid \in opened' \cup {0}
  BY <1>1, <1>2 DEF TxInv
<1> QED
  BY <1>4, <1>5, <1>7, <1>8, <1>9 DEF TxInv

BillingInv == TypeOK /\ PowerOnlyWhileCharging /\ MqInv /\ SaveInv /\ TxInv

\* The invariant behind the theorems below is inductive: the steps of the
\* charger, the CSMS, the user and a loss of power all keep it.
THEOREM BillingInvariance == Spec => []BillingInv
<1>1. Init => BillingInv
  <2> SUFFICES ASSUME Init PROVE BillingInv
    OBVIOUS
  <2>1. NoTx(reqs)
    <3>1. reqs = <<Boot>>
      BY DEF Init, Booted
    <3>2. Boot.type = "Boot"
      BY DEF Boot, Request
    <3> QED
      BY <3>1, <3>2 DEF NoTx, IsTx
  <2>2. session.tid = 0
    BY NoSessionType DEF Init, Booted
  <2>3. QueueInv(reqs, session.tid, checkpoint.tid)
    BY <2>1, QueueFacts
  <2>4. mq # <<"BILLING_STARTED">> /\ mq # <<"BILLING_ENDED">>
    BY DEF Init, Booted
  <2>5. checkpoint.tid = 0 /\ nvm.checkpoint.tid = 0
    BY DEF Init, Booted, EmptyCheckpoint
  <2>6. TxInv
    BY <2>1, <2>2, <2>3, <2>4, <2>5 DEF TxInv, Init, Booted, LineInit, IsCharging
  <2>7. PowerOnlyWhileCharging
    BY DEF Init, LineInit, Booted, PowerOnlyWhileCharging
  <2> QED
    BY <2>6, <2>7, InitType, InitStore DEF BillingInv
<1>2. BillingInv /\ [Next]_vars => BillingInv'
  <2> SUFFICES ASSUME BillingInv, [Next]_vars PROVE BillingInv'
    OBVIOUS
  <2> USE DEF BillingInv
  <2>1. TypeOK' /\ PowerOnlyWhileCharging' /\ MqInv' /\ SaveInv'
    BY NextType, NextPower, NextStore
  <2>2. TxInv'
    BY BesideTx, QuietStepTx, StepTx, RecvTx, ConnectorTx, RestartTx
  <2> QED
    BY <2>1, <2>2
<1> QED
  BY <1>1, <1>2, PTL DEF Spec

\* Whenever the relay is closed, the session has a transaction the CSMS has
\* started and not been told to stop, and it is in persistent storage.
THEOREM EnergyIsBilled == Spec => []PowerIsBilled
<1>1. BillingInv => PowerIsBilled
  <2> SUFFICES ASSUME BillingInv, relay
               PROVE  session.tid \in opened \ closed /\ nvm.checkpoint.tid = session.tid
    BY DEF PowerIsBilled
  <2>1. IsCharging
    BY DEF BillingInv, PowerOnlyWhileCharging, IsCharging
  <2> QED
    BY <2>1 DEF BillingInv, TxInv
<1> QED
  BY <1>1, BillingInvariance, PTL

\* A StopTransaction that is queued names the transaction in the checkpoint,
\* so that its answer, which clears the checkpoint, clears no other one.
THEOREM StopIsForCheckpoint == Spec => []StopMatchesCheckpoint
<1>1. BillingInv => StopMatchesCheckpoint
  BY DEF BillingInv, TxInv, QueueInv, IsTx, StopMatchesCheckpoint, Pending
<1> QED
  BY <1>1, BillingInvariance, PTL

\* There is never more than one request about a transaction in the queue, and
\* none while the session has a transaction.
THEOREM TransactionsDoNotOverlap == Spec => []OneTransaction
<1>1. BillingInv => OneTransaction
  BY DEF BillingInv, TxInv, QueueInv, IsTx, OneTransaction, Pending
<1> QED
  BY <1>1, BillingInvariance, PTL
=============================================================================
