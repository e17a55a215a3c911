---------------------------- MODULE OcppMessages ----------------------------
(***************************************************************************)
(* The OCPP messages of the charger: adapter.c builds the payloads of its  *)
(* requests and responses, encoder_json.c turns them into JSON texts,      *)
(* decoder_json.c turns the texts of the CSMS into payloads, handler.c     *)
(* reads those, and csms.c frees them all.  In between the OCPP library    *)
(* (external) keeps the messages: it sends them, waits for the results,    *)
(* tries again or gives up.  The five tables that say what each part does  *)
(* with a type are kept apart in the code, and here.                       *)
(*                                                                         *)
(* A payload or a JSON object is the set of the fields present.  A key of  *)
(* GetConfiguration is a model value of KeyWidth characters.               *)
(*                                                                         *)
(* queue   the messages the library holds;                                 *)
(* mem     payloads alive (live), the metrics OCPPMessageAllocCount less   *)
(*         OCPPMessageFreeCount (counted), and OCPPPushFailedCount;        *)
(* wire    the text sent in the last step, if one was;                     *)
(* unread  a handler read a payload that was not there.                    *)
(***************************************************************************)
EXTENDS Naturals, Sequences, SequencesExt, FiniteSets, FiniteSetsExt

CONSTANTS
    MaxQueue,       \* bound: messages the library holds
    MaxFailed,      \* bound: pushes that fail
    Known,          \* configuration keys the library knows
    Readable,       \* those it lets the CSMS read
    Unknown,        \* keys it does not know
    KeyWidth        \* characters of a key

ASSUME MessagesAssumption ==
    /\ {MaxQueue, MaxFailed, KeyWidth} \subseteq Nat \ {0}
    /\ Readable \subseteq Known /\ Known \intersect Unknown = {}

VARIABLES queue, mem, wire, unread

msgVars == <<queue, mem, wire, unread>>

CALL == "CALL"
CALLRESULT == "CALLRESULT"
CALLERROR == "CALLERROR"

Nothing == [type |-> "none"]

-----------------------------------------------------------------------------
(* adapter.c: the measurands of MeterValues, a set of bits, become a list  *)
(* of samples.                                                             *)

Bits == 0..2        \* bound: the measurands of an ocpp_measurand_t

count_measurands(measurands) == Cardinality(measurands)

(* The index-th bit that is set, counting from 1; "none" stands for 0. *)
pick_measurand_by_index(measurands, index) ==
    LET hit == {b \in measurands : Cardinality({c \in measurands : c <= b}) = index}
    IN IF hit = {} THEN "none" ELSE Min(hit)

do_metervalue(measurands) ==
    [i \in 1..count_measurands(measurands) |->
        pick_measurand_by_index(measurands, i)]

-----------------------------------------------------------------------------
(* encoder_json.c: the fields a type's encoder always writes, those it     *)
(* writes when the payload has them, and those whose failure it ignores.   *)

Fields(must, opt, ignored) == [must |-> must, opt |-> opt, ignored |-> ignored]

EncodeEmpty == Fields({}, {}, {})
EncodeStatus == Fields({"status"}, {}, {})
EncodeAuthorize == Fields({"idTag"}, {}, {})
EncodeBootNotification ==
    Fields({"chargePointModel", "chargePointVendor"},
           {"firmwareVersion", "chargePointSerialNumber"}, {})
EncodeDiagnosticsStatus == Fields({"status"}, {}, {"status"})
EncodeFirmwareStatus == Fields({"status"}, {}, {"status"})
EncodeGetConfiguration == Fields({"configurationKey"}, {}, {"configurationKey"})
EncodeMeterValues ==
    Fields({"connectorId", "meterValue"}, {"transactionId"}, {"meterValue"})
EncodeRemote == Fields({"status"}, {}, {})
EncodeStartTransaction ==
    Fields({"connectorId", "meterStart", "idTag", "timestamp"},
           {"reservationId"}, {})
EncodeStatusNotification ==
    Fields({"connectorId", "errorCode", "status"},
           {"info", "vendorId", "vendorErrorCode", "timestamp"}, {})
EncodeStopTransaction ==
    Fields({"transactionId", "meterStop", "reason", "timestamp"}, {"idTag"}, {})

encoders ==
    [Authorize |-> EncodeAuthorize,
     BootNotification |-> EncodeBootNotification,
     ChangeAvailability |-> EncodeStatus,
     ChangeConfiguration |-> EncodeStatus,
     ClearCache |-> EncodeStatus,
     DiagnosticsStatusNotification |-> EncodeDiagnosticsStatus,
     FirmwareStatusNotification |-> EncodeFirmwareStatus,
     GetConfiguration |-> EncodeGetConfiguration,
     Heartbeat |-> EncodeEmpty,
     MeterValues |-> EncodeMeterValues,
     RemoteStartTransaction |-> EncodeRemote,
     RemoteStopTransaction |-> EncodeRemote,
     Reset |-> EncodeRemote,
     StartTransaction |-> EncodeStartTransaction,
     StatusNotification |-> EncodeStatusNotification,
     StopTransaction |-> EncodeStopTransaction,
     UpdateFirmware |-> EncodeEmpty]

(* encode() with `failed` the fields for which cJSON found no memory: the  *)
(* set with the fields of the text, or the empty set of texts.             *)
encode(msg, failed) ==
    IF msg.role = CALLERROR THEN {{}}
    ELSE IF msg.type \notin DOMAIN encoders THEN {}
    ELSE LET e == encoders[msg.type]
             written == e.must \union (e.opt \intersect msg.fields)
         IN IF failed \intersect written \subseteq e.ignored
            THEN {written \ failed} ELSE {}

(* pack_configurations(): the chunks between the commas, all keys when     *)
(* there is none; a key that is unknown is counted in a variable the       *)
(* caller does not see, so unknownKey is never written.                    *)
SplitKeys(str) == {str[i] : i \in DOMAIN str} \ {","}

pack_configurations(str) ==
    IF str = <<>> THEN Readable ELSE SplitKeys(str) \intersect Readable

-----------------------------------------------------------------------------
(* decoder_json.c: the fields a type's decoder insists on, and those it    *)
(* takes when they are there.                                              *)

Needs(need, opt, payload) == [need |-> need, opt |-> opt, payload |-> payload]

DecodeEmpty == Needs({}, {}, FALSE)
DecodeCurrentTime == Needs({"currentTime"}, {}, TRUE)
DecodeAuthorize ==
    Needs({"idTagInfo", "status"}, {"expiryDate", "parentIdTag"}, TRUE)
DecodeBootNotification == Needs({"currentTime", "interval", "status"}, {}, TRUE)
DecodeChangeAvailability == Needs({"connectorId", "type"}, {}, TRUE)
DecodeChangeConfiguration == Needs({"key", "value"}, {}, TRUE)
DecodeGetConfiguration == Needs({}, {"key"}, FALSE)
DecodeRemoteStart == Needs({"idTag"}, {"connectorId", "chargingProfile"}, TRUE)
DecodeRemoteStop == Needs({"transactionId"}, {}, TRUE)
DecodeReset == Needs({"type"}, {}, TRUE)
DecodeStartTransaction ==
    Needs({"idTagInfo", "transactionId", "status"},
          {"expiryDate", "parentIdTag"}, TRUE)
DecodeUpdateFirmware ==
    Needs({"location", "retrieveDate"}, {"retries", "retryInterval"}, TRUE)

decoders ==
    [Authorize |-> DecodeAuthorize,
     BootNotification |-> DecodeBootNotification,
     ChangeAvailability |-> DecodeChangeAvailability,
     ChangeConfiguration |-> DecodeChangeConfiguration,
     ClearCache |-> DecodeEmpty,
     DiagnosticsStatusNotification |-> DecodeEmpty,
     FirmwareStatusNotification |-> DecodeEmpty,
     GetConfiguration |-> DecodeGetConfiguration,
     Heartbeat |-> DecodeCurrentTime,
     MeterValues |-> DecodeEmpty,
     RemoteStartTransaction |-> DecodeRemoteStart,
     RemoteStopTransaction |-> DecodeRemoteStop,
     Reset |-> DecodeReset,
     StartTransaction |-> DecodeStartTransaction,
     StatusNotification |-> DecodeEmpty,
     StopTransaction |-> DecodeEmpty,
     UpdateFirmware |-> DecodeUpdateFirmware]

(* create_message(): a payload only when the type has one and, for         *)
(* GetConfiguration, when keys are asked for.                              *)
HasPayload(type, keys) == decoders[type].payload \/ keys # <<>>

(* decode(): -ENOTSUP for a type without a decoder, -EBADMSG for a field   *)
(* that is missing, -ENOMEM, or the message.                               *)
decode(type, json, keys, memory) ==
    IF type \notin DOMAIN decoders THEN "ENOTSUP"
    ELSE IF ~ (decoders[type].need \subseteq json) THEN "EBADMSG"
    ELSE IF HasPayload(type, keys) /\ ~memory THEN "ENOMEM"
    ELSE "OK"

(* do_get_configuration() joins the keys with snprintf(), each into what   *)
(* is left of the room; a text needs one character more than its width.    *)
JoinKeys(keys) ==
    LET room == Len(keys) * (KeyWidth + 1)
        Join(acc, key) ==
            LET text == IF acc.i > 0 THEN <<",", key>> ELSE <<key>>
                width == IF acc.i > 0 THEN KeyWidth + 1 ELSE KeyWidth
            IN [str |-> acc.str \o IF width < room - acc.i THEN text ELSE <<"cut">>,
                i |-> acc.i + width]
    IN FoldLeft(Join, [str |-> <<>>, i |-> 0], keys).str

-----------------------------------------------------------------------------
(* adapter.c: the fields of the payload that a type's function always sets *)
(* and those it sets when there is something to say.  do_empty() *)
(* pushes a message without a payload.                                     *)

Builds(set, maybe) == [set |-> set, maybe |-> maybe, payload |-> TRUE]

BuildEmpty == [set |-> {}, maybe |-> {}, payload |-> FALSE]
BuildAuthorize == Builds({"idTag"}, {})
BuildBootNotification ==
    Builds({"chargePointModel", "chargePointVendor", "firmwareVersion",
            "chargePointSerialNumber"}, {})
BuildChangeAvailability == Builds({"status"}, {})
BuildChangeConfiguration == Builds({"status"}, {})
BuildClearCache == Builds({"status"}, {})
BuildDataTransfer == Builds({"vendorId", "messageId"}, {"data"})
BuildDiagnosticsStatus == Builds({"status"}, {})
BuildFirmwareStatus == Builds({"status"}, {})
BuildGetConfiguration == Builds({"configurationKey"}, {})
BuildMeterValues == Builds({"connectorId", "meterValue"}, {"transactionId"})
BuildRemoteStartStop == Builds({"status"}, {})
BuildReset == Builds({"status"}, {})
BuildStartTransaction ==
    Builds({"connectorId", "meterStart", "timestamp", "idTag"}, {"reservationId"})
BuildStatusNotification ==
    Builds({"connectorId", "errorCode", "timestamp", "status"},
           {"info", "vendorErrorCode", "vendorId"})
BuildStopTransaction ==
    Builds({"meterStop", "timestamp", "transactionId", "reason"}, {"idTag"})
BuildUnlock == Builds({"status"}, {})

requests ==
    [Authorize |-> BuildAuthorize,
     BootNotification |-> BuildBootNotification,
     DataTransfer |-> BuildDataTransfer,
     DiagnosticsStatusNotification |-> BuildDiagnosticsStatus,
     FirmwareStatusNotification |-> BuildFirmwareStatus,
     Heartbeat |-> BuildEmpty,
     MeterValues |-> BuildMeterValues,
     StartTransaction |-> BuildStartTransaction,
     StatusNotification |-> BuildStatusNotification,
     StopTransaction |-> BuildStopTransaction]

responses ==
    [ChangeAvailability |-> BuildChangeAvailability,
     ChangeConfiguration |-> BuildChangeConfiguration,
     ClearCache |-> BuildClearCache,
     GetConfiguration |-> BuildGetConfiguration,
     RemoteStartTransaction |-> BuildRemoteStartStop,
     RemoteStopTransaction |-> BuildRemoteStartStop,
     Reset |-> BuildReset,
     UnlockConnector |-> BuildUnlock,
     UpdateFirmware |-> BuildEmpty]

FieldSets(b) == {b.set, b.set \union b.maybe}

-----------------------------------------------------------------------------
(* handler.c: the messages that have a handler. *)

handlers ==
    ({CALLRESULT} \X {"Authorize", "BootNotification", "Heartbeat",
                      "StartTransaction", "StopTransaction"})
    \union
    ({CALL} \X {"ChangeAvailability", "ChangeConfiguration", "ClearCache",
                "GetConfiguration", "RemoteStartTransaction",
                "RemoteStopTransaction", "Reset", "UpdateFirmware"})

(* The handlers that do not look at the payload they are given. *)
PayloadUnread == {"ClearCache", "GetConfiguration", "StopTransaction"}

Missing(type, payload) == type \notin PayloadUnread /\ ~payload

-----------------------------------------------------------------------------
(* Memory: alloc_message() and create_message(); on_ocpp_event() of csms.c *)
(* frees; so does request_free_if_fail(), which counts the failure only.   *)

Allocated(m) == [m EXCEPT !.live = @ + 1, !.counted = @ + 1]
Freed(m, payload) ==
    IF payload THEN [m EXCEPT !.live = @ - 1, !.counted = @ - 1] ELSE m

\* Mutant: a payload that could not be queued is not freed.
FreedOnFailure_Not(m, payload) == IF payload THEN [m EXCEPT !.failed = @ + 1] ELSE m

FreedOnFailure(m, payload) ==
    IF payload THEN [m EXCEPT !.live = @ - 1, !.failed = @ + 1] ELSE m

(* push() of a message [type, role, fields, data] for which b is the       *)
(* function: its outcomes.                                                 *)
Pushed(q, m, b, msg) ==
    LET built == IF b.payload THEN Allocated(m) ELSE m
        kept == [type |-> msg.type, role |-> msg.role, fields |-> msg.fields,
                 data |-> msg.data, payload |-> b.payload, waits |-> FALSE]
    IN (IF b.payload THEN {[q |-> q, m |-> m]} ELSE {})
       \union (IF Len(q) < MaxQueue THEN {[q |-> Append(q, kept), m |-> built]} ELSE {})
       \union (IF m.failed < MaxFailed
               THEN {[q |-> q, m |-> FreedOnFailure(built, b.payload)]} ELSE {})

(* What adapter_push_request() may be asked for. *)
Requests ==
    UNION {{[type |-> type, role |-> CALL, fields |-> fields, data |-> data] :
               fields \in FieldSets(requests[type]),
               data \in IF type = "MeterValues"
                        THEN {do_metervalue(bits) : bits \in SUBSET Bits} ELSE {<<>>}} :
           type \in DOMAIN requests}

PushRequest ==
    /\ \E r \in UNION {Pushed(queue, mem, requests[p.type], p) : p \in Requests} :
            queue' = r.q /\ mem' = r.m
    /\ wire' = Nothing /\ UNCHANGED unread

Without(i) == SubSeq(queue, 1, i - 1) \o SubSeq(queue, i + 1, Len(queue))

(* The fields for which there may be no memory: none, or one of them. *)
Failures(type) ==
    {{}} \union
    (IF type \in DOMAIN encoders THEN {{f} : f \in encoders[type].must} ELSE {})

(* ocpp_send(), called by the library for a message that does not wait for *)
(* its result.  A response is done with, and freed, once it is sent.       *)
ocpp_send ==
    \E i \in DOMAIN queue :
      LET msg == queue[i] IN
      /\ ~msg.waits
      /\ \E text \in UNION {encode(msg, failed) : failed \in Failures(msg.type)} :
            wire' = [type |-> msg.type, role |-> msg.role, fields |-> text,
                     built |-> msg.fields,
                     data |-> IF msg.type = "GetConfiguration"
                              THEN pack_configurations(msg.data) ELSE msg.data]
      /\ IF msg.role = CALL
         THEN queue' = [queue EXCEPT ![i].waits = TRUE] /\ UNCHANGED mem
         ELSE queue' = Without(i) /\ mem' = Freed(mem, msg.payload)
      /\ UNCHANGED unread

(* The library gives a message up: OCPP_EVENT_MESSAGE_FREE. *)
GiveUp ==
    \E i \in DOMAIN queue :
        /\ queue' = Without(i)
        /\ mem' = Freed(mem, queue[i].payload)
        /\ wire' = Nothing /\ UNCHANGED unread

Keys == Known \union Unknown

Texts(type) ==
    LET need == IF type \in DOMAIN decoders THEN decoders[type].need ELSE {}
    IN {need} \union {need \ {f} : f \in need}

KeyLists(type) ==
    IF type = "GetConfiguration"
    THEN {<<>>} \union {<<k>> : k \in Keys} \union {<<k, l>> : k, l \in Keys}
    ELSE {<<>>}

(* The calls of the CSMS, each with what its decoding comes to. *)
Calls ==
    UNION {{[type |-> type, keys |-> keys, err |-> decode(type, json, keys, memory)] :
               keys \in KeyLists(type), json \in Texts(type), memory \in BOOLEAN} :
           type \in DOMAIN responses}

(* ocpp_recv(), then OCPP_EVENT_MESSAGE_INCOMING, whose handler pushes the *)
(* response; the payload is freed in any case.                             *)
Incoming(c) ==
    LET payload == HasPayload(c.type, c.keys)
        m == IF payload THEN Allocated(mem) ELSE mem
        Outcome(q, n, bad) == [q |-> q, m |-> n, bad |-> bad]
        refusal == [type |-> c.type, role |-> CALLERROR, fields |-> {},
                    data |-> <<>>, payload |-> FALSE, waits |-> FALSE]
    IN CASE c.err = "OK" /\ <<CALL, c.type>> \in handlers ->
              {Outcome(r.q, Freed(r.m, payload), Missing(c.type, payload)) :
                  r \in Pushed(queue, m, responses[c.type],
                               [type |-> c.type, role |-> CALLRESULT,
                                fields |-> responses[c.type].set,
                                data |-> JoinKeys(c.keys)])}
         [] c.err = "OK" /\ <<CALL, c.type>> \notin handlers ->
              {Outcome(queue, Freed(m, payload), FALSE)}
         [] c.err = "ENOTSUP" /\ Len(queue) < MaxQueue ->
              {Outcome(Append(queue, refusal), mem, FALSE)}
         [] OTHER -> {Outcome(queue, mem, FALSE)}

IncomingCall ==
    /\ \E o \in UNION {Incoming(c) : c \in Calls} :
         /\ queue' = o.q
         /\ mem' = o.m
         /\ unread' = (unread \/ o.bad)
    /\ wire' = Nothing

(* The result of, or an error for, a request the library waits for; the    *)
(* type is that of the request.  What does not decode is dropped.          *)
IncomingResult ==
    /\ \E i \in DOMAIN queue : \E role \in {CALLRESULT, CALLERROR} :
         LET type == queue[i].type
             payload == HasPayload(type, <<>>)
             m == IF payload THEN Allocated(mem) ELSE mem
         IN /\ queue[i].role = CALL /\ queue[i].waits
            /\ \E json \in Texts(type) : decode(type, json, <<>>, TRUE) = "OK"
            /\ queue' = Without(i)
            /\ mem' = Freed(Freed(m, payload), queue[i].payload)
            /\ unread' = (unread \/ /\ <<role, type>> \in handlers
                                    /\ Missing(type, payload))
    /\ wire' = Nothing

-----------------------------------------------------------------------------
MsgInit ==
    /\ queue = <<>>
    /\ mem = [live |-> 0, counted |-> 0, failed |-> 0]
    /\ wire = Nothing
    /\ unread = FALSE

MsgNext == PushRequest \/ ocpp_send \/ GiveUp \/ IncomingCall \/ IncomingResult

MsgSpec == MsgInit /\ [][MsgNext]_msgVars

(* The variables keep their types. *)
MsgTypeOK ==
    /\ \A i \in DOMAIN queue :
         /\ queue[i].type \in DOMAIN requests \union DOMAIN responses
         /\ queue[i].role \in {CALL, CALLRESULT, CALLERROR}
    /\ Len(queue) <= MaxQueue
    /\ mem \in [live : Nat, counted : Nat, failed : 0..MaxFailed]
    /\ unread \in BOOLEAN

(* Every payload alive belongs to exactly one message of the library: none *)
(* is leaked and none is freed twice, on whichever path a push, a decode   *)
(* or a handler ends.                                                      *)
PayloadsOwned ==
    mem.live = Cardinality({i \in DOMAIN queue : queue[i].payload})

(* The difference of the two metrics overstates the payloads alive by the  *)
(* pushes that failed: request_free_if_fail() frees without counting it.   *)
MetricsDrift == mem.counted = mem.live + mem.failed

(* A handler that reads its payload is never called without one, although  *)
(* the tables of decoder_json.c and handler.c are kept apart.              *)
HandlerHasPayload == ~unread

(* A text that goes out says what adapter.c put into the payload and       *)
(* nothing else, although its functions and those of encoder_json.c are    *)
(* kept apart.  A field is missing only when memory ran out under one of   *)
(* the four encoders that ignore it.                                       *)
SentComplete ==
    wire # Nothing /\ wire.role # CALLERROR =>
        \/ wire.fields = wire.built
        \/ /\ wire.type \in {"DiagnosticsStatusNotification", "GetConfiguration",
                             "FirmwareStatusNotification", "MeterValues"}
           /\ wire.fields \subseteq wire.built

(* Each measurand asked for is in the MeterValues sent, once, in the order *)
(* of the bits.                                                            *)
SamplesFaithful ==
    wire # Nothing /\ wire.type = "MeterValues" =>
        \A i, j \in DOMAIN wire.data :
            /\ wire.data[i] \in Bits
            /\ i < j => wire.data[i] < wire.data[j]

(* The keys of GetConfiguration survive the joining by the decoder, the    *)
(* copy by the adapter and the splitting by the encoder: no key is cut off *)
(* by the room computed for them.                                          *)
KeysSurvive ==
    \A i \in DOMAIN queue :
        queue[i].type = "GetConfiguration" =>
            SplitKeys(queue[i].data) \subseteq Keys

\* A message passes from its handler through builder, queue and encoder, or
\* from the decoder to its handler, with all its fields, and its payload has
\* one owner on every path, the failing ones included.
MessagesFaithful ==
    /\ MsgTypeOK
    /\ PayloadsOwned /\ MetricsDrift /\ HandlerHasPayload
    /\ SentComplete /\ SamplesFaithful /\ KeysSurvive
=============================================================================
