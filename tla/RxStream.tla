------------------------------ MODULE RxStream ------------------------------
(***************************************************************************)
(* The way of a message of the CSMS into the charger, as a stream of       *)
(* bytes: the websocket client hands the frame over piece by piece         *)
(* (WEBSOCKET_EVENT_DATA), ws.c puts the pieces into its ring buffer, and  *)
(* ocpp_recv() of adapter.c, in the charger's thread, moves them to a ring *)
(* buffer of its own and takes one JSON text at a time off its head.  No   *)
(* buffer knows where a message ends.                                      *)
(*                                                                         *)
(* A byte is a cell [m, i, n]: the i-th of the n cells of message m.       *)
(*                                                                         *)
(* feed      what the client has still to deliver of the present frame;    *)
(* wsq, rxq  the ring buffers of ws.c and of adapter.c;                    *)
(* recv      where ocpp_recv() is, and its local variable cap;             *)
(* sent      the number of the last message the CSMS sent;                 *)
(* received  the messages decoded, in order;                               *)
(* aligned   no buffer holds a piece of a message whose rest is missing;   *)
(* clean     the messages that arrived in one piece at such a time.        *)
(***************************************************************************)
EXTENDS Naturals, Sequences, SequencesExt, FiniteSetsExt

CONSTANTS
    MaxSent,        \* bound: messages the CSMS sends
    MaxCells,       \* bound: cells of a message
    DataSize,       \* the client's buffer_size: cells of one DATA event
    WsQueueSize,    \* RXQUEUE_SIZE, the ring buffer of ws.c
    RxQueueSize,    \* RXQUEUE_SIZE, the ring buffer of adapter.c
    BufSize         \* BUFSIZE of ocpp_recv()

ASSUME RxAssumption ==
    /\ {MaxSent, MaxCells, DataSize, WsQueueSize, RxQueueSize, BufSize}
         \subseteq Nat \ {0}
    /\ RxQueueSize >= 2 * BufSize

VARIABLES feed, wsq, rxq, recv, sent, received, aligned, clean

rxVars == <<feed, wsq, rxq, recv, sent, received, aligned, clean>>

Cells(m, n) == [i \in 1..n |-> [m |-> m, i |-> i, n |-> n]]

CsmsSends ==
    /\ feed = <<>> /\ sent < MaxSent
    /\ sent' = sent + 1
    /\ \E n \in 1..MaxCells : feed' = Cells(sent + 1, n)
    /\ UNCHANGED <<wsq, rxq, recv, received, aligned, clean>>

(* The connection is lost in the middle of a frame. *)
FrameCut ==
    /\ feed # <<>>
    /\ feed' = <<>>
    /\ UNCHANGED <<wsq, rxq, recv, sent, received, aligned, clean>>

(* ringbuf_write(): what does not fit is left out. *)
RingbufWrite(q, chunk, size) ==
    IF Len(q) + Len(chunk) <= size THEN {q \o chunk}
    ELSE {q \o SubSeq(chunk, 1, k) : k \in 0..(size - Len(q))}

(* on_ws_event(), WEBSOCKET_EVENT_DATA *)
OnData ==
    /\ feed # <<>>
    /\ LET chunk == SubSeq(feed, 1, Min({DataSize, Len(feed)}))
           whole == Len(chunk) = chunk[1].n /\ chunk[1].n <= BufSize
       IN /\ feed' = SubSeq(feed, Len(chunk) + 1, Len(feed))
          /\ wsq' \in RingbufWrite(wsq, chunk, WsQueueSize)
          /\ aligned' = (aligned /\ whole /\ wsq' = wsq \o chunk)
          /\ clean' = IF aligned' THEN clean \union {chunk[1].m} ELSE clean
    /\ UNCHANGED <<rxq, recv, sent, received>>

-----------------------------------------------------------------------------
(* ocpp_recv() *)

RecvBegin ==
    /\ recv.pc = "idle"
    /\ recv' = [pc |-> "fill", cap |-> RxQueueSize - Len(rxq)]
    /\ UNCHANGED <<feed, wsq, rxq, sent, received, aligned, clean>>

(* server_recv(): up to BufSize cells, as long as they are sure to fit. *)
HasRoom(cap) == cap > BufSize

RecvFill ==
    /\ recv.pc = "fill" /\ HasRoom(recv.cap) /\ wsq # <<>>
    /\ LET len == Min({BufSize, Len(wsq)})
       IN /\ wsq' = SubSeq(wsq, len + 1, Len(wsq))
          /\ rxq' \in RingbufWrite(rxq, SubSeq(wsq, 1, len), RxQueueSize)
          /\ recv' = [recv EXCEPT !.cap = @ - len]
    /\ UNCHANGED <<feed, sent, received, aligned, clean>>

(* decoder_json_decode(): the text at the head when it is complete; else   *)
(* everything is dropped.  The rest of a message whose beginning is gone   *)
(* may begin with a value of its own (a number, a string), which is taken  *)
(* for a text and refused.                                                 *)
HeadComplete(buf) ==
    /\ buf[1].n <= Len(buf)
    /\ SubSeq(buf, 1, buf[1].n) = Cells(buf[1].m, buf[1].n)

\* Mutant: drops what follows the message in the buffer.
Consumed_All(buf) == {Len(buf)}

Consumed(buf) ==
    IF HeadComplete(buf) THEN {buf[1].n}
    ELSE {Len(buf)} \union (IF buf[1].i > 1 THEN {1} ELSE {})

RecvDecode ==
    /\ recv.pc = "fill" /\ (~HasRoom(recv.cap) \/ wsq = <<>>)
    /\ recv' = [recv EXCEPT !.pc = "idle", !.cap = 0]
    /\ LET buf == SubSeq(rxq, 1, Min({BufSize, Len(rxq)}))
       IN IF buf = <<>> THEN UNCHANGED <<rxq, received>>
          ELSE /\ \E k \in Consumed(buf) : rxq' = SubSeq(rxq, k + 1, Len(rxq))
               /\ received' = IF HeadComplete(buf)
                              THEN Append(received, buf[1].m) ELSE received
    /\ aligned' = (aligned \/ rxq' \o wsq \o feed = <<>>)
    /\ UNCHANGED <<feed, wsq, sent, clean>>

-----------------------------------------------------------------------------
RxInit ==
    /\ feed = <<>> /\ wsq = <<>> /\ rxq = <<>>
    /\ recv = [pc |-> "idle", cap |-> 0]
    /\ sent = 0 /\ received = <<>>
    /\ aligned = TRUE /\ clean = {}

ocpp_recv == RecvBegin \/ RecvFill \/ RecvDecode

RxNext == CsmsSends \/ FrameCut \/ OnData \/ ocpp_recv

(* The charger's thread calls ocpp_recv() in every round of its loop. *)
RxFairness == WF_rxVars(ocpp_recv)

RxSpec == RxInit /\ [][RxNext]_rxVars /\ RxFairness

CellSet == [m : 1..MaxSent, i : 1..MaxCells, n : 1..MaxCells]

(* The variables keep their types; the ring buffer of ws.c its size. *)
RxTypeOK ==
    /\ \A q \in {feed, wsq, rxq} : \A k \in DOMAIN q : q[k] \in CellSet
    /\ Len(wsq) <= WsQueueSize
    /\ recv \in [pc : {"idle", "fill"}, cap : 0..RxQueueSize]
    /\ sent \in 0..MaxSent
    /\ \A k \in DOMAIN received : received[k] \in 1..sent
    /\ aligned \in BOOLEAN
    /\ clean \subseteq 1..sent

Buffered(m) == \E q \in {rxq, wsq} : \E k \in DOMAIN q : q[k].m = m

(* The messages come out of ocpp_recv() in the order the CSMS sent them    *)
(* and none comes out twice, whatever was cut, left out or dropped.        *)
ReceivedInOrder ==
    \A j, k \in DOMAIN received : j < k => received[j] < received[k]

(* What ocpp_recv() reads from ws.c always fits its ring buffer: the bytes *)
(* it took off one queue are never left out of the other.                  *)
FillFits == [][RecvFill => Len(rxq') + Len(wsq') = Len(rxq) + Len(wsq)]_rxVars

(* A message that arrived in one piece, behind nothing but such messages,  *)
(* is never dropped, although ocpp_recv() moves it in two pieces when it   *)
(* does not fit at the end of a full read.                                 *)
CleanKept ==
    \A m \in clean : Buffered(m) \/ \E k \in DOMAIN received : received[k] = m

(* And it is received in the end: time and again, all of them have been. *)
AllReceived == \A m \in clean : \E k \in DOMAIN received : received[k] = m
CleanReceived == []<>AllReceived

(* A message cut in two is lost, and may take the next ones with it, but   *)
(* the stream finds a beginning of a message again.                        *)
Misaligned == ~aligned /\ sent = MaxSent /\ feed = <<>>
Realigned == Misaligned ~> aligned

\* What the decoder relies on: messages arrive in order, those that came in
\* one piece are kept, and nothing is lost between the two rings.
StreamFaithful == [](RxTypeOK /\ ReceivedInOrder /\ CleanKept) /\ FillFits
=============================================================================
