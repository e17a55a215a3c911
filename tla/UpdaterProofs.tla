--------------------------- MODULE UpdaterProofs ----------------------------
(***************************************************************************)
(* Proofs about Updater: for an image, a header and a buffer of any size   *)
(* and any number of requests, what the charger boots after an update is   *)
(* the whole image, failures have the causes the properties name, and a    *)
(* request is never left without a task.                                   *)
(*                                                                         *)
(* The invariant says what the update slot holds at every moment of a      *)
(* download: exactly the cells received so far without the header, as long *)
(* as no write failed and no request has overwritten the count.            *)
(***************************************************************************)
EXTENDS Updater, SequenceTheorems, TLAPS

\* Before a download nothing is counted; its time is up only with a mishap.
Fresh ==
    /\ ~up.dfu => up.written = 0 /\ ~up.error
    /\ up.late => "late" \in mishaps

\* The first piece of the transfer.
FirstPiece ==
    /\ dl.first <= dl.sent
    /\ dl.sent > 0 => dl.first > 0
    /\ "header" \in mishaps => dl.first > 0

\* What is in the update slot.
SlotHolds ==
    up.dfu /\ ~up.error /\ "overwritten" \notin mishaps =>
        /\ up.written = Len(image.cells)
        /\ image.begun => dl.sent >= HeaderLen /\ image.cells = Run(HeaderLen + 1, dl.sent)
        /\ ~image.begun => dl.sent = 0 /\ image.cells = <<>>

EndedWhole == up.dfu /\ dl.ended /\ "cut" \notin mishaps => dl.sent = ImageLen

UpdInv ==
    /\ UpdTypeOK /\ Fresh /\ FirstPiece /\ SlotHolds /\ EndedWhole
    /\ InstalledWhole /\ RequestHasTask /\ FailureHasCause /\ EndReported

-----------------------------------------------------------------------------
(* Runs of cells *)

\* The cells of a run.
LEMMA RunIs ==
    ASSUME NEW a \in Nat, NEW b \in Nat, a <= b + 1
    PROVE  /\ Run(a, b) \in Seq(Nat) /\ Len(Run(a, b)) = b - a + 1
           /\ \A i \in 1..(b - a + 1) : Run(a, b)[i] = a + i - 1
<1>1. b - a + 1 \in Nat
  OBVIOUS
<1>2. \A i \in 1..(b - a + 1) : a + i - 1 \in Nat
  OBVIOUS
<1>3. Run(a, b) \in [1..(b - a + 1) -> Nat]
  BY <1>2 DEF Run
<1>4. Run(a, b) \in Seq(Nat)
  BY <1>1, <1>3, SeqDef
<1>5. DOMAIN Run(a, b) = 1..(b - a + 1)
  BY DEF Run
<1>6. Len(Run(a, b)) = b - a + 1
  BY <1>1, <1>4, <1>5, LenProperties
<1>7. \A i \in 1..(b - a + 1) : Run(a, b)[i] = a + i - 1
  BY DEF Run
<1> QED BY <1>4, <1>6, <1>7

\* Two runs that meet make one.
LEMMA RunConcat ==
    ASSUME NEW a \in Nat, NEW b \in Nat, NEW c \in Nat, a <= b + 1, b <= c
    PROVE  Run(a, b) \o Run(b + 1, c) = Run(a, c)
<1> DEFINE x == Run(a, b)
           y == Run(b + 1, c)
           z == Run(a, c)
<1>1. /\ x \in Seq(Nat) /\ Len(x) = b - a + 1
      /\ \A i \in 1..(b - a + 1) : x[i] = a + i - 1
  BY RunIs
<1>2. /\ y \in Seq(Nat) /\ Len(y) = c - b
      /\ \A i \in 1..(c - b) : y[i] = b + i
  <2>0. b + 1 \in Nat /\ b + 1 <= c + 1
    OBVIOUS
  <2>1. /\ y \in Seq(Nat) /\ Len(y) = c - (b + 1) + 1
        /\ \A i \in 1..(c - (b + 1) + 1) : y[i] = (b + 1) + i - 1
    BY <2>0, RunIs, Zenon
  <2> HIDE DEF y
  <2> QED BY <2>1
<1>3. /\ z \in Seq(Nat) /\ Len(z) = c - a + 1
      /\ \A i \in 1..(c - a + 1) : z[i] = a + i - 1
  <2>0. a <= c + 1
    OBVIOUS
  <2> QED BY <2>0, RunIs, Zenon
<1> HIDE DEF x, y, z
<1>4. /\ x \o y \in Seq(Nat) /\ Len(x \o y) = Len(x) + Len(y)
      /\ \A i \in 1..(Len(x) + Len(y)) :
           (x \o y)[i] = IF i <= Len(x) THEN x[i] ELSE y[i - Len(x)]
  BY <1>1, <1>2, ConcatProperties
<1>5. Len(x \o y) = Len(z)
  BY <1>1, <1>2, <1>3, <1>4
<1>6. \A i \in 1..Len(x \o y) : (x \o y)[i] = z[i]
  <2> SUFFICES ASSUME NEW i \in 1..Len(x \o y) PROVE (x \o y)[i] = z[i]
    OBVIOUS
  <2>1. i \in 1..(c - a + 1) /\ z[i] = a + i - 1
    BY <1>1, <1>2, <1>3, <1>4
  <2>2. (x \o y)[i] = IF i <= Len(x) THEN x[i] ELSE y[i - Len(x)]
    BY <1>4
  <2>3. CASE i <= Len(x)
    BY <1>1, <2>1, <2>2, <2>3
  <2>4. CASE ~(i <= Len(x))
    <3>1. i - Len(x) \in 1..(c - b) /\ b + (i - Len(x)) = a + i - 1
      BY <1>1, <2>1, <2>4
    <3> QED BY <1>2, <2>1, <2>2, <2>4, <3>1
  <2> QED BY <2>3, <2>4
<1>7. x \o y = z
  BY <1>3, <1>4, <1>5, <1>6, SeqEqual
<1> QED BY <1>7 DEF x, y, z

\* A part of a run that starts at cell s + 1.
LEMMA RunPart ==
    ASSUME NEW s \in Nat, NEW n \in Nat, NEW l \in Nat, NEW m \in Nat,
           1 <= l, l <= m + 1, m <= n
    PROVE  SubSeq(Run(s + 1, s + n), l, m) = Run(s + l, s + m)
<1> DEFINE x == Run(s + 1, s + n)
           z == Run(s + l, s + m)
<1>1. \A i \in 1..n : x[i] = s + i
  <2>0. s + 1 \in Nat /\ s + n \in Nat /\ s + 1 <= (s + n) + 1
    OBVIOUS
  <2>1. \A i \in 1..((s + n) - (s + 1) + 1) : x[i] = (s + 1) + i - 1
    BY <2>0, RunIs, Zenon
  <2> HIDE DEF x
  <2> QED BY <2>1
<1>2. /\ z \in Seq(Nat) /\ Len(z) = m - l + 1
      /\ \A i \in 1..(m - l + 1) : z[i] = s + l + i - 1
  <2>0. s + l \in Nat /\ s + m \in Nat /\ s + l <= (s + m) + 1
    OBVIOUS
  <2>1. /\ z \in Seq(Nat) /\ Len(z) = (s + m) - (s + l) + 1
        /\ \A i \in 1..((s + m) - (s + l) + 1) : z[i] = (s + l) + i - 1
    BY <2>0, RunIs, Zenon
  <2> HIDE DEF z
  <2> QED BY <2>1
<1> HIDE DEF x, z
<1>3. \A i \in l..m : x[i] \in Nat
  BY <1>1
<1>4. /\ SubSeq(x, l, m) \in Seq(Nat)
      /\ Len(SubSeq(x, l, m)) = IF l <= m THEN m - l + 1 ELSE 0
      /\ \A i \in 1..(m - l + 1) : SubSeq(x, l, m)[i] = x[l + i - 1]
  BY <1>3, SubSeqProperties
<1>5. Len(SubSeq(x, l, m)) = Len(z)
  BY <1>2, <1>4
<1>6. \A i \in 1..Len(SubSeq(x, l, m)) : SubSeq(x, l, m)[i] = z[i]
  <2> SUFFICES ASSUME NEW i \in 1..(m - l + 1) PROVE SubSeq(x, l, m)[i] = z[i]
    BY <1>2, <1>5
  <2>1. SubSeq(x, l, m)[i] = x[l + i - 1] /\ z[i] = s + l + i - 1
    BY <1>2, <1>4
  <2>2. l + i - 1 \in 1..n
    OBVIOUS
  <2> QED BY <1>1, <2>1, <2>2
<1>7. SubSeq(x, l, m) = z
  BY <1>2, <1>4, <1>5, <1>6, SeqEqual
<1> QED BY <1>7 DEF x, z

\* The first cells of a run.
LEMMA RunHead ==
    ASSUME NEW s \in Nat, NEW n \in Nat, NEW m \in Nat, m <= n
    PROVE  SubSeq(Run(s + 1, s + n), 1, m) = Run(s + 1, s + m)
<1>1. 1 \in Nat /\ 1 <= 1 /\ 1 <= m + 1
  OBVIOUS
<1> QED BY <1>1, RunPart, ZenonT(60)

\* The sizes of header, image and buffer.
LEMMA SizesAre ==
    /\ HeaderLen \in Nat \ {0} /\ ImageLen \in Nat \ {0} /\ BufferSize \in Nat \ {0}
    /\ HeaderLen < ImageLen
BY UpdaterAssumption

\* prepare_write() accepts a header at the start of the image only.
LEMMA PrepareIs ==
    ASSUME UpdTypeOK, NEW s \in Nat, NEW n \in Nat \ {0}
    PROVE  /\ up.written > 0 => prepare_write(Run(s + 1, s + n)) = "more"
           /\ up.written = 0 /\ prepare_write(Run(s + 1, s + n)) = "header"
                => s = 0 /\ HeaderLen <= n
           /\ up.written = 0 /\ prepare_write(Run(s + 1, s + n)) # "header"
                => /\ prepare_write(Run(s + 1, s + n)) = "invalid"
                   /\ s > 0 \/ n < HeaderLen
<1> DEFINE piece == Run(s + 1, s + n)
<1>0. up.written \in Nat /\ HeaderLen \in Nat \ {0}
  BY SizesAre DEF UpdTypeOK
<1>1. piece \in Seq(Nat) /\ Len(piece) = n
  <2>0. s + 1 \in Nat /\ s + n \in Nat /\ s + 1 <= (s + n) + 1
    OBVIOUS
  <2>1. piece \in Seq(Nat) /\ Len(piece) = (s + n) - (s + 1) + 1
    BY <2>0, RunIs, Zenon
  <2> HIDE DEF piece
  <2> QED BY <2>1
<1>2. HeaderLen <= n => SubSeq(piece, 1, HeaderLen) = Run(s + 1, s + HeaderLen)
  <2>1. n \in Nat /\ HeaderLen \in Nat
    BY <1>0
  <2> QED BY <2>1, RunHead, Zenon
<1>3. s > 0 => Run(s + 1, s + HeaderLen) # Run(1, HeaderLen)
  <2>1. Run(1, HeaderLen)[1] = 1
    BY <1>0 DEF Run
  <2>2. Run(s + 1, s + HeaderLen)[1] = s + 1
    BY <1>0 DEF Run
  <2> QED BY <2>1, <2>2
<1>4. s = 0 => Run(s + 1, s + HeaderLen) = Run(1, HeaderLen)
  BY <1>0
<1> HIDE DEF piece
<1>5. up.written > 0 => prepare_write(piece) = "more"
  BY DEF prepare_write
<1>6. up.written = 0 =>
        prepare_write(piece) =
          IF n >= HeaderLen /\ SubSeq(piece, 1, HeaderLen) = Run(1, HeaderLen)
          THEN "header" ELSE "invalid"
  BY <1>1 DEF prepare_write
<1>7. n >= HeaderLen \/ n < HeaderLen
  BY <1>0
<1>8. (n >= HeaderLen) <=> (HeaderLen <= n)
  BY <1>0
<1>9. s = 0 \/ s > 0
  OBVIOUS
<1>10. /\ up.written = 0 /\ prepare_write(piece) = "header" => s = 0 /\ HeaderLen <= n
       /\ up.written = 0 /\ prepare_write(piece) # "header"
            => prepare_write(piece) = "invalid" /\ (s > 0 \/ n < HeaderLen)
  BY <1>2, <1>3, <1>4, <1>6, <1>7, <1>8, <1>9
<1> QED BY <1>5, <1>10 DEF piece

-----------------------------------------------------------------------------
(* Each step keeps UpdInv *)

\* The three steps of updater_request().
LEMMA RequestKeeps == ASSUME UpdInv, updater_request PROVE UpdInv'
<1>1. CASE RequestChecks
  <2>1. /\ up' = up /\ dl' = dl /\ image' = image /\ tasks' = tasks /\ told' = told
        /\ boots' = boots /\ mishaps' = mishaps
        /\ req.pc = "idle" /\ req' = [pc |-> "checked", made |-> req.made + 1]
    BY <1>1 DEF RequestChecks
  <2>2. UpdTypeOK'
    BY <2>1 DEF UpdInv, UpdTypeOK
  <2>3. Fresh' /\ FirstPiece' /\ SlotHolds' /\ EndedWhole'
    BY <2>1 DEF UpdInv, Fresh, FirstPiece, SlotHolds, EndedWhole
  <2>4. InstalledWhole' /\ FailureHasCause' /\ EndReported'
    BY <2>1 DEF UpdInv, InstalledWhole, FailureHasCause, EndReported
  <2>5. RequestHasTask'
    BY <2>1 DEF UpdInv, RequestHasTask
  <2> QED BY <2>2, <2>3, <2>4, <2>5 DEF UpdInv
<1>2. CASE set_request
  <2>1. PICK arrived \in BOOLEAN :
          up' = [up EXCEPT !.current = TRUE, !.error = FALSE, !.written = 0,
                           !.arrived = arrived]
    BY <1>2 DEF set_request
  <2>2. /\ dl' = dl /\ image' = image /\ tasks' = tasks /\ told' = told /\ boots' = boots
        /\ mishaps' = IF up.dfu THEN mishaps \union {"overwritten"} ELSE mishaps
        /\ req' = [req EXCEPT !.pc = "runner"]
    BY <1>2 DEF set_request
  <2>3. /\ up'.dfu = up.dfu /\ up'.late = up.late /\ up'.written = 0 /\ up'.error = FALSE
        /\ up'.current = TRUE /\ req'.pc = "runner"
    BY <2>1, <2>2 DEF UpdInv, UpdTypeOK
  <2>4. /\ mishaps \subseteq mishaps' /\ mishaps' \subseteq mishaps \union {"overwritten"}
        /\ up.dfu => "overwritten" \in mishaps'
    BY <2>2
  <2>5. UpdTypeOK'
    BY <2>1, <2>2 DEF UpdInv, UpdTypeOK
  <2>6. Fresh' /\ SlotHolds'
    BY <2>3, <2>4 DEF UpdInv, Fresh, SlotHolds
  <2>7. FirstPiece' /\ EndedWhole'
    BY <2>2, <2>3, <2>4 DEF UpdInv, FirstPiece, EndedWhole
  <2>8. InstalledWhole' /\ RequestHasTask' /\ EndReported'
    BY <2>2, <2>3 DEF UpdInv, InstalledWhole, RequestHasTask, EndReported
  <2>9. FailureHasCause'
    BY <2>2, <2>4 DEF UpdInv, FailureHasCause
  <2> QED BY <2>5, <2>6, <2>7, <2>8, <2>9 DEF UpdInv
<1>3. CASE run_network_updater
  <2>1. /\ up' = up /\ dl' = dl /\ image' = image /\ told' = told /\ boots' = boots
        /\ req' = [req EXCEPT !.pc = "idle"]
    BY <1>3 DEF run_network_updater
  <2>2. \/ tasks' = tasks + 1 /\ mishaps' = mishaps
        \/ mishaps' = mishaps \union {"no task"} /\ tasks' = tasks
    BY <1>3 DEF run_network_updater
  <2>3. /\ mishaps \subseteq mishaps' /\ mishaps' \subseteq mishaps \union {"no task"}
        /\ tasks' > 0 \/ "no task" \in mishaps'
        /\ tasks' \in Nat
    <3>1. tasks \in Nat
      BY DEF UpdInv, UpdTypeOK
    <3>2. CASE tasks' = tasks + 1 /\ mishaps' = mishaps
      <4>1. tasks' > 0 /\ tasks' \in Nat
        BY <3>1, <3>2
      <4> QED BY <3>2, <4>1
    <3>3. CASE mishaps' = mishaps \union {"no task"} /\ tasks' = tasks
      BY <3>1, <3>3
    <3> QED BY <2>2, <3>2, <3>3
  <2>4. UpdTypeOK'
    BY <2>1, <2>3 DEF UpdInv, UpdTypeOK
  <2>5. Fresh' /\ FirstPiece' /\ SlotHolds' /\ EndedWhole'
    <3>1. Fresh' /\ EndedWhole'
      BY <2>1, <2>3 DEF UpdInv, Fresh, EndedWhole
    <3>2. FirstPiece'
      BY <2>1, <2>3 DEF UpdInv, FirstPiece
    <3>3. SlotHolds'
      BY <2>1, <2>3 DEF UpdInv, SlotHolds
    <3> QED BY <3>1, <3>2, <3>3
  <2>6. InstalledWhole' /\ RequestHasTask'
    BY <2>1, <2>3 DEF UpdInv, InstalledWhole, RequestHasTask
  <2>7. FailureHasCause' /\ EndReported'
    BY <2>1, <2>3 DEF UpdInv, FailureHasCause, EndReported
  <2> QED BY <2>4, <2>5, <2>6, <2>7 DEF UpdInv
<1> QED BY <1>1, <1>2, <1>3 DEF updater_request

\* The update is over: nothing is left of it but its mishaps, and the task
\* that ran it is gone.
LEMMA ClearedKeeps ==
    ASSUME UpdInv, tasks > 0, up' = Cleared, tasks' = tasks - 1, req' = req,
           mishaps \subseteq mishaps', "header" \in mishaps' => "header" \in mishaps,
           dl'.sent = dl.sent, dl'.first = dl.first, dl'.ended \in BOOLEAN,
           dl' \in [sent : 0..ImageLen, ended : BOOLEAN, first : Nat],
           image' = image, InstalledWhole',
           told' = "Downloading" => "late" \in mishaps'
    PROVE  UpdInv'
<1>1. /\ up'.current = FALSE /\ up'.dfu = FALSE /\ up'.late = FALSE
      /\ up'.error = FALSE /\ up'.written = 0
      /\ up' \in [current : BOOLEAN, dfu : BOOLEAN, arrived : BOOLEAN, late : BOOLEAN,
                  error : BOOLEAN, written : Nat]
  BY DEF Cleared, Idle
<1>2. UpdTypeOK'
  <2>1. tasks' \in Nat
    BY DEF UpdInv, UpdTypeOK
  <2> QED BY <1>1, <2>1 DEF UpdInv, UpdTypeOK
<1>3. Fresh' /\ SlotHolds' /\ EndedWhole'
  BY <1>1 DEF Fresh, SlotHolds, EndedWhole
<1>4. FirstPiece'
  BY DEF UpdInv, FirstPiece
<1>5. RequestHasTask' /\ EndReported'
  BY <1>1 DEF RequestHasTask, EndReported
<1>6. FailureHasCause'
  BY DEF UpdInv, FailureHasCause
<1> QED BY <1>2, <1>3, <1>4, <1>5, <1>6 DEF UpdInv

\* start_download() succeeds or cannot be prepared.
LEMMA StartKeeps == ASSUME UpdInv, tasks > 0, start_download PROVE UpdInv'
<1>1. is_pending /\ req' = req /\ boots' = boots
  BY DEF start_download
<1>2. CASE /\ up' = [up EXCEPT !.dfu = TRUE, !.late = FALSE]
           /\ dl' = NoTransfer /\ image' = Unprepared
           /\ mishaps' = mishaps \intersect {"no task"}
           /\ told' = StatusOf("START_DOWNLOADING") /\ tasks' = tasks
  <2>1. /\ up'.written = 0 /\ up'.error = FALSE /\ up'.late = FALSE
        /\ up'.current = TRUE
    BY <1>1, <1>2 DEF UpdInv, UpdTypeOK, Fresh, is_pending
  <2>2. /\ dl'.sent = 0 /\ dl'.first = 0 /\ dl'.ended = FALSE
        /\ image'.begun = FALSE /\ image'.cells = <<>>
    BY <1>2 DEF NoTransfer, Unprepared
  <2>3. UpdTypeOK'
    <3>0. 0 \in 0..ImageLen
      BY SizesAre
    <3>1. dl' \in [sent : 0..ImageLen, ended : BOOLEAN, first : Nat]
      BY <1>2, <3>0 DEF NoTransfer
    <3>2. image' \in [begun : BOOLEAN, cells : Seq(Nat)]
      <4>1. <<>> \in Seq(Nat)
        BY EmptySeq, Zenon
      <4> QED BY <1>2, <4>1 DEF Unprepared
    <3> QED BY <1>1, <1>2, <3>1, <3>2 DEF UpdInv, UpdTypeOK
  <2>4. Fresh' /\ SlotHolds' /\ EndedWhole'
    <3>1. Len(<<>>) = 0
      OBVIOUS
    <3> QED BY <2>1, <2>2, <3>1 DEF Fresh, SlotHolds, EndedWhole
  <2>5. FirstPiece' /\ FailureHasCause'
    <3>1. "header" \notin mishaps'
      BY <1>2
    <3> QED BY <2>2, <3>1 DEF FirstPiece, FailureHasCause
  <2>6. InstalledWhole' /\ RequestHasTask' /\ EndReported'
    BY <1>1, <1>2, <2>1 DEF UpdInv, InstalledWhole, RequestHasTask, EndReported
  <2> QED BY <2>3, <2>4, <2>5, <2>6 DEF UpdInv
<1>3. CASE /\ up' = Cleared /\ told' = StatusOf("ERROR_PREPARING")
           /\ tasks' = tasks - 1
           /\ dl' = dl /\ image' = image /\ mishaps' = mishaps
  <2>1. told' # "Downloading"
    BY <1>3 DEF StatusOf
  <2>2. InstalledWhole' /\ dl \in [sent : 0..ImageLen, ended : BOOLEAN, first : Nat]
    BY <1>1 DEF UpdInv, UpdTypeOK, InstalledWhole
  <2> QED BY <1>1, <1>3, <2>1, <2>2, ClearedKeeps
<1> QED BY <1>2, <1>3 DEF start_download, dispatch_event

\* The connection is lost.
LEMMA FailsKeeps == ASSUME UpdInv, tasks > 0, ConnectionFails PROVE UpdInv'
<1>1. /\ dl' = [dl EXCEPT !.ended = TRUE] /\ up' = Cleared /\ tasks' = tasks - 1
      /\ told' = StatusOf("ERROR_DOWNLOADING")
      /\ mishaps' = mishaps \union {"connection"}
      /\ image' = image /\ req' = req /\ boots' = boots
  BY DEF ConnectionFails, dispatch_event
<1>2. /\ dl' \in [sent : 0..ImageLen, ended : BOOLEAN, first : Nat]
      /\ dl'.sent = dl.sent /\ dl'.first = dl.first /\ dl'.ended \in BOOLEAN
  BY <1>1 DEF UpdInv, UpdTypeOK
<1>3. told' # "Downloading"
  BY <1>1 DEF StatusOf
<1>4. InstalledWhole'
  BY <1>1 DEF UpdInv, InstalledWhole
<1> QED BY <1>1, <1>2, <1>3, <1>4, ClearedKeeps

\* finish_download(): committed, not committed, failed or timed out.
LEMMA FinishesKeeps == ASSUME UpdInv, tasks > 0, Finishes PROVE UpdInv'
<1>1. PICK err \in {"timedout", "none", "aborted"} :
        /\ finish_download(err)
        /\ err = "timedout" => up.late
        /\ err = "none" => dl.ended
  BY DEF Finishes
<1>2. up.dfu
  BY DEF Finishes, is_updating
<1>3. /\ up' = Cleared /\ tasks' = tasks - 1 /\ dl' = dl /\ image' = image /\ req' = req
  BY <1>1 DEF finish_download
<1>4. /\ dl' \in [sent : 0..ImageLen, ended : BOOLEAN, first : Nat]
      /\ dl'.sent = dl.sent /\ dl'.first = dl.first /\ dl'.ended \in BOOLEAN
  BY <1>3 DEF UpdInv, UpdTypeOK
<1>5. CASE /\ err = "none" /\ ~up.error /\ image.begun
           /\ boots' = [cells |-> image.cells, after |-> mishaps]
           /\ told' = StatusOf("INSTALLED") /\ mishaps' = mishaps
  <2>1. told' # "Downloading"
    BY <1>5 DEF StatusOf
  <2>2. boots'.cells = image.cells /\ boots'.after = mishaps
    BY <1>5
  <2>3. {"cut", "overwritten"} \intersect mishaps = {} => image.cells = Payload
    <3>1. SUFFICES ASSUME {"cut", "overwritten"} \intersect mishaps = {}
                   PROVE  image.cells = Payload
      OBVIOUS
    <3>2. image.cells = Run(HeaderLen + 1, dl.sent)
      BY <1>2, <1>5, <3>1 DEF UpdInv, SlotHolds
    <3>3. dl.sent = ImageLen
      BY <1>1, <1>2, <1>5, <3>1 DEF UpdInv, EndedWhole
    <3> QED BY <3>2, <3>3 DEF Payload
  <2>4. InstalledWhole'
    BY <2>2, <2>3 DEF InstalledWhole, Payload
  <2> QED BY <1>3, <1>4, <1>5, <2>1, <2>4, ClearedKeeps
<1>6. CASE /\ told' = StatusOf("ERROR_INSTALLING")
           /\ mishaps' = mishaps \union {"commit"} /\ boots' = boots
  <2>1. told' # "Downloading"
    BY <1>6 DEF StatusOf
  <2>2. InstalledWhole'
    BY <1>6 DEF UpdInv, InstalledWhole, Payload
  <2> QED BY <1>3, <1>4, <1>6, <2>1, <2>2, ClearedKeeps
<1>7. CASE /\ told' = StatusOf(IF err = "timedout" THEN "ERROR_TIMEOUT"
                               ELSE "ERROR_DOWNLOADING")
           /\ mishaps' = IF err = "none" /\ ~up.error
                         THEN mishaps \union {"refused"} ELSE mishaps
           /\ boots' = boots
  <2>1. /\ mishaps \subseteq mishaps'
        /\ "header" \in mishaps' => "header" \in mishaps
    BY <1>7
  <2>2. told' = "Downloading" => "late" \in mishaps'
    <3>1. CASE err = "timedout"
      BY <1>1, <2>1, <3>1 DEF UpdInv, Fresh
    <3>2. CASE err # "timedout"
      BY <1>7, <3>2 DEF StatusOf
    <3> QED BY <3>1, <3>2
  <2>3. InstalledWhole'
    BY <1>7 DEF UpdInv, InstalledWhole, Payload
  <2> QED BY <1>3, <1>4, <2>1, <2>2, <2>3, ClearedKeeps
<1> QED BY <1>1, <1>5, <1>6, <1>7 DEF finish_download, dispatch_event

\* Steps that change one field each.
LEMMA SmallStepsKeep ==
    ASSUME UpdInv,
           ServerEnds \/ DateArrives \/ TimeIsUp \/ (tasks > 0 /\ NothingToDo)
    PROVE  UpdInv'
<1>1. CASE ServerEnds
  <2>1. /\ dl' = [dl EXCEPT !.ended = TRUE]
        /\ mishaps' = IF dl.sent < ImageLen THEN mishaps \union {"cut"} ELSE mishaps
        /\ up' = up /\ image' = image /\ tasks' = tasks /\ req' = req /\ told' = told
        /\ boots' = boots
    BY <1>1 DEF ServerEnds
  <2>2. /\ dl' \in [sent : 0..ImageLen, ended : BOOLEAN, first : Nat]
        /\ dl'.sent = dl.sent /\ dl'.first = dl.first
    BY <2>1 DEF UpdInv, UpdTypeOK
  <2>3. /\ mishaps \subseteq mishaps' /\ mishaps' \subseteq mishaps \union {"cut"}
    BY <2>1
  <2>4. "cut" \notin mishaps' => dl.sent = ImageLen
    <3>1. dl.sent \in 0..ImageLen
      BY DEF UpdInv, UpdTypeOK
    <3> QED BY <2>1, <3>1, SizesAre
  <2>5. UpdTypeOK'
    BY <2>1, <2>2 DEF UpdInv, UpdTypeOK
  <2>6. EndedWhole' /\ Fresh'
    BY <2>1, <2>2, <2>3, <2>4 DEF UpdInv, EndedWhole, Fresh
  <2>7. FirstPiece' /\ FailureHasCause'
    BY <2>2, <2>3 DEF UpdInv, FirstPiece, FailureHasCause
  <2>8. SlotHolds'
    BY <2>1, <2>2, <2>3 DEF UpdInv, SlotHolds
  <2>9. InstalledWhole' /\ RequestHasTask' /\ EndReported'
    BY <2>1, <2>3 DEF UpdInv, InstalledWhole, RequestHasTask, EndReported, Payload
  <2> QED BY <2>5, <2>6, <2>7, <2>8, <2>9 DEF UpdInv
<1>2. CASE DateArrives \/ TimeIsUp
  <2>1. /\ dl' = dl /\ image' = image /\ tasks' = tasks /\ req' = req /\ told' = told
        /\ boots' = boots
    BY <1>2 DEF DateArrives, TimeIsUp
  <2>2. /\ up'.current = up.current /\ up'.dfu = up.dfu /\ up'.error = up.error
        /\ up'.written = up.written
        /\ up' \in [current : BOOLEAN, dfu : BOOLEAN, arrived : BOOLEAN, late : BOOLEAN,
                    error : BOOLEAN, written : Nat]
    <3>1. up' = [up EXCEPT !.arrived = TRUE] \/ up' = [up EXCEPT !.late = TRUE]
      BY <1>2 DEF DateArrives, TimeIsUp
    <3>2. CASE up' = [up EXCEPT !.arrived = TRUE]
      BY <3>2 DEF UpdInv, UpdTypeOK
    <3>3. CASE up' = [up EXCEPT !.late = TRUE]
      BY <3>3 DEF UpdInv, UpdTypeOK
    <3> QED BY <3>1, <3>2, <3>3
  <2>3. /\ mishaps \subseteq mishaps' /\ mishaps' \subseteq mishaps \union {"late"}
        /\ up'.late => up.late \/ "late" \in mishaps'
    BY <1>2 DEF DateArrives, TimeIsUp, UpdInv, UpdTypeOK
  <2>4. UpdTypeOK'
    BY <2>1, <2>2 DEF UpdInv, UpdTypeOK
  <2>5. Fresh' /\ EndedWhole'
    BY <2>1, <2>2, <2>3 DEF UpdInv, Fresh, EndedWhole
  <2>6. FirstPiece' /\ FailureHasCause'
    BY <2>1, <2>3 DEF UpdInv, FirstPiece, FailureHasCause
  <2>7. SlotHolds'
    BY <2>1, <2>2, <2>3 DEF UpdInv, SlotHolds
  <2>8. InstalledWhole' /\ RequestHasTask' /\ EndReported'
    BY <2>1, <2>2, <2>3 DEF UpdInv, InstalledWhole, RequestHasTask, EndReported, Payload
  <2> QED BY <2>4, <2>5, <2>6, <2>7, <2>8 DEF UpdInv
<1>3. CASE tasks > 0 /\ NothingToDo
  <2>1. /\ ~up.current /\ tasks' = tasks - 1
        /\ up' = up /\ dl' = dl /\ image' = image /\ req' = req /\ told' = told
        /\ boots' = boots /\ mishaps' = mishaps
    BY <1>3 DEF NothingToDo
  <2>2. tasks' \in Nat
    BY <1>3, <2>1 DEF UpdInv, UpdTypeOK
  <2>3. UpdTypeOK'
    BY <2>1, <2>2 DEF UpdInv, UpdTypeOK
  <2>4. Fresh' /\ FirstPiece' /\ SlotHolds' /\ EndedWhole'
    BY <2>1 DEF UpdInv, Fresh, FirstPiece, SlotHolds, EndedWhole
  <2>5. InstalledWhole' /\ RequestHasTask' /\ FailureHasCause' /\ EndReported'
    BY <2>1 DEF UpdInv, InstalledWhole, RequestHasTask, FailureHasCause, EndReported, Payload
  <2> QED BY <2>3, <2>4, <2>5 DEF UpdInv
<1> QED BY <1>1, <1>2, <1>3

\* A piece of any length from any place: what part of it goes to the flash.
PartOf(s, n) ==
    IF prepare_write(Run(s + 1, s + n)) = "more" THEN Run(s + 1, s + n)
    ELSE SubSeq(Run(s + 1, s + n), HeaderLen + 1, Len(Run(s + 1, s + n)))

\* What that part is.
LEMMA PieceIs ==
    ASSUME UpdTypeOK, NEW s \in Nat, NEW n \in Nat \ {0},
           prepare_write(Run(s + 1, s + n)) # "invalid"
    PROVE  \/ up.written > 0 /\ PartOf(s, n) = Run(s + 1, s + n)
           \/ /\ up.written = 0 /\ s = 0 /\ HeaderLen <= n
              /\ PartOf(s, n) = Run(HeaderLen + 1, n)
<1> DEFINE piece == Run(s + 1, s + n)
           data == PartOf(s, n)
<1>0. up.written \in Nat /\ HeaderLen \in Nat \ {0}
  BY SizesAre DEF UpdTypeOK
<1>1. Len(piece) = n
  <2>0. s + 1 \in Nat /\ s + n \in Nat /\ s + 1 <= (s + n) + 1
    OBVIOUS
  <2>1. Len(piece) = (s + n) - (s + 1) + 1
    BY <2>0, RunIs, Zenon
  <2> HIDE DEF piece
  <2> QED BY <2>1
<1>2. CASE up.written > 0
  <2>1. prepare_write(piece) = "more"
    BY <1>2, PrepareIs
  <2> QED BY <1>2, <2>1 DEF PartOf
<1>3. CASE up.written = 0
  <2>1. prepare_write(piece) = "header" /\ s = 0 /\ HeaderLen <= n
    BY <1>3, PrepareIs
  <2>2. data = SubSeq(piece, HeaderLen + 1, n)
    <3> HIDE DEF piece
    <3>1. data = IF prepare_write(piece) = "more" THEN piece
                 ELSE SubSeq(piece, HeaderLen + 1, Len(piece))
      BY DEF piece, PartOf
    <3> QED BY <1>1, <2>1, <3>1
  <2>3. SubSeq(piece, HeaderLen + 1, n) = Run(s + (HeaderLen + 1), s + n)
    <3>1. /\ HeaderLen + 1 \in Nat /\ 1 <= HeaderLen + 1 /\ n \in Nat
          /\ HeaderLen + 1 <= n + 1 /\ n <= n
      BY <1>0, <2>1
    <3> QED BY <3>1, RunPart, ZenonT(60)
  <2>4. s + (HeaderLen + 1) = HeaderLen + 1 /\ s + n = n
    BY <1>0, <2>1
  <2> QED BY <1>3, <2>1, <2>2, <2>3, <2>4
<1> QED BY <1>0, <1>2, <1>3

\* A write leaves in the slot what was received so far.
LEMMA WriteHolds ==
    ASSUME UpdInv, NEW n \in Nat \ {0}, dl.sent + n <= ImageLen, NEW data,
           up.dfu, ~up.error,
           \/ up.written > 0 /\ data = Run(dl.sent + 1, dl.sent + n)
           \/ /\ up.written = 0 /\ dl.sent = 0 /\ HeaderLen <= n
              /\ data = Run(HeaderLen + 1, n)
    PROVE  /\ data \in Seq(Nat)
           /\ image.cells \o data \in Seq(Nat)
           /\ "overwritten" \notin mishaps =>
                 /\ up.written + Len(data) = Len(image.cells \o data)
                 /\ dl.sent + n >= HeaderLen
                 /\ image.cells \o data = Run(HeaderLen + 1, dl.sent + n)
<1>0. /\ up.written \in Nat /\ dl.sent \in Nat /\ image.cells \in Seq(Nat)
      /\ image.begun \in BOOLEAN
      /\ HeaderLen \in Nat \ {0}
  BY SizesAre DEF UpdInv, UpdTypeOK
<1>1. data \in Seq(Nat)
  <2>1. CASE data = Run(dl.sent + 1, dl.sent + n)
    <3>1. dl.sent + 1 \in Nat /\ dl.sent + n \in Nat /\ dl.sent + 1 <= (dl.sent + n) + 1
      BY <1>0
    <3> QED BY <2>1, <3>1, RunIs, Zenon
  <2>2. CASE HeaderLen <= n /\ data = Run(HeaderLen + 1, n)
    <3>1. HeaderLen + 1 \in Nat /\ n \in Nat /\ HeaderLen + 1 <= n + 1
      BY <1>0, <2>2
    <3> QED BY <2>2, <3>1, RunIs, Zenon
  <2> QED BY <2>1, <2>2
<1>2. image.cells \o data \in Seq(Nat) /\ Len(image.cells \o data) = Len(image.cells) + Len(data)
  BY <1>0, <1>1, ConcatProperties
<1>3. ASSUME "overwritten" \notin mishaps
      PROVE  /\ up.written = Len(image.cells) /\ dl.sent + n >= HeaderLen
             /\ image.cells \o data = Run(HeaderLen + 1, dl.sent + n)
  <2>1. /\ up.written = Len(image.cells)
        /\ image.begun => dl.sent >= HeaderLen /\ image.cells = Run(HeaderLen + 1, dl.sent)
        /\ ~image.begun => dl.sent = 0 /\ image.cells = <<>>
    BY <1>3 DEF UpdInv, SlotHolds
  <2>2. CASE up.written > 0 /\ data = Run(dl.sent + 1, dl.sent + n)
    <3>1. image.begun
      <4>1. Len(<<>>) = 0
        OBVIOUS
      <4> QED BY <2>1, <2>2, <4>1
    <3>2. /\ dl.sent >= HeaderLen /\ HeaderLen + 1 \in Nat /\ dl.sent + n \in Nat
          /\ HeaderLen + 1 <= dl.sent + 1 /\ dl.sent <= dl.sent + n
      BY <1>0, <2>1, <3>1
    <3>3. Run(HeaderLen + 1, dl.sent) \o Run(dl.sent + 1, dl.sent + n)
            = Run(HeaderLen + 1, dl.sent + n)
      <4>1. dl.sent \in Nat
        BY <1>0
      <4>2. \A a \in Nat : \A c \in Nat : a <= dl.sent + 1 /\ dl.sent <= c =>
              Run(a, dl.sent) \o Run(dl.sent + 1, c) = Run(a, c)
        BY <4>1, RunConcat, ZenonT(60)
      <4> QED BY <3>2, <4>2, Zenon
    <3>4. dl.sent + n >= HeaderLen
      BY <1>0, <3>2
    <3> QED BY <2>1, <2>2, <3>1, <3>3, <3>4
  <2>3. CASE /\ up.written = 0 /\ dl.sent = 0 /\ HeaderLen <= n
             /\ data = Run(HeaderLen + 1, n)
    <3>1. ~image.begun
      BY <1>0, <2>1, <2>3
    <3>2. <<>> \o data = data
      BY <1>1
    <3>3. dl.sent + n = n /\ dl.sent + n >= HeaderLen
      BY <1>0, <2>3
    <3> QED BY <2>1, <2>3, <3>1, <3>2, <3>3
  <2> QED BY <2>2, <2>3
<1> QED BY <1>1, <1>2, <1>3

\* A first block without a header means that the first piece of the transfer
\* carried no more than the header, if no request overwrote the count.
LEMMA RefusedHeader ==
    ASSUME UpdInv, NEW n \in Nat \ {0}, up.dfu, ~up.error, "overwritten" \notin mishaps,
           prepare_write(Run(dl.sent + 1, dl.sent + n)) = "invalid"
    PROVE  (IF dl.first = 0 THEN n ELSE dl.first) <= HeaderLen
<1>0. /\ up.written \in Nat /\ dl.sent \in Nat /\ dl.first \in Nat
      /\ image.begun \in BOOLEAN /\ HeaderLen \in Nat \ {0} /\ UpdTypeOK
  BY SizesAre DEF UpdInv, UpdTypeOK
<1>1. up.written = 0 /\ (dl.sent > 0 \/ n < HeaderLen)
  BY <1>0, PrepareIs
<1>2. /\ up.written = Len(image.cells)
      /\ image.begun => dl.sent >= HeaderLen /\ image.cells = Run(HeaderLen + 1, dl.sent)
      /\ ~image.begun => dl.sent = 0
  BY DEF UpdInv, SlotHolds
<1>3. dl.first <= dl.sent /\ (dl.sent > 0 => dl.first > 0)
  BY DEF UpdInv, FirstPiece
<1>4. CASE image.begun
  <2>1. HeaderLen + 1 \in Nat /\ HeaderLen + 1 <= dl.sent + 1
    BY <1>0, <1>2, <1>4
  <2>2. Len(Run(HeaderLen + 1, dl.sent)) = dl.sent - (HeaderLen + 1) + 1
    BY <1>0, <2>1, RunIs
  <2>3. dl.sent = HeaderLen
    BY <1>0, <1>1, <1>2, <1>4, <2>2
  <2> QED BY <1>0, <1>3, <2>3
<1>5. CASE ~image.begun
  BY <1>0, <1>1, <1>2, <1>3, <1>5
<1> QED BY <1>0, <1>4, <1>5

\* A piece arrives and is written, refused or left in the ring.
LEMMA ReceivesKeeps == ASSUME UpdInv, Receives PROVE UpdInv'
<1>0. /\ up.dfu /\ ~dl.ended /\ tasks' = tasks /\ req' = req /\ told' = told /\ boots' = boots
  BY DEF Receives, is_updating
<1>1. PICK n \in 1..BufferSize :
        /\ dl.sent + n <= ImageLen
        /\ dl' = [dl EXCEPT !.sent = @ + n, !.first = IF @ = 0 THEN n ELSE @]
        /\ write_to_flash(Run(dl.sent + 1, dl.sent + n))
  BY DEF Receives
<1>2. n \in Nat \ {0} /\ dl.sent \in Nat /\ dl.first \in Nat /\ up.written \in Nat
  BY SizesAre DEF UpdInv, UpdTypeOK
<1>3. /\ dl'.sent = dl.sent + n /\ dl'.ended = FALSE
      /\ dl'.first = IF dl.first = 0 THEN n ELSE dl.first
      /\ dl' \in [sent : 0..ImageLen, ended : BOOLEAN, first : Nat]
  <2>1. /\ dl'.sent = dl.sent + n /\ dl'.ended = dl.ended
        /\ dl'.first = IF dl.first = 0 THEN n ELSE dl.first
    BY <1>1 DEF UpdInv, UpdTypeOK
  <2>2. dl.sent + n \in 0..ImageLen /\ (IF dl.first = 0 THEN n ELSE dl.first) \in Nat
    BY <1>1, <1>2, SizesAre
  <2>3. dl' \in [sent : 0..ImageLen, ended : BOOLEAN, first : Nat]
    BY <1>1, <2>2 DEF UpdInv, UpdTypeOK
  <2> QED BY <1>0, <2>1, <2>3 DEF UpdInv, UpdTypeOK
<1>4. /\ dl'.first <= dl'.sent /\ dl'.first > 0
      /\ dl.first > 0 => dl'.first = dl.first
  <2>1. dl.first <= dl.sent
    BY DEF UpdInv, FirstPiece
  <2> QED BY <1>2, <1>3, <2>1
\* Whatever becomes of the write.
<1>5. ASSUME /\ up' \in [current : BOOLEAN, dfu : BOOLEAN, arrived : BOOLEAN, late : BOOLEAN,
                         error : BOOLEAN, written : Nat]
             /\ image' \in [begun : BOOLEAN, cells : Seq(Nat)]
             /\ up'.current = up.current /\ up'.dfu = up.dfu /\ up'.late = up.late
             /\ mishaps \subseteq mishaps' /\ mishaps' \subseteq mishaps \union {"header", "flash"}
             /\ "header" \in mishaps' =>
                  "header" \in mishaps \/ dl'.first <= HeaderLen \/ "overwritten" \in mishaps
             /\ SlotHolds'
      PROVE  UpdInv'
  <2>1. UpdTypeOK'
    BY <1>0, <1>3, <1>5 DEF UpdInv, UpdTypeOK
  <2>2. Fresh' /\ EndedWhole'
    BY <1>0, <1>3, <1>5 DEF UpdInv, Fresh, EndedWhole
  <2>3. FirstPiece'
    BY <1>4 DEF FirstPiece
  <2>4. FailureHasCause'
    <3>1. "header" \in mishaps => dl.first > 0
      BY DEF UpdInv, FirstPiece
    <3> QED BY <1>4, <1>5, <3>1 DEF UpdInv, FailureHasCause
  <2>5. InstalledWhole' /\ RequestHasTask' /\ EndReported'
    BY <1>0, <1>5 DEF UpdInv, InstalledWhole, RequestHasTask, EndReported, Payload
  <2> QED BY <1>5, <2>1, <2>2, <2>3, <2>4, <2>5 DEF UpdInv
<1>6. CASE up.error /\ up' = up /\ image' = image /\ mishaps' = mishaps
  <2>1. SlotHolds'
    BY <1>6 DEF SlotHolds
  <2> QED BY <1>5, <1>6, <2>1 DEF UpdInv, UpdTypeOK
<1>7. ASSUME NEW why \in {"header", "flash"}, ~up.error, WriteRefused(why),
             why = "header" => prepare_write(Run(dl.sent + 1, dl.sent + n)) = "invalid"
      PROVE  UpdInv'
  <2>1. /\ up' = [up EXCEPT !.error = TRUE] /\ mishaps' = mishaps \union {why}
        /\ image' = image
    BY <1>7 DEF WriteRefused
  <2>2. /\ up'.error = TRUE /\ up'.current = up.current /\ up'.dfu = up.dfu /\ up'.late = up.late
        /\ up' \in [current : BOOLEAN, dfu : BOOLEAN, arrived : BOOLEAN, late : BOOLEAN,
                    error : BOOLEAN, written : Nat]
        /\ image' \in [begun : BOOLEAN, cells : Seq(Nat)]
    BY <2>1 DEF UpdInv, UpdTypeOK
  <2>3. SlotHolds'
    BY <2>2 DEF SlotHolds
  <2>4. "header" \in mishaps' =>
          "header" \in mishaps \/ dl'.first <= HeaderLen \/ "overwritten" \in mishaps
    <3>1. CASE why = "header" /\ "overwritten" \notin mishaps
      <4>1. (IF dl.first = 0 THEN n ELSE dl.first) <= HeaderLen
        BY <1>0, <1>2, <1>7, <3>1, RefusedHeader
      <4> QED BY <1>3, <4>1
    <3>2. CASE why # "header"
      BY <2>1, <3>2
    <3> QED BY <3>1, <3>2
  <2> QED BY <1>5, <2>1, <2>2, <2>3, <2>4
<1>8. ASSUME NEW data, ~up.error,
             prepare_write(Run(dl.sent + 1, dl.sent + n)) # "invalid",
             data = IF prepare_write(Run(dl.sent + 1, dl.sent + n)) = "more"
                    THEN Run(dl.sent + 1, dl.sent + n)
                    ELSE SubSeq(Run(dl.sent + 1, dl.sent + n), HeaderLen + 1,
                                Len(Run(dl.sent + 1, dl.sent + n))),
             Writes(data), up' = [up EXCEPT !.written = @ + Len(data)], mishaps' = mishaps
      PROVE  UpdInv'
  <2>0. UpdTypeOK
    BY DEF UpdInv
  <2>1. \/ up.written > 0 /\ data = Run(dl.sent + 1, dl.sent + n)
        \/ up.written = 0 /\ dl.sent = 0 /\ HeaderLen <= n /\ data = Run(HeaderLen + 1, n)
    <3>1. data = PartOf(dl.sent, n)
      BY <1>8 DEF PartOf
    <3> QED BY <1>2, <1>8, <2>0, <3>1, PieceIs
  <2>2. /\ data \in Seq(Nat) /\ image.cells \o data \in Seq(Nat)
        /\ "overwritten" \notin mishaps =>
              /\ up.written + Len(data) = Len(image.cells \o data)
              /\ dl.sent + n >= HeaderLen
              /\ image.cells \o data = Run(HeaderLen + 1, dl.sent + n)
    <3>1. n \in Nat \ {0} /\ dl.sent + n <= ImageLen /\ up.dfu /\ ~up.error
      BY <1>0, <1>1, <1>2, <1>8
    <3> QED BY <2>1, <3>1, WriteHolds
  <2>3. Len(data) \in Nat /\ up.written + Len(data) \in Nat
    BY <1>2, <2>2, LenProperties
  <2>4. /\ up'.written = up.written + Len(data) /\ up'.current = up.current
        /\ up'.dfu = up.dfu /\ up'.late = up.late /\ up'.error = up.error
        /\ up' \in [current : BOOLEAN, dfu : BOOLEAN, arrived : BOOLEAN, late : BOOLEAN,
                    error : BOOLEAN, written : Nat]
    BY <1>8, <2>0, <2>3 DEF UpdTypeOK
  <2>5. /\ image'.begun = TRUE /\ image'.cells = image.cells \o data
        /\ image' \in [begun : BOOLEAN, cells : Seq(Nat)]
    BY <1>8, <2>2 DEF Writes
  <2>6. SlotHolds'
    BY <1>3, <1>8, <2>2, <2>4, <2>5 DEF SlotHolds
  <2>7. mishaps' = mishaps
    BY <1>8
  <2> QED BY <1>5, <2>4, <2>5, <2>6, <2>7
<1> QED BY <1>1, <1>6, <1>7, <1>8 DEF write_to_flash

-----------------------------------------------------------------------------
(* The theorems *)

\* The inductive invariant of the updater.
LEMMA UpdInvHolds == UpdSpec => []UpdInv
<1>1. UpdInit => UpdInv
  <2>1. SUFFICES ASSUME UpdInit PROVE UpdInv
    OBVIOUS
  <2>2. UpdTypeOK
    BY <2>1, SizesAre DEF UpdInit, UpdTypeOK, Idle, NoTransfer, Unprepared
  <2>3. Fresh /\ FirstPiece /\ SlotHolds /\ EndedWhole
    BY <2>1 DEF UpdInit, Fresh, FirstPiece, SlotHolds, EndedWhole, Idle, NoTransfer
  <2>4. InstalledWhole /\ RequestHasTask /\ FailureHasCause /\ EndReported
    BY <2>1 DEF UpdInit, InstalledWhole, RequestHasTask, FailureHasCause, EndReported, Idle
  <2> QED BY <2>2, <2>3, <2>4 DEF UpdInv
<1>2. UpdInv /\ [UpdNext]_updVars => UpdInv'
  <2>1. SUFFICES ASSUME UpdInv, [UpdNext]_updVars PROVE UpdInv'
    OBVIOUS
  <2>2. CASE updater_request
    BY <2>1, <2>2, RequestKeeps
  <2>3. CASE updater_process
    <3>1. tasks > 0
      BY <2>3 DEF updater_process
    <3>2. CASE start_download
      BY <2>1, <3>1, <3>2, StartKeeps
    <3>3. CASE Receives
      BY <2>1, <3>3, ReceivesKeeps
    <3>4. CASE Finishes
      BY <2>1, <3>1, <3>4, FinishesKeeps
    <3>5. CASE ConnectionFails
      BY <2>1, <3>1, <3>5, FailsKeeps
    <3>6. CASE NothingToDo
      BY <2>1, <3>1, <3>6, SmallStepsKeep
    <3> QED BY <2>3, <3>2, <3>3, <3>4, <3>5, <3>6 DEF updater_process
  <2>4. CASE ServerEnds \/ DateArrives \/ TimeIsUp
    BY <2>1, <2>4, SmallStepsKeep
  <2>5. CASE UNCHANGED updVars
    <3>1. /\ up' = up /\ dl' = dl /\ image' = image /\ tasks' = tasks /\ req' = req
          /\ told' = told /\ boots' = boots /\ mishaps' = mishaps
      BY <2>5 DEF updVars
    <3>2. UpdTypeOK' /\ Fresh' /\ FirstPiece' /\ SlotHolds' /\ EndedWhole'
      BY <2>1, <3>1 DEF UpdInv, UpdTypeOK, Fresh, FirstPiece, SlotHolds, EndedWhole
    <3>3. InstalledWhole' /\ RequestHasTask' /\ FailureHasCause' /\ EndReported'
      BY <2>1, <3>1 DEF UpdInv, InstalledWhole, RequestHasTask, FailureHasCause,
                        EndReported, Payload
    <3> QED BY <3>2, <3>3 DEF UpdInv
  <2> QED BY <2>1, <2>2, <2>3, <2>4, <2>5 DEF UpdNext
<1> QED BY <1>1, <1>2, PTL DEF UpdSpec

\* The safe half of the updater's promise, with the requests, the downloads and
\* the faults interleaved in any way.
THEOREM UpdateIsRight == UpdSpec => []UpdateRight
<1>1. UpdInv => UpdateRight
  BY DEF UpdInv, UpdateRight
<1> QED BY <1>1, UpdInvHolds, PTL
=============================================================================
