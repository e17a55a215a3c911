------------------------------ MODULE Updater -------------------------------
(***************************************************************************)
(* The firmware update: src/updater.c, fed by the HTTP downloader          *)
(* (src/downloader_http.c over ports/esp-idf/http_client.c), writing with  *)
(* ports/esp-idf/dfu.c.  do_updatefirmware() of the charger's thread makes *)
(* the request; the network manager's thread runs updater_process() as a   *)
(* task while it is connected.  updater_request() looks at the state       *)
(* before it takes the lock, so the other thread may come between.         *)
(*                                                                         *)
(* An image is ImageLen cells in order, the first HeaderLen the header.    *)
(* The server sends it in pieces of any size that fits the ring, may stop  *)
(* early, fail, or be silent until the update times out.                   *)
(***************************************************************************)
EXTENDS Naturals, Sequences

CONSTANTS
    HeaderLen, ImageLen, \* in cells
    BufferSize,          \* UPDATER_BUFFER_SIZE: the ring and the largest piece
    MaxRequests

ASSUME UpdaterAssumption ==
    /\ {HeaderLen, ImageLen, BufferSize, MaxRequests} \subseteq Nat \ {0}
    /\ HeaderLen < ImageLen

VARIABLES
    up,      \* struct updater
    dl,      \* the transfer: cells sent so far, whether the server has ended it
    image,   \* what dfu_write() has put in the update slot
    tasks,   \* entries of the network manager's task list that run update()
    req,     \* where updater_request() is, and how many requests were made
    told,    \* the last firmware status sent to the server
    boots,   \* what dfu_commit() makes the charger boot next, after which mishaps
    mishaps  \* what has gone wrong since the download began

updVars == <<up, dl, image, tasks, req, told, boots, mishaps>>

Idle == [current |-> FALSE, dfu |-> FALSE, arrived |-> FALSE, late |-> FALSE,
         error |-> FALSE, written |-> 0]
NoTransfer == [sent |-> 0, ended |-> FALSE, first |-> 0]
NoBoot == [cells |-> <<>>, after |-> {}]
Unprepared == [begun |-> FALSE, cells |-> <<>>]

is_pending == up.current /\ ~up.dfu
is_updating == up.current /\ up.dfu

Run(a, b) == [i \in 1..(b - a + 1) |-> a + i - 1]
Payload == Run(HeaderLen + 1, ImageLen)

\* dispatch_event() and on_updater_event(): an event past DOWNLOADED sends
\* DOWNLOADED first, one past START_INSTALLING sends that too, and INSTALLED
\* asks for a reboot.  The last status the server hears of each event; it
\* hears nothing of a timeout.
StatusOf(event) ==
    CASE event = "START_DOWNLOADING" -> "Downloading"
      [] event \in {"ERROR_PREPARING", "ERROR_DOWNLOADING"} -> "DownloadFailed"
      [] event = "ERROR_INSTALLING" -> "InstallationFailed"
      [] event = "INSTALLED" -> "Installed"
      [] OTHER -> told

dispatch_event(event) == told' = StatusOf(event)

-----------------------------------------------------------------------------
(* The request *)

\* do_updatefirmware() and the first half of updater_request(): refused with
\* -EBUSY while a download is under way.
RequestChecks ==
    /\ req.pc = "idle"
    /\ req.made < MaxRequests
    /\ ~is_updating
    /\ req' = [pc |-> "checked", made |-> req.made + 1]
    /\ UNCHANGED <<up, dl, image, tasks, told, boots, mishaps>>

\* set_request() under the lock.  A pending request is overwritten; so is the
\* state of a download that began since the check.
set_request ==
    /\ req.pc = "checked"
    /\ \E arrived \in BOOLEAN :
        up' = [up EXCEPT !.current = TRUE, !.error = FALSE, !.written = 0,
                         !.arrived = arrived]
    /\ mishaps' = IF up.dfu THEN mishaps \union {"overwritten"} ELSE mishaps
    /\ req' = [req EXCEPT !.pc = "runner"]
    /\ UNCHANGED <<dl, image, tasks, told, boots>>

\* The runner registers one more task, unless there is no memory for it.
run_network_updater ==
    /\ req.pc = "runner"
    /\ req' = [req EXCEPT !.pc = "idle"]
    /\ \/ tasks' = tasks + 1 /\ UNCHANGED mishaps
       \/ mishaps' = mishaps \union {"no task"} /\ UNCHANGED tasks
    /\ UNCHANGED <<up, dl, image, told, boots>>

updater_request == RequestChecks \/ set_request \/ run_network_updater

-----------------------------------------------------------------------------
(* updater_process(), one call of the task *)

Cleared == Idle

\* start_download(): a new DFU, then a new HTTP client.
start_download ==
    /\ is_pending /\ up.arrived
    /\ \/ /\ up' = [up EXCEPT !.dfu = TRUE, !.late = FALSE]
          /\ dl' = NoTransfer
          /\ image' = Unprepared
          /\ mishaps' = mishaps \intersect {"no task"}
          /\ dispatch_event("START_DOWNLOADING")
          /\ UNCHANGED tasks
       \/ /\ up' = Cleared
          /\ dispatch_event("ERROR_PREPARING")
          /\ tasks' = tasks - 1
          /\ UNCHANGED <<dl, image, mishaps>>
    /\ UNCHANGED <<req, boots>>

\* prepare_write(): the first block must begin with a header; "first" is
\* known by nothing having been written yet.
prepare_write(piece) ==
    IF up.written > 0 THEN "more"
    ELSE IF Len(piece) >= HeaderLen /\ SubSeq(piece, 1, HeaderLen) = Run(1, HeaderLen)
    THEN "header" ELSE "invalid"

\* on_data_reception() and write_to_flash(): the piece goes through the ring
\* to dfu_write(); an earlier error leaves it there.
Writes(piece) == image' = [begun |-> TRUE, cells |-> image.cells \o piece]

WriteRefused(why) ==
    /\ up' = [up EXCEPT !.error = TRUE]
    /\ mishaps' = mishaps \union {why}
    /\ UNCHANGED image

write_to_flash(piece) ==
    \/ up.error /\ UNCHANGED <<up, image, mishaps>>
    \/ /\ ~up.error
       /\ prepare_write(piece) = "invalid"
       /\ WriteRefused("header")
    \/ /\ ~up.error
       /\ prepare_write(piece) # "invalid"
       /\ \E data \in {IF prepare_write(piece) = "more" THEN piece
                       ELSE SubSeq(piece, HeaderLen + 1, Len(piece))} :
          \/ /\ Writes(data)
             /\ up' = [up EXCEPT !.written = @ + Len(data)]
             /\ UNCHANGED mishaps
          \/ WriteRefused("flash")

\* downloader_process() with data: http_client_request() says -EINPROGRESS,
\* and the update goes on unless the write failed or the time is up.
Receives ==
    /\ is_updating /\ ~dl.ended /\ ~up.late
    /\ \E n \in 1..BufferSize :
        /\ dl.sent + n <= ImageLen
        /\ dl' = [dl EXCEPT !.sent = @ + n, !.first = IF @ = 0 THEN n ELSE @]
        /\ write_to_flash(Run(dl.sent + 1, dl.sent + n))
    /\ UNCHANGED <<tasks, req, told, boots>>

\* Mutant: commits whatever the result.
finish_download_Anyway(err) ==
    /\ \/ /\ err = "none" /\ image.begun
          /\ boots' = [cells |-> image.cells, after |-> mishaps] /\ dispatch_event("INSTALLED") /\ UNCHANGED mishaps
       \/ /\ dispatch_event(IF err = "timedout" THEN "ERROR_TIMEOUT"
                            ELSE "ERROR_DOWNLOADING")
          /\ UNCHANGED <<boots, mishaps>>
    /\ up' = Cleared
    /\ tasks' = tasks - 1
    /\ UNCHANGED <<dl, image, req>>

\* finish_download(): the image is committed only when the transfer ended
\* well, no write failed and dfu_finish() accepts it, which it may whenever
\* dfu_prepare() was called.
finish_download(err) ==
    /\ \/ /\ err = "none" /\ ~up.error /\ image.begun
          /\ \/ boots' = [cells |-> image.cells, after |-> mishaps] /\ dispatch_event("INSTALLED") /\ UNCHANGED mishaps
             \/ /\ dispatch_event("ERROR_INSTALLING")
                /\ mishaps' = mishaps \union {"commit"}
                /\ UNCHANGED boots
       \/ /\ dispatch_event(IF err = "timedout" THEN "ERROR_TIMEOUT"
                            ELSE "ERROR_DOWNLOADING")
          /\ mishaps' = IF err = "none" /\ ~up.error
                        THEN mishaps \union {"refused"} ELSE mishaps
          /\ UNCHANGED boots
    /\ up' = Cleared
    /\ tasks' = tasks - 1
    /\ UNCHANGED <<dl, image, req>>

\* The server ends the transfer: whole, or early.
ServerEnds ==
    /\ is_updating /\ ~dl.ended
    /\ dl' = [dl EXCEPT !.ended = TRUE]
    /\ mishaps' = IF dl.sent < ImageLen THEN mishaps \union {"cut"} ELSE mishaps
    /\ UNCHANGED <<up, image, tasks, req, told, boots>>

\* Mutant: has no time-out.
Finishes_Untimed ==
    /\ is_updating /\ ~up.late
    /\ \/ dl.ended /\ finish_download("none")
       \/ ~dl.ended /\ up.error /\ finish_download("aborted")

Finishes ==
    /\ is_updating
    /\ \/ up.late /\ finish_download("timedout")
       \/ ~up.late /\ dl.ended /\ finish_download("none")
       \/ ~up.late /\ ~dl.ended /\ up.error /\ finish_download("aborted")

\* The connection fails: http_client_request() returns -ECONNABORTED.
ConnectionFails ==
    /\ is_updating /\ ~dl.ended /\ ~up.late
    /\ dl' = [dl EXCEPT !.ended = TRUE]
    /\ up' = Cleared
    /\ tasks' = tasks - 1
    /\ dispatch_event("ERROR_DOWNLOADING")
    /\ mishaps' = mishaps \union {"connection"}
    /\ UNCHANGED <<image, req, boots>>

\* With nothing to do the task ends.
NothingToDo ==
    /\ ~up.current
    /\ tasks' = tasks - 1
    /\ UNCHANGED <<up, dl, image, req, told, boots, mishaps>>

updater_process ==
    /\ tasks > 0
    /\ \/ start_download \/ Receives \/ Finishes \/ ConnectionFails \/ NothingToDo

\* Time: the retrieve date comes, five minutes of downloading go by.
DateArrives ==
    /\ is_pending /\ ~up.arrived
    /\ up' = [up EXCEPT !.arrived = TRUE]
    /\ UNCHANGED <<dl, image, tasks, req, told, boots, mishaps>>

TimeIsUp ==
    /\ is_updating /\ ~up.late
    /\ up' = [up EXCEPT !.late = TRUE]
    /\ mishaps' = mishaps \union {"late"}
    /\ UNCHANGED <<dl, image, tasks, req, told, boots>>

-----------------------------------------------------------------------------
UpdInit ==
    /\ up = Idle /\ dl = NoTransfer /\ image = Unprepared
    /\ tasks = 0 /\ req = [pc |-> "idle", made |-> 0]
    /\ told = "Idle" /\ boots = NoBoot /\ mishaps = {}

UpdNext ==
    \/ updater_request
    \/ updater_process
    \/ ServerEnds
    \/ DateArrives
    \/ TimeIsUp

\* The charger's thread finishes a request it began; the task runs while the
\* network is up; dates come.
UpdFairness ==
    /\ WF_updVars(set_request \/ run_network_updater)
    /\ WF_updVars(updater_process)
    /\ WF_updVars(DateArrives)
    /\ WF_updVars(TimeIsUp)

UpdSpec == UpdInit /\ [][UpdNext]_updVars /\ UpdFairness

-----------------------------------------------------------------------------
(* Properties *)

Mishaps == {"overwritten", "no task", "header", "flash", "commit", "refused",
            "cut", "connection", "late"}

\* The variables keep their types.
UpdTypeOK ==
    /\ up \in [current : BOOLEAN, dfu : BOOLEAN, arrived : BOOLEAN, late : BOOLEAN,
               error : BOOLEAN, written : Nat]
    /\ dl \in [sent : 0..ImageLen, ended : BOOLEAN, first : Nat]
    /\ image \in [begun : BOOLEAN, cells : Seq(Nat)]
    /\ tasks \in Nat
    /\ req \in [pc : {"idle", "checked", "runner"}, made : Nat]

\* What the charger is made to boot is the whole image in order.  The length
\* in the header is never compared with what came, so this rests on the
\* server not ending a transfer early with a success, and on no request
\* overwriting the download's error and count.
InstalledWhole ==
    boots # NoBoot =>
        boots.cells = Payload \/ boots.after \intersect {"cut", "overwritten"} # {}

\* A request that is set has a task to carry it out, unless there was no
\* memory for the task: finishing one request never drops the task of the
\* next one.
RequestHasTask ==
    up.current => tasks > 0 \/ req.pc = "runner" \/ "no task" \in mishaps

\* A download that fails was failed by something outside: the flash, the
\* server, the time, a request that overwrote it, or a first piece that did
\* not carry more than the header (a piece with exactly the header leaves the
\* count at 0, and the next piece is taken for a header).
FailureHasCause ==
    "header" \in mishaps => dl.first <= HeaderLen \/ "overwritten" \in mishaps

\* When a download is over the server has been told how it ended, unless it
\* timed out: then the last it heard is "Downloading".
EndReported ==
    (told = "Downloading" /\ ~up.current) => "late" \in mishaps

\* Every request that is set is over at last, with the charger free for the
\* next one, if there was memory for its task.
RequestEnds ==
    up.current ~> (~up.current \/ "no task" \in mishaps)

\* The safe half of updater.c's promise: only a whole image is booted, a good
\* one is refused for no reason of the charger's own, every request has a task
\* and every end but a time-out is reported.
UpdateRight ==
    UpdTypeOK /\ InstalledWhole /\ RequestHasTask /\ FailureHasCause /\ EndReported
=============================================================================
