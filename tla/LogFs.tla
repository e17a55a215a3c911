------------------------------- MODULE LogFs --------------------------------
(***************************************************************************)
(* The log files: src/fs/logfs.c, one file a day behind a ring buffer, and *)
(* its two users.  The logger (src/logger.c) writes lines under its own    *)
(* mutex; the command line (src/cli/cmd_log.c) flushes, deletes and clears *)
(* the same logfs without that mutex, so its steps fall between the steps  *)
(* of a write.                                                             *)
(*                                                                         *)
(* A line is a run of numbered cells, each with the day it was written.    *)
(* Appending to a file or deleting one may fail; the charger may restart   *)
(* at any step, losing the ring and the list of files.                     *)
(***************************************************************************)
EXTENDS Naturals, Sequences, SequencesExt, FiniteSetsExt

CONSTANTS
    Days,        \* the days that come to pass, 1..n
    LineSizes,   \* the sizes of a line, in cells
    RingCap,     \* the capacity of the ring buffer
    MaxSize,     \* max_size of logfs_create()
    MaxLogs,     \* max_logs
    MaxCells     \* how many cells are written in all

ASSUME LogAssumption ==
    /\ {RingCap, MaxSize, MaxLogs, MaxCells} \subseteq Nat \ {0}
    /\ \A k \in LineSizes : k \in 1..RingCap /\ k <= MaxSize

VARIABLES
    ring,      \* cache.buffer
    stamp,     \* cache.timestamp, 0 before the first line
    logs,      \* [Days -> Seq(cells)]: the files
    list,      \* log_list: the size of each file that is listed
    fl,        \* per thread: where it is in flush_logcache()
    wr,        \* where the logger is in logfs_write()
    today,
    gone,      \* cells deleted, reclaimed or lost with the ring at a restart
    dropped,   \* cells logfs_write() did not take
    happened   \* what has gone wrong: "failed", "brim", "overlap"

logVars == <<ring, stamp, logs, list, fl, wr, today, gone, dropped, happened>>

Users == {"logger", "cli"}
NoFlush == [pc |-> "none", ts |-> 0, need |-> 0, len |-> 0]
NotWriting == [pc |-> "idle", line |-> <<>>, written |-> 0, total |-> 0]

Flushing(t) == fl[t].pc # "none"
Busy(t) == Flushing(t) \/ (t = "logger" /\ wr.pc # "idle")
Cells == [n : 1..MaxCells, d : Days]
CellsOf(s) == {s[i] : i \in DOMAIN s}
Kept == CellsOf(ring) \union UNION {CellsOf(logs[d]) : d \in Days}
        \union CellsOf(SubSeq(wr.line, wr.total + 1, Len(wr.line)))
Known == {c.n : c \in Kept \union gone \union dropped}
Written == IF Known = {} THEN 0 ELSE Max(Known)

\* compute_total_size()
compute_total_size(l) == MapThenSumSet(LAMBDA d : l[d], DOMAIN l)

\* on_dir_scan(): every file is listed with its size.
on_dir_scan == [d \in {x \in Days : logs[x] # <<>>} |-> Len(logs[d])]

Without(l, ds) == [d \in DOMAIN l \ ds |-> l[d]]

\* reclaim_by_count() and reclaim_by_size() delete the oldest listed files:
\* as many as are too many, then until what is to come fits.
reclaim_by_count(l, n) ==
    {d \in DOMAIN l : Cardinality({e \in DOMAIN l : e < d}) + MaxLogs
                          < Cardinality(DOMAIN l) + n}

reclaim_by_size(l, bytes) ==
    {d \in DOMAIN l : MaxSize < bytes + compute_total_size(Without(l, 1..(d - 1)))}

\* reclaim(): the list is read from the directory when it is empty.
reclaim(t) ==
    /\ fl[t].pc = "reclaim"
    /\ \E l \in {IF list = <<>> THEN on_dir_scan ELSE list} :
       \E old \in {reclaim_by_count(l, IF fl[t].need > 0 THEN 1 ELSE 0)} :
       \E out \in {old \union reclaim_by_size(Without(l, old), fl[t].need)} :
          \/ /\ list' = Without(l, out)
             /\ logs' = [d \in Days |-> IF d \in out THEN <<>> ELSE logs[d]]
             /\ gone' = gone \union UNION {CellsOf(logs[d]) : d \in out}
             /\ UNCHANGED happened
          \/ /\ out # {}
             /\ list' = l
             /\ happened' = happened \union {"failed"}
             /\ UNCHANGED <<logs, gone>>
    /\ fl' = [fl EXCEPT ![t].pc = "append"]
    /\ UNCHANGED <<ring, stamp, wr, today, dropped>>

\* The loop of flush_logcache(): a run of the ring goes to the file and is
\* then consumed; an append that fails ends the flush.
FlushAppend(t) ==
    /\ fl[t].pc = "append"
    /\ ring # <<>>
    /\ \/ \E len \in 1..Len(ring) :
            /\ logs' = [logs EXCEPT ![fl[t].ts] = @ \o SubSeq(ring, 1, len)]
            /\ fl' = [fl EXCEPT ![t].pc = "consume", ![t].len = len]
            /\ UNCHANGED happened
       \/ /\ fl' = [fl EXCEPT ![t] = NoFlush]
          /\ happened' = happened \union {"failed"}
          /\ UNCHANGED logs
    /\ UNCHANGED <<ring, stamp, list, wr, today, gone, dropped>>

\* Mutant: consumes one cell less than was written.
FlushConsume_OneLess(t) ==
    /\ fl[t].pc = "consume"
    /\ ring' = SubSeq(ring, fl[t].len, Len(ring))
    /\ fl' = [fl EXCEPT ![t].pc = "append"]
    /\ UNCHANGED <<stamp, logs, list, wr, today, gone, dropped, happened>>

FlushConsume(t) ==
    /\ fl[t].pc = "consume"
    /\ ring' = SubSeq(ring, fl[t].len + 1, Len(ring))
    /\ fl' = [fl EXCEPT ![t].pc = "append"]
    /\ UNCHANGED <<stamp, logs, list, wr, today, gone, dropped, happened>>

\* add_list(): the file is listed with its size, or its size brought up to
\* date (add_list_sorted).
add_list(t) ==
    /\ fl[t].pc = "append"
    /\ ring = <<>>
    /\ list' = IF fl[t].ts \notin {d \in Days : logs[d] # <<>>} THEN list
               ELSE [d \in DOMAIN list \union {fl[t].ts} |->
                        IF d = fl[t].ts THEN Len(logs[d]) ELSE list[d]]
    /\ fl' = [fl EXCEPT ![t] = NoFlush]
    /\ UNCHANGED <<ring, stamp, logs, wr, today, gone, dropped, happened>>

flush_logcache(t) == reclaim(t) \/ FlushAppend(t) \/ FlushConsume(t) \/ add_list(t)

StartFlush(t, ts, need) ==
    fl' = [fl EXCEPT ![t] = [pc |-> "reclaim", ts |-> ts, need |-> need, len |-> 0]]

\* Steps of the two users that overlap are remembered.
Overlapping(t) ==
    IF \E u \in Users \ {t} : Busy(u) THEN happened \union {"overlap"} ELSE happened

\* The day under which the cached lines are flushed.
DayFlushed == stamp

\* write_fs() and logfs_write(): the cached lines of another day are flushed
\* under their own day first.
write_fs(k) ==
    /\ ~Busy("logger")
    /\ Written + k <= MaxCells
    /\ wr' = [NotWriting EXCEPT
                !.pc = IF stamp = today THEN "fill" ELSE "newday",
                !.line = [i \in 1..k |-> [n |-> Written + i, d |-> today]]]
    /\ IF stamp = today THEN UNCHANGED fl
       ELSE StartFlush("logger", DayFlushed, Len(ring) + k)
    /\ happened' = Overlapping("logger")
    /\ UNCHANGED <<ring, stamp, logs, list, today, gone, dropped>>

NewDay ==
    /\ wr.pc = "newday" /\ ~Flushing("logger")
    /\ stamp' = today
    /\ wr' = [wr EXCEPT !.pc = "fill"]
    /\ UNCHANGED <<ring, logs, list, fl, today, gone, dropped, happened>>

\* ringbuf_write() takes what there is room for.  While it takes something
\* and the line is not finished, the ring is flushed and the rest written:
\* from &p[written], the size of the last piece.  A ring that is full when
\* the line comes takes nothing, and nothing is flushed.
Fill ==
    /\ wr.pc = "fill" /\ ~Flushing("logger")
    /\ \E remain \in {Len(wr.line) - wr.total} :
       \E w \in {Min({remain, RingCap - Len(ring)})} :
       \E all \in {wr.total + w} :
          /\ ring' = ring \o SubSeq(wr.line, wr.written + 1, wr.written + w)
          /\ IF w > 0 /\ all < Len(wr.line)
             THEN /\ wr' = [wr EXCEPT !.written = w, !.total = all]
                  /\ StartFlush("logger", today, RingCap + Len(wr.line) - all)
                  /\ UNCHANGED <<dropped, happened>>
             ELSE /\ wr' = NotWriting
                  /\ dropped' = dropped \union CellsOf(SubSeq(wr.line, all + 1, Len(wr.line)))
                  /\ happened' = IF w = 0 /\ wr.total = 0
                                 THEN happened \union {"brim"} ELSE happened
                  /\ UNCHANGED fl
    /\ UNCHANGED <<stamp, logs, list, today, gone>>

logfs_write == (\E k \in LineSizes : write_fs(k)) \/ NewDay \/ Fill

\* The command line: log flush, log rm <day>, log clear.
logfs_flush ==
    /\ ~Busy("cli")
    /\ stamp # 0
    /\ StartFlush("cli", stamp, Len(ring))
    /\ happened' = Overlapping("cli")
    /\ UNCHANGED <<ring, stamp, logs, list, wr, today, gone, dropped>>

logfs_delete ==
    \E d \in DOMAIN list :
        /\ ~Busy("cli")
        /\ logs' = [logs EXCEPT ![d] = <<>>]
        /\ list' = Without(list, {d})
        /\ gone' = gone \union CellsOf(logs[d])
        /\ happened' = Overlapping("cli")
        /\ UNCHANGED <<ring, stamp, fl, wr, today, dropped>>

\* logfs_clear() unlists every file, the ones it could not delete too.
logfs_clear ==
    \E kept \in {{}, DOMAIN list} :
        /\ ~Busy("cli")
        /\ list # <<>>
        /\ logs' = [d \in Days |-> IF d \in DOMAIN list \ kept THEN <<>> ELSE logs[d]]
        /\ list' = <<>>
        /\ gone' = gone \union UNION {CellsOf(logs[d]) : d \in DOMAIN list \ kept}
        /\ happened' = IF kept = {} THEN Overlapping("cli")
                       ELSE Overlapping("cli") \union {"failed"}
        /\ UNCHANGED <<ring, stamp, fl, wr, today, dropped>>

Midnight ==
    /\ today + 1 \in Days
    /\ ~Busy("logger")
    /\ today' = today + 1
    /\ UNCHANGED <<ring, stamp, logs, list, fl, wr, gone, dropped, happened>>

\* A restart that runs the clean-up flushes first; this one does not.
LogRestart ==
    /\ ring' = <<>> /\ stamp' = 0 /\ list' = <<>>
    /\ fl' = [t \in Users |-> NoFlush] /\ wr' = NotWriting
    /\ gone' = gone \union CellsOf(ring)
               \union CellsOf(SubSeq(wr.line, wr.total + 1, Len(wr.line)))
    /\ UNCHANGED <<logs, today, dropped, happened>>

LogInit ==
    /\ ring = <<>> /\ stamp = 0 /\ list = <<>> /\ today = 1
    /\ logs = [d \in Days |-> <<>>]
    /\ fl = [t \in Users |-> NoFlush]
    /\ wr = NotWriting
    /\ gone = {} /\ dropped = {} /\ happened = {}

\* Nothing is claimed of what the two users leave behind once their steps
\* have overlapped (the list itself is unprotected), and it is not followed.
LogNext ==
    /\ "overlap" \notin happened
    /\ \/ \E t \in Users : flush_logcache(t)
       \/ logfs_write
       \/ logfs_flush
       \/ logfs_delete
       \/ logfs_clear
       \/ Midnight
       \/ LogRestart

LogSpec == LogInit /\ [][LogNext]_logVars

-----------------------------------------------------------------------------
(* Properties *)

\* The variables keep their types.
LogTypeOK ==
    /\ ring \in Seq(Cells) /\ Len(ring) <= RingCap
    /\ stamp \in Days \union {0} /\ today \in Days
    /\ \A d \in Days : logs[d] \in Seq(Cells)
    /\ DOMAIN list \subseteq Days
    /\ \A t \in Users : fl[t].pc \in {"none", "reclaim", "append", "consume"}
    /\ wr.pc \in {"idle", "newday", "fill"}
    /\ gone \subseteq Cells /\ dropped \subseteq Cells
    /\ happened \subseteq {"failed", "brim", "overlap"}

\* All that is stored, oldest day first, then the ring.
Stream == FlattenSeq([d \in Days |-> logs[d]]) \o ring
InConsume == \E t \in Users : fl[t].pc = "consume"

\* The files read one after the other, and then the ring, give the lines in
\* the order in which they were written, none of them twice, whatever append
\* or delete fails and wherever a restart falls outside an append: only the
\* command line working on the log while a line is being written breaks it,
\* as its flush appends the same run of the ring again.
LinesInOrder ==
    (~InConsume /\ "overlap" \notin happened)
        => \A i, j \in DOMAIN Stream : i < j => Stream[i].n < Stream[j].n

\* A line is in the file of its own day until an append or a delete fails:
\* after a failed flush the waiting lines of the old day go under the new one.
RightDay ==
    happened = {} \/ happened = {"brim"}
        => \A d \in Days : \A c \in CellsOf(logs[d]) : c.d = d

\* Every line up to the last one is stored, waiting, or was deleted, reclaimed
\* or in the ring at a restart.  A line is dropped only after a failure, or
\* when the ring was exactly full: then logfs_write() flushes nothing, and so
\* drops every line until the day changes.
LinesKept ==
    "overlap" \notin happened
        => /\ Known = 1..Written
           /\ dropped # {} => happened \intersect {"failed", "brim"} # {}

\* With no flush under way the files keep to max_logs and to max_size, as
\* long as no delete or append has failed.
FilesBounded ==
    (~(\E t \in Users : Flushing(t)) /\ happened \subseteq {"brim"})
        => /\ Cardinality({d \in Days : logs[d] # <<>>}) <= MaxLogs
           /\ compute_total_size(on_dir_scan) <= MaxSize

\* The promise of logfs.c: every line once, in order, in the file of its day,
\* within the limits on the number and the size of the files.
LogFaithful == LogTypeOK /\ LinesInOrder /\ RightDay /\ LinesKept /\ FilesBounded
=============================================================================
