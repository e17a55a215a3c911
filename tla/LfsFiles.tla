------------------------------ MODULE LfsFiles ------------------------------
(***************************************************************************)
(* The file system (fs/lfs.c) on top of littlefs, which is external.  Each *)
(* call of littlefs takes its lock, the calls one operation makes do not   *)
(* stay together: the threads' operations interleave between them, and the *)
(* power can fail there.  Two threads never write one file at a time, the  *)
(* users of the file system see to that (LogFs, UidStore).                 *)
(*                                                                         *)
(* disk    what is on the flash; Absent is no file;                        *)
(* calls   per thread, the operation under way: where it is, its file, its *)
(*         offset and size, what its handle holds (cells), whether the     *)
(*         handle is open, and the result of the last operation;           *)
(* hurt    the files an operation failed or was cut short on (history);    *)
(* walk    create_directory() on its way along a path, seen by itself.     *)
(*                                                                         *)
(* As littlefs has it, LFS_O_CREAT puts an empty file on the flash at      *)
(* once, while what is written reaches it when the handle is closed.       *)
(***************************************************************************)
EXTENDS Integers, Sequences, SequencesExt

CONSTANTS
    FsThreads,    \* the threads that use the file system
    Paths,      \* the files they use
    MaxLen,     \* bound: cells in a file
    MaxPath,    \* bound: characters of a path
    MaxIoErrors \* bound: calls of littlefs that fail

ASSUME LfsAssumption ==
    MaxLen \in Nat \ {0} /\ MaxPath \in Nat /\ MaxIoErrors \in Nat

VARIABLES disk, calls, hurt, ioErrors, walk

lfsVars == <<disk, calls, hurt, ioErrors, walk>>

Absent == <<"absent">>
CellValues == {"old", "new"}
Results == {"ok", "ENOENT", "EBADF", "seek", "io"}
Ops == {"write", "append", "read", "size"}

Quiet(result) == [pc |-> "idle", op |-> "read", file |-> CHOOSE f \in Paths : TRUE,
                  off |-> 0, len |-> 0, cells |-> <<>>, open |-> FALSE,
                  result |-> result]

Writing(t) == calls[t].pc # "idle" /\ calls[t].op \in {"write", "append"}

IoError == ioErrors > 0 /\ ioErrors' = ioErrors - 1
Works == UNCHANGED ioErrors

At(t, pc) == calls[t].pc = pc
Goes(t, pc) == calls' = [calls EXCEPT ![t].pc = pc]

(* The operation returns; its handle is closed or stays behind open. *)
Returns(t, result) ==
    calls' = [calls EXCEPT ![t] = [Quiet(result) EXCEPT !.open = calls[t].open]]

ReturnsClosed(t, result) == calls' = [calls EXCEPT ![t] = Quiet(result)]

Hurts(f) == hurt' = hurt \union {f}

-----------------------------------------------------------------------------
Begin(t) ==
    /\ At(t, "idle")
    /\ \E f \in Paths, op \in Ops, off \in 0..MaxLen, len \in 0..MaxLen :
         /\ op \in {"append", "size"} => off = 0
         /\ op = "size" => len = 0
         /\ op \in {"write", "append"} =>
              /\ ~\E u \in FsThreads : Writing(u) /\ calls[u].file = f
              /\ len > 0
              /\ off + len <= MaxLen
         /\ calls' = [calls EXCEPT ![t] =
              [pc |-> "open", op |-> op, file |-> f, off |-> off, len |-> len,
               cells |-> <<>>, open |-> FALSE, result |-> "ok"]]
    /\ UNCHANGED <<disk, hurt, ioErrors>>

do_delete(t) ==
    /\ At(t, "idle")
    /\ \E f \in Paths :
         /\ ~\E u \in FsThreads : calls[u].pc # "idle" /\ calls[u].file = f
         /\ \/ /\ disk[f] # Absent /\ disk' = [disk EXCEPT ![f] = Absent]
               /\ hurt' = hurt \ {f} /\ ReturnsClosed(t, "ok") /\ Works
            \/ /\ disk[f] = Absent /\ ReturnsClosed(t, "ENOENT")
               /\ Works /\ UNCHANGED <<disk, hurt>>
            \/ IoError /\ ReturnsClosed(t, "io") /\ UNCHANGED <<disk, hurt>>

Creates(op) == op \in {"write", "append"}

\* Mutant: opening for writing truncates.
Opened_Truncated(op, content) == IF op = "write" THEN <<>> ELSE content

(* What the handle holds at first: the flags of do_write() do not truncate. *)
Opened(op, content) == content

(* create_directory() and lfs_file_open(). *)
Open(t) ==
    LET c == calls[t] IN
    /\ At(t, "open")
    /\ \/ /\ disk[c.file] = Absent /\ ~Creates(c.op)
          /\ ReturnsClosed(t, "ENOENT") /\ UNCHANGED disk /\ Works
       \/ /\ disk[c.file] = Absent /\ Creates(c.op)
          /\ disk' = [disk EXCEPT ![c.file] = <<>>]
          /\ calls' = [calls EXCEPT ![t].pc = "seek", ![t].open = TRUE]
          /\ Works
       \/ /\ disk[c.file] # Absent
          /\ calls' = [calls EXCEPT ![t].pc = "seek", ![t].open = TRUE,
                                    ![t].cells = Opened(c.op, disk[c.file])]
          /\ UNCHANGED disk /\ Works
       \/ IoError /\ ReturnsClosed(t, "io") /\ UNCHANGED disk
    /\ UNCHANGED hurt

(* do_read() gives up on an empty file or an empty buffer, and both it and *)
(* write_core() on a failed lfs_file_seek(), without closing the handle.   *)
Seek(t) ==
    LET c == calls[t] IN
    /\ At(t, "seek")
    /\ \/ /\ c.op = "read" /\ (c.len = 0 \/ c.cells = <<>>)
          /\ Returns(t, "EBADF") /\ Works /\ UNCHANGED hurt
       \/ /\ ~(c.op = "read" /\ (c.len = 0 \/ c.cells = <<>>))
          /\ Goes(t, "transfer") /\ Works /\ UNCHANGED hurt
       \/ c.off > 0 /\ IoError /\ Returns(t, "seek") /\ Hurts(c.file)
    /\ UNCHANGED disk

Cell(c, i) ==
    LET from == IF c.op = "append" THEN Len(c.cells) ELSE c.off
    IN IF i \in (from + 1)..(from + c.len) THEN "new"
       ELSE IF i <= Len(c.cells) THEN c.cells[i] ELSE "old"

(* The handle after lfs_file_write(): a gap before the offset is filled. *)
HandleWritten(c) ==
    LET from == IF c.op = "append" THEN Len(c.cells) ELSE c.off
    IN [i \in 1..(IF from + c.len > Len(c.cells) THEN from + c.len ELSE Len(c.cells))
          |-> Cell(c, i)]

(* lfs_file_write(), lfs_file_read() or lfs_file_size(). *)
TransferError(t) ==
    /\ IoError
    /\ calls' = [calls EXCEPT ![t].pc = "close", ![t].result = "io"]
    /\ Hurts(calls[t].file)

Transfer(t) ==
    LET c == calls[t] IN
    /\ At(t, "transfer")
    /\ \/ /\ ~Creates(c.op) /\ Goes(t, "close") /\ Works /\ UNCHANGED hurt
       \/ /\ Creates(c.op) /\ Len(HandleWritten(c)) <= MaxLen
          /\ calls' = [calls EXCEPT ![t].pc = "close", ![t].cells = HandleWritten(c)]
          /\ Works /\ UNCHANGED hurt
       \/ c.op # "size" /\ TransferError(t)
    /\ UNCHANGED disk

(* lfs_file_close() puts on the flash what was written; of an error of the *)
(* write or of the close the result of write_core() keeps the sign.        *)
Close(t) ==
    LET c == calls[t] IN
    /\ At(t, "close")
    /\ \/ /\ disk' = IF Creates(c.op) /\ c.result = "ok"
                      THEN [disk EXCEPT ![c.file] = c.cells] ELSE disk
          /\ ReturnsClosed(t, c.result)
          /\ Works /\ UNCHANGED hurt
       \/ /\ Creates(c.op) /\ IoError
          /\ ReturnsClosed(t, "io")
          /\ Hurts(c.file) /\ UNCHANGED disk

(* The power fails.  do_mount() formats a flash it cannot mount, for       *)
(* whatever reason.                                                        *)
PowerLoss ==
    /\ \/ Works /\ UNCHANGED disk
       \/ IoError /\ disk' = [f \in Paths |-> Absent]
    /\ calls' = [t \in FsThreads |-> Quiet("ok")]
    /\ hurt' = hurt \union {calls[t].file : t \in {u \in FsThreads : Writing(u)}}

-----------------------------------------------------------------------------
(* create_directory(): a path is the sequence of its characters, all names *)
(* made of one letter, without the slashes it begins with.                 *)

PathSet == {p \in BoundedSeq({"/", "a"}, MaxPath) : p = <<>> \/ p[1] # "/"}

(* littlefs takes slashes in a row for one and ignores them at the end. *)
Norm(p) ==
    FlattenSeq([i \in DOMAIN p |->
        IF p[i] = "/" /\ (i = Len(p) \/ p[i + 1] = "/") THEN <<>> ELSE <<p[i]>>])

Slashes(p, i) == {k \in i..(Len(p) - 1) : p[k + 1] = "/"}

(* The directories above a file: what create_directory() is for. *)
Parents(p) == {Norm(SubSeq(p, 1, k)) : k \in Slashes(p, 0)}

find_dir_trailling_slash(p, i) ==
    IF Slashes(p, i) = {} THEN 0 ELSE Min(Slashes(p, i)) - i

(* lfs_mkdir() of a directory that exists is no error to the caller. *)
MkdirOk(dir) == \A d \in Parents(dir) : d \in walk.made

WalkStep ==
    LET slash == find_dir_trailling_slash(walk.path, walk.i)
        dir == Norm(SubSeq(walk.path, 1, walk.off + slash))
    IN IF slash = 0 THEN walk' = [walk EXCEPT !.i = @ + 1]
       ELSE IF ~MkdirOk(dir) THEN walk' = [walk EXCEPT !.pc = "failed"]
       ELSE walk' = [walk EXCEPT !.i = @ + slash + 1, !.off = @ + slash + 1,
                                 !.made = @ \union {dir}]

create_directory ==
    /\ walk.pc = "loop"
    /\ IF walk.i >= Len(walk.path) THEN walk' = [walk EXCEPT !.pc = "done"]
       ELSE WalkStep
    /\ UNCHANGED <<disk, calls, hurt, ioErrors>>

-----------------------------------------------------------------------------
WalkInit == walk \in [path : PathSet, i : {0}, off : {0}, made : {{}}, pc : {"loop"}]

LfsInit ==
    /\ disk = [f \in Paths |-> Absent]
    /\ calls = [t \in FsThreads |-> Quiet("ok")]
    /\ hurt = {}
    /\ ioErrors = MaxIoErrors
    /\ WalkInit

FilesNext ==
    /\ UNCHANGED walk
    /\ \/ \E t \in FsThreads :
            Begin(t) \/ do_delete(t) \/ Open(t) \/ Seek(t) \/ Transfer(t) \/ Close(t)
       \/ PowerLoss

LfsNext == FilesNext \/ create_directory

LfsSpec == LfsInit /\ [][LfsNext]_lfsVars

FileContents == {Absent} \union BoundedSeq(CellValues, MaxLen)

(* The variables keep their types. *)
LfsTypeOK ==
    /\ disk \in [Paths -> FileContents]
    /\ calls \in [FsThreads ->
                    [pc : {"idle", "open", "seek", "transfer", "close"}, op : Ops,
                     file : Paths, off : 0..MaxLen, len : 0..MaxLen,
                     cells : BoundedSeq(CellValues, MaxLen), open : BOOLEAN,
                     result : Results]]
    /\ hurt \subseteq Paths
    /\ ioErrors \in 0..MaxIoErrors
    /\ walk.path \in PathSet /\ walk.made \subseteq PathSet
    /\ walk.i \in 0..(MaxPath + 1) /\ walk.off \in 0..(MaxPath + 1)
    /\ walk.pc \in {"loop", "done", "failed"}

(* An operation that has returned leaves its file open only where it gives *)
(* up after the open: a read of an empty file or into an empty buffer, and *)
(* a seek that failed.  (The handle is on its stack, and littlefs goes on  *)
(* using it.)                                                              *)
HandlesClosed ==
    \A t \in FsThreads : calls[t].pc = "idle" /\ calls[t].open =>
        calls[t].result \in {"EBADF", "seek"}

(* No file is empty, the reading of which leaves its handle open, unless   *)
(* a write is under way or one failed or was cut short.                    *)
EmptyHasCause ==
    \A f \in Paths : disk[f] = <<>> =>
        f \in hurt \/ \E t \in FsThreads : Writing(t) /\ calls[t].file = f

(* What an operation does to a file that is there goes for the cells it    *)
(* writes: the others keep their contents, whatever fails and when, except *)
(* when the file is deleted or the flash formatted.                        *)
OthersKept ==
    [][\A f \in Paths : disk[f] # Absent /\ disk'[f] # Absent =>
        \A i \in DOMAIN disk[f] :
            \/ i \in DOMAIN disk'[f] /\ disk'[f][i] = disk[f][i]
            \/ \E t \in FsThreads :
                 /\ calls[t].file = f /\ calls[t].op = "write"
                 /\ i \in (calls[t].off + 1)..(calls[t].off + calls[t].len)]_lfsVars

Doubled(p) == \E k \in 1..(Len(p) - 1) : p[k] = "/" /\ p[k + 1] = "/"

(* create_directory() makes every directory above a file, and nothing but  *)
(* them, and each after the one above it, unless the path has two slashes  *)
(* in a row.                                                               *)
DirectoriesMade ==
    walk.pc # "loop" /\ ~Doubled(walk.path) =>
        walk.pc = "done" /\ walk.made = Parents(walk.path)

\* What the callers of lfs.c rely on: a call leaves no handle open and no file
\* empty or changed where it was not writing, and makes the directories of its
\* path, but for the cases named above.
FilesKept ==
    /\ [](LfsTypeOK /\ HandlesClosed /\ EmptyHasCause /\ DirectoriesMade)
    /\ OthersKept
=============================================================================
