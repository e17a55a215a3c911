------------------------------ MODULE UidStore ------------------------------
(***************************************************************************)
(* The store of idTags (src/uid.c): a table of cached entries indexed by a *)
(* hash, over files of fixed-size records in flash.  The authorization     *)
(* cache and the local list are two such stores.  The charger's thread is  *)
(* its only user, so a call is one step.                                   *)
(*                                                                         *)
(* A record is an id and what is known of it (status, parent id, expiry:   *)
(* one value here).  The firmware always passes a parent id to uid_update. *)
(* Any write to flash may fail, and so may any allocation.                 *)
(***************************************************************************)
EXTENDS Naturals, Sequences

CONSTANTS
    Ids,          \* the idTags presented
    hash_uid,     \* [Ids -> slots of the table]
    get_filename, \* [Ids -> files], from the first two bytes of the id
    MaxRecords    \* how long a file may grow

ASSUME UidAssumption ==
    /\ MaxRecords \in Nat
    /\ hash_uid = [i \in Ids |-> hash_uid[i]]
    /\ get_filename = [i \in Ids |-> get_filename[i]]
    /\ {"zero", "empty", "freed", "none"} \intersect Ids = {}

VARIABLES
    cache,    \* per slot: a record, Empty, or Freed: a pointer left to freed memory
    files,    \* per file: its records, Hole where one was removed
    truth,    \* per id: what the caller last stored, NoEntry when nothing
    doubt,    \* ids whose last write or removal failed in flash
    missed,   \* slots where, while in use, an id stored nowhere was looked up
    answer    \* what uid_status() has just said

uidVars == <<cache, files, truth, doubt, missed, answer>>

NoEntry == "NO_ENTRY"
Statuses == {"ACCEPTED", "BLOCKED"}
Record(i, v) == [id |-> i, val |-> v]
UidRecords == {Record(i, v) : i \in Ids, v \in Statuses}
Hole == [id |-> "zero", val |-> "UNKNOWN"]
Empty == [id |-> "empty", val |-> "empty"]
Freed == [id |-> "freed", val |-> "freed"]
Silent == [id |-> "none", val |-> NoEntry, starved |-> FALSE]

Slots == {hash_uid[i] : i \in Ids}
Files == {get_filename[i] : i \in Ids}

\* read_entry_from_file(): the first record of the id's file that holds it.
Places(i) == {n \in 1..Len(files[get_filename[i]]) : files[get_filename[i]][n].id = i}
Stored(i) == Places(i) # {}
Place(i) == CHOOSE n \in Places(i) : \A m \in Places(i) : n <= m
read_entry_from_file(i) == files[get_filename[i]][Place(i)]

\* save_entry_into_file(): over the id's record, or at the end of the file:
\* a hole is never used again.
save_entry_into_file(r) ==
    IF Stored(r.id) THEN [files EXCEPT ![get_filename[r.id]][Place(r.id)] = r]
    ELSE [files EXCEPT ![get_filename[r.id]] = Append(@, r)]

Fits(i) == Stored(i) \/ Len(files[get_filename[i]]) < MaxRecords

\* What reading a slot's entry gives: freed memory may hold anything.
Contents(s) == IF cache[s] = Freed THEN UidRecords \union {Hole} ELSE {cache[s]}

Says(i, v) == answer' = [id |-> i, val |-> v, starved |-> FALSE]

\* uid_status(): the slot's entry when it is the id's; otherwise the record
\* is read into that entry, or into a new one.  An id that is not found frees
\* the entry, and the slot of another id keeps its pointer.
StatusHit(i) ==
    \E r \in Contents(hash_uid[i]) :
        /\ r.id = i
        /\ Says(i, r.val)
        /\ UNCHANGED <<cache, missed>>

StatusFound(i) ==
    /\ \E r \in Contents(hash_uid[i]) : r.id # i
    /\ Stored(i)
    /\ cache' = [cache EXCEPT ![hash_uid[i]] =
                    IF @ = Freed THEN Freed ELSE read_entry_from_file(i)]
    /\ Says(i, read_entry_from_file(i).val)
    /\ UNCHANGED missed

StatusNotFound(i) ==
    /\ \E r \in Contents(hash_uid[i]) : r.id # i
    /\ ~Stored(i)
    /\ cache' = [cache EXCEPT ![hash_uid[i]] = IF @ = Empty THEN Empty ELSE Freed]
    /\ missed' = IF cache[hash_uid[i]] = Empty THEN missed
                 ELSE missed \union {hash_uid[i]}
    /\ Says(i, NoEntry)

StatusStarved(i) ==
    /\ cache[hash_uid[i]] = Empty
    /\ answer' = [id |-> i, val |-> NoEntry, starved |-> TRUE]
    /\ UNCHANGED <<cache, missed>>

uid_status(i) ==
    /\ \/ StatusHit(i) \/ StatusFound(i) \/ StatusNotFound(i) \/ StatusStarved(i)
    /\ UNCHANGED <<files, truth, doubt>>

\* uid_update(): the slot's entry, whoever's it was, becomes the id's, and is
\* saved; the cache keeps it when the save fails.  The update callback is not
\* registered by the firmware.
UpdateSaved(i, v) ==
    /\ Fits(i)
    /\ files' = save_entry_into_file(Record(i, v))
    /\ doubt' = doubt \ {i}

UpdateFails(i) ==
    /\ doubt' = doubt \union {i}
    /\ UNCHANGED files

\* Mutant: does not renew the cache.
uid_update_FlashOnly(i, v) ==
    /\ truth' = [truth EXCEPT ![i] = v]
    /\ UpdateSaved(i, v) \/ UpdateFails(i)
    /\ answer' = Silent
    /\ UNCHANGED <<cache, missed>>

uid_update(i, v) ==
    /\ cache' = [cache EXCEPT ![hash_uid[i]] = IF @ = Freed THEN Freed ELSE Record(i, v)]
    /\ truth' = [truth EXCEPT ![i] = v]
    /\ UpdateSaved(i, v) \/ UpdateFails(i)
    /\ answer' = Silent
    /\ UNCHANGED missed

\* remove_entry_from_file(): the record is zeroed where it is.
remove_entry_from_file(i) ==
    \/ /\ Stored(i)
       /\ files' = [files EXCEPT ![get_filename[i]][Place(i)] = Hole]
       /\ doubt' = doubt \ {i}
    \/ /\ Stored(i)
       /\ doubt' = doubt \union {i}
       /\ UNCHANGED files
    \/ /\ ~Stored(i)
       /\ doubt' = doubt \ {i}
       /\ UNCHANGED files

uid_delete(i) ==
    /\ \E r \in Contents(hash_uid[i]) :
        cache' = IF r.id = i THEN [cache EXCEPT ![hash_uid[i]] = Empty] ELSE cache
    /\ remove_entry_from_file(i)
    /\ truth' = [truth EXCEPT ![i] = NoEntry]
    /\ answer' = Silent
    /\ UNCHANGED missed

\* uid_clear(): every entry is freed and every file deleted; on_clear_dir()
\* goes on when one cannot be.
uid_clear ==
    \E kept \in SUBSET Files :
        /\ cache' = [s \in Slots |-> Empty]
        /\ files' = [f \in Files |-> IF f \in kept THEN files[f] ELSE <<>>]
        /\ truth' = [i \in Ids |-> NoEntry]
        /\ doubt' = {i \in Ids : get_filename[i] \in kept /\ Stored(i)}
        /\ missed' = {}
        /\ answer' = Silent

\* A restart creates the store again, with an empty table.
uid_store_create ==
    /\ cache' = [s \in Slots |-> Empty]
    /\ missed' = {}
    /\ answer' = Silent
    /\ UNCHANGED <<files, truth, doubt>>

UidInit ==
    /\ cache = [s \in Slots |-> Empty]
    /\ files = [f \in Files |-> <<>>]
    /\ truth = [i \in Ids |-> NoEntry]
    /\ doubt = {}
    /\ missed = {}
    /\ answer = Silent

UidNext ==
    \/ \E i \in Ids : uid_status(i)
    \/ \E i \in Ids, v \in Statuses : uid_update(i, v)
    \/ \E i \in Ids : uid_delete(i)
    \/ uid_clear
    \/ uid_store_create

UidSpec == UidInit /\ [][UidNext]_uidVars

-----------------------------------------------------------------------------
(* Properties *)

FilesTyped == files \in [Files -> Seq(UidRecords \union {Hole})]

\* The variables keep their types.
UidTypeOK ==
    /\ cache \in [Slots -> UidRecords \union {Empty, Freed}]
    /\ FilesTyped
    /\ truth \in [Ids -> Statuses \union {NoEntry}]

\* uid_status() says of an id what was last stored of it, through any number
\* of evictions, removals and restarts.  It may say otherwise in three cases:
\* the id's last write to flash failed, there was no memory for an entry, or
\* an id that is stored nowhere has been looked up at the slot while another
\* id held it: that frees an entry the slot still points to.
AnswersRight ==
    (/\ answer.id \in Ids
     /\ answer.id \notin doubt
     /\ ~answer.starved
     /\ hash_uid[answer.id] \notin missed)
        => answer.val = truth[answer.id]

\* A file never holds two records of one id: a removed one would otherwise
\* come back with what an older record says.
OneRecord ==
    \A i \in Ids : \A m, n \in Places(i) : m = n

\* A cached entry says what flash says of its id, so an eviction loses
\* nothing, unless the last write of that id failed.
CacheMatchesFlash ==
    \A i \in Ids :
        (cache[hash_uid[i]].id = i /\ i \notin doubt)
            => Stored(i) /\ read_entry_from_file(i) = cache[hash_uid[i]]

\* The promise of uid.c: its answers are right, and stay right after an
\* eviction or a restart because cache and files agree and no id is stored
\* twice.
StoreRight == UidTypeOK /\ AnswersRight /\ OneRecord /\ CacheMatchesFlash
=============================================================================
