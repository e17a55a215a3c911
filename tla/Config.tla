------------------------------- MODULE Config -------------------------------
(***************************************************************************)
(* The configuration store: src/config/config.c over a key-value store in  *)
(* flash.  The basic configuration is one record, kept in RAM (mgr.basic)  *)
(* with a dirty flag, written as a whole with a CRC; the custom entries    *)
(* (certificates, calibration) are written one by one.                     *)
(*                                                                         *)
(* Two threads use it and nothing locks it: the charger's thread saves its *)
(* checkpoint with config_set_and_save() (src/app.c), the command line     *)
(* sets, resets and saves (src/cli/cmd_config.c).  Power may fail at any   *)
(* step; a write may fail or, on the host, be dropped with a count of 0;   *)
(* a stored record may decay, in its data or in its version field.         *)
(*                                                                         *)
(* The keys are three that differ in how they behave: device.name (RW, no  *)
(* default, set on the command line), ocpp.checkpoint (RW, no default, set *)
(* by the charger) and ocpp.vendor (RFW, with a default).                  *)
(***************************************************************************)
EXTENDS Naturals, FiniteSets

CONSTANT MaxDecays    \* how many times flash decays or fails to be read

VARIABLES
    mgr,       \* mgr.basic: the record in RAM, its dirty flag
    flash,     \* what survives a power failure
    at,        \* where each thread is in config.c
    own,       \* the charger's own checkpoint, and what the last save returned
    causes,    \* what has happened since the last boot that may part RAM and flash
    decays

cfgVars == <<mgr, flash, at, own, causes, decays>>

Threads == {"charger", "cli"}
Keys == {"device.name", "ocpp.checkpoint", "ocpp.vendor"}
Versions == {"zero", "current", "newer"}
Zero == "0"
Garbage == "garbage"

Permission == [k \in Keys |-> IF k = "ocpp.vendor" THEN "RFW" ELSE "RW"]

\* config_set_default(): the value of the keys that have a handler; the
\* others are zeroed.
config_set_default(k) == IF k = "ocpp.vendor" THEN "net.pazzk" ELSE Zero

\* What each key may hold: what the command line or the charger sets, its
\* default, and what decay leaves (only device.name decays here).
Values(k) ==
    CASE k = "device.name" -> {Zero, "evse", Garbage}
      [] k = "ocpp.checkpoint" -> {Zero, "transaction"}
      [] OTHER -> {Zero, "net.pazzk"}

\* compute_crc() is taken to tell any two contents apart.
NoCrc == [version |-> "zero", data |-> [k \in Keys |-> Garbage]]
compute_crc(r) == [version |-> r.version, data |-> r.data]

Zeroed == [version |-> "zero", data |-> [k \in Keys |-> Zero], crc |-> NoCrc]

\* every entry with permission RFW or RW is set to its default or zeroed;
\* version and crc (R) are not in data, and crc keeps what it was.
apply_defaults(r) ==
    [r EXCEPT !.data = [k \in Keys |-> config_set_default(k)],
              !.version = "current"]

-----------------------------------------------------------------------------
(* Booting *)

\* A record of another version is replaced by the defaults: CONFIG_VERSION is
\* 0.0.1, so an older one is below 0.0.1.
Migrates(r) == r.version # "current"

migrate_config(r) == IF Migrates(r) THEN apply_defaults(r) ELSE r

Sealed(r) == [r EXCEPT !.crc = compute_crc(r)]
CrcHolds(r) == r.crc = compute_crc(r)

\* What kvstore_read() leaves in the zeroed record: the stored one, or
\* nothing, when it fails (result < 0) or, on the host, there is no file (0).
ReadInto(result) ==
    IF result = "read" THEN flash.basic
    ELSE IF result = "failed" THEN apply_defaults(Zeroed)
    ELSE Zeroed

ReadResults ==
    {r \in {"read", "failed", "missing"} :
        /\ (r = "read") => flash.stored
        /\ (r = "missing") => ~flash.stored
        /\ (r = "failed") => decays < MaxDecays}

\* load_config() after the read: migrated (and then saved, with a new CRC),
\* or checked against its CRC.  A CRC that does not match marks the record
\* dirty only when the read returned 0: a byte count is not 0, so the
\* defaults stay in RAM and flash keeps the record that decayed.
Checked(r) == IF CrcHolds(r) THEN r ELSE apply_defaults(r)
Loaded(r) == IF Migrates(r) THEN Sealed(migrate_config(r)) ELSE Checked(r)

\* load_config() calls save_basic_config() for a record it migrated.
SavedAtBoot(r) == Migrates(r)

WriteResults(r) == IF SavedAtBoot(r) THEN {"ok", "error", "zero"} ELSE {"none"}

\* config_init() with one result of the read and one of the migration's save:
\* a fresh manager and the load.  The charger then reads its checkpoint.
Boots(result, r, written) ==
    /\ mgr' = [basic |-> Loaded(r), dirty |-> written = "error"]
    /\ flash' = IF written = "ok"
                THEN [flash EXCEPT !.basic = Loaded(r), !.stored = TRUE]
                ELSE flash
    /\ own' = [chk |-> Loaded(r).data["ocpp.checkpoint"], saved |-> FALSE]
    /\ causes' = (IF result = "failed" THEN {"unread"} ELSE {})
                 \union (IF written = "zero" THEN {"zero"} ELSE {})
                 \union (IF written # "ok" /\ (Migrates(r) \/ ~CrcHolds(r))
                         THEN {"refused"} ELSE {})
    /\ decays' = IF result = "failed" THEN decays + 1 ELSE decays
    /\ at' = [t \in Threads |-> "idle"]

config_init ==
    \E result \in ReadResults : \E written \in WriteResults(ReadInto(result)) :
        Boots(result, ReadInto(result), written)

\* Power fails: RAM is lost and the next step is config_init().
PowerFails ==
    /\ at' = [t \in Threads |-> "off"]
    /\ mgr' = [basic |-> Zeroed, dirty |-> FALSE]
    /\ own' = [chk |-> Zero, saved |-> FALSE]
    /\ causes' = {}
    /\ UNCHANGED <<flash, decays>>

\* The stored record decays while the charger is off.
Decay ==
    /\ at["cli"] = "off"
    /\ decays < MaxDecays
    /\ decays' = decays + 1
    /\ flash.stored
    /\ \/ flash' = [flash EXCEPT !.basic.data["device.name"] = Garbage]
       \/ \E v \in {"zero", "newer"} :
            flash' = [flash EXCEPT !.basic.version = v]
    /\ UNCHANGED <<mgr, at, own, causes>>

-----------------------------------------------------------------------------
(* Setting and saving.  A thread in "set" has copied a value and not yet   *)
(* marked the record dirty; in "save" it is about to look at the flag; in  *)
(* "seal" the CRC is in the record; in "clear" the record is written.      *)

Saving(t) == at[t] \in {"seal", "clear"}
Raced(t) == \E u \in Threads \ {t} : Saving(u)
Going(t, pc) == at' = [at EXCEPT ![t] = pc]

\* set_config(): refused for a key below RW; nothing to do when the bytes are
\* the same; then the copy.  next is where the caller goes on.
set_config(t, k, v, next) ==
    /\ Permission[k] = "RW"
    /\ IF mgr.basic.data[k] = v
       THEN Going(t, next) /\ UNCHANGED <<mgr, causes>>
       ELSE /\ mgr' = [mgr EXCEPT !.basic.data[k] = v]
            /\ causes' = IF Raced(t) THEN causes \union {"race"} ELSE causes
            /\ Going(t, IF next = "save" THEN "set+save" ELSE "set")

mark_dirty(t) ==
    /\ at[t] \in {"set", "set+save"}
    /\ mgr' = [mgr EXCEPT !.dirty = TRUE]
    /\ Going(t, IF at[t] = "set" THEN "idle" ELSE "save")
    /\ UNCHANGED <<flash, own, causes, decays>>

\* The charger keeps whether config_set_and_save() returned 0: on_metering_save()
\* looks at it, the checkpoint's callers do not.
Returned(t, ok) == own' = IF t = "charger" THEN [own EXCEPT !.saved = ok] ELSE own

\* save_basic_config(): nothing to do when the record is clean; the CRC goes
\* into the shared record itself.
SaveBegin(t) ==
    /\ at[t] = "save"
    /\ IF mgr.dirty
       THEN /\ mgr' = [mgr EXCEPT !.basic = Sealed(mgr.basic)]
            /\ Going(t, "seal")
            /\ UNCHANGED own
       ELSE Going(t, "idle") /\ Returned(t, TRUE) /\ UNCHANGED mgr
    /\ UNCHANGED <<flash, causes, decays>>

\* Mutant: clears the dirty flag though the write failed.
SaveWrite_ClearsOnError(t) ==
    /\ at[t] = "seal"
    /\ \/ /\ flash' = [flash EXCEPT !.basic = mgr.basic, !.stored = TRUE]
          /\ Going(t, "clear")
          /\ UNCHANGED <<mgr, own, causes>>
       \/ /\ Going(t, "idle")
          /\ mgr' = [mgr EXCEPT !.dirty = FALSE]
          /\ Returned(t, FALSE)
          /\ UNCHANGED <<flash, causes>>
    /\ UNCHANGED decays

\* kvstore_write(): the record as it is now; only a negative result is a
\* failure, so a write the host dropped with 0 counts as done.
SaveWrite(t) ==
    /\ at[t] = "seal"
    /\ \/ /\ flash' = [flash EXCEPT !.basic = mgr.basic, !.stored = TRUE]
          /\ Going(t, "clear")
          /\ UNCHANGED <<own, causes>>
       \/ /\ causes' = causes \union {"zero"}
          /\ Going(t, "clear")
          /\ UNCHANGED <<flash, own>>
       \/ /\ Going(t, "idle")
          /\ Returned(t, FALSE)
          /\ UNCHANGED <<flash, causes>>
    /\ UNCHANGED <<mgr, decays>>

\* clear_dirty(), then the save callback, which only logs.
SaveClear(t) ==
    /\ at[t] = "clear"
    /\ mgr' = [mgr EXCEPT !.dirty = FALSE]
    /\ Going(t, "idle")
    /\ Returned(t, TRUE)
    /\ UNCHANGED <<flash, causes, decays>>

\* on_connector_event() and on_charger_event() of src/app.c: the checkpoint
\* changed, so it is set and saved.
config_set_and_save ==
    \E v \in Values("ocpp.checkpoint") :
        /\ at["charger"] = "idle"
        /\ own' = [chk |-> v, saved |-> FALSE]
        /\ set_config("charger", "ocpp.checkpoint", v, "save")
        /\ UNCHANGED <<flash, decays>>

config_set ==
    \E k \in Keys, v \in {Zero, "evse"} :
        /\ v \in Values(k) /\ k # "ocpp.checkpoint"
        /\ at["cli"] = "idle"
        /\ set_config("cli", k, v, "idle")
        /\ UNCHANGED <<flash, own, decays>>

config_save ==
    /\ at["cli"] = "idle"
    /\ Going("cli", "save")
    /\ UNCHANGED <<mgr, flash, own, causes, decays>>

\* config_reset(NULL): the defaults in RAM, the custom entries cleared in
\* flash at once; the record is marked dirty and waits for a save.
config_reset ==
    /\ at["cli"] = "idle"
    /\ mgr' = [mgr EXCEPT !.basic = apply_defaults(mgr.basic)]
    /\ flash' = [flash EXCEPT !.custom = FALSE]
    /\ causes' = causes \union (IF Raced("cli") THEN {"race", "reset"} ELSE {"reset"})
    /\ Going("cli", "set")
    /\ UNCHANGED <<own, decays>>

\* write_custom_config(), as `config set x509.ca' does it: straight to flash.
write_custom_config ==
    /\ at["cli"] = "idle"
    /\ flash' = [flash EXCEPT !.custom = TRUE]
    /\ UNCHANGED <<mgr, at, own, causes, decays>>

-----------------------------------------------------------------------------
CfgInit ==
    /\ flash = [basic |-> Zeroed, stored |-> FALSE, custom |-> FALSE]
    /\ mgr = [basic |-> Zeroed, dirty |-> FALSE]
    /\ at = [t \in Threads |-> "off"]
    /\ own = [chk |-> Zero, saved |-> FALSE]
    /\ causes = {}
    /\ decays = 0

Off == at["cli"] = "off"

CfgNext ==
    \/ Off /\ config_init
    \/ Decay
    \/ ~Off /\ PowerFails
    \/ \E t \in Threads : mark_dirty(t) \/ SaveBegin(t) \/ SaveWrite(t) \/ SaveClear(t)
    \/ config_set_and_save
    \/ config_set
    \/ config_save
    \/ config_reset
    \/ write_custom_config

CfgSpec == CfgInit /\ [][CfgNext]_cfgVars

-----------------------------------------------------------------------------
(* Properties *)

Records == [version : Versions, data : [Keys -> UNION {Values(k) : k \in Keys}],
            crc : [version : Versions, data : [Keys -> UNION {Values(k) : k \in Keys}]]]

Datum == UNION {Values(k) : k \in Keys}

Pcs == {"off", "idle", "set", "set+save", "save", "seal", "clear"}

Causes == {"unread", "zero", "race", "reset", "refused"}

\* The variables keep their types.
CfgTypeOK ==
    /\ mgr \in [basic : Records, dirty : BOOLEAN]
    /\ flash \in [basic : Records, stored : BOOLEAN, custom : BOOLEAN]
    /\ at \in [Threads -> Pcs]
    /\ own \in [chk : Datum, saved : BOOLEAN]
    /\ causes \subseteq Causes

\* Decayed data never reaches the running charger, and is never stored again
\* under a CRC that matches: neither by the migration, which runs before the
\* CRC is looked at and seals what it has, nor by a later save.
DecayNeverTrusted ==
    /\ ~Off => mgr.basic.data["device.name"] # Garbage
    /\ flash.basic.data["device.name"] = Garbage => ~CrcHolds(flash.basic)

\* A clean record with no thread inside config.c is the one in flash, unless
\* since the boot a change was copied while the other thread was saving (its
\* clear_dirty() then hides the change), a write was dropped with a result of
\* 0, or the record could not be read or failed its CRC at the boot.
CleanIsStored ==
    (/\ \A t \in Threads : at[t] = "idle"
     /\ ~mgr.dirty
     /\ causes \subseteq {"reset"})
        => flash.stored /\ flash.basic.data = mgr.basic.data

\* When config_set_and_save() has returned 0 for the checkpoint, a charger
\* that loses its power now comes back with it.  The ways it does not: a race
\* with the command line, a dropped write, a `config reset all' since the
\* boot (which forgets the transaction the charger still holds), and a boot
\* whose record was unreadable or failed its CRC.
CheckpointSurvives ==
    (at["charger"] = "idle" /\ own.saved /\ causes = {})
        => Loaded(flash.basic).data["ocpp.checkpoint"] = own.chk

\* Two threads saving at once store a record whose CRC does not match only
\* when one changed it under the other: the stored CRC is otherwise good
\* while the charger runs, if it was good when it booted.
StoredCrcHolds ==
    (~Off /\ flash.stored /\ causes \intersect {"race", "refused", "unread", "zero"} = {})
        => CrcHolds(flash.basic)

\* A boot overwrites the stored record only to migrate one whose version is
\* not this build's: a failed read or a CRC that does not match leaves it
\* there for the next boot.
BootKeepsRecord ==
    [][(Off /\ ~Off' /\ flash.basic # flash'.basic)
          => (~flash.stored \/ Migrates(flash.basic))]_cfgVars

\* The promise of config.c: what it says is stored is in flash and comes back
\* after a power failure, what comes back has been checked, and a boot does
\* not destroy a record it could not read.
RecordKept ==
    /\ [](CfgTypeOK /\ DecayNeverTrusted /\ CleanIsStored)
    /\ [](CheckpointSurvives /\ StoredCrcHolds)
    /\ BootKeepsRecord
=============================================================================
