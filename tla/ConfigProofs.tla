---------------------------- MODULE ConfigProofs ----------------------------
(***************************************************************************)
(* Proofs about Config: what a power failure at any step, a race of the    *)
(* two threads, a failed or dropped write and decayed flash can do to the  *)
(* configuration, for any number of decays.                                *)
(*                                                                         *)
(* The properties are not inductive.  CfgInv adds what a thread that is    *)
(* under way in save_basic_config() knows: until another thread changes    *)
(* the record, the CRC in it is good ("seal") and flash has its data       *)
(* ("clear").                                                              *)
(***************************************************************************)
EXTENDS Config, TLAPS

Content == [Keys -> Datum]

\* Both threads are off, or neither.
Together == (at["charger"] = "off") <=> (at["cli"] = "off")

\* A record whose CRC cannot be the one of decayed data.
Clean(r) ==
    /\ r.data["ocpp.vendor"] # Garbage
    /\ r.crc.data["ocpp.vendor"] = Garbage \/ r.crc.data["device.name"] # Garbage

NoDecay ==
    /\ Clean(mgr.basic) /\ Clean(flash.basic)
    /\ ~Off => mgr.basic.data["device.name"] # Garbage

\* Between the two halves of a save nobody else has touched the record.
SealGood ==
    "race" \notin causes =>
        \A t \in Threads : at[t] = "seal" => CrcHolds(mgr.basic)

WrittenAtClear ==
    "race" \notin causes /\ "zero" \notin causes =>
        \A t \in Threads : at[t] = "clear" => flash.basic.data = mgr.basic.data

BootedWell == {"unread", "zero", "refused"} \intersect causes = {}

Current ==
    ~Off =>
        /\ mgr.basic.version = "current"
        /\ BootedWell => flash.stored /\ flash.basic.version = "current"

Marking(t) == at[t] \in {"set", "set+save"}

InStep ==
    (~Off /\ causes \subseteq {"reset"} /\ ~mgr.dirty /\ \A t \in Threads : ~Marking(t))
        => flash.basic.data = mgr.basic.data

\* The charger's checkpoint: in RAM, in flash when the record is clean, and
\* in flash when the save has returned.
Checkpoint ==
    /\ ~Off /\ "reset" \notin causes => mgr.basic.data["ocpp.checkpoint"] = own.chk
    /\ ~Off /\ causes = {} /\ ~mgr.dirty /\ at["charger"] # "set+save"
          => flash.basic.data["ocpp.checkpoint"] = own.chk
    /\ own.saved => ~Off
    /\ own.saved /\ causes = {} => flash.basic.data["ocpp.checkpoint"] = own.chk

CfgInv ==
    /\ CfgTypeOK /\ Together /\ NoDecay /\ SealGood /\ StoredCrcHolds
    /\ WrittenAtClear /\ Current /\ InStep /\ Checkpoint

-----------------------------------------------------------------------------
(* What the operators of Config do to a record *)

\* The values a key may have are data of a record.
LEMMA DatumHas ==
    /\ {Zero, "evse", Garbage, "transaction", "net.pazzk"} \subseteq Datum
    /\ \A k \in Keys : Values(k) \subseteq Datum /\ config_set_default(k) \in Datum
<1>1. \A k \in Keys : Values(k) \subseteq Datum
  BY DEF Datum
<1>2. {"device.name", "ocpp.checkpoint", "ocpp.vendor"} = Keys
  BY DEF Keys
<1>3. /\ {Zero, "evse", Garbage} \subseteq Values("device.name")
      /\ {Zero, "transaction"} \subseteq Values("ocpp.checkpoint")
      /\ {Zero, "net.pazzk"} \subseteq Values("ocpp.vendor")
  BY DEF Values
<1>4. {Zero, "evse", Garbage, "transaction", "net.pazzk"} \subseteq Datum
  BY <1>1, <1>2, <1>3, Zenon
<1>5. \A k \in Keys : config_set_default(k) \in Datum
  BY <1>4 DEF config_set_default
<1> QED BY <1>1, <1>4, <1>5

\* The set of records, spelt out.
LEMMA RecordIs ==
    Records = [version : Versions, data : Content,
               crc : [version : Versions, data : Content]]
BY DEF Records, Content, Datum

\* Sealing a record computes the CRC over what it holds.
LEMMA SealedIs ==
    ASSUME NEW r \in Records
    PROVE  /\ Sealed(r) \in Records
           /\ Sealed(r).data = r.data /\ Sealed(r).version = r.version
           /\ Sealed(r).crc.data = r.data
           /\ CrcHolds(Sealed(r))
BY RecordIs DEF Sealed, CrcHolds, compute_crc

\* The defaults replace every key and leave the CRC to the save.
LEMMA DefaultsAre ==
    ASSUME NEW r \in Records
    PROVE  /\ apply_defaults(r) \in Records
           /\ apply_defaults(r).version = "current"
           /\ apply_defaults(r).crc = r.crc
           /\ apply_defaults(r).data = [k \in Keys |-> config_set_default(k)]
           /\ apply_defaults(r).data["device.name"] # Garbage
           /\ apply_defaults(r).data["ocpp.vendor"] # Garbage
           /\ apply_defaults(r).data["ocpp.checkpoint"] = Zero
<1>1. [k \in Keys |-> config_set_default(k)] \in Content
  BY DatumHas DEF Content
<1>2. /\ apply_defaults(r) \in Records
      /\ apply_defaults(r).version = "current"
      /\ apply_defaults(r).crc = r.crc
      /\ apply_defaults(r).data = [k \in Keys |-> config_set_default(k)]
  BY <1>1, RecordIs DEF apply_defaults, Versions
<1> QED BY <1>2 DEF Keys, config_set_default, Zero, Garbage

\* The record before the first boot: no version, no checkpoint.
LEMMA ZeroedIs ==
    /\ Zeroed \in Records /\ Zeroed.version = "zero" /\ Clean(Zeroed)
    /\ Zeroed.data["ocpp.checkpoint"] = Zero
<1>1. /\ [k \in Keys |-> Zero] \in Content /\ [k \in Keys |-> Garbage] \in Content
  BY DatumHas DEF Content
<1>2. /\ Zeroed.version = "zero" /\ Zeroed.data = [k \in Keys |-> Zero]
      /\ Zeroed.crc.data = [k \in Keys |-> Garbage]
  BY DEF Zeroed, NoCrc
<1>3. Zeroed \in Records
  BY <1>1, RecordIs DEF Zeroed, NoCrc, Versions
<1> QED BY <1>2, <1>3 DEF Clean, Keys, Zero, Garbage

\* What load_config() puts in RAM is current and never decayed.
LEMMA LoadedIs ==
    ASSUME NEW r \in Records, Clean(r)
    PROVE  /\ Loaded(r) \in Records /\ Loaded(r).version = "current"
           /\ Clean(Loaded(r))
           /\ Loaded(r).data["device.name"] # Garbage
           /\ Migrates(r) => CrcHolds(Loaded(r))
           /\ ~Migrates(r) /\ CrcHolds(r) => Loaded(r) = r
<1>1. CASE Migrates(r)
  <2> DEFINE d == apply_defaults(r)
  <2>1. Loaded(r) = Sealed(d)
    BY <1>1 DEF Loaded, migrate_config
  <2>2. /\ d \in Records /\ d.version = "current"
        /\ d.data["device.name"] # Garbage /\ d.data["ocpp.vendor"] # Garbage
        /\ d.data["ocpp.checkpoint"] = Zero
    BY DefaultsAre
  <2> HIDE DEF d
  <2>3. /\ Sealed(d) \in Records
        /\ Sealed(d).data = d.data /\ Sealed(d).version = d.version
        /\ Sealed(d).crc.data = d.data
        /\ CrcHolds(Sealed(d))
    BY <2>2, SealedIs
  <2> QED BY <1>1, <2>1, <2>2, <2>3 DEF Clean
<1>2. CASE ~Migrates(r) /\ CrcHolds(r)
  <2>1. Loaded(r) = r
    BY <1>2 DEF Loaded, Checked
  <2>2. r.version = "current"
    BY <1>2 DEF Migrates
  <2>3. r.crc.data = r.data
    BY <1>2, RecordIs DEF CrcHolds, compute_crc
  <2> QED BY <1>2, <2>1, <2>2, <2>3 DEF Clean
<1>3. CASE ~Migrates(r) /\ ~CrcHolds(r)
  <2>1. Loaded(r) = apply_defaults(r)
    BY <1>3 DEF Loaded, Checked
  <2>2. /\ apply_defaults(r) \in Records
        /\ apply_defaults(r).version = "current"
        /\ apply_defaults(r).crc = r.crc
        /\ apply_defaults(r).data["device.name"] # Garbage
        /\ apply_defaults(r).data["ocpp.vendor"] # Garbage
        /\ apply_defaults(r).data["ocpp.checkpoint"] = Zero
    BY DefaultsAre
  <2> QED BY <1>3, <2>1, <2>2 DEF Clean
<1> QED BY <1>1, <1>2, <1>3

-----------------------------------------------------------------------------
(* Each step keeps CfgInv *)

\* A boot: reading, migration, defaults and the write that may follow.
LEMMA BootKeeps == ASSUME CfgInv, Off, config_init PROVE CfgInv'
<1>1. PICK result \in ReadResults : \E written \in WriteResults(ReadInto(result)) :
        Boots(result, ReadInto(result), written)
  BY DEF config_init
<1> DEFINE r == ReadInto(result)
<1>2. PICK written \in WriteResults(r) : Boots(result, r, written)
  BY <1>1
<1>3. /\ result \in {"read", "failed", "missing"}
      /\ (result = "read") => flash.stored
  BY DEF ReadResults
<1>4. r \in Records /\ Clean(r)
  <2>1. CASE result = "read"
    BY <2>1 DEF ReadInto, CfgInv, CfgTypeOK, NoDecay
  <2>2. CASE result = "failed"
    BY <2>2, DefaultsAre, ZeroedIs DEF ReadInto, Clean
  <2>3. CASE result = "missing"
    BY <2>3, ZeroedIs DEF ReadInto
  <2> QED BY <1>3, <2>1, <2>2, <2>3
<1>5. /\ result = "read" => r = flash.basic
      /\ result = "missing" => Migrates(r)
  BY ZeroedIs DEF ReadInto, Migrates
<1>6. /\ written \in {"ok", "error", "zero", "none"}
      /\ written = "none" => ~Migrates(r)
      /\ written # "none" => Migrates(r)
  BY <1>2 DEF SavedAtBoot, WriteResults
<1> HIDE DEF r
<1>7. /\ Loaded(r) \in Records /\ Loaded(r).version = "current"
      /\ Clean(Loaded(r))
      /\ Loaded(r).data["device.name"] # Garbage
      /\ Migrates(r) => CrcHolds(Loaded(r))
      /\ ~Migrates(r) /\ CrcHolds(r) => Loaded(r) = r
  BY <1>4, LoadedIs
<1>8. /\ mgr'.basic = Loaded(r) /\ mgr'.dirty = (written = "error")
      /\ at' = [t \in Threads |-> "idle"]
      /\ own'.saved = FALSE /\ own'.chk = Loaded(r).data["ocpp.checkpoint"]
  BY <1>2 DEF Boots
<1>9. /\ written = "ok" => flash'.basic = Loaded(r) /\ flash'.stored = TRUE
      /\ written # "ok" => flash' = flash
  BY <1>2 DEF Boots, CfgInv, CfgTypeOK
<1>10. /\ result = "failed" => "unread" \in causes'
       /\ written = "zero" => "zero" \in causes'
       /\ written # "ok" /\ (Migrates(r) \/ ~CrcHolds(r)) => "refused" \in causes'
       /\ causes' \subseteq {"unread", "zero", "refused"}
  BY <1>2 DEF Boots
<1>11. CfgTypeOK'
  <2>1. mgr' \in [basic : Records, dirty : BOOLEAN]
    BY <1>2, <1>7 DEF Boots
  <2>2. flash' \in [basic : Records, stored : BOOLEAN, custom : BOOLEAN]
    BY <1>2, <1>7 DEF Boots, CfgInv, CfgTypeOK
  <2>3. own' \in [chk : Datum, saved : BOOLEAN]
    BY <1>2, <1>7, RecordIs DEF Boots, Content, Keys
  <2>4. at' \in [Threads -> Pcs]
    BY <1>2 DEF Boots, Pcs
  <2> QED BY <1>10, <2>1, <2>2, <2>3, <2>4 DEF CfgTypeOK, Causes
<1>12. Together' /\ ~Off' /\ \A t \in Threads : at'[t] = "idle"
  BY <1>8 DEF Together, Off, Threads
<1>13. NoDecay'
  BY <1>7, <1>8, <1>9 DEF NoDecay, CfgInv
<1>14. SealGood' /\ WrittenAtClear'
  BY <1>12 DEF SealGood, WrittenAtClear
<1>15. ASSUME BootedWell'
       PROVE  /\ flash'.stored /\ flash'.basic = Loaded(r)
              /\ CrcHolds(flash'.basic)
  <2>1. CASE written = "ok"
    BY <1>6, <1>7, <1>9, <2>1
  <2>2. CASE written # "ok"
    <3>1. ~Migrates(r) /\ CrcHolds(r) /\ result # "failed"
      BY <1>10, <1>15, <2>2 DEF BootedWell
    <3> QED BY <1>3, <1>5, <1>7, <1>9, <2>2, <3>1
  <2> QED BY <2>1, <2>2
<1>16. StoredCrcHolds' /\ Current' /\ InStep'
  BY <1>7, <1>8, <1>10, <1>15 DEF StoredCrcHolds, Current, InStep, BootedWell
<1>17. Checkpoint'
  BY <1>8, <1>15 DEF Checkpoint, BootedWell
<1> QED BY <1>11, <1>12, <1>13, <1>14, <1>16, <1>17 DEF CfgInv

\* Power fails between any two steps.
LEMMA PowerFailsKeeps == ASSUME CfgInv, PowerFails PROVE CfgInv'
<1>1. /\ at' = [t \in Threads |-> "off"]
      /\ mgr' = [basic |-> Zeroed, dirty |-> FALSE]
      /\ own' = [chk |-> Zero, saved |-> FALSE]
      /\ causes' = {} /\ flash' = flash
  BY DEF PowerFails
<1>2. CfgTypeOK'
  BY <1>1, ZeroedIs, DatumHas DEF CfgInv, CfgTypeOK, Pcs
<1>3. Off' /\ Together' /\ \A t \in Threads : at'[t] = "off"
  BY <1>1 DEF Off, Together, Threads
<1>4. NoDecay'
  BY <1>1, <1>3, ZeroedIs DEF NoDecay, CfgInv
<1>5. SealGood' /\ WrittenAtClear'
  BY <1>3 DEF SealGood, WrittenAtClear
<1>6. StoredCrcHolds' /\ Current' /\ InStep'
  BY <1>3 DEF StoredCrcHolds, Current, InStep
<1>7. Checkpoint'
  BY <1>1, <1>3 DEF Checkpoint
<1> QED BY <1>2, <1>3, <1>4, <1>5, <1>6, <1>7 DEF CfgInv

\* A cell of the flash loses its value.
LEMMA DecayKeeps == ASSUME CfgInv, Decay PROVE CfgInv'
<1>1. /\ Off /\ mgr' = mgr /\ at' = at /\ own' = own /\ causes' = causes
  BY DEF Decay, Off
<1>2. /\ flash' \in [basic : Records, stored : BOOLEAN, custom : BOOLEAN]
      /\ flash'.basic.crc = flash.basic.crc
      /\ flash'.basic.data["ocpp.vendor"] = flash.basic.data["ocpp.vendor"]
  <2>1. CASE flash' = [flash EXCEPT !.basic.data["device.name"] = Garbage]
    BY <2>1, RecordIs, DatumHas DEF CfgInv, CfgTypeOK, Content, Keys
  <2>2. CASE \E v \in {"zero", "newer"} : flash' = [flash EXCEPT !.basic.version = v]
    BY <2>2, RecordIs DEF CfgInv, CfgTypeOK, Versions
  <2> QED BY <2>1, <2>2 DEF Decay
<1>3. CfgTypeOK'
  BY <1>1, <1>2 DEF CfgInv, CfgTypeOK
<1>4. Off' /\ Together' /\ \A t \in Threads : at'[t] = "off"
  BY <1>1 DEF Off, Together, CfgInv, Threads
<1>5. NoDecay'
  BY <1>1, <1>2, <1>4 DEF NoDecay, Clean, CfgInv
<1>6. SealGood' /\ WrittenAtClear'
  BY <1>4 DEF SealGood, WrittenAtClear
<1>7. StoredCrcHolds' /\ Current' /\ InStep'
  BY <1>4 DEF StoredCrcHolds, Current, InStep
<1>8. Checkpoint'
  BY <1>1, <1>4 DEF Checkpoint, CfgInv
<1> QED BY <1>3, <1>4, <1>5, <1>6, <1>7, <1>8 DEF CfgInv

\* Marking the record dirty.
LEMMA MarkKeeps ==
    ASSUME CfgInv, NEW t \in Threads, mark_dirty(t) PROVE CfgInv'
<1>1. /\ at[t] \in {"set", "set+save"}
      /\ at' = [at EXCEPT ![t] = IF at[t] = "set" THEN "idle" ELSE "save"]
      /\ mgr' = [mgr EXCEPT !.dirty = TRUE]
      /\ flash' = flash /\ own' = own /\ causes' = causes
  BY DEF mark_dirty, Going
<1>2. mgr'.basic = mgr.basic /\ mgr'.dirty = TRUE
  BY <1>1 DEF CfgInv, CfgTypeOK
<1>3. CfgTypeOK'
  BY <1>1 DEF CfgInv, CfgTypeOK, Pcs
<1>4. Together' /\ Off' = Off
  BY <1>1 DEF CfgInv, CfgTypeOK, Together, Off, Threads
<1>5. \A u \in Threads : at'[u] \in {"seal", "clear"} => at'[u] = at[u]
  BY <1>1 DEF CfgInv, CfgTypeOK
<1>6. NoDecay' /\ StoredCrcHolds' /\ Current'
  BY <1>1, <1>2, <1>4 DEF CfgInv, NoDecay, StoredCrcHolds, Current, BootedWell
<1>7. SealGood' /\ WrittenAtClear'
  BY <1>1, <1>2, <1>5 DEF CfgInv, SealGood, WrittenAtClear
<1>8. InStep' /\ Checkpoint'
  BY <1>1, <1>2, <1>4 DEF CfgInv, InStep, Checkpoint
<1> QED BY <1>3, <1>4, <1>6, <1>7, <1>8 DEF CfgInv

\* The first half of a save.
LEMMA BeginKeeps ==
    ASSUME CfgInv, NEW t \in Threads, SaveBegin(t) PROVE CfgInv'
<1>1. at[t] = "save" /\ flash' = flash /\ causes' = causes
  BY DEF SaveBegin
<1>2. CASE mgr.dirty
  <2>1. /\ mgr' = [mgr EXCEPT !.basic = Sealed(mgr.basic)]
        /\ at' = [at EXCEPT ![t] = "seal"] /\ own' = own
    BY <1>2 DEF SaveBegin, Going
  <2>2. mgr.basic \in Records
    BY DEF CfgInv, CfgTypeOK
  <2>3. /\ mgr'.basic = Sealed(mgr.basic) /\ mgr'.dirty = mgr.dirty
        /\ mgr' \in [basic : Records, dirty : BOOLEAN]
    BY <2>1, <2>2, SealedIs DEF CfgInv, CfgTypeOK
  <2>4. /\ mgr'.basic.data = mgr.basic.data /\ mgr'.basic.version = mgr.basic.version
        /\ mgr'.basic.crc.data = mgr.basic.data /\ CrcHolds(mgr'.basic)
    BY <2>2, <2>3, SealedIs
  <2>5. CfgTypeOK'
    BY <1>1, <2>1, <2>3 DEF CfgInv, CfgTypeOK, Pcs
  <2>6. Together' /\ Off' = Off /\ ~Off
    BY <1>1, <2>1 DEF CfgInv, CfgTypeOK, Together, Off, Threads
  <2>7. NoDecay'
    BY <1>1, <2>4, <2>6 DEF CfgInv, NoDecay, Clean
  <2>8. SealGood'
    BY <2>4 DEF SealGood
  <2>9. WrittenAtClear'
    BY <1>1, <2>1, <2>4 DEF CfgInv, CfgTypeOK, WrittenAtClear
  <2>10. StoredCrcHolds' /\ Current'
    BY <1>1, <2>4, <2>6 DEF CfgInv, StoredCrcHolds, Current, BootedWell
  <2>11. InStep' /\ Checkpoint'
    BY <1>1, <1>2, <2>1, <2>3, <2>4, <2>6 DEF CfgInv, InStep, Checkpoint
  <2> QED BY <2>5, <2>6, <2>7, <2>8, <2>9, <2>10, <2>11 DEF CfgInv
<1>3. CASE ~mgr.dirty
  <2>1. /\ mgr' = mgr /\ at' = [at EXCEPT ![t] = "idle"]
        /\ own' = IF t = "charger" THEN [own EXCEPT !.saved = TRUE] ELSE own
    BY <1>3 DEF SaveBegin, Going, Returned
  <2>2. /\ own'.chk = own.chk /\ own'.saved \in BOOLEAN
        /\ own'.saved => own.saved \/ t = "charger"
        /\ own' \in [chk : Datum, saved : BOOLEAN]
    BY <2>1 DEF CfgInv, CfgTypeOK
  <2>3. CfgTypeOK'
    BY <1>1, <2>1, <2>2 DEF CfgInv, CfgTypeOK, Pcs
  <2>4. Together' /\ Off' = Off /\ ~Off
    BY <1>1, <2>1 DEF CfgInv, CfgTypeOK, Together, Off, Threads
  <2>5. \A u \in Threads : at'[u] \in {"seal", "clear"} => at'[u] = at[u]
    BY <2>1 DEF CfgInv, CfgTypeOK
  <2>6. NoDecay' /\ StoredCrcHolds' /\ Current'
    BY <1>1, <2>1, <2>4 DEF CfgInv, NoDecay, StoredCrcHolds, Current, BootedWell
  <2>7. SealGood' /\ WrittenAtClear'
    BY <1>1, <2>1, <2>5 DEF CfgInv, SealGood, WrittenAtClear
  <2>8. InStep'
    <3>1. (\A u \in Threads : ~Marking(u)') => \A u \in Threads : ~Marking(u)
      BY <1>1, <2>1 DEF Marking, CfgInv, CfgTypeOK
    <3> QED BY <1>1, <2>1, <2>4, <3>1 DEF CfgInv, InStep
  <2>9. Checkpoint'
    <3>1. at'["charger"] # "set+save" => at["charger"] # "set+save"
      BY <1>1, <2>1 DEF CfgInv, CfgTypeOK, Threads
    <3>2. t = "charger" /\ causes = {} => flash.basic.data["ocpp.checkpoint"] = own.chk
      BY <1>1, <1>3, <2>4 DEF CfgInv, Checkpoint
    <3> QED BY <1>1, <2>1, <2>2, <2>4, <3>1, <3>2 DEF CfgInv, Checkpoint
  <2> QED BY <2>3, <2>4, <2>6, <2>7, <2>8, <2>9 DEF CfgInv
<1> QED BY <1>2, <1>3

\* The write to flash of a save, good or not.
LEMMA WriteKeeps ==
    ASSUME CfgInv, NEW t \in Threads, SaveWrite(t) PROVE CfgInv'
<1>1. at[t] = "seal" /\ mgr' = mgr /\ ~Off
  BY DEF SaveWrite, CfgInv, Together, Off, Threads
<1>2. CASE /\ flash' = [flash EXCEPT !.basic = mgr.basic, !.stored = TRUE]
           /\ at' = [at EXCEPT ![t] = "clear"] /\ own' = own /\ causes' = causes
  <2>1. /\ flash'.basic = mgr.basic /\ flash'.stored = TRUE
        /\ flash' \in [basic : Records, stored : BOOLEAN, custom : BOOLEAN]
    BY <1>2 DEF CfgInv, CfgTypeOK
  <2>2. CfgTypeOK'
    BY <1>1, <1>2, <2>1 DEF CfgInv, CfgTypeOK, Pcs
  <2>3. Together' /\ Off' = Off
    BY <1>1, <1>2 DEF CfgInv, CfgTypeOK, Together, Off, Threads
  <2>4. NoDecay'
    BY <1>1, <2>1, <2>3 DEF CfgInv, NoDecay
  <2>5. SealGood'
    BY <1>1, <1>2 DEF CfgInv, CfgTypeOK, SealGood
  <2>6. StoredCrcHolds'
    BY <1>1, <1>2, <2>1 DEF CfgInv, SealGood, StoredCrcHolds
  <2>7. WrittenAtClear' /\ InStep'
    BY <1>1, <2>1 DEF WrittenAtClear, InStep
  <2>8. Current'
    BY <1>1, <2>1, <2>3 DEF CfgInv, Current
  <2>9. Checkpoint'
    BY <1>1, <1>2, <2>1, <2>3 DEF CfgInv, Checkpoint
  <2> QED BY <2>2, <2>3, <2>4, <2>5, <2>6, <2>7, <2>8, <2>9 DEF CfgInv
<1>3. CASE /\ causes' = causes \union {"zero"} /\ flash' = flash
           /\ at' = [at EXCEPT ![t] = "clear"] /\ own' = own
  <2>1. CfgTypeOK'
    BY <1>1, <1>3 DEF CfgInv, CfgTypeOK, Pcs, Causes
  <2>2. Together' /\ Off' = Off
    BY <1>1, <1>3 DEF CfgInv, CfgTypeOK, Together, Off, Threads
  <2>3. NoDecay'
    BY <1>1, <1>3, <2>2 DEF CfgInv, NoDecay
  <2>4. SealGood'
    BY <1>1, <1>3 DEF CfgInv, CfgTypeOK, SealGood
  <2>5. StoredCrcHolds' /\ WrittenAtClear' /\ InStep'
    BY <1>3 DEF StoredCrcHolds, WrittenAtClear, InStep
  <2>6. Current'
    BY <1>1, <1>3, <2>2 DEF CfgInv, Current, BootedWell
  <2>7. Checkpoint'
    BY <1>1, <1>3, <2>2 DEF CfgInv, Checkpoint
  <2> QED BY <2>1, <2>2, <2>3, <2>4, <2>5, <2>6, <2>7 DEF CfgInv
<1>4. CASE /\ at' = [at EXCEPT ![t] = "idle"] /\ flash' = flash /\ causes' = causes
           /\ own' = IF t = "charger" THEN [own EXCEPT !.saved = FALSE] ELSE own
  <2>1. /\ own'.chk = own.chk /\ (own'.saved => own.saved)
        /\ own' \in [chk : Datum, saved : BOOLEAN]
    BY <1>4 DEF CfgInv, CfgTypeOK
  <2>2. CfgTypeOK'
    BY <1>1, <1>4, <2>1 DEF CfgInv, CfgTypeOK, Pcs
  <2>3. Together' /\ Off' = Off
    BY <1>1, <1>4 DEF CfgInv, CfgTypeOK, Together, Off, Threads
  <2>4. NoDecay' /\ StoredCrcHolds' /\ Current'
    BY <1>1, <1>4, <2>3 DEF CfgInv, NoDecay, StoredCrcHolds, Current, BootedWell
  <2>5. SealGood' /\ WrittenAtClear'
    BY <1>1, <1>4 DEF CfgInv, CfgTypeOK, SealGood, WrittenAtClear
  <2>6. InStep'
    <3>1. (\A u \in Threads : ~Marking(u)') => \A u \in Threads : ~Marking(u)
      BY <1>1, <1>4 DEF Marking, CfgInv, CfgTypeOK
    <3> QED BY <1>1, <1>4, <2>3, <3>1 DEF CfgInv, InStep
  <2>7. Checkpoint'
    <3>1. at'["charger"] # "set+save" => at["charger"] # "set+save"
      BY <1>1, <1>4 DEF CfgInv, CfgTypeOK, Threads
    <3> QED BY <1>1, <1>4, <2>1, <2>3, <3>1 DEF CfgInv, Checkpoint
  <2> QED BY <2>2, <2>3, <2>4, <2>5, <2>6, <2>7 DEF CfgInv
<1> QED BY <1>2, <1>3, <1>4 DEF SaveWrite, Going, Returned

\* Clearing the dirty mark once the write is done.
LEMMA ClearKeeps ==
    ASSUME CfgInv, NEW t \in Threads, SaveClear(t) PROVE CfgInv'
<1>1. /\ at[t] = "clear" /\ mgr' = [mgr EXCEPT !.dirty = FALSE]
      /\ at' = [at EXCEPT ![t] = "idle"] /\ flash' = flash /\ causes' = causes
      /\ own' = IF t = "charger" THEN [own EXCEPT !.saved = TRUE] ELSE own
  BY DEF SaveClear, Going, Returned
<1>2. /\ mgr'.basic = mgr.basic /\ mgr'.dirty = FALSE
      /\ mgr' \in [basic : Records, dirty : BOOLEAN]
      /\ own'.chk = own.chk /\ own' \in [chk : Datum, saved : BOOLEAN]
  BY <1>1 DEF CfgInv, CfgTypeOK
<1>3. CfgTypeOK'
  BY <1>1, <1>2 DEF CfgInv, CfgTypeOK, Pcs
<1>4. Together' /\ Off' = Off /\ ~Off
  BY <1>1 DEF CfgInv, CfgTypeOK, Together, Off, Threads
<1>5. "race" \notin causes /\ "zero" \notin causes => flash.basic.data = mgr.basic.data
  BY <1>1 DEF CfgInv, WrittenAtClear
<1>6. NoDecay' /\ StoredCrcHolds' /\ Current'
  BY <1>1, <1>2, <1>4 DEF CfgInv, NoDecay, StoredCrcHolds, Current, BootedWell
<1>7. SealGood' /\ WrittenAtClear'
  BY <1>1, <1>2 DEF CfgInv, CfgTypeOK, SealGood, WrittenAtClear
<1>8. InStep'
  BY <1>1, <1>2, <1>5 DEF InStep
<1>9. Checkpoint'
  BY <1>1, <1>2, <1>4, <1>5 DEF CfgInv, Checkpoint
<1> QED BY <1>3, <1>4, <1>6, <1>7, <1>8, <1>9 DEF CfgInv

\* set_config() of either thread; the charger's also renews its checkpoint.
LEMMA SetKeeps ==
    ASSUME CfgInv, NEW t \in Threads, NEW k \in Keys, NEW v \in Datum, v # Garbage,
           NEW next, next = IF t = "charger" THEN "save" ELSE "idle",
           (t = "charger") <=> (k = "ocpp.checkpoint"),
           at[t] = "idle", set_config(t, k, v, next), flash' = flash,
           own' = IF t = "charger" THEN [chk |-> v, saved |-> FALSE] ELSE own
    PROVE  CfgInv'
<1> DEFINE same == mgr.basic.data[k] = v
<1>1. ~Off /\ Threads = {"charger", "cli"}
  BY DEF CfgInv, Together, Off, Threads
<1>2. /\ same => mgr' = mgr /\ causes' = causes /\ at' = [at EXCEPT ![t] = next]
      /\ ~same => /\ mgr' = [mgr EXCEPT !.basic.data[k] = v]
                  /\ causes' = IF Raced(t) THEN causes \union {"race"} ELSE causes
                  /\ at' = [at EXCEPT ![t] = IF next = "save" THEN "set+save" ELSE "set"]
  BY DEF set_config, Going
<1>3. /\ mgr'.basic.crc = mgr.basic.crc /\ mgr'.basic.version = mgr.basic.version
      /\ mgr'.dirty = mgr.dirty
      /\ mgr'.basic.data[k] = v
      /\ \A l \in Keys \ {k} : mgr'.basic.data[l] = mgr.basic.data[l]
      /\ mgr' \in [basic : Records, dirty : BOOLEAN]
  <2>1. CASE same
    BY <1>2, <2>1 DEF CfgInv, CfgTypeOK
  <2>2. CASE ~same
    BY <1>2, <2>2, RecordIs DEF CfgInv, CfgTypeOK, Content
  <2> QED BY <2>1, <2>2
<1>4. causes \subseteq causes' /\ causes' \subseteq causes \union {"race"}
  BY <1>2
<1>5. /\ at' \in [Threads -> Pcs] /\ at'[t] \notin {"off", "seal", "clear"}
      /\ \A u \in Threads \ {t} : at'[u] = at[u]
      /\ ~same => at'[t] \in {"set", "set+save"}
      /\ same => at'[t] \in {"idle", "save"}
  BY <1>2 DEF CfgInv, CfgTypeOK, Pcs
<1>6. /\ own' \in [chk : Datum, saved : BOOLEAN]
      /\ own'.chk = IF t = "charger" THEN v ELSE own.chk
      /\ own'.saved => own.saved /\ t # "charger"
  BY DEF CfgInv, CfgTypeOK
<1>7. ~same /\ (\E u \in Threads : at'[u] \in {"seal", "clear"}) => "race" \in causes'
  BY <1>2, <1>5 DEF Raced, Saving
<1>8. CfgTypeOK'
  BY <1>3, <1>4, <1>5, <1>6 DEF CfgInv, CfgTypeOK, Causes
<1>9. Together' /\ ~Off'
  BY <1>1, <1>5 DEF CfgInv, Together, Off
<1>10. NoDecay'
  <2>1. /\ mgr'.basic.data["device.name"] # Garbage
        /\ mgr'.basic.data["ocpp.vendor"] # Garbage
    BY <1>1, <1>3 DEF CfgInv, NoDecay, Clean, Keys
  <2> QED BY <1>3, <2>1 DEF CfgInv, NoDecay, Clean
<1>11. SealGood' /\ WrittenAtClear'
  <2>1. CASE same
    BY <1>2, <1>5, <2>1 DEF CfgInv, SealGood, WrittenAtClear
  <2>2. CASE ~same
    BY <1>7, <2>2 DEF SealGood, WrittenAtClear
  <2> QED BY <2>1, <2>2
<1>12. StoredCrcHolds' /\ Current'
  BY <1>1, <1>3, <1>4 DEF CfgInv, StoredCrcHolds, Current, BootedWell
<1>13. InStep'
  <2>1. CASE same
    <3>1. (\A u \in Threads : ~Marking(u)') => \A u \in Threads : ~Marking(u)
      BY <1>5 DEF Marking
    <3> QED BY <1>1, <1>2, <2>1, <3>1 DEF CfgInv, InStep
  <2>2. CASE ~same
    BY <1>5, <2>2 DEF InStep, Marking
  <2> QED BY <2>1, <2>2
<1>14. Checkpoint'
  <2>1. CASE t = "charger"
    <3>1. own'.chk = v /\ ~own'.saved /\ mgr'.basic.data["ocpp.checkpoint"] = v
      BY <1>3, <1>6, <2>1
    <3>2. ~same => at'["charger"] = "set+save"
      BY <1>2, <2>1 DEF CfgInv, CfgTypeOK
    <3>3. same => at["charger"] = "idle" /\ mgr' = mgr /\ causes' = causes
      BY <1>2, <2>1
    <3> QED BY <1>1, <2>1, <3>1, <3>2, <3>3 DEF CfgInv, Checkpoint
  <2>2. CASE t # "charger"
    <3>1. /\ own'.chk = own.chk /\ (own'.saved => own.saved)
          /\ at'["charger"] = at["charger"]
          /\ mgr'.basic.data["ocpp.checkpoint"] = mgr.basic.data["ocpp.checkpoint"]
      BY <1>1, <1>3, <1>5, <1>6, <2>2 DEF Keys
    <3> QED BY <1>1, <1>3, <1>4, <1>9, <3>1 DEF CfgInv, Checkpoint
  <2> QED BY <2>1, <2>2
<1> QED BY <1>8, <1>9, <1>10, <1>11, <1>12, <1>13, <1>14 DEF CfgInv

\* The charger stores its checkpoint.
LEMMA CheckpointSetKeeps == ASSUME CfgInv, config_set_and_save PROVE CfgInv'
<1>1. PICK v \in Values("ocpp.checkpoint") :
        /\ at["charger"] = "idle" /\ own' = [chk |-> v, saved |-> FALSE]
        /\ set_config("charger", "ocpp.checkpoint", v, "save")
        /\ flash' = flash
  BY DEF config_set_and_save
<1>2. v \in Datum /\ v # Garbage
  BY <1>1, DatumHas DEF Values, Keys, Zero, Garbage
<1>3. "charger" \in Threads /\ "ocpp.checkpoint" \in Keys
  BY DEF Threads, Keys
<1> QED BY <1>1, <1>2, <1>3, SetKeeps

\* A command sets a key.
LEMMA CommandSetKeeps == ASSUME CfgInv, config_set PROVE CfgInv'
<1>1. PICK k \in Keys, v \in {Zero, "evse"} :
        /\ k # "ocpp.checkpoint" /\ at["cli"] = "idle"
        /\ set_config("cli", k, v, "idle")
        /\ flash' = flash /\ own' = own
  BY DEF config_set
<1>2. v \in Datum /\ v # Garbage
  BY <1>1, DatumHas DEF Zero, Garbage
<1>3. "cli" \in Threads
  BY DEF Threads
<1> QED BY <1>1, <1>2, <1>3, SetKeeps

\* A command saves.
LEMMA CommandSaveKeeps == ASSUME CfgInv, config_save PROVE CfgInv'
<1>1. /\ at["cli"] = "idle" /\ at' = [at EXCEPT !["cli"] = "save"]
      /\ mgr' = mgr /\ flash' = flash /\ own' = own /\ causes' = causes
  BY DEF config_save, Going
<1>2. /\ at' \in [Threads -> Pcs] /\ at'["cli"] = "save"
      /\ at'["charger"] = at["charger"]
  BY <1>1 DEF CfgInv, CfgTypeOK, Pcs, Threads
<1>3. CfgTypeOK' /\ Together' /\ Off' = Off
  BY <1>1, <1>2 DEF CfgInv, CfgTypeOK, Together, Off
<1>4. NoDecay' /\ StoredCrcHolds' /\ Current'
  BY <1>1, <1>3 DEF CfgInv, NoDecay, StoredCrcHolds, Current, BootedWell
<1>5. SealGood' /\ WrittenAtClear'
  BY <1>1, <1>2 DEF CfgInv, SealGood, WrittenAtClear, Threads
<1>6. InStep'
  BY <1>1, <1>2, <1>3 DEF CfgInv, InStep, Marking, Threads
<1>7. Checkpoint'
  BY <1>1, <1>2, <1>3 DEF CfgInv, Checkpoint
<1> QED BY <1>3, <1>4, <1>5, <1>6, <1>7 DEF CfgInv

\* A reset to the defaults.
LEMMA ResetKeeps == ASSUME CfgInv, config_reset PROVE CfgInv'
<1>1. /\ at["cli"] = "idle" /\ at' = [at EXCEPT !["cli"] = "set"]
      /\ mgr' = [mgr EXCEPT !.basic = apply_defaults(mgr.basic)]
      /\ flash' = [flash EXCEPT !.custom = FALSE] /\ own' = own
      /\ causes' = causes \union (IF Raced("cli") THEN {"race", "reset"} ELSE {"reset"})
  BY DEF config_reset, Going
<1>2. /\ at' \in [Threads -> Pcs] /\ at'["cli"] = "set"
      /\ at'["charger"] = at["charger"]
  BY <1>1 DEF CfgInv, CfgTypeOK, Pcs, Threads
<1>3. /\ flash'.basic = flash.basic /\ flash'.stored = flash.stored
      /\ flash' \in [basic : Records, stored : BOOLEAN, custom : BOOLEAN]
  BY <1>1 DEF CfgInv, CfgTypeOK
<1>4. mgr.basic \in Records
  BY DEF CfgInv, CfgTypeOK
<1>5. mgr'.basic = apply_defaults(mgr.basic)
  BY <1>1 DEF CfgInv, CfgTypeOK
<1>6. /\ mgr' \in [basic : Records, dirty : BOOLEAN]
      /\ mgr'.basic.crc = mgr.basic.crc /\ mgr'.basic.version = "current"
      /\ mgr'.basic.data["device.name"] # Garbage
      /\ mgr'.basic.data["ocpp.vendor"] # Garbage
  BY <1>1, <1>4, <1>5, DefaultsAre DEF CfgInv, CfgTypeOK
<1>7. /\ causes' \subseteq Causes /\ causes \subseteq causes' /\ "reset" \in causes'
      /\ causes' \subseteq causes \union {"race", "reset"}
  BY <1>1 DEF CfgInv, CfgTypeOK, Causes
<1>8. at["charger"] \in {"seal", "clear"} => "race" \in causes'
  BY <1>1 DEF Raced, Saving, Threads
<1>9. CfgTypeOK' /\ Together' /\ ~Off /\ ~Off'
  BY <1>1, <1>2, <1>3, <1>6, <1>7 DEF CfgInv, CfgTypeOK, Together, Off
<1>10. NoDecay'
  BY <1>3, <1>6 DEF CfgInv, NoDecay, Clean
<1>11. SealGood' /\ WrittenAtClear'
  BY <1>2, <1>8 DEF SealGood, WrittenAtClear, Threads
<1>12. StoredCrcHolds' /\ Current'
  BY <1>3, <1>6, <1>7, <1>9 DEF CfgInv, StoredCrcHolds, Current, BootedWell
<1>13. InStep'
  BY <1>2 DEF InStep, Marking, Threads
<1>14. Checkpoint'
  BY <1>1, <1>7, <1>9 DEF Checkpoint
<1> QED BY <1>9, <1>10, <1>11, <1>12, <1>13, <1>14 DEF CfgInv

\* The custom part is written.
LEMMA CustomKeeps == ASSUME CfgInv, write_custom_config PROVE CfgInv'
<1>1. /\ flash' = [flash EXCEPT !.custom = TRUE]
      /\ mgr' = mgr /\ at' = at /\ own' = own /\ causes' = causes
  BY DEF write_custom_config
<1>2. /\ flash'.basic = flash.basic /\ flash'.stored = flash.stored
      /\ flash' \in [basic : Records, stored : BOOLEAN, custom : BOOLEAN]
  BY <1>1 DEF CfgInv, CfgTypeOK
<1>3. CfgTypeOK' /\ Together' /\ Off' = Off
  BY <1>1, <1>2 DEF CfgInv, CfgTypeOK, Together, Off
<1>4. NoDecay' /\ StoredCrcHolds' /\ Current'
  BY <1>1, <1>2, <1>3 DEF CfgInv, NoDecay, StoredCrcHolds, Current, BootedWell
<1>5. SealGood' /\ WrittenAtClear'
  BY <1>1, <1>2 DEF CfgInv, SealGood, WrittenAtClear
<1>6. InStep' /\ Checkpoint'
  BY <1>1, <1>2, <1>3 DEF CfgInv, InStep, Checkpoint, Marking
<1> QED BY <1>3, <1>4, <1>5, <1>6 DEF CfgInv

-----------------------------------------------------------------------------
(* The theorems *)

\* The inductive invariant of the configuration.
LEMMA CfgInvHolds == CfgSpec => []CfgInv
<1>1. CfgInit => CfgInv
  <2> SUFFICES ASSUME CfgInit PROVE CfgInv
    OBVIOUS
  <2>1. CfgTypeOK
    BY ZeroedIs, DatumHas DEF CfgInit, CfgTypeOK, Pcs
  <2>2. Off /\ Together /\ \A t \in Threads : at[t] = "off"
    BY DEF CfgInit, Off, Together, Threads
  <2>3. NoDecay
    BY <2>2, ZeroedIs DEF CfgInit, NoDecay
  <2>4. SealGood /\ WrittenAtClear
    BY <2>2 DEF SealGood, WrittenAtClear
  <2>5. StoredCrcHolds /\ Current /\ InStep
    BY <2>2 DEF StoredCrcHolds, Current, InStep
  <2>6. Checkpoint
    BY <2>2 DEF CfgInit, Checkpoint
  <2> QED BY <2>1, <2>2, <2>3, <2>4, <2>5, <2>6 DEF CfgInv
<1>2. CfgInv /\ [CfgNext]_cfgVars => CfgInv'
  <2> SUFFICES ASSUME CfgInv, [CfgNext]_cfgVars PROVE CfgInv'
    OBVIOUS
  <2>1. CASE Off /\ config_init
    BY <2>1, BootKeeps
  <2>2. CASE Decay
    BY <2>2, DecayKeeps
  <2>3. CASE PowerFails
    BY <2>3, PowerFailsKeeps
  <2>4. ASSUME NEW t \in Threads, mark_dirty(t) PROVE CfgInv'
    BY <2>4, MarkKeeps
  <2>5. ASSUME NEW t \in Threads, SaveBegin(t) PROVE CfgInv'
    BY <2>5, BeginKeeps
  <2>6. ASSUME NEW t \in Threads, SaveWrite(t) PROVE CfgInv'
    BY <2>6, WriteKeeps
  <2>7. ASSUME NEW t \in Threads, SaveClear(t) PROVE CfgInv'
    BY <2>7, ClearKeeps
  <2>8. CASE config_set_and_save
    BY <2>8, CheckpointSetKeeps
  <2>9. CASE config_set
    BY <2>9, CommandSetKeeps
  <2>10. CASE config_save
    BY <2>10, CommandSaveKeeps
  <2>11. CASE config_reset
    BY <2>11, ResetKeeps
  <2>12. CASE write_custom_config
    BY <2>12, CustomKeeps
  <2>13. CASE UNCHANGED cfgVars
    <3>1. /\ mgr' = mgr /\ flash' = flash /\ at' = at /\ own' = own /\ causes' = causes
      BY <2>13 DEF cfgVars
    <3>2. CfgTypeOK' /\ Together' /\ Off' = Off
      BY <3>1 DEF CfgInv, CfgTypeOK, Together, Off
    <3>3. NoDecay' /\ StoredCrcHolds' /\ Current'
      BY <3>1, <3>2 DEF CfgInv, NoDecay, StoredCrcHolds, Current, BootedWell
    <3>4. SealGood' /\ WrittenAtClear'
      BY <3>1 DEF CfgInv, SealGood, WrittenAtClear
    <3>5. InStep' /\ Checkpoint'
      BY <3>1, <3>2 DEF CfgInv, InStep, Checkpoint, Marking
    <3> QED BY <3>2, <3>3, <3>4, <3>5 DEF CfgInv
  <2> QED BY <2>1, <2>2, <2>3, <2>4, <2>5, <2>6, <2>7, <2>8, <2>9, <2>10, <2>11,
             <2>12, <2>13 DEF CfgNext
<1> QED BY <1>1, <1>2, PTL DEF CfgSpec

\* However often flash decays, in the data or in the version field, decayed
\* data neither reaches the running charger nor gets a CRC that matches.
THEOREM DecayIsNeverTrusted == CfgSpec => []DecayNeverTrusted
<1>1. CfgInv => DecayNeverTrusted
  <2> SUFFICES ASSUME CfgInv, flash.basic.data["device.name"] = Garbage,
                      CrcHolds(flash.basic)
               PROVE  FALSE
    BY DEF DecayNeverTrusted, CfgInv, NoDecay
  <2>1. flash.basic.crc.data = flash.basic.data
    BY RecordIs DEF CfgInv, CfgTypeOK, CrcHolds, compute_crc
  <2> QED BY <2>1 DEF CfgInv, NoDecay, Clean
<1> QED BY <1>1, CfgInvHolds, PTL

\* A clean record with no thread inside config.c is the stored one, but for
\* the causes the property names.
THEOREM CleanMeansStored == CfgSpec => []CleanIsStored
<1>1. CfgInv => CleanIsStored
  <2> SUFFICES ASSUME CfgInv, \A t \in Threads : at[t] = "idle", ~mgr.dirty,
                      causes \subseteq {"reset"}
               PROVE  flash.stored /\ flash.basic.data = mgr.basic.data
    BY DEF CleanIsStored
  <2>1. ~Off /\ \A t \in Threads : ~Marking(t)
    BY DEF Off, Threads, Marking
  <2>2. BootedWell
    BY DEF BootedWell
  <2> QED BY <2>1, <2>2 DEF CfgInv, InStep, Current
<1> QED BY <1>1, CfgInvHolds, PTL

\* The stored CRC is good while the charger runs, but for the same causes.
THEOREM StoredCrcIsGood == CfgSpec => []StoredCrcHolds
<1>1. CfgInv => StoredCrcHolds
  BY DEF CfgInv
<1> QED BY <1>1, CfgInvHolds, PTL

\* A checkpoint whose save has returned 0 is what the charger comes back with
\* after a power failure: config_set_and_save() of the charger's thread against
\* every interleaving with the command line.
THEOREM CheckpointIsKept == CfgSpec => []CheckpointSurvives
<1>1. CfgInv => CheckpointSurvives
  <2> SUFFICES ASSUME CfgInv, own.saved, causes = {}
               PROVE  Loaded(flash.basic).data["ocpp.checkpoint"] = own.chk
    BY DEF CheckpointSurvives
  <2>1. ~Off /\ flash.basic.data["ocpp.checkpoint"] = own.chk
    BY DEF CfgInv, Checkpoint
  <2>2. flash.stored /\ flash.basic.version = "current"
    BY <2>1 DEF CfgInv, Current, BootedWell
  <2>3. CrcHolds(flash.basic)
    BY <2>1, <2>2 DEF CfgInv, StoredCrcHolds
  <2>4. Loaded(flash.basic) = flash.basic
    BY <2>2, <2>3, LoadedIs DEF CfgInv, CfgTypeOK, NoDecay, Migrates
  <2> QED BY <2>1, <2>4
<1> QED BY <1>1, CfgInvHolds, PTL

\* A boot never overwrites a stored record of this build's version, whatever
\* the read returned: load_config() saves only what it migrated.
THEOREM BootKeepsTheRecord == CfgSpec => BootKeepsRecord
<1> DEFINE Kept == (Off /\ ~Off' /\ flash.basic # flash'.basic)
                      => (~flash.stored \/ Migrates(flash.basic))
<1>1. CfgInv /\ [CfgNext]_cfgVars => [Kept]_cfgVars
  <2> SUFFICES ASSUME CfgInv, CfgNext, Off, ~Off', flash.basic # flash'.basic
               PROVE  ~flash.stored \/ Migrates(flash.basic)
    OBVIOUS
  <2>1. \A t \in Threads : at[t] = "off"
    BY DEF CfgInv, Together, Off, Threads
  <2>2. Threads = {"charger", "cli"}
    BY DEF Threads
  <2>3. \A t \in Threads : ~(mark_dirty(t) \/ SaveBegin(t) \/ SaveWrite(t) \/ SaveClear(t))
    BY <2>1 DEF mark_dirty, SaveBegin, SaveWrite, SaveClear
  <2>4. ~(config_set_and_save \/ config_set \/ config_save \/ config_reset
            \/ write_custom_config)
    BY <2>1, <2>2 DEF config_set_and_save, config_set, config_save, config_reset,
                      write_custom_config
  <2>5. ~Decay
    BY DEF Decay, Off
  <2>6. config_init
    BY <2>3, <2>4, <2>5 DEF CfgNext
  <2>7. PICK result \in ReadResults : \E written \in WriteResults(ReadInto(result)) :
          Boots(result, ReadInto(result), written)
    BY <2>6 DEF config_init
  <2>8. Migrates(ReadInto(result))
    BY <2>7 DEF SavedAtBoot, WriteResults, Boots
  <2>9. result # "failed"
    BY <2>8, DefaultsAre, ZeroedIs DEF ReadInto, Migrates
  <2> QED BY <2>8, <2>9 DEF ReadResults, ReadInto
<1> QED BY <1>1, CfgInvHolds, PTL DEF CfgSpec, BootKeepsRecord

\* The configuration keeps its promise, for any number of decays and changes
\* and every interleaving of the two threads and losses of power.
THEOREM RecordIsKept == CfgSpec => RecordKept
<1>1. CfgInv => CfgTypeOK
  BY DEF CfgInv
<1> QED BY <1>1, CfgInvHolds, DecayIsNeverTrusted, CleanMeansStored, StoredCrcIsGood,
           CheckpointIsKept, BootKeepsTheRecord, PTL DEF RecordKept
=============================================================================
