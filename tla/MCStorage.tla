----------------------------- MODULE MCStorage ------------------------------
(***************************************************************************)
(* The seven modules of what the charger stores and samples, in one run:   *)
(* the configuration, the idTags, the log, the firmware update, the        *)
(* energy, the meter values and the file system (its operations and, apart *)
(* from them, the making of directories).  They share no variable, so      *)
(* every behaviour is of one of them: part says which, and the others stay *)
(* in their initial state.                                                 *)
(*                                                                         *)
(* The configuration is looked at twice: with both threads on flash that   *)
(* keeps what it holds, and with one of them on flash that decays or       *)
(* cannot be read.                                                         *)
(***************************************************************************)
EXTENDS Config, UidStore, LogFs, Updater, Metering, MeterSampling, LfsFiles

CONSTANTS a1, a2, u1, u2, f1

VARIABLE part

Parts == {"config", "decay", "uids", "log", "update", "meter", "sampling", "files",
          "walk"}
ConfigParts == {"config", "decay"}

storageVars ==
    <<cfgVars, uidVars, logVars, updVars, meterVars, samplingVars, lfsVars, part>>

\* Two idTags whose hashes collide and whose names begin alike.
MCIds == {a1, a2}
MCHash == [i \in MCIds |-> 1]
MCFilename == [i \in MCIds |-> 1]

\* One initial state of the modules that have several, for the other parts.
Still ==
    /\ part # "sampling" => conf = [sample |-> 0, clock |-> 0]
    /\ part # "walk" => walk.path = <<>>

StorageInit ==
    /\ part \in Parts
    /\ CfgInit /\ UidInit /\ LogInit /\ UpdInit /\ MeterInit
    /\ SamplingInit /\ LfsInit
    /\ Still

ConfigFocus ==
    CASE part = "config" -> decays' = 0
      [] part = "decay" -> at'["charger"] \in {"off", "idle"}

StorageNext ==
    /\ UNCHANGED part
    /\ \/ /\ part \in ConfigParts /\ CfgNext /\ ConfigFocus
          /\ UNCHANGED <<uidVars, logVars, updVars, meterVars, samplingVars, lfsVars>>
       \/ /\ part = "uids" /\ UidNext
          /\ UNCHANGED <<cfgVars, logVars, updVars, meterVars, samplingVars, lfsVars>>
       \/ /\ part = "log" /\ LogNext
          /\ UNCHANGED <<cfgVars, uidVars, updVars, meterVars, samplingVars, lfsVars>>
       \/ /\ part = "update" /\ UpdNext
          /\ UNCHANGED <<cfgVars, uidVars, logVars, meterVars, samplingVars, lfsVars>>
       \/ /\ part = "meter" /\ MeterNext
          /\ UNCHANGED <<cfgVars, uidVars, logVars, updVars, samplingVars, lfsVars>>
       \/ /\ part = "sampling" /\ SamplingNext
          /\ UNCHANGED <<cfgVars, uidVars, logVars, updVars, meterVars, lfsVars>>
       \/ /\ part = "files" /\ FilesNext
          /\ UNCHANGED <<cfgVars, uidVars, logVars, updVars, meterVars, samplingVars>>
       \/ /\ part = "walk" /\ create_directory
          /\ UNCHANGED <<cfgVars, uidVars, logVars, updVars, meterVars, samplingVars>>

\* The fairness of the update, when it is the part that runs.
StorageFairness ==
    /\ WF_updVars(part = "update" /\ (set_request \/ run_network_updater))
    /\ WF_updVars(part = "update" /\ updater_process)
    /\ WF_updVars(part = "update" /\ DateArrives)
    /\ WF_updVars(part = "update" /\ TimeIsUp)

StorageSpec == StorageInit /\ [][StorageNext]_storageVars /\ StorageFairness
=============================================================================
