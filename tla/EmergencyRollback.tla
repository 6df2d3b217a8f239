------------------------- MODULE EmergencyRollback -------------------------
(***************************************************************************)
(* The emergency rollback of the configuration (emergency.rs) beside the    *)
(* calls of lib.rs that write the same storage: pause switch, pause record   *)
(* and configuration.                                                      *)
(*                                                                         *)
(* initiate_rollback pauses the contract by itself, without the pause        *)
(* record; it saves the configuration under PRCFG.  execute_rollback puts    *)
(* defaults of its own in place and stays paused; undo_rollback restores the *)
(* saved configuration and unpauses.  None of the three looks at the storage *)
(* version.                                                                *)
(***************************************************************************)
EXTENDS SLAGovernance, SLAMath

CONSTANTS
    ConfigInputs,   \* the [severity, config] pairs handed to set_config
    ImportInputs    \* configuration maps handed to import_config_map

ASSUME ConfigInputAssumption ==
    /\ NoConfig \notin SLAConfig
    /\ ConfigInputs \subseteq [severity : Severity, config : SLAConfig]
    /\ ImportInputs \subseteq ConfigMap

VARIABLES
    configs,    \* CONFIG
    snapshot,   \* PRCFG, NoConfigs when absent
    rollback    \* RBACK; its reason is only reported

rollbackVars == <<configs, snapshot, rollback>>
emergencyVars == <<govVars, rollbackVars>>

NoRollback == [initiated_at |-> 0, initiated_by |-> NoOne]
RollbackState == [initiated_at : Time, initiated_by : Address]

\* Every part of the storage has its type, and the saved configuration is
\* there exactly while a rollback is recorded.
EmergencyTypeOK ==
    /\ TypeOK
    /\ configs \in ConfigMap
    /\ snapshot \in ConfigMap
    /\ rollback \in RollbackState \cup {NoRollback}
    /\ rollback = NoRollback <=> snapshot = NoConfigs

-----------------------------------------------------------------------------
(* Emergency rollback.                                                     *)

\* The literals of execute_rollback, a second copy of the defaults.
RollbackDefaults ==
    [critical |-> DefaultConfig(15, 100, 750),
     high     |-> DefaultConfig(30, 50, 750),
     medium   |-> DefaultConfig(60, 25, 750),
     low      |-> DefaultConfig(120, 10, 600)]

\* Mutant: the save point of an earlier call is kept.
InitiateRollbackOnce(caller) ==
    /\ RequireAdmin(caller)
    /\ paused' = TRUE
    /\ snapshot' = IF snapshot = NoConfigs THEN configs ELSE snapshot
    /\ rollback' = [initiated_at |-> now, initiated_by |-> caller]
    /\ UNCHANGED <<now, roleVars, pausedBy, upgradeVars, configs>>

\* May be called again while a rollback is in progress: the save point and
\* the record are replaced.
InitiateRollback(caller) ==
    /\ RequireAdmin(caller)
    /\ paused' = TRUE
    /\ snapshot' = IF configs = NoConfigs THEN snapshot ELSE configs
    /\ rollback' = [initiated_at |-> now, initiated_by |-> caller]
    /\ UNCHANGED <<now, roleVars, pausedBy, upgradeVars, configs>>

\* The pause flag stays as it is.
ExecuteRollback(caller) ==
    /\ RequireAdmin(caller)
    /\ rollback # NoRollback
    /\ configs' = RollbackDefaults
    /\ rollback' = NoRollback
    /\ snapshot' = NoConfigs
    /\ UNCHANGED govVars

\* PAUSEINF stays.
UndoRollback(caller) ==
    /\ RequireAdmin(caller)
    /\ rollback # NoRollback
    /\ configs' = IF snapshot = NoConfigs THEN configs ELSE snapshot
    /\ paused' = FALSE
    /\ rollback' = NoRollback
    /\ snapshot' = NoConfigs
    /\ UNCHANGED <<now, roleVars, pausedBy, upgradeVars>>

-----------------------------------------------------------------------------
(* The calls of lib.rs on the same storage.                                *)

\* initialize writes the defaults; RBACK and PRCFG of an earlier life stay.
SetUp(newAdmin) ==
    /\ Initialize(newAdmin, newAdmin)
    /\ configs' = DefaultConfigs
    /\ UNCHANGED <<snapshot, rollback>>

\* Mutant: the configuration is not compared with the other severities'.
SetConfigAlone(caller, severity, config) ==
    /\ AdminCall(caller)
    /\ ValidateAlone(severity, config, configs)
    /\ configs' = [configs EXCEPT ![severity] = config]
    /\ UNCHANGED <<roleVars, pauseVars, upgradeVars, snapshot, rollback>>

\* Not refused during a rollback.
SetConfig(caller, severity, config) ==
    /\ AdminCall(caller)
    /\ ValidateConfig(severity, config, configs)
    /\ configs' = [configs EXCEPT ![severity] = config]
    /\ UNCHANGED <<roleVars, pauseVars, upgradeVars, snapshot, rollback>>

ResetConfigToDefaults(caller) ==
    /\ AdminCall(caller)
    /\ configs' = DefaultConfigs
    /\ UNCHANGED <<roleVars, pauseVars, upgradeVars, snapshot, rollback>>

\* Any map that is not empty, however its severities fit together.
ImportConfigMap(caller, imported) ==
    /\ AdminCall(caller)
    /\ Configured(imported) # {}
    /\ configs' = imported
    /\ UNCHANGED <<roleVars, pauseVars, upgradeVars, snapshot, rollback>>

PauseCall(caller) == Pause(caller) /\ UNCHANGED rollbackVars

\* The rest of governance, which leaves configuration and rollback alone; the
\* operator handoff is not read here and rests.
PauseOrRoleStep ==
    /\ \/ Tick
       \/ GetPendingAdmin
       \/ \E caller \in Address :
            AdminHandoffCall(caller) \/ Unpause(caller) \/ UpgradeCall(caller)
    /\ UNCHANGED rollbackVars

-----------------------------------------------------------------------------
(* The system.                                                             *)

EmergencyInit ==
    /\ Init
    /\ configs = IF admin = NoOne THEN NoConfigs ELSE DefaultConfigs
    /\ snapshot = NoConfigs
    /\ rollback = NoRollback

EmergencyCall(caller) ==
    \/ InitiateRollback(caller)
    \/ ExecuteRollback(caller)
    \/ UndoRollback(caller)

ConfigCall(caller) ==
    \/ ResetConfigToDefaults(caller)
    \/ \E input \in ConfigInputs : SetConfig(caller, input.severity, input.config)
    \/ \E imported \in ImportInputs : ImportConfigMap(caller, imported)

EmergencyNext ==
    \/ PauseOrRoleStep
    \/ \E newAdmin \in Address : SetUp(newAdmin)
    \/ \E caller \in Address :
         EmergencyCall(caller) \/ ConfigCall(caller) \/ PauseCall(caller)

EmergencySpec == EmergencyInit /\ [][EmergencyNext]_emergencyVars

-----------------------------------------------------------------------------
(* Properties.                                                             *)

\* Undoing a rollback brings back the configuration of the moment the last
\* rollback was initiated, once: changes made during the rollback, repeated
\* initiations, a change of admin and a new initialize in between make no
\* difference (initiate_rollback, undo_rollback, execute_rollback).
Rollback == INSTANCE SavePoint WITH
    Data <- ConfigMap, Nothing <- NoConfigs, Fallback <- RollbackDefaults,
    Idle <- NoRollback, current <- configs, saved <- snapshot, ticket <- rollback
ConfigSurvivesRollback == Rollback!Spec

\* Every severity passes the validation against the others, so that set_config
\* is usable for each of them.
Agrees(map) ==
    \A severity \in Severity :
        severity \in Configured(map) /\ ValidateConfig(severity, map[severity], map)

\* What set_config validates one severity at a time holds for all of them: a
\* configuration that agrees is followed by one that disagrees only when that is
\* imported, which validates nothing but the names, or when a rollback is undone
\* that found a disagreement in force (initiate_rollback saves what is there).
\* Both copies of the defaults agree.
DisagreementIsImported ==
    [][/\ Agrees(configs) /\ ~Agrees(configs') =>
            configs' \in ImportInputs \/ configs' = snapshot
       /\ (Agrees(snapshot) \/ snapshot = NoConfigs) /\ ~Agrees(snapshot') =>
            snapshot' \in {NoConfigs, configs}]_emergencyVars

\* A rollback that is in progress when the admin is gone stays exactly as it
\* is, pause included, until the contract is set up again.
RollbackWaitsForAdmin ==
    [][admin = NoOne /\ admin' = NoOne => UNCHANGED <<rollbackVars, pauseVars>>]_emergencyVars

\* A rollback neither breaks the configuration nor slips away: the properties
\* above except the save point together.
RollbackCustody == []EmergencyTypeOK /\ DisagreementIsImported /\ RollbackWaitsForAdmin
=============================================================================
