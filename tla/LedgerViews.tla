---------------------------- MODULE LedgerViews ----------------------------
(***************************************************************************)
(* Calls that read the calculator's storage and change nothing: the audit of *)
(* one outage (lib.rs), who is served a batch (lib.rs, batch.rs), and the      *)
(* snapshots, counts and health summaries (lib.rs, state_snapshot.rs).  Each  *)
(* is an operator on the state of SLALedger; a call that returns an error is  *)
(* Refused.                                                                *)
(***************************************************************************)
EXTENDS SLALedger

CONSTANT Refused

Stored == configs # NoConfigs            \* CONFIG_KEY is present
Answering == version = STORAGE_VERSION   \* check_version

-----------------------------------------------------------------------------
(* Recalculations.                                                         *)

\* calculate_sla_view: what calculate_sla would book now, for anybody.
calculate_sla_view(outage, severity, mttr) ==
    LET effective == EffectiveMttr(mttr, maxDuration)
    IN  IF /\ Answering
           /\ severity \in Configured(configs)
           /\ Computable(effective, configs[severity])
          THEN ResultOf(outage, effective, configs[severity])
          ELSE Refused

\* batch_calculate, of a valid batch: the operator's endpoint does not ask for
\* the version.
ServesBatch(caller) == operator # NoOne /\ caller = operator /\ ~paused /\ Stored

-----------------------------------------------------------------------------
(* Snapshots and counts.                                                   *)

\* get_config_snapshot: every canonical severity, or an error.
get_config_snapshot ==
    IF Answering /\ Configured(configs) = Severity THEN configs ELSE Refused

get_config_count == IF Answering /\ Stored THEN Cardinality(Configured(configs)) ELSE Refused

get_history_summary ==
    [total    |-> Cardinality(retained),
     met      |-> Cardinality({i \in retained : settled[i].status = "met"}),
     violated |-> Cardinality({i \in retained : settled[i].status = "viol"})]

SnapshotMetadata(entries, severities) ==
    [version |-> 1, created_at |-> now, history_count |-> Cardinality(entries),
     config_count |-> Cardinality(severities)]

get_snapshot_metadata ==
    IF Stored THEN SnapshotMetadata(retained, Configured(configs)) ELSE Refused

Snapshot(entries) ==
    [metadata |-> SnapshotMetadata(entries, Configured(configs)),
     admin |-> admin, operator |-> operator, is_paused |-> paused,
     configs |-> configs, stats |-> stats, history |-> entries,
     storage_version |-> version, retention_limit |-> retentionLimit]

\* The pause reason and the schema's version, a constant, are left out.
export_snapshot ==
    IF admin # NoOne /\ operator # NoOne /\ Stored THEN Snapshot(retained) ELSE Refused

\* validate_snapshot_import.
Importable(snapshot) ==
    /\ snapshot.metadata.version = 1
    /\ snapshot.storage_version <= STORAGE_VERSION
    /\ Configured(snapshot.configs) # {}
    /\ admin # NoOne

get_state_summary ==
    [paused |-> paused, calc_cnt |-> stats.calculations, viol_cnt |-> stats.violations,
     hist_len |-> Cardinality(retained), stor_ver |-> version]

-----------------------------------------------------------------------------
(* Properties.                                                             *)

\* The audit confirms what a retry is told: whenever calculate_sla answers from
\* the history, the view, which knows no history, gives the same verdict and
\* rating, whatever was reconfigured in between (the amount may differ, see
\* SameResultOnRetry).
AuditConfirmsHistory ==
    \A outage \in Outage, report \in Reports :
        LET view == calculate_sla_view(outage, report.severity, report.mttr)
        IN  /\ view # Refused
            /\ AnsweredFromHistory(outage, view.mttr_minutes, configs[report.severity])
            => LatestOf(outage).status = view.status /\ LatestOf(outage).rating = view.rating

\* Only the pause keeps an operator from a batch: whoever holds the role finds a
\* configuration, although batch_calculate does not ask for the version and roles
\* change hands, are vacated and filled again independently of CONFIG.
OperatorIsServed ==
    \A caller \in Address : operator = caller /\ ~paused => ServesBatch(caller)

\* The snapshots, the counts and the health summary describe one state, and
\* that state is the history and statistics it was built from: what is retained
\* was counted, and an exported snapshot can be imported wherever the version
\* is served (state_snapshot.rs).
SnapshotsDescribeTheState ==
    LET summary == get_history_summary
        health == get_state_summary
        export == export_snapshot
    IN  /\ summary.total = summary.met + summary.violated
        /\ summary.violated <= health.viol_cnt
        /\ summary.met <= health.calc_cnt - health.viol_cnt
        /\ export # Refused =>
             /\ export.metadata = get_snapshot_metadata
             /\ export.metadata.history_count = health.hist_len
             /\ Answering => Importable(export)
             /\ Answering => export.metadata.config_count = get_config_count
             /\ get_config_snapshot \in {Refused, export.configs}

\* The read paths tell one story: the look-ups by outage, the audit, the
\* batches and the snapshots.
ViewsAgree ==
    /\ ReadPathsAgree
    /\ AuditConfirmsHistory
    /\ OperatorIsServed
    /\ SnapshotsDescribeTheState
=============================================================================
