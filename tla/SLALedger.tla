----------------------------- MODULE SLALedger -----------------------------
(***************************************************************************)
(* The calculation side of the SLA calculator contract: configuration,     *)
(* calculate_sla with its duplicate policy, the bounded history and its     *)
(* pruning, and the statistics (sla_calculator/src/lib.rs).  Governance     *)
(* moves in the background as GovernanceInterface allows.                   *)
(*                                                                         *)
(* One action is one successful contract call; a call that returns an error *)
(* or reports an already recorded outage again changes nothing.             *)
(*                                                                         *)
(* `settled' is the sequence of results calculate_sla has announced with a  *)
(* set_int event since the last initialize.  HIST is the part of it at the  *)
(* positions `retained', in the same order: entries are only appended at    *)
(* the end and removed, never moved or changed.                             *)
(***************************************************************************)
EXTENDS GovernanceInterface, SLAMath, Sequences

CONSTANTS
    Outage,              \* outage identifiers
    Reports,             \* [severity, mttr] pairs the operator may report
    ConfigInputs,        \* [severity, config] pairs the admin may set
    ImportInputs,        \* configuration maps the admin may import
    RetentionInputs,     \* limits the admin may ask for
    DurationInputs,      \* outage duration caps the admin may set
    PruneInputs,         \* numbers of entries and ages the admin may prune to
    MinRetention,        \* smallest retention limit accepted (50)
    MaxRetention,        \* largest one (5000)
    DefaultRetention,    \* MAX_HISTORY_SIZE (1000)
    DefaultDuration,     \* DEFAULT_MAX_OUTAGE_DURATION_MINUTES (10080)
    MaxSettled,          \* bound on the number of settlements explored
    MaxUpdates           \* bound on the number of configuration updates explored

ASSUME VacancyAssumption == NoOne \notin Address
ASSUME RetentionAssumption ==
    /\ {MinRetention, MaxRetention, DefaultRetention} \subseteq Nat \ {0}
    /\ DefaultRetention \in MinRetention..MaxRetention
ASSUME LedgerInputAssumption ==
    /\ Reports \subseteq [severity : Severity, mttr : Nat]
    /\ ConfigInputs \subseteq [severity : Severity, config : SLAConfig]
    /\ ImportInputs \subseteq ConfigMap
    /\ RetentionInputs \subseteq Nat
    /\ DurationInputs \subseteq Nat
    /\ PruneInputs \subseteq Nat
    /\ MaxTime \in Nat
    /\ {MaxSettled, MaxUpdates} \subseteq Nat
    /\ DefaultDuration \in Nat \ {0}

VARIABLES
    configs,          \* CONFIG
    settled,          \* results announced since initialize
    retained,         \* HIST, as positions of settled
    stats,            \* STATS
    retentionLimit,   \* RETLIM
    maxDuration,      \* MAX_DUR
    configUpdates     \* CFGUPDCT

historyVars == <<settled, retained>>
limitVars == <<retentionLimit, maxDuration>>
configVars == <<configs, configUpdates>>
ledgerVars == <<configVars, historyVars, stats, limitVars>>
vars == <<seen, ledgerVars>>

NoStats == [calculations |-> 0, violations |-> 0, rewards |-> 0, penalties |-> 0]

Result == [outage_id : Outage, status : {"met", "viol"}, mttr_minutes : Nat,
           threshold_minutes : Nat, amount : Int, rating : {"top", "excel", "good", "poor"},
           recorded_at : Nat]

TypeOK ==
    /\ now \in 0..MaxTime
    /\ admin \in Address \cup {NoOne}
    /\ operator \in Address \cup {NoOne}
    /\ paused \in BOOLEAN
    /\ version \in 0..(STORAGE_VERSION + 1)
    /\ configs \in ConfigMap
    /\ settled \in Seq(Result)
    /\ retained \subseteq 1..Len(settled)
    /\ stats \in [calculations : Nat, violations : Nat, rewards : Int, penalties : Int]
    /\ retentionLimit \in MinRetention..MaxRetention
    /\ maxDuration \in Nat \ {0}
    /\ configUpdates \in Nat

-----------------------------------------------------------------------------
(* Guards and helpers.                                                     *)

AdminCall(caller) ==
    /\ version = STORAGE_VERSION
    /\ admin # NoOne
    /\ caller = admin
    /\ UNCHANGED seen

OperatorCall(caller) ==
    /\ version = STORAGE_VERSION
    /\ ~paused
    /\ operator # NoOne
    /\ caller = operator
    /\ UNCHANGED seen

\* The retained entries of an outage; get_history_by_outage.
EntriesOf(outage) == {i \in retained : settled[i].outage_id = outage}
\* Mutant: only the last entry is compared.
RecordedLast(outage) == retained # {} /\ settled[Max(retained)].outage_id = outage

\* Mutant: only the entries of the present ledger are compared.
RecordedNow(outage) == \E i \in EntriesOf(outage) : settled[i].recorded_at = now

Recorded(outage) == EntriesOf(outage) # {}
\* get_latest_by_outage, and the entry a repeated calculate_sla answers with.
LatestOf(outage) == settled[Max(EntriesOf(outage))]

\* get_batch_downtime, which takes the outage identifier for the site's.
BatchDowntime(outage) ==
    LET entries == EntriesOf(outage)
    IN [total_downtime    |-> MapThenSumSet(LAMBDA i : settled[i].mttr_minutes, entries),
        compliance_status |-> IF entries = {} THEN "unknown"
                              ELSE IF \A i \in entries : settled[i].status = "met"
                              THEN "compliant" ELSE "noncomp"]

\* Mutant: the pruning starts at the wrong end.
Earliest(positions, k) == {i \in positions : Cardinality({j \in positions : j <= i}) <= k}

\* The k latest of a set of positions.
Latest(positions, k) == {i \in positions : Cardinality({j \in positions : j >= i}) <= k}

\* Mutant: an outage that met its threshold is stamped like a view's result.
ResultStampedIfViolated(outage, effective, config) ==
    LET outcome == ComputeResult(effective, config)
    IN [outage_id |-> outage, status |-> outcome.status, mttr_minutes |-> effective,
        threshold_minutes |-> config.threshold_minutes, amount |-> outcome.amount,
        rating |-> outcome.rating,
        recorded_at |-> IF outcome.status = "viol" THEN now ELSE 0]

\* config_version_hash, a digest of the map no handler reads, is left out.
ResultOf(outage, effective, config) ==
    LET outcome == ComputeResult(effective, config)
    IN [outage_id |-> outage, status |-> outcome.status, mttr_minutes |-> effective,
        threshold_minutes |-> config.threshold_minutes, amount |-> outcome.amount,
        rating |-> outcome.rating, recorded_at |-> now]

\* Mutant: the penalty is added with its sign.
CountedSigned(result) ==
    IF result.status = "viol"
    THEN [stats EXCEPT !.calculations = @ + 1, !.violations = @ + 1,
                       !.penalties = @ + result.amount]
    ELSE [stats EXCEPT !.calculations = @ + 1, !.rewards = @ + result.amount]

\* increment_stats.
Counted(result) ==
    IF result.status = "viol"
    THEN [stats EXCEPT !.calculations = @ + 1, !.violations = @ + 1,
                       !.penalties = @ - result.amount]
    ELSE [stats EXCEPT !.calculations = @ + 1, !.rewards = @ + result.amount]

-----------------------------------------------------------------------------
(* Calls.                                                                  *)

\* The limits and the update counter keep what an earlier deployment set.
Initialize(newAdmin, newOperator) ==
    /\ Install(newAdmin, newOperator)
    /\ configs' = DefaultConfigs
    /\ settled' = << >>
    /\ retained' = {}
    /\ stats' = NoStats
    /\ UNCHANGED <<limitVars, configUpdates>>

\* Mutant: the limit is compared with the length before the push.
RetainLate(position) ==
    LET kept == retained \cup {position}
    IN IF Cardinality(retained) > retentionLimit
       THEN {i \in kept : \E j \in kept : j < i}
       ELSE kept

\* The new entry is pushed, and if that exceeds the limit one entry, the
\* oldest, is dropped.
Retain(position) ==
    LET kept == retained \cup {position}
    IN IF Cardinality(kept) > retentionLimit
       THEN {i \in kept : \E j \in kept : j < i}
       ELSE kept

CalculateSla(caller, outage, severity, mttr) ==
    /\ Len(settled) < MaxSettled
    /\ OperatorCall(caller)
    /\ severity \in Configured(configs)
    /\ LET effective == EffectiveMttr(mttr, maxDuration)
           result == ResultOf(outage, effective, configs[severity])
       IN /\ Computable(effective, configs[severity])
          /\ ~Recorded(outage)
          /\ settled' = Append(settled, result)
          /\ retained' = Retain(Len(settled) + 1)
          /\ stats' = Counted(result)
    /\ UNCHANGED <<configVars, limitVars>>

\* Setting the configuration that is already there is a no-op.
SetConfig(caller, severity, config) ==
    /\ configUpdates < MaxUpdates
    /\ AdminCall(caller)
    /\ ValidateConfig(severity, config, configs)
    /\ configs[severity] # config
    /\ configs' = [configs EXCEPT ![severity] = config]
    /\ configUpdates' = configUpdates + 1
    /\ UNCHANGED <<historyVars, stats, limitVars>>

\* Any non-empty map over canonical severities is taken as it is.
ImportConfigMap(caller, imported) ==
    /\ AdminCall(caller)
    /\ Configured(imported) # {}
    /\ configs' = imported
    /\ UNCHANGED <<configUpdates, historyVars, stats, limitVars>>

ResetConfigToDefaults(caller) ==
    /\ AdminCall(caller)
    /\ configs' = DefaultConfigs
    /\ UNCHANGED <<configUpdates, historyVars, stats, limitVars>>

PruneHistory(caller, keepLatest) ==
    /\ AdminCall(caller)
    /\ Cardinality(retained) > keepLatest
    /\ retained' = Latest(retained, keepLatest)
    /\ UNCHANGED <<configVars, settled, stats, limitVars>>

PruneHistoryByAge(caller, minAge) ==
    LET cutoff == IF now >= minAge THEN now - minAge ELSE 0
    IN /\ AdminCall(caller)
       /\ retained' = {i \in retained : settled[i].recorded_at >= cutoff}
       /\ UNCHANGED <<configVars, settled, stats, limitVars>>

PruneHistoryQueue(caller) ==
    /\ AdminCall(caller)
    /\ Cardinality(retained) > retentionLimit
    /\ retained' = Latest(retained, retentionLimit)
    /\ UNCHANGED <<configVars, settled, stats, limitVars>>

\* Mutant: the minimum is not checked.
SetRetentionLimitBelow(caller, limit) ==
    /\ AdminCall(caller)
    /\ limit <= MaxRetention
    /\ retentionLimit' = limit
    /\ UNCHANGED <<configVars, historyVars, stats, maxDuration>>

SetRetentionLimit(caller, limit) ==
    /\ AdminCall(caller)
    /\ limit \in MinRetention..MaxRetention
    /\ retentionLimit' = limit
    /\ UNCHANGED <<configVars, historyVars, stats, maxDuration>>

SetMaxOutageDuration(caller, limitMinutes) ==
    /\ AdminCall(caller)
    /\ limitMinutes # 0
    /\ maxDuration' = limitMinutes
    /\ UNCHANGED <<configVars, historyVars, stats, retentionLimit>>

-----------------------------------------------------------------------------
(* The system.                                                             *)

\* Nothing is stored, or unversioned storage that was initialized.
LedgerInit ==
    /\ Init
    /\ configs = IF admin = NoOne THEN NoConfigs ELSE DefaultConfigs
    /\ settled = << >>
    /\ retained = {}
    /\ stats = NoStats
    /\ retentionLimit = DefaultRetention
    /\ maxDuration = DefaultDuration
    /\ configUpdates = 0

Environment == (Tick \/ Govern) /\ UNCHANGED ledgerVars

ConfigCall(caller) ==
    \/ ResetConfigToDefaults(caller)
    \/ \E input \in ConfigInputs : SetConfig(caller, input.severity, input.config)
    \/ \E imported \in ImportInputs : ImportConfigMap(caller, imported)
    \/ \E limit \in RetentionInputs : SetRetentionLimit(caller, limit)
    \/ \E limit \in DurationInputs : SetMaxOutageDuration(caller, limit)

PruneCall(caller) ==
    \/ PruneHistoryQueue(caller)
    \/ \E n \in PruneInputs : PruneHistory(caller, n) \/ PruneHistoryByAge(caller, n)

LedgerNext ==
    \/ Environment
    \/ \E newAdmin, newOperator \in Address : Initialize(newAdmin, newOperator)
    \/ \E caller \in Address :
         \/ ConfigCall(caller)
         \/ PruneCall(caller)
         \/ \E outage \in Outage, report \in Reports :
              CalculateSla(caller, outage, report.severity, report.mttr)

LedgerSpec == LedgerInit /\ [][LedgerNext]_vars

-----------------------------------------------------------------------------
(* Properties.                                                             *)

Violations == {i \in DOMAIN settled : settled[i].status = "viol"}
TotalAmount(positions) == MapThenSumSet(LAMBDA i : settled[i].amount, positions)

\* The statistics are exactly the settlements announced since initialize:
\* each one is counted once, on the side it belongs to, whatever is evicted,
\* pruned, retried or reconfigured in between.
StatsBalance ==
    /\ stats.calculations = Len(settled)
    /\ stats.violations = Cardinality(Violations)
    /\ stats.rewards = TotalAmount(DOMAIN settled \ Violations)
    /\ stats.penalties = -TotalAmount(Violations)

\* The history never holds two entries of one outage, although the same
\* outage can be settled again after its entry is gone: the look-ups by
\* outage and the duplicate check rely on a single answer.
OneEntryPerOutage ==
    \A i, j \in retained : settled[i].outage_id = settled[j].outage_id => i = j

\* The read paths tell one story: the downtime that get_batch_downtime adds up
\* over the whole history is that of the entry get_latest_by_outage returns,
\* and its verdict is that entry's.
ReadPathsAgree ==
    \A outage \in Outage :
        BatchDowntime(outage) =
            IF Recorded(outage)
            THEN [total_downtime    |-> LatestOf(outage).mttr_minutes,
                  compliance_status |-> IF LatestOf(outage).status = "met"
                                        THEN "compliant" ELSE "noncomp"]
            ELSE [total_downtime |-> 0, compliance_status |-> "unknown"]

\* The history is in time order, so pruning by age and by number drop from
\* the same end.
HistoryInTimeOrder ==
    \A i, j \in retained : i <= j => settled[i].recorded_at <= settled[j].recorded_at

\* Whatever leaves the history is older than whatever stays: eviction and the
\* three prunings never make a hole.  Nothing is said of entries recorded at time
\* 0: the comment on prune_history_by_age would always keep them, its code treats
\* them like any other.
Dated == {i \in DOMAIN settled : settled[i].recorded_at # 0}
OnlyOldestLeave ==
    [][settled' # << >> =>
         \A gone \in (retained \ retained') \cap Dated, kept \in retained' \cap Dated' :
             gone < kept]_vars

\* The history grows only up to the retention limit in force: a calculation
\* never pushes it over, and no other call makes it longer.
GrowthWithinLimit ==
    [][Cardinality(retained') > Cardinality(retained)
         => Cardinality(retained') <= retentionLimit]_vars

\* The calculator as its settlement consumers see it.
Book == INSTANCE SettlementBook WITH
    booked <- stats.calculations,
    balance <- stats.rewards - stats.penalties,
    remembered <- {settled[i].outage_id : i \in retained}
KeepsSettlementBook == Book!Spec

\* set_config keeps the severities ordered (a more severe one has the shorter
\* threshold and the higher penalty); only an import can break the order.
Ordered(map) ==
    \A s, t \in Configured(map) : Rank[s] < Rank[t] => Stricter(map[s], map[t])
OrderBrokenOnlyByImport ==
    [][Ordered(configs) => Ordered(configs') \/ configs' \in ImportInputs]_vars

\* What the comment on set_retention_limit says: "The new limit takes effect
\* on the next calculate_sla call".  The code contradicts it: a calculation
\* drops one entry, so a history over the limit stays as long as it was.
RetentionTakesEffect ==
    [][settled' # settled /\ settled' # << >>
         => Cardinality(retained') <= retentionLimit]_vars

\* What the comment in calculate_sla says: a repeated outage is answered from
\* the history only "when execution inputs resolve to the same deterministic
\* result".  The code contradicts it: only the duration and the threshold are
\* compared, not the penalty, the reward or the multipliers.
AnsweredFromHistory(outage, effective, config) ==
    /\ Recorded(outage)
    /\ LatestOf(outage).mttr_minutes = effective
    /\ LatestOf(outage).threshold_minutes = config.threshold_minutes
SameResultOnRetry ==
    \A outage \in Outage, report \in Reports :
        report.severity \in Configured(configs) =>
            LET config == configs[report.severity]
                effective == EffectiveMttr(report.mttr, maxDuration)
            IN AnsweredFromHistory(outage, effective, config)
                 => LatestOf(outage).amount = ComputeResult(effective, config).amount

=============================================================================
