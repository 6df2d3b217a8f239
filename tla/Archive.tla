------------------------------ MODULE Archive ------------------------------
(***************************************************************************)
(* What the contract keeps for good: the snapshots of months                   *)
(* (history_snapshot.rs), the log of configuration changes                      *)
(* (config_provenance.rs) and the summaries that replace the details of an        *)
(* outage (event_log_compaction.rs).                                          *)
(***************************************************************************)
EXTENDS LedgerClock, Sequences, FiniteSets, FiniteSetsExt

CONSTANTS
    Month,          \* month indexes, 0 among them, which is refused
    Verdict,        \* compliance statuses handed to snapshot_monthly_sla
    Tier,           \* severities whose configuration changes
    Author,         \* accounts that may be admin
    NoAuthor,       \* the role of the admin is vacant
    Nobody,         \* the accounts Address::generate makes up: no one holds them
    Threshold,      \* thresholds a change goes to and comes from
    MaxChanges,     \* bound on the changes recorded
    Report,         \* detailed outage records: a record of outage_id, severity, description
    NoRecord        \* nothing is stored

ASSUME AuthorAssumption == NoAuthor \notin Author /\ Nobody \notin Author

VARIABLES
    months,         \* MSNAP: the snapshots, by month
    monthCount,     \* MSNAPCT
    author,         \* ADMIN, changed and removed by lib.rs
    provenance,     \* PROV: the records; its count is kept beside them
    provenanceCount,
    unowned,        \* history: the number of changes recorded while the role was vacant
    summaries,      \* osum
    details         \* odtl

monthVars == <<months, monthCount>>
provenanceVars == <<author, provenance, provenanceCount, unowned>>
compactionVars == <<summaries, details>>
archiveVars == <<monthVars, provenanceVars, compactionVars>>

NoMonth == [final_compliance_status |-> "", recorded_at |-> -1]
MonthlySlaSnapshot == [final_compliance_status : Verdict, recorded_at : Time]
ProvenanceRecord == [severity : Tier, changed_by : Author \cup {Nobody}, changed_at : Time,
                     old_threshold : Threshold, new_threshold : Threshold]
Recorded == {report.outage_id : report \in Report}

-----------------------------------------------------------------------------
(* Months.                                                                 *)

has_monthly_sla_snapshot(month) == months[month] # NoMonth

SnapshotMonthlySla(month, verdict) ==
    /\ month # 0
    /\ ~has_monthly_sla_snapshot(month)
    /\ months' = [months EXCEPT ![month] =
         [final_compliance_status |-> verdict, recorded_at |-> now]]
    /\ monthCount' = monthCount + 1
    /\ UNCHANGED <<now, provenanceVars, compactionVars>>

-----------------------------------------------------------------------------
(* Configuration changes.  The author is the admin of the moment, not the    *)
(* caller, or a made-up account if there is none; both thresholds are what the  *)
(* caller says.                                                            *)

RecordConfigChange(severity, old, new) ==
    /\ Len(provenance) < MaxChanges
    /\ provenance' = Append(provenance,
         [severity |-> severity,
          changed_by |-> IF author = NoAuthor THEN Nobody ELSE author,
          changed_at |-> now, old_threshold |-> old, new_threshold |-> new])
    /\ provenanceCount' = provenanceCount + 1
    /\ unowned' = unowned + (IF author = NoAuthor THEN 1 ELSE 0)
    /\ UNCHANGED <<now, author, monthVars, compactionVars>>

get_severity_provenance(severity) ==
    SelectSeq(provenance, LAMBDA change : change.severity = severity)
get_changes_by_admin(admin) == SelectSeq(provenance, LAMBDA change : change.changed_by = admin)
get_changes_in_range(from, to) ==
    SelectSeq(provenance, LAMBDA change : change.changed_at >= from /\ change.changed_at <= to)

\* The last of the changes of that severity, if there is one.
get_latest_change(severity) ==
    LET own == get_severity_provenance(severity)
    IN  IF own = <<>> THEN <<>> ELSE <<own[Len(own)]>>

-----------------------------------------------------------------------------
(* Outages.                                                                *)

compact(report) == [outage_id |-> report.outage_id, severity |-> report.severity]

StoreDetailed(report) ==
    /\ details' = [details EXCEPT ![report.outage_id] = report]
    /\ UNCHANGED <<now, monthVars, provenanceVars, summaries>>

EvictDetails(outage) ==
    /\ details[outage] # NoRecord
    /\ details' = [details EXCEPT ![outage] = NoRecord]
    /\ UNCHANGED <<now, monthVars, provenanceVars, summaries>>

\* The record compacted is the caller's; the details stored go whatever they say.
CompactOutage(report) ==
    /\ summaries' = [summaries EXCEPT ![report.outage_id] = compact(report)]
    /\ details' = [details EXCEPT ![report.outage_id] = NoRecord]
    /\ UNCHANGED <<now, monthVars, provenanceVars>>

-----------------------------------------------------------------------------
\* The admin changes, or renounces the role.
ChangeAuthor(account) ==
    /\ author' = account
    /\ UNCHANGED <<now, monthVars, provenance, provenanceCount, unowned, compactionVars>>

ArchiveInit ==
    /\ months = [month \in Month |-> NoMonth]
    /\ monthCount = 0
    /\ author \in Author
    /\ provenance = <<>>
    /\ provenanceCount = 0
    /\ unowned = 0
    /\ summaries = [outage \in Recorded |-> NoRecord]
    /\ details = [outage \in Recorded |-> NoRecord]

\* The three files keep nothing in common.
MonthNext ==
    \/ Tick /\ UNCHANGED archiveVars
    \/ \E month \in Month, verdict \in Verdict : SnapshotMonthlySla(month, verdict)

ProvenanceNext ==
    \/ Tick /\ UNCHANGED archiveVars
    \/ \E account \in Author \cup {NoAuthor} : ChangeAuthor(account)
    \/ \E severity \in Tier, old, new \in Threshold : RecordConfigChange(severity, old, new)

CompactionNext ==
    \/ \E report \in Report : StoreDetailed(report) \/ CompactOutage(report)
    \/ \E outage \in Recorded : EvictDetails(outage)

-----------------------------------------------------------------------------
(* Properties.                                                             *)

ArchiveTypeOK ==
    /\ months \in [Month -> MonthlySlaSnapshot \cup {NoMonth}]
    /\ provenance \in Seq(ProvenanceRecord)
    /\ author \in Author \cup {NoAuthor}
    /\ details \in [Recorded -> Report \cup {NoRecord}]

\* The counter pagination relies on is the number of months stored, whose
\* snapshots nothing replaces (snapshot_monthly_sla).
MonthsAreFinal ==
    /\ monthCount' = Cardinality({month \in Month : has_monthly_sla_snapshot(month)'})
    /\ \A month \in Month : has_monthly_sla_snapshot(month) => months'[month] = months[month]

\* The views of the log by severity and by time see every change once.  The view by
\* author sees, under the accounts that can be admin, all but the changes recorded
\* while the role was vacant, whoever has become admin since: those are found
\* under no account anybody holds (record_config_change).
ProvenanceIsWhole ==
    LET Sizes(View(_), keys) == MapThenSumSet(LAMBDA key : Len(View(key)), keys)
    IN  /\ provenanceCount = Len(provenance)
        /\ Sizes(get_severity_provenance, Tier) = provenanceCount
        /\ Sizes(get_changes_by_admin, Author) + unowned = provenanceCount
        /\ Sizes(LAMBDA time : get_changes_in_range(time, time), Time) = provenanceCount
        /\ \A severity \in Tier : \A i \in DOMAIN get_latest_change(severity) :
             LET later == get_changes_in_range(get_latest_change(severity)[i].changed_at + 1, MaxTime)
             IN  \A k \in DOMAIN later : later[k].severity # severity

\* Compaction, of whatever record the caller hands in, never leaves an outage
\* without both of its records; evicting the details of one that was never
\* compacted does (compact_outage, evict_details).
CompactionLosesNoOutage ==
    \A outage \in Recorded :
        LET known == summaries[outage] # NoRecord \/ details[outage] # NoRecord
            forgotten == summaries'[outage] = NoRecord /\ details'[outage] = NoRecord
        IN  known /\ forgotten =>
              /\ summaries[outage] = NoRecord
              /\ \A other \in Recorded \ {outage} : details'[other] = details[other]
=============================================================================
