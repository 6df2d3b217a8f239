---------------------------- MODULE MCSatellites ----------------------------
(* The files around the contract's core, for TLC: limits, money, outages,     *)
(* other contracts, accounts, records and the backend's replays.  They share   *)
(* the ledger time and nothing else, so a behaviour exercises one of them, its  *)
(* part, and the others rest; the run covers the behaviours of all of them.     *)
EXTENDS SubmissionLimits, RewardBudget, Claims, Collateral, Resolutions, Correlations,
        Dependencies, Coordination,
        ProposalQueue, AccessLists, HistoryViews, EventIndex, RollingWindows,
        Archive, Replay, Tuning, OracleData, DisputeRecourse

CONSTANTS
    admin1, admin2,
    MaxRecordTime   \* bound on the time of the parts about accounts and records

VARIABLE part   \* the file this behaviour is about

Limits == <<submissionVars, callerLimitVars, tuningVars>>
Money == <<budgetVars, claimVars, collateralVars, recourseVars>>
Outages == <<resolutionVars, excuseVars, correlationVars, oracleVars>>
Peers == <<dependencyVars, coordinationVars>>
Accounts == <<queueVars, accessVars>>
Records == <<history, indexVars, rollingVars, archiveVars>>
satelliteVars == <<part, now, Limits, Money, Outages, Peers, Accounts, Records, replayVars>>

Parts == {"submissions", "callers", "tuning", "budget", "claims", "collateral",
          "recourse", "appeals", "listing", "resolutions", "excuses", "correlations", "oracle", "sites", "calls", "queue", "timelock",
          "lists", "services", "views", "index", "badges", "closings",
          "months", "provenance", "compaction", "replays"}

SatellitesInit ==
    /\ part \in Parts
    /\ now = 0
    /\ SubmissionInit
    /\ RateLimitInit /\ (part # "callers" => callerLimit = NoLimit)
    /\ TuningInit
    /\ BudgetInit /\ (part # "budget" => cap = NoCap)
    /\ ClaimsInit /\ CollateralInit /\ RecourseInit
    /\ ResolutionInit /\ ForceMajeureInit /\ CorrelationInit
    /\ OracleInit /\ (part # "oracle" => oracle = NoOracle)
    /\ DependencyInit /\ CoordinationInit
    /\ QueueInit /\ AccessInit
    /\ ViewsInit /\ IndexInit /\ RollingInit
    /\ ArchiveInit /\ (part # "provenance" => author = admin1)
    /\ ReplayInit

-----------------------------------------------------------------------------
RestOfLimits == <<part, Money, Outages, Peers, Accounts, Records, replayVars>>
RestOfMoney == <<part, Limits, Outages, Peers, Accounts, Records, replayVars>>
RestOfOutages == <<part, Limits, Money, Peers, Accounts, Records, replayVars>>
RestOfPeers == <<part, now, Limits, Money, Outages, Accounts, Records, replayVars>>
RestOfAccounts == <<part, Limits, Money, Outages, Peers, Records, replayVars>>
RestOfRecords == <<part, Limits, Money, Outages, Peers, Accounts, replayVars>>
RestOfReplays == <<part, Limits, Money, Outages, Peers, Accounts, Records>>
RestOfRecourse == <<budgetVars, claimVars, collateralVars, RestOfMoney>>
RestOfQueue == <<accessVars, RestOfAccounts>>

LimitsNext ==
    \/ part = "submissions" /\ SubmissionNext /\ UNCHANGED <<callerLimitVars, tuningVars, RestOfLimits>>
    \/ part = "callers" /\ RateLimitNext /\ UNCHANGED <<submissionVars, tuningVars, RestOfLimits>>
    \/ part = "tuning" /\ TuningNext /\ UNCHANGED <<now, submissionVars, callerLimitVars, RestOfLimits>>

MoneyNext ==
    \/ part = "budget" /\ BudgetNext
       /\ UNCHANGED <<now, claimVars, collateralVars, recourseVars, RestOfMoney>>
    \/ part = "claims" /\ ClaimsNext
       /\ UNCHANGED <<budgetVars, collateralVars, recourseVars, RestOfMoney>>
    \/ part = "collateral" /\ CollateralNext
       /\ UNCHANGED <<now, budgetVars, claimVars, recourseVars, RestOfMoney>>
    \/ part = "recourse" /\ RecourseNext /\ now' < MaxTime /\ UNCHANGED RestOfRecourse
    \/ part = "appeals" /\ AppealNext /\ UNCHANGED RestOfRecourse
    \/ part = "listing" /\ ListingNext /\ UNCHANGED RestOfRecourse

OutagesNext ==
    \/ part = "resolutions" /\ ResolutionNext
       /\ UNCHANGED <<excuseVars, correlationVars, oracleVars, RestOfOutages>>
    \/ part = "excuses" /\ ForceMajeureNext
       /\ UNCHANGED <<resolutionVars, correlationVars, oracleVars, RestOfOutages>>
    \/ part = "correlations" /\ CorrelationNext
       /\ UNCHANGED <<now, resolutionVars, excuseVars, oracleVars, RestOfOutages>>
    \/ part = "oracle" /\ OracleNext
       /\ UNCHANGED <<resolutionVars, excuseVars, correlationVars, RestOfOutages>>

PeersNext ==
    \/ part = "sites" /\ DependencyNext /\ UNCHANGED <<coordinationVars, RestOfPeers>>
    \/ part = "calls" /\ CoordinationNext /\ UNCHANGED <<dependencyVars, RestOfPeers>>

AccountsNext ==
    \/ part = "queue" /\ QueueNext /\ UNCHANGED RestOfQueue
    \/ part = "timelock" /\ ParamNext /\ UNCHANGED RestOfQueue
    \/ part = "lists" /\ ListNext /\ UNCHANGED <<queueVars, RestOfAccounts>>
    \/ part = "services" /\ ServiceNext /\ now' <= MaxRecordTime
       /\ UNCHANGED <<queueVars, RestOfAccounts>>

Early == now' <= MaxRecordTime
AllButViews == <<indexVars, rollingVars, archiveVars, RestOfRecords>>
AllButIndex == <<history, rollingVars, archiveVars, RestOfRecords>>
AllButRolling == <<history, indexVars, archiveVars, RestOfRecords>>
AllButArchive == <<history, indexVars, rollingVars, RestOfRecords>>

RecordsNext ==
    \/ part = "views" /\ ViewsNext /\ Early /\ UNCHANGED AllButViews
    \/ part = "index" /\ IndexNext /\ Early /\ UNCHANGED AllButIndex
    \/ part = "badges" /\ BadgeNext /\ Early /\ UNCHANGED AllButRolling
    \/ part = "closings" /\ ClosingNext /\ Early /\ UNCHANGED AllButRolling
    \/ part = "months" /\ MonthNext /\ Early /\ UNCHANGED AllButArchive
    \/ part = "provenance" /\ ProvenanceNext /\ Early /\ UNCHANGED AllButArchive
    \/ part = "compaction" /\ CompactionNext /\ Early /\ UNCHANGED AllButArchive

ReplaysNext == part = "replays" /\ ReplayNext /\ UNCHANGED RestOfReplays

SatellitesNext ==
    \/ LimitsNext \/ MoneyNext \/ OutagesNext \/ PeersNext
    \/ AccountsNext \/ RecordsNext \/ ReplaysNext

\* Time passes, and the queue's keeper keeps taking what waits and executing what
\* it has taken.
SatellitesSpec ==
    /\ SatellitesInit /\ [][SatellitesNext]_satelliteVars
    /\ WF_satelliteVars(part = "queue" /\ Tick /\ UNCHANGED <<queueVars, RestOfQueue>>)
    /\ WF_satelliteVars(part = "queue" /\ DequeueProposal /\ UNCHANGED RestOfQueue)
    /\ WF_satelliteVars(part = "queue" /\ ExecuteTaken /\ UNCHANGED RestOfQueue)

-----------------------------------------------------------------------------
(* What the parts promise, by theme.  A part at rest keeps its promises: they *)
(* are looked at in the behaviours that are about it.                        *)

About(some) == part \in some

\* The limits on what is submitted and paid hold over windows that open and
\* close by themselves and decrees that change them, and no tuning is recommended
\* beyond its target (submission_rate.rs, rate_limit.rs, reward_cap.rs,
\* zero_downtime_bonus.rs, adaptive_tuning.rs).
LimitsHold ==
    /\ [](About({"submissions"}) => SubmissionLimitsHold)
    /\ [](About({"callers"}) => RateLimitHolds)
    /\ [](About({"budget"}) => BudgetIsKept)
    /\ [](About({"tuning"}) => TuningNeverOvershoots)
    /\ [][About({"tuning"}) => TuningHasHysteresis]_satelliteVars

\* Whatever is promised to a claimant or a provider is there to be paid, and is
\* paid once: claims in their windows and collateral against its locks; and the
\* ways to end a dispute beside the vote keep to their windows, their numbers
\* and their order (claim_deadline.rs, collateral_lock.rs, token_rescue.rs,
\* dispute_withdrawal.rs, dispute_force_settle.rs, dispute_appeal.rs,
\* provider_dispute_history.rs).
PayoutsAreCovered ==
    /\ ClaimsAreHonoured
    /\ [](About({"recourse", "appeals", "listing"}) =>
            /\ RecourseTypeOK /\ WithdrawnBeforeForced /\ RefundLeavesAShare
            /\ AppealsAreNumbered /\ PagesTileTheHistory)
    /\ [](About({"collateral"}) => CollateralConserved)

\* What is on record about outages stays coherent: first reports and final
\* resolutions stand, the delay told is the delay booked, excuses outlive their
\* interval and are counted as they are applied, correlated outages form a
\* forest, and what an oracle reports only goes stale (resolution_delay.rs,
\* force_majeure.rs, outage_correlation_tag.rs, oracle.rs).
OutageRecordsHold ==
    /\ [](About({"resolutions"}) =>
            ResolutionTypeOK /\ PendingDelayForecasts /\ NeverBeyondResolution)
    /\ [](About({"excuses"}) => ForceMajeureTypeOK /\ ExcuseViewsAgree)
    /\ [](About({"correlations"}) => CorrelationsHold)
    /\ [](About({"oracle"}) => NewerDataServesAsWell)
    /\ [][About({"oracle"}) => FreshnessOnlyLapses]_satelliteVars
    /\ [][About({"resolutions"}) => FirstReportsStand]_satelliteVars
    /\ [][About({"excuses"}) => ExcuseOutlivesItsInterval]_satelliteVars

\* Sites that depend on each other form a forest whose flags can be cleared and
\* whose status follows the reports; calls into other contracts are tracked as
\* they take effect, the registry of callers is its admin's, and contracts agree
\* on whether they can work together (dependency_propagation.rs,
\* cross_contract_safety.rs, version_negotiation.rs).
PeersHold ==
    /\ [](About({"sites"}) => DependencyTypeOK /\ DependenciesEnd /\ FlagsCanBeCleared)
    /\ [](About({"calls"}) => CoordinationTypeOK /\ CallsAreTracked /\ NegotiationIsMutual)
    /\ [][About({"sites"}) => StatusFollowsReports]_satelliteVars
    /\ [][About({"calls"}) => RegistryIsTheAdmins]_satelliteVars

\* Proposals leave the queue once each in the order of arrival, a keeper that took
\* one early can still execute it, not before its own time, and in the end it
\* does; and no parameter change is applied before its timelock is served
\* (proposal_execution_queue.rs, param_timelock.rs).
ProposalsAreServed ==
    /\ [](About({"queue", "timelock"}) => QueueTypeOK /\ QueueConserved /\ TimelockIsServed)
    /\ QueueDrains

\* The lists of accounts agree with their counters, who is admitted follows the
\* list, and grace ends as announced (whitelist.rs, multi_operator.rs).
AdmissionIsAccounted ==
    /\ [](About({"lists", "services"}) => AccessTypeOK /\ CountsMatchLists)
    /\ [][About({"lists", "services"}) =>
            AdmissionFollowsList /\ GraceEndsAsAnnounced]_satelliteVars

\* What is told of the past is what was: the views and the index of the history,
\* the rolling windows, and the records kept for good (trend.rs,
\* event_filter.rs, event_index.rs, history_snapshot.rs, config_provenance.rs,
\* event_log_compaction.rs).
RecordsAreTold ==
    /\ [](About({"views"}) => HistoryViewsAgree)
    /\ [](About({"index"}) => IndexTellsWhatWas)
    /\ [](About({"badges", "closings"}) => RollingTypeOK /\ WindowRecountsClosings)
    /\ [](About({"months", "provenance", "compaction"}) => ArchiveTypeOK /\ ProvenanceIsWhole)
    /\ [][About({"badges", "closings"}) =>
            AvailabilityFollowsOutages /\ BadgeFollowsOutcomes]_satelliteVars
    /\ [][About({"months", "provenance", "compaction"}) =>
            MonthsAreFinal /\ CompactionLosesNoOutage]_satelliteVars

\* A patient backend books every outage once (offchain/).
ReplaysAreSafe == About({"replays"}) => ReplayTypeOK /\ PatientReplaysAreSafe

-----------------------------------------------------------------------------
(* TLC's small instance.                                                   *)

SomeRates == {[max_per_operator |-> 1, max_total |-> 2, window_seconds |-> 2],
              [max_per_operator |-> 2, max_total |-> 2, window_seconds |-> 3],
              [max_per_operator |-> 2, max_total |-> 1, window_seconds |-> 0]}
SomeLimits == {[max_submissions |-> 1, window_seconds |-> 2],
               [max_submissions |-> 2, window_seconds |-> 3],
               [max_submissions |-> 0, window_seconds |-> 1]}

\* A good settlement, one that goes beyond its narrow fields, and a violation.
Settled(outage, status, payment, rating, minutes, threshold, amount, hash) ==
    [outage_id |-> outage, status |-> status, payment_type |-> payment, rating |-> rating,
     mttr_minutes |-> minutes, threshold_minutes |-> threshold, amount |-> amount,
     recorded_at |-> 0, config_version_hash |-> hash]
SomeOutcomes == {Settled("o1", "met", "rew", "top", 5, 10, 3, 7),
                 Settled("o2", "met", "rew", "good", 8, 17, 5, 9),
                 Settled("o3", "viol", "pen", "poor", 17, 10, -4, 7)}

\* Two proposals of the same number, the earlier one due last.
SomeProposals == {[proposal_id |-> 1, execute_after |-> 3],
                  [proposal_id |-> 1, execute_after |-> 1],
                  [proposal_id |-> 2, execute_after |-> 0]}

SomeBonds == {-21, -1, 0, 1, 19, 20, 100}

SomeReports == [outage_id : {"o1", "o2"}, severity : {1, 2}, description : {"long"}]
=============================================================================
