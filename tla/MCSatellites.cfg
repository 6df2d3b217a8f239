SPECIFICATION SatellitesSpec

CONSTANTS
    MaxTime = 5
    MaxRecordTime = 2
    \* submission_rate.rs and rate_limit.rs
    Operator = {op1, op2}
    RateInputs <- SomeRates
    MaxLog = 5
    Caller = {c1, c2}
    LimitInputs <- SomeLimits
    MaxCalls = 5
    \* reward_cap.rs, zero_downtime_bonus.rs
    CapInputs = {0, 2, 4}
    AmountInputs = {0, 1, 3}
    MultiplierInputs = {0, 5000, 20000, 30000}
    MaxDistributed = 8
    \* claim_deadline.rs
    Claim = {claim}
    WindowInputs = {0, 1, 2, 3}
    BpsInputs = {0, 1, 20000}
    GrossInputs = {0, 1, 3}
    MAX_WINDOW_S = 2
    MAX_EXTENSIONS = 2
    MAX_CLAIM_BPS = 20000
    MaxOpenings = 2
    \* collateral_lock.rs, token_rescue.rs
    Provider = {p1, p2}
    LockInputs = {0, 1, 2}
    CoverageInputs = {0, 5000, 20000}
    MAX_COVERAGE_BPS = 20000
    MaxReceived = 5
    \* resolution_delay.rs, force_majeure.rs, outage_correlation_tag.rs
    Outage = {o1, o2}
    MAX_DELAY_S = 2
    Excusable = {f1}
    Governor = {g1, g2}
    MAX_EXCUSE_S = 3
    Tagged = {t1, t2, t3}
    Downtimes = {0, 2}
    NoParent = None
    \* one step, so that chains go beyond it
    MAX_CORRELATION_DEPTH = 1
    \* dependency_propagation.rs
    Site = {s1, s2, s3}
    NoSite = NoSite
    \* the last one is none of the code's
    Statuses = {0, 1, 2, 3}
    \* cross_contract_safety.rs, version_negotiation.rs
    Peer = {k1, k2}
    Manager = {m1, m2}
    NoManager = NoManager
    Tag = {tag1, tag2}
    MaxTracked = 3
    PROTOCOL_VERSION = 2
    MIN_COMPATIBLE_PROTOCOL = 1
    ProtocolInputs = {0, 1, 2, 3}
    \* proposal_execution_queue.rs, param_timelock.rs
    Proposals <- SomeProposals
    MaxQueued = 3
    MaxAnnounced = 1
    ParamTimelock = 2
    \* whitelist.rs, multi_operator.rs
    Account = {acc1, acc2}
    OperatorRole = {reporter, guard}
    NoRole = NoRole
    GraceInputs = {0, 1, 2}
    DefaultGrace = 1
    \* trend.rs, event_filter.rs, event_compression.rs
    Outcome <- SomeOutcomes
    MaxHistory = 3
    BucketInputs = {1, 2, 3}
    NoFilter = NoFilter
    MinuteWidth = 16
    TimeWidth = 2
    HashWidth = 8
    HalfAmount = 4
    Rated = {r1}
    MaxOutcomes = 3
    MaxClosings = 2
    TIER_WINDOW = 1
    ROLLING_WINDOW = 1
    GOLD = 8000
    SILVER = 6000
    BRONZE = 4000
    \* event_index.rs
    Indexed = {x1, x2, x3}
    MaxEntries = 2
    SizeInputs = {0, 1}
    DefaultSize = 5
    MaxIndexed = 3
    \* history_snapshot.rs, config_provenance.rs, event_log_compaction.rs
    Month = {0, 1, 2}
    Verdict = {met, viol}
    Tier = {low, high}
    admin1 = admin1
    admin2 = admin2
    Author = {admin1, admin2}
    NoAuthor = NoAuthor
    Nobody = Nobody
    Threshold = {10, 20}
    MaxChanges = 2
    Report <- SomeReports
    NoRecord = NoRecord
    \* adaptive_tuning.rs
    TargetInputs = {5000, 9500}
    StepInputs = {100, 2000}
    \* the last one is negative as a signed word
    LimitInputsBps = {0, 500, 40000}
    Word = 65536
    MaxJudged = 5
    \* oracle.rs
    StalenessInputs = {0, 2}
    ConfirmationInputs = {0, 2}
    MaxConfirmations = 1
    \* dispute_withdrawal.rs, dispute_appeal.rs, dispute_force_settle.rs
    Contested = {d1, d2}
    BondInputs <- SomeBonds
    AppealLimits = {0, 1, 2, 3, 4}
    WITHDRAWAL_S = 1
    APPEAL_S = 1
    INACTIVE_S = 2
    MAX_APPEALS_CEILING = 3
    PageWord = 16
    MaxEvents = 2
    MaxListed = 3
    \* offchain/
    Job = {j1}
    MaxAttempts = 3
    Validity = 1

INVARIANTS
    ReplaysAreSafe

PROPERTIES
    LimitsHold
    PayoutsAreCovered
    OutageRecordsHold
    PeersHold
    ProposalsAreServed
    AdmissionIsAccounted
    RecordsAreTold

CHECK_DEADLOCK FALSE
