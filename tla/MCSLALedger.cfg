\* One account acts as admin and operator.  Limits of 1 and 2 entries stand
\* for the code's 50 to 5000, with 2 as the default: three settlements reach, pass
\* and evict at every limit, and the third can settle an evicted outage again.
CONSTANTS
    Address = {a1}
    NoOne = NoOne
    NoConfig = NoConfig
    Outage = {o1, o2, o3}
    MaxTime = 2
    Reports <- MCReports
    ConfigInputs <- MCConfigInputs
    ImportInputs <- MCImportInputs
    RetentionInputs = {0, 1}
    DurationInputs = {0, 16}
    PruneInputs = {0, 1}
    MinRetention = 1
    MaxRetention = 2
    DefaultRetention = 2
    DefaultDuration = 10080
    MaxSettled = 3
    MaxUpdates = 1
    Refused = Refused
SPECIFICATION LedgerSpec
INVARIANTS
    TypeOK
    StatsBalance
    OneEntryPerOutage
    ViewsAgree
    HistoryInTimeOrder
PROPERTIES
    OnlyOldestLeave
    GrowthWithinLimit
    KeepsSettlementBook
    OrderBrokenOnlyByImport
CONSTRAINT ClockHasStarted
SYMMETRY Interchangeable
\* A contract whose version has been raised stops when the time is at its bound.
CHECK_DEADLOCK FALSE
