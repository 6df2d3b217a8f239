CONSTANTS
    Address = {a1}
    NoOne = NoOne
    NoConfig = NoConfig
    Outage = {o1, o2, o3}
    MaxTime = 1
    Reports <- MCReports
    ConfigInputs <- MCConfigInputs
    ImportInputs <- MCImportInputs
    RetentionInputs = {0, 1}
    DurationInputs = {0, 16}
    PruneInputs = {0, 1}
    MinRetention = 1
    MaxRetention = 2
    DefaultRetention = 2
    DefaultDuration = 10080
    MaxSettled = 3
    MaxUpdates = 1
    Refused = Refused
SPECIFICATION LedgerSpec
INVARIANTS SameResultOnRetry
CHECK_DEADLOCK FALSE
