\* One outage, submitted up to twice; a submission is valid for a ledger.
CONSTANTS
    MaxTime = 3
    Job = {j1}
    MaxAttempts = 2
    Validity = 1
SPECIFICATION ReplaySpec
INVARIANT NeverAppliedTwice
CHECK_DEADLOCK FALSE
