CONSTANTS
    Address = {a1, a2}
    NoOne = NoOne
    ProposalExpiration = 1
    MigrationTimelock = 2
    MaxTime = 3
SPECIFICATION Spec
INVARIANTS MigrationCompletable
CHECK_DEADLOCK FALSE
