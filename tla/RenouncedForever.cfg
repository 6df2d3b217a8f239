CONSTANTS
    Address = {a1, a2}
    NoOne = NoOne
    ProposalExpiration = 1
    MigrationTimelock = 2
    MaxTime = 3
SPECIFICATION Spec
PROPERTIES RenouncedForever
CHECK_DEADLOCK FALSE
