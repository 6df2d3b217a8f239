\* Three accounts, each of which may be admin, operator, nominee and key
\* holder at once or in turn; a proposal may lapse (after 1 tick) before the
\* migration timelock ends (2 ticks), and both may be used up before MaxTime.
CONSTANTS
    Address = {a1, a2, a3}
    NoOne = NoOne
    ProposalExpiration = 1
    MigrationTimelock = 2
    MaxTime = 3
SPECIFICATION Spec
INVARIANTS
    TypeOK
    VacantAdminHasNoProposal
PROPERTIES
    FollowsAdminHandoff
    FollowsOperatorHandoff
    VersionGate
    FrozenWithoutAdmin
    MigrationNotice
    SeenThroughInterface
\* With version 2, an admin in place and the time at its bound nothing is left to do.
CHECK_DEADLOCK FALSE
