\* Quorum and list length are scaled from 3 of 5 to 2 of 2; the timelock (2)
\* outlasts an admin offer (1), so both protocols can finish and can lapse.
\* A rollback can be begun at two different times, and a migration key matures in
\* time to run out the version under both.
CONSTANTS
    a1 = a1
    a2 = a2
    Address = {a1, a2}
    NoOne = NoOne
    NoConfig = NoConfig
    ProposalExpiration = 1
    MigrationTimelock = 1
    MaxTime = 3
    MaxRollbackTime = 1
    Quorum = 2
    MaxGuardians = 2
    RotationTimelock = 2
    GuardianLists <- MCGuardianLists
    ConfigInputs <- MCConfigInputs
    ImportInputs <- MCImportInputs
    \* threshold_config.rs
    Steward = {a1, a2}
    Table = {table1, table2}
    NoTable = NoTable
    MaxProposals = 3
    LastId = 4
    \* breach_escalation.rs and penalty_escalation.rs
    Breacher = {b1, b2}
    LevelInputs = {0, 1, 2, 3, 4}
    BaseInputs = {0, 500, 9000}
    Filed = {o1, o2}
    TriggerInputs <- MCTriggers
    MAX_STRIKES = 3
    MaxViolations = 4
SPECIFICATION CustodySpec
INVARIANTS
    TierTablesAsAnnounced
    EscalationIsEarned
PROPERTIES
    AdminCustody
    ConfigSurvivesRollback
    RollbackCustody
CHECK_DEADLOCK FALSE
