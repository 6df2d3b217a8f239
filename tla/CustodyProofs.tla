--------------------------- MODULE CustodyProofs ---------------------------
(***************************************************************************)
(* Rotations of the admin key, emergency rollbacks and proposals of penalty  *)
(* tables, proved for every set of accounts, guardians and configurations,   *)
(* every quorum and timelock, and every number of proposals that their      *)
(* numbering can tell apart.                                               *)
(*                                                                         *)
(* Each part has an inductive invariant of its own:                         *)
(*   RInv  adds to the types of a rotation that an upgrade on the log leads   *)
(*         to the current version, which has been current ever since: without *)
(*         it a second call of perform_upgrade might follow the first;       *)
(*   EInv  adds that a contract without a configuration has no admin, so that  *)
(*         there is always something to save when a rollback is initiated;    *)
(*   TInv  adds that the proposals are numbered without a gap, so that a       *)
(*         number is a place on the agenda, and that the table in force is    *)
(*         the one at the place it was executed by.                         *)
(***************************************************************************)
EXTENDS EmergencyRollback, TierProposals, KeyRotation, SLAGovernanceProofs,
        FiniteSetTheorems, SequenceTheorems

-----------------------------------------------------------------------------
(* Key rotation.                                                           *)

\* What the log tells is the present version's doing.
LogIsCurrent ==
    /\ Len(upgradeLog) <= 1
    /\ upgradeLog # <<>> => /\ version >= STORAGE_VERSION
                            /\ upgradeLog[1].from_version < upgradeLog[1].to_version
                            /\ upgradeLog[1].to_version = STORAGE_VERSION

RInv == Inv /\ RotationTypeOK /\ LogIsCurrent

-----------------------------------------------------------------------------
(* The inductive invariant.                                                *)

LEMMA RotationInitEstablishesInv == RotationInit => RInv
  <1> SUFFICES ASSUME RotationInit PROVE RInv
    OBVIOUS
  <1>1. Inv
    BY InitEstablishesInv DEF RotationInit
  <1>2. /\ guardians \subseteq Address /\ rotation = NoRotation
        /\ upgradeLog \in Seq(UpgradeRecord) /\ LogIsCurrent
    BY DEF RotationInit, LogIsCurrent
  <1> QED
    BY <1>1, <1>2 DEF RInv, Inv, RotationTypeOK

\* Every step is one of these calls.
LEMMA RotationCases ==
  ASSUME RotationNext
  PROVE  \/ HandoffStep \/ ExecuteKeyRotation
         \/ \E c \in Address, list \in GuardianLists : SetGuardians(c, list)
         \/ \E c, n \in Address : ProposeKeyRotation(c, n)
         \/ \E c \in Address : CancelKeyRotation(c) \/ PerformUpgrade(c)
  BY Zenon DEF RotationNext, GuardianCall

\* The calls of lib.rs beside the rotation are calls of SLAGovernance.
LEMMA HandoffIsGovernance == HandoffStep => Next /\ UNCHANGED rotationVars
  BY Zenon DEF HandoffStep, Next, SwitchCall, UpgradeCall

\* They never take the storage back to a version before the current one.
LEMMA VersionStaysCurrent ==
  ASSUME TypeOK, HandoffStep, version >= STORAGE_VERSION
  PROVE  version' >= STORAGE_VERSION
  <1>1. \/ Tick \/ GetPendingAdmin
        \/ \E n \in Address : Initialize(n, n)
        \/ \E c \in Address : AdminHandoffCall(c)
        \/ \E c \in Address : UpgradeCall(c)
    BY Zenon DEF HandoffStep
  <1>2. version' \in {version, version + 1, STORAGE_VERSION}
    <2>1. CASE Tick \/ GetPendingAdmin
      BY <2>1 DEF Tick, GetPendingAdmin, upgradeVars
    <2>2. CASE \E n \in Address : Initialize(n, n)
      BY <2>2 DEF Initialize
    <2>3. CASE \E c \in Address : AdminHandoffCall(c)
      BY <2>3 DEF AdminHandoffCall, AcceptAdmin, CancelAdminProposal, RenounceAdmin,
                  ProposeAdmin, upgradeVars
    <2>4. CASE \E c \in Address : UpgradeCall(c)
      BY <2>4 DEF UpgradeCall, Migrate, ExecuteMigration, SetMigrationKey
    <2> QED
      BY <1>1, <2>1, <2>2, <2>3, <2>4
  <1>3. version \in Nat
    BY DEF TypeOK
  <1> QED
    BY <1>2, <1>3 DEF STORAGE_VERSION

\* A nomination, new or joined, is a proposal for its nominee.
LEMMA NominationType ==
  ASSUME RotationTypeOK, NEW n \in Address, NEW c \in Address
  PROVE  /\ [ProposalFor(n) EXCEPT !.approvals = @ \cup {c}] \in RotationProposal
         /\ [ProposalFor(n) EXCEPT !.approvals = @ \cup {c}].new_admin = n
  BY DEF RotationTypeOK, TypeOK, ProposalFor, RotationProposal, NoRotation

LEMMA RotationPreservesInv == RInv /\ [RotationNext]_allVars => RInv'
  <1> SUFFICES ASSUME RInv, [RotationNext]_allVars PROVE RInv'
    OBVIOUS
  <1> USE DEF RInv
  <1>0. RotationTypeOK /\ TypeOK /\ Inv /\ LogIsCurrent
    BY DEF RotationTypeOK
  <1>1. CASE UNCHANGED allVars
    <2>1. UNCHANGED govVars /\ UNCHANGED <<guardians, rotation, upgradeLog>>
      BY <1>1 DEF allVars, rotationVars
    <2>2. Inv'
      BY <1>0, <2>1, CallPreservesInv
    <2>3. version' = version
      BY <2>1 DEF govVars, upgradeVars
    <2> QED
      BY <1>0, <2>1, <2>2, <2>3
         DEF Inv, RotationTypeOK, LogIsCurrent, RotationProposal, UpgradeRecord
  <1>2. CASE HandoffStep
    <2>1. Inv' /\ UNCHANGED <<guardians, rotation, upgradeLog>>
      BY <1>0, <1>2, CallPreservesInv, HandoffIsGovernance DEF rotationVars
    <2>2. version >= STORAGE_VERSION => version' >= STORAGE_VERSION
      BY <1>0, <1>2, VersionStaysCurrent
    <2> QED
      BY <1>0, <2>1, <2>2
         DEF Inv, RotationTypeOK, LogIsCurrent, RotationProposal, UpgradeRecord
  <1>3. CASE ExecuteKeyRotation
    <2>1. /\ admin' = rotation.new_admin /\ rotation' = NoRotation
          /\ UNCHANGED <<now, operator, pendingAdmin, pendingOperator, pauseVars,
                         upgradeVars, guardians, upgradeLog>>
          /\ rotation # NoRotation
      BY <1>3 DEF ExecuteKeyRotation
    <2>2. admin' \in Address
      BY <1>0, <2>1 DEF RotationTypeOK, RotationProposal
    <2>3. Inv'
      BY <1>0, <2>1, <2>2, NoOneAssumption
         DEF Inv, TypeOK, VacantAdminHasNoProposal, pauseVars, upgradeVars, Time
    <2> QED
      BY <1>0, <2>1, <2>3
         DEF Inv, RotationTypeOK, LogIsCurrent, RotationProposal, UpgradeRecord, upgradeVars
  <1>4. ASSUME NEW c \in Address, NEW list \in GuardianLists, SetGuardians(c, list)
        PROVE  RInv'
    <2>1. guardians' = Range(list) /\ UNCHANGED <<govVars, rotation, upgradeLog>>
      BY <1>4, SMTT(30) DEF SetGuardians
    <2>2. guardians' \subseteq Address
      BY <2>1, RotationAssumption DEF Range
    <2>3. Inv' /\ version' = version
      BY <1>0, <2>1, CallPreservesInv DEF govVars, upgradeVars
    <2> QED
      BY <1>0, <2>1, <2>2, <2>3
         DEF Inv, RotationTypeOK, LogIsCurrent, RotationProposal, UpgradeRecord
  <1>5. ASSUME NEW c \in Address, NEW n \in Address, ProposeKeyRotation(c, n)
        PROVE  RInv'
    <2>1. /\ rotation' = [ProposalFor(n) EXCEPT !.approvals = @ \cup {c}]
          /\ UNCHANGED <<govVars, guardians, upgradeLog>>
      BY <1>5 DEF ProposeKeyRotation
    <2>2. rotation' \in RotationProposal
      BY <1>0, <2>1, NominationType
    <2>3. Inv' /\ version' = version
      BY <1>0, <2>1, CallPreservesInv DEF govVars, upgradeVars
    <2> QED
      BY <1>0, <2>1, <2>2, <2>3
         DEF Inv, RotationTypeOK, LogIsCurrent, RotationProposal, UpgradeRecord
  <1>6. ASSUME NEW c \in Address, CancelKeyRotation(c) PROVE RInv'
    <2>1. rotation' = NoRotation /\ UNCHANGED <<govVars, guardians, upgradeLog>>
      BY <1>6 DEF CancelKeyRotation
    <2>2. Inv' /\ version' = version
      BY <1>0, <2>1, CallPreservesInv DEF govVars, upgradeVars
    <2> QED
      BY <1>0, <2>1, <2>2
         DEF Inv, RotationTypeOK, LogIsCurrent, RotationProposal, UpgradeRecord
  <1>7. ASSUME NEW c \in Address, PerformUpgrade(c) PROVE RInv'
    <2> DEFINE record == [from_version |-> version, to_version |-> STORAGE_VERSION,
                          timestamp |-> now, upgraded_by |-> c]
    <2>1. /\ version < STORAGE_VERSION /\ version' = STORAGE_VERSION
          /\ upgradeLog' = Append(upgradeLog, record)
          /\ UNCHANGED <<now, roleVars, pauseVars, migrationKey, guardians, rotation>>
      BY <1>7 DEF PerformUpgrade
    <2>2. version \in Nat /\ now \in Time
      BY <1>0 DEF TypeOK
    <2>3. record \in UpgradeRecord
      BY <2>2 DEF UpgradeRecord, STORAGE_VERSION
    <2>4. upgradeLog = <<>>
      BY <1>0, <2>1, <2>2 DEF LogIsCurrent, STORAGE_VERSION
    <2>5. upgradeLog' = <<record>>
      BY <2>1, <2>4, <2>3
    <2>6. Inv'
      BY <1>0, <2>1 DEF Inv, TypeOK, VacantAdminHasNoProposal, roleVars, pauseVars,
                        STORAGE_VERSION, Time, Proposal, Key
    <2>7. LogIsCurrent'
      BY <2>1, <2>2, <2>5 DEF LogIsCurrent, STORAGE_VERSION
    <2>8. upgradeLog' \in Seq(UpgradeRecord)
      BY <2>3, <2>5
    <2> QED
      BY <1>0, <2>1, <2>6, <2>7, <2>8
         DEF Inv, RotationTypeOK, RotationProposal, UpgradeRecord
  <1> QED
    BY <1>1, <1>2, <1>3, <1>4, <1>5, <1>6, <1>7, RotationCases

LEMMA RotationInvHolds == RotationSpec => []RInv
  BY RotationInitEstablishesInv, RotationPreservesInv, PTL DEF RotationSpec

\* An upgrade is logged once and has happened.
LEMMA LogTellsTheTruth == RInv => RotationTypeOK /\ UpgradeLoggedOnce
  <1> SUFFICES ASSUME RInv PROVE UpgradeLoggedOnce
    BY DEF RInv
  <1>1. upgradeLog \in Seq(UpgradeRecord) /\ version \in Nat /\ LogIsCurrent
    BY DEF RInv, RotationTypeOK, TypeOK
  <1>2. ASSUME upgradeLog # <<>> PROVE Len(upgradeLog) = 1
    <2>1. Len(upgradeLog) \in Nat /\ Len(upgradeLog) # 0
      BY <1>1, <1>2, EmptySeq, Zenon, LenProperties
    <2>2. Len(upgradeLog) <= 1
      BY <1>1, Zenon DEF LogIsCurrent
    <2>3. \A n \in Nat : n # 0 /\ n <= 1 => n = 1
      OBVIOUS
    <2> QED
      BY <2>1, <2>2, <2>3, Zenon
  <1> QED
    BY <1>1, <1>2 DEF UpgradeLoggedOnce, get_last_upgrade, LogIsCurrent, STORAGE_VERSION

-----------------------------------------------------------------------------
(* What a step may not do.                                                 *)

\* A rotation changes by a nomination, and ends by its execution or by an
\* admin's call.
LEMMA RotationChanges ==
  ASSUME [RotationNext]_allVars, rotation' # rotation
  PROVE  \/ ExecuteKeyRotation
         \/ \E c, n \in Address : ProposeKeyRotation(c, n)
         \/ \E c \in Address : CancelKeyRotation(c)
  BY RotationCases DEF HandoffStep, SetGuardians, PerformUpgrade, allVars, rotationVars

LEMMA NominationStep ==
  ASSUME RInv, [RotationNext]_allVars,
         rotation # NoRotation, rotation' # NoRotation, rotation' # rotation
  PROVE  IF rotation'.new_admin = rotation.new_admin
           THEN /\ rotation'.initiated_at = rotation.initiated_at
                /\ rotation.approvals \subseteq rotation'.approvals
           ELSE /\ rotation'.initiated_at = now
                /\ Cardinality(rotation'.approvals) = 1
  <1>1. PICK c \in Address, n \in Address : ProposeKeyRotation(c, n)
    BY RotationChanges DEF ExecuteKeyRotation, CancelKeyRotation
  <1>2. rotation \in RotationProposal
    BY DEF RInv, RotationTypeOK
  <1>3. CASE rotation.new_admin = n
    <2>1. rotation' = [rotation EXCEPT !.approvals = @ \cup {c}]
      BY <1>1, <1>3 DEF ProposeKeyRotation, ProposalFor
    <2> QED
      BY <1>2, <1>3, <2>1 DEF RotationProposal
  <1>4. CASE rotation.new_admin # n
    <2>1. rotation' = [new_admin |-> n, initiated_at |-> now, approvals |-> {} \cup {c}]
      BY <1>1, <1>4 DEF ProposeKeyRotation, ProposalFor
    <2>2. rotation'.new_admin = n /\ rotation'.initiated_at = now /\ rotation'.approvals = {c}
      BY <2>1
    <2> QED
      BY <1>4, <2>2, FS_Singleton
  <1> QED
    BY <1>3, <1>4

\* Of the calls of lib.rs, three change who is admin.
LEMMA AdminChanges ==
  ASSUME [RotationNext]_allVars, admin' # admin
  PROVE  \/ ExecuteKeyRotation
         \/ /\ rotation' = rotation
            /\ \/ \E n \in Address : Initialize(n, n)
               \/ \E c \in Address : AcceptAdmin(c) \/ RenounceAdmin(c)
  <1>1. ExecuteKeyRotation \/ HandoffStep
    BY RotationCases DEF SetGuardians, ProposeKeyRotation, CancelKeyRotation, PerformUpgrade,
                         allVars, govVars, roleVars
  <1>2. CASE HandoffStep
    BY <1>2 DEF HandoffStep, Tick, GetPendingAdmin, AdminHandoffCall, CancelAdminProposal,
                ProposeAdmin, UpgradeCall, Migrate, ExecuteMigration, SetMigrationKey,
                roleVars, rotationVars
  <1> QED
    BY <1>1, <1>2

LEMMA AdminStep ==
  ASSUME RInv, [RotationNext]_allVars, admin' # admin
  PROVE  \/ /\ pendingAdmin # NoProposal
            /\ admin' = pendingAdmin.target
            /\ pendingAdmin' = NoProposal
            /\ ~Expired(pendingAdmin)
         \/ admin = NoOne /\ version' = STORAGE_VERSION /\ rotation' = rotation
         \/ /\ rotation # NoRotation /\ rotation' = NoRotation
            /\ admin' = rotation.new_admin
            /\ Cardinality(rotation.approvals) >= Quorum
            /\ now - rotation.initiated_at >= RotationTimelock
         \/ admin' = NoOne
  <1>1. CASE ExecuteKeyRotation
    <2>1. rotation \in RotationProposal /\ now \in Time
      BY <1>1 DEF ExecuteKeyRotation, RInv, RotationTypeOK, TypeOK
    <2>2. rotation.initiated_at \in Int /\ now \in Int
      BY <2>1, TimeAssumption DEF RotationProposal, Time
    <2>3. now - rotation.initiated_at >= RotationTimelock
      BY <1>1, <2>2, RotationAssumption DEF ExecuteKeyRotation
    <2>4. /\ rotation # NoRotation /\ rotation' = NoRotation
          /\ admin' = rotation.new_admin
          /\ Cardinality(rotation.approvals) >= Quorum
      BY <1>1, Zenon DEF ExecuteKeyRotation
    <2> QED
      BY <2>3, <2>4, Zenon
  <1>2. ASSUME NEW n \in Address, Initialize(n, n), rotation' = rotation
        PROVE  admin = NoOne /\ version' = STORAGE_VERSION /\ rotation' = rotation
    BY <1>2 DEF Initialize
  <1>3. ASSUME NEW c \in Address, AcceptAdmin(c)
        PROVE  /\ pendingAdmin # NoProposal
               /\ admin' = pendingAdmin.target
               /\ pendingAdmin' = NoProposal
               /\ ~Expired(pendingAdmin)
    BY <1>3, Zenon DEF AcceptAdmin
  <1>4. ASSUME NEW c \in Address, RenounceAdmin(c) PROVE admin' = NoOne
    BY <1>4 DEF RenounceAdmin
  <1> QED
    BY <1>1, <1>2, <1>3, <1>4, AdminChanges

\* The admin key changes hands by an accepted offer, a new deployment, a quorum
\* of guardians that waited for the timelock, or not at all; nominations do not
\* mix and upgrades are logged once, whatever migrations run in between
\* (upgrade_path.rs beside lib.rs).
THEOREM CustodyOfTheAdminKey == RotationSpec => AdminCustody
  <1>1. RInv /\ [RotationNext]_allVars =>
          (rotation # NoRotation /\ rotation' # NoRotation /\ rotation' # rotation =>
             IF rotation'.new_admin = rotation.new_admin
               THEN /\ rotation'.initiated_at = rotation.initiated_at
                    /\ rotation.approvals \subseteq rotation'.approvals
               ELSE /\ rotation'.initiated_at = now
                    /\ Cardinality(rotation'.approvals) = 1)
    BY NominationStep
  <1>2. RInv /\ [RotationNext]_allVars =>
          (admin' # admin =>
             \/ /\ pendingAdmin # NoProposal
                /\ admin' = pendingAdmin.target
                /\ pendingAdmin' = NoProposal
                /\ ~Expired(pendingAdmin)
             \/ admin = NoOne /\ version' = STORAGE_VERSION /\ rotation' = rotation
             \/ /\ rotation # NoRotation /\ rotation' = NoRotation
                /\ admin' = rotation.new_admin
                /\ Cardinality(rotation.approvals) >= Quorum
                /\ now - rotation.initiated_at >= RotationTimelock
             \/ admin' = NoOne)
    BY AdminStep
  <1> QED
    BY <1>1, <1>2, LogTellsTheTruth, RotationInvHolds, PTL
       DEF RotationSpec, AdminCustody, NominationsDoNotMix, AdminIsEarned

-----------------------------------------------------------------------------
(* Emergency rollback.                                                     *)

EInv ==
    /\ Inv
    /\ EmergencyTypeOK
    /\ configs = NoConfigs => admin = NoOne

-----------------------------------------------------------------------------
(* Configurations.                                                         *)

\* Both copies of the defaults are complete, and nothing is not a copy of them.
LEMMA DefaultsAreConfigs ==
  /\ DefaultConfigs \in ConfigMap /\ DefaultConfigs # NoConfigs
  /\ RollbackDefaults \in ConfigMap /\ RollbackDefaults # NoConfigs
  /\ NoConfigs \in ConfigMap
  <1>1. \A t, p, r \in Nat : DefaultConfig(t, p, r) \in SLAConfig
    BY DEF DefaultConfig, SLAConfig
  <1>2. DefaultConfigs \in ConfigMap /\ RollbackDefaults \in ConfigMap /\ NoConfigs \in ConfigMap
    BY <1>1 DEF DefaultConfigs, RollbackDefaults, NoConfigs, ConfigMap, Severity
  <1>3. NoConfigs["critical"] = NoConfigs["high"]
    BY DEF NoConfigs, Severity
  <1>4. DefaultConfigs["critical"] # DefaultConfigs["high"]
    BY DEF DefaultConfigs, DefaultConfig
  <1>5. RollbackDefaults["critical"] # RollbackDefaults["high"]
    BY DEF RollbackDefaults, DefaultConfig
  <1> QED
    BY <1>2, <1>3, <1>4, <1>5

\* A map of which each severity is in bounds, fits its severity and fits the others.
LEMMA AgreesByParts ==
  ASSUME NEW map,
         \A s \in Severity : map[s] # NoConfig /\ InBounds(map[s]) /\ FitsSeverity(s, map[s]),
         \A s, t \in Severity : Rank[s] < Rank[t] => Stricter(map[s], map[t])
  PROVE  Agrees(map)
  <1> SUFFICES ASSUME NEW s \in Severity, NEW other \in Severity \ {s}
               PROVE  /\ s \in Configured(map) /\ other \in Configured(map)
                      /\ IF Rank[other] < Rank[s] THEN Stricter(map[other], map[s])
                         ELSE Stricter(map[s], map[other])
    BY DEF Agrees, ValidateConfig, FitsOthers, Configured
  <1>1. ~(Rank[other] < Rank[s]) => Rank[s] < Rank[other]
    BY DEF Rank, Severity
  <1> QED
    BY <1>1 DEF Configured

\* What a default configuration says.
LEMMA DefaultConfigParts ==
  \A t, p, r \in Nat : /\ DefaultConfig(t, p, r).threshold_minutes = t
                       /\ DefaultConfig(t, p, r).penalty_per_minute = p
                       /\ DefaultConfig(t, p, r).reward_base = r
  BY DEF DefaultConfig

\* What is stored agrees after initialize, reset_config_to_defaults and
\* execute_rollback.
LEMMA DefaultsAgree == Agrees(DefaultConfigs) /\ Agrees(RollbackDefaults)
  <1>1. ASSUME NEW map \in {DefaultConfigs, RollbackDefaults}, NEW s \in Severity
        PROVE  map[s] # NoConfig /\ InBounds(map[s]) /\ FitsSeverity(s, map[s])
    <2>1. map[s] \in SLAConfig
      <3>1. \A t, p, r \in Nat : DefaultConfig(t, p, r) \in SLAConfig
        BY DEF DefaultConfig, SLAConfig
      <3> QED
        BY <1>1, <3>1 DEF DefaultConfigs, RollbackDefaults, Severity
    <2>2. InBounds(map[s]) /\ FitsSeverity(s, map[s])
      <3>1. CASE s = "critical"
        <4>1. map[s] = DefaultConfig(15, 100, 750)
          BY <1>1, <3>1 DEF DefaultConfigs, RollbackDefaults
        <4>2. /\ map[s].threshold_minutes = 15
              /\ map[s].penalty_per_minute \in {100}
              /\ map[s].reward_base \in {750}
          BY <4>1, DefaultConfigParts
        <4>3. InBounds(map[s])
          BY <4>2 DEF InBounds
        <4>4. FitsSeverity(s, map[s])
          BY <3>1, <4>2 DEF FitsSeverity
        <4> QED
          BY <4>3, <4>4
      <3>2. CASE s = "high"
        <4>1. map[s] \in {DefaultConfig(30, 50, 500), DefaultConfig(30, 50, 750)}
          BY <1>1, <3>2 DEF DefaultConfigs, RollbackDefaults
        <4>2. /\ map[s].threshold_minutes = 30
              /\ map[s].penalty_per_minute \in {50}
              /\ map[s].reward_base \in {500, 750}
          BY <4>1, DefaultConfigParts
        <4>3. InBounds(map[s])
          BY <4>2 DEF InBounds
        <4>4. FitsSeverity(s, map[s])
          BY <3>2, <4>2 DEF FitsSeverity
        <4> QED
          BY <4>3, <4>4
      <3>3. CASE s = "medium"
        <4>1. map[s] \in {DefaultConfig(60, 20, 250), DefaultConfig(60, 25, 750)}
          BY <1>1, <3>3 DEF DefaultConfigs, RollbackDefaults
        <4>2. /\ map[s].threshold_minutes = 60
              /\ map[s].penalty_per_minute \in {20, 25}
              /\ map[s].reward_base \in {250, 750}
          BY <4>1, DefaultConfigParts
        <4>3. InBounds(map[s])
          BY <4>2 DEF InBounds
        <4>4. FitsSeverity(s, map[s])
          BY <3>3, <4>2 DEF FitsSeverity
        <4> QED
          BY <4>3, <4>4
      <3>4. CASE s = "low"
        <4>1. map[s] \in {DefaultConfig(120, 5, 100), DefaultConfig(120, 10, 600)}
          BY <1>1, <3>4 DEF DefaultConfigs, RollbackDefaults
        <4>2. /\ map[s].threshold_minutes = 120
              /\ map[s].penalty_per_minute \in {5, 10}
              /\ map[s].reward_base \in {100, 600}
          BY <4>1, DefaultConfigParts
        <4>3. InBounds(map[s])
          BY <4>2 DEF InBounds
        <4>4. FitsSeverity(s, map[s])
          BY <3>4, <4>2 DEF FitsSeverity
        <4> QED
          BY <4>3, <4>4
      <3> QED
        BY <3>1, <3>2, <3>3, <3>4 DEF Severity
    <2> QED
      BY <2>1, <2>2, ConfigInputAssumption
  <1>2. ASSUME NEW map \in {DefaultConfigs, RollbackDefaults},
               NEW s \in Severity, NEW t \in Severity, Rank[s] < Rank[t]
        PROVE  Stricter(map[s], map[t])
    <2> USE DEF Rank, Stricter, DefaultConfigs, RollbackDefaults, DefaultConfig, Severity
    <2>1. CASE s = "critical"
      BY <1>2, <2>1
    <2>2. CASE s = "high"
      BY <1>2, <2>2
    <2>3. CASE s = "medium"
      BY <1>2, <2>3
    <2>4. CASE s = "low"
      BY <1>2, <2>4
    <2> QED
      BY <1>2, <2>1, <2>2, <2>3, <2>4
  <1>3. \A map \in {DefaultConfigs, RollbackDefaults} : Agrees(map)
    BY <1>1, <1>2, AgreesByParts
  <1> QED
    BY <1>3

\* A change that set_config accepts keeps all severities valid, also those that
\* were validated against what was stored before.
LEMMA AcceptedKeepsAgreement ==
  ASSUME NEW map \in ConfigMap, Agrees(map), NEW severity \in Severity,
         NEW config \in SLAConfig, ValidateConfig(severity, config, map)
  PROVE  LET updated == [map EXCEPT ![severity] = config]
         IN  updated \in ConfigMap /\ updated # NoConfigs /\ Agrees(updated)
  <1> DEFINE updated == [map EXCEPT ![severity] = config]
  <1>1. /\ updated \in ConfigMap
        /\ updated[severity] = config
        /\ \A s \in Severity \ {severity} : updated[s] = map[s]
    BY DEF ConfigMap
  <1>2. config # NoConfig
    BY ConfigInputAssumption
  <1>3. \A s \in Severity : Rank[s] \in Nat
    BY DEF Rank, Severity
  <1>4. \A s \in Severity \ {severity} :
          /\ map[s] # NoConfig
          /\ IF Rank[s] < Rank[severity] THEN Stricter(map[s], config)
             ELSE Stricter(config, map[s])
    BY DEF ValidateConfig, FitsOthers, Configured
  <1> HIDE DEF updated
  <1>5. ASSUME NEW s \in Severity
        PROVE  updated[s] # NoConfig /\ InBounds(updated[s]) /\ FitsSeverity(s, updated[s])
    <2>1. CASE s = severity
      BY <1>1, <1>2, <2>1 DEF ValidateConfig
    <2>2. CASE s # severity
      BY <1>1, <1>4, <2>2 DEF Agrees, ValidateConfig
    <2> QED
      BY <2>1, <2>2
  <1>6. ASSUME NEW s \in Severity, NEW t \in Severity, Rank[s] < Rank[t]
        PROVE  Stricter(updated[s], updated[t])
    <2>1. s # t /\ ~(Rank[t] < Rank[s])
      BY <1>3, <1>6
    <2>2. CASE s = severity
      BY <1>1, <1>4, <2>1, <2>2
    <2>3. CASE t = severity
      BY <1>1, <1>4, <1>6, <2>1, <2>3
    <2>4. CASE s # severity /\ t # severity
      BY <1>1, <1>6, <2>1, <2>4 DEF Agrees, ValidateConfig, FitsOthers
    <2> QED
      BY <2>2, <2>3, <2>4
  <1>7. Agrees(updated)
    BY <1>5, <1>6, AgreesByParts
  <1>8. updated # NoConfigs
    BY <1>5 DEF NoConfigs
  <1> QED
    BY <1>1, <1>7, <1>8 DEF updated

-----------------------------------------------------------------------------
(* The inductive invariant.                                                *)

LEMMA EmergencyInitEstablishesInv == EmergencyInit => EInv
  <1> SUFFICES ASSUME EmergencyInit PROVE EInv
    OBVIOUS
  <1>1. Inv
    BY InitEstablishesInv DEF EmergencyInit
  <1>2. /\ configs = IF admin = NoOne THEN NoConfigs ELSE DefaultConfigs
        /\ snapshot = NoConfigs /\ rollback = NoRollback
    BY DEF EmergencyInit
  <1> QED
    BY <1>1, <1>2, DefaultsAreConfigs DEF EInv, EmergencyTypeOK, Inv

\* Every step is one of these calls.
LEMMA EmergencyCases ==
  ASSUME EmergencyNext
  PROVE  \/ PauseOrRoleStep
         \/ \E n \in Address : SetUp(n)
         \/ \E c \in Address : InitiateRollback(c) \/ ExecuteRollback(c) \/ UndoRollback(c)
         \/ \E c \in Address : ResetConfigToDefaults(c) \/ PauseCall(c)
         \/ \E c \in Address, input \in ConfigInputs : SetConfig(c, input.severity, input.config)
         \/ \E c \in Address, imported \in ImportInputs : ImportConfigMap(c, imported)
  BY Zenon DEF EmergencyNext, EmergencyCall, ConfigCall

\* The calls of lib.rs that leave the configuration alone are SLAGovernance's.
LEMMA PauseOrRoleIsGovernance == PauseOrRoleStep => Next /\ UNCHANGED rollbackVars
  BY Zenon DEF PauseOrRoleStep, Next, SwitchCall

\* Nobody becomes admin of a contract that was never set up.
LEMMA NoAdminFromNowhere ==
  ASSUME Inv, PauseOrRoleStep, admin = NoOne
  PROVE  admin' = NoOne /\ UNCHANGED pauseVars
  <1>1. pendingAdmin = NoProposal
    BY DEF Inv, VacantAdminHasNoProposal
  <1>2. Tick \/ GetPendingAdmin \/ \E c \in Address : ExecuteMigration(c)
    BY <1>1, NoOneAssumption
       DEF PauseOrRoleStep, Unpause, AdminHandoffCall, RenounceAdmin, AcceptAdmin,
           CancelAdminProposal, ProposeAdmin, UpgradeCall, Migrate, SetMigrationKey,
           AdminCall, RequireAdmin
  <1> QED
    BY <1>2 DEF Tick, GetPendingAdmin, ExecuteMigration, roleVars

LEMMA EmergencyPreservesInv == EInv /\ [EmergencyNext]_emergencyVars => EInv'
  <1> SUFFICES ASSUME EInv, [EmergencyNext]_emergencyVars PROVE EInv'
    OBVIOUS
  <1>0. /\ Inv /\ TypeOK /\ configs \in ConfigMap /\ snapshot \in ConfigMap
        /\ rollback \in RollbackState \cup {NoRollback}
        /\ rollback = NoRollback <=> snapshot = NoConfigs
        /\ configs = NoConfigs => admin = NoOne
    BY DEF EInv, EmergencyTypeOK
  <1> USE DEF EInv, EmergencyTypeOK, RollbackState
  <1>1. CASE UNCHANGED emergencyVars
    <2>1. UNCHANGED govVars /\ UNCHANGED <<configs, snapshot, rollback>>
      BY <1>1 DEF emergencyVars, rollbackVars
    <2>2. Inv' /\ admin' = admin
      BY <1>0, <2>1, CallPreservesInv DEF govVars, roleVars
    <2> QED
      BY <1>0, <2>1, <2>2 DEF Inv
  <1>2. CASE PauseOrRoleStep
    <2>1. Inv' /\ UNCHANGED <<configs, snapshot, rollback>>
      BY <1>0, <1>2, CallPreservesInv, PauseOrRoleIsGovernance DEF rollbackVars
    <2>2. admin = NoOne => admin' = NoOne
      BY <1>0, <1>2, NoAdminFromNowhere
    <2> QED
      BY <1>0, <2>1, <2>2 DEF Inv
  <1>3. ASSUME NEW n \in Address, SetUp(n) PROVE EInv'
    <2>1. configs' = DefaultConfigs /\ UNCHANGED <<snapshot, rollback>>
      BY <1>3 DEF SetUp
    <2>2. Inv'
      BY <1>0, <1>3, CallPreservesInv DEF SetUp, Next
    <2> QED
      BY <1>0, <2>1, <2>2, DefaultsAreConfigs DEF Inv
  <1>4. ASSUME NEW c \in Address, InitiateRollback(c) PROVE EInv'
    <2>1. /\ admin # NoOne /\ paused' = TRUE /\ configs' = configs
          /\ rollback' = [initiated_at |-> now, initiated_by |-> c]
          /\ UNCHANGED <<now, roleVars, pausedBy, upgradeVars>>
      BY <1>4 DEF InitiateRollback, RequireAdmin
    <2>2. snapshot' = configs /\ configs # NoConfigs
      BY <1>0, <1>4, <2>1 DEF InitiateRollback
    <2>3. rollback' \in RollbackState /\ rollback' # NoRollback
      BY <1>0, <2>1, NoOneAssumption DEF TypeOK, NoRollback
    <2>4. Inv'
      BY <1>0, <2>1 DEF Inv, TypeOK, VacantAdminHasNoProposal, roleVars, upgradeVars
    <2>5. admin' = admin
      BY <2>1 DEF roleVars
    <2> QED
      BY <1>0, <2>1, <2>2, <2>3, <2>4, <2>5 DEF Inv
  <1>5. ASSUME NEW c \in Address, ExecuteRollback(c) PROVE EInv'
    <2>1. /\ configs' = RollbackDefaults /\ rollback' = NoRollback /\ snapshot' = NoConfigs
          /\ UNCHANGED govVars
      BY <1>5 DEF ExecuteRollback
    <2>2. Inv'
      BY <1>0, <2>1, CallPreservesInv
    <2> QED
      BY <1>0, <2>1, <2>2, DefaultsAreConfigs DEF Inv
  <1>6. ASSUME NEW c \in Address, UndoRollback(c) PROVE EInv'
    <2>1. /\ rollback # NoRollback /\ rollback' = NoRollback /\ snapshot' = NoConfigs
          /\ configs' = (IF snapshot = NoConfigs THEN configs ELSE snapshot)
          /\ paused' = FALSE
          /\ UNCHANGED <<now, roleVars, pausedBy, upgradeVars>>
      BY <1>6 DEF UndoRollback
    <2>2. configs' = snapshot /\ snapshot # NoConfigs
      BY <1>0, <2>1
    <2>3. Inv'
      BY <1>0, <2>1 DEF Inv, TypeOK, VacantAdminHasNoProposal, roleVars, upgradeVars
    <2> QED
      BY <1>0, <2>1, <2>2, <2>3, DefaultsAreConfigs DEF Inv
  <1>7. ASSUME NEW c \in Address, ResetConfigToDefaults(c) PROVE EInv'
    <2>1. /\ configs' = DefaultConfigs
          /\ UNCHANGED <<now, roleVars, pauseVars, upgradeVars, snapshot, rollback>>
      BY <1>7 DEF ResetConfigToDefaults, AdminCall
    <2>2. Inv'
      BY <1>0, <2>1, CallPreservesInv DEF govVars
    <2> QED
      BY <1>0, <2>1, <2>2, DefaultsAreConfigs DEF Inv
  <1>8. ASSUME NEW c \in Address, PauseCall(c) PROVE EInv'
    <2>1. /\ UNCHANGED <<configs, snapshot, rollback>>
          /\ UNCHANGED roleVars
      BY <1>8 DEF PauseCall, Pause, AdminCall, rollbackVars
    <2>2. Inv'
      BY <1>0, <1>8, CallPreservesInv DEF PauseCall, Next, SwitchCall
    <2>3. admin' = admin
      BY <2>1 DEF roleVars
    <2> QED
      BY <1>0, <2>1, <2>2, <2>3 DEF Inv
  <1>9. ASSUME NEW c \in Address, NEW input \in ConfigInputs,
               SetConfig(c, input.severity, input.config)
        PROVE  EInv'
    <2>1. /\ admin # NoOne /\ ValidateConfig(input.severity, input.config, configs)
          /\ configs' = [configs EXCEPT ![input.severity] = input.config]
          /\ UNCHANGED <<now, roleVars, pauseVars, upgradeVars, snapshot, rollback>>
      BY <1>9 DEF SetConfig, AdminCall, RequireAdmin
    <2>2. input.severity \in Severity /\ input.config \in SLAConfig
      BY ConfigInputAssumption
    <2>3. input.config # NoConfig
      BY <2>2, ConfigInputAssumption
    <2>4. configs' \in ConfigMap /\ configs' # NoConfigs
      BY <1>0, <2>1, <2>2, <2>3 DEF ConfigMap, NoConfigs
    <2>5. Inv'
      BY <1>0, <2>1, CallPreservesInv DEF govVars
    <2> QED
      BY <1>0, <2>1, <2>4, <2>5 DEF Inv
  <1>10. ASSUME NEW c \in Address, NEW imported \in ImportInputs, ImportConfigMap(c, imported)
         PROVE  EInv'
    <2>1. /\ configs' = imported /\ Configured(imported) # {}
          /\ UNCHANGED <<now, roleVars, pauseVars, upgradeVars, snapshot, rollback>>
      BY <1>10 DEF ImportConfigMap, AdminCall
    <2>2. configs' \in ConfigMap /\ configs' # NoConfigs
      BY <2>1, ConfigInputAssumption DEF Configured, NoConfigs
    <2>3. Inv'
      BY <1>0, <2>1, CallPreservesInv DEF govVars
    <2> QED
      BY <1>0, <2>1, <2>2, <2>3 DEF Inv
  <1> QED
    BY <1>1, <1>2, <1>3, <1>4, <1>5, <1>6, <1>7, <1>8, <1>9, <1>10, EmergencyCases

LEMMA EmergencyInvHolds == EmergencySpec => []EInv
  BY EmergencyInitEstablishesInv, EmergencyPreservesInv, PTL DEF EmergencySpec

-----------------------------------------------------------------------------
(* What follows.                                                           *)

\* Without an admin a rollback waits.
LEMMA WaitingStep ==
  ASSUME EInv, [EmergencyNext]_emergencyVars, admin = NoOne, admin' = NoOne
  PROVE  UNCHANGED <<rollbackVars, pauseVars>>
  <1>1. PauseOrRoleStep \/ UNCHANGED emergencyVars
    BY EmergencyCases, NoOneAssumption
       DEF SetUp, Initialize, InitiateRollback, ExecuteRollback, UndoRollback,
           ResetConfigToDefaults, PauseCall, Pause, SetConfig, ImportConfigMap,
           AdminCall, RequireAdmin
  <1> QED
    BY <1>1, NoAdminFromNowhere DEF PauseOrRoleStep, EInv, emergencyVars, govVars

\* Only an import and the undoing of a rollback can make severities disagree that
\* agreed: what set_config accepts keeps all of them valid.
LEMMA DisagreementStep ==
  ASSUME EInv, [EmergencyNext]_emergencyVars
  PROVE  /\ Agrees(configs) /\ ~Agrees(configs') =>
              configs' \in ImportInputs \/ configs' = snapshot
         /\ (Agrees(snapshot) \/ snapshot = NoConfigs) /\ ~Agrees(snapshot') =>
              snapshot' \in {NoConfigs, configs}
  <1>1. CASE UNCHANGED emergencyVars \/ PauseOrRoleStep \/ \E c \in Address : PauseCall(c)
    <2>1. configs' = configs /\ snapshot' = snapshot
      BY <1>1 DEF emergencyVars, rollbackVars, PauseOrRoleStep, PauseCall
    <2> QED
      BY <2>1
  <1>2. ASSUME \/ \E n \in Address : SetUp(n)
               \/ \E c \in Address : ResetConfigToDefaults(c)
        PROVE  Agrees(configs') /\ snapshot' = snapshot
    <2>1. configs' = DefaultConfigs /\ snapshot' = snapshot
      BY <1>2 DEF SetUp, ResetConfigToDefaults
    <2> QED
      BY <2>1, DefaultsAgree
  <1>3. ASSUME NEW c \in Address, InitiateRollback(c)
        PROVE  configs' = configs /\ snapshot' \in {snapshot, configs}
    BY <1>3 DEF InitiateRollback
  <1>4. ASSUME NEW c \in Address, ExecuteRollback(c)
        PROVE  Agrees(configs') /\ snapshot' = NoConfigs
    <2>1. configs' = RollbackDefaults /\ snapshot' = NoConfigs
      BY <1>4 DEF ExecuteRollback
    <2> QED
      BY <2>1, DefaultsAgree
  <1>5. ASSUME NEW c \in Address, UndoRollback(c)
        PROVE  configs' \in {configs, snapshot} /\ snapshot' = NoConfigs
    BY <1>5 DEF UndoRollback
  <1>6. ASSUME NEW c \in Address, NEW input \in ConfigInputs,
               SetConfig(c, input.severity, input.config), Agrees(configs)
        PROVE  Agrees(configs')
    <2>1. /\ ValidateConfig(input.severity, input.config, configs)
          /\ configs' = [configs EXCEPT ![input.severity] = input.config]
      BY <1>6 DEF SetConfig
    <2>2. configs \in ConfigMap /\ input.severity \in Severity /\ input.config \in SLAConfig
      BY ConfigInputAssumption DEF EInv, EmergencyTypeOK
    <2>3. PICK map, severity, config :
            map = configs /\ severity = input.severity /\ config = input.config
      OBVIOUS
    <2>4. Agrees([map EXCEPT ![severity] = config])
      BY <1>6, <2>1, <2>2, <2>3, AcceptedKeepsAgreement
    <2> QED
      BY <2>1, <2>3, <2>4
  <1>7. ASSUME NEW c \in Address, NEW input \in ConfigInputs,
               SetConfig(c, input.severity, input.config)
        PROVE  snapshot' = snapshot
    BY <1>7 DEF SetConfig
  <1>8. ASSUME NEW c \in Address, NEW imported \in ImportInputs, ImportConfigMap(c, imported)
        PROVE  configs' \in ImportInputs /\ snapshot' = snapshot
    BY <1>8 DEF ImportConfigMap
  <1>9. snapshot' = snapshot =>
          ((Agrees(snapshot) \/ snapshot = NoConfigs) /\ ~Agrees(snapshot') =>
              snapshot' \in {NoConfigs, configs})
    BY Zenon
  <1> QED
    BY <1>1, <1>2, <1>3, <1>4, <1>5, <1>6, <1>7, <1>8, <1>9, EmergencyCases

\* A disagreement between severities is imported, or was in force when the
\* rollback that is undone began; and a rollback does not move while the admin is
\* gone (emergency.rs beside lib.rs).
THEOREM RollbackIsInCustody == EmergencySpec => RollbackCustody
  <1>1. EInv => EmergencyTypeOK
    BY DEF EInv
  <1>2. EInv /\ [EmergencyNext]_emergencyVars =>
          /\ (Agrees(configs) /\ ~Agrees(configs') =>
                configs' \in ImportInputs \/ configs' = snapshot)
          /\ ((Agrees(snapshot) \/ snapshot = NoConfigs) /\ ~Agrees(snapshot') =>
                snapshot' \in {NoConfigs, configs})
    BY DisagreementStep
  <1>3. EInv /\ [EmergencyNext]_emergencyVars =>
          (admin = NoOne /\ admin' = NoOne => UNCHANGED <<rollbackVars, pauseVars>>)
    BY WaitingStep
  <1> QED
    BY <1>1, <1>2, <1>3, EmergencyInvHolds, PTL
       DEF EmergencySpec, RollbackCustody, RollbackWaitsForAdmin, DisagreementIsImported

\* The three calls implement a save point: what undo_rollback restores is what
\* the last initiate_rollback found, whatever happened in between.
THEOREM RollbackIsSavePoint == EmergencySpec => ConfigSurvivesRollback
  <1>1. EmergencyInit => Rollback!Init
    BY DefaultsAreConfigs DEF EmergencyInit, Rollback!Init
  <1>2. ASSUME EInv, EInv', [EmergencyNext]_emergencyVars
        PROVE  [Rollback!Next]_(Rollback!vars)
    <2>0. configs' \in ConfigMap
      BY <1>2 DEF EInv, EmergencyTypeOK
    <2> SUFFICES Rollback!Next \/ UNCHANGED <<configs, snapshot, rollback>>
      BY DEF Rollback!vars
    <2>1. ASSUME NEW c \in Address, InitiateRollback(c) PROVE Rollback!Save
      <3>1. configs # NoConfigs /\ rollback' # NoRollback
        BY <1>2, <2>1, NoOneAssumption DEF InitiateRollback, RequireAdmin, EInv, NoRollback
      <3> QED
        BY <2>1, <3>1 DEF InitiateRollback, Rollback!Save
    <2>2. ASSUME NEW c \in Address, ExecuteRollback(c) PROVE Rollback!Close(RollbackDefaults)
      BY <2>2 DEF ExecuteRollback, Rollback!Close
    <2>3. ASSUME NEW c \in Address, UndoRollback(c) PROVE Rollback!Close(snapshot)
      <3>1. snapshot # NoConfigs
        BY <1>2, <2>3 DEF UndoRollback, EInv, EmergencyTypeOK
      <3> QED
        BY <2>3, <3>1 DEF UndoRollback, Rollback!Close
    <2>4. CASE \/ PauseOrRoleStep \/ UNCHANGED emergencyVars
               \/ \E n \in Address : SetUp(n)
               \/ \E c \in Address : ResetConfigToDefaults(c) \/ PauseCall(c)
               \/ \E c \in Address, input \in ConfigInputs :
                    SetConfig(c, input.severity, input.config)
               \/ \E c \in Address, imported \in ImportInputs : ImportConfigMap(c, imported)
      <3>1. UNCHANGED <<snapshot, rollback>>
        BY <2>4 DEF PauseOrRoleStep, SetUp, ResetConfigToDefaults, PauseCall, SetConfig,
                    ImportConfigMap, emergencyVars, rollbackVars
      <3> QED
        BY <2>0, <3>1 DEF Rollback!Next, Rollback!Change
    <2> QED
      BY <1>2, <2>1, <2>2, <2>3, <2>4, EmergencyCases DEF Rollback!Next
  <1> QED
    BY <1>1, <1>2, EmergencyInvHolds, PTL DEF EmergencySpec, ConfigSurvivesRollback, Rollback!Spec

-----------------------------------------------------------------------------
(* Penalty tables.                                                         *)

\* A proposal's number is its place on the agenda.
Numbered ==
    /\ lastId = Len(agenda)
    /\ Len(agenda) <= MaxProposals
    /\ \A i \in DOMAIN agenda : agenda[i].proposal_id = i

\* What is in force was announced under its number.
InForceAnnounced ==
    /\ tierTable = inForce.table
    /\ inForce.id # 0 => /\ inForce.id \in DOMAIN agenda
                         /\ agenda[inForce.id].new_table = inForce.table

TInv == TierTypeOK /\ Numbered /\ InForceAnnounced /\ PendingIsLatest

-----------------------------------------------------------------------------
LEMMA TierInitEstablishesInv == TierInit => TInv
  <1> SUFFICES ASSUME TierInit PROVE TInv
    OBVIOUS
  <1>1. TierTypeOK
    BY TierAssumption DEF TierInit, TierTypeOK
  <1>2. Numbered
    BY TierAssumption DEF TierInit, Numbered
  <1> QED
    BY <1>1, <1>2 DEF TInv, TierInit, InForceAnnounced, PendingIsLatest

\* The next number is the next place, and a number that exists.
LEMMA NextNumber ==
  ASSUME TInv, Len(agenda) < MaxProposals
  PROVE  NextTierId = Len(agenda) + 1 /\ NextTierId \in 1..LastId
  <1>1. Len(agenda) \in Nat /\ lastId = Len(agenda)
    BY DEF TInv, TierTypeOK, Numbered
  <1> QED
    BY <1>1, TierAssumption DEF NextTierId

\* A proposal is entered at the end of the agenda; what was there stays.
LEMMA EnteredLast ==
  ASSUME NEW S, NEW seq \in Seq(S), NEW x \in S
  PROVE  /\ Append(seq, x) \in Seq(S)
         /\ Len(Append(seq, x)) = Len(seq) + 1
         /\ DOMAIN Append(seq, x) = DOMAIN seq \cup {Len(seq) + 1}
         /\ Append(seq, x)[Len(seq) + 1] = x
         /\ \A i \in DOMAIN seq : Append(seq, x)[i] = seq[i]
  <1>1. Len(seq) \in Nat /\ DOMAIN seq = 1..Len(seq)
    BY LenProperties
  <1>2. /\ Append(seq, x) \in Seq(S)
        /\ Len(Append(seq, x)) = Len(seq) + 1
        /\ \A i \in 1..Len(seq) : Append(seq, x)[i] = seq[i]
        /\ Append(seq, x)[Len(seq) + 1] = x
    BY AppendProperties
  <1>3. DOMAIN Append(seq, x) = 1..(Len(seq) + 1)
    BY <1>2, LenProperties
  <1> QED
    BY <1>1, <1>2, <1>3

LEMMA TierPreservesInv == TInv /\ [TierNext]_tierVars => TInv'
  <1> SUFFICES ASSUME TInv, [TierNext]_tierVars PROVE TInv'
    OBVIOUS
  <1>0. TierTypeOK /\ Numbered /\ InForceAnnounced /\ PendingIsLatest
    BY DEF TInv
  <1>1. CASE UNCHANGED tierVars
    BY <1>0, <1>1 DEF TInv, TierTypeOK, Numbered, InForceAnnounced, PendingIsLatest, tierVars
  <1>2. ASSUME NEW account \in Steward, ChangeSteward(account) PROVE TInv'
    BY <1>0, <1>2 DEF TInv, TierTypeOK, Numbered, InForceAnnounced, PendingIsLatest, ChangeSteward
  <1>3. ASSUME NEW caller \in Steward, NEW table \in Table, SetTierTable(caller, table) PROVE TInv'
    BY <1>0, <1>3 DEF TInv, TierTypeOK, Numbered, InForceAnnounced, PendingIsLatest, SetTierTable
  <1>4. ASSUME NEW caller \in Steward, NEW table \in Table, ProposeTierTable(caller, table)
        PROVE  TInv'
    <2> DEFINE proposal == [proposal_id |-> NextTierId, proposer |-> caller, new_table |-> table]
    <2>1. /\ Len(agenda) < MaxProposals
          /\ tierProposal' = proposal /\ agenda' = Append(agenda, proposal)
          /\ lastId' = NextTierId
          /\ UNCHANGED <<steward, tierTable, inForce>>
      BY <1>4 DEF ProposeTierTable
    <2>2. NextTierId = Len(agenda) + 1 /\ NextTierId \in 1..LastId
      BY <2>1, NextNumber
    <2>3. proposal \in TierTableProposal /\ proposal.proposal_id = Len(agenda) + 1
      BY <2>2 DEF TierTableProposal
    <2>4. agenda \in Seq(TierTableProposal) /\ Len(agenda) \in Nat
      BY <1>0 DEF TierTypeOK
    <2> HIDE DEF proposal
    <2>5. /\ agenda' \in Seq(TierTableProposal)
          /\ Len(agenda') = Len(agenda) + 1
          /\ DOMAIN agenda' = DOMAIN agenda \cup {Len(agenda) + 1}
          /\ agenda'[Len(agenda) + 1] = proposal
          /\ \A i \in DOMAIN agenda : agenda'[i] = agenda[i]
      BY <2>1, <2>3, <2>4, EnteredLast
    <2>6. TierTypeOK'
      BY <1>0, <2>1, <2>2, <2>3, <2>5 DEF TierTypeOK
    <2>7. Numbered'
      <3>1. lastId' = Len(agenda') /\ Len(agenda') <= MaxProposals
        BY <2>1, <2>2, <2>4, <2>5, TierAssumption
      <3>2. \A i \in DOMAIN agenda' : agenda'[i].proposal_id = i
        BY <1>0, <2>3, <2>5 DEF Numbered
      <3> QED
        BY <3>1, <3>2 DEF Numbered
    <2>8. InForceAnnounced'
      BY <1>0, <2>1, <2>5 DEF InForceAnnounced
    <2>9. PendingIsLatest'
      <3>1. agenda' # <<>>
        BY <2>4, <2>5, EmptySeq
      <3>2. tierProposal' = agenda'[Len(agenda')] /\ lastId' = tierProposal'.proposal_id
        BY <2>1, <2>2, <2>3, <2>5
      <3> QED
        BY <3>1, <3>2 DEF PendingIsLatest
    <2> QED
      BY <2>6, <2>7, <2>8, <2>9 DEF TInv
  <1>5. ASSUME NEW caller \in Steward, NEW id \in 1..LastId, ExecuteTierTableProposal(caller, id)
        PROVE  TInv'
    <2>1. /\ tierProposal # NoTierProposal /\ tierProposal.proposal_id = id
          /\ tierTable' = tierProposal.new_table /\ tierProposal' = NoTierProposal
          /\ inForce' = [id |-> id, table |-> tierProposal.new_table]
          /\ UNCHANGED <<steward, lastId, agenda>>
      BY <1>5 DEF ExecuteTierTableProposal
    <2>2. tierProposal \in TierTableProposal
      BY <1>0, <2>1 DEF TierTypeOK
    <2>3. /\ agenda \in Seq(TierTableProposal) /\ agenda # <<>>
          /\ tierProposal = agenda[Len(agenda)] /\ lastId = id
      BY <1>0, <2>1 DEF PendingIsLatest, TierTypeOK
    <2>4. Len(agenda) \in DOMAIN agenda
      BY <2>3, EmptySeq, LenProperties
    <2>5. InForceAnnounced'
      BY <1>0, <2>1, <2>3, <2>4 DEF InForceAnnounced, Numbered
    <2>6. TierTypeOK'
      BY <1>0, <2>1, <2>2 DEF TierTypeOK, TierTableProposal
    <2> QED
      BY <1>0, <2>1, <2>5, <2>6 DEF TInv, Numbered, PendingIsLatest
  <1> QED
    BY <1>1, <1>2, <1>3, <1>4, <1>5 DEF TierNext

\* The tables in force are those announced: a number names one proposal for ever,
\* and the pending proposal is the latest (threshold_config.rs).
THEOREM TablesAsAnnounced == TierSpec => []TierTablesAsAnnounced
  <1>1. ASSUME TInv PROVE TierTablesAsAnnounced
    <2>1. \A i, j \in DOMAIN agenda : agenda[i].proposal_id = agenda[j].proposal_id => i = j
      BY <1>1 DEF TInv, Numbered
    <2>2. inForce.id # 0 =>
            \E i \in DOMAIN agenda :
                agenda[i].proposal_id = inForce.id /\ agenda[i].new_table = inForce.table
      BY <1>1 DEF TInv, Numbered, InForceAnnounced
    <2> QED
      BY <1>1, <2>1, <2>2
         DEF TInv, TierTablesAsAnnounced, NumbersNameProposals, InForceAnnounced
  <1>2. TierSpec => []TInv
    BY TierInitEstablishesInv, TierPreservesInv, PTL DEF TierSpec
  <1> QED
    BY <1>1, <1>2, PTL
=============================================================================
