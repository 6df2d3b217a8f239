---------------------------- MODULE KeyRotation ----------------------------
(***************************************************************************)
(* Emergency rotation of the admin key by backup guardians, and the upgrade *)
(* log (upgrade_path.rs), next to the calls of lib.rs that also decide who   *)
(* is admin.  The admin names guardians; each of them may nominate a new     *)
(* admin; with enough approvals and after a timelock anybody may execute the *)
(* rotation.                                                                 *)
(*                                                                         *)
(* The two files share ADMIN and VER only: a rotation looks neither at the   *)
(* storage version nor at an open admin offer, and it works while the admin  *)
(* role is vacant.  A set of addresses stands for the deduplicated vector    *)
(* of approvals and for the stored guardian list.                            *)
(***************************************************************************)
EXTENDS SLAGovernance, FiniteSets, Sequences, Functions

CONSTANTS
    Quorum,           \* GUARDIAN_QUORUM
    MaxGuardians,     \* GUARDIAN_QUORUM_TOTAL
    RotationTimelock, \* ROTATION_TIMELOCK_SECS, in ticks
    GuardianLists     \* the vectors of addresses handed to set_guardians

ASSUME RotationAssumption ==
    /\ Quorum \in Nat \ {0}
    /\ MaxGuardians \in Nat
    /\ RotationTimelock \in Nat
    /\ GuardianLists \subseteq Seq(Address)

VARIABLES
    guardians,   \* GUARDIAN
    rotation,    \* ROT_PROP
    upgradeLog   \* UPLOG

rotationVars == <<guardians, rotation, upgradeLog>>
allVars == <<govVars, rotationVars>>

NoRotation == [new_admin |-> NoOne, initiated_at |-> 0, approvals |-> {}]
RotationProposal ==
    [new_admin : Address, initiated_at : Time, approvals : SUBSET Address]
UpgradeRecord ==
    [from_version : Nat, to_version : Nat, timestamp : Time, upgraded_by : Address]

\* Every part of the contract's storage has its type.
RotationTypeOK ==
    /\ TypeOK
    /\ guardians \subseteq Address
    /\ rotation \in RotationProposal \cup {NoRotation}
    /\ upgradeLog \in Seq(UpgradeRecord)

-----------------------------------------------------------------------------
(* Guardians and rotation.                                                 *)

\* Neither the version nor a pending rotation matters; the rotation keeps the
\* approvals of guardians who are replaced.
SetGuardians(caller, list) ==
    /\ RequireAdmin(caller)
    /\ Len(list) \in 1..MaxGuardians
    /\ IsInjective(list)
    /\ guardians' = Range(list)
    /\ UNCHANGED <<govVars, rotation, upgradeLog>>

\* The pending rotation when it is for the same nominee, else a new one: the
\* approvals and the time served are lost.
ProposalFor(newAdmin) ==
    IF rotation # NoRotation /\ rotation.new_admin = newAdmin
      THEN rotation
      ELSE [new_admin |-> newAdmin, initiated_at |-> now, approvals |-> {}]

ProposeKeyRotation(caller, newAdmin) ==
    /\ caller \in guardians
    /\ rotation' = [ProposalFor(newAdmin) EXCEPT !.approvals = @ \cup {caller}]
    /\ UNCHANGED <<govVars, guardians, upgradeLog>>

\* Mutant: the timelock counts as elapsed one tick early.
ExecuteKeyRotationEarly ==
    /\ rotation # NoRotation
    /\ Cardinality(rotation.approvals) >= Quorum
    /\ now + 1 >= rotation.initiated_at + RotationTimelock
    /\ admin' = rotation.new_admin
    /\ rotation' = NoRotation
    /\ UNCHANGED <<now, operator, pendingAdmin, pendingOperator, pauseVars,
                   upgradeVars, guardians, upgradeLog>>

\* Anyone may call it.  PADMIN and the roles other than ADMIN stay.
ExecuteKeyRotation ==
    /\ rotation # NoRotation
    /\ Cardinality(rotation.approvals) >= Quorum
    /\ now >= rotation.initiated_at + RotationTimelock
    /\ admin' = rotation.new_admin
    /\ rotation' = NoRotation
    /\ UNCHANGED <<now, operator, pendingAdmin, pendingOperator, pauseVars,
                   upgradeVars, guardians, upgradeLog>>

CancelKeyRotation(caller) ==
    /\ RequireAdmin(caller)
    /\ rotation # NoRotation
    /\ rotation' = NoRotation
    /\ UNCHANGED <<govVars, guardians, upgradeLog>>

-----------------------------------------------------------------------------
(* Upgrades.                                                               *)

\* Storage that is current is left alone, newer storage is refused.
PerformUpgrade(caller) ==
    /\ RequireAdmin(caller)
    /\ version < STORAGE_VERSION
    /\ version' = STORAGE_VERSION
    /\ upgradeLog' = Append(upgradeLog,
         [from_version |-> version, to_version |-> STORAGE_VERSION,
          timestamp |-> now, upgraded_by |-> caller])
    /\ UNCHANGED <<now, roleVars, pauseVars, migrationKey, guardians, rotation>>

get_last_upgrade == IF upgradeLog = <<>> THEN {} ELSE {upgradeLog[Len(upgradeLog)]}

-----------------------------------------------------------------------------
(* The system.                                                             *)

RotationInit ==
    /\ Init
    /\ guardians = {}
    /\ rotation = NoRotation
    /\ upgradeLog = <<>>

GuardianCall(caller) ==
    \/ \E list \in GuardianLists : SetGuardians(caller, list)
    \/ \E newAdmin \in Address : ProposeKeyRotation(caller, newAdmin)
    \/ CancelKeyRotation(caller)
    \/ PerformUpgrade(caller)

\* The calls of lib.rs that change ADMIN, PADMIN or VER, and the one that makes
\* execute_migration possible.  The operator handoff and the pause switch are not
\* read here and rest.
HandoffStep ==
    /\ \/ Tick
       \/ GetPendingAdmin
       \/ \E newAdmin \in Address : Initialize(newAdmin, newAdmin)
       \/ \E caller \in Address : AdminHandoffCall(caller) \/ UpgradeCall(caller)
    /\ UNCHANGED rotationVars

RotationNext ==
    \/ HandoffStep
    \/ ExecuteKeyRotation
    \/ \E caller \in Address : GuardianCall(caller)

RotationSpec == RotationInit /\ [][RotationNext]_allVars

-----------------------------------------------------------------------------
(* Properties.                                                             *)

\* Nominations do not mix: while a rotation is pending its nominee keeps the
\* day it was first named and gathers approvals only, and a nominee who takes
\* its place starts with the time of day and a single approval.  So no one
\* inherits notice or support that was given for somebody else, in whatever
\* order guardians call (propose_key_rotation).
NominationsDoNotMix ==
    [][rotation # NoRotation /\ rotation' # NoRotation /\ rotation' # rotation =>
         IF rotation'.new_admin = rotation.new_admin
           THEN /\ rotation'.initiated_at = rotation.initiated_at
                /\ rotation.approvals \subseteq rotation'.approvals
           ELSE /\ rotation'.initiated_at = now
                /\ Cardinality(rotation'.approvals) = 1]_allVars

\* An admin is in place by one of four ways only: it accepted, in time, the
\* offer made to it; the contract was set up again while vacant; a quorum
\* nominated it and its nomination stood for the whole timelock; or the role
\* was given up.  The two protocols share ADMIN and know nothing of each
\* other, so neither may open a way around the other's waiting time.
AdminIsEarned ==
    [][admin' # admin =>
         \/ /\ pendingAdmin # NoProposal
            /\ admin' = pendingAdmin.target
            /\ pendingAdmin' = NoProposal
            /\ ~Expired(pendingAdmin)
         \/ admin = NoOne /\ version' = STORAGE_VERSION /\ rotation' = rotation
         \/ /\ rotation # NoRotation /\ rotation' = NoRotation
            /\ admin' = rotation.new_admin
            /\ Cardinality(rotation.approvals) >= Quorum
            /\ now - rotation.initiated_at >= RotationTimelock
         \/ admin' = NoOne]_allVars

\* The log never tells of an upgrade twice, and what it tells has happened:
\* perform_upgrade shares VER with migrate, initialize and execute_migration, and
\* none of them takes the storage back to where it may be upgraded again.
UpgradeLoggedOnce ==
    /\ Len(upgradeLog) <= 1
    /\ \A record \in get_last_upgrade :
         record.from_version < record.to_version /\ record.to_version <= version

\* The admin key stays in good hands (upgrade_path.rs beside lib.rs): the
\* properties above together.
AdminCustody ==
    /\ [](RotationTypeOK /\ UpgradeLoggedOnce)
    /\ NominationsDoNotMix
    /\ AdminIsEarned
=============================================================================
