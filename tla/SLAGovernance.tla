--------------------------- MODULE SLAGovernance ---------------------------
(***************************************************************************)
(* Roles, pause flag, storage version and emergency migration key of the   *)
(* SLA calculator contract (sla_calculator/src/lib.rs).                    *)
(*                                                                         *)
(* One action is one successful contract call.  A call that returns an     *)
(* error is rolled back by the host, its storage removals included, so it   *)
(* is a stuttering step.  Calls of all users interleave freely, and several *)
(* may share a ledger timestamp: `now' moves only in Tick.                  *)
(*                                                                         *)
(* A missing storage entry is NoOne, NoProposal or NoKey, and version 0.    *)
(***************************************************************************)
EXTENDS Integers

CONSTANTS
    Address,              \* accounts that call the contract
    NoOne,                \* no account: the role's key is absent
    ProposalExpiration,   \* PROPOSAL_EXPIRATION_SECONDS, in ticks
    MigrationTimelock,    \* MIGRATION_TIMELOCK, in ticks
    MaxTime               \* bound on the ledger time

ASSUME NoOneAssumption == NoOne \notin Address
ASSUME TimeAssumption ==
    ProposalExpiration \in Nat /\ MigrationTimelock \in Nat /\ MaxTime \in Nat

VARIABLES
    now,               \* env.ledger().timestamp()
    admin,             \* ADMIN
    operator,          \* OPERATOR
    pendingAdmin,      \* PADMIN
    pendingOperator,   \* POP
    paused,            \* PAUSED
    pausedBy,          \* PAUSEINF: who paused; the reason and the time are only reported
    version,           \* VER
    migrationKey       \* MIGKEY and MIGTIME, always written together

roleVars == <<admin, operator, pendingAdmin, pendingOperator>>
pauseVars == <<paused, pausedBy>>
upgradeVars == <<version, migrationKey>>
govVars == <<now, roleVars, pauseVars, upgradeVars>>

STORAGE_VERSION == 1

Time == 0..MaxTime
NoProposal == [target |-> NoOne, proposed_at |-> 0]
Proposal == [target : Address, proposed_at : Time]
NoKey == [address |-> NoOne, set_time |-> 0]
Key == [address : Address, set_time : Time]

TypeOK ==
    /\ now \in Time
    /\ admin \in Address \cup {NoOne}
    /\ operator \in Address \cup {NoOne}
    /\ pendingAdmin \in Proposal \cup {NoProposal}
    /\ pendingOperator \in Proposal \cup {NoProposal}
    /\ paused \in BOOLEAN
    /\ pausedBy \in Address \cup {NoOne}
    /\ version \in 0..(STORAGE_VERSION + 1)
    /\ migrationKey \in Key \cup {NoKey}

-----------------------------------------------------------------------------
(* Guards shared by the handlers.                                          *)

Versioned == version = STORAGE_VERSION
RequireAdmin(caller) == admin # NoOne /\ caller = admin
RequireOperator(caller) == operator # NoOne /\ caller = operator
Expired(proposal) == now - proposal.proposed_at > ProposalExpiration

\* What an admin-gated, version-checked call needs and what it never touches.
AdminCall(caller) == Versioned /\ RequireAdmin(caller) /\ UNCHANGED now

-----------------------------------------------------------------------------
(* Deployment and storage version.                                         *)

\* The only guard is the absence of ADMIN; POP, PAUSEINF and the migration
\* key are not reset.
Initialize(newAdmin, newOperator) ==
    /\ admin = NoOne
    /\ admin' = newAdmin
    /\ operator' = newOperator
    /\ paused' = FALSE
    /\ version' = STORAGE_VERSION
    /\ UNCHANGED <<now, pendingAdmin, pendingOperator, pausedBy, migrationKey>>

\* Needs no version check: it repairs storage that is behind the binary.  A
\* current version is a no-op, a newer one VersionMismatch.
Migrate(caller) ==
    /\ RequireAdmin(caller)
    /\ version < STORAGE_VERSION
    /\ version' = STORAGE_VERSION
    /\ UNCHANGED <<now, roleVars, pauseVars, migrationKey>>

SetMigrationKey(caller, address) ==
    /\ AdminCall(caller)
    /\ migrationKey' = [address |-> address, set_time |-> now]
    /\ UNCHANGED <<roleVars, pauseVars, version>>

\* Mutant: the timelock is not checked.
ExecuteMigrationAtOnce(caller) ==
    /\ Versioned
    /\ migrationKey # NoKey
    /\ caller = migrationKey.address
    /\ version' = version + 1
    /\ migrationKey' = NoKey
    /\ UNCHANGED <<now, roleVars, pauseVars>>

ExecuteMigration(caller) ==
    /\ Versioned
    /\ migrationKey # NoKey
    /\ caller = migrationKey.address
    /\ now - migrationKey.set_time >= MigrationTimelock
    /\ version' = version + 1
    /\ migrationKey' = NoKey
    /\ UNCHANGED <<now, roleVars, pauseVars>>

-----------------------------------------------------------------------------
(* Admin role.                                                             *)

ProposeAdmin(caller, target) ==
    /\ AdminCall(caller)
    /\ pendingAdmin' = [target |-> target, proposed_at |-> now]
    /\ UNCHANGED <<admin, operator, pendingOperator, pauseVars, upgradeVars>>

\* Mutant: the age of the proposal is not checked.
AcceptAdminAnyTime(caller) ==
    /\ Versioned
    /\ pendingAdmin # NoProposal
    /\ caller = pendingAdmin.target
    /\ admin' = caller
    /\ pendingAdmin' = NoProposal
    /\ UNCHANGED <<now, operator, pendingOperator, pauseVars, upgradeVars>>

\* An expired proposal is removed before NoPendingTransfer is returned, and
\* the error undoes the removal.
AcceptAdmin(caller) ==
    /\ Versioned
    /\ pendingAdmin # NoProposal
    /\ ~Expired(pendingAdmin)
    /\ caller = pendingAdmin.target
    /\ admin' = caller
    /\ pendingAdmin' = NoProposal
    /\ UNCHANGED <<now, operator, pendingOperator, pauseVars, upgradeVars>>

CancelAdminProposal(caller) ==
    /\ AdminCall(caller)
    /\ pendingAdmin # NoProposal
    /\ pendingAdmin' = NoProposal
    /\ UNCHANGED <<admin, operator, pendingOperator, pauseVars, upgradeVars>>

\* The getter drops an expired proposal; anyone may call it.
GetPendingAdmin ==
    /\ Versioned
    /\ pendingAdmin # NoProposal
    /\ Expired(pendingAdmin)
    /\ pendingAdmin' = NoProposal
    /\ UNCHANGED <<now, admin, operator, pendingOperator, pauseVars, upgradeVars>>

\* Mutant: PADMIN is not removed.
RenounceAdminKeepingProposal(caller) ==
    /\ AdminCall(caller)
    /\ admin' = NoOne
    /\ UNCHANGED <<operator, pendingAdmin, pendingOperator, pauseVars, upgradeVars>>

\* Leaves the operator, its proposal and the migration key in place.
RenounceAdmin(caller) ==
    /\ AdminCall(caller)
    /\ admin' = NoOne
    /\ pendingAdmin' = NoProposal
    /\ UNCHANGED <<operator, pendingOperator, pauseVars, upgradeVars>>

-----------------------------------------------------------------------------
(* Operator role.                                                          *)

\* A pending operator proposal survives the direct appointment.
SetOperator(caller, newOperator) ==
    /\ AdminCall(caller)
    /\ operator' = newOperator
    /\ UNCHANGED <<admin, pendingAdmin, pendingOperator, pauseVars, upgradeVars>>

\* Mutant: POP is not removed.
RevokeOperatorKeepingProposal(caller) ==
    /\ AdminCall(caller)
    /\ operator' = NoOne
    /\ UNCHANGED <<admin, pendingAdmin, pendingOperator, pauseVars, upgradeVars>>

\* Mutant: POP's target is cleared, but not its time.
RevokeOperatorHalfReset(caller) ==
    /\ AdminCall(caller)
    /\ operator' = NoOne
    /\ pendingOperator' = [pendingOperator EXCEPT !.target = NoOne]
    /\ UNCHANGED <<admin, pendingAdmin, pauseVars, upgradeVars>>

RevokeOperator(caller) ==
    /\ AdminCall(caller)
    /\ operator' = NoOne
    /\ pendingOperator' = NoProposal
    /\ UNCHANGED <<admin, pendingAdmin, pauseVars, upgradeVars>>

RenounceOperator(caller) ==
    /\ Versioned
    /\ RequireOperator(caller)
    /\ operator' = NoOne
    /\ pendingOperator' = NoProposal
    /\ UNCHANGED <<now, admin, pendingAdmin, pauseVars, upgradeVars>>

ProposeOperator(caller, target) ==
    /\ AdminCall(caller)
    /\ pendingOperator' = [target |-> target, proposed_at |-> now]
    /\ UNCHANGED <<admin, operator, pendingAdmin, pauseVars, upgradeVars>>

\* Mutant: check_version is left out.
AcceptOperatorAnyVersion(caller) ==
    /\ pendingOperator # NoProposal
    /\ ~Expired(pendingOperator)
    /\ caller = pendingOperator.target
    /\ operator' = caller
    /\ pendingOperator' = NoProposal
    /\ UNCHANGED <<now, admin, pendingAdmin, pauseVars, upgradeVars>>

AcceptOperator(caller) ==
    /\ Versioned
    /\ pendingOperator # NoProposal
    /\ ~Expired(pendingOperator)
    /\ caller = pendingOperator.target
    /\ operator' = caller
    /\ pendingOperator' = NoProposal
    /\ UNCHANGED <<now, admin, pendingAdmin, pauseVars, upgradeVars>>

CancelOperatorProposal(caller) ==
    /\ AdminCall(caller)
    /\ pendingOperator # NoProposal
    /\ pendingOperator' = NoProposal
    /\ UNCHANGED <<admin, operator, pendingAdmin, pauseVars, upgradeVars>>

GetPendingOperator ==
    /\ Versioned
    /\ pendingOperator # NoProposal
    /\ Expired(pendingOperator)
    /\ pendingOperator' = NoProposal
    /\ UNCHANGED <<now, admin, operator, pendingAdmin, pauseVars, upgradeVars>>

-----------------------------------------------------------------------------
(* Pause switch.                                                           *)

\* Mutant: the operator may pause too.
PauseByOperator(caller) ==
    /\ Versioned
    /\ RequireAdmin(caller) \/ RequireOperator(caller)
    /\ paused' = TRUE
    /\ pausedBy' = caller
    /\ UNCHANGED <<now, roleVars, upgradeVars>>

Pause(caller) ==
    /\ AdminCall(caller)
    /\ paused' = TRUE
    /\ pausedBy' = caller
    /\ UNCHANGED <<roleVars, upgradeVars>>

\* Mutant: check_version is left out.
UnpauseAnyVersion(caller) ==
    /\ RequireAdmin(caller)
    /\ paused' = FALSE
    /\ pausedBy' = NoOne
    /\ UNCHANGED <<now, roleVars, upgradeVars>>

Unpause(caller) ==
    /\ AdminCall(caller)
    /\ paused' = FALSE
    /\ pausedBy' = NoOne
    /\ UNCHANGED <<roleVars, upgradeVars>>

-----------------------------------------------------------------------------
(* The system.                                                             *)

\* A new ledger closes.
Tick ==
    /\ now < MaxTime
    /\ now' = now + 1
    /\ UNCHANGED <<roleVars, pauseVars, upgradeVars>>

\* The contract's storage is empty, or was written by a binary that did not
\* stamp a version yet (the state migrate's v0 -> v1 step is for).
Init ==
    /\ now = 0
    /\ version = 0
    /\ \/ admin = NoOne /\ operator = NoOne
       \/ admin \in Address /\ operator \in Address
    /\ pendingAdmin = NoProposal
    /\ pendingOperator = NoProposal
    /\ paused = FALSE
    /\ pausedBy = NoOne
    /\ migrationKey = NoKey

AdminHandoffCall(caller) ==
    \/ AcceptAdmin(caller)
    \/ CancelAdminProposal(caller)
    \/ RenounceAdmin(caller)
    \/ \E target \in Address : ProposeAdmin(caller, target)

OperatorHandoffCall(caller) ==
    \/ RevokeOperator(caller)
    \/ RenounceOperator(caller)
    \/ AcceptOperator(caller)
    \/ CancelOperatorProposal(caller)
    \/ \E target \in Address : SetOperator(caller, target) \/ ProposeOperator(caller, target)

UpgradeCall(caller) ==
    \/ Migrate(caller)
    \/ ExecuteMigration(caller)
    \/ \E address \in Address : SetMigrationKey(caller, address)

SwitchCall(caller) == Pause(caller) \/ Unpause(caller) \/ UpgradeCall(caller)

Next ==
    \/ Tick
    \/ GetPendingAdmin
    \/ GetPendingOperator
    \/ \E newAdmin, newOperator \in Address : Initialize(newAdmin, newOperator)
    \/ \E caller \in Address :
         AdminHandoffCall(caller) \/ OperatorHandoffCall(caller) \/ SwitchCall(caller)

Spec == Init /\ [][Next]_govVars

-----------------------------------------------------------------------------
(* Properties.                                                             *)

\* A contract without an admin has no admin proposal either: a proposal made
\* before renounce_admin can never bring an admin back (renounce_admin
\* clears PADMIN together with ADMIN, and only an admin writes PADMIN).
VacantAdminHasNoProposal == admin = NoOne => pendingAdmin = NoProposal

\* The admin role follows the two-step handoff: besides initialize, an admin
\* takes over only by accepting, in time, an offer that is still open, and
\* renouncing withdraws the offer.
AdminHandoff == INSTANCE RoleHandoff WITH
    Party <- Address, Nobody <- NoOne, NoOffer <- NoProposal,
    Window <- ProposalExpiration, Appointment <- FALSE,
    holder <- admin, offer <- pendingAdmin, clock <- now
FollowsAdminHandoff == AdminHandoff!Spec

\* So does the operator role, which set_operator and initialize may also fill
\* directly: revoke_operator and renounce_operator leave no offer behind by
\* which the removed operator, or a nominee of before, could step in.
OperatorHandoff == INSTANCE RoleHandoff WITH
    Party <- Address, Nobody <- NoOne, NoOffer <- NoProposal,
    Window <- ProposalExpiration, Appointment <- TRUE,
    holder <- operator, offer <- pendingOperator, clock <- now
FollowsOperatorHandoff == OperatorHandoff!Spec

\* While the storage version is not the binary's, no handler changes a role,
\* a proposal, the pause switch or the migration key: each of them passes
\* check_version.  The exception is initialize, when there is no admin.
VersionGate ==
    [][version # STORAGE_VERSION /\ admin # NoOne
         => UNCHANGED <<roleVars, pauseVars, migrationKey>>]_govVars

\* Once renounced, and until somebody calls initialize again, everything an
\* admin decides is frozen: no handler changes the pause switch, opens a
\* proposal or sets a migration key.  What was already under way can still
\* end: the operator may leave or hand over to the nominee of before, and
\* the migration key may be used up.
FrozenWithoutAdmin ==
    [][admin = NoOne /\ admin' = NoOne =>
         /\ UNCHANGED <<pendingAdmin, pauseVars>>
         /\ pendingOperator' \in {pendingOperator, NoProposal}
         /\ migrationKey' \in {migrationKey, NoKey}
         /\ operator' \in {operator, NoOne, pendingOperator.target}]_govVars

\* The migration key gives full notice: it leaves storage only when it has
\* been there, unreplaced, for the whole timelock, and a key that replaces
\* another starts a timelock of its own.
MigrationNotice ==
    [][migrationKey' # migrationKey =>
         \/ migrationKey' = NoKey /\ now - migrationKey.set_time >= MigrationTimelock
         \/ migrationKey' # NoKey /\ migrationKey'.set_time = now]_govVars

\* The calculation side of the contract sees no more of governance than
\* GovernanceInterface says, in particular no role or pause change under a
\* foreign storage version and no pause or admin change without an admin.
Interface == INSTANCE GovernanceInterface
SeenThroughInterface == Interface!Spec

\* What README.md and the comment on renounce_admin say: without an admin the
\* contract stays without one.  The code contradicts it: initialize only
\* asks whether ADMIN is absent.
RenouncedForever ==
    [][version # 0 /\ admin = NoOne => admin' = NoOne]_govVars

\* What get_migration_state's and get_version_info's comments say: when
\* needs_migration is reported, the admin can call migrate and bring the
\* contract back.  The code contradicts it: execute_migration raises the
\* version past the binary's, and migrate refuses such storage for good.
NeedsMigration == version # STORAGE_VERSION /\ admin # NoOne
MigrationCompletable == NeedsMigration => \E caller \in Address : ENABLED Migrate(caller)

=============================================================================
