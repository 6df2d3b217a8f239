------------------------ MODULE SLAGovernanceProofs ------------------------
(***************************************************************************)
(* The properties of SLAGovernance, proved for every set of accounts and    *)
(* every length of the proposal and migration delays.                       *)
(*                                                                         *)
(* Inv is inductive: TypeOK gives the arithmetic of the delays its types,   *)
(* and VacantAdminHasNoProposal says why an old admin proposal cannot fill  *)
(* a vacated role.  The action properties and the three refinements follow  *)
(* from Inv step by step, one case for each contract call.                  *)
(***************************************************************************)
EXTENDS SLAGovernance, TLAPS

Inv == TypeOK /\ VacantAdminHasNoProposal

-----------------------------------------------------------------------------
(* The inductive invariant.                                                *)

\* The state left by deployment, or found by a binary that starts to version
\* its storage, has the right types and no proposal.
LEMMA InitEstablishesInv == Init => Inv
  <1> SUFFICES ASSUME Init PROVE Inv
    OBVIOUS
  <1>1. now \in Time /\ version \in 0..(STORAGE_VERSION + 1)
    BY TimeAssumption DEF Init, Time, STORAGE_VERSION
  <1>2. admin \in Address \cup {NoOne} /\ operator \in Address \cup {NoOne}
    BY DEF Init
  <1>3. /\ pendingAdmin \in Proposal \cup {NoProposal}
        /\ pendingOperator \in Proposal \cup {NoProposal}
        /\ migrationKey \in Key \cup {NoKey}
        /\ paused \in BOOLEAN /\ pausedBy \in Address \cup {NoOne}
        /\ VacantAdminHasNoProposal
    BY DEF Init, VacantAdminHasNoProposal
  <1> QED
    BY <1>1, <1>2, <1>3 DEF Inv, TypeOK

\* Every step of Next is one of these calls.
LEMMA CallCases ==
  ASSUME Next
  PROVE  \/ Tick \/ GetPendingAdmin \/ GetPendingOperator
         \/ \E a, o \in Address : Initialize(a, o)
         \/ \E c \in Address : AcceptAdmin(c) \/ CancelAdminProposal(c) \/ RenounceAdmin(c)
         \/ \E c, t \in Address : ProposeAdmin(c, t)
         \/ \E c \in Address : RevokeOperator(c) \/ RenounceOperator(c)
         \/ \E c \in Address : AcceptOperator(c) \/ CancelOperatorProposal(c)
         \/ \E c, t \in Address : SetOperator(c, t) \/ ProposeOperator(c, t)
         \/ \E c \in Address : Pause(c) \/ Unpause(c) \/ Migrate(c) \/ ExecuteMigration(c)
         \/ \E c, t \in Address : SetMigrationKey(c, t)
  BY Zenon DEF Next, AdminHandoffCall, OperatorHandoffCall, SwitchCall, UpgradeCall

\* Every contract call, and the passing of time, keeps the types and leaves a
\* vacated admin role without a proposal.
LEMMA CallPreservesInv == Inv /\ [Next]_govVars => Inv'
  <1> SUFFICES ASSUME Inv, [Next]_govVars PROVE Inv'
    OBVIOUS
  <1> USE NoOneAssumption, TimeAssumption
      DEF Inv, TypeOK, VacantAdminHasNoProposal, Time, STORAGE_VERSION
  <1>1. CASE UNCHANGED govVars
    BY <1>1 DEF govVars, roleVars, pauseVars, upgradeVars
  <1>2. CASE Tick
    BY <1>2 DEF Tick, roleVars, pauseVars, upgradeVars
  <1>3. CASE GetPendingAdmin
    BY <1>3 DEF GetPendingAdmin, pauseVars, upgradeVars
  <1>4. CASE GetPendingOperator
    BY <1>4 DEF GetPendingOperator, pauseVars, upgradeVars
  <1>5. ASSUME NEW a \in Address, NEW o \in Address, Initialize(a, o) PROVE Inv'
    <2>1. admin' \in Address /\ operator' \in Address
      BY <1>5 DEF Initialize
    <2>2. paused' \in BOOLEAN
      BY <1>5, Zenon DEF Initialize
    <2>3. version' \in 0..(STORAGE_VERSION + 1)
      BY <1>5 DEF Initialize
    <2> QED
      BY <1>5, <2>1, <2>2, <2>3 DEF Initialize
  <1>6. ASSUME NEW c \in Address, AcceptAdmin(c) PROVE Inv'
    <2>1. /\ admin' = c /\ pendingAdmin' = NoProposal
          /\ UNCHANGED <<now, operator, pendingOperator, pauseVars, upgradeVars>>
      BY <1>6, Zenon DEF AcceptAdmin
    <2> QED
      BY <2>1 DEF pauseVars, upgradeVars
  <1>7. ASSUME NEW c \in Address, CancelAdminProposal(c) PROVE Inv'
    BY <1>7 DEF CancelAdminProposal, AdminCall, pauseVars, upgradeVars
  <1>8. ASSUME NEW c \in Address, RenounceAdmin(c) PROVE Inv'
    BY <1>8 DEF RenounceAdmin, AdminCall, pauseVars, upgradeVars
  <1>9. ASSUME NEW c \in Address, NEW t \in Address, ProposeAdmin(c, t) PROVE Inv'
    BY <1>9 DEF ProposeAdmin, AdminCall, RequireAdmin, Proposal, pauseVars, upgradeVars
  <1>10. ASSUME NEW c \in Address, RevokeOperator(c) \/ RenounceOperator(c) PROVE Inv'
    BY <1>10 DEF RevokeOperator, RenounceOperator, AdminCall, pauseVars, upgradeVars
  <1>11. ASSUME NEW c \in Address, AcceptOperator(c) \/ CancelOperatorProposal(c) PROVE Inv'
    BY <1>11 DEF AcceptOperator, CancelOperatorProposal, AdminCall, pauseVars, upgradeVars
  <1>12. ASSUME NEW c \in Address, NEW t \in Address, SetOperator(c, t) PROVE Inv'
    BY <1>12 DEF SetOperator, AdminCall, pauseVars, upgradeVars
  <1>13. ASSUME NEW c \in Address, NEW t \in Address, ProposeOperator(c, t) PROVE Inv'
    BY <1>13 DEF ProposeOperator, AdminCall, Proposal, pauseVars, upgradeVars
  <1>14. ASSUME NEW c \in Address, Pause(c) \/ Unpause(c) PROVE Inv'
    BY <1>14 DEF Pause, Unpause, AdminCall, RequireAdmin, roleVars, upgradeVars
  <1>15. ASSUME NEW c \in Address, Migrate(c) \/ ExecuteMigration(c) PROVE Inv'
    BY <1>15 DEF Migrate, ExecuteMigration, Versioned, roleVars, pauseVars
  <1>16. ASSUME NEW c \in Address, NEW t \in Address, SetMigrationKey(c, t) PROVE Inv'
    BY <1>16 DEF SetMigrationKey, AdminCall, Key, roleVars, pauseVars
  <1> QED
    BY <1>1, <1>2, <1>3, <1>4, <1>5, <1>6, <1>7, <1>8, <1>9, <1>10, <1>11, <1>12, <1>13,
       <1>14, <1>15, <1>16, CallCases

\* The invariant holds throughout.
LEMMA InvHolds == Spec => []Inv
  BY InitEstablishesInv, CallPreservesInv, PTL DEF Spec

\* The storage entries of the governance calls always have their types.
THEOREM TypeCorrect == Spec => []TypeOK
  <1>1. Inv => TypeOK
    BY DEF Inv
  <1> QED
    BY <1>1, InvHolds, PTL

\* A proposal made before renounce_admin never fills the vacated role.
THEOREM RenouncedRoleHasNoHeir == Spec => []VacantAdminHasNoProposal
  <1>1. Inv => VacantAdminHasNoProposal
    BY DEF Inv
  <1> QED
    BY <1>1, InvHolds, PTL

-----------------------------------------------------------------------------
(* The two handoffs.                                                       *)

\* An offer accepted before it expires is accepted within the window.
LEMMA InTime ==
  ASSUME TypeOK, NEW p \in Proposal, ~Expired(p)
  PROVE  now <= p.proposed_at + ProposalExpiration
  BY TimeAssumption DEF TypeOK, Expired, Time, Proposal

\* Calls that leave the admin role alone.
LEMMA AdminUntouched ==
  ASSUME UNCHANGED <<admin, pendingAdmin, now>>
  PROVE  UNCHANGED AdminHandoff!vars
  BY DEF AdminHandoff!vars

\* Every step is one of the admin handoff's, or none of its business.
LEMMA AdminHandoffStep == Inv /\ [Next]_govVars => [AdminHandoff!Next]_(AdminHandoff!vars)
  <1> SUFFICES ASSUME Inv, [Next]_govVars
               PROVE  AdminHandoff!Next \/ UNCHANGED AdminHandoff!vars
    OBVIOUS
  <1> DEFINE Goal == AdminHandoff!Next \/ UNCHANGED AdminHandoff!vars
  <1> USE DEF AdminCall
  <1>1. CASE UNCHANGED govVars
    BY <1>1, AdminUntouched DEF govVars, roleVars
  <1>2. CASE Tick
    <2>1. now' \in Nat /\ now' > now
      BY <1>2, TimeAssumption DEF Tick, Inv, TypeOK, Time
    <2>2. UNCHANGED <<admin, pendingAdmin>>
      BY <1>2 DEF Tick, roleVars
    <2> QED
      BY <2>1, <2>2 DEF AdminHandoff!Next, AdminHandoff!Pass
  <1>3. CASE GetPendingAdmin
    BY <1>3 DEF GetPendingAdmin, AdminHandoff!Next, AdminHandoff!Withdraw
  <1>4. CASE GetPendingOperator
    BY <1>4, AdminUntouched DEF GetPendingOperator
  <1>5. ASSUME NEW a \in Address, NEW o \in Address, Initialize(a, o) PROVE Goal
    BY <1>5 DEF Initialize, AdminHandoff!Next, AdminHandoff!Appoint
  <1>6. ASSUME NEW c \in Address, AcceptAdmin(c) PROVE Goal
    <2>1. now <= pendingAdmin.proposed_at + ProposalExpiration
      BY <1>6, InTime DEF AcceptAdmin, Inv, TypeOK
    <2> QED
      BY <1>6, <2>1 DEF AcceptAdmin, AdminHandoff!Next, AdminHandoff!Accept
  <1>7. ASSUME NEW c \in Address, CancelAdminProposal(c) PROVE Goal
    BY <1>7 DEF CancelAdminProposal, AdminHandoff!Next, AdminHandoff!Withdraw
  <1>8. ASSUME NEW c \in Address, RenounceAdmin(c) PROVE Goal
    BY <1>8 DEF RenounceAdmin, AdminHandoff!Next, AdminHandoff!Vacate
  <1>9. ASSUME NEW c \in Address, NEW t \in Address, ProposeAdmin(c, t) PROVE Goal
    BY <1>9 DEF ProposeAdmin, AdminHandoff!Next, AdminHandoff!Propose
  <1>10. ASSUME NEW c \in Address, RevokeOperator(c) \/ RenounceOperator(c) PROVE Goal
    BY <1>10, AdminUntouched DEF RevokeOperator, RenounceOperator
  <1>11. ASSUME NEW c \in Address, AcceptOperator(c) \/ CancelOperatorProposal(c) PROVE Goal
    BY <1>11, AdminUntouched DEF AcceptOperator, CancelOperatorProposal
  <1>12. ASSUME NEW c \in Address, NEW t \in Address, SetOperator(c, t) \/ ProposeOperator(c, t)
         PROVE  Goal
    BY <1>12, AdminUntouched DEF SetOperator, ProposeOperator
  <1>13. ASSUME NEW c \in Address, Pause(c) \/ Unpause(c) \/ Migrate(c) \/ ExecuteMigration(c)
         PROVE  Goal
    BY <1>13, AdminUntouched DEF Pause, Unpause, Migrate, ExecuteMigration, roleVars
  <1>14. ASSUME NEW c \in Address, NEW t \in Address, SetMigrationKey(c, t) PROVE Goal
    BY <1>14, AdminUntouched DEF SetMigrationKey, roleVars
  <1> QED
    BY <1>1, <1>2, <1>3, <1>4, <1>5, <1>6, <1>7, <1>8, <1>9, <1>10, <1>11, <1>12, <1>13,
       <1>14, CallCases

\* The admin role follows the two-step handoff of RoleHandoff.
THEOREM AdminHandoffImplemented == Spec => FollowsAdminHandoff
  <1>1. Init => AdminHandoff!Init
    BY DEF Init, AdminHandoff!Init
  <1> QED
    BY <1>1, InvHolds, AdminHandoffStep, PTL DEF Spec, FollowsAdminHandoff, AdminHandoff!Spec

\* Calls that leave the operator role alone.
LEMMA OperatorUntouched ==
  ASSUME UNCHANGED <<operator, pendingOperator, now>>
  PROVE  UNCHANGED OperatorHandoff!vars
  BY DEF OperatorHandoff!vars

\* Every step is one of the operator handoff's, or none of its business.
LEMMA OperatorHandoffStep ==
  Inv /\ [Next]_govVars => [OperatorHandoff!Next]_(OperatorHandoff!vars)
  <1> SUFFICES ASSUME Inv, [Next]_govVars
               PROVE  OperatorHandoff!Next \/ UNCHANGED OperatorHandoff!vars
    OBVIOUS
  <1> DEFINE Goal == OperatorHandoff!Next \/ UNCHANGED OperatorHandoff!vars
  <1> USE DEF AdminCall
  <1>1. CASE UNCHANGED govVars
    BY <1>1, OperatorUntouched DEF govVars, roleVars
  <1>2. CASE Tick
    <2>1. now' \in Nat /\ now' > now
      BY <1>2, TimeAssumption DEF Tick, Inv, TypeOK, Time
    <2>2. UNCHANGED <<operator, pendingOperator>>
      BY <1>2 DEF Tick, roleVars
    <2> QED
      BY <2>1, <2>2 DEF OperatorHandoff!Next, OperatorHandoff!Pass
  <1>3. CASE GetPendingAdmin
    BY <1>3, OperatorUntouched DEF GetPendingAdmin
  <1>4. CASE GetPendingOperator
    BY <1>4 DEF GetPendingOperator, OperatorHandoff!Next, OperatorHandoff!Withdraw
  <1>5. ASSUME NEW a \in Address, NEW o \in Address, Initialize(a, o) PROVE Goal
    BY <1>5 DEF Initialize, OperatorHandoff!Next, OperatorHandoff!Appoint
  <1>6. ASSUME NEW c \in Address, AcceptAdmin(c) \/ CancelAdminProposal(c) \/ RenounceAdmin(c)
        PROVE  Goal
    BY <1>6, OperatorUntouched DEF AcceptAdmin, CancelAdminProposal, RenounceAdmin
  <1>7. ASSUME NEW c \in Address, NEW t \in Address, ProposeAdmin(c, t) PROVE Goal
    BY <1>7, OperatorUntouched DEF ProposeAdmin
  <1>8. ASSUME NEW c \in Address, RevokeOperator(c) \/ RenounceOperator(c) PROVE Goal
    BY <1>8 DEF RevokeOperator, RenounceOperator, OperatorHandoff!Next, OperatorHandoff!Vacate
  <1>9. ASSUME NEW c \in Address, AcceptOperator(c) PROVE Goal
    <2>1. now <= pendingOperator.proposed_at + ProposalExpiration
      BY <1>9, InTime DEF AcceptOperator, Inv, TypeOK
    <2> QED
      BY <1>9, <2>1 DEF AcceptOperator, OperatorHandoff!Next, OperatorHandoff!Accept
  <1>10. ASSUME NEW c \in Address, CancelOperatorProposal(c) PROVE Goal
    BY <1>10 DEF CancelOperatorProposal, OperatorHandoff!Next, OperatorHandoff!Withdraw
  <1>11. ASSUME NEW c \in Address, NEW t \in Address, SetOperator(c, t) PROVE Goal
    BY <1>11 DEF SetOperator, OperatorHandoff!Next, OperatorHandoff!Appoint
  <1>12. ASSUME NEW c \in Address, NEW t \in Address, ProposeOperator(c, t) PROVE Goal
    BY <1>12 DEF ProposeOperator, OperatorHandoff!Next, OperatorHandoff!Propose
  <1>13. ASSUME NEW c \in Address, Pause(c) \/ Unpause(c) \/ Migrate(c) \/ ExecuteMigration(c)
         PROVE  Goal
    BY <1>13, OperatorUntouched DEF Pause, Unpause, Migrate, ExecuteMigration, roleVars
  <1>14. ASSUME NEW c \in Address, NEW t \in Address, SetMigrationKey(c, t) PROVE Goal
    BY <1>14, OperatorUntouched DEF SetMigrationKey, roleVars
  <1> QED
    BY <1>1, <1>2, <1>3, <1>4, <1>5, <1>6, <1>7, <1>8, <1>9, <1>10, <1>11, <1>12, <1>13,
       <1>14, CallCases

\* The operator role follows it too, with appointments by the admin.
THEOREM OperatorHandoffImplemented == Spec => FollowsOperatorHandoff
  <1>1. Init => OperatorHandoff!Init
    BY DEF Init, OperatorHandoff!Init
  <1> QED
    BY <1>1, InvHolds, OperatorHandoffStep, PTL
       DEF Spec, FollowsOperatorHandoff, OperatorHandoff!Spec

-----------------------------------------------------------------------------
(* What a step may not do.                                                 *)

\* Under a foreign storage version only initialize, migrate and the passing
\* of time change anything; initialize needs a vacant admin role.
THEOREM VersionGateHolds == Spec => VersionGate
  <1>1. [Next]_govVars /\ version # STORAGE_VERSION /\ admin # NoOne
          => UNCHANGED <<roleVars, pauseVars, migrationKey>>
    <2> SUFFICES ASSUME [Next]_govVars, version # STORAGE_VERSION, admin # NoOne
                 PROVE  UNCHANGED <<roleVars, pauseVars, migrationKey>>
      OBVIOUS
    <2>1. UNCHANGED govVars \/ Tick \/ \E c \in Address : Migrate(c)
      BY CallCases, Zenon
         DEF GetPendingAdmin, GetPendingOperator, Initialize, AcceptAdmin, CancelAdminProposal,
             RenounceAdmin, ProposeAdmin, RevokeOperator, RenounceOperator, AcceptOperator,
             CancelOperatorProposal, SetOperator, ProposeOperator, Pause, Unpause,
             ExecuteMigration, SetMigrationKey, AdminCall, Versioned
    <2> QED
      BY <2>1 DEF Tick, Migrate, govVars, upgradeVars
  <1> QED
    BY <1>1, PTL DEF Spec, VersionGate

\* Without an admin only the operator's own calls, the clean-up of expired
\* proposals, the migration key's use and the passing of time are left.
THEOREM FrozenWithoutAdminHolds == Spec => FrozenWithoutAdmin
  <1> DEFINE Frozen == /\ UNCHANGED <<pendingAdmin, pauseVars>>
                       /\ pendingOperator' \in {pendingOperator, NoProposal}
                       /\ migrationKey' \in {migrationKey, NoKey}
                       /\ operator' \in {operator, NoOne, pendingOperator.target}
  <1>1. Inv /\ [Next]_govVars /\ admin = NoOne /\ admin' = NoOne => Frozen
    <2> SUFFICES ASSUME Inv, [Next]_govVars, admin = NoOne, admin' = NoOne PROVE Frozen
      OBVIOUS
    <2>1. \/ UNCHANGED govVars \/ Tick \/ GetPendingAdmin \/ GetPendingOperator
          \/ \E c \in Address : RenounceOperator(c) \/ AcceptOperator(c) \/ ExecuteMigration(c)
      BY CallCases, NoOneAssumption, Zenon
         DEF Initialize, AcceptAdmin, CancelAdminProposal, RenounceAdmin, ProposeAdmin,
             RevokeOperator, CancelOperatorProposal, SetOperator, ProposeOperator, Pause,
             Unpause, Migrate, SetMigrationKey, AdminCall, RequireAdmin
    <2>2. pendingAdmin = NoProposal
      BY DEF Inv, VacantAdminHasNoProposal
    <2> QED
      BY <2>1, <2>2 DEF Tick, GetPendingAdmin, GetPendingOperator, RenounceOperator,
         AcceptOperator, ExecuteMigration, govVars, roleVars, upgradeVars
  <1> QED
    BY <1>1, InvHolds, PTL DEF Spec, FrozenWithoutAdmin

\* Only set_migration_key and execute_migration touch the key.
THEOREM MigrationNoticeHolds == Spec => MigrationNotice
  <1> DEFINE Notice == \/ migrationKey' = NoKey /\ now - migrationKey.set_time >= MigrationTimelock
                       \/ migrationKey' # NoKey /\ migrationKey'.set_time = now
  <1>1. [Next]_govVars /\ migrationKey' # migrationKey => Notice
    <2> SUFFICES ASSUME [Next]_govVars, migrationKey' # migrationKey PROVE Notice
      OBVIOUS
    <2>1. \/ \E c \in Address : ExecuteMigration(c)
          \/ \E c, t \in Address : SetMigrationKey(c, t)
      BY CallCases
         DEF Tick, GetPendingAdmin, GetPendingOperator, Initialize, AcceptAdmin,
             CancelAdminProposal, RenounceAdmin, ProposeAdmin, RevokeOperator,
             RenounceOperator, AcceptOperator, CancelOperatorProposal, SetOperator,
             ProposeOperator, Pause, Unpause, Migrate, govVars, upgradeVars
    <2>2. ASSUME NEW c \in Address, ExecuteMigration(c) PROVE Notice
      BY <2>2 DEF ExecuteMigration
    <2>3. ASSUME NEW c \in Address, NEW t \in Address, SetMigrationKey(c, t) PROVE Notice
      BY <2>3, NoOneAssumption DEF SetMigrationKey, NoKey
    <2> QED
      BY <2>1, <2>2, <2>3
  <1> QED
    BY <1>1, PTL DEF Spec, MigrationNotice

-----------------------------------------------------------------------------
(* What the calculation side sees.                                         *)

\* Every step looks to the calculation side like one of the interface's.
LEMMA InterfaceStep == Inv /\ [Next]_govVars => [Interface!Next]_(Interface!seen)
  <1> SUFFICES ASSUME Inv, [Next]_govVars
               PROVE  Interface!Next \/ UNCHANGED Interface!seen
    OBVIOUS
  <1> DEFINE Goal == Interface!Next \/ UNCHANGED Interface!seen
  <1> USE DEF AdminCall, Versioned, RequireAdmin, STORAGE_VERSION, Interface!STORAGE_VERSION
  <1>1. CASE UNCHANGED govVars
    BY <1>1 DEF govVars, roleVars, pauseVars, upgradeVars, Interface!seen
  <1>2. CASE Tick
    BY <1>2 DEF Tick, roleVars, pauseVars, upgradeVars, Interface!Next, Interface!Tick
  <1>3. CASE GetPendingAdmin \/ GetPendingOperator
    BY <1>3 DEF GetPendingAdmin, GetPendingOperator, pauseVars, upgradeVars, Interface!seen
  <1>4. ASSUME NEW a \in Address, NEW o \in Address, Initialize(a, o) PROVE Goal
    BY <1>4 DEF Initialize, Interface!Next, Interface!Install
  <1>5. ASSUME NEW c \in Address,
               CancelAdminProposal(c) \/ CancelOperatorProposal(c)
        PROVE  Goal
    BY <1>5 DEF CancelAdminProposal, CancelOperatorProposal, pauseVars, upgradeVars,
       Interface!seen
  <1>6. ASSUME NEW c \in Address, NEW t \in Address, ProposeAdmin(c, t) \/ ProposeOperator(c, t)
        PROVE  Goal
    BY <1>6 DEF ProposeAdmin, ProposeOperator, pauseVars, upgradeVars, Interface!seen
  <1>7. ASSUME NEW c \in Address, AcceptAdmin(c) \/ RenounceAdmin(c) PROVE Goal
    <2>1. admin # NoOne
      BY <1>7, NoOneAssumption DEF AcceptAdmin, RenounceAdmin, Inv, VacantAdminHasNoProposal
    <2>2. Interface!ChangeAdmin
      BY <1>7, <2>1 DEF AcceptAdmin, RenounceAdmin, pauseVars, upgradeVars, Interface!ChangeAdmin
    <2> QED
      BY <2>2 DEF Interface!Next, Interface!Govern
  <1>8. ASSUME NEW c \in Address, RevokeOperator(c) \/ RenounceOperator(c) \/ AcceptOperator(c)
        PROVE  Goal
    <2>1. Interface!ChangeOperator
      BY <1>8 DEF RevokeOperator, RenounceOperator, AcceptOperator, pauseVars, upgradeVars,
         Interface!ChangeOperator
    <2> QED
      BY <2>1 DEF Interface!Next, Interface!Govern
  <1>9. ASSUME NEW c \in Address, NEW t \in Address, SetOperator(c, t) PROVE Goal
    <2>1. Interface!ChangeOperator
      BY <1>9 DEF SetOperator, pauseVars, upgradeVars, Interface!ChangeOperator
    <2> QED
      BY <2>1 DEF Interface!Next, Interface!Govern
  <1>10. ASSUME NEW c \in Address, Pause(c) \/ Unpause(c) PROVE Goal
    <2>1. Interface!SwitchPause
      BY <1>10, Zenon, NoOneAssumption DEF Pause, Unpause, roleVars, upgradeVars,
         Interface!SwitchPause
    <2> QED
      BY <2>1 DEF Interface!Next, Interface!Govern
  <1>11. ASSUME NEW c \in Address, Migrate(c) PROVE Goal
    <2>1. version' = version + 1
      BY <1>11 DEF Migrate, Inv, TypeOK
    <2>2. Interface!ChangeVersion
      BY <1>11, <2>1, NoOneAssumption DEF Migrate, roleVars, pauseVars, Interface!ChangeVersion
    <2> QED
      BY <2>2 DEF Interface!Next, Interface!Govern
  <1>12. ASSUME NEW c \in Address, ExecuteMigration(c) PROVE Goal
    <2>1. Interface!ChangeVersion
      BY <1>12 DEF ExecuteMigration, roleVars, pauseVars, Interface!ChangeVersion
    <2> QED
      BY <2>1 DEF Interface!Next, Interface!Govern
  <1>13. ASSUME NEW c \in Address, NEW t \in Address, SetMigrationKey(c, t) PROVE Goal
    BY <1>13 DEF SetMigrationKey, roleVars, pauseVars, Interface!seen
  <1> QED
    BY <1>1, <1>2, <1>3, <1>4, <1>5, <1>6, <1>7, <1>8, <1>9, <1>10, <1>11, <1>12, <1>13,
       CallCases

\* Whatever SLALedger establishes under GovernanceInterface holds under the
\* governance calls of the contract.
THEOREM InterfaceImplemented == Spec => SeenThroughInterface
  <1>1. Init => Interface!Init
    BY DEF Init, Interface!Init
  <1> QED
    BY <1>1, InvHolds, InterfaceStep, PTL DEF Spec, SeenThroughInterface, Interface!Spec

=============================================================================
