------------------------ MODULE GovernanceInterface ------------------------
(***************************************************************************)
(* What the rest of the contract sees of its governance: who is admin and   *)
(* operator, whether it is paused, the storage version and the ledger time. *)
(* Each action stands for every call of SLAGovernance with that visible     *)
(* effect, whatever proposal, key or caller made it possible; SLAGovernance *)
(* implements this specification (SeenThroughInterface).  SLALedger runs    *)
(* against it, so what holds there holds under every governance history.    *)
(***************************************************************************)
EXTENDS Integers

CONSTANTS
    Address,   \* accounts that call the contract
    NoOne,     \* the role is vacant
    MaxTime    \* bound on the ledger time

VARIABLES now, admin, operator, paused, version

seen == <<now, admin, operator, paused, version>>

STORAGE_VERSION == 1

Init ==
    /\ now = 0
    /\ version = 0
    /\ paused = FALSE
    /\ \/ admin = NoOne /\ operator = NoOne
       \/ admin \in Address /\ operator \in Address

\* A new ledger closes.
Tick ==
    /\ now < MaxTime
    /\ now' = now + 1
    /\ UNCHANGED <<admin, operator, paused, version>>

\* initialize: the roles are filled when there is no admin.
Install(newAdmin, newOperator) ==
    /\ admin = NoOne
    /\ admin' = newAdmin
    /\ operator' = newOperator
    /\ paused' = FALSE
    /\ version' = STORAGE_VERSION
    /\ UNCHANGED now

\* accept_admin and renounce_admin: only while there is an admin.
ChangeAdmin ==
    /\ version = STORAGE_VERSION
    /\ admin # NoOne
    /\ admin' \in Address \cup {NoOne}
    /\ UNCHANGED <<now, operator, paused, version>>

\* The operator is appointed, accepts, is revoked or renounces.  An
\* acceptance or a renunciation is possible without an admin.
ChangeOperator ==
    /\ version = STORAGE_VERSION
    /\ operator' \in Address \cup {NoOne}
    /\ UNCHANGED <<now, admin, paused, version>>

\* pause and unpause: only while there is an admin.
SwitchPause ==
    /\ version = STORAGE_VERSION
    /\ admin # NoOne
    /\ paused' \in BOOLEAN
    /\ UNCHANGED <<now, admin, operator, version>>

\* migrate stamps unversioned storage; execute_migration goes past the binary.
ChangeVersion ==
    /\ \/ version < STORAGE_VERSION /\ admin # NoOne
       \/ version = STORAGE_VERSION
    /\ version' = version + 1
    /\ UNCHANGED <<now, admin, operator, paused>>

Govern == ChangeAdmin \/ ChangeOperator \/ SwitchPause \/ ChangeVersion

Next ==
    \/ Tick
    \/ Govern
    \/ \E newAdmin, newOperator \in Address : Install(newAdmin, newOperator)

Spec == Init /\ [][Next]_seen

=============================================================================
