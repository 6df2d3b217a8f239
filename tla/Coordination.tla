---------------------------- MODULE Coordination ----------------------------
(***************************************************************************)
(* Calls into other contracts (cross_contract_safety.rs) and the comparison     *)
(* of versions before them (version_negotiation.rs).  A tracker of calls notes  *)
(* the tag of a compensation for each call that succeeds.  What undoes the calls   *)
(* after a failure is not in the code: the tracker is a list, and the finalize     *)
(* of the file's usage example does not exist.  A registry names the contracts     *)
(* that may call in; no operation of the source asks it.                     *)
(***************************************************************************)
EXTENDS Integers, Sequences, FiniteSets, SequencesExt

CONSTANTS
    Peer,           \* the contracts that call and are called
    Manager,        \* accounts that may become the admin
    NoManager,      \* initialize_admin has not been called
    Tag,            \* compensation tags
    MaxTracked,     \* bound on the calls under one tracker
    PROTOCOL_VERSION, MIN_COMPATIBLE_PROTOCOL, ProtocolInputs

ASSUME ProtocolAssumption ==
    /\ PROTOCOL_VERSION \in Nat /\ MIN_COMPATIBLE_PROTOCOL \in 0..PROTOCOL_VERSION
    /\ ProtocolInputs \subseteq Nat /\ NoManager \notin Manager

VARIABLES
    manager,        \* ADMIN, written by initialize_admin
    authorized,     \* AUTHORIZED_CALLERS_KEY
    registrar,      \* history: the account whose call changed the registry last
    compensations,  \* compensation_stack of the tracker
    effects         \* history: the tags of the tracker's calls that took effect

registryVars == <<manager, authorized, registrar>>
trackerVars == <<compensations, effects>>
coordinationVars == <<registryVars, trackerVars>>

-----------------------------------------------------------------------------
(* Who may call.                                                           *)

\* Anybody may be the first.
InitializeAdmin(account) ==
    /\ manager = NoManager
    /\ manager' = account
    /\ UNCHANGED <<authorized, registrar, trackerVars>>

AddAuthorizedCaller(account, peer) ==
    /\ manager # NoManager /\ account = manager
    /\ authorized' = authorized \cup {peer}
    /\ registrar' = account
    /\ UNCHANGED <<manager, trackerVars>>

RemoveAuthorizedCaller(account, peer) ==
    /\ manager # NoManager /\ account = manager
    /\ authorized' = authorized \ {peer}
    /\ registrar' = account
    /\ UNCHANGED <<manager, trackerVars>>

is_authorized_caller(peer) == peer \in authorized

-----------------------------------------------------------------------------
(* Calls under one tracker.                                                *)

safe_invoke_contract == {"Success", "FatalError"}
requires_rollback(status) == status \in {"FatalError", "DispatchFailed"}
depth == Len(compensations)
has_pending == compensations # <<>>

\* CrossContractSafety::new
NewTracker ==
    /\ compensations' = <<>>
    /\ effects' = <<>>
    /\ UNCHANGED registryVars

\* Mutant: the compensation is registered before the call.
CallRegisteredFirst(tag, status) ==
    /\ depth < MaxTracked
    /\ compensations' = Append(compensations, tag)
    /\ effects' = IF status = "Success" THEN Append(effects, tag) ELSE effects
    /\ UNCHANGED registryVars

\* A call that fails has no effect: the host undoes what it did.  Nothing keeps
\* the caller from making further calls after one that failed.
Call(tag, status) ==
    /\ depth < MaxTracked
    /\ compensations' = IF status \in {"Success", "RecoverableError"}
                          THEN Append(compensations, tag) ELSE compensations
    /\ effects' = IF status = "Success" THEN Append(effects, tag) ELSE effects
    /\ UNCHANGED registryVars

-----------------------------------------------------------------------------
(* Versions.                                                               *)

Info(name, protocol, oldest) ==
    [contract_name |-> name, protocol_version |-> protocol, min_compatible_protocol |-> oldest]

build_negotiation_info == Info("sla_calc", PROTOCOL_VERSION, MIN_COMPATIBLE_PROTOCOL)

Mismatches(ours, peer) ==
    (IF peer.protocol_version < ours.min_compatible_protocol THEN {peer.contract_name} ELSE {})
      \cup (IF ours.protocol_version < peer.min_compatible_protocol THEN {ours.contract_name} ELSE {})

negotiate_contract_versions(ours, peers) ==
    IF \E i \in DOMAIN peers : Mismatches(ours, peers[i]) # {} THEN "Incompatible"
      ELSE IF \E i \in DOMAIN peers : peers[i].protocol_version # ours.protocol_version
           THEN "Negotiated" ELSE "Compatible"

-----------------------------------------------------------------------------
CoordinationInit ==
    /\ manager = NoManager
    /\ authorized = {}
    /\ registrar = NoManager
    /\ compensations = <<>>
    /\ effects = <<>>

CoordinationNext ==
    \/ \E account \in Manager :
         \/ InitializeAdmin(account)
         \/ \E peer \in Peer : AddAuthorizedCaller(account, peer) \/ RemoveAuthorizedCaller(account, peer)
    \/ NewTracker
    \/ \E tag \in Tag, status \in safe_invoke_contract : Call(tag, status)

-----------------------------------------------------------------------------
(* Properties.                                                             *)

CoordinationTypeOK ==
    /\ manager \in Manager \cup {NoManager}
    /\ authorized \subseteq Peer
    /\ registrar \in Manager \cup {NoManager}
    /\ compensations \in Seq(Tag) /\ effects \in Seq(Tag)

\* However calls succeed and fail in turn, the tracker lists exactly those that
\* took effect, in their order: whoever undoes the list from its end reaches all
\* of them and none that failed (CrossContractSafety::call).
CallsAreTracked == compensations = effects

\* Contracts agree on whether they can work together, whichever of them asks;
\* what one peer rules out no other peer can make compatible; and the outcome
\* does not depend on the order of the peers.
NegotiationIsMutual ==
    \A theirs, oldest \in ProtocolInputs :
        LET ours == build_negotiation_info
            peer == Info("peer", theirs, oldest)
            same == Info("same", ours.protocol_version, ours.min_compatible_protocol)
            verdict == negotiate_contract_versions(ours, <<peer>>)
        IN  /\ verdict = negotiate_contract_versions(peer, <<ours>>)
            /\ negotiate_contract_versions(ours, <<same, peer>>) = verdict
            /\ negotiate_contract_versions(ours, <<peer, same>>) = verdict

\* The registry is empty until there is an admin, the first admin stays, and every
\* later change of the registry was a call of that account (require_admin).
RegistryIsTheAdmins ==
    /\ manager = NoManager => authorized = {}
    /\ manager # NoManager => manager' = manager
    /\ authorized' # authorized => registrar' = manager'
=============================================================================
