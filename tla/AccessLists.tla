---------------------------- MODULE AccessLists ----------------------------
(***************************************************************************)
(* The lists of accounts kept beside the contract's own roles: the whitelist  *)
(* with its enforcement switch, the operators' roles and the grace periods of  *)
(* registered services (whitelist.rs), and the list of operators               *)
(* (multi_operator.rs).  Both lists are a map from accounts to a flag, where    *)
(* removing clears the flag, and a counter kept beside it; clear_whitelist and   *)
(* init_operators write both anew.  The accounts calling are the admin: every   *)
(* operation but init_operators refuses anybody else.                        *)
(***************************************************************************)
EXTENDS LedgerClock, FiniteSets

CONSTANTS
    Account,          \* contracts, operators and services
    OperatorRole,     \* Reporter, Auditor, Admin and EmergencyGuard in the code
    NoRole,           \* no role is assigned
    GraceInputs,      \* durations the admin sets, in seconds
    DefaultGrace      \* 14 days in the code

ASSUME AccountAssumption == IsFiniteSet(Account)
ASSUME GraceAssumption == GraceInputs \subseteq Nat /\ DefaultGrace \in Nat

VARIABLES
    whitelist,      \* WHITELIST_KEY
    operators,      \* OPERATORS_KEY
    roles,          \* OPERATOR_ROLES_KEY
    gracePeriod,    \* GRACE_PERIOD_KEY
    services        \* SERVICE_REG_KEY

listVars == <<whitelist, operators>>
serviceVars == <<roles, gracePeriod, services>>
accessVars == <<listVars, serviceVars>>

Unlisted == [account \in Account |-> FALSE]
Members(flags) == {account \in Account : flags[account]}

OperatorState == [flags : [Account -> BOOLEAN], count : Nat, stored : BOOLEAN]
WhitelistState == [flags : [Account -> BOOLEAN], count : Nat, enforced : BOOLEAN]
NotRegistered == [registered_at |-> -1, grace_period |-> 0]
ServiceRegistration == [registered_at : Time, grace_period : Nat]

-----------------------------------------------------------------------------
(* A flag and its counter.                                                 *)

\* Mutant: listing an account again counts it again.
ListedTwice(list, account) == [list EXCEPT !.flags[account] = TRUE, !.count = @ + 1]

\* Listing a listed account changes nothing.
Listed(list, account) ==
    IF list.flags[account] THEN list
      ELSE [list EXCEPT !.flags[account] = TRUE, !.count = @ + 1]

\* The counter does not go below zero.
Delisted(list, account) ==
    IF ~list.flags[account] THEN list
      ELSE [list EXCEPT !.flags[account] = FALSE, !.count = IF @ > 0 THEN @ - 1 ELSE 0]

-----------------------------------------------------------------------------
(* The whitelist.                                                          *)

init_whitelist == [flags |-> Unlisted, count |-> 0, enforced |-> FALSE]

AddToWhitelist(account) ==
    whitelist' = Listed(whitelist, account) /\ UNCHANGED <<now, operators, serviceVars>>

RemoveFromWhitelist(account) ==
    whitelist' = Delisted(whitelist, account) /\ UNCHANGED <<now, operators, serviceVars>>

\* Clearing switches the enforcement off as well.
ClearWhitelist ==
    whitelist' = init_whitelist /\ UNCHANGED <<now, operators, serviceVars>>

EnableWhitelist ==
    /\ whitelist' = [whitelist EXCEPT !.enforced = TRUE]
    /\ UNCHANGED <<now, operators, serviceVars>>

DisableWhitelist ==
    /\ whitelist' = [whitelist EXCEPT !.enforced = FALSE]
    /\ UNCHANGED <<now, operators, serviceVars>>

is_whitelisted(account) == whitelist.flags[account]
check_whitelist(account) == whitelist.enforced => is_whitelisted(account)
list_whitelisted == Members(whitelist.flags)
get_whitelist_status == <<whitelist.enforced, whitelist.count>>

-----------------------------------------------------------------------------
(* The operators of multi_operator.rs.                                     *)

\* May be called again, and then forgets the other operators.
InitOperators(account) ==
    /\ operators' = [flags |-> [Unlisted EXCEPT ![account] = TRUE],
                    count |-> 1, stored |-> TRUE]
    /\ UNCHANGED <<now, whitelist, serviceVars>>

AddOperator(account) ==
    /\ operators.stored
    /\ operators' = Listed(operators, account)
    /\ UNCHANGED <<now, whitelist, serviceVars>>

\* The last operator may be removed too, and others added again.
RemoveOperator(account) ==
    /\ operators.stored
    /\ operators' = Delisted(operators, account)
    /\ UNCHANGED <<now, whitelist, serviceVars>>

is_operator(account) == operators.flags[account]

list_operators == {account \in Account : is_operator(account)}
operator_count == operators.count

-----------------------------------------------------------------------------
(* Roles and services.                                                     *)

AssignRole(account, role) ==
    /\ roles' = [roles EXCEPT ![account] = role]
    /\ UNCHANGED <<now, listVars, gracePeriod, services>>

RevokeRole(account) ==
    /\ roles' = [roles EXCEPT ![account] = NoRole]
    /\ UNCHANGED <<now, listVars, gracePeriod, services>>

SetGracePeriodDuration(seconds) ==
    /\ gracePeriod' = seconds
    /\ UNCHANGED <<now, listVars, roles, services>>

\* Registering again starts a new grace period, of the duration now in force.
RegisterService(account) ==
    /\ services' = [services EXCEPT ![account] =
         [registered_at |-> now, grace_period |-> gracePeriod]]
    /\ UNCHANGED <<now, listVars, roles, gracePeriod>>

is_service_in_grace_period(account) ==
    /\ services[account] # NotRegistered
    /\ now < services[account].registered_at + services[account].grace_period

evaluate_outage_penalty_with_grace(account, penalty) ==
    IF is_service_in_grace_period(account) THEN 0 ELSE penalty

-----------------------------------------------------------------------------
AccessInit ==
    /\ whitelist = init_whitelist
    /\ operators = [flags |-> Unlisted, count |-> 0, stored |-> FALSE]
    /\ roles = [account \in Account |-> NoRole]
    /\ gracePeriod = DefaultGrace
    /\ services = [account \in Account |-> NotRegistered]

ListCall(account) ==
    \/ AddToWhitelist(account) \/ RemoveFromWhitelist(account)
    \/ InitOperators(account) \/ AddOperator(account) \/ RemoveOperator(account)

ServiceCall(account) ==
    \/ \E role \in OperatorRole : AssignRole(account, role)
    \/ RevokeRole(account)
    \/ RegisterService(account)

ListNext ==
    \/ EnableWhitelist \/ DisableWhitelist \/ ClearWhitelist
    \/ \E account \in Account : ListCall(account)

ServiceNext ==
    \/ Tick /\ UNCHANGED accessVars
    \/ \E seconds \in GraceInputs : SetGracePeriodDuration(seconds)
    \/ \E account \in Account : ServiceCall(account)

AccessSpec == now = 0 /\ AccessInit /\ [][ListNext \/ ServiceNext]_<<now, accessVars>>

-----------------------------------------------------------------------------
(* Properties.                                                             *)

AccessTypeOK ==
    /\ whitelist \in WhitelistState
    /\ operators \in OperatorState
    /\ roles \in [Account -> OperatorRole \cup {NoRole}]
    /\ gracePeriod \in Nat
    /\ services \in [Account -> ServiceRegistration \cup {NotRegistered}]

\* The counters, which are moved by one and saturate, stay the number of
\* accounts listed through repeated additions and removals, clearing and
\* starting over (get_whitelist_status, operator_count).
CountsMatchLists ==
    /\ get_whitelist_status[2] = Cardinality(list_whitelisted)
    /\ operator_count = Cardinality(list_operators)

\* Whoever loses admission while the whitelist is on has been removed from it by
\* name, alone, for clearing the list would let everybody in (clear_whitelist).
AdmissionFollowsList ==
    \A account \in Account :
        check_whitelist(account) /\ ~check_whitelist(account)' /\ whitelist.enforced =>
            list_whitelisted' = list_whitelisted \ {account}

\* A penalty that grace remits is due again when the time announced at the
\* registration has come, and one that was due is remitted again, only if not by
\* another registration, of the duration then in force: changing that duration
\* neither shortens, prolongs nor revives a grace period.
GraceEndsAsAnnounced ==
    \A account \in Account :
        LET record == services[account]
            remitted == evaluate_outage_penalty_with_grace(account, 1) = 0
            again == services'[account] = [registered_at |-> now, grace_period |-> gracePeriod]
        IN  remitted # (evaluate_outage_penalty_with_grace(account, 1) = 0)' =>
              again \/ (remitted /\ now' >= record.registered_at + record.grace_period)
=============================================================================
