----------------------------- MODULE Collateral -----------------------------
(***************************************************************************)
(* Locked collateral (collateral_lock.rs) and the rescue of tokens the        *)
(* contract holds beyond it (token_rescue.rs).  A record goes from locked to   *)
(* released, by being released or by being paid out to the last unit, and a    *)
(* provider may then lock anew.  The files move no tokens on locking, paying   *)
(* out and releasing: the transfers that belong to these calls are the         *)
(* callers', and are modelled with them.                                     *)
(***************************************************************************)
EXTENDS Integers, FiniteSetsExt

CONSTANTS
    Provider,          \* addresses that lock collateral
    LockInputs,        \* amounts handed to the calls
    CoverageInputs,    \* coverage shares tried, in basis points
    MAX_COVERAGE_BPS,  \* 20 000 in the code
    MaxReceived        \* bound on the tokens the contract receives altogether

ASSUME CollateralAssumption ==
    /\ IsFiniteSet(Provider) /\ LockInputs \subseteq Nat /\ MAX_COVERAGE_BPS \in Nat

VARIABLES
    records,     \* COLLATERAL_MAP
    balance,     \* collateral tokens of the contract
    foreign,     \* tokens of another kind that it holds
    deposited,   \* history, per provider: amounts locked
    paid,        \* history, per provider: penalties paid
    returned,    \* history, per provider: amounts released
    rescued      \* history: tokens taken out by the admin

collateralVars == <<records, balance, foreign, deposited, paid, returned, rescued>>

FULL_COVERAGE_BPS == 10000   \* BPS_DENOMINATOR

NoLock == [amount |-> 0, coverage_bps |-> 0, state |-> "Unlocked"]
LockRecord == [amount : Nat, coverage_bps : 1..MAX_COVERAGE_BPS, state : {"Locked", "Released"}]

-----------------------------------------------------------------------------
(* Views.                                                                  *)

lock_state(provider) == records[provider].state
IsLocked(provider) == lock_state(provider) = "Locked"

available_collateral(provider) == IF IsLocked(provider) THEN records[provider].amount ELSE 0

coverage_capacity(provider) ==
    IF IsLocked(provider)
      THEN (records[provider].amount * records[provider].coverage_bps) \div FULL_COVERAGE_BPS ELSE 0

\* The providers that locked_amounts_by_site lists, with their amounts.
locked_amounts_by_site ==
    [provider \in {p \in Provider : IsLocked(p)} |-> records[provider].amount]

total_locked ==
    MapThenSumSet(LAMBDA p : IF IsLocked(p) THEN records[p].amount ELSE 0, Provider)

-----------------------------------------------------------------------------
(* Operations.                                                             *)

\* Everything that came in is still there or went out one of three ways.
Received ==
    balance + rescued + MapThenSumSet(LAMBDA p : paid[p] + returned[p], Provider)

LockCollateral(provider, amount, bps) ==
    /\ amount > 0
    /\ bps \in 1..MAX_COVERAGE_BPS
    /\ ~IsLocked(provider)
    /\ Received + amount <= MaxReceived
    /\ records' = [records EXCEPT ![provider] =
         [amount |-> amount, coverage_bps |-> bps, state |-> "Locked"]]
    /\ balance' = balance + amount
    /\ deposited' = [deposited EXCEPT ![provider] = @ + amount]
    /\ UNCHANGED <<foreign, paid, returned, rescued>>

VerifyCoverage(provider, penalty) ==
    /\ penalty > 0
    /\ IsLocked(provider)
    /\ penalty <= coverage_capacity(provider)

PayoutFromCollateral(provider, penalty) ==
    /\ VerifyCoverage(provider, penalty)
    /\ penalty <= records[provider].amount
    /\ records' = [records EXCEPT ![provider].amount = @ - penalty,
                                  ![provider].state = IF penalty = records[provider].amount
                                                        THEN "Released" ELSE "Locked"]
    /\ balance' = balance - penalty
    /\ paid' = [paid EXCEPT ![provider] = @ + penalty]
    /\ UNCHANGED <<foreign, deposited, returned, rescued>>

\* The record keeps its amount and only its state says that it is not locked.
ReleaseCollateral(provider) ==
    /\ IsLocked(provider)
    /\ records' = [records EXCEPT ![provider].state = "Released"]
    /\ balance' = balance - records[provider].amount
    /\ returned' = [returned EXCEPT ![provider] = @ + records[provider].amount]
    /\ UNCHANGED <<foreign, deposited, paid, rescued>>

\* The token refuses to transfer less than nothing.
RescueSurplusCollateral(amount) ==
    /\ amount > 0
    /\ amount <= balance - total_locked
    /\ balance' = balance - amount
    /\ rescued' = rescued + amount
    /\ UNCHANGED <<foreign, records, deposited, paid, returned>>

\* Tokens sent to the contract by mistake.
StrayTransfer(amount) ==
    /\ amount > 0
    /\ Received + amount <= MaxReceived
    /\ balance' = balance + amount
    /\ UNCHANGED <<foreign, records, deposited, paid, returned, rescued>>

StrayForeign(amount) ==
    /\ foreign + amount <= MaxReceived
    /\ foreign' = foreign + amount
    /\ UNCHANGED <<records, balance, deposited, paid, returned, rescued>>

\* rescue_tokens takes out a token that its caller says is not the collateral's.
RescueTokens(token, amount) ==
    /\ token # "collateral"
    /\ amount <= foreign
    /\ foreign' = foreign - amount
    /\ UNCHANGED <<records, balance, deposited, paid, returned, rescued>>

-----------------------------------------------------------------------------
CollateralInit ==
    /\ records = [provider \in Provider |-> NoLock]
    /\ balance = 0
    /\ foreign = 0
    /\ deposited = [provider \in Provider |-> 0]
    /\ paid = [provider \in Provider |-> 0]
    /\ returned = [provider \in Provider |-> 0]
    /\ rescued = 0

CollateralNext ==
    \/ \E provider \in Provider, amount \in LockInputs, bps \in CoverageInputs :
         LockCollateral(provider, amount, bps)
    \/ \E provider \in Provider, penalty \in LockInputs : PayoutFromCollateral(provider, penalty)
    \/ \E provider \in Provider : ReleaseCollateral(provider)
    \/ \E amount \in LockInputs :
         \/ RescueSurplusCollateral(amount) \/ StrayTransfer(amount) \/ StrayForeign(amount)
         \/ \E token \in {"collateral", "other"} : RescueTokens(token, amount)

CollateralSpec == CollateralInit /\ [][CollateralNext]_collateralVars

-----------------------------------------------------------------------------
(* Properties.                                                             *)

CollateralTypeOK ==
    /\ records \in [Provider -> LockRecord \cup {NoLock}]
    /\ balance \in Nat
    /\ foreign \in Nat
    /\ deposited \in [Provider -> Nat]
    /\ paid \in [Provider -> Nat]
    /\ returned \in [Provider -> Nat]
    /\ rescued \in Nat

\* For every provider and over any number of locks, what was locked is what
\* was paid, what was returned and what is still available (lock_conserved of
\* collateral_lock.rs, which nothing calls).
lock_conserved(original, paid_out, residual) == paid_out + residual = original
EveryLockConserved ==
    \A provider \in Provider :
        lock_conserved(deposited[provider], paid[provider] + returned[provider],
                       available_collateral(provider))

\* The contract holds at least what is locked, although a coverage above 100 %
\* verifies penalties beyond the amount, a released record keeps its amount,
\* and the admin takes surplus out at any time.
LockedIsHeld == balance >= total_locked

\* The readers of the map agree, and a lock that is left with nothing is not
\* a lock: the total is that of the listed sites, each with something in it.
LockViewsAgree ==
    /\ total_locked = MapThenSumSet(LAMBDA p : locked_amounts_by_site[p],
                                    DOMAIN locked_amounts_by_site)
    /\ \A provider \in Provider :
         provider \in DOMAIN locked_amounts_by_site <=> available_collateral(provider) > 0

\* Collateral is neither lost nor spent twice: the properties above together.
CollateralConserved ==
    CollateralTypeOK /\ EveryLockConserved /\ LockedIsHeld /\ LockViewsAgree
=============================================================================
