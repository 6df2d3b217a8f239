----------------------------- MODULE OracleData -----------------------------
(***************************************************************************)
(* The oracle's data points (oracle.rs): each is validated against the        *)
(* freshness and the confirmations the admin asks for, and against nothing     *)
(* while no oracle is configured or it is disabled.  A point gathers           *)
(* confirmations; its time stamp, set by its source, may lie in the future.    *)
(***************************************************************************)
EXTENDS LedgerClock, FiniteSetsExt

CONSTANTS
    StalenessInputs, ConfirmationInputs,   \* what the admin may ask for
    MaxConfirmations                       \* bound on the confirmations of a point

ASSUME OracleAssumption ==
    StalenessInputs \cup ConfirmationInputs \subseteq Nat /\ MaxConfirmations \in Nat

VARIABLES
    oracle,      \* ORACLE_KEY, or NoOracle
    confirmed    \* the confirmations of the point with each time stamp

oracleVars == <<oracle, confirmed>>

NoOracle == [stored |-> FALSE, enabled |-> FALSE, max_staleness |-> 0, required_confirmations |-> 0]

init_oracle ==
    [stored |-> TRUE, enabled |-> FALSE, max_staleness |-> 300, required_confirmations |-> 1]

SetOracle(staleness, confirmations) ==
    /\ oracle' = [stored |-> TRUE, enabled |-> TRUE, max_staleness |-> staleness,
                  required_confirmations |-> confirmations]
    /\ UNCHANGED <<now, confirmed>>

DisableOracle ==
    /\ oracle.stored
    /\ oracle' = [oracle EXCEPT !.enabled = FALSE]
    /\ UNCHANGED <<now, confirmed>>

ConfirmPoint(timestamp) ==
    /\ confirmed[timestamp] < MaxConfirmations
    /\ confirmed' = [confirmed EXCEPT ![timestamp] = @ + 1]
    /\ UNCHANGED <<now, oracle>>

\* saturating_sub: a point from the future has no age.
Age(timestamp) == Max({now - timestamp, 0})

\* validate_oracle_data.
Valid(timestamp) ==
    oracle.enabled =>
        /\ Age(timestamp) <= oracle.max_staleness
        /\ confirmed[timestamp] >= oracle.required_confirmations

OracleInit ==
    /\ oracle \in {NoOracle, init_oracle}
    /\ confirmed = [timestamp \in Time |-> 0]

OracleNext ==
    \/ Tick /\ UNCHANGED oracleVars
    \/ DisableOracle
    \/ \E staleness \in StalenessInputs, confirmations \in ConfirmationInputs :
         SetOracle(staleness, confirmations)
    \/ \E timestamp \in Time : ConfirmPoint(timestamp)

-----------------------------------------------------------------------------
(* Properties.                                                             *)

\* Time alone never makes data valid, and confirmations alone never invalid:
\* under one configuration a point that has gone stale stays out, however its
\* source set the clock.
FreshnessOnlyLapses ==
    UNCHANGED oracle =>
        \A timestamp \in Time :
            /\ UNCHANGED confirmed => (Valid(timestamp)' => Valid(timestamp))
            /\ UNCHANGED now => (Valid(timestamp) => Valid(timestamp)')

\* Of two points with the confirmations that are asked for, the later one is
\* valid wherever the earlier one is: nobody is better off with older data.
NewerDataServesAsWell ==
    \A early, late \in Time :
        early <= late /\ confirmed[early] <= confirmed[late] /\ Valid(early) => Valid(late)
=============================================================================
