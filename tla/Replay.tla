------------------------------ MODULE Replay ------------------------------
(***************************************************************************)
(* The backend's helpers for calls whose outcome it does not know             *)
(* (offchain/): the status of a payout intent, the registry of transaction      *)
(* hashes, and the decision between retrying, querying and giving up.  They      *)
(* are composed in the order their comments give, over a network that delivers    *)
(* a submission at any time up to the last ledger it is valid for, or never, and   *)
(* over the contract, which books an outage its bounded history does not know.     *)
(***************************************************************************)
EXTENDS LedgerClock, FiniteSets

CONSTANTS
    Job,           \* outages submitted for settlement
    MaxAttempts,   \* bound on the submissions of an outage
    Validity       \* ledgers a submission stays valid for

ASSUME ReplayAssumption == MaxAttempts \in Nat /\ Validity \in Nat

VARIABLES
    finality,      \* PayoutIntent.finality
    registry,      \* TxHashCorrelationRegistry.records
    flights,       \* submissions the network may still deliver, or has delivered
    remembered,    \* the outages in the contract's history
    applied,       \* history: how often an outage was booked
    rash           \* history: a retry was decided on while a submission could still
                   \* land, or an unresolved outage has left the contract's history

replayVars == <<finality, registry, flights, remembered, applied, rash>>

FinalityState == {"pending", "submitted", "finalized", "rolled_back", "expired"}
TxRecord == [tx_hash : 0..MaxAttempts, confirmed : BOOLEAN]
Flight == [job : Job, tx_hash : 1..MaxAttempts, last : Nat,
           fate : {"open", "included", "failed"}]

TxStatus == {"success", "failed", "timeout", "unknown"}
PartialObservationType == {"response_no_ledger", "event_no_result", "result_no_event",
                           "ledger_no_response", "error_after_event"}

CanLand(flight) == flight.fate = "open" /\ now <= flight.last
Fate(job) == {flight.fate : flight \in {f \in flights : f.job = job /\ f.tx_hash = registry[job].tx_hash}}

-----------------------------------------------------------------------------
(* Decisions.                                                              *)

TRANSITIONS ==
    {<<"pending", "submitted">>,
     <<"submitted", "finalized">>, <<"submitted", "rolled_back">>, <<"submitted", "expired">>,
     <<"rolled_back", "pending">>, <<"expired", "pending">>}

transition(job, next) ==
    /\ <<finality[job], next>> \in TRANSITIONS
    /\ finality' = [finality EXCEPT ![job] = next]

resolveAmbiguity(status) == IF status = "failed" THEN "retry" ELSE "query_only"

classifyRecovery(observation) ==
    IF observation = "error_after_event" THEN "manual_review" ELSE "query_and_verify"

\* What the backend sees of a submission that calls for a query first.
Unclear(observation) ==
    \/ observation \in TxStatus /\ resolveAmbiguity(observation) = "query_only"
    \/ observation \in PartialObservationType /\ classifyRecovery(observation) = "query_and_verify"

\* Mutant: the window decides before the history is looked at.
ReconcileWindowFirst(job, windowGiven) ==
    IF windowGiven THEN "retry" ELSE IF job \in remembered THEN "no_op" ELSE "escalate"

\* The window counts as closed when both its ends are given, wherever the
\* ledger is.
Reconcile(job, windowGiven) ==
    IF job \in remembered THEN "no_op" ELSE IF windowGiven THEN "retry" ELSE "escalate"

-----------------------------------------------------------------------------
(* The backend.                                                            *)

\* register refuses what is confirmed, and otherwise replaces the record.
SubmitJob(job) ==
    LET hash == registry[job].tx_hash + 1
    IN  /\ transition(job, "submitted")
        /\ ~registry[job].confirmed
        /\ hash <= MaxAttempts
        /\ registry' = [registry EXCEPT ![job] = [tx_hash |-> hash, confirmed |-> FALSE]]
        /\ flights' = flights \cup
             {[job |-> job, tx_hash |-> hash, last |-> now + Validity, fate |-> "open"]}
        /\ UNCHANGED <<now, remembered, applied, rash>>

Confirmed(job) ==
    /\ transition(job, "finalized")
    /\ registry' = [registry EXCEPT ![job].confirmed = TRUE]

Confirm(job) ==
    /\ "included" \in Fate(job)
    /\ Confirmed(job)
    /\ UNCHANGED <<now, flights, remembered, applied, rash>>

RollBack(job) ==
    /\ "failed" \in Fate(job)
    /\ transition(job, "rolled_back")
    /\ UNCHANGED <<now, registry, flights, remembered, applied, rash>>

\* Whatever is observed may be observed of a submission that has landed, that
\* will land, and that never lands.
Query(job, observation, windowGiven) ==
    /\ Unclear(observation)
    /\ finality[job] = "submitted"
    /\ \/ Reconcile(job, windowGiven) = "no_op" /\ Confirmed(job) /\ UNCHANGED rash
       \/ /\ Reconcile(job, windowGiven) = "retry"
          /\ transition(job, "expired")
          /\ rash' = (rash \/ \E flight \in flights : flight.job = job /\ CanLand(flight))
          /\ UNCHANGED registry
    /\ UNCHANGED <<now, flights, remembered, applied>>

Requeue(job) ==
    /\ transition(job, "pending")
    /\ UNCHANGED <<now, registry, flights, remembered, applied, rash>>

-----------------------------------------------------------------------------
(* The network and the contract.                                           *)

\* A remembered outage is not booked again.
Include(flight) ==
    /\ CanLand(flight)
    /\ flights' = (flights \ {flight}) \cup {[flight EXCEPT !.fate = "included"]}
    /\ remembered' = remembered \cup {flight.job}
    /\ applied' = IF flight.job \in remembered THEN applied
                    ELSE [applied EXCEPT ![flight.job] = @ + 1]
    /\ UNCHANGED <<now, finality, registry, rash>>

Fail(flight) ==
    /\ CanLand(flight)
    /\ flights' = (flights \ {flight}) \cup {[flight EXCEPT !.fate = "failed"]}
    /\ UNCHANGED <<now, finality, registry, remembered, applied, rash>>

\* The contract's history is bounded, and the admin prunes it.
Forget(job) ==
    /\ job \in remembered
    /\ remembered' = remembered \ {job}
    /\ rash' = (rash \/ finality[job] # "finalized")
    /\ UNCHANGED <<now, finality, registry, flights, applied>>

-----------------------------------------------------------------------------
ReplayInit ==
    /\ finality = [job \in Job |-> "pending"]
    /\ registry = [job \in Job |-> [tx_hash |-> 0, confirmed |-> FALSE]]
    /\ flights = {}
    /\ remembered = {}
    /\ applied = [job \in Job |-> 0]
    /\ rash = FALSE

ReplayNext ==
    \/ Tick /\ UNCHANGED replayVars
    \/ \E job \in Job : SubmitJob(job) \/ Confirm(job) \/ RollBack(job) \/ Requeue(job) \/ Forget(job)
    \/ \E job \in Job, observation \in TxStatus \cup PartialObservationType,
          windowGiven \in BOOLEAN : Query(job, observation, windowGiven)
    \/ \E flight \in flights : Include(flight) \/ Fail(flight)

ReplaySpec == ReplayInit /\ now = 0 /\ [][ReplayNext]_<<now, replayVars>>

-----------------------------------------------------------------------------
(* Properties.                                                             *)

ReplayTypeOK ==
    /\ finality \in [Job -> FinalityState]
    /\ registry \in [Job -> TxRecord]
    /\ flights \subseteq Flight
    /\ remembered \subseteq Job
    /\ applied \in [Job -> Nat]
    /\ rash \in BOOLEAN

\* A backend that reconciles only when no submission can land any more, and
\* whose unresolved outages stay in the contract's history, never submits an
\* outage that is booked and never has two submissions of it under way, however
\* answers are lost; and what it holds for final has been booked.
PatientReplaysAreSafe ==
    \A job \in Job :
        LET underWay == {flight \in flights : flight.job = job /\ CanLand(flight)}
        IN  /\ finality[job] = "finalized" => applied[job] > 0
            /\ applied[job] = 0 => job \notin remembered
            /\ ~rash => /\ Cardinality(underWay) <= 1
                        /\ applied[job] <= 1
                        /\ applied[job] = 1 => underWay = {}

\* offchain/ambiguousOutcomeReplay.ts, line 7: replaying "prevents
\* double-application of SLA calculations".
NeverAppliedTwice == \A job \in Job : applied[job] <= 1
=============================================================================
