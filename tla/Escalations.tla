---------------------------- MODULE Escalations ----------------------------
(***************************************************************************)
(* Repeated violations.  breach_escalation.rs counts the breaches of a        *)
(* provider up to a level the admin may move, and scales the penalty by the     *)
(* count; penalty_escalation.rs counts the violations filed under an outage    *)
(* identifier and, from a number on, multiplies every later penalty until the   *)
(* tracker is reset.                                                        *)
(***************************************************************************)
EXTENDS Integers

CONSTANTS
    Breacher,         \* providers
    LevelInputs,      \* levels handed to set_max_escalation_level
    BaseInputs,       \* base penalties in basis points
    Filed,            \* outage identifiers
    TriggerInputs,    \* [trigger, multiplier] the admin sets
    MAX_STRIKES,      \* 10 in the code
    MaxViolations     \* bound on the breaches and violations of a behaviour

ASSUME EscalationAssumption ==
    /\ LevelInputs \subseteq Nat /\ BaseInputs \subseteq Nat
    /\ TriggerInputs \subseteq [trigger : Nat, multiplier : Nat]
    /\ MAX_STRIKES \in Nat \ {0}

VARIABLES
    breaches,         \* BREACH_MAP
    maxLevel,         \* MAX_LEVEL_KEY, or its default
    breachCount,      \* history: breaches of each provider since its strikes were cleared
    lowestLevel,      \* history: the lowest level in force since then
    escalation,       \* PENALTY_ESC_KEY, or NoEscalation
    violations,       \* VT_<outage>
    filings           \* history: violations counted for each outage since its reset

breachVars == <<breaches, maxLevel, breachCount, lowestLevel>>
penaltyVars == <<escalation, violations, filings>>
escalationVars == <<breachVars, penaltyVars>>

ONE_BPS == 10000   \* BPS_DENOMINATOR
STEP_FACTOR_BPS == 2000
MAX_FACTOR_BPS == 28000
MAX_PENALTY_BPS == 20000

Least(a, b) == IF a <= b THEN a ELSE b

-----------------------------------------------------------------------------
(* Breaches.                                                               *)

NoBreach == [breaches |-> 0, factor_bps |-> 0, base |-> 0, escalated_penalty_bps |-> 0]
BreachRecord ==
    [breaches : 1..MAX_STRIKES, factor_bps : ONE_BPS..MAX_FACTOR_BPS,
     base : Nat, escalated_penalty_bps : 0..MAX_PENALTY_BPS]

escalation_factor_bps(count) ==
    IF count = 0 THEN ONE_BPS
      ELSE Least(ONE_BPS + (Least(count, MAX_STRIKES) - 1) * STEP_FACTOR_BPS, MAX_FACTOR_BPS)

effective_penalty_bps(base, factor) == Least((base * factor) \div ONE_BPS, MAX_PENALTY_BPS)

breach_count(provider) == breaches[provider].breaches

\* The penalty a provider is told to expect, at the factor of today.
penalty_terms(provider, base) ==
    LET factor == escalation_factor_bps(breach_count(provider))
    IN  [factor_bps |-> factor, effective_penalty_bps |-> effective_penalty_bps(base, factor)]

SetMaxEscalationLevel(level) ==
    /\ maxLevel' = IF level = 0 THEN 1 ELSE Least(level, MAX_STRIKES)
    /\ lowestLevel' = [provider \in Breacher |-> Least(lowestLevel[provider], maxLevel')]
    /\ UNCHANGED <<breaches, breachCount, penaltyVars>>

\* Mutant: the count goes on beyond the level.
NextBreachCountUncapped(provider) == breach_count(provider) + 1

\* A count above a level that was lowered falls to the level.
NextBreachCount(provider) ==
    IF breaches[provider] = NoBreach THEN 1
      ELSE IF breach_count(provider) < maxLevel THEN breach_count(provider) + 1
      ELSE maxLevel

RecordBreach(provider, base) ==
    /\ breachCount[provider] < MaxViolations
    /\ base \in 1..MAX_PENALTY_BPS
    /\ LET count == NextBreachCount(provider)
           factor == escalation_factor_bps(count)
       IN  breaches' = [breaches EXCEPT ![provider] =
             [breaches |-> count, factor_bps |-> factor, base |-> base,
              escalated_penalty_bps |-> effective_penalty_bps(base, factor)]]
    /\ breachCount' = [breachCount EXCEPT ![provider] = @ + 1]
    /\ UNCHANGED <<maxLevel, lowestLevel, penaltyVars>>

ClearStrikes(provider) ==
    /\ breaches' = [breaches EXCEPT ![provider] = NoBreach]
    /\ breachCount' = [breachCount EXCEPT ![provider] = 0]
    /\ lowestLevel' = [lowestLevel EXCEPT ![provider] = maxLevel]
    /\ UNCHANGED <<maxLevel, penaltyVars>>

-----------------------------------------------------------------------------
(* Violations.                                                             *)

NoEscalation == [trigger_count |-> 0, multiplier |-> 0, enabled |-> FALSE]
PenaltyEscalationConfig == [trigger_count : Nat \ {0}, multiplier : 100..500, enabled : BOOLEAN]
NoTracker == [consecutive_violations |-> 0, escalated |-> FALSE]
ViolationTracker == [consecutive_violations : Nat, escalated : BOOLEAN]

init_penalty_escalation == [trigger_count |-> 3, multiplier |-> 150, enabled |-> FALSE]

SetPenaltyEscalation(trigger, multiplier) ==
    /\ trigger > 0
    /\ multiplier \in 100..500
    /\ escalation' = [trigger_count |-> trigger, multiplier |-> multiplier, enabled |-> TRUE]
    /\ UNCHANGED <<breachVars, violations, filings>>

DisablePenaltyEscalation ==
    /\ escalation' =
         [(IF escalation = NoEscalation THEN init_penalty_escalation ELSE escalation)
            EXCEPT !.enabled = FALSE]
    /\ UNCHANGED <<breachVars, violations, filings>>

\* The tracker after one more violation.  Once escalated it stays so.
OneMore(tracker) ==
    [consecutive_violations |-> tracker.consecutive_violations + 1,
     escalated |-> \/ tracker.escalated
                   \/ tracker.consecutive_violations + 1 >= escalation.trigger_count]

\* What a penalty becomes, in the state before it is applied.
EscalatedPenalty(outage, base) ==
    IF escalation.enabled /\ OneMore(violations[outage]).escalated
      THEN (base * escalation.multiplier) \div 100 ELSE base

ApplyPenaltyEscalation(outage) ==
    /\ filings[outage] < MaxViolations
    /\ IF escalation.enabled
         THEN /\ violations' = [violations EXCEPT ![outage] = OneMore(@)]
              /\ filings' = [filings EXCEPT ![outage] = @ + 1]
         ELSE UNCHANGED <<violations, filings>>
    /\ UNCHANGED <<breachVars, escalation>>

ResetViolationTracker(outage) ==
    /\ violations' = [violations EXCEPT ![outage] = NoTracker]
    /\ filings' = [filings EXCEPT ![outage] = 0]
    /\ UNCHANGED <<breachVars, escalation>>

-----------------------------------------------------------------------------
EscalationInit ==
    /\ breaches = [provider \in Breacher |-> NoBreach]
    /\ maxLevel = MAX_STRIKES
    /\ breachCount = [provider \in Breacher |-> 0]
    /\ lowestLevel = [provider \in Breacher |-> MAX_STRIKES]
    /\ escalation \in {NoEscalation, init_penalty_escalation}
    /\ violations = [outage \in Filed |-> NoTracker]
    /\ filings = [outage \in Filed |-> 0]

BreachNext ==
    \/ \E level \in LevelInputs : SetMaxEscalationLevel(level)
    \/ \E provider \in Breacher, base \in BaseInputs : RecordBreach(provider, base)
    \/ \E provider \in Breacher : ClearStrikes(provider)

PenaltyNext ==
    \/ DisablePenaltyEscalation
    \/ \E input \in TriggerInputs : SetPenaltyEscalation(input.trigger, input.multiplier)
    \/ \E outage \in Filed : ApplyPenaltyEscalation(outage) \/ ResetViolationTracker(outage)

EscalationSpec ==
    EscalationInit /\ [][BreachNext \/ PenaltyNext]_escalationVars

-----------------------------------------------------------------------------
(* Properties.                                                             *)

EscalationTypeOK ==
    /\ breaches \in [Breacher -> BreachRecord \cup {NoBreach}]
    /\ maxLevel \in 1..MAX_STRIKES
    /\ escalation \in PenaltyEscalationConfig \cup {NoEscalation}
    /\ violations \in [Filed -> ViolationTracker]

\* The strikes are the breaches since the last clearing, up to a level: never
\* more than happened or than the highest level allows, and never fewer than
\* what happened up to the lowest level that was in force meanwhile.
StrikesAreEarned ==
    \A provider \in Breacher :
        /\ breach_count(provider) <= Least(breachCount[provider], MAX_STRIKES)
        /\ breach_count(provider) >= Least(breachCount[provider], lowestLevel[provider])

\* The penalty told to a provider is the one recorded with its last breach,
\* and another breach never costs less unless the level was lowered
\* (penalty_terms, record_breach).
TermsMatchRecord ==
    \A provider \in Breacher : breaches[provider] # NoBreach =>
        /\ penalty_terms(provider, breaches[provider].base).effective_penalty_bps =
             breaches[provider].escalated_penalty_bps
        /\ breach_count(provider) <= maxLevel =>
             \A base \in BaseInputs :
                 penalty_terms(provider, base).effective_penalty_bps <=
                   effective_penalty_bps(base, escalation_factor_bps(NextBreachCount(provider)))

\* A tracker counts exactly the violations since its reset that met an enabled
\* configuration; a penalty is multiplied only after as many violations as some
\* trigger the admin may set asks for, and then by no more than five times.
ReachesTrigger(count) ==
    \E input \in TriggerInputs : input.trigger > 0 /\ count >= input.trigger
EscalatedAfterEnough ==
    \A outage \in Filed :
        /\ violations[outage].consecutive_violations = filings[outage]
        /\ violations[outage].escalated => ReachesTrigger(filings[outage])
        /\ \A base \in BaseInputs :
             /\ EscalatedPenalty(outage, base) \in base..(5 * base)
             /\ EscalatedPenalty(outage, base) > base => ReachesTrigger(filings[outage] + 1)

\* Escalation is earned by violations: the properties above together.
EscalationIsEarned ==
    EscalationTypeOK /\ StrikesAreEarned /\ TermsMatchRecord /\ EscalatedAfterEnough
=============================================================================
