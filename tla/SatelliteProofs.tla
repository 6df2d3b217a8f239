--------------------------- MODULE SatelliteProofs ---------------------------
(***************************************************************************)
(* Theorems about the satellites of the contract that stand on their own: the *)
(* escalation of penalties, the proposal queue and the parameter timelock,    *)
(* claim windows, detections and resolutions, adaptive tuning, the reward      *)
(* budget, locked collateral and the access lists.  Each section gives the     *)
(* invariant its component is proved from and then its theorem; the sections   *)
(* share nothing but the library.                                            *)
(***************************************************************************)
EXTENDS Escalations, ProposalQueue, Claims, Resolutions, Tuning, RewardBudget, Collateral,
        AccessLists, SequenceTheorems, FiniteSetTheorems, TLAPS

-----------------------------------------------------------------------------
(* Escalation.                                                             *)

\* What the recorded penalty was computed from, and what the histories of a
\* provider are bounded by.
EscalationInv ==
    /\ EscalationTypeOK
    /\ breachCount \in [Breacher -> Nat]
    /\ lowestLevel \in [Breacher -> 1..MAX_STRIKES]
    /\ filings \in [Filed -> Nat]
    /\ escalation.enabled =>
         \E input \in TriggerInputs : escalation.trigger_count = input.trigger
    /\ \A provider \in Breacher :
         /\ lowestLevel[provider] <= maxLevel
         /\ breaches[provider] # NoBreach =>
              /\ breaches[provider].factor_bps = escalation_factor_bps(breach_count(provider))
              /\ breaches[provider].escalated_penalty_bps =
                   effective_penalty_bps(breaches[provider].base, breaches[provider].factor_bps)
    /\ StrikesAreEarned
    /\ \A outage \in Filed :
         /\ violations[outage].consecutive_violations = filings[outage]
         /\ violations[outage].escalated => ReachesTrigger(filings[outage])

LEMMA ProductsGrow ==
  ASSUME NEW base \in Nat, NEW low \in Nat, NEW high \in Nat, low <= high
  PROVE  base * low \in Nat /\ base * low <= base * high
  <1>1. base * (high - low) \in Nat
    OBVIOUS
  <1>2. base * high = base * low + base * (high - low)
    OBVIOUS
  <1> QED
    BY <1>1, <1>2

\* The factor grows with the count, between its two ends.
LEMMA FactorGrows ==
  ASSUME NEW low \in Nat, NEW high \in Nat, low <= high
  PROVE  /\ escalation_factor_bps(low) \in ONE_BPS..MAX_FACTOR_BPS
         /\ escalation_factor_bps(low) <= escalation_factor_bps(high)
  <1> DEFINE steps(count) == Least(count, MAX_STRIKES) - 1
  <1>1. ASSUME NEW count \in Nat, count # 0
        PROVE  /\ steps(count) \in Nat
               /\ escalation_factor_bps(count) =
                    (IF 10000 + steps(count) * 2000 <= 28000 THEN 10000 + steps(count) * 2000 ELSE 28000)
    BY <1>1, EscalationAssumption
       DEF escalation_factor_bps, Least, ONE_BPS, STEP_FACTOR_BPS, MAX_FACTOR_BPS
  <1>2. escalation_factor_bps(0) = 10000
    BY DEF escalation_factor_bps, ONE_BPS
  <1>3. low # 0 => steps(low) <= steps(high)
    BY EscalationAssumption DEF Least
  <1> HIDE DEF steps
  <1>4. CASE low = 0
    BY <1>1, <1>2, <1>4 DEF ONE_BPS, MAX_FACTOR_BPS
  <1>5. CASE low # 0
    <2>1. high # 0
      BY <1>5
    <2>2. /\ steps(low) \in Nat /\ steps(high) \in Nat /\ steps(low) <= steps(high)
          /\ escalation_factor_bps(low) =
               (IF 10000 + steps(low) * 2000 <= 28000 THEN 10000 + steps(low) * 2000 ELSE 28000)
          /\ escalation_factor_bps(high) =
               (IF 10000 + steps(high) * 2000 <= 28000 THEN 10000 + steps(high) * 2000 ELSE 28000)
      BY <1>1, <1>3, <1>5, <2>1
    <2> QED
      BY <2>2 DEF ONE_BPS, MAX_FACTOR_BPS
  <1> QED
    BY <1>4, <1>5

LEMMA CappedShareGrows ==
  ASSUME NEW p \in Nat, NEW q \in Nat, p <= q
  PROVE  /\ Least(p \div ONE_BPS, MAX_PENALTY_BPS) \in 0..MAX_PENALTY_BPS
         /\ Least(p \div ONE_BPS, MAX_PENALTY_BPS) <= Least(q \div ONE_BPS, MAX_PENALTY_BPS)
  <1>1. p \div 10000 \in Nat /\ q \div 10000 \in Nat /\ p \div 10000 <= q \div 10000
    OBVIOUS
  <1> QED
    BY <1>1 DEF Least, ONE_BPS, MAX_PENALTY_BPS

\* A larger factor never makes a smaller penalty.
LEMMA PenaltyGrows ==
  ASSUME NEW base \in Nat, NEW low \in Nat, NEW high \in Nat, low <= high
  PROVE  /\ effective_penalty_bps(base, low) \in 0..MAX_PENALTY_BPS
         /\ effective_penalty_bps(base, low) <= effective_penalty_bps(base, high)
  <1>1. base * low \in Nat /\ base * high \in Nat /\ base * low <= base * high
    BY ProductsGrow
  <1>2. /\ Least((base * low) \div ONE_BPS, MAX_PENALTY_BPS) \in 0..MAX_PENALTY_BPS
        /\ Least((base * low) \div ONE_BPS, MAX_PENALTY_BPS)
             <= Least((base * high) \div ONE_BPS, MAX_PENALTY_BPS)
    BY <1>1, CappedShareGrows, Zenon
  <1> QED
    BY <1>2, Zenon DEF effective_penalty_bps

LEMMA NoneIsLeast == ASSUME NEW limit \in Nat PROVE Least(0, limit) = 0
  BY DEF Least

LEMMA EscalationBegins == EscalationInit => EscalationInv
  <1> SUFFICES ASSUME EscalationInit PROVE EscalationInv
    OBVIOUS
  <1> USE EscalationAssumption DEF EscalationInit
  <1>1. EscalationTypeOK
    <2>1. maxLevel \in 1..MAX_STRIKES /\ breaches \in [Breacher -> BreachRecord \cup {NoBreach}]
      OBVIOUS
    <2>2. init_penalty_escalation \in PenaltyEscalationConfig
      BY DEF init_penalty_escalation, PenaltyEscalationConfig
    <2>3. violations \in [Filed -> ViolationTracker]
      BY DEF NoTracker, ViolationTracker
    <2> QED
      BY <2>1, <2>2, <2>3 DEF EscalationTypeOK
  <1>2. \A provider \in Breacher : breach_count(provider) = 0 /\ breaches[provider] = NoBreach
    BY DEF breach_count, NoBreach
  <1>3. StrikesAreEarned
    <2>1. Least(0, MAX_STRIKES) = 0
      BY NoneIsLeast
    <2>2. \A provider \in Breacher : breachCount[provider] = 0 /\ lowestLevel[provider] = MAX_STRIKES
      OBVIOUS
    <2>3. 0 <= 0 /\ 0 >= 0
      OBVIOUS
    <2> QED
      BY <1>2, <2>1, <2>2, <2>3, Zenon DEF StrikesAreEarned
  <1>4. ~escalation.enabled
    BY DEF NoEscalation, init_penalty_escalation
  <1> QED
    BY <1>1, <1>2, <1>3, <1>4 DEF EscalationInv, NoTracker

\* A new level moves the lowest level along and touches no record.
LEMMA LevelKeepsInv ==
  ASSUME EscalationInv, NEW level \in LevelInputs, SetMaxEscalationLevel(level)
  PROVE  EscalationInv'
  <1> USE EscalationAssumption
  <1>1. maxLevel' \in 1..MAX_STRIKES
    BY DEF SetMaxEscalationLevel, Least
  <1>2. /\ lowestLevel' \in [Breacher -> 1..MAX_STRIKES]
        /\ \A provider \in Breacher : /\ lowestLevel'[provider] <= lowestLevel[provider]
                                      /\ lowestLevel'[provider] <= maxLevel'
    BY <1>1 DEF SetMaxEscalationLevel, Least, EscalationInv
  <1>3. UNCHANGED <<breaches, breachCount, escalation, violations, filings>>
    BY DEF SetMaxEscalationLevel, penaltyVars
  <1>4. EscalationTypeOK'
    BY <1>1, <1>3 DEF EscalationInv, EscalationTypeOK
  <1>5. StrikesAreEarned'
    <2> SUFFICES ASSUME NEW provider \in Breacher
                 PROVE  /\ breach_count(provider)' <= Least(breachCount'[provider], MAX_STRIKES)
                        /\ breach_count(provider)' >= Least(breachCount'[provider], lowestLevel'[provider])
      BY DEF StrikesAreEarned
    <2>1. breach_count(provider)' = breach_count(provider)
      BY <1>3 DEF breach_count
    <2>2. breach_count(provider) \in Nat /\ breachCount[provider] \in Nat
          /\ lowestLevel[provider] \in Nat /\ lowestLevel'[provider] \in Nat
      BY <1>2 DEF breach_count, EscalationInv, EscalationTypeOK, BreachRecord, NoBreach
    <2> QED
      BY <2>1, <2>2, <1>2, <1>3 DEF EscalationInv, StrikesAreEarned, Least
  <1> QED
    BY <1>1, <1>2, <1>3, <1>4, <1>5 DEF EscalationInv, breach_count, ReachesTrigger

\* One more breach: the count moves by the rule of the level.
LEMMA BreachKeepsInv ==
  ASSUME EscalationInv, NEW provider \in Breacher, NEW base \in BaseInputs,
         RecordBreach(provider, base)
  PROVE  EscalationInv'
  <1> USE EscalationAssumption
  <1> DEFINE count == NextBreachCount(provider)
             factor == escalation_factor_bps(count)
             record == [breaches |-> count, factor_bps |-> factor, base |-> base,
                        escalated_penalty_bps |-> effective_penalty_bps(base, factor)]
  <1>1. /\ breach_count(provider) \in 0..MAX_STRIKES
        /\ breaches[provider] # NoBreach => breach_count(provider) \in 1..MAX_STRIKES
        /\ maxLevel \in 1..MAX_STRIKES
        /\ lowestLevel[provider] \in 1..maxLevel
        /\ breachCount[provider] \in Nat
    BY DEF breach_count, EscalationInv, EscalationTypeOK, BreachRecord, NoBreach
  <1>2. count \in 1..MAX_STRIKES
    BY <1>1 DEF NextBreachCount
  <1>3. factor \in ONE_BPS..MAX_FACTOR_BPS /\ factor \in Nat
    <2>1. count \in Nat /\ count <= count
      BY <1>2
    <2> HIDE DEF count
    <2>2. factor \in ONE_BPS..MAX_FACTOR_BPS
      BY <2>1, FactorGrows
    <2> HIDE DEF factor
    <2> QED
      BY <2>2 DEF ONE_BPS, MAX_FACTOR_BPS
  <1>4. record \in BreachRecord
    <2>1. effective_penalty_bps(base, factor) \in 0..MAX_PENALTY_BPS
      BY <1>3, PenaltyGrows
    <2> HIDE DEF factor, count
    <2> QED
      BY <1>2, <1>3, <2>1 DEF BreachRecord
  <1>5. /\ breaches' = [breaches EXCEPT ![provider] = record]
        /\ breachCount' = [breachCount EXCEPT ![provider] = @ + 1]
        /\ UNCHANGED <<maxLevel, lowestLevel, escalation, violations, filings>>
    BY DEF RecordBreach, penaltyVars
  <1>6. /\ count <= Least(breachCount[provider] + 1, MAX_STRIKES)
        /\ count >= Least(breachCount[provider] + 1, lowestLevel[provider])
    <2>1. /\ breach_count(provider) <= Least(breachCount[provider], MAX_STRIKES)
          /\ breach_count(provider) >= Least(breachCount[provider], lowestLevel[provider])
      BY DEF EscalationInv, StrikesAreEarned
    <2>2. breaches[provider] = NoBreach => breach_count(provider) = 0
      BY DEF breach_count, NoBreach
    <2> QED
      BY <1>1, <2>1, <2>2 DEF NextBreachCount, Least
  <1> HIDE DEF count
  <1>7. breaches \in [Breacher -> BreachRecord \cup {NoBreach}] /\ breachCount \in [Breacher -> Nat]
    BY DEF EscalationInv, EscalationTypeOK
  <1>8. EscalationTypeOK' /\ breachCount' \in [Breacher -> Nat]
    BY <1>4, <1>5, <1>7 DEF EscalationInv, EscalationTypeOK
  <1>9. breach_count(provider)' = count
    BY <1>5, <1>7 DEF breach_count
  <1>10. \A other \in Breacher \ {provider} :
           /\ breaches'[other] = breaches[other] /\ breachCount'[other] = breachCount[other]
           /\ breach_count(other)' = breach_count(other)
    BY <1>5, <1>7 DEF breach_count
  <1>11. breaches'[provider] = record /\ breachCount'[provider] = breachCount[provider] + 1
    BY <1>5, <1>7
  <1>12. StrikesAreEarned'
    BY <1>5, <1>6, <1>9, <1>10, <1>11 DEF EscalationInv, StrikesAreEarned
  <1>13. /\ breaches'[provider].factor_bps = escalation_factor_bps(breach_count(provider)')
         /\ breaches'[provider].escalated_penalty_bps =
              effective_penalty_bps(breaches'[provider].base, breaches'[provider].factor_bps)
    BY <1>9, <1>11
  <1>14. \A p \in Breacher :
         /\ lowestLevel'[p] <= maxLevel'
         /\ breaches'[p] # NoBreach =>
              /\ breaches'[p].factor_bps = escalation_factor_bps(breach_count(p)')
              /\ breaches'[p].escalated_penalty_bps =
                   effective_penalty_bps(breaches'[p].base, breaches'[p].factor_bps)
    BY <1>5, <1>10, <1>13 DEF EscalationInv
  <1> QED
    BY <1>5, <1>8, <1>12, <1>14 DEF EscalationInv, ReachesTrigger

\* Clearing starts a provider's histories anew.
LEMMA ClearKeepsInv ==
  ASSUME EscalationInv, NEW provider \in Breacher, ClearStrikes(provider)
  PROVE  EscalationInv'
  <1>1. /\ breaches' = [breaches EXCEPT ![provider] = NoBreach]
        /\ breachCount' = [breachCount EXCEPT ![provider] = 0]
        /\ lowestLevel' = [lowestLevel EXCEPT ![provider] = maxLevel]
        /\ UNCHANGED <<maxLevel, escalation, violations, filings>>
    BY DEF ClearStrikes, penaltyVars
  <1>2. /\ breaches \in [Breacher -> BreachRecord \cup {NoBreach}]
        /\ breachCount \in [Breacher -> Nat]
        /\ maxLevel \in 1..MAX_STRIKES
        /\ lowestLevel \in [Breacher -> 1..MAX_STRIKES]
    BY DEF EscalationInv, EscalationTypeOK
  <1>3. /\ breaches'[provider] = NoBreach /\ breachCount'[provider] = 0
        /\ lowestLevel'[provider] = maxLevel
        /\ breach_count(provider)' = 0
    BY <1>1, <1>2 DEF breach_count, NoBreach
  <1>4. \A other \in Breacher \ {provider} :
           /\ breaches'[other] = breaches[other] /\ breachCount'[other] = breachCount[other]
           /\ lowestLevel'[other] = lowestLevel[other]
           /\ breach_count(other)' = breach_count(other)
    BY <1>1, <1>2 DEF breach_count
  <1>5. EscalationTypeOK' /\ breachCount' \in [Breacher -> Nat]
        /\ lowestLevel' \in [Breacher -> 1..MAX_STRIKES]
    BY <1>1, <1>2 DEF EscalationInv, EscalationTypeOK
  <1>6. Least(0, MAX_STRIKES) = 0 /\ Least(0, maxLevel) = 0
    BY <1>2, EscalationAssumption DEF Least
  <1>7. StrikesAreEarned'
    BY <1>1, <1>3, <1>4, <1>6 DEF EscalationInv, StrikesAreEarned
  <1>8. \A p \in Breacher :
         /\ lowestLevel'[p] <= maxLevel'
         /\ breaches'[p] # NoBreach =>
              /\ breaches'[p].factor_bps = escalation_factor_bps(breach_count(p)')
              /\ breaches'[p].escalated_penalty_bps =
                   effective_penalty_bps(breaches'[p].base, breaches'[p].factor_bps)
    BY <1>1, <1>2, <1>3, <1>4 DEF EscalationInv
  <1> QED
    BY <1>1, <1>5, <1>7, <1>8 DEF EscalationInv, ReachesTrigger

\* The calls of penalty_escalation.rs leave the breaches alone.
LEMMA PenaltiesKeepInv ==
  ASSUME EscalationInv, PenaltyNext
  PROVE  EscalationInv'
  <1> USE EscalationAssumption
  <1>1. UNCHANGED breachVars
    BY DEF PenaltyNext, DisablePenaltyEscalation, SetPenaltyEscalation, ApplyPenaltyEscalation,
           ResetViolationTracker
  <1>2. StrikesAreEarned'
    BY <1>1 DEF breachVars, EscalationInv, StrikesAreEarned, breach_count
  <1>3. ASSUME escalation' \in PenaltyEscalationConfig \cup {NoEscalation},
               escalation'.enabled =>
                 \E input \in TriggerInputs : escalation'.trigger_count = input.trigger,
               violations' \in [Filed -> ViolationTracker], filings' \in [Filed -> Nat],
               \A outage \in Filed :
                 /\ violations'[outage].consecutive_violations = filings'[outage]
                 /\ violations'[outage].escalated => ReachesTrigger(filings'[outage])
        PROVE  EscalationInv'
    BY <1>1, <1>2, <1>3 DEF breachVars, EscalationInv, EscalationTypeOK, breach_count, ReachesTrigger
  <1>4. CASE DisablePenaltyEscalation
    <2> DEFINE before == IF escalation = NoEscalation THEN init_penalty_escalation ELSE escalation
    <2>1. /\ escalation' = [before EXCEPT !.enabled = FALSE]
          /\ UNCHANGED <<violations, filings>>
      BY <1>4 DEF DisablePenaltyEscalation
    <2>2. before \in PenaltyEscalationConfig
      BY DEF EscalationInv, EscalationTypeOK, PenaltyEscalationConfig, init_penalty_escalation
    <2> HIDE DEF before
    <2>3. escalation' \in PenaltyEscalationConfig /\ ~escalation'.enabled
      BY <2>1, <2>2 DEF PenaltyEscalationConfig
    <2> QED
      BY <1>3, <2>1, <2>3 DEF EscalationInv, EscalationTypeOK
  <1>5. ASSUME NEW input \in TriggerInputs, SetPenaltyEscalation(input.trigger, input.multiplier)
        PROVE  EscalationInv'
    BY <1>3, <1>5 DEF SetPenaltyEscalation, EscalationInv, EscalationTypeOK, PenaltyEscalationConfig
  <1>6. ASSUME NEW outage \in Filed, ApplyPenaltyEscalation(outage)
        PROVE  EscalationInv'
    <2>1. /\ violations \in [Filed -> ViolationTracker] /\ filings \in [Filed -> Nat]
          /\ UNCHANGED escalation
          /\ escalation \in PenaltyEscalationConfig \cup {NoEscalation}
      BY <1>6 DEF EscalationInv, EscalationTypeOK, ApplyPenaltyEscalation
    <2>2. CASE ~escalation.enabled
      BY <1>3, <1>6, <2>1, <2>2 DEF ApplyPenaltyEscalation, EscalationInv
    <2>3. CASE escalation.enabled
      <3>1. /\ violations' = [violations EXCEPT ![outage] = OneMore(violations[outage])]
            /\ filings' = [filings EXCEPT ![outage] = @ + 1]
        BY <1>6, <2>3 DEF ApplyPenaltyEscalation
      <3>2. OneMore(violations[outage]) \in ViolationTracker
        BY <2>1 DEF OneMore, ViolationTracker
      <3>3. /\ OneMore(violations[outage]).consecutive_violations = filings[outage] + 1
            /\ OneMore(violations[outage]).escalated => ReachesTrigger(filings[outage] + 1)
        <4>1. violations[outage].consecutive_violations = filings[outage]
          BY DEF EscalationInv
        <4>2. violations[outage].escalated => ReachesTrigger(filings[outage] + 1)
          BY <2>1 DEF EscalationInv, ReachesTrigger
        <4>3. filings[outage] + 1 >= escalation.trigger_count => ReachesTrigger(filings[outage] + 1)
          <5>1. PICK input \in TriggerInputs : escalation.trigger_count = input.trigger
            BY <2>3 DEF EscalationInv
          <5>2. escalation.trigger_count > 0
            BY <2>1, <2>3 DEF PenaltyEscalationConfig, NoEscalation
          <5> QED
            BY <5>1, <5>2 DEF ReachesTrigger
        <4> QED
          BY <4>1, <4>2, <4>3 DEF OneMore
      <3>4. \A other \in Filed :
              /\ violations'[other].consecutive_violations = filings'[other]
              /\ violations'[other].escalated => ReachesTrigger(filings'[other])
        BY <2>1, <3>1, <3>3 DEF EscalationInv
      <3>5. violations' \in [Filed -> ViolationTracker] /\ filings' \in [Filed -> Nat]
        BY <2>1, <3>1, <3>2
      <3>6. escalation'.enabled =>
              \E input \in TriggerInputs : escalation'.trigger_count = input.trigger
        BY <2>1 DEF EscalationInv
      <3> QED
        BY <1>3, <2>1, <3>4, <3>5, <3>6
    <2> QED
      BY <2>2, <2>3
  <1>7. ASSUME NEW outage \in Filed, ResetViolationTracker(outage)
        PROVE  EscalationInv'
    BY <1>3, <1>7 DEF ResetViolationTracker, EscalationInv, EscalationTypeOK, NoTracker,
                      ViolationTracker
  <1> QED
    BY <1>4, <1>5, <1>6, <1>7 DEF PenaltyNext

LEMMA EscalationHolds == EscalationSpec => []EscalationInv
  <1>1. ASSUME EscalationInv, [BreachNext \/ PenaltyNext]_escalationVars
        PROVE  EscalationInv'
    <2>1. CASE BreachNext
      BY <1>1, <2>1, LevelKeepsInv, BreachKeepsInv, ClearKeepsInv DEF BreachNext
    <2>2. CASE PenaltyNext
      BY <1>1, <2>2, PenaltiesKeepInv
    <2>3. CASE UNCHANGED escalationVars
      BY <1>1, <2>3
         DEF escalationVars, breachVars, penaltyVars, EscalationInv, EscalationTypeOK,
             StrikesAreEarned, breach_count, ReachesTrigger
    <2> QED
      BY <1>1, <2>1, <2>2, <2>3
  <1> QED
    BY <1>1, EscalationBegins, PTL DEF EscalationSpec

\* What is told agrees with what is recorded.
LEMMA TermsHold == EscalationInv => TermsMatchRecord
  <1> USE EscalationAssumption
  <1> SUFFICES ASSUME EscalationInv, NEW provider \in Breacher, breaches[provider] # NoBreach
               PROVE  /\ penalty_terms(provider, breaches[provider].base).effective_penalty_bps =
                           breaches[provider].escalated_penalty_bps
                      /\ breach_count(provider) <= maxLevel =>
                           \A base \in BaseInputs :
                             penalty_terms(provider, base).effective_penalty_bps <=
                               effective_penalty_bps(base, escalation_factor_bps(NextBreachCount(provider)))
    BY DEF TermsMatchRecord
  <1>1. breach_count(provider) \in 1..MAX_STRIKES /\ maxLevel \in 1..MAX_STRIKES
    BY DEF breach_count, EscalationInv, EscalationTypeOK, BreachRecord
  <1>2. ASSUME breach_count(provider) <= maxLevel, NEW base \in BaseInputs
        PROVE  penalty_terms(provider, base).effective_penalty_bps <=
                 effective_penalty_bps(base, escalation_factor_bps(NextBreachCount(provider)))
    <2>1. NextBreachCount(provider) \in Nat /\ breach_count(provider) <= NextBreachCount(provider)
      BY <1>1, <1>2 DEF NextBreachCount
    <2>2. /\ escalation_factor_bps(breach_count(provider)) \in ONE_BPS..MAX_FACTOR_BPS
          /\ escalation_factor_bps(NextBreachCount(provider)) \in ONE_BPS..MAX_FACTOR_BPS
          /\ escalation_factor_bps(breach_count(provider))
               <= escalation_factor_bps(NextBreachCount(provider))
      BY <1>1, <2>1, FactorGrows
    <2> QED
      <3> DEFINE told == escalation_factor_bps(breach_count(provider))
                 next == escalation_factor_bps(NextBreachCount(provider))
      <3>1. told \in ONE_BPS..MAX_FACTOR_BPS /\ next \in ONE_BPS..MAX_FACTOR_BPS /\ told <= next
        BY <2>2
      <3>2. penalty_terms(provider, base).effective_penalty_bps = effective_penalty_bps(base, told)
        BY DEF penalty_terms
      <3> HIDE DEF told, next
      <3>3. effective_penalty_bps(base, told) <= effective_penalty_bps(base, next)
        <4>1. told \in Nat /\ next \in Nat
          BY <3>1 DEF ONE_BPS, MAX_FACTOR_BPS
        <4> QED
          BY <3>1, <4>1, PenaltyGrows
      <3> QED
        BY <3>2, <3>3 DEF next
  <1>3. penalty_terms(provider, breaches[provider].base).effective_penalty_bps =
          breaches[provider].escalated_penalty_bps
    BY DEF penalty_terms, EscalationInv
  <1> QED
    BY <1>2, <1>3

\* The multiplier of an enabled configuration makes a penalty no smaller and
\* at most five times as large.
LEMMA MultipliedWithin ==
  ASSUME NEW base \in Nat, NEW multiplier \in 100..500
  PROVE  (base * multiplier) \div 100 \in base..(5 * base)
  <1> DEFINE P == base * multiplier
  <1>1. P \in Nat /\ base * 100 <= P /\ P <= base * 500
    BY ProductsGrow
  <1> HIDE DEF P
  <1>2. P \div 100 \in base..(5 * base)
    BY <1>1
  <1> QED
    BY <1>2 DEF P

LEMMA EnoughHolds == EscalationInv => EscalatedAfterEnough
  <1> USE EscalationAssumption
  <1> SUFFICES ASSUME EscalationInv, NEW outage \in Filed, NEW base \in BaseInputs
               PROVE  /\ EscalatedPenalty(outage, base) \in base..(5 * base)
                      /\ EscalatedPenalty(outage, base) > base => ReachesTrigger(filings[outage] + 1)
    BY DEF EscalatedAfterEnough, EscalationInv
  <1>1. base \in base..(5 * base) /\ ~(base > base)
    OBVIOUS
  <1>2. CASE ~(escalation.enabled /\ OneMore(violations[outage]).escalated)
    BY <1>1, <1>2 DEF EscalatedPenalty
  <1>3. CASE escalation.enabled /\ OneMore(violations[outage]).escalated
    <2>1. escalation \in PenaltyEscalationConfig
      BY <1>3 DEF EscalationInv, EscalationTypeOK, NoEscalation
    <2>2. escalation.multiplier \in 100..500 /\ escalation.trigger_count > 0
      BY <2>1 DEF PenaltyEscalationConfig
    <2>3. EscalatedPenalty(outage, base) \in base..(5 * base)
      BY <1>3, <2>2, MultipliedWithin DEF EscalatedPenalty
    <2>4. filings[outage] \in Nat /\ violations[outage].consecutive_violations = filings[outage]
      BY DEF EscalationInv
    <2>5. CASE violations[outage].escalated
      BY <2>3, <2>4, <2>5 DEF EscalationInv, ReachesTrigger
    <2>6. CASE filings[outage] + 1 >= escalation.trigger_count
      <3>1. PICK input \in TriggerInputs : escalation.trigger_count = input.trigger
        BY <1>3 DEF EscalationInv
      <3> QED
        BY <2>2, <2>3, <2>6, <3>1 DEF ReachesTrigger
    <2> QED
      BY <1>3, <2>4, <2>5, <2>6 DEF OneMore
  <1> QED
    BY <1>2, <1>3

\* For every level, trigger and multiplier the admin may set, strikes are the
\* breaches that happened up to the levels in force, the terms told are those
\* recorded, and a penalty is multiplied only after enough violations
\* (breach_escalation.rs, penalty_escalation.rs).
THEOREM EscalationEarned == EscalationSpec => []EscalationIsEarned
  <1>1. EscalationInv => EscalationIsEarned
    BY TermsHold, EnoughHolds DEF EscalationIsEarned, EscalationInv
  <1> QED
    BY <1>1, EscalationHolds, PTL

-----------------------------------------------------------------------------
(* The proposal queue.                                                     *)

QueueInv ==
    /\ now \in Time
    /\ QueueTypeOK
    /\ QueueConserved
    /\ paramChange # NoChange => paramChange <= now
    /\ \A change \in paramApplied : change.applied - change.proposed >= ParamTimelock

\* What the parameter change does not touch.
LEMMA QueueUntouched ==
  ASSUME QueueInv, UNCHANGED <<queue, arrivals, taken, served, announced>>
  PROVE  /\ queue' \in Seq(QueuedProposal) /\ arrivals' \in Seq(QueuedProposal)
         /\ taken' \in Seq(QueuedProposal) /\ served' \in 0..Len(taken')
         /\ announced' \subseteq [proposal : QueuedProposal, at : Time]
         /\ QueueConserved'
  BY DEF QueueInv, QueueTypeOK, QueueConserved

\* What left a queue and what waits, put one behind the other, stay the same when
\* the front moves from one to the other.
LEMMA FrontMoves ==
  ASSUME NEW T, NEW gone \in Seq(T), NEW waiting \in Seq(T), waiting # <<>>
  PROVE  /\ Head(waiting) \in T /\ Tail(waiting) \in Seq(T)
         /\ Append(gone, Head(waiting)) \in Seq(T)
         /\ Append(gone, Head(waiting)) \o Tail(waiting) = gone \o waiting
  <1> DEFINE front == <<Head(waiting)>>
  <1>1. Head(waiting) \in T /\ Tail(waiting) \in Seq(T)
    OBVIOUS
  <1>2. front \in Seq(T)
    BY <1>1
  <1>3. front \o Tail(waiting) = waiting
    <2>1. /\ Len(front) = 1 /\ front[1] = Head(waiting) /\ Len(waiting) \in Nat \ {0}
          /\ Len(Tail(waiting)) = Len(waiting) - 1
          /\ \A i \in 1..(Len(waiting) - 1) : Tail(waiting)[i] = waiting[i + 1]
          /\ Head(waiting) = waiting[1]
      OBVIOUS
    <2>2. PICK first, rest : first = front /\ rest = Tail(waiting)
      OBVIOUS
    <2> HIDE DEF front
    <2>3. first \in Seq(T) /\ rest \in Seq(T) /\ Len(first) = 1 /\ Len(rest) = Len(waiting) - 1
      BY <1>1, <1>2, <2>1, <2>2
    <2>4. /\ first \o rest \in Seq(T) /\ Len(first \o rest) = Len(first) + Len(rest)
          /\ \A i \in 1..(Len(first) + Len(rest)) :
               (first \o rest)[i] = IF i <= Len(first) THEN first[i] ELSE rest[i - Len(first)]
      BY <2>3, ConcatProperties
    <2>5. Len(first \o rest) = Len(waiting)
      BY <2>1, <2>3, <2>4
    <2>6. ASSUME NEW i \in 1..Len(waiting) PROVE (first \o rest)[i] = waiting[i]
      <3>1. CASE i = 1
        <4>1. 1 \in 1..(1 + (Len(waiting) - 1)) /\ 1 <= 1
          BY <2>1
        <4>2. (first \o rest)[1] = first[1]
          BY <2>3, <2>4, <4>1
        <4>3. first[1] = waiting[1]
          BY <2>1, <2>2
        <4> QED
          BY <3>1, <4>2, <4>3
      <3>2. CASE i # 1
        <4>1. i - 1 \in 1..(Len(waiting) - 1) /\ ~(i <= 1) /\ i \in 1..(1 + (Len(waiting) - 1))
          BY <2>1, <3>2
        <4>2. (first \o rest)[i] = rest[i - 1]
          BY <2>3, <2>4, <4>1
        <4>3. rest[i - 1] = waiting[(i - 1) + 1] /\ (i - 1) + 1 = i
          BY <2>1, <2>2, <4>1
        <4> QED
          BY <4>2, <4>3
      <3> QED
        BY <3>1, <3>2
    <2>7. first \o rest = waiting
      BY <2>4, <2>5, <2>6, SeqEqual
    <2> QED
      BY <2>2, <2>7
  <1>4. Append(gone, Head(waiting)) = gone \o front
    BY <1>1, AppendIsConcat
  <1>5. (gone \o front) \o Tail(waiting) = gone \o (front \o Tail(waiting))
    <2> HIDE DEF front
    <2> QED
      BY <1>1, <1>2, ConcatAssociative
  <1> QED
    BY <1>1, <1>3, <1>4, <1>5

\* Taking the front moves one proposal from the queue to the taken ones.
LEMMA TakingKeepsInv ==
  ASSUME QueueInv, DequeueProposal
  PROVE  QueueInv'
  <1>1. /\ queue \in Seq(QueuedProposal) /\ queue # <<>> /\ taken \in Seq(QueuedProposal)
        /\ served \in 0..Len(taken) /\ arrivals = taken \o queue
        /\ queue' = Tail(queue) /\ taken' = Append(taken, Head(queue))
        /\ UNCHANGED <<now, arrivals, served, announced, paramChange, paramApplied>>
    BY DEF QueueInv, QueueTypeOK, QueueConserved, DequeueProposal, paramVars
  <1>2. /\ queue' \in Seq(QueuedProposal) /\ taken' \in Seq(QueuedProposal)
        /\ taken' \o queue' = taken \o queue
    BY <1>1, FrontMoves
  <1>3. served' \in 0..Len(taken')
    <2>1. Head(queue) \in QueuedProposal
      BY <1>1, FrontMoves
    <2>2. Len(taken') = Len(taken) + 1 /\ Len(taken) \in Nat
      BY <1>1, <2>1
    <2> QED
      BY <1>1, <2>2
  <1>4. QueueConserved'
    BY <1>1, <1>2 DEF QueueInv, QueueConserved
  <1> QED
    BY <1>1, <1>2, <1>3, <1>4 DEF QueueInv, QueueTypeOK

\* An execution, whoever asked for it, adds an announcement that is not too early.
LEMMA ExecutionIsAnnounced ==
  ASSUME QueueInv, NEW proposal \in QueuedProposal, ExecuteQueuedProposal(proposal)
  PROVE  /\ announced \subseteq announced'
         /\ announced' \subseteq [proposal : QueuedProposal, at : Time]
         /\ \E event \in announced' : event.proposal = proposal /\ event.at >= proposal.execute_after
  <1>1. /\ [proposal |-> proposal, at |-> now] \in [proposal : QueuedProposal, at : Time]
        /\ announced' = announced \cup {[proposal |-> proposal, at |-> now]}
        /\ announced \subseteq [proposal : QueuedProposal, at : Time]
        /\ now >= proposal.execute_after
    BY DEF QueueInv, QueueTypeOK, ExecuteQueuedProposal
  <1>2. PICK event : event = [proposal |-> proposal, at |-> now]
    OBVIOUS
  <1>3. /\ event.proposal = proposal /\ event.at = now
        /\ announced' = announced \cup {event} /\ event \in [proposal : QueuedProposal, at : Time]
    BY <1>1, <1>2
  <1> QED
    BY <1>1, <1>3

LEMMA AnyoneKeepsInv ==
  ASSUME QueueInv, NEW proposal \in Proposals, ExecuteByAnyone(proposal)
  PROVE  QueueInv'
  <1>1. /\ proposal \in QueuedProposal /\ ExecuteQueuedProposal(proposal)
        /\ UNCHANGED <<now, queue, arrivals, taken, served, paramChange, paramApplied>>
    BY ProposalAssumption DEF ExecuteByAnyone, ExecuteQueuedProposal, paramVars
  <1>2. /\ announced \subseteq announced'
        /\ announced' \subseteq [proposal : QueuedProposal, at : Time]
    BY <1>1, ExecutionIsAnnounced
  <1>3. QueueConserved'
    BY <1>1, <1>2 DEF QueueInv, QueueConserved
  <1> QED
    BY <1>1, <1>2, <1>3 DEF QueueInv, QueueTypeOK

\* What the keeper executes next is the next to have arrived.
LEMMA KeeperKeepsInv ==
  ASSUME QueueInv, ExecuteTaken
  PROVE  QueueInv'
  <1> DEFINE next == taken[served + 1]
  <1>1. /\ queue \in Seq(QueuedProposal) /\ taken \in Seq(QueuedProposal)
        /\ served \in 0..Len(taken) /\ served < Len(taken) /\ Len(taken) \in Nat
        /\ arrivals = taken \o queue
        /\ ExecuteQueuedProposal(next) /\ served' = served + 1
        /\ UNCHANGED <<now, queue, arrivals, taken, paramChange, paramApplied>>
    BY DEF QueueInv, QueueTypeOK, QueueConserved, ExecuteTaken, ExecuteQueuedProposal, paramVars
  <1>2. served + 1 \in 1..Len(taken) /\ served' \in 0..Len(taken') /\ served \in Nat
    BY <1>1
  <1>3. next \in QueuedProposal
    BY <1>1, <1>2, ElementOfSeq
  <1>4. arrivals[served + 1] = next
    BY <1>1, <1>2
  <1> HIDE DEF next
  <1>5. /\ announced \subseteq announced'
        /\ announced' \subseteq [proposal : QueuedProposal, at : Time]
        /\ \E event \in announced' : event.proposal = next /\ event.at >= next.execute_after
    BY <1>1, <1>3, ExecutionIsAnnounced
  <1>6. ASSUME NEW n \in 1..served'
        PROVE  \E event \in announced' :
                 event.proposal = arrivals'[n] /\ event.at >= arrivals'[n].execute_after
    <2>1. CASE n = served + 1
      BY <1>1, <1>4, <1>5, <2>1
    <2>2. CASE n # served + 1
      <3>1. n \in 1..served
        BY <1>1, <1>2, <1>6, <2>2
      <3> QED
        BY <1>1, <1>5, <3>1 DEF QueueInv, QueueConserved
    <2> QED
      BY <2>1, <2>2
  <1>7. QueueConserved'
    BY <1>1, <1>6 DEF QueueConserved
  <1> QED
    BY <1>1, <1>2, <1>5, <1>7 DEF QueueInv, QueueTypeOK

\* Enqueueing appends the same proposal to the queue and to the arrivals.
LEMMA ArrivalIsQueued ==
  ASSUME QueueInv, NEW proposal \in Proposals, EnqueueProposal(proposal)
  PROVE  QueueInv'
  <1>1. /\ queue \in Seq(QueuedProposal) /\ arrivals \in Seq(QueuedProposal)
        /\ taken \in Seq(QueuedProposal) /\ served \in 0..Len(taken)
        /\ arrivals = taken \o queue
    BY DEF QueueInv, QueueTypeOK, QueueConserved
  <1>2. /\ queue' = Append(queue, proposal) /\ arrivals' = Append(arrivals, proposal)
        /\ UNCHANGED <<now, taken, served, announced, paramChange, paramApplied>>
    BY DEF EnqueueProposal, paramVars
  <1>3. proposal \in QueuedProposal
    BY ProposalAssumption
  <1>4. arrivals' = taken' \o queue'
    <2>1. arrivals' = (taken \o queue) \o <<proposal>>
      BY <1>1, <1>2, <1>3, AppendIsConcat
    <2>2. queue' = queue \o <<proposal>>
      BY <1>1, <1>2, <1>3, AppendIsConcat
    <2>3. <<proposal>> \in Seq(QueuedProposal)
      BY <1>3
    <2> QED
      BY <1>1, <1>2, <2>1, <2>2, <2>3, ConcatAssociative
  <1>5. QueueTypeOK'
    BY <1>1, <1>2, <1>3 DEF QueueInv, QueueTypeOK
  <1>6. \A n \in 1..served : arrivals'[n] = arrivals[n]
    <2>1. Len(taken) \in Nat /\ Len(queue) \in Nat /\ Len(arrivals) = Len(taken) + Len(queue)
      BY <1>1
    <2>2. \A n \in 1..served : n \in 1..Len(arrivals)
      BY <1>1, <2>1
    <2> QED
      BY <1>1, <1>2, <1>3, <2>2
  <1>7. QueueConserved'
    BY <1>2, <1>4, <1>6 DEF QueueInv, QueueConserved
  <1> QED
    BY <1>2, <1>5, <1>7 DEF QueueInv

\* For every set of proposals and every timelock, whatever strangers execute: what
\* left the queue and what waits is what arrived, in that order, what its keeper
\* has executed are the first of it, none before its time, and no parameter
\* change is applied before its timelock has been served
\* (proposal_execution_queue.rs, param_timelock.rs).
THEOREM QueueIsConserved == QueueSpec => [](QueueTypeOK /\ QueueConserved /\ TimelockIsServed)
  <1>1. now = 0 /\ QueueInit => QueueInv
    <2> SUFFICES ASSUME now = 0, QueueInit PROVE QueueInv
      OBVIOUS
    <2>1. QueueTypeOK /\ now \in Time
      BY MaxTimeAssumption DEF QueueInit, QueueTypeOK, NoChange, Time
    <2>2. QueueConserved
      <3>1. <<>> \o <<>> = <<>> /\ 1..0 = {}
        OBVIOUS
      <3> QED
        BY <3>1, Zenon DEF QueueInit, QueueConserved
    <2> QED
      BY <2>1, <2>2 DEF QueueInit, QueueInv
  <1>2. ASSUME QueueInv, [QueueNext \/ ParamNext]_<<now, queueVars>>
        PROVE  QueueInv'
    <2>1. ASSUME UNCHANGED <<queue, arrivals, taken, served, announced>>,
                 now' \in Time, paramChange' \in Time \cup {NoChange},
                 paramChange' # NoChange => paramChange' <= now',
                 \A change \in paramApplied' : change.applied - change.proposed >= ParamTimelock
          PROVE  QueueInv'
      BY <1>2, <2>1, QueueUntouched DEF QueueInv, QueueTypeOK
    <2>2. CASE Tick /\ UNCHANGED queueVars
      <3>1. /\ now' \in Time /\ now <= now' /\ now \in Nat /\ now' \in Nat
            /\ paramChange \in Time \cup {NoChange} /\ paramChange \in Int
        BY <1>2, <2>2, MaxTimeAssumption DEF QueueInv, QueueTypeOK, Tick, Time, NoChange
      <3> QED
        BY <1>2, <2>1, <2>2, <3>1 DEF QueueInv, queueVars, paramVars
    <2>3. CASE ProposeParamChange
      <3>1. now \in Time /\ now <= now
        BY <1>2 DEF QueueInv, Time
      <3> QED
        BY <1>2, <2>1, <2>3, <3>1 DEF QueueInv, ProposeParamChange
    <2>4. CASE ApplyParamChange
      <3>1. /\ paramChange \in Int /\ now \in Int /\ now \in Time
            /\ now - paramChange >= ParamTimelock
        BY <1>2, <2>4, MaxTimeAssumption, TimelockAssumption
           DEF QueueInv, QueueTypeOK, ApplyParamChange, is_timelock_elapsed, Time, NoChange
      <3> QED
        BY <1>2, <2>1, <2>4, <3>1 DEF QueueInv, ApplyParamChange
    <2>5. CASE UNCHANGED <<now, queueVars>>
      BY <1>2, <2>1, <2>5 DEF QueueInv, QueueTypeOK, queueVars, paramVars
    <2> QED
      BY <1>2, <2>2, <2>3, <2>4, <2>5, TakingKeepsInv, AnyoneKeepsInv, KeeperKeepsInv, ArrivalIsQueued
         DEF QueueNext, ParamNext
  <1>3. QueueInv => QueueTypeOK /\ QueueConserved /\ TimelockIsServed
    BY MaxTimeAssumption, TimelockAssumption
       DEF QueueInv, QueueTypeOK, TimelockIsServed, remaining_timelock, is_timelock_elapsed, Time
  <1> QED
    BY <1>1, <1>2, <1>3, PTL DEF QueueSpec

-----------------------------------------------------------------------------
(* Claim windows.                                                          *)

\* ClaimWindow bounds the extensions, so this bounds the whole length of a
\* window; a payment lies in its window because a window starts in the past.
WindowsAreBounded ==
    \A claim \in Claim :
        /\ windows[claim].opened_at <= now
        /\ windows[claim].deadline <=
             windows[claim].opened_at + (1 + windows[claim].extensions) * MAX_WINDOW_S

PaymentsMatchStates ==
    \A claim \in Claim :
        /\ Len(payouts[claim]) = (IF windows[claim].state = "Claimed" THEN 1 ELSE 0)
        /\ \A i \in DOMAIN payouts[claim] :
             payouts[claim][i].claimed_at \in windows[claim].opened_at..windows[claim].deadline

ClaimsInv == now \in Time /\ ClaimsTypeOK /\ WindowsAreBounded /\ PaymentsMatchStates

\* The fields of a stored window, and of the absent one.
LEMMA WindowTypes ==
  ASSUME ClaimsTypeOK, NEW claim \in Claim
  PROVE  /\ windows[claim].opened_at \in Nat
         /\ windows[claim].deadline \in Nat
         /\ windows[claim].extensions \in 0..MAX_EXTENSIONS
         /\ windows[claim].state # "Absent" => windows[claim] \in ClaimWindow
         /\ windows[claim].state = "Absent" => windows[claim] = NoWindow
  <1>1. windows[claim] \in ClaimWindow \/ windows[claim] = NoWindow
    BY DEF ClaimsTypeOK
  <1>2. CASE windows[claim] \in ClaimWindow
    BY <1>2, MaxTimeAssumption, ClaimsAssumption DEF ClaimWindow, Time
  <1>3. CASE windows[claim] = NoWindow
    BY <1>3, ClaimsAssumption DEF NoWindow
  <1> QED
    BY <1>1, <1>2, <1>3

\* A call that replaces one window and appends nothing to the payments.
LEMMA WindowReplaced ==
  ASSUME ClaimsInv, NEW claim \in Claim, NEW window \in ClaimWindow,
         windows' = [windows EXCEPT ![claim] = window],
         openings' \in [Claim -> 0..MaxOpenings], UNCHANGED <<now, payouts>>,
         windows[claim].state # "Claimed", window.state # "Claimed",
         window.opened_at <= now,
         window.deadline <= window.opened_at + (1 + window.extensions) * MAX_WINDOW_S
  PROVE  ClaimsInv'
  <1>1. windows \in [Claim -> ClaimWindow \cup {NoWindow}] /\ payouts \in [Claim -> Seq(ClaimPayout)]
    BY DEF ClaimsInv, ClaimsTypeOK
  <1>2. ClaimsTypeOK'
    BY <1>1 DEF ClaimsTypeOK
  <1>3. /\ windows'[claim] = window
        /\ \A other \in Claim \ {claim} : windows'[other] = windows[other]
    BY <1>1
  <1>4. WindowsAreBounded'
    BY <1>3 DEF ClaimsInv, WindowsAreBounded
  <1>5. Len(payouts[claim]) = 0 /\ DOMAIN payouts[claim] = {}
    BY <1>1 DEF ClaimsInv, PaymentsMatchStates
  <1>6. PaymentsMatchStates'
    <2> SUFFICES ASSUME NEW other \in Claim
                 PROVE  /\ Len(payouts'[other]) = (IF windows'[other].state = "Claimed" THEN 1 ELSE 0)
                        /\ \A i \in DOMAIN payouts'[other] :
                             payouts'[other][i].claimed_at
                               \in windows'[other].opened_at..windows'[other].deadline
      BY DEF PaymentsMatchStates
    <2>1. CASE other = claim
      BY <1>3, <1>5, <2>1
    <2>2. CASE other # claim
      BY <1>3, <2>2 DEF ClaimsInv, PaymentsMatchStates
    <2> QED
      BY <2>1, <2>2
  <1> QED
    BY <1>2, <1>4, <1>6 DEF ClaimsInv

LEMMA OpeningKeepsInv ==
  ASSUME ClaimsInv, NEW claim \in Claim, NEW seconds \in WindowInputs, NEW bps \in BpsInputs,
         OpenClaimWindow(claim, seconds, bps)
  PROVE  ClaimsInv'
  <1> DEFINE window == [opened_at |-> now, deadline |-> now + seconds, max_claim_bps |-> bps,
                        state |-> "Open", extensions |-> 0]
  <1>1. now \in Time /\ now \in Nat /\ seconds \in 1..MAX_WINDOW_S /\ bps \in 1..MAX_CLAIM_BPS
    BY MaxTimeAssumption DEF ClaimsInv, OpenClaimWindow, Time
  <1>2. window \in ClaimWindow
    BY <1>1, ClaimsAssumption DEF ClaimWindow
  <1>3. openings' \in [Claim -> 0..MaxOpenings]
    <2>1. openings \in [Claim -> 0..MaxOpenings] /\ openings[claim] < MaxOpenings
      BY DEF ClaimsInv, ClaimsTypeOK, OpenClaimWindow
    <2>2. openings[claim] + 1 \in 0..MaxOpenings
      BY <2>1, ClaimsAssumption
    <2> QED
      BY <2>1, <2>2 DEF OpenClaimWindow
  <1>4. window.deadline <= window.opened_at + (1 + window.extensions) * MAX_WINDOW_S
    BY <1>1, ClaimsAssumption
  <1>5. windows' = [windows EXCEPT ![claim] = window] /\ UNCHANGED <<now, payouts>>
        /\ windows[claim].state # "Claimed"
    BY DEF OpenClaimWindow
  <1>6. window.opened_at <= now /\ window.state # "Claimed"
    BY <1>1
  <1> QED
    BY <1>2, <1>3, <1>4, <1>5, <1>6, WindowReplaced

LEMMA ExtensionKeepsInv ==
  ASSUME ClaimsInv, NEW claim \in Claim, NEW extra \in WindowInputs,
         ExtendClaimDeadline(claim, extra)
  PROVE  ClaimsInv'
  <1> DEFINE old == windows[claim]
             window == [old EXCEPT !.deadline = @ + extra, !.extensions = @ + 1]
  <1>1. /\ old \in ClaimWindow /\ old.state = "Open" /\ old.extensions < MAX_EXTENSIONS
        /\ old.opened_at \in Nat /\ old.deadline \in Nat /\ old.extensions \in Nat
        /\ extra \in 1..MAX_WINDOW_S
    BY WindowTypes, ClaimsAssumption DEF ClaimsInv, ExtendClaimDeadline
  <1>2. /\ windows' = [windows EXCEPT ![claim] = window]
        /\ UNCHANGED <<now, payouts, openings>>
    BY DEF ClaimsInv, ClaimsTypeOK, ExtendClaimDeadline
  <1>3. old.opened_at <= now /\ old.deadline <= old.opened_at + (1 + old.extensions) * MAX_WINDOW_S
    BY DEF ClaimsInv, WindowsAreBounded
  <1> HIDE DEF old
  <1>4. /\ window \in ClaimWindow /\ window.state = "Open" /\ window.opened_at = old.opened_at
        /\ window.deadline = old.deadline + extra /\ window.extensions = old.extensions + 1
    <2>1. old.deadline + extra \in Nat /\ old.extensions + 1 \in 0..MAX_EXTENSIONS
      BY <1>1, ClaimsAssumption
    <2>2. DOMAIN old = {"opened_at", "deadline", "max_claim_bps", "state", "extensions"}
      BY <1>1 DEF ClaimWindow
    <2> QED
      BY <1>1, <2>1, <2>2 DEF ClaimWindow
  <1>5. (1 + (old.extensions + 1)) * MAX_WINDOW_S = (1 + old.extensions) * MAX_WINDOW_S + MAX_WINDOW_S
    BY <1>1, ClaimsAssumption
  <1>6. (1 + old.extensions) * MAX_WINDOW_S \in Nat
    BY <1>1, ClaimsAssumption
  <1>7. window.deadline <= window.opened_at + (1 + window.extensions) * MAX_WINDOW_S
    BY <1>1, <1>3, <1>4, <1>5, <1>6, ClaimsAssumption
  <1>8. openings' \in [Claim -> 0..MaxOpenings]
    BY <1>2 DEF ClaimsInv, ClaimsTypeOK
  <1>9. windows[claim].state # "Claimed" /\ window.state # "Claimed"
    BY <1>1, <1>4 DEF old
  <1> HIDE DEF window
  <1> QED
    BY <1>2, <1>3, <1>4, <1>7, <1>8, <1>9, WindowReplaced

LEMMA ExpiryKeepsInv ==
  ASSUME ClaimsInv, NEW claim \in Claim, ExpireClaim(claim)
  PROVE  ClaimsInv'
  <1> DEFINE old == windows[claim]
             window == [old EXCEPT !.state = "Expired"]
  <1>1. old \in ClaimWindow /\ old.state # "Claimed"
    BY WindowTypes DEF ClaimsInv, ExpireClaim
  <1>2. /\ windows' = [windows EXCEPT ![claim] = window]
        /\ UNCHANGED <<now, payouts, openings>>
    BY DEF ClaimsInv, ClaimsTypeOK, ExpireClaim
  <1>3. old.opened_at <= now /\ old.deadline <= old.opened_at + (1 + old.extensions) * MAX_WINDOW_S
    BY DEF ClaimsInv, WindowsAreBounded
  <1>4. openings' \in [Claim -> 0..MaxOpenings]
    BY <1>2 DEF ClaimsInv, ClaimsTypeOK
  <1>5. windows[claim].state # "Claimed"
    BY <1>1
  <1> HIDE DEF old
  <1>6. /\ window \in ClaimWindow /\ window.state = "Expired" /\ window.opened_at = old.opened_at
        /\ window.deadline = old.deadline /\ window.extensions = old.extensions
    BY <1>1 DEF ClaimWindow
  <1> HIDE DEF window
  <1> QED
    BY <1>2, <1>3, <1>4, <1>5, <1>6, WindowReplaced

LEMMA PaymentKeepsInv ==
  ASSUME ClaimsInv, NEW claim \in Claim, NEW gross \in GrossInputs, PayClaim(claim, gross)
  PROVE  ClaimsInv'
  <1> DEFINE old == windows[claim]
             window == [old EXCEPT !.state = "Claimed"]
             payout == [gross |-> gross, amount |-> claimable_amount(claim, gross), claimed_at |-> now]
  <1>1. old.state = "Open" /\ now <= old.deadline
    <2>1. old.deadline \in Nat /\ now \in Nat
      BY WindowTypes, MaxTimeAssumption DEF ClaimsInv, Time
    <2> QED
      BY <2>1 DEF PayClaim, is_claimable, claim_state
  <1>2. old \in ClaimWindow
    BY <1>1, WindowTypes DEF ClaimsInv
  <1>3. /\ windows \in [Claim -> ClaimWindow \cup {NoWindow}] /\ payouts \in [Claim -> Seq(ClaimPayout)]
        /\ openings \in [Claim -> 0..MaxOpenings] /\ now \in Time /\ now \in Nat
    BY MaxTimeAssumption DEF ClaimsInv, ClaimsTypeOK, Time
  <1>4. /\ windows' = [windows EXCEPT ![claim] = window]
        /\ payouts' = [payouts EXCEPT ![claim] = Append(payouts[claim], payout)]
        /\ UNCHANGED <<now, openings>>
    BY <1>3 DEF PayClaim
  <1>5. old.opened_at <= now /\ old.deadline <= old.opened_at + (1 + old.extensions) * MAX_WINDOW_S
    BY DEF ClaimsInv, WindowsAreBounded
  <1>6. claimable_amount(claim, gross) \in Nat
    <2>1. old.max_claim_bps \in Nat /\ gross \in Nat
      BY <1>2, ClaimsAssumption DEF ClaimWindow
    <2>2. gross * old.max_claim_bps \in Nat
      BY <2>1
    <2>3. (gross * old.max_claim_bps) \div 10000 \in Nat
      BY <2>2
    <2> QED
      BY <2>3 DEF claimable_amount, BPS_DENOMINATOR
  <1>7. payout \in ClaimPayout
    BY <1>3, <1>6, ClaimsAssumption DEF ClaimPayout
  <1>8. payouts[claim] = <<>>
    <2>1. Len(payouts[claim]) = 0 /\ payouts[claim] \in Seq(ClaimPayout)
      BY <1>1, <1>3 DEF ClaimsInv, PaymentsMatchStates
    <2> QED
      BY <2>1, EmptySeq
  <1> HIDE DEF old
  <1>9. /\ window \in ClaimWindow /\ window.state = "Claimed" /\ window.opened_at = old.opened_at
        /\ window.deadline = old.deadline /\ window.extensions = old.extensions
    BY <1>2 DEF ClaimWindow
  <1>10. payout.claimed_at = now
    OBVIOUS
  <1> HIDE DEF window, payout
  <1>11. windows'[claim] = window /\ payouts'[claim] = <<payout>>
    BY <1>3, <1>4, <1>8
  <1>12. \A other \in Claim \ {claim} :
           windows'[other] = windows[other] /\ payouts'[other] = payouts[other]
    BY <1>3, <1>4
  <1>13. ClaimsTypeOK'
    BY <1>3, <1>4, <1>7, <1>8, <1>9 DEF ClaimsTypeOK
  <1>14. WindowsAreBounded'
    BY <1>4, <1>5, <1>9, <1>11, <1>12 DEF ClaimsInv, WindowsAreBounded
  <1>15. old.opened_at \in Nat /\ old.deadline \in Nat
    BY <1>2, MaxTimeAssumption DEF ClaimWindow, Time
  <1>16. now \in window.opened_at..window.deadline
    BY <1>1, <1>3, <1>5, <1>9, <1>15
  <1>17. PaymentsMatchStates'
    <2> SUFFICES ASSUME NEW other \in Claim
                 PROVE  /\ Len(payouts'[other]) = (IF windows'[other].state = "Claimed" THEN 1 ELSE 0)
                        /\ \A i \in DOMAIN payouts'[other] :
                             payouts'[other][i].claimed_at
                               \in windows'[other].opened_at..windows'[other].deadline
      BY DEF PaymentsMatchStates
    <2>1. CASE other = claim
      <3>1. Len(<<payout>>) = 1 /\ DOMAIN <<payout>> = {1} /\ <<payout>>[1] = payout
        OBVIOUS
      <3> QED
        BY <1>9, <1>10, <1>11, <1>16, <2>1, <3>1
    <2>2. CASE other # claim
      BY <1>12, <2>2 DEF ClaimsInv, PaymentsMatchStates
    <2> QED
      BY <2>1, <2>2
  <1> QED
    BY <1>3, <1>4, <1>13, <1>14, <1>17 DEF ClaimsInv

LEMMA ClaimsBegin == now = 0 /\ ClaimsInit => ClaimsInv
  <1> SUFFICES ASSUME now = 0, ClaimsInit PROVE ClaimsInv
    OBVIOUS
  <1>1. \A claim \in Claim : /\ windows[claim].opened_at = 0 /\ windows[claim].deadline = 0
                             /\ windows[claim].extensions = 0 /\ windows[claim].state = "Absent"
                             /\ payouts[claim] = <<>>
    BY DEF ClaimsInit, NoWindow
  <1>2. 0 <= 0 + (1 + 0) * MAX_WINDOW_S
    BY ClaimsAssumption
  <1>3. WindowsAreBounded /\ PaymentsMatchStates
    BY <1>1, <1>2 DEF WindowsAreBounded, PaymentsMatchStates
  <1>4. ClaimsTypeOK /\ now \in Time
    BY MaxTimeAssumption, ClaimsAssumption DEF ClaimsInit, ClaimsTypeOK, Time
  <1> QED
    BY <1>3, <1>4 DEF ClaimsInv

LEMMA ClaimsKeepInv ==
  ASSUME ClaimsInv, [ClaimsNext]_<<now, claimVars>>
  PROVE  ClaimsInv'
  <1>1. CASE Tick /\ UNCHANGED claimVars
    <2>1. now' \in Time /\ now <= now' /\ now \in Nat /\ now' \in Nat
      BY <1>1, MaxTimeAssumption DEF ClaimsInv, Tick, Time
    <2>2. ClaimsTypeOK' /\ PaymentsMatchStates'
      BY <1>1 DEF ClaimsInv, ClaimsTypeOK, PaymentsMatchStates, claimVars
    <2>3. WindowsAreBounded'
      BY <1>1, <2>1, WindowTypes DEF ClaimsInv, WindowsAreBounded, claimVars
    <2> QED
      BY <2>1, <2>2, <2>3 DEF ClaimsInv
  <1>2. CASE UNCHANGED <<now, claimVars>>
    BY <1>2 DEF ClaimsInv, ClaimsTypeOK, WindowsAreBounded, PaymentsMatchStates, claimVars
  <1> QED
    BY <1>1, <1>2, OpeningKeepsInv, ExtensionKeepsInv, ExpiryKeepsInv, PaymentKeepsInv
       DEF ClaimsNext

LEMMA PaymentsAreInTime == ClaimsInv => PaidOnceInTime
  <1> SUFFICES ASSUME ClaimsInv, NEW claim \in Claim
               PROVE  windows[claim].deadline <=
                        windows[claim].opened_at + (1 + MAX_EXTENSIONS) * MAX_WINDOW_S
    BY DEF PaidOnceInTime, ClaimsInv, PaymentsMatchStates
  <1> DEFINE e == windows[claim].extensions
  <1>1. /\ windows[claim].deadline \in Nat /\ windows[claim].opened_at \in Nat
        /\ e \in 0..MAX_EXTENSIONS
        /\ windows[claim].deadline <= windows[claim].opened_at + (1 + e) * MAX_WINDOW_S
    BY WindowTypes DEF ClaimsInv, WindowsAreBounded
  <1> HIDE DEF e
  <1>2. /\ (1 + e) * MAX_WINDOW_S \in Nat /\ (1 + MAX_EXTENSIONS) * MAX_WINDOW_S \in Nat
        /\ (MAX_EXTENSIONS - e) * MAX_WINDOW_S \in Nat
        /\ (1 + MAX_EXTENSIONS) * MAX_WINDOW_S =
             (1 + e) * MAX_WINDOW_S + (MAX_EXTENSIONS - e) * MAX_WINDOW_S
    BY <1>1, ClaimsAssumption
  <1> QED
    BY <1>1, <1>2

LEMMA TimeLeftIsTold == ClaimsInv => TimeLeftIsTimeToClaim
  <1> SUFFICES ASSUME ClaimsInv, NEW claim \in Claim
               PROVE  is_claimable(claim) <=>
                        \/ remaining_claim_time(claim) > 0
                        \/ windows[claim].state = "Open" /\ now = windows[claim].deadline
    BY DEF TimeLeftIsTimeToClaim
  <1>1. now \in Nat /\ windows[claim].deadline \in Nat
    BY WindowTypes, MaxTimeAssumption DEF ClaimsInv, Time
  <1> QED
    BY <1>1 DEF is_claimable, claim_state, remaining_claim_time, seconds_remaining

LEMMA RevivalIsOpening ==
  ClaimsInv /\ [ClaimsNext]_<<now, claimVars>> => RevivedOnlyByOpening
  <1> SUFFICES ASSUME ClaimsInv, [ClaimsNext]_<<now, claimVars>>, NEW claim \in Claim,
                      ~is_claimable(claim), is_claimable(claim)'
               PROVE  /\ openings'[claim] = openings[claim] + 1
                      /\ windows[claim].state \in {"Absent", "Expired"}
    BY DEF RevivedOnlyByOpening
  <1> USE DEF is_claimable, claim_state
  <1>1. /\ windows \in [Claim -> ClaimWindow \cup {NoWindow}] /\ openings \in [Claim -> 0..MaxOpenings]
        /\ windows[claim].state \in {"Open", "Claimed", "Expired", "Absent"}
        /\ now \in Nat /\ windows[claim].deadline \in Nat
    BY WindowTypes, MaxTimeAssumption DEF ClaimsInv, ClaimsTypeOK, ClaimWindow, Time
  <1>2. CASE Tick /\ UNCHANGED claimVars
    BY <1>1, <1>2 DEF Tick, claimVars
  <1>3. ASSUME NEW other \in Claim, NEW seconds \in WindowInputs, NEW bps \in BpsInputs,
               OpenClaimWindow(other, seconds, bps)
        PROVE  /\ openings'[claim] = openings[claim] + 1
               /\ windows[claim].state \in {"Absent", "Expired"}
    <2>1. CASE other = claim
      BY <1>1, <1>3, <2>1 DEF OpenClaimWindow
    <2>2. CASE other # claim
      BY <1>1, <1>3, <2>2 DEF OpenClaimWindow
    <2> QED
      BY <2>1, <2>2
  <1>4. ASSUME NEW other \in Claim, NEW gross \in GrossInputs, PayClaim(other, gross)
        PROVE  FALSE
    BY <1>1, <1>4 DEF PayClaim
  <1>5. ASSUME NEW other \in Claim, NEW extra \in WindowInputs, ExtendClaimDeadline(other, extra)
        PROVE  FALSE
    BY <1>1, <1>5 DEF ExtendClaimDeadline
  <1>6. ASSUME NEW other \in Claim, ExpireClaim(other)
        PROVE  FALSE
    BY <1>1, <1>6 DEF ExpireClaim
  <1>7. CASE UNCHANGED <<now, claimVars>>
    BY <1>7 DEF claimVars
  <1> QED
    BY <1>2, <1>3, <1>4, <1>5, <1>6, <1>7 DEF ClaimsNext

\* However often and for whatever windows a claim is opened, extended and
\* expired, it is paid at most once, within its window, and a lapsed window
\* comes back only by being opened anew (claim_deadline.rs).
THEOREM ClaimsHonoured == ClaimsSpec => ClaimsAreHonoured
  <1>1. ClaimsInv => ClaimsTypeOK
    BY DEF ClaimsInv
  <1> QED
    BY <1>1, ClaimsBegin, ClaimsKeepInv, PaymentsAreInTime, TimeLeftIsTold, RevivalIsOpening, PTL
       DEF ClaimsSpec, ClaimsAreHonoured

-----------------------------------------------------------------------------
(* Detections and resolutions.                                             *)

LEMMA ReportTypes ==
  ASSUME ResolutionTypeOK, NEW outage \in Outage
  PROVE  /\ is_pending(outage) => resolutions[outage] \in ResolutionRecord
         /\ resolution_state(outage) = "Resolved" => resolutions[outage] \in ResolutionRecord
         /\ resolution_state(outage) \in {"Unknown", "Pending", "Resolved"}
  BY DEF ResolutionTypeOK, is_pending, resolution_state

LEMMA NoReportIsNoRecord == NoReport \notin ResolutionRecord
  BY MaxTimeAssumption DEF NoReport, ResolutionRecord, Time

\* A report that replaces the record and the state of one outage.
LEMMA ReportReplaced ==
  ASSUME ResolutionTypeOK, NEW outage \in Outage, NEW record \in ResolutionRecord,
         NEW state \in {"Pending", "Resolved"},
         resolutions' = [resolutions EXCEPT ![outage] = record],
         resolutionStates' = [resolutionStates EXCEPT ![outage] = state],
         state = "Resolved" => record.resolved_at = record.detected_at + record.delay_seconds
  PROVE  ResolutionTypeOK'
  <1>1. record # NoReport
    BY NoReportIsNoRecord
  <1>2. /\ resolutionStates \in [Outage -> {"Unknown", "Pending", "Resolved"}]
        /\ resolutions \in [Outage -> ResolutionRecord \cup {NoReport}]
    BY DEF ResolutionTypeOK
  <1>3. /\ resolutionStates' \in [Outage -> {"Unknown", "Pending", "Resolved"}]
        /\ resolutions' \in [Outage -> ResolutionRecord \cup {NoReport}]
        /\ resolutions'[outage] = record /\ resolutionStates'[outage] = state
        /\ \A other \in Outage \ {outage} :
             resolutions'[other] = resolutions[other] /\ resolutionStates'[other] = resolutionStates[other]
    BY <1>2
  <1> QED
    BY <1>1, <1>3 DEF ResolutionTypeOK, resolution_state

LEMMA ReportsKeepTypes ==
  ASSUME now \in Time, ResolutionTypeOK, [ResolutionNext]_<<now, resolutionVars>>
  PROVE  now' \in Time /\ ResolutionTypeOK'
  <1>1. ASSUME NEW outage \in Outage, NEW at \in Time, MarkDetected(outage, at)
        PROVE  now' \in Time /\ ResolutionTypeOK'
    <2>1. CASE is_pending(outage)
      BY <1>1, <2>1 DEF MarkDetected, ResolutionTypeOK, resolution_state, resolutionVars
    <2>2. CASE ~is_pending(outage)
      <3>1. [detected_at |-> at, resolved_at |-> 0, delay_seconds |-> 0] \in ResolutionRecord
        BY MaxTimeAssumption, DelayAssumption DEF ResolutionRecord, Time
      <3> QED
        BY <1>1, <2>2, <3>1, ReportReplaced DEF MarkDetected
    <2> QED
      BY <2>1, <2>2
  <1>2. ASSUME NEW outage \in Outage, NEW at \in Time, MarkResolved(outage, at)
        PROVE  now' \in Time /\ ResolutionTypeOK'
    <2> DEFINE old == resolutions[outage]
               record == [old EXCEPT !.resolved_at = at, !.delay_seconds = at - old.detected_at]
    <2>1. /\ old \in ResolutionRecord /\ at >= old.detected_at
          /\ at - old.detected_at <= MAX_DELAY_S
      BY <1>2, ReportTypes DEF MarkResolved, Resolvable
    <2>2. /\ resolutions' = [resolutions EXCEPT ![outage] = record]
          /\ resolutionStates' = [resolutionStates EXCEPT ![outage] = "Resolved"]
          /\ now' = now
      BY <1>2 DEF MarkResolved, ResolutionTypeOK
    <2> HIDE DEF old
    <2>3. old.detected_at \in Nat /\ at \in Nat /\ at - old.detected_at \in 0..MAX_DELAY_S
      BY <2>1, MaxTimeAssumption, DelayAssumption DEF ResolutionRecord, Time
    <2>4. /\ record \in ResolutionRecord /\ record.resolved_at = at
          /\ record.detected_at = old.detected_at /\ record.delay_seconds = at - old.detected_at
      BY <2>1, <2>3 DEF ResolutionRecord
    <2>5. record.resolved_at = record.detected_at + record.delay_seconds
      BY <2>3, <2>4
    <2> HIDE DEF record
    <2> QED
      BY <2>2, <2>4, <2>5, ReportReplaced
  <1>3. CASE Tick /\ UNCHANGED resolutionVars
    BY <1>3, MaxTimeAssumption DEF Tick, Time, resolutionVars, ResolutionTypeOK, resolution_state
  <1>4. CASE UNCHANGED <<now, resolutionVars>>
    BY <1>4 DEF resolutionVars, ResolutionTypeOK, resolution_state
  <1> QED
    BY <1>1, <1>2, <1>3, <1>4 DEF ResolutionNext

ReportsInv == now \in Time /\ ResolutionTypeOK

LEMMA ReportsKeepInv == ReportsInv /\ [ResolutionNext]_<<now, resolutionVars>> => ReportsInv'
  BY ReportsKeepTypes DEF ReportsInv

LEMMA ReportsBegin == now = 0 /\ ResolutionInit => ReportsInv
  BY MaxTimeAssumption DEF ReportsInv, ResolutionInit, ResolutionTypeOK, resolution_state, Time

LEMMA DelaysAreForecast ==
  ReportsInv => ResolutionTypeOK /\ PendingDelayForecasts /\ NeverBeyondResolution
  <1> SUFFICES ASSUME now \in Time, ResolutionTypeOK, NEW outage \in Outage, is_pending(outage)
               PROVE  /\ now >= resolutions[outage].detected_at =>
                           /\ pending_delay(outage, now) < MAX_DELAY_S => Resolvable(outage, now)
                           /\ Resolvable(outage, now) =>
                                pending_delay(outage, now) = now - resolutions[outage].detected_at
                      /\ \E at \in Time : Resolvable(outage, at)
    BY DEF ReportsInv, PendingDelayForecasts, NeverBeyondResolution
  <1>1. /\ resolutions[outage].detected_at \in Time
        /\ resolutions[outage].detected_at \in Nat /\ now \in Nat
    BY ReportTypes, MaxTimeAssumption DEF ResolutionRecord, Time
  <1>2. Resolvable(outage, resolutions[outage].detected_at)
    BY <1>1, DelayAssumption DEF Resolvable
  <1> QED
    BY <1>1, <1>2, DelayAssumption DEF pending_delay, Resolvable

LEMMA ReportsStand ==
  ReportsInv /\ [ResolutionNext]_<<now, resolutionVars>> => FirstReportsStand
  <1> SUFFICES ASSUME now \in Time, ResolutionTypeOK, [ResolutionNext]_<<now, resolutionVars>>, NEW outage \in Outage
               PROVE  /\ resolutions[outage] # NoReport =>
                           resolutions'[outage].detected_at = resolutions[outage].detected_at
                      /\ resolution_state(outage) = "Resolved" =>
                           /\ resolutions'[outage] = resolutions[outage]
                           /\ resolution_state(outage)' = "Resolved"
    BY DEF ReportsInv, FirstReportsStand
  <1>1. /\ resolutionStates \in [Outage -> {"Unknown", "Pending", "Resolved"}]
        /\ resolutions \in [Outage -> ResolutionRecord \cup {NoReport}]
        /\ resolutions[outage] = NoReport <=> resolutionStates[outage] = "Unknown"
    BY DEF ResolutionTypeOK, resolution_state
  <1>2. ASSUME NEW other \in Outage, NEW at \in Time, MarkDetected(other, at)
        PROVE  /\ resolutions[outage] # NoReport => resolutions'[outage] = resolutions[outage]
               /\ resolution_state(outage) = "Resolved" =>
                    /\ resolutions'[outage] = resolutions[outage]
                    /\ resolution_state(outage)' = "Resolved"
    BY <1>1, <1>2 DEF MarkDetected, resolution_state, is_pending, resolutionVars
  <1>3. ASSUME NEW other \in Outage, NEW at \in Time, MarkResolved(other, at)
        PROVE  /\ resolutions[outage] # NoReport =>
                    resolutions'[outage].detected_at = resolutions[outage].detected_at
               /\ resolution_state(outage) = "Resolved" =>
                    /\ resolutions'[outage] = resolutions[outage]
                    /\ resolution_state(outage)' = "Resolved"
    <2>1. CASE other = outage
      <3>1. resolutionStates[outage] = "Pending" /\ resolutions[outage] \in ResolutionRecord
        BY <1>3, <2>1, ReportTypes DEF MarkResolved, Resolvable, is_pending, resolution_state
      <3> QED
        BY <1>1, <1>3, <2>1, <3>1 DEF MarkResolved, resolution_state, ResolutionRecord
    <2>2. CASE other # outage
      BY <1>1, <1>3, <2>2 DEF MarkResolved, resolution_state
    <2> QED
      BY <2>1, <2>2
  <1>4. CASE UNCHANGED resolutionVars
    BY <1>4 DEF resolutionVars, resolution_state
  <1> QED
    BY <1>2, <1>3, <1>4 DEF ResolutionNext

\* For every maximal delay the two maps stay in step, the pending delay
\* forecasts the resolution, no pending outage is beyond resolution, and the
\* first reports stand (resolution_delay.rs).
THEOREM ReportsCohere ==
  ResolutionSpec => /\ [](ResolutionTypeOK /\ PendingDelayForecasts /\ NeverBeyondResolution)
                    /\ [][FirstReportsStand]_<<now, resolutionVars>>
  BY ReportsBegin, ReportsKeepInv, DelaysAreForecast, ReportsStand, PTL DEF ResolutionSpec

-----------------------------------------------------------------------------
(* Adaptive tuning.                                                        *)

TuningInv ==
    /\ tuning \in TuningConfig
    /\ tuning.target_compliance_bps <= 10000
    /\ tuning.max_adjustment_bps < Word
    /\ judged \in [calculations : Nat, violations : Nat]
    /\ judged.violations <= judged.calculations

\* What is recommended for a gap: nothing within a step, otherwise a step, cut
\* at the limit, in the direction of the gap.  A limit that has become negative as a
\* signed word is recommended itself, so that a recommendation is then never positive.
RecommendationOK ==
    /\ Gap \in Int /\ Compliance \in Int /\ Recommended \in Int
    /\ Recommended > 0 => /\ 2 * tuning.max_adjustment_bps < Word
                          /\ Gap > tuning.adjustment_step_bps
                          /\ Recommended <= tuning.adjustment_step_bps
    /\ Recommended < 0 /\ 2 * tuning.max_adjustment_bps < Word =>
          -Gap > tuning.adjustment_step_bps /\ -Recommended <= tuning.adjustment_step_bps

\* A share, in basis points, is at most the whole.
LEMMA ShareOfWhole ==
  ASSUME NEW share_ \in Nat, NEW whole \in Nat \ {0}, share_ <= whole
  PROVE  /\ (share_ * 10000) \div whole \in Nat
         /\ (share_ * 10000) \div whole <= 10000
  <1> DEFINE share == (share_ * 10000) \div whole
  <1>1. share_ * 10000 \in Nat /\ share_ * 10000 <= whole * 10000
    OBVIOUS
  <1>2. share \in Int /\ whole * share <= share_ * 10000 /\ share_ * 10000 < whole * (share + 1)
    BY <1>1
  <1> HIDE DEF share
  <1>3. ~(share > 10000)
    <2>1. SUFFICES ASSUME share >= 10001 PROVE FALSE
      BY <1>2
    <2>2. whole * share >= whole * 10001
      BY <1>2, <2>1
    <2> QED
      BY <1>1, <1>2, <2>2
  <1>4. ~(share < 0)
    <2>1. SUFFICES ASSUME share + 1 <= 0 PROVE FALSE
      BY <1>2
    <2>2. whole * (share + 1) <= 0
      BY <1>2, <2>1
    <2> QED
      BY <1>1, <1>2, <2>2
  <1> QED
    BY <1>2, <1>3, <1>4 DEF share

LEMMA ComplianceIsShare == TuningInv => Compliance \in Nat /\ Compliance <= 10000
  <1> SUFFICES ASSUME TuningInv PROVE Compliance \in Nat /\ Compliance <= 10000
    OBVIOUS
  <1>1. CASE judged.calculations = 0
    BY <1>1 DEF Compliance
  <1>2. CASE judged.calculations # 0
    <2>1. /\ judged.calculations \in Nat \ {0}
          /\ judged.calculations - judged.violations \in Nat
          /\ judged.calculations - judged.violations <= judged.calculations
      BY <1>2 DEF TuningInv
    <2>2. PICK met, all : /\ met = judged.calculations - judged.violations
                          /\ all = judged.calculations
      OBVIOUS
    <2>3. Compliance = (met * 10000) \div all
      BY <1>2, <2>2 DEF Compliance
    <2>4. (met * 10000) \div all \in Nat /\ (met * 10000) \div all <= 10000
      BY <2>1, <2>2, ShareOfWhole
    <2> QED
      BY <2>3, <2>4
  <1> QED
    BY <1>1, <1>2

\* The code's max and min: a cut on both sides, or the limit itself.
LEMMA LimitedParts ==
  ASSUME TuningInv, NEW n \in Int
  PROVE  /\ Limited(n) \in Int
         /\ 2 * tuning.max_adjustment_bps < Word =>
              /\ n >= 0 => Limited(n) >= 0 /\ Limited(n) <= n
              /\ n <= 0 => Limited(n) <= 0 /\ n <= Limited(n)
         /\ ~(2 * tuning.max_adjustment_bps < Word) => Limited(n) < 0
  BY TuningAssumption DEF TuningInv, TuningConfig, Limited, AsSigned

LEMMA RecommendedStep == TuningInv => RecommendationOK
  <1> SUFFICES ASSUME TuningInv PROVE RecommendationOK
    OBVIOUS
  <1> DEFINE step == tuning.adjustment_step_bps
             fits == 2 * tuning.max_adjustment_bps < Word
  <1>1. /\ tuning.target_compliance_bps \in Nat /\ tuning.target_compliance_bps <= 10000
        /\ step \in Nat
        /\ tuning.enabled \in BOOLEAN
    BY DEF TuningInv, TuningConfig
  <1>2. Compliance \in Nat /\ Compliance <= 10000
    BY ComplianceIsShare
  <1>3. Gap \in Int /\ Gap <= 10000 /\ -Gap <= 10000
    BY <1>1, <1>2 DEF Gap
  <1>4. Recommended = (IF ShouldAdjust THEN Limited(Direction * AsSigned(step)) ELSE 0)
    BY DEF Recommended, get_tuning_recommendation
  <1> SUFFICES /\ Recommended \in Int
               /\ Recommended > 0 => fits /\ Gap > step /\ Recommended <= step
               /\ Recommended < 0 /\ fits => -Gap > step /\ -Recommended <= step
    BY <1>2, <1>3 DEF RecommendationOK
  <1> HIDE DEF step, fits
  <1>5. CASE ~ShouldAdjust
    <2>1. Recommended = 0
      BY <1>4, <1>5
    <2> QED
      BY <2>1
  <1>6. CASE ShouldAdjust
    <2>1. Gap > step \/ -Gap > step
      BY <1>6 DEF ShouldAdjust, step
    <2>2. AsSigned(step) = step
      BY <1>1, <1>3, <2>1, TuningAssumption DEF AsSigned
    <2>3. CASE Gap > 0
      <3>1. Direction * step = step
        BY <1>1, <2>3 DEF Direction
      <3>2. Recommended = Limited(step)
        BY <1>4, <1>6, <2>2, <3>1, Zenon
      <3>3. /\ Limited(step) \in Int
            /\ fits => Limited(step) >= 0 /\ Limited(step) <= step
            /\ ~fits => Limited(step) < 0
        BY <1>1, LimitedParts DEF fits
      <3> QED
        BY <1>1, <1>3, <2>1, <2>3, <3>2, <3>3
    <2>4. CASE ~(Gap > 0)
      <3>1. Direction * step = -step
        BY <1>1, <2>4 DEF Direction
      <3>2. Recommended = Limited(-step)
        BY <1>4, <1>6, <2>2, <3>1, Zenon
      <3>3. /\ Limited(-step) \in Int
            /\ fits => Limited(-step) <= 0 /\ -step <= Limited(-step)
            /\ ~fits => Limited(-step) < 0
        BY <1>1, LimitedParts DEF fits
      <3> QED
        BY <1>1, <1>3, <2>1, <2>4, <3>2, <3>3
    <2> QED
      BY <2>3, <2>4
  <1> QED
    BY <1>5, <1>6

\* The square of what is recommended, for the comparison of distances.
LEMMA SmallerSquares ==
  ASSUME NEW r \in Int, NEW g \in Int, NEW s \in Nat,
         \/ r > 0 /\ r <= s /\ s < g
         \/ r < 0 /\ -r <= s /\ s < -g
  PROVE  r * g > 0 /\ r * r < g * g
  OBVIOUS

LEMMA OppositeSigns ==
  ASSUME NEW r \in Int, NEW q \in Int
  PROVE  r * q < 0 => (r > 0 /\ q < 0) \/ (r < 0 /\ q > 0)
  <1>1. /\ r > 0 /\ q > 0 => r * q > 0
        /\ r < 0 /\ q < 0 => r * q > 0
        /\ r = 0 \/ q = 0 => r * q = 0
    OBVIOUS
  <1> QED
    BY <1>1

LEMMA TuningBegins == TuningInit => TuningInv
  BY TuningAssumption DEF TuningInit, TuningInv, TuningConfig, init_tuning

LEMMA TuningKeepsInv ==
  ASSUME TuningInv, [TuningNext]_tuningVars
  PROVE  TuningInv'
  <1>1. CASE DisableTuning
    <2>1. tuning \in TuningConfig /\ tuning' = [tuning EXCEPT !.enabled = FALSE]
      BY <1>1 DEF DisableTuning, TuningInv
    <2>2. /\ tuning' \in TuningConfig
          /\ tuning'.target_compliance_bps = tuning.target_compliance_bps
          /\ tuning'.max_adjustment_bps = tuning.max_adjustment_bps
      BY <2>1 DEF TuningConfig
    <2>3. judged' = judged
      BY <1>1 DEF DisableTuning
    <2> QED
      BY <2>2, <2>3 DEF TuningInv
  <1>2. ASSUME NEW violated \in BOOLEAN, Judge(violated)
        PROVE  TuningInv'
    BY <1>2 DEF Judge, TuningInv
  <1>3. ASSUME NEW target \in TargetInputs, NEW step \in StepInputs, NEW limit \in LimitInputsBps,
               SetTuning(target, step, limit)
        PROVE  TuningInv'
    BY <1>3, TuningAssumption DEF SetTuning, TuningInv, TuningConfig
  <1>4. CASE UNCHANGED tuningVars
    BY <1>4 DEF TuningInv, tuningVars
  <1> QED
    BY <1>1, <1>2, <1>3, <1>4 DEF TuningNext

LEMMA RecommendationFallsShort == TuningInv => TuningNeverOvershoots
  <1> SUFFICES ASSUME TuningInv PROVE TuningNeverOvershoots
    OBVIOUS
  <1>1. /\ Gap \in Int /\ Recommended \in Int
        /\ tuning.adjustment_step_bps \in Nat
    BY RecommendedStep DEF TuningInv, TuningConfig, RecommendationOK
  <1>2. Recommended # 0 /\ 2 * tuning.max_adjustment_bps < Word
          => Recommended * Gap > 0 /\ Recommended * Recommended < Gap * Gap
    <2>1. SUFFICES ASSUME Recommended # 0, 2 * tuning.max_adjustment_bps < Word
                   PROVE  Recommended * Gap > 0 /\ Recommended * Recommended < Gap * Gap
      OBVIOUS
    <2>2. \/ /\ Recommended > 0 /\ Recommended <= tuning.adjustment_step_bps
             /\ tuning.adjustment_step_bps < Gap
          \/ /\ Recommended < 0 /\ -Recommended <= tuning.adjustment_step_bps
             /\ tuning.adjustment_step_bps < -Gap
      BY <1>1, <2>1, RecommendedStep DEF RecommendationOK
    <2> QED
      BY <1>1, <2>2, SmallerSquares
  <1>3. ~tuning.enabled \/ Gap = 0 => ~ShouldAdjust
    BY <1>1 DEF ShouldAdjust
  <1>4. get_tuning_recommendation.should_adjust = ShouldAdjust
    BY DEF get_tuning_recommendation
  <1> QED
    BY <1>2, <1>3, <1>4 DEF TuningNeverOvershoots

LEMMA RecommendationLags ==
  RecommendationOK /\ RecommendationOK' /\ TuningInv => TuningHasHysteresis
  <1> SUFFICES ASSUME RecommendationOK, RecommendationOK', TuningInv, UNCHANGED tuning, Recommended * Recommended' < 0
               PROVE  \/ Compliance' - Compliance > 2 * tuning.adjustment_step_bps
                      \/ -(Compliance' - Compliance) > 2 * tuning.adjustment_step_bps
    BY DEF TuningHasHysteresis
  <1> DEFINE fits == 2 * tuning.max_adjustment_bps < Word
  <1>1. /\ Gap' \in Int /\ Compliance' \in Int /\ Recommended' \in Int
        /\ Recommended' > 0 => fits /\ Gap' > tuning'.adjustment_step_bps
        /\ Recommended' < 0 /\ fits => -Gap' > tuning'.adjustment_step_bps
    BY DEF RecommendationOK
  <1>2. /\ Gap \in Int /\ Compliance \in Int /\ Recommended \in Int
        /\ Recommended > 0 => fits /\ Gap > tuning.adjustment_step_bps
        /\ Recommended < 0 /\ fits => -Gap > tuning.adjustment_step_bps
    BY DEF RecommendationOK
  <1> HIDE DEF fits
  <1>3. \/ Recommended > 0 /\ Recommended' < 0
        \/ Recommended < 0 /\ Recommended' > 0
    BY <1>1, <1>2, OppositeSigns
  <1>4. Compliance' - Compliance = Gap - Gap'
    <2>1. tuning.target_compliance_bps \in Int
      BY DEF TuningInv, TuningConfig
    <2> QED
      BY <1>1, <1>2, <2>1 DEF Gap
  <1>5. tuning.adjustment_step_bps \in Nat
    BY DEF TuningInv, TuningConfig
  <1> QED
    BY <1>1, <1>2, <1>3, <1>4, <1>5

\* For every target and step, and every limit that a signed word holds, a
\* recommendation falls short of the gap it answers; under every limit it is turned round by one settlement only if that moved the rate
\* by more than two steps (adaptive_tuning.rs).
THEOREM TuningIsDamped ==
  TuningSpec => []TuningNeverOvershoots /\ [][TuningHasHysteresis]_tuningVars
  BY TuningBegins, TuningKeepsInv, RecommendedStep, RecommendationFallsShort, RecommendationLags, PTL
  DEF TuningSpec

-----------------------------------------------------------------------------
(* The reward budget.                                                      *)

BudgetInv ==
    /\ cap \in RewardCap
    /\ paidOut \in Nat /\ atDecree \in Nat
    /\ cap.distributed = paidOut
    /\ cap.active => /\ cap.max_total_rewards > 0
                     /\ cap.distributed <= cap.max_total_rewards \/ cap.distributed <= atDecree

\* Writing some fields of the cap leaves it a cap.
LEMMA CapWritten ==
  ASSUME cap \in RewardCap, NEW max \in Int, NEW distributed \in Nat, NEW active \in BOOLEAN,
         cap' = [cap EXCEPT !.max_total_rewards = max, !.distributed = distributed,
                            !.active = active, !.stored = TRUE]
  PROVE  /\ cap' \in RewardCap
         /\ cap'.max_total_rewards = max /\ cap'.distributed = distributed
         /\ cap'.active = active
  BY DEF RewardCap

\* A credit is a natural number, at most twice its base.
LEMMA CreditIsBounded ==
  ASSUME NEW base \in Int, NEW multiplier \in 1..MAX_MULTIPLIER_BPS
  PROVE  scaled_credit(base, multiplier) \in 0..(2 * Positive(base))
  <1> DEFINE share == (base * multiplier) \div FULL_BPS
  <1>1. scaled_credit(base, multiplier) = Positive(share)
    BY DEF scaled_credit, MAX_MULTIPLIER_BPS
  <1>2. share \in Int /\ FULL_BPS * share <= base * multiplier
    <2>1. base * multiplier \in Int
      BY DEF MAX_MULTIPLIER_BPS
    <2>2. ASSUME NEW product \in Int
          PROVE  product \div FULL_BPS \in Int /\ FULL_BPS * (product \div FULL_BPS) <= product
      BY DEF FULL_BPS
    <2> QED
      BY <2>1, <2>2, Zenon
  <1> HIDE DEF share
  <1>3. CASE base >= 0
    <2>1. base * multiplier <= base * 20000
      BY <1>3 DEF MAX_MULTIPLIER_BPS
    <2>2. base * multiplier \in Int
      BY DEF MAX_MULTIPLIER_BPS
    <2>3. share <= 2 * base
      BY <1>2, <2>1, <2>2 DEF FULL_BPS
    <2> QED
      BY <1>1, <1>2, <1>3, <2>3 DEF Positive
  <1>4. CASE base < 0
    <2>1. base * multiplier <= 0
      BY <1>4 DEF MAX_MULTIPLIER_BPS
    <2>2. base * multiplier \in Int
      BY DEF MAX_MULTIPLIER_BPS
    <2>3. share <= 0
      BY <1>2, <2>1, <2>2 DEF FULL_BPS
    <2> QED
      BY <1>1, <1>2, <1>4, <2>3 DEF Positive
  <1> QED
    BY <1>3, <1>4

\* What is left of an active cap bounds the bonus awarded from it.
LEMMA BonusFits ==
  ASSUME BudgetInv, cap.active, NEW downtime, NEW window, NEW base \in Int, NEW multiplier,
         Bonus(downtime, window, base, multiplier) # Denied
  PROVE  /\ Bonus(downtime, window, base, multiplier) \in 0..(2 * Positive(base))
         /\ CheckRewardCap(Bonus(downtime, window, base, multiplier))
  <1> DEFINE left == get_remaining_reward_budget
             credit == scaled_credit(base, multiplier)
  <1>1. /\ configured_reward_cap # Uncapped
        /\ left = cap.max_total_rewards - cap.distributed
        /\ cap.max_total_rewards \in Int /\ cap.distributed \in Nat
    BY DEF BudgetInv, RewardCap, configured_reward_cap, Uncapped, get_remaining_reward_budget
  <1>2. /\ multiplier \in 1..MAX_MULTIPLIER_BPS /\ left > 0
        /\ Bonus(downtime, window, base, multiplier) = cap_to_budget(credit, left)
    BY DEF Bonus, evaluate_bonus
  <1>3. credit \in 0..(2 * Positive(base)) /\ Positive(base) \in Nat
    BY <1>2, CreditIsBounded DEF Positive
  <1> HIDE DEF credit, left
  <1>4. cap_to_budget(credit, left) \in 0..(2 * Positive(base)) /\ cap_to_budget(credit, left) <= left
    <2>1. left \in Int
      BY <1>1
    <2>2. \A c, l \in Int : c >= 0 /\ l > 0 =>
            cap_to_budget(c, l) \in 0..c /\ cap_to_budget(c, l) <= l
      BY DEF cap_to_budget, Positive
    <2>3. cap_to_budget(credit, left) \in 0..credit /\ cap_to_budget(credit, left) <= left
      BY <1>2, <1>3, <2>1, <2>2
    <2> QED
      BY <1>3, <2>3
  <1> QED
    BY <1>1, <1>2, <1>4 DEF CheckRewardCap

LEMMA DistributionKeepsBudget ==
  ASSUME BudgetInv, NEW amount \in Int, Distribute(amount)
  PROVE  BudgetInv'
  <1>1. CASE amount > 0
    <2>1. /\ cap' = [cap EXCEPT !.distributed = cap.distributed + amount, !.stored = TRUE]
          /\ paidOut' = paidOut + amount /\ atDecree' = atDecree
      BY <1>1 DEF Distribute, RecordReward, Positive
    <2>2. /\ cap' \in RewardCap /\ cap'.distributed = cap.distributed + amount
          /\ cap'.active = cap.active /\ cap'.max_total_rewards = cap.max_total_rewards
      <3>1. /\ cap \in RewardCap /\ cap.max_total_rewards \in Int /\ cap.active \in BOOLEAN
            /\ cap.distributed + amount \in Nat
        BY <1>1 DEF BudgetInv, RewardCap
      <3>2. cap' = [cap EXCEPT !.max_total_rewards = cap.max_total_rewards,
                               !.distributed = cap.distributed + amount,
                               !.active = cap.active, !.stored = TRUE]
        BY <2>1, <3>1 DEF RewardCap
      <3> QED
        BY <3>1, <3>2, CapWritten
    <2>3. cap.active => cap.distributed + amount <= cap.max_total_rewards
      BY DEF Distribute, CheckRewardCap, configured_reward_cap, Uncapped, BudgetInv, RewardCap
    <2> QED
      BY <1>1, <2>1, <2>2, <2>3 DEF BudgetInv, RewardCap
  <1>2. CASE ~(amount > 0)
    BY <1>2 DEF Distribute, RecordReward, Positive, BudgetInv
  <1> QED
    BY <1>1, <1>2

LEMMA BudgetBegins == BudgetInit => BudgetInv
  <1> SUFFICES ASSUME BudgetInit PROVE BudgetInv
    OBVIOUS
  <1>1. NoCap \in RewardCap /\ NoCap.active = FALSE /\ NoCap.distributed = 0
    <2>1. Uncapped \in Int
      BY DEF Uncapped
    <2> QED
      BY <2>1 DEF NoCap, RewardCap
  <1>2. /\ init_reward_cap \in RewardCap /\ init_reward_cap.active = FALSE
        /\ init_reward_cap.distributed = 0
    BY <1>1 DEF init_reward_cap, RewardCap
  <1>3. cap \in RewardCap /\ cap.active = FALSE /\ cap.distributed = 0
    BY <1>1, <1>2, Zenon DEF BudgetInit
  <1> QED
    BY <1>3 DEF BudgetInit, BudgetInv

LEMMA BudgetKeepsInv ==
  ASSUME BudgetInv, [BudgetNext]_budgetVars
  PROVE  BudgetInv'
  <1>1. CASE ClearRewardCap
    <2>1. /\ cap' \in RewardCap /\ cap'.active = FALSE /\ cap'.distributed = cap.distributed
          /\ paidOut' = paidOut /\ atDecree' = atDecree
      <3>1. /\ cap \in RewardCap /\ cap.distributed \in Nat /\ Uncapped \in Int
            /\ FALSE \in BOOLEAN
        BY DEF BudgetInv, RewardCap, Uncapped
      <3>2. cap' = [cap EXCEPT !.max_total_rewards = Uncapped, !.distributed = cap.distributed,
                               !.active = FALSE, !.stored = TRUE]
        BY <1>1, <3>1 DEF ClearRewardCap, RewardCap
      <3> QED
        BY <1>1, <3>1, <3>2, CapWritten DEF ClearRewardCap
    <2> QED
      BY <2>1 DEF BudgetInv
  <1>2. ASSUME NEW max \in CapInputs, SetRewardCap(max)
        PROVE  BudgetInv'
    <2>1. /\ cap' \in RewardCap /\ cap'.max_total_rewards = max
          /\ cap'.distributed = cap.distributed /\ max > 0
          /\ paidOut' = paidOut /\ atDecree' = cap.distributed
      <3>1. /\ cap \in RewardCap /\ cap.distributed \in Nat /\ max \in Int /\ TRUE \in BOOLEAN
        BY BudgetAssumption DEF BudgetInv, RewardCap
      <3>2. cap' = [cap EXCEPT !.max_total_rewards = max, !.distributed = cap.distributed,
                               !.active = TRUE, !.stored = TRUE]
        BY <1>2, <3>1 DEF SetRewardCap, RewardCap
      <3> QED
        BY <1>2, <3>1, <3>2, CapWritten DEF SetRewardCap
    <2> QED
      BY <2>1 DEF BudgetInv
  <1>3. ASSUME NEW amount \in AmountInputs, Distribute(amount)
        PROVE  BudgetInv'
    BY <1>3, BudgetAssumption, DistributionKeepsBudget
  <1>4. ASSUME NEW downtime \in {0, 1}, NEW window \in {0, 1}, NEW base \in AmountInputs,
               NEW multiplier \in MultiplierInputs, AwardBonus(downtime, window, base, multiplier)
        PROVE  BudgetInv'
    <2>1. /\ cap.active /\ Bonus(downtime, window, base, multiplier) # Denied
          /\ Distribute(Bonus(downtime, window, base, multiplier)) /\ base \in Int
      BY <1>4, BudgetAssumption DEF AwardBonus
    <2>2. Bonus(downtime, window, base, multiplier) \in Int
      BY <2>1, BonusFits
    <2> QED
      BY <2>1, <2>2, DistributionKeepsBudget
  <1>5. CASE UNCHANGED budgetVars
    BY <1>5 DEF BudgetInv, budgetVars
  <1> QED
    BY <1>1, <1>2, <1>3, <1>4, <1>5 DEF BudgetNext

LEMMA BudgetInvSuffices == BudgetInv => BudgetIsKept
  <1> SUFFICES ASSUME BudgetInv PROVE BudgetIsKept
    OBVIOUS
  <1>1. BonusFitsBudget
    BY BonusFits, BudgetAssumption DEF BonusFitsBudget
  <1>2. cap.active /\ get_remaining_reward_budget <= 0 =>
          \A amount \in AmountInputs : amount > 0 => ~CheckRewardCap(amount)
    BY BudgetAssumption DEF BudgetInv, RewardCap, get_remaining_reward_budget, CheckRewardCap,
                            configured_reward_cap, Uncapped
  <1> QED
    BY <1>1, <1>2 DEF BudgetIsKept, BudgetInv

\* For every cap, amount and multiplier, the budget is kept over any sequence
\* of decrees, distributions and bonuses (reward_cap.rs,
\* zero_downtime_bonus.rs).
THEOREM RewardsStayInBudget == BudgetSpec => []BudgetIsKept
  BY BudgetBegins, BudgetKeepsInv, BudgetInvSuffices, PTL DEF BudgetSpec

-----------------------------------------------------------------------------
(* Locked collateral.                                                      *)

CollateralInv ==
    /\ records \in [Provider -> LockRecord \cup {NoLock}]
    /\ deposited \in [Provider -> Nat]
    /\ paid \in [Provider -> Nat]
    /\ returned \in [Provider -> Nat]
    /\ EveryLockConserved

LEMMA LockedIsLockRecord ==
  ASSUME CollateralInv, NEW provider \in Provider
  PROVE  /\ records[provider].amount \in Nat
         /\ IsLocked(provider) => records[provider] \in LockRecord
         /\ available_collateral(provider) \in Nat
  BY DEF CollateralInv, LockRecord, NoLock, IsLocked, lock_state, available_collateral

\* A call that writes one provider's record and accounts.
LEMMA OneProviderWritten ==
  ASSUME CollateralInv, NEW provider \in Provider, NEW record \in LockRecord,
         NEW d \in Nat, NEW p \in Nat, NEW r \in Nat,
         records' = [records EXCEPT ![provider] = record],
         deposited' = [deposited EXCEPT ![provider] = d],
         paid' = [paid EXCEPT ![provider] = p],
         returned' = [returned EXCEPT ![provider] = r],
         d = p + r + (IF record.state = "Locked" THEN record.amount ELSE 0)
  PROVE  CollateralInv'
  <1>1. /\ records' \in [Provider -> LockRecord \cup {NoLock}]
        /\ deposited' \in [Provider -> Nat]
        /\ paid' \in [Provider -> Nat]
        /\ returned' \in [Provider -> Nat]
    BY DEF CollateralInv
  <1>2. ASSUME NEW other \in Provider
        PROVE  lock_conserved(deposited[other], paid[other] + returned[other],
                              available_collateral(other))'
    <2>1. CASE other = provider
      <3>1. /\ records'[other] = record /\ deposited'[other] = d
            /\ paid'[other] = p /\ returned'[other] = r
        BY <2>1 DEF CollateralInv
      <3>2. record.amount \in Nat
        BY DEF LockRecord
      <3> QED
        BY <3>1, <3>2 DEF lock_conserved, available_collateral, IsLocked, lock_state
    <2>2. CASE other # provider
      <3>1. /\ records'[other] = records[other] /\ deposited'[other] = deposited[other]
            /\ paid'[other] = paid[other] /\ returned'[other] = returned[other]
        BY <2>2 DEF CollateralInv
      <3> QED
        BY <3>1 DEF CollateralInv, EveryLockConserved, lock_conserved, available_collateral,
                    IsLocked, lock_state
    <2> QED
      BY <2>1, <2>2
  <1> QED
    BY <1>1, <1>2 DEF CollateralInv, EveryLockConserved

LEMMA CollateralBegins == CollateralInit => CollateralInv
  BY DEF CollateralInit, CollateralInv, EveryLockConserved, lock_conserved, available_collateral,
         IsLocked, lock_state, NoLock

LEMMA CollateralKeepsInv ==
  ASSUME CollateralInv, [CollateralNext]_collateralVars
  PROVE  CollateralInv'
  <1>1. ASSUME NEW provider \in Provider, NEW amount \in LockInputs, NEW bps \in CoverageInputs,
               LockCollateral(provider, amount, bps)
        PROVE  CollateralInv'
    <2> DEFINE record == [amount |-> amount, coverage_bps |-> bps, state |-> "Locked"]
    <2>1. /\ amount \in Nat /\ ~IsLocked(provider)
          /\ deposited[provider] \in Nat /\ paid[provider] \in Nat /\ returned[provider] \in Nat
          /\ deposited[provider] = paid[provider] + returned[provider]
      BY <1>1, CollateralAssumption
         DEF LockCollateral, CollateralInv, EveryLockConserved, lock_conserved, available_collateral
    <2>2. record \in LockRecord /\ record.state = "Locked" /\ record.amount = amount
      BY <1>1, <2>1 DEF LockCollateral, LockRecord
    <2>3. /\ records' = [records EXCEPT ![provider] = record]
          /\ deposited' = [deposited EXCEPT ![provider] = deposited[provider] + amount]
          /\ paid' = [paid EXCEPT ![provider] = paid[provider]]
          /\ returned' = [returned EXCEPT ![provider] = returned[provider]]
      BY <1>1 DEF LockCollateral, CollateralInv
    <2> HIDE DEF record
    <2>4. /\ deposited[provider] + amount \in Nat
          /\ deposited[provider] + amount = paid[provider] + returned[provider]
               + (IF record.state = "Locked" THEN record.amount ELSE 0)
      BY <2>1, <2>2
    <2> QED
      BY <2>1, <2>2, <2>3, <2>4, OneProviderWritten
  <1>2. ASSUME NEW provider \in Provider, NEW penalty \in LockInputs,
               PayoutFromCollateral(provider, penalty)
        PROVE  CollateralInv'
    <2> DEFINE old == records[provider]
               state == IF penalty = old.amount THEN "Released" ELSE "Locked"
               record == [old EXCEPT !.amount = old.amount - penalty, !.state = state]
    <2>1. /\ penalty \in Nat /\ IsLocked(provider) /\ old \in LockRecord
          /\ old.amount \in Nat /\ penalty <= old.amount
          /\ deposited[provider] \in Nat /\ paid[provider] \in Nat /\ returned[provider] \in Nat
          /\ deposited[provider] = paid[provider] + returned[provider] + old.amount
      BY <1>2, LockedIsLockRecord, CollateralAssumption
         DEF PayoutFromCollateral, VerifyCoverage, CollateralInv, EveryLockConserved,
             lock_conserved, available_collateral
    <2>2. /\ records' = [records EXCEPT ![provider] = record]
          /\ deposited' = [deposited EXCEPT ![provider] = deposited[provider]]
          /\ paid' = [paid EXCEPT ![provider] = paid[provider] + penalty]
          /\ returned' = [returned EXCEPT ![provider] = returned[provider]]
      BY <1>2 DEF PayoutFromCollateral, CollateralInv
    <2> HIDE DEF old
    <2>3. state \in {"Locked", "Released"} /\ (state = "Locked" <=> penalty # old.amount)
      OBVIOUS
    <2> HIDE DEF state
    <2>4. record \in LockRecord /\ record.state = state /\ record.amount = old.amount - penalty
      <3>1. old.amount - penalty \in Nat
        BY <2>1
      <3> QED
        BY <2>1, <2>3, <3>1 DEF LockRecord
    <2> HIDE DEF record
    <2>5. deposited[provider] = (paid[provider] + penalty) + returned[provider]
            + (IF record.state = "Locked" THEN record.amount ELSE 0)
      BY <2>1, <2>3, <2>4
    <2>6. paid[provider] + penalty \in Nat
      BY <2>1
    <2> QED
      BY <2>1, <2>2, <2>4, <2>5, <2>6, OneProviderWritten
  <1>3. ASSUME NEW provider \in Provider, ReleaseCollateral(provider)
        PROVE  CollateralInv'
    <2> DEFINE old == records[provider]
               record == [old EXCEPT !.state = "Released"]
    <2>1. /\ IsLocked(provider) /\ old \in LockRecord /\ old.amount \in Nat
          /\ deposited[provider] \in Nat /\ paid[provider] \in Nat /\ returned[provider] \in Nat
          /\ deposited[provider] = paid[provider] + returned[provider] + old.amount
      BY <1>3, LockedIsLockRecord
         DEF ReleaseCollateral, CollateralInv, EveryLockConserved, lock_conserved,
             available_collateral
    <2>2. /\ records' = [records EXCEPT ![provider] = record]
          /\ deposited' = [deposited EXCEPT ![provider] = deposited[provider]]
          /\ paid' = [paid EXCEPT ![provider] = paid[provider]]
          /\ returned' = [returned EXCEPT ![provider] = returned[provider] + old.amount]
      BY <1>3 DEF ReleaseCollateral, CollateralInv
    <2> HIDE DEF old
    <2>3. record \in LockRecord /\ record.state = "Released"
      BY <2>1 DEF LockRecord
    <2> HIDE DEF record
    <2>4. /\ returned[provider] + old.amount \in Nat
          /\ deposited[provider] = paid[provider] + (returned[provider] + old.amount)
               + (IF record.state = "Locked" THEN record.amount ELSE 0)
      BY <2>1, <2>3
    <2> QED
      BY <2>1, <2>2, <2>3, <2>4, OneProviderWritten
  <1>4. ASSUME UNCHANGED <<records, deposited, paid, returned>>
        PROVE  CollateralInv'
    BY <1>4 DEF CollateralInv, EveryLockConserved, lock_conserved, available_collateral,
                IsLocked, lock_state
  <1> QED
    BY <1>1, <1>2, <1>3, <1>4
       DEF CollateralNext, RescueSurplusCollateral, StrayTransfer, StrayForeign, RescueTokens,
           collateralVars

\* For every set of providers, amounts and coverage limit, and over any number
\* of locks, payouts and releases, nothing locked is lost or paid twice
\* (collateral_lock.rs).
THEOREM LocksAreConserved == CollateralSpec => []EveryLockConserved
  <1>1. CollateralInv => EveryLockConserved
    BY DEF CollateralInv
  <1> QED
    BY <1>1, CollateralBegins, CollateralKeepsInv, PTL DEF CollateralSpec

-----------------------------------------------------------------------------
(* The access lists.                                                       *)

ListOK(list) ==
    /\ list.flags \in [Account -> BOOLEAN]
    /\ list.count = Cardinality(Members(list.flags))

ListInv ==
    /\ whitelist \in WhitelistState /\ ListOK(whitelist)
    /\ operators \in OperatorState /\ ListOK(operators)

\* The members are finitely many, and counted by a natural number.
LEMMA MembersAreFinite ==
  ASSUME NEW flags
  PROVE  IsFiniteSet(Members(flags)) /\ Cardinality(Members(flags)) \in Nat
  <1>1. Members(flags) \subseteq Account
    BY DEF Members
  <1> QED
    BY <1>1, AccountAssumption, FS_Subset, FS_CardinalityType

\* Nobody is a member of an empty list, one account of a list of one.
LEMMA FreshLists ==
  /\ Unlisted \in [Account -> BOOLEAN] /\ Cardinality(Members(Unlisted)) = 0
  /\ \A account \in Account :
       /\ [Unlisted EXCEPT ![account] = TRUE] \in [Account -> BOOLEAN]
       /\ Cardinality(Members([Unlisted EXCEPT ![account] = TRUE])) = 1
  <1>1. Unlisted \in [Account -> BOOLEAN] /\ Members(Unlisted) = {}
    BY DEF Unlisted, Members
  <1>2. Cardinality(Members(Unlisted)) = 0
    BY <1>1, FS_EmptySet
  <1>3. ASSUME NEW account \in Account
        PROVE  /\ [Unlisted EXCEPT ![account] = TRUE] \in [Account -> BOOLEAN]
               /\ Cardinality(Members([Unlisted EXCEPT ![account] = TRUE])) = 1
    <2>1. /\ [Unlisted EXCEPT ![account] = TRUE] \in [Account -> BOOLEAN]
          /\ Members([Unlisted EXCEPT ![account] = TRUE]) = {account}
      BY DEF Unlisted, Members
    <2> QED
      BY <2>1, FS_Singleton
  <1> QED
    BY <1>1, <1>2, <1>3

\* Listing and delisting move the counter with the list.
LEMMA ListedIsCounted ==
  ASSUME NEW list, ListOK(list), NEW account \in Account, ~list.flags[account],
         NEW after, after.flags = [list.flags EXCEPT ![account] = TRUE],
         after.count = list.count + 1
  PROVE  ListOK(after)
  <1>1. /\ after.flags \in [Account -> BOOLEAN]
        /\ Members(after.flags) = Members(list.flags) \cup {account}
        /\ account \notin Members(list.flags)
    BY DEF ListOK, Members
  <1>2. Cardinality(Members(after.flags)) = Cardinality(Members(list.flags)) + 1
    BY <1>1, MembersAreFinite, FS_AddElement
  <1> QED
    BY <1>1, <1>2 DEF ListOK

LEMMA DelistedIsCounted ==
  ASSUME NEW list, ListOK(list), NEW account \in Account, list.flags[account],
         NEW after, after.flags = [list.flags EXCEPT ![account] = FALSE],
         after.count = IF list.count > 0 THEN list.count - 1 ELSE 0
  PROVE  ListOK(after)
  <1>1. /\ after.flags \in [Account -> BOOLEAN]
        /\ Members(after.flags) = Members(list.flags) \ {account}
        /\ account \in Members(list.flags)
    BY DEF ListOK, Members
  <1>2. /\ Cardinality(Members(after.flags)) = Cardinality(Members(list.flags)) - 1
        /\ Cardinality(Members(list.flags)) \in Nat /\ Cardinality(Members(list.flags)) # 0
    <2>1. IsFiniteSet(Members(list.flags)) /\ Cardinality(Members(list.flags)) \in Nat
      BY MembersAreFinite
    <2>2. Cardinality(Members(list.flags)) # 0
      BY <1>1, <2>1, FS_EmptySet
    <2>3. Cardinality(Members(after.flags)) = Cardinality(Members(list.flags)) - 1
      <3>1. Cardinality(Members(list.flags) \ {account}) = Cardinality(Members(list.flags)) - 1
        BY <1>1, <2>1, FS_RemoveElement, Zenon
      <3> QED
        BY <1>1, <3>1, Zenon
    <2> QED
      BY <2>1, <2>2, <2>3
  <1> QED
    BY <1>1, <1>2 DEF ListOK

\* Calling for one account keeps a whitelist, or a list of operators, counted.
LEMMA WhitelistCallsCount ==
  ASSUME NEW list \in WhitelistState, ListOK(list), NEW account \in Account
  PROVE  /\ Listed(list, account) \in WhitelistState /\ ListOK(Listed(list, account))
         /\ Delisted(list, account) \in WhitelistState /\ ListOK(Delisted(list, account))
  <1>1. list.count \in Nat /\ list.flags \in [Account -> BOOLEAN]
    BY DEF WhitelistState
  <1>2. CASE list.flags[account]
    <2> DEFINE less == IF list.count > 0 THEN list.count - 1 ELSE 0
               after == [list EXCEPT !.flags[account] = FALSE, !.count = less]
    <2>1. Listed(list, account) = list /\ Delisted(list, account) = after
      BY <1>2 DEF Listed, Delisted
    <2>2. less \in Nat
      BY <1>1
    <2> HIDE DEF less
    <2>3. /\ after \in WhitelistState /\ after.count = less
          /\ after.flags = [list.flags EXCEPT ![account] = FALSE]
      BY <1>1, <2>2 DEF WhitelistState
    <2> HIDE DEF after
    <2>4. ListOK(after)
      BY <1>2, <2>3, DelistedIsCounted DEF less
    <2> QED
      BY <2>1, <2>3, <2>4
  <1>3. CASE ~list.flags[account]
    <2> DEFINE after == [list EXCEPT !.flags[account] = TRUE, !.count = list.count + 1]
    <2>1. Listed(list, account) = after /\ Delisted(list, account) = list
      BY <1>3 DEF Listed, Delisted
    <2>2. list.count + 1 \in Nat
      BY <1>1
    <2>3. /\ after \in WhitelistState /\ after.count = list.count + 1
          /\ after.flags = [list.flags EXCEPT ![account] = TRUE]
      BY <1>1, <2>2 DEF WhitelistState
    <2> HIDE DEF after
    <2>4. ListOK(after)
      BY <1>3, <2>3, ListedIsCounted
    <2> QED
      BY <2>1, <2>3, <2>4
  <1> QED
    BY <1>2, <1>3

LEMMA OperatorCallsCount ==
  ASSUME NEW list \in OperatorState, ListOK(list), NEW account \in Account
  PROVE  /\ Listed(list, account) \in OperatorState /\ ListOK(Listed(list, account))
         /\ Delisted(list, account) \in OperatorState /\ ListOK(Delisted(list, account))
  <1>1. list.count \in Nat /\ list.flags \in [Account -> BOOLEAN]
    BY DEF OperatorState
  <1>2. CASE list.flags[account]
    <2> DEFINE less == IF list.count > 0 THEN list.count - 1 ELSE 0
               after == [list EXCEPT !.flags[account] = FALSE, !.count = less]
    <2>1. Listed(list, account) = list /\ Delisted(list, account) = after
      BY <1>2 DEF Listed, Delisted
    <2>2. less \in Nat
      BY <1>1
    <2> HIDE DEF less
    <2>3. /\ after \in OperatorState /\ after.count = less
          /\ after.flags = [list.flags EXCEPT ![account] = FALSE]
      BY <1>1, <2>2 DEF OperatorState
    <2> HIDE DEF after
    <2>4. ListOK(after)
      BY <1>2, <2>3, DelistedIsCounted DEF less
    <2> QED
      BY <2>1, <2>3, <2>4
  <1>3. CASE ~list.flags[account]
    <2> DEFINE after == [list EXCEPT !.flags[account] = TRUE, !.count = list.count + 1]
    <2>1. Listed(list, account) = after /\ Delisted(list, account) = list
      BY <1>3 DEF Listed, Delisted
    <2>2. list.count + 1 \in Nat
      BY <1>1
    <2>3. /\ after \in OperatorState /\ after.count = list.count + 1
          /\ after.flags = [list.flags EXCEPT ![account] = TRUE]
      BY <1>1, <2>2 DEF OperatorState
    <2> HIDE DEF after
    <2>4. ListOK(after)
      BY <1>3, <2>3, ListedIsCounted
    <2> QED
      BY <2>1, <2>3, <2>4
  <1> QED
    BY <1>2, <1>3

LEMMA AccessBegins == AccessInit => ListInv
  BY FreshLists DEF AccessInit, ListInv, ListOK, init_whitelist, WhitelistState, OperatorState

LEMMA AccessKeepsInv ==
  ASSUME ListInv, [ListNext \/ ServiceNext]_<<now, accessVars>>
  PROVE  ListInv'
  <1>1. ASSUME NEW account \in Account, ListCall(account)
        PROVE  ListInv'
    <2>1. CASE \/ AddToWhitelist(account) \/ RemoveFromWhitelist(account)
      <3>1. /\ operators' = operators
            /\ whitelist' \in {Listed(whitelist, account), Delisted(whitelist, account)}
        BY <2>1 DEF AddToWhitelist, RemoveFromWhitelist
      <3>2. whitelist' \in WhitelistState /\ ListOK(whitelist')
        BY <3>1, WhitelistCallsCount DEF ListInv
      <3> QED
        BY <3>1, <3>2 DEF ListInv, ListOK
    <2>2. CASE InitOperators(account)
      BY <2>2, FreshLists DEF InitOperators, ListInv, ListOK, OperatorState
    <2>3. CASE AddOperator(account) \/ RemoveOperator(account)
      <3>1. /\ whitelist' = whitelist
            /\ operators' \in {Listed(operators, account), Delisted(operators, account)}
        BY <2>3 DEF AddOperator, RemoveOperator
      <3>2. operators' \in OperatorState /\ ListOK(operators')
        BY <3>1, OperatorCallsCount DEF ListInv
      <3> QED
        BY <3>1, <3>2 DEF ListInv, ListOK
    <2> QED
      BY <1>1, <2>1, <2>2, <2>3 DEF ListCall
  <1>2. CASE EnableWhitelist \/ DisableWhitelist
    BY <1>2 DEF EnableWhitelist, DisableWhitelist, ListInv, ListOK, WhitelistState
  <1>3. CASE ClearWhitelist
    BY <1>3, FreshLists DEF ClearWhitelist, init_whitelist, ListInv, ListOK, WhitelistState
  <1>4. CASE UNCHANGED listVars
    BY <1>4 DEF listVars, ListInv, ListOK
  <1>5. ServiceNext => UNCHANGED listVars
    BY DEF ServiceNext, ServiceCall, AssignRole, RevokeRole, RegisterService,
           SetGracePeriodDuration, accessVars
  <1> QED
    BY <1>1, <1>2, <1>3, <1>4, <1>5 DEF ListNext, accessVars

LEMMA ListInvHolds == AccessSpec => []ListInv
  BY AccessBegins, AccessKeepsInv, PTL DEF AccessSpec

LEMMA CountersFollow == ListInv => CountsMatchLists
  <1>1. list_operators = Members(operators.flags)
    BY DEF list_operators, is_operator, Members
  <1> QED
    BY <1>1 DEF ListInv, ListOK, CountsMatchLists, get_whitelist_status, list_whitelisted,
                operator_count

LEMMA StepsFollowList ==
  ListInv /\ [ListNext \/ ServiceNext]_<<now, accessVars>> => AdmissionFollowsList
  <1> SUFFICES ASSUME ListInv, [ListNext \/ ServiceNext]_<<now, accessVars>>,
                      NEW account \in Account,
                      check_whitelist(account), ~check_whitelist(account)', whitelist.enforced
               PROVE  list_whitelisted' = list_whitelisted \ {account}
    BY DEF AdmissionFollowsList
  <1>1. /\ whitelist \in WhitelistState /\ whitelist.flags[account]
        /\ whitelist'.enforced /\ ~whitelist'.flags[account]
    BY DEF check_whitelist, is_whitelisted, ListInv
  <1>2. ASSUME NEW other \in Account, AddToWhitelist(other)
        PROVE  FALSE
    BY <1>1, <1>2 DEF AddToWhitelist, Listed, WhitelistState
  <1>3. ASSUME NEW other \in Account, RemoveFromWhitelist(other)
        PROVE  list_whitelisted' = list_whitelisted \ {account}
    <2>1. CASE ~whitelist.flags[other]
      BY <1>1, <1>3, <2>1 DEF RemoveFromWhitelist, Delisted
    <2>2. CASE whitelist.flags[other]
      <3>1. whitelist'.flags = [whitelist.flags EXCEPT ![other] = FALSE]
        BY <1>1, <1>3, <2>2 DEF RemoveFromWhitelist, Delisted, WhitelistState
      <3>2. other = account
        BY <1>1, <3>1 DEF WhitelistState
      <3> QED
        BY <1>1, <3>1, <3>2 DEF list_whitelisted, Members, WhitelistState
    <2> QED
      BY <2>1, <2>2
  <1>4. ~ClearWhitelist
    BY <1>1 DEF ClearWhitelist, init_whitelist
  <1>5. ~EnableWhitelist /\ ~DisableWhitelist
    BY <1>1 DEF EnableWhitelist, DisableWhitelist, WhitelistState
  <1>6. whitelist' # whitelist
    BY <1>1
  <1>7. ServiceNext => whitelist' = whitelist
    BY DEF ServiceNext, ServiceCall, AssignRole, RevokeRole, RegisterService,
           SetGracePeriodDuration, accessVars, listVars
  <1>8. ASSUME NEW other \in Account,
               InitOperators(other) \/ AddOperator(other) \/ RemoveOperator(other)
        PROVE  whitelist' = whitelist
    BY <1>8 DEF InitOperators, AddOperator, RemoveOperator
  <1> QED
    BY <1>2, <1>3, <1>4, <1>5, <1>6, <1>7, <1>8 DEF ListNext, ListCall, accessVars, listVars

\* For every finite set of accounts, the counters stay the numbers of accounts
\* listed, and nobody loses admission but by name (whitelist.rs,
\* multi_operator.rs).
THEOREM ListsAreAccounted ==
  AccessSpec => []CountsMatchLists /\ [][AdmissionFollowsList]_<<now, accessVars>>
  BY CountersFollow, StepsFollowList, ListInvHolds, PTL DEF AccessSpec
=============================================================================
