--------------------------- MODULE SLALedgerProofs ---------------------------
(***************************************************************************)
(* Proofs about SLALedger, for every set of outages and accounts, every     *)
(* retention range and every set of inputs: the types, that the history     *)
(* holds an outage once and in the order of time, what may leave it, that   *)
(* the ledger implements the settlement book, that the statistics add up,   *)
(* and that the views agree.                                                *)
(***************************************************************************)
EXTENDS LedgerViews, Sums, SequenceTheorems, WellFoundedInduction, TLAPS

-----------------------------------------------------------------------------
(* Positions and results.                                                  *)

\* Every position of the history is a position of the settlements.
LEMMA PositionsAreFinite ==
  ASSUME TypeOK
  PROVE  /\ retained \subseteq Nat
         /\ IsFiniteSet(retained)
         /\ Cardinality(retained) \in Nat
  <1>1. Len(settled) \in Nat
    BY DEF TypeOK
  <1>2. IsFiniteSet(1..Len(settled))
    BY <1>1, FS_Interval
  <1>3. retained \subseteq 1..Len(settled)
    BY DEF TypeOK
  <1>4. IsFiniteSet(retained)
    BY <1>2, <1>3, FS_Subset
  <1> QED
    BY <1>1, <1>3, <1>4, FS_CardinalityType

\* Every settlement is a result.
LEMMA EntryType ==
  ASSUME TypeOK, NEW i \in 1..Len(settled)
  PROVE  /\ settled[i] \in Result
         /\ settled[i].outage_id \in Outage
         /\ settled[i].recorded_at \in Nat
         /\ settled[i].amount \in Int
  <1>1. settled \in Seq(Result)
    BY DEF TypeOK
  <1> HIDE DEF Result
  <1>2. settled[i] \in Result
    BY <1>1
  <1> QED
    BY <1>2 DEF Result

\* The configuration of a configured severity is complete.
LEMMA ConfiguredHasConfig ==
  ASSUME TypeOK, NEW s \in Configured(configs)
  PROVE  configs[s] \in SLAConfig
  BY DEF TypeOK, Configured, ConfigMap

\* A capped duration is still a duration.
LEMMA EffectiveMttrType ==
  ASSUME TypeOK, NEW mttr \in Nat
  PROVE  EffectiveMttr(mttr, maxDuration) \in Nat
  BY DEF TypeOK, EffectiveMttr

\* The outcome of an outage has its types, under any stored configuration.
LEMMA OutcomeType ==
  ASSUME NEW mttr \in Nat, NEW c \in SLAConfig
  PROVE  ComputeResult(mttr, c) \in
           [status : {"met", "viol"}, amount : Int, rating : {"top", "excel", "good", "poor"}]
  <1>1. Penalty(mttr, c) \in Int
    BY DEF Penalty, Overtime, SLAConfig
  <1>2. c.top \in Int /\ c.excel \in Int /\ c.good \in Int /\ c.reward_base \in Int
    BY DEF SLAConfig
  <1>3. MetRating(mttr, c) \in {"top", "excel", "good"}
    BY DEF MetRating
  <1>4. c[MetRating(mttr, c)] \in Int
    BY <1>2, <1>3 DEF SLAConfig
  <1>5. Reward(mttr, c) \in Int
    BY <1>2, <1>4 DEF Reward
  <1> QED
    BY <1>1, <1>3, <1>5 DEF ComputeResult, Violated, Met, Outcome

\* So has the entry made of it.
LEMMA ResultType ==
  ASSUME TypeOK, NEW outage \in Outage, NEW mttr \in Nat, NEW c \in SLAConfig
  PROVE  /\ ResultOf(outage, mttr, c) \in Result
         /\ ResultOf(outage, mttr, c).outage_id = outage
         /\ ResultOf(outage, mttr, c).recorded_at = now
         /\ ResultOf(outage, mttr, c).mttr_minutes = mttr
         /\ ResultOf(outage, mttr, c).threshold_minutes = c.threshold_minutes
         /\ ResultOf(outage, mttr, c).status = ComputeResult(mttr, c).status
         /\ ResultOf(outage, mttr, c).rating = ComputeResult(mttr, c).rating
  <1>1. now \in Nat
    BY DEF TypeOK
  <1>2. c.threshold_minutes \in Nat
    BY DEF SLAConfig
  <1> DEFINE outcome == ComputeResult(mttr, c)
  <1>3. /\ outcome.status \in {"met", "viol"}
        /\ outcome.amount \in Int
        /\ outcome.rating \in {"top", "excel", "good", "poor"}
    BY OutcomeType
  <1> HIDE DEF outcome
  <1>4. ResultOf(outage, mttr, c) =
          [outage_id |-> outage, status |-> outcome.status, mttr_minutes |-> mttr,
           threshold_minutes |-> c.threshold_minutes, amount |-> outcome.amount,
           rating |-> outcome.rating, recorded_at |-> now]
    BY DEF ResultOf, outcome
  <1>5. ResultOf(outage, mttr, c) \in Result
    BY <1>1, <1>2, <1>3, <1>4 DEF Result
  <1> QED
    BY <1>4, <1>5 DEF outcome

-----------------------------------------------------------------------------
(* What the cuts of the history remove.                                    *)

\* Nothing that is removed comes after anything that stays.
CutsOldest(before, after) == \A gone \in before \ after, kept \in after : gone < kept

\* A non-empty set of numbers has a least one.
LEMMA LeastExists ==
  ASSUME NEW S \in SUBSET Nat, S # {}
  PROVE  \E m \in S : \A n \in S : m <= n
  <1> DEFINE less == OpToRel(<, Nat)
  <1> HIDE DEF less
  <1>1. PICK m \in S : \A n \in S : ~(<<n, m>> \in less)
    <2>1. IsWellFoundedOn(less, Nat)
      BY NatLessThanWellFounded DEF less
    <2> QED
      BY <2>1, WFMin
  <1>2. ASSUME NEW n \in S PROVE m <= n
    <2>1. ~(<<n, m>> \in less)
      BY <1>1
    <2>2. ~(n < m)
      BY <2>1 DEF less, OpToRel
    <2> QED
      BY <2>2
  <1> QED
    BY <1>2

\* prune_history and prune_history_queue keep a final part of the history,
\* not longer than asked for.
LEMMA LatestIsCut ==
  ASSUME NEW S \in SUBSET Nat, IsFiniteSet(S), NEW k \in Nat
  PROVE  /\ Latest(S, k) \subseteq S
         /\ CutsOldest(S, Latest(S, k))
  <1> DEFINE from(i) == {j \in S : j >= i}
  <1>1. Latest(S, k) \subseteq S
    BY DEF Latest
  <1>2. ASSUME NEW gone \in S \ Latest(S, k), NEW kept \in Latest(S, k)
        PROVE  gone < kept
    <2> SUFFICES ASSUME ~(gone < kept) PROVE FALSE
      OBVIOUS
    <2>1. from(gone) \subseteq from(kept)
      <3>1. gone \in Nat /\ kept \in Nat /\ S \subseteq Nat
        BY <1>1
      <3>2. ASSUME NEW j \in S, j >= gone PROVE j >= kept
        <4>1. j \in Nat /\ gone >= kept
          BY <3>1
        <4> QED
          BY <3>1, <3>2, <4>1
      <3> QED
        BY <3>2
    <2>2. IsFiniteSet(from(kept))
      BY FS_Subset
    <2>3. /\ Cardinality(from(gone)) <= Cardinality(from(kept))
          /\ Cardinality(from(gone)) \in Nat
          /\ Cardinality(from(kept)) \in Nat
      BY <2>1, <2>2, FS_Subset, FS_CardinalityType
    <2>4. Cardinality(from(kept)) <= k
      BY DEF Latest
    <2>5. ~(Cardinality(from(gone)) <= k)
      BY DEF Latest
    <2> QED
      BY <2>3, <2>4, <2>5
  <1> QED
    BY <1>1, <1>2 DEF CutsOldest

\* A push followed by at most one eviction: the new entry is in, whatever is
\* out is older than what stays, and the history is within the limit or no
\* longer than it was.
RetainCuts(position, after) ==
    /\ after \subseteq retained \cup {position}
    /\ position \in after
    /\ CutsOldest(retained \cup {position}, after)
    /\ \/ Cardinality(after) <= retentionLimit
       \/ Cardinality(after) <= Cardinality(retained)

LEMMA RetainIsCut ==
  ASSUME TypeOK, RetentionAssumption
  PROVE  RetainCuts(Len(settled) + 1, Retain(Len(settled) + 1))
  <1> DEFINE position == Len(settled) + 1
             kept == retained \cup {position}
             trimmed == {i \in kept : \E j \in kept : j < i}
  <1>1. /\ retained \subseteq 1..Len(settled)
        /\ Len(settled) \in Nat
        /\ retentionLimit \in Nat \ {0}
    BY DEF TypeOK, RetentionAssumption
  <1>2. /\ IsFiniteSet(retained) /\ Cardinality(retained) \in Nat
        /\ IsFiniteSet(kept) /\ Cardinality(kept) = Cardinality(retained) + 1
    <2>1. position \notin retained
      BY <1>1
    <2> QED
      BY <2>1, PositionsAreFinite, FS_AddElement
  <1>3. kept \subseteq Nat /\ position \in kept
    <2>1. \A i \in retained : i \in Nat
      BY PositionsAreFinite
    <2>2. position \in Nat
      BY <1>1
    <2> HIDE DEF position
    <2> QED
      BY <2>1, <2>2
  <1>4. CASE ~(Cardinality(kept) > retentionLimit)
    <2>1. Retain(position) = kept
      BY <1>4 DEF Retain
    <2>2. Cardinality(kept) <= retentionLimit
      BY <1>1, <1>2, <1>4
    <2>3. CutsOldest(kept, kept)
      BY DEF CutsOldest
    <2> QED
      BY <1>3, <2>1, <2>2, <2>3 DEF RetainCuts
  <1>5. CASE Cardinality(kept) > retentionLimit
    <2>1. Retain(position) = trimmed
      BY <1>5 DEF Retain
    <2>2. position \in trimmed
      <3>1. retained # {}
        BY <1>1, <1>2, <1>5, FS_EmptySet
      <3>2. PICK j \in retained : TRUE
        BY <3>1
      <3>3. j < position /\ j \in kept
        BY <1>1
      <3> QED
        BY <1>3, <3>3
    <2>3. CutsOldest(kept, trimmed)
      <3> SUFFICES ASSUME NEW gone \in kept \ trimmed, NEW stays \in trimmed PROVE gone < stays
        BY DEF CutsOldest
      <3>1. PICK j \in kept : j < stays
        OBVIOUS
      <3>2. gone \in Nat /\ j \in Nat /\ stays \in Nat
        BY <1>3
      <3>3. ~(j < gone)
        OBVIOUS
      <3> QED
        BY <3>1, <3>2, <3>3
    <2>4. Cardinality(trimmed) <= Cardinality(retained)
      <3>1. PICK m \in kept : \A n \in kept : m <= n
        <4> HIDE DEF kept
        <4> QED
          BY <1>3, LeastExists
      <3>2. trimmed \subseteq kept \ {m}
        BY <1>3, <3>1
      <3>3. IsFiniteSet(kept \ {m}) /\ Cardinality(kept \ {m}) = Cardinality(kept) - 1
        BY <1>2, FS_RemoveElement
      <3>4. Cardinality(trimmed) <= Cardinality(kept \ {m})
        BY <3>2, <3>3, FS_Subset
      <3> QED
        BY <1>2, <3>3, <3>4
    <2> QED
      BY <2>1, <2>2, <2>3, <2>4 DEF RetainCuts
  <1> QED
    BY <1>4, <1>5

-----------------------------------------------------------------------------
(* What a step does to the history.                                        *)

\* Results are announced in the order of time, none later than now.
Chronological ==
    /\ \A i \in 1..Len(settled) : settled[i].recorded_at <= now
    /\ \A i, j \in 1..Len(settled) :
         i <= j => settled[i].recorded_at <= settled[j].recorded_at

LInv == TypeOK /\ Chronological /\ OneEntryPerOutage

\* A new deployment starts with an empty history.
ClearsHistory ==
    /\ settled' = << >> /\ retained' = {}
    /\ stats' = NoStats

\* A call that settles nothing may remove the oldest entries.
CutsHistory ==
    /\ settled' = settled
    /\ retained' \subseteq retained
    /\ CutsOldest(retained, retained')
    /\ stats' = stats

\* The verdict on an entry is the formula's, for some configuration of the entry's
\* threshold.
Computed(result) ==
    \E c \in SLAConfig :
        /\ c.threshold_minutes = result.threshold_minutes
        /\ ComputeResult(result.mttr_minutes, c).status = result.status
        /\ ComputeResult(result.mttr_minutes, c).rating = result.rating

\* A calculation settles an outage that is not in the history.
ExtendsHistory(outage, result) ==
    /\ ~Recorded(outage)
    /\ result.outage_id = outage
    /\ result.recorded_at = now
    /\ Computed(result)
    /\ settled' = Append(settled, result)
    /\ retained' = Retain(Len(settled) + 1)
    /\ stats' = Counted(result)

HistoryStep ==
    \/ now' = now /\ ClearsHistory
    \/ now' \in Nat /\ now <= now' /\ CutsHistory
    \/ now' = now /\ \E outage \in Outage, result \in Result : ExtendsHistory(outage, result)

\* Every step of LedgerNext is one of these calls.
LEMMA CallCases ==
  ASSUME LedgerNext
  PROVE  \/ Environment
         \/ \E a, o \in Address : Initialize(a, o)
         \/ \E c \in Address : ResetConfigToDefaults(c) \/ PruneHistoryQueue(c)
         \/ \E c \in Address, input \in ConfigInputs : SetConfig(c, input.severity, input.config)
         \/ \E c \in Address, imported \in ImportInputs : ImportConfigMap(c, imported)
         \/ \E c \in Address, limit \in RetentionInputs : SetRetentionLimit(c, limit)
         \/ \E c \in Address, limit \in DurationInputs : SetMaxOutageDuration(c, limit)
         \/ \E c \in Address, n \in PruneInputs : PruneHistory(c, n)
         \/ \E c \in Address, n \in PruneInputs : PruneHistoryByAge(c, n)
         \/ \E c \in Address, outage \in Outage, report \in Reports :
              CalculateSla(c, outage, report.severity, report.mttr)
  BY Zenon DEF LedgerNext, ConfigCall, PruneCall

\* Pruning by age is pruning of the oldest, because entries are in the order
\* of time.
LEMMA AgeIsCut ==
  ASSUME TypeOK, Chronological, NEW cutoff \in Nat
  PROVE  CutsOldest(retained, {i \in retained : settled[i].recorded_at >= cutoff})
  <1> DEFINE young == {i \in retained : settled[i].recorded_at >= cutoff}
  <1> SUFFICES ASSUME NEW gone \in retained \ young, NEW kept \in young,
                      ~(gone < kept)
               PROVE  FALSE
    BY DEF CutsOldest
  <1>1. gone \in 1..Len(settled) /\ kept \in 1..Len(settled) /\ Len(settled) \in Nat
    BY DEF TypeOK
  <1>2. settled[gone].recorded_at \in Nat /\ settled[kept].recorded_at \in Nat
    BY <1>1, EntryType
  <1>3. kept <= gone
    BY <1>1
  <1>4. settled[kept].recorded_at <= settled[gone].recorded_at
    BY <1>1, <1>3 DEF Chronological
  <1>5. settled[kept].recorded_at >= cutoff /\ ~(settled[gone].recorded_at >= cutoff)
    OBVIOUS
  <1> QED
    BY <1>2, <1>4, <1>5

\* A step clears the history, cuts its oldest part or extends it by a result.
LEMMA EveryStepIsHistoryStep ==
  ASSUME LInv, [LedgerNext]_vars
  PROVE  HistoryStep
  <1> USE DEF LInv
  <1>1. now \in Nat
    BY DEF TypeOK
  <1>2. CutsOldest(retained, retained)
    BY DEF CutsOldest
  <1>3. ASSUME UNCHANGED historyVars, UNCHANGED stats, now' \in Nat, now <= now'
        PROVE  HistoryStep
    BY <1>2, <1>3 DEF HistoryStep, CutsHistory, historyVars
  <1>4. CASE UNCHANGED vars
    BY <1>1, <1>3, <1>4 DEF vars, seen, ledgerVars
  <1>5. CASE Environment
    BY <1>1, <1>3, <1>5 DEF Environment, Tick, Govern, ChangeAdmin, ChangeOperator,
                             SwitchPause, ChangeVersion, ledgerVars
  <1>6. ASSUME NEW a \in Address, NEW o \in Address, Initialize(a, o) PROVE HistoryStep
    BY <1>6 DEF Initialize, Install, HistoryStep, ClearsHistory
  <1>7. ASSUME NEW c \in Address, ResetConfigToDefaults(c) PROVE HistoryStep
    BY <1>1, <1>3, <1>7 DEF ResetConfigToDefaults, AdminCall, seen
  <1>8. ASSUME NEW c \in Address, NEW s, NEW config, SetConfig(c, s, config) PROVE HistoryStep
    BY <1>1, <1>3, <1>8 DEF SetConfig, AdminCall, seen
  <1>9. ASSUME NEW c \in Address, NEW imported, ImportConfigMap(c, imported) PROVE HistoryStep
    BY <1>1, <1>3, <1>9 DEF ImportConfigMap, AdminCall, seen
  <1>10. ASSUME NEW c \in Address, NEW limit, SetRetentionLimit(c, limit) PROVE HistoryStep
    BY <1>1, <1>3, <1>10 DEF SetRetentionLimit, AdminCall, seen
  <1>11. ASSUME NEW c \in Address, NEW limit, SetMaxOutageDuration(c, limit) PROVE HistoryStep
    BY <1>1, <1>3, <1>11 DEF SetMaxOutageDuration, AdminCall, seen
  <1>12. ASSUME retained' \subseteq retained, CutsOldest(retained, retained'),
                UNCHANGED <<settled, stats>>, UNCHANGED seen
         PROVE  HistoryStep
    BY <1>1, <1>12 DEF HistoryStep, CutsHistory, seen
  <1>13. ASSUME NEW k \in Nat, retained' = Latest(retained, k),
                UNCHANGED <<settled, stats>>, UNCHANGED seen
         PROVE  HistoryStep
    BY <1>12, <1>13, PositionsAreFinite, LatestIsCut
  <1>14. ASSUME NEW c \in Address, PruneHistoryQueue(c) PROVE HistoryStep
    <2>1. retentionLimit \in Nat
      BY RetentionAssumption DEF TypeOK
    <2> QED
      BY <1>13, <1>14, <2>1 DEF PruneHistoryQueue, AdminCall
  <1>15. ASSUME NEW c \in Address, NEW n \in PruneInputs, PruneHistory(c, n) PROVE HistoryStep
    BY <1>13, <1>15, LedgerInputAssumption DEF PruneHistory, AdminCall
  <1>16. ASSUME NEW c \in Address, NEW n \in PruneInputs, PruneHistoryByAge(c, n)
         PROVE  HistoryStep
    <2> DEFINE cutoff == IF now >= n THEN now - n ELSE 0
    <2>1. cutoff \in Nat
      BY <1>1, LedgerInputAssumption
    <2> HIDE DEF cutoff
    <2>2. retained' = {i \in retained : settled[i].recorded_at >= cutoff}
      BY <1>16 DEF PruneHistoryByAge, cutoff
    <2>3. retained' \subseteq retained /\ CutsOldest(retained, retained')
      BY <2>1, <2>2, AgeIsCut
    <2> QED
      BY <1>12, <1>16, <2>3 DEF PruneHistoryByAge, AdminCall
  <1>17. ASSUME NEW c \in Address, NEW outage \in Outage, NEW report \in Reports,
                CalculateSla(c, outage, report.severity, report.mttr)
         PROVE  HistoryStep
    <2> DEFINE effective == EffectiveMttr(report.mttr, maxDuration)
               result == ResultOf(outage, effective, configs[report.severity])
    <2>1. effective \in Nat
      BY LedgerInputAssumption, EffectiveMttrType
    <2>2. configs[report.severity] \in SLAConfig
      BY <1>17, ConfiguredHasConfig DEF CalculateSla
    <2> HIDE DEF effective
    <2>3. /\ result \in Result /\ result.outage_id = outage /\ result.recorded_at = now
          /\ result.mttr_minutes = effective
          /\ result.threshold_minutes = configs[report.severity].threshold_minutes
          /\ result.status = ComputeResult(effective, configs[report.severity]).status
          /\ result.rating = ComputeResult(effective, configs[report.severity]).rating
      BY <2>1, <2>2, ResultType
    <2>5. Computed(result)
      BY <2>2, <2>3 DEF Computed
    <2>4. /\ ~Recorded(outage)
          /\ settled' = Append(settled, result)
          /\ retained' = Retain(Len(settled) + 1)
          /\ stats' = Counted(result)
          /\ now' = now
      BY <1>17 DEF CalculateSla, OperatorCall, seen, effective
    <2> HIDE DEF result
    <2> QED
      BY <2>3, <2>4, <2>5 DEF HistoryStep, ExtendsHistory
  <1> QED
    BY <1>4, <1>5, <1>6, <1>7, <1>8, <1>9, <1>10, <1>11, <1>14, <1>15, <1>16, <1>17, CallCases

-----------------------------------------------------------------------------
(* The inductive invariant.                                                *)

\* The defaults are a complete configuration of each severity.
LEMMA DefaultsAreConfigs == DefaultConfigs \in ConfigMap /\ NoConfigs \in ConfigMap
  <1>1. \A t, p, r \in Nat : DefaultConfig(t, p, r) \in SLAConfig
    BY DEF DefaultConfig, SLAConfig
  <1> QED
    BY <1>1 DEF DefaultConfigs, NoConfigs, ConfigMap, Severity

\* Nothing is settled when the contract is deployed.
LEMMA InitEstablishesInv == LedgerInit => LInv
  <1> SUFFICES ASSUME LedgerInit PROVE LInv
    OBVIOUS
  <1>1. settled = << >> /\ retained = {} /\ Len(settled) = 0
    BY DEF LedgerInit
  <1>2. Chronological /\ OneEntryPerOutage
    BY <1>1 DEF Chronological, OneEntryPerOutage
  <1>3. configs \in ConfigMap
    BY DefaultsAreConfigs DEF LedgerInit
  <1>4. settled \in Seq(Result) /\ retained \subseteq 1..Len(settled)
    BY <1>1
  <1>5. /\ now \in 0..MaxTime
        /\ admin \in Address \cup {NoOne} /\ operator \in Address \cup {NoOne}
        /\ paused \in BOOLEAN /\ version \in 0..(STORAGE_VERSION + 1)
    <2>1. now = 0 /\ version = 0 /\ paused = FALSE
      BY DEF LedgerInit, Init
    <2>2. admin \in Address \cup {NoOne} /\ operator \in Address \cup {NoOne}
      BY DEF LedgerInit, Init
    <2>3. 0 \in 0..MaxTime /\ 0 \in 0..(STORAGE_VERSION + 1)
      BY LedgerInputAssumption DEF STORAGE_VERSION
    <2> QED
      BY <2>1, <2>2, <2>3
  <1>6. /\ stats \in [calculations : Nat, violations : Nat, rewards : Int, penalties : Int]
        /\ retentionLimit \in MinRetention..MaxRetention
        /\ maxDuration \in Nat \ {0} /\ configUpdates \in Nat
    BY LedgerInputAssumption, RetentionAssumption DEF LedgerInit, NoStats
  <1> QED
    BY <1>2, <1>3, <1>4, <1>5, <1>6 DEF LInv, TypeOK

\* The visible state of the governance keeps its types.
LEMMA SeenKeepsTypes ==
  ASSUME TypeOK, [LedgerNext]_vars
  PROVE  /\ now' \in 0..MaxTime
         /\ admin' \in Address \cup {NoOne} /\ operator' \in Address \cup {NoOne}
         /\ paused' \in BOOLEAN /\ version' \in 0..(STORAGE_VERSION + 1)
  <1> DEFINE types == /\ now' \in 0..MaxTime
                      /\ admin' \in Address \cup {NoOne} /\ operator' \in Address \cup {NoOne}
                      /\ paused' \in BOOLEAN /\ version' \in 0..(STORAGE_VERSION + 1)
  <1> USE DEF TypeOK, STORAGE_VERSION
  <1>1. CASE UNCHANGED seen
    BY <1>1 DEF seen
  <1>2. CASE Environment
    <2>1. ASSUME Tick PROVE types
      BY <2>1, LedgerInputAssumption DEF Tick
    <2>2. ASSUME Govern PROVE types
      BY <2>2 DEF Govern, ChangeAdmin, ChangeOperator, SwitchPause, ChangeVersion
    <2> QED
      BY <1>2, <2>1, <2>2 DEF Environment
  <1>3. ASSUME NEW a \in Address, NEW o \in Address, Initialize(a, o) PROVE types
    <2>1. now' = now /\ admin' = a /\ operator' = o /\ paused' = FALSE /\ version' = 1
      BY <1>3 DEF Initialize, Install
    <2>2. now \in 0..MaxTime /\ 1 \in 0..(STORAGE_VERSION + 1)
      OBVIOUS
    <2> QED
      BY <2>1, <2>2
  <1>4. CASE UNCHANGED vars
    BY <1>1, <1>4 DEF vars
  <1>5. ASSUME NEW c \in Address,
               \/ ConfigCall(c) \/ PruneCall(c)
               \/ \E outage \in Outage, report \in Reports :
                    CalculateSla(c, outage, report.severity, report.mttr)
        PROVE  UNCHANGED seen
    BY <1>5 DEF ConfigCall, PruneCall, ResetConfigToDefaults, SetConfig, ImportConfigMap,
                SetRetentionLimit, SetMaxOutageDuration, PruneHistoryQueue, PruneHistory,
                PruneHistoryByAge, CalculateSla, AdminCall, OperatorCall
  <1>6. LedgerNext \/ UNCHANGED vars
    OBVIOUS
  <1> HIDE DEF types, TypeOK
  <1>7. types
    BY <1>1, <1>2, <1>3, <1>4, <1>5, <1>6 DEF LedgerNext, types
  <1> QED
    BY <1>7 DEF types

\* So do the settings of the ledger.
LEMMA SettingsKeepTypes ==
  ASSUME TypeOK, [LedgerNext]_vars
  PROVE  /\ configs' \in ConfigMap
         /\ retentionLimit' \in MinRetention..MaxRetention
         /\ maxDuration' \in Nat \ {0}
         /\ configUpdates' \in Nat
  <1> DEFINE settings == /\ configs' \in ConfigMap
                         /\ retentionLimit' \in MinRetention..MaxRetention
                         /\ maxDuration' \in Nat \ {0}
                         /\ configUpdates' \in Nat
  <1>1. /\ configs \in ConfigMap /\ retentionLimit \in MinRetention..MaxRetention
        /\ maxDuration \in Nat \ {0} /\ configUpdates \in Nat
    BY DEF TypeOK
  <1>2. CASE UNCHANGED <<configVars, limitVars>>
    BY <1>1, <1>2 DEF configVars, limitVars
  <1>3. ASSUME configs' \in ConfigMap, UNCHANGED <<configUpdates, limitVars>> PROVE settings
    BY <1>1, <1>3 DEF limitVars
  <1>4. ASSUME NEW a \in Address, NEW o \in Address, Initialize(a, o) PROVE settings
    BY <1>3, <1>4, DefaultsAreConfigs DEF Initialize
  <1>5. ASSUME NEW c \in Address, ResetConfigToDefaults(c) PROVE settings
    BY <1>3, <1>5, DefaultsAreConfigs DEF ResetConfigToDefaults
  <1>6. ASSUME NEW c \in Address, NEW imported \in ImportInputs, ImportConfigMap(c, imported)
        PROVE  settings
    BY <1>3, <1>6, LedgerInputAssumption DEF ImportConfigMap
  <1>7. ASSUME NEW c \in Address, NEW input \in ConfigInputs,
               SetConfig(c, input.severity, input.config)
        PROVE  settings
    <2>1. input.config \in SLAConfig
      BY LedgerInputAssumption
    <2>2. configs' = [configs EXCEPT ![input.severity] = input.config]
      BY <1>7 DEF SetConfig
    <2>3. configs' \in ConfigMap
      BY <1>1, <2>1, <2>2 DEF ConfigMap
    <2> QED
      BY <1>1, <1>7, <2>3 DEF SetConfig, limitVars
  <1>8. ASSUME NEW c \in Address, NEW limit \in RetentionInputs, SetRetentionLimit(c, limit)
        PROVE  settings
    BY <1>1, <1>8 DEF SetRetentionLimit, configVars
  <1>9. ASSUME NEW c \in Address, NEW limit \in DurationInputs, SetMaxOutageDuration(c, limit)
        PROVE  settings
    BY <1>1, <1>9, LedgerInputAssumption DEF SetMaxOutageDuration, configVars
  <1>10. ASSUME NEW c \in Address,
                \/ PruneHistoryQueue(c)
                \/ \E n \in PruneInputs : PruneHistory(c, n) \/ PruneHistoryByAge(c, n)
                \/ \E outage \in Outage, report \in Reports :
                     CalculateSla(c, outage, report.severity, report.mttr)
         PROVE  UNCHANGED <<configVars, limitVars>>
    BY <1>10 DEF PruneHistoryQueue, PruneHistory, PruneHistoryByAge, CalculateSla
  <1>11. CASE Environment \/ UNCHANGED vars
    BY <1>2, <1>11 DEF Environment, vars, ledgerVars
  <1> QED
    BY <1>2, <1>4, <1>5, <1>6, <1>7, <1>8, <1>9, <1>10, <1>11, CallCases

\* The statistics count in numbers.
LEMMA CountedType ==
  ASSUME TypeOK, NEW result \in Result
  PROVE  Counted(result) \in [calculations : Nat, violations : Nat,
                              rewards : Int, penalties : Int]
  <1>1. stats \in [calculations : Nat, violations : Nat, rewards : Int, penalties : Int]
    BY DEF TypeOK
  <1>2. result.amount \in Int
    BY DEF Result
  <1>3. /\ stats.calculations + 1 \in Nat /\ stats.violations + 1 \in Nat
        /\ stats.rewards + result.amount \in Int /\ stats.penalties - result.amount \in Int
    BY <1>1, <1>2
  <1>4. CASE result.status = "viol"
    BY <1>1, <1>3, <1>4 DEF Counted
  <1>5. CASE result.status # "viol"
    BY <1>1, <1>3, <1>5 DEF Counted
  <1> QED
    BY <1>4, <1>5

\* A new result is the latest entry, and the earlier ones stay where they are.
LEMMA AppendedEntries ==
  ASSUME TypeOK, NEW result \in Result, settled' = Append(settled, result)
  PROVE  /\ settled' \in Seq(Result)
         /\ Len(settled') = Len(settled) + 1
         /\ Len(settled) \in Nat
         /\ settled'[Len(settled) + 1] = result
         /\ \A i \in 1..Len(settled) : settled'[i] = settled[i]
  <1>1. settled \in Seq(Result)
    BY DEF TypeOK
  <1> HIDE DEF Result
  <1> QED
    BY <1>1

\* A step that clears, cuts or extends the history keeps its types.
LEMMA HistoryKeepsTypes ==
  ASSUME LInv, HistoryStep
  PROVE  /\ settled' \in Seq(Result)
         /\ retained' \subseteq 1..Len(settled')
         /\ stats' \in [calculations : Nat, violations : Nat, rewards : Int, penalties : Int]
  <1>1. /\ TypeOK /\ settled \in Seq(Result) /\ retained \subseteq 1..Len(settled)
        /\ stats \in [calculations : Nat, violations : Nat, rewards : Int, penalties : Int]
    BY DEF LInv, TypeOK
  <1>2. CASE ClearsHistory
    BY <1>2 DEF ClearsHistory, NoStats
  <1>3. CASE CutsHistory
    BY <1>1, <1>3 DEF CutsHistory
  <1>4. ASSUME NEW outage \in Outage, NEW result \in Result, ExtendsHistory(outage, result)
        PROVE  /\ settled' \in Seq(Result)
               /\ retained' \subseteq 1..Len(settled')
               /\ stats' \in [calculations : Nat, violations : Nat,
                              rewards : Int, penalties : Int]
    <2>1. /\ settled' \in Seq(Result)
          /\ Len(settled') = Len(settled) + 1
          /\ Len(settled) \in Nat
      BY <1>1, <1>4, AppendedEntries DEF ExtendsHistory
    <2>2. retained' \subseteq retained \cup {Len(settled) + 1}
      BY <1>1, <1>4, RetainIsCut, RetentionAssumption DEF ExtendsHistory, RetainCuts
    <2>3. stats' \in [calculations : Nat, violations : Nat, rewards : Int, penalties : Int]
      BY <1>1, <1>4, CountedType DEF ExtendsHistory
    <2> HIDE DEF Result
    <2>4. retained' \subseteq 1..Len(settled')
      BY <1>1, <2>1, <2>2
    <2> QED
      BY <2>1, <2>3, <2>4
  <1> QED
    BY <1>2, <1>3, <1>4 DEF HistoryStep

\* Time does not go back, so a new result is not earlier than any other.
LEMMA HistoryKeepsOrder ==
  ASSUME LInv, HistoryStep
  PROVE  Chronological'
  <1>1. TypeOK /\ Chronological /\ now \in Nat
    BY DEF LInv, TypeOK
  <1>2. CASE ClearsHistory
    BY <1>2 DEF ClearsHistory, Chronological
  <1>3. CASE now' \in Nat /\ now <= now' /\ CutsHistory
    <2>1. \A i \in 1..Len(settled) : settled[i].recorded_at \in Nat
      BY <1>1, EntryType
    <2>2. \A i \in 1..Len(settled) : settled[i].recorded_at <= now'
      BY <1>1, <1>3, <2>1 DEF Chronological
    <2> QED
      BY <1>1, <1>3, <2>2 DEF CutsHistory, Chronological
  <1>4. ASSUME NEW outage \in Outage, NEW result \in Result,
               now' = now, ExtendsHistory(outage, result)
        PROVE  Chronological'
    <2> DEFINE at(i) == settled'[i].recorded_at
               last == Len(settled) + 1
    <2>1. /\ Len(settled') = Len(settled) + 1
          /\ Len(settled) \in Nat
          /\ settled'[Len(settled) + 1] = result
          /\ \A i \in 1..Len(settled) : settled'[i] = settled[i]
      BY <1>1, <1>4, AppendedEntries DEF ExtendsHistory
    <2>2. at(last) = now
      BY <1>4, <2>1 DEF ExtendsHistory
    <2>3. \A i \in 1..Len(settled) : at(i) <= now
      BY <1>1, <2>1 DEF Chronological
    <2>4. \A i, j \in 1..Len(settled) : i <= j => at(i) <= at(j)
      BY <1>1, <2>1 DEF Chronological
    <2>5. \A i \in 1..last : i \in 1..Len(settled) \/ i = last
      BY <2>1
    <2> HIDE DEF at
    <2>6. \A i \in 1..last : at(i) <= now
      BY <1>1, <2>2, <2>3, <2>5
    <2>7. \A i, j \in 1..last : i <= j => at(i) <= at(j)
      <3> SUFFICES ASSUME NEW i \in 1..last, NEW j \in 1..last, i <= j PROVE at(i) <= at(j)
        OBVIOUS
      <3>1. CASE j = last
        BY <2>2, <2>6, <3>1
      <3>2. CASE j \in 1..Len(settled)
        <4>1. i \in 1..Len(settled)
          BY <2>1, <3>2
        <4> QED
          BY <2>4, <3>2, <4>1
      <3> QED
        BY <2>5, <3>1, <3>2
    <2> QED
      BY <1>4, <2>1, <2>6, <2>7 DEF Chronological, at
  <1> QED
    BY <1>2, <1>3, <1>4 DEF HistoryStep

\* Only an outage that is not in the history is added to it.
LEMMA HistoryKeepsOneEntry ==
  ASSUME LInv, HistoryStep
  PROVE  OneEntryPerOutage'
  <1>1. TypeOK /\ OneEntryPerOutage /\ retained \subseteq 1..Len(settled)
    BY DEF LInv, TypeOK
  <1>2. CASE ClearsHistory
    BY <1>2 DEF ClearsHistory, OneEntryPerOutage
  <1>3. CASE CutsHistory
    BY <1>1, <1>3 DEF CutsHistory, OneEntryPerOutage
  <1>4. ASSUME NEW outage \in Outage, NEW result \in Result, ExtendsHistory(outage, result)
        PROVE  OneEntryPerOutage'
    <2> DEFINE id(i) == settled'[i].outage_id
               last == Len(settled) + 1
    <2>1. /\ Len(settled) \in Nat
          /\ settled'[Len(settled) + 1] = result
          /\ \A i \in 1..Len(settled) : settled'[i] = settled[i]
      BY <1>1, <1>4, AppendedEntries DEF ExtendsHistory
    <2>2. retained' \subseteq retained \cup {last}
      BY <1>1, <1>4, RetainIsCut, RetentionAssumption DEF ExtendsHistory, RetainCuts
    <2>3. id(last) = outage
      BY <1>4, <2>1 DEF ExtendsHistory
    <2>4. \A i \in retained : id(i) = settled[i].outage_id
      BY <1>1, <2>1
    <2>5. \A i \in retained : id(i) # outage
      BY <1>4, <2>4 DEF ExtendsHistory, Recorded, EntriesOf
    <2>6. \A i, j \in retained : id(i) = id(j) => i = j
      BY <1>1, <2>4 DEF OneEntryPerOutage
    <2> HIDE DEF id, last
    <2>7. \A i, j \in retained \cup {last} : id(i) = id(j) => i = j
      BY <2>3, <2>5, <2>6
    <2>8. \A i, j \in retained' : id(i) = id(j) => i = j
      BY <2>2, <2>7
    <2> QED
      BY <2>8 DEF OneEntryPerOutage, id
  <1> QED
    BY <1>2, <1>3, <1>4 DEF HistoryStep

\* Every step keeps the invariant.
LEMMA StepPreservesInv == LInv /\ [LedgerNext]_vars => LInv'
  <1> SUFFICES ASSUME LInv, [LedgerNext]_vars PROVE LInv'
    OBVIOUS
  <1>1. TypeOK /\ HistoryStep
    BY EveryStepIsHistoryStep DEF LInv
  <1>2. TypeOK'
    BY <1>1, SeenKeepsTypes, SettingsKeepTypes, HistoryKeepsTypes DEF TypeOK
  <1>3. Chronological'
    BY <1>1, HistoryKeepsOrder
  <1>4. OneEntryPerOutage'
    BY <1>1, HistoryKeepsOneEntry
  <1> QED
    BY <1>2, <1>3, <1>4 DEF LInv

\* The invariant holds in every state of every behaviour.
THEOREM InductiveInvariant == LedgerSpec => []LInv
  <1> QED
    BY InitEstablishesInv, StepPreservesInv, PTL DEF LedgerSpec

-----------------------------------------------------------------------------
(* The statistics.                                                         *)

\* What an entry adds to the rewards, and what to the penalties (with its sign).
Gain(result) == IF result.status = "viol" THEN 0 ELSE result.amount
Loss(result) == IF result.status = "viol" THEN result.amount ELSE 0

Gains(entries) == [i \in 1..Len(entries) |-> Gain(entries[i])]
Losses(entries) == [i \in 1..Len(entries) |-> Loss(entries[i])]
ViolationsOf(entries) == {i \in 1..Len(entries) : entries[i].status = "viol"}

\* The statistics as they follow from the entries.
Tally(entries) ==
    [calculations |-> Len(entries),
     violations   |-> Cardinality(ViolationsOf(entries)),
     rewards      |-> SumOver(Gains(entries), 1..Len(entries)),
     penalties    |-> -SumOver(Losses(entries), 1..Len(entries))]

Balanced == stats = Tally(settled)

LEMMA GainsAreNumbers ==
  ASSUME NEW entries \in Seq(Result)
  PROVE  /\ Len(entries) \in Nat /\ IsFiniteSet(1..Len(entries))
         /\ \A i \in 1..Len(entries) :
              /\ Gains(entries)[i] = Gain(entries[i]) /\ Gains(entries)[i] \in Int
              /\ Losses(entries)[i] = Loss(entries[i]) /\ Losses(entries)[i] \in Int
  <1>1. Len(entries) \in Nat /\ \A i \in 1..Len(entries) : entries[i] \in Result
    <2> HIDE DEF Result
    <2> QED
      OBVIOUS
  <1>2. \A i \in 1..Len(entries) : entries[i].amount \in Int
    BY <1>1 DEF Result
  <1>3. IsFiniteSet(1..Len(entries))
    BY <1>1, FS_Interval
  <1> QED
    BY <1>1, <1>2, <1>3 DEF Gains, Losses, Gain, Loss

\* Nothing is counted when nothing was settled.
LEMMA TallyOfNone == Tally(<< >>) = NoStats
  <1>1. Len(<< >>) = 0 /\ 1..0 = {}
    OBVIOUS
  <1>2. ViolationsOf(<< >>) = {}
    BY <1>1 DEF ViolationsOf
  <1>3. SumOver(Gains(<< >>), {}) = 0 /\ SumOver(Losses(<< >>), {}) = 0
    BY SumEmpty
  <1>4. Cardinality({}) = 0
    BY FS_EmptySet
  <1>5. /\ SumOver(Losses(<< >>), {}) \in Int
        /\ 0 - SumOver(Losses(<< >>), {}) = 0
    BY <1>3
  <1>6. -SumOver(Losses(<< >>), {}) = 0
    <2>1. \A x \in Int : -x = 0 - x
      OBVIOUS
    <2> QED
      BY <1>5, <2>1, Zenon
  <1> QED
    BY <1>1, <1>2, <1>3, <1>4, <1>6, Zenon DEF Tally, NoStats

\* One more entry adds its own gain and loss.
LEMMA TallyOfAppend ==
  ASSUME NEW entries \in Seq(Result), NEW result \in Result
  PROVE  Tally(Append(entries, result)) =
           [calculations |-> Len(entries) + 1,
            violations   |-> Cardinality(ViolationsOf(entries))
                               + (IF result.status = "viol" THEN 1 ELSE 0),
            rewards      |-> SumOver(Gains(entries), 1..Len(entries)) + Gain(result),
            penalties    |-> -SumOver(Losses(entries), 1..Len(entries)) - Loss(result)]
  <1> DEFINE longer == Append(entries, result)
             n == Len(entries)
  <1>1. /\ longer \in Seq(Result) /\ Len(longer) = n + 1 /\ n \in Nat
        /\ longer[n + 1] = result /\ \A i \in 1..n : longer[i] = entries[i]
    <2> HIDE DEF Result
    <2> QED
      OBVIOUS
  <1> HIDE DEF longer
  <1>2. 1..(n + 1) = 1..n \cup {n + 1} /\ n + 1 \notin 1..n
    BY <1>1
  <1>3. /\ IsFiniteSet(1..n)
        /\ \A i \in 1..n : Gains(entries)[i] \in Int /\ Losses(entries)[i] \in Int
        /\ \A i \in 1..(n + 1) : Gains(longer)[i] \in Int /\ Losses(longer)[i] \in Int
        /\ Gains(longer)[n + 1] = Gain(result) /\ Losses(longer)[n + 1] = Loss(result)
        /\ \A i \in 1..n : Gains(longer)[i] = Gains(entries)[i] /\ Losses(longer)[i] = Losses(entries)[i]
    <2>1. \A i \in 1..n : i \in 1..(n + 1)
      BY <1>2
    <2>2. n + 1 \in 1..(n + 1)
      BY <1>1
    <2> QED
      BY <1>1, <2>1, <2>2, GainsAreNumbers
  <1>4. /\ SumOver(Gains(longer), 1..n) = SumOver(Gains(entries), 1..n)
        /\ SumOver(Losses(longer), 1..n) = SumOver(Losses(entries), 1..n)
        /\ SumOver(Gains(entries), 1..n) \in Int /\ SumOver(Losses(entries), 1..n) \in Int
    BY <1>3, SumSame, SumInt
  <1> HIDE DEF n
  <1>5. /\ SumOver(Gains(longer), 1..n \cup {n + 1}) = Gain(result) + SumOver(Gains(longer), 1..n)
        /\ SumOver(Losses(longer), 1..n \cup {n + 1}) = Loss(result) + SumOver(Losses(longer), 1..n)
    <2>1. /\ \A i \in 1..n \cup {n + 1} : Gains(longer)[i] \in Int
          /\ \A i \in 1..n \cup {n + 1} : Losses(longer)[i] \in Int
      BY <1>2, <1>3
    <2>2. SumOver(Gains(longer), 1..n \cup {n + 1})
            = Gains(longer)[n + 1] + SumOver(Gains(longer), 1..n)
      BY <1>2, <1>3, <2>1, SumAdd
    <2>3. SumOver(Losses(longer), 1..n \cup {n + 1})
            = Losses(longer)[n + 1] + SumOver(Losses(longer), 1..n)
      BY <1>2, <1>3, <2>1, SumAdd
    <2> QED
      BY <1>3, <2>2, <2>3
  <1>6. Cardinality(ViolationsOf(longer))
          = Cardinality(ViolationsOf(entries)) + (IF result.status = "viol" THEN 1 ELSE 0)
    <2>1. IsFiniteSet(ViolationsOf(entries)) /\ Cardinality(ViolationsOf(entries)) \in Nat
      <3>1. ViolationsOf(entries) \subseteq 1..n
        BY DEF ViolationsOf, n
      <3> QED
        BY <1>3, <3>1, FS_Subset, FS_CardinalityType
    <2>2. CASE result.status = "viol"
      <3>1. ViolationsOf(longer) = ViolationsOf(entries) \cup {n + 1}
        BY <1>1, <1>2, <2>2 DEF ViolationsOf, n
      <3>2. n + 1 \notin ViolationsOf(entries)
        BY <1>2 DEF ViolationsOf, n
      <3> QED
        BY <2>1, <2>2, <3>1, <3>2, FS_AddElement
    <2>3. CASE result.status # "viol"
      <3>1. ViolationsOf(longer) = ViolationsOf(entries)
        BY <1>1, <1>2, <2>3 DEF ViolationsOf, n
      <3> QED
        BY <2>1, <2>3, <3>1
    <2> QED
      BY <2>2, <2>3
  <1>7. Gain(result) \in Int /\ Loss(result) \in Int
    BY <1>1, <1>3
  <1>8. /\ SumOver(Gains(longer), 1..(n + 1)) = SumOver(Gains(entries), 1..n) + Gain(result)
        /\ -SumOver(Losses(longer), 1..(n + 1)) = -SumOver(Losses(entries), 1..n) - Loss(result)
    <2>1. /\ SumOver(Gains(longer), 1..(n + 1)) = Gain(result) + SumOver(Gains(entries), 1..n)
          /\ SumOver(Losses(longer), 1..(n + 1)) = Loss(result) + SumOver(Losses(entries), 1..n)
      BY <1>2, <1>4, <1>5, Zenon
    <2>2. \A b, c \in Int : b + c = c + b /\ -(b + c) = -c - b
      OBVIOUS
    <2>3. /\ Gain(result) + SumOver(Gains(entries), 1..n) = SumOver(Gains(entries), 1..n) + Gain(result)
          /\ -(Loss(result) + SumOver(Losses(entries), 1..n))
               = -SumOver(Losses(entries), 1..n) - Loss(result)
      BY <1>4, <1>7, <2>2
    <2> QED
      BY <2>1, <2>3, Zenon
  <1> QED
    BY <1>1, <1>6, <1>8 DEF Tally, longer, n

\* A settlement is counted once, on its side; nothing else is counted.
LEMMA StepKeepsBalance ==
  ASSUME TypeOK, Balanced, HistoryStep
  PROVE  Balanced'
  <1>1. CASE ClearsHistory
    BY <1>1, TallyOfNone DEF ClearsHistory, Balanced
  <1>2. CASE CutsHistory
    BY <1>2 DEF CutsHistory, Balanced
  <1>3. ASSUME NEW outage \in Outage, NEW result \in Result, ExtendsHistory(outage, result)
        PROVE  Balanced'
    <2>1. settled \in Seq(Result) /\ settled' = Append(settled, result) /\ stats' = Counted(result)
      BY <1>3 DEF ExtendsHistory, TypeOK
    <2> DEFINE gains == SumOver(Gains(settled), 1..Len(settled))
               losses == SumOver(Losses(settled), 1..Len(settled))
               viols == Cardinality(ViolationsOf(settled))
    <2>2. /\ stats.calculations = Len(settled) /\ stats.violations = viols
          /\ stats.rewards = gains /\ stats.penalties = -losses
          /\ stats = [calculations |-> Len(settled), violations |-> viols,
                      rewards |-> gains, penalties |-> -losses]
      BY DEF Balanced, Tally
    <2>3. gains \in Int /\ losses \in Int /\ viols \in Int /\ result.amount \in Int
      <3>1. gains \in Int /\ losses \in Int
        BY <2>1, GainsAreNumbers, SumInt
      <3>2. stats.violations \in Nat
        BY DEF TypeOK
      <3> QED
        BY <2>2, <3>1, <3>2 DEF Result
    <2>4. Tally(settled') = [calculations |-> Len(settled) + 1,
                             violations   |-> viols + (IF result.status = "viol" THEN 1 ELSE 0),
                             rewards      |-> gains + Gain(result),
                             penalties    |-> -losses - Loss(result)]
      BY <2>1, TallyOfAppend
    <2> HIDE DEF gains, losses, viols
    <2>5. CASE result.status = "viol"
      <3>1. Gain(result) = 0 /\ Loss(result) = result.amount
        BY <2>5 DEF Gain, Loss
      <3>2. Counted(result) = [calculations |-> Len(settled) + 1, violations |-> viols + 1,
                               rewards |-> gains, penalties |-> -losses - result.amount]
        BY <2>2, <2>5 DEF Counted
      <3>3. gains + 0 = gains
        BY <2>3
      <3> QED
        BY <2>1, <2>4, <2>5, <3>1, <3>2, <3>3 DEF Balanced
    <2>6. CASE result.status # "viol"
      <3>1. Gain(result) = result.amount /\ Loss(result) = 0
        BY <2>6 DEF Gain, Loss
      <3>2. Counted(result) = [calculations |-> Len(settled) + 1, violations |-> viols,
                               rewards |-> gains + result.amount, penalties |-> -losses]
        BY <2>2, <2>6 DEF Counted
      <3>3. -losses - 0 = -losses /\ viols + 0 = viols
        BY <2>3
      <3> QED
        BY <2>1, <2>4, <2>6, <3>1, <3>2, <3>3 DEF Balanced
    <2> QED
      BY <2>5, <2>6
  <1> QED
    BY <1>1, <1>2, <1>3 DEF HistoryStep

\* Adding zeros for the other side, the tally is what StatsBalance speaks of.
LEMMA TallyIsTotals == TypeOK /\ Balanced => StatsBalance
  <1> SUFFICES ASSUME TypeOK, Balanced PROVE StatsBalance
    OBVIOUS
  <1> DEFINE n == Len(settled)
             all == 1..n
             mets == DOMAIN settled \ Violations
             paid == [i \in mets |-> settled[i].amount]
             owed == [i \in Violations |-> settled[i].amount]
  <1>1. settled \in Seq(Result) /\ DOMAIN settled = all
    BY DEF TypeOK
  <1>2. TotalAmount(mets) = SumOver(paid, mets)
    BY Zenon DEF TotalAmount, SumOver, MapThenSumSet, MapThenFoldSet
  <1>3. TotalAmount(Violations) = SumOver(owed, Violations)
    BY Zenon DEF TotalAmount, SumOver, MapThenSumSet, MapThenFoldSet
  <1>4. /\ mets \subseteq all /\ Violations \subseteq all /\ IsFiniteSet(all)
        /\ Violations = ViolationsOf(settled)
    BY <1>1, GainsAreNumbers DEF Violations, ViolationsOf
  <1>5. \A i \in all : settled[i].amount \in Int
    BY EntryType
  <1> DEFINE wins == [i \in all |-> IF i \in mets THEN paid[i] ELSE 0]
             fines == [i \in all |-> IF i \in Violations THEN owed[i] ELSE 0]
  <1>6. wins = Gains(settled)
    BY <1>1 DEF Gains, Gain, Violations
  <1>7. fines = Losses(settled)
    BY <1>1 DEF Losses, Loss, Violations
  <1>8. (\A i \in mets : paid[i] \in Int) /\ (\A i \in Violations : owed[i] \in Int)
    BY <1>4, <1>5
  <1> HIDE DEF paid, owed, mets, all
  <1>9. SumOver(wins, all) = SumOver(paid, mets) /\ SumOver(fines, all) = SumOver(owed, Violations)
    BY <1>4, <1>8, SumOfPart
  <1>10. /\ stats.calculations = n /\ stats.violations = Cardinality(ViolationsOf(settled))
         /\ stats.rewards = SumOver(Gains(settled), all)
         /\ stats.penalties = -SumOver(Losses(settled), all)
    BY DEF Balanced, Tally, all
  <1> HIDE DEF wins, fines
  <1> QED
    BY <1>2, <1>3, <1>4, <1>6, <1>7, <1>9, <1>10 DEF StatsBalance, mets

-----------------------------------------------------------------------------
(* The views.                                                              *)

\* Every verdict in the ledger is the formula's.
EntriesComputed == \A i \in 1..Len(settled) : Computed(settled[i])

\* A new entry is computed, and no old one is changed.
LEMMA StepKeepsComputed ==
  ASSUME TypeOK, EntriesComputed, HistoryStep
  PROVE  EntriesComputed'
  <1>1. CASE ClearsHistory
    BY <1>1 DEF ClearsHistory, EntriesComputed
  <1>2. CASE CutsHistory
    BY <1>2 DEF CutsHistory, EntriesComputed, Computed
  <1>3. ASSUME NEW outage \in Outage, NEW result \in Result, ExtendsHistory(outage, result)
        PROVE  EntriesComputed'
    <2>1. /\ Len(settled') = Len(settled) + 1 /\ Len(settled) \in Nat
          /\ \A i \in 1..Len(settled) : settled'[i] = settled[i]
          /\ settled'[Len(settled) + 1] = result
      BY <1>3, AppendedEntries DEF ExtendsHistory
    <2>2. ASSUME NEW i \in 1..(Len(settled) + 1) PROVE Computed(settled'[i])
      <3>1. i \in 1..Len(settled) \/ i = Len(settled) + 1
        BY <2>1
      <3>2. CASE i \in 1..Len(settled)
        BY <2>1, <3>2 DEF EntriesComputed
      <3>3. CASE i = Len(settled) + 1
        BY <1>3, <2>1, <3>3 DEF ExtendsHistory
      <3> QED
        BY <3>1, <3>2, <3>3
    <2> QED
      BY <2>1, <2>2 DEF EntriesComputed, Computed
  <1> QED
    BY <1>1, <1>2, <1>3 DEF HistoryStep

\* The verdict on a duration depends on the threshold alone.
LEMMA VerdictOfThreshold ==
  ASSUME NEW mttr, NEW c, NEW d, c.threshold_minutes = d.threshold_minutes
  PROVE  /\ ComputeResult(mttr, c).status = ComputeResult(mttr, d).status
         /\ ComputeResult(mttr, c).rating = ComputeResult(mttr, d).rating
  <1>1. Breach(mttr, c) <=> Breach(mttr, d)
    BY DEF Breach
  <1>2. MetRating(mttr, c) = MetRating(mttr, d)
    BY DEF MetRating, PerformanceRatio
  <1> QED
    BY <1>1, <1>2 DEF ComputeResult, Violated, Met, Outcome

\* The entries of an outage are none, or the one that get_latest_by_outage returns.
LEMMA LatestIsTheEntry ==
  ASSUME TypeOK, OneEntryPerOutage, NEW outage \in Outage, Recorded(outage)
  PROVE  \E i \in retained : EntriesOf(outage) = {i} /\ LatestOf(outage) = settled[i]
  <1>1. PICK i \in retained : i \in EntriesOf(outage)
    BY DEF Recorded, EntriesOf
  <1>2. EntriesOf(outage) = {i}
    BY <1>1 DEF EntriesOf, OneEntryPerOutage
  <1>3. i \in Nat
    BY PositionsAreFinite
  <1>4. Max({i}) = i
    BY <1>3 DEF Max
  <1> QED
    BY <1>2, <1>4 DEF LatestOf

\* The downtime is the sum over no entry or over one.
LEMMA DowntimeAgrees == TypeOK /\ OneEntryPerOutage => ReadPathsAgree
  <1> SUFFICES ASSUME TypeOK, OneEntryPerOutage, NEW outage \in Outage
               PROVE  BatchDowntime(outage) =
                        IF Recorded(outage)
                        THEN [total_downtime    |-> LatestOf(outage).mttr_minutes,
                              compliance_status |-> IF LatestOf(outage).status = "met"
                                                    THEN "compliant" ELSE "noncomp"]
                        ELSE [total_downtime |-> 0, compliance_status |-> "unknown"]
    BY DEF ReadPathsAgree
  <1> DEFINE entries == EntriesOf(outage)
             minutes == [i \in entries |-> settled[i].mttr_minutes]
  <1>1. MapThenSumSet(LAMBDA i : settled[i].mttr_minutes, entries) = SumOver(minutes, entries)
    BY Zenon DEF SumOver, MapThenSumSet, MapThenFoldSet
  <1> HIDE DEF minutes
  <1>2. BatchDowntime(outage) =
          [total_downtime    |-> SumOver(minutes, entries),
           compliance_status |-> IF entries = {} THEN "unknown"
                                 ELSE IF \A i \in entries : settled[i].status = "met"
                                 THEN "compliant" ELSE "noncomp"]
    BY <1>1, Zenon DEF BatchDowntime
  <1>3. CASE ~Recorded(outage)
    <2>1. entries = {}
      BY <1>3 DEF Recorded
    <2>2. SumOver(minutes, {}) = 0
      BY SumEmpty
    <2> QED
      BY <1>2, <1>3, <2>1, <2>2
  <1>4. CASE Recorded(outage)
    <2>1. PICK i \in retained : entries = {i} /\ LatestOf(outage) = settled[i]
      BY <1>4, LatestIsTheEntry
    <2>2. settled[i].mttr_minutes \in Nat
      BY <2>1, EntryType DEF TypeOK, Result
    <2>3. minutes[i] = settled[i].mttr_minutes /\ minutes[i] \in Int
      BY <2>1, <2>2 DEF minutes
    <2>4. SumOver(minutes, entries) = settled[i].mttr_minutes
      BY <2>1, <2>3, SumSingleton
    <2> QED
      BY <1>2, <1>4, <2>1, <2>4
  <1> QED
    BY <1>3, <1>4

\* The audit finds the threshold of the entry and so its verdict.
LEMMA AuditAgrees == TypeOK /\ OneEntryPerOutage /\ EntriesComputed => AuditConfirmsHistory
  <1> SUFFICES ASSUME TypeOK, OneEntryPerOutage, EntriesComputed,
                      NEW outage \in Outage, NEW report \in Reports,
                      calculate_sla_view(outage, report.severity, report.mttr) # Refused,
                      AnsweredFromHistory(outage,
                        calculate_sla_view(outage, report.severity, report.mttr).mttr_minutes,
                        configs[report.severity])
               PROVE  LET view == calculate_sla_view(outage, report.severity, report.mttr)
                      IN  /\ LatestOf(outage).status = view.status
                          /\ LatestOf(outage).rating = view.rating
    BY DEF AuditConfirmsHistory
  <1> DEFINE view == calculate_sla_view(outage, report.severity, report.mttr)
             effective == EffectiveMttr(report.mttr, maxDuration)
             config == configs[report.severity]
  <1>1. report.severity \in Configured(configs) /\ view = ResultOf(outage, effective, config)
    BY DEF calculate_sla_view
  <1>2. config \in SLAConfig
    BY <1>1, ConfiguredHasConfig
  <1>3. effective \in Nat
    BY EffectiveMttrType, LedgerInputAssumption
  <1> HIDE DEF effective, config
  <1>4. /\ view.mttr_minutes = effective
        /\ view.status = ComputeResult(effective, config).status
        /\ view.rating = ComputeResult(effective, config).rating
    BY <1>1, <1>2, <1>3, ResultType
  <1>5. /\ Recorded(outage) /\ LatestOf(outage).mttr_minutes = view.mttr_minutes
        /\ LatestOf(outage).threshold_minutes = config.threshold_minutes
    BY DEF AnsweredFromHistory, config
  <1>6. PICK i \in retained : LatestOf(outage) = settled[i]
    BY <1>5, LatestIsTheEntry
  <1>7. Computed(LatestOf(outage))
    BY <1>6 DEF EntriesComputed, TypeOK
  <1>8. PICK c \in SLAConfig :
          /\ c.threshold_minutes = LatestOf(outage).threshold_minutes
          /\ ComputeResult(LatestOf(outage).mttr_minutes, c).status = LatestOf(outage).status
          /\ ComputeResult(LatestOf(outage).mttr_minutes, c).rating = LatestOf(outage).rating
    BY <1>7 DEF Computed
  <1>9. c.threshold_minutes = config.threshold_minutes
    BY <1>5, <1>8
  <1>10. /\ ComputeResult(effective, c).status = ComputeResult(effective, config).status
         /\ ComputeResult(effective, c).rating = ComputeResult(effective, config).rating
    BY <1>9, VerdictOfThreshold
  <1> QED
    BY <1>4, <1>5, <1>8, <1>10

\* What is retained was counted.
LEMMA SummaryAgrees ==
  ASSUME TypeOK, StatsBalance
  PROVE  /\ get_history_summary.total = get_history_summary.met + get_history_summary.violated
         /\ get_history_summary.violated <= stats.violations
         /\ get_history_summary.met <= stats.calculations - stats.violations
  <1> DEFINE mets == {i \in retained : settled[i].status = "met"}
             viols == {i \in retained : settled[i].status = "viol"}
             all == 1..Len(settled)
  <1>1. retained \subseteq all /\ IsFiniteSet(all) /\ Len(settled) \in Nat /\ Cardinality(all) = Len(settled)
    <2>1. Len(settled) \in Nat /\ retained \subseteq all
      BY DEF TypeOK
    <2>2. /\ IsFiniteSet(1..Len(settled))
          /\ Cardinality(1..Len(settled)) = IF 1 > Len(settled) THEN 0 ELSE Len(settled) - 1 + 1
      BY <2>1, FS_Interval
    <2>3. Cardinality(1..Len(settled)) = Len(settled)
      BY <2>1, <2>2
    <2> QED
      BY <2>1, <2>2, <2>3
  <1>2. \A i \in all : settled[i].status \in {"met", "viol"}
    BY EntryType DEF Result
  <1>3. retained = mets \cup viols /\ mets \cap viols = {}
    BY <1>1, <1>2
  <1>4. DOMAIN settled = all /\ Violations \subseteq all
    BY DEF Violations, TypeOK
  <1>5. mets \subseteq all \ Violations /\ viols \subseteq Violations
    BY <1>1, <1>4 DEF Violations
  <1> HIDE DEF mets, viols, all
  <1>6. IsFiniteSet(Violations) /\ IsFiniteSet(all \ Violations) /\ all \cap Violations = Violations
    BY <1>1, <1>4, FS_Subset
  <1>7. IsFiniteSet(mets) /\ IsFiniteSet(viols)
    BY <1>5, <1>6, FS_Subset
  <1>8. /\ Cardinality(mets) \in Nat /\ Cardinality(viols) \in Nat
        /\ Cardinality(Violations) \in Nat /\ Cardinality({}) = 0
    BY <1>6, <1>7, FS_CardinalityType, FS_EmptySet
  <1>9. Cardinality(retained) = Cardinality(mets) + Cardinality(viols)
    <2>1. Cardinality(mets \cup viols)
            = Cardinality(mets) + Cardinality(viols) - Cardinality(mets \cap viols)
      BY <1>7, FS_Union
    <2>2. Cardinality(retained) = Cardinality(mets) + Cardinality(viols) - 0
      BY <1>3, <1>8, <2>1, Zenon
    <2> QED
      BY <1>8, <2>2
  <1>10. Cardinality(viols) <= Cardinality(Violations)
    BY <1>5, <1>6, FS_Subset
  <1>11. Cardinality(mets) <= Len(settled) - Cardinality(Violations)
    <2>1. Cardinality(mets) <= Cardinality(all \ Violations)
      BY <1>5, <1>6, FS_Subset
    <2>2. Cardinality(all \ Violations) = Cardinality(all) - Cardinality(all \cap Violations)
      BY <1>1, FS_Difference
    <2>3. Cardinality(all \ Violations) = Len(settled) - Cardinality(Violations)
      BY <1>1, <1>6, <2>2, Zenon
    <2> QED
      BY <2>1, <2>3
  <1>12. /\ get_history_summary.total = Cardinality(retained)
         /\ get_history_summary.met = Cardinality(mets)
         /\ get_history_summary.violated = Cardinality(viols)
    BY DEF get_history_summary, mets, viols
  <1> QED
    BY <1>9, <1>10, <1>11, <1>12 DEF StatsBalance

\* A stored configuration map is not empty.
LEMMA StoredIsNotEmpty == TypeOK /\ Stored => Configured(configs) # {}
  BY DEF TypeOK, Stored, Configured, ConfigMap, NoConfigs

\* The snapshots are made of the same state as the summaries.
LEMMA SnapshotsAgree == TypeOK /\ StatsBalance => SnapshotsDescribeTheState
  <1> SUFFICES ASSUME TypeOK, StatsBalance PROVE SnapshotsDescribeTheState
    OBVIOUS
  <1>1. /\ get_state_summary.viol_cnt = stats.violations
        /\ get_state_summary.calc_cnt = stats.calculations
        /\ get_state_summary.hist_len = Cardinality(retained)
    BY DEF get_state_summary
  <1>2. ASSUME export_snapshot # Refused
        PROVE  /\ export_snapshot.metadata = get_snapshot_metadata
               /\ export_snapshot.metadata.history_count = get_state_summary.hist_len
               /\ Answering => Importable(export_snapshot)
               /\ Answering => export_snapshot.metadata.config_count = get_config_count
               /\ get_config_snapshot \in {Refused, export_snapshot.configs}
    <2>1. admin # NoOne /\ Stored /\ export_snapshot = Snapshot(retained)
      BY <1>2 DEF export_snapshot
    <2>2. /\ Snapshot(retained).metadata = SnapshotMetadata(retained, Configured(configs))
          /\ Snapshot(retained).configs = configs /\ Snapshot(retained).storage_version = version
      BY DEF Snapshot
    <2>3. /\ SnapshotMetadata(retained, Configured(configs)).version = 1
          /\ SnapshotMetadata(retained, Configured(configs)).history_count = Cardinality(retained)
          /\ SnapshotMetadata(retained, Configured(configs)).config_count
               = Cardinality(Configured(configs))
      BY DEF SnapshotMetadata
    <2>4. Answering => Importable(export_snapshot)
      <3>1. Answering => version <= STORAGE_VERSION
        BY DEF Answering, STORAGE_VERSION
      <3>2. Configured(configs) # {}
        BY <2>1, StoredIsNotEmpty
      <3> QED
        BY <2>1, <2>2, <2>3, <3>1, <3>2 DEF Importable
    <2> QED
      BY <1>1, <2>1, <2>2, <2>3, <2>4 DEF get_snapshot_metadata, get_config_count, get_config_snapshot
  <1> QED
    BY <1>1, <1>2, SummaryAgrees DEF SnapshotsDescribeTheState

-----------------------------------------------------------------------------
(* The theorems.                                                           *)

\* Every call leaves storage that its readers can decode: complete
\* configurations, results of the declared types, limits within their range.
THEOREM TypeCorrect == LedgerSpec => []TypeOK
  <1>1. LInv => TypeOK
    BY DEF LInv
  <1> QED
    BY <1>1, InductiveInvariant, PTL

\* The history never holds two entries of one outage, although an outage can
\* be settled again once its entry is evicted or pruned: get_latest_by_outage,
\* get_batch_downtime and the duplicate check of calculate_sla rely on it.
THEOREM OneEntry == LedgerSpec => []OneEntryPerOutage
  <1>1. LInv => OneEntryPerOutage
    BY DEF LInv
  <1> QED
    BY <1>1, InductiveInvariant, PTL

\* The history is in the order of time through every eviction and pruning.
THEOREM InTimeOrder == LedgerSpec => []HistoryInTimeOrder
  <1>1. LInv => HistoryInTimeOrder
    BY DEF LInv, TypeOK, Chronological, HistoryInTimeOrder
  <1> QED
    BY <1>1, InductiveInvariant, PTL

\* Whatever the eviction of calculate_sla or one of the three prunings
\* removes from the history is older than whatever stays.  The code does not look at
\* whether an entry is dated, so the proof does not either.
THEOREM NoHoles == LedgerSpec => OnlyOldestLeave
  <1> DEFINE step == settled' # << >> =>
                       \A gone \in retained \ retained', kept \in retained' : gone < kept
  <1>1. ASSUME LInv, [LedgerNext]_vars PROVE step
    <2>1. HistoryStep /\ TypeOK
      BY <1>1, EveryStepIsHistoryStep DEF LInv
    <2>2. CASE ClearsHistory
      BY <2>2 DEF ClearsHistory
    <2>3. CASE CutsHistory
      BY <2>3 DEF CutsHistory, CutsOldest
    <2>4. ASSUME NEW outage \in Outage, NEW result \in Result, ExtendsHistory(outage, result)
          PROVE  step
      <3>1. CutsOldest(retained \cup {Len(settled) + 1}, retained')
        BY <2>1, <2>4, RetainIsCut, RetentionAssumption DEF ExtendsHistory, RetainCuts
      <3> QED
        BY <3>1 DEF CutsOldest
    <2> QED
      BY <2>1, <2>2, <2>3, <2>4 DEF HistoryStep
  <1>2. LInv /\ [LedgerNext]_vars => [step]_vars
    BY <1>1
  <1>3. [step]_vars =>
          [settled' # << >> =>
             \A gone \in (retained \ retained') \cap Dated, kept \in retained' \cap Dated' :
                 gone < kept]_vars
    OBVIOUS
  <1> QED
    BY <1>2, <1>3, InductiveInvariant, PTL DEF LedgerSpec, OnlyOldestLeave

\* The history grows only up to the retention limit in force, whatever limit
\* the admin sets and whenever.
THEOREM GrowthIsLimited == LedgerSpec => GrowthWithinLimit
  <1> DEFINE step == Cardinality(retained') > Cardinality(retained)
                       => Cardinality(retained') <= retentionLimit
  <1>1. ASSUME LInv, [LedgerNext]_vars PROVE step
    <2>1. /\ HistoryStep /\ TypeOK
          /\ IsFiniteSet(retained) /\ Cardinality(retained) \in Nat
      BY <1>1, EveryStepIsHistoryStep, PositionsAreFinite DEF LInv
    <2>2. ASSUME retained' \subseteq retained PROVE step
      <3>1. Cardinality(retained') <= Cardinality(retained) /\ Cardinality(retained') \in Nat
        BY <2>1, <2>2, FS_Subset, FS_CardinalityType
      <3> QED
        BY <2>1, <3>1
    <2>3. CASE ClearsHistory \/ CutsHistory
      BY <2>2, <2>3 DEF ClearsHistory, CutsHistory
    <2>4. ASSUME NEW outage \in Outage, NEW result \in Result, ExtendsHistory(outage, result)
          PROVE  step
      <3>1. \/ Cardinality(retained') <= retentionLimit
            \/ Cardinality(retained') <= Cardinality(retained)
        BY <2>1, <2>4, RetainIsCut, RetentionAssumption DEF ExtendsHistory, RetainCuts
      <3>2. Cardinality(retained') \in Nat
        <4>1. IsFiniteSet(retained \cup {Len(settled) + 1})
          BY <2>1, FS_AddElement
        <4>2. retained' \subseteq retained \cup {Len(settled) + 1}
          BY <2>1, <2>4, RetainIsCut, RetentionAssumption DEF ExtendsHistory, RetainCuts
        <4> QED
          BY <4>1, <4>2, FS_Subset, FS_CardinalityType
      <3> QED
        BY <2>1, <3>1, <3>2
    <2> QED
      BY <2>1, <2>3, <2>4 DEF HistoryStep
  <1>2. LInv /\ [LedgerNext]_vars => [step]_vars
    BY <1>1
  <1> QED
    BY <1>2, InductiveInvariant, PTL DEF LedgerSpec, GrowthWithinLimit

\* The calculator keeps the settlement book: what the history remembers is not
\* settled again, a new settlement is remembered, and the statistics move by
\* exactly one when an outage is settled and not otherwise.
THEOREM KeepsBook == LedgerSpec => KeepsSettlementBook
  <1> DEFINE outages == {settled[i].outage_id : i \in retained}
  <1>1. LedgerInit => Book!Init
    BY DEF LedgerInit, NoStats, Book!Init, Book!Empty
  <1>2. ASSUME LInv, [LedgerNext]_vars PROVE [Book!Next]_(Book!vars)
    <2>1. /\ HistoryStep /\ TypeOK /\ LInv'
          /\ retained \subseteq 1..Len(settled)
      BY <1>2, EveryStepIsHistoryStep, StepPreservesInv DEF LInv, TypeOK
    <2>2. CASE ClearsHistory
      <3>1. Book!Open
        BY <2>2 DEF ClearsHistory, NoStats, Book!Open
      <3> QED
        BY <3>1 DEF Book!Next
    <2>3. CASE CutsHistory
      <3>1. Book!Forget
        BY <2>3 DEF CutsHistory, Book!Forget
      <3> QED
        BY <3>1 DEF Book!Next
    <2>4. ASSUME NEW outage \in Outage, NEW result \in Result, ExtendsHistory(outage, result)
          PROVE  Book!Settle(outage)
      <3>1. /\ settled'[Len(settled) + 1] = result
            /\ \A i \in 1..Len(settled) : settled'[i] = settled[i]
        BY <2>1, <2>4, AppendedEntries DEF ExtendsHistory
      <3>2. /\ retained' \subseteq retained \cup {Len(settled) + 1}
            /\ Len(settled) + 1 \in retained'
        BY <2>1, <2>4, RetainIsCut, RetentionAssumption DEF ExtendsHistory, RetainCuts
      <3>3. outage \notin outages
        BY <2>4 DEF ExtendsHistory, Recorded, EntriesOf
      <3>4. result.outage_id = outage
        BY <2>4 DEF ExtendsHistory
      <3>5. outage \in {settled'[i].outage_id : i \in retained'}
        BY <3>1, <3>2, <3>4
      <3>6. {settled'[i].outage_id : i \in retained'} \subseteq outages \cup {outage}
        BY <2>1, <3>1, <3>2, <3>4
      <3>7. /\ stats'.calculations = stats.calculations + 1
            /\ stats'.rewards - stats'.penalties \in Int
        <4>1. /\ stats \in [calculations : Nat, violations : Nat, rewards : Int, penalties : Int]
              /\ stats' \in [calculations : Nat, violations : Nat, rewards : Int, penalties : Int]
          BY <2>1 DEF LInv, TypeOK
        <4>2. stats'.calculations = stats.calculations + 1
          BY <2>4, <4>1 DEF ExtendsHistory, Counted
        <4> QED
          BY <4>1, <4>2
      <3> QED
        BY <3>3, <3>5, <3>6, <3>7 DEF Book!Settle
    <2> QED
      BY <2>1, <2>2, <2>3, <2>4 DEF HistoryStep, Book!Next
  <1>3. LInv /\ [LedgerNext]_vars => [Book!Next]_(Book!vars)
    BY <1>2
  <1> QED
    BY <1>1, <1>3, InductiveInvariant, PTL DEF LedgerSpec, KeepsSettlementBook, Book!Spec

\* The statistics are the settlements announced since initialize, each counted once
\* and on its side, through evictions, prunings, retries and reconfigurations
\* (increment_stats).
THEOREM StatisticsBalance == LedgerSpec => []StatsBalance
  <1>1. LedgerInit => Balanced
    BY TallyOfNone DEF LedgerInit, Balanced
  <1>2. LInv /\ Balanced /\ [LedgerNext]_vars => Balanced'
    BY EveryStepIsHistoryStep, StepKeepsBalance DEF LInv
  <1>3. LInv /\ Balanced => StatsBalance
    BY TallyIsTotals DEF LInv
  <1> QED
    BY <1>1, <1>2, <1>3, InductiveInvariant, PTL DEF LedgerSpec

\* A contract that was set up has a configuration.
ConfigWhereGoverned ==
    admin # NoOne \/ operator # NoOne \/ version # 0 => configs # NoConfigs

\* No call removes the configuration, and every call that fills a role in an empty
\* contract brings the defaults.
LEMMA StepKeepsConfig ==
  ASSUME LInv, ConfigWhereGoverned, [LedgerNext]_vars
  PROVE  ConfigWhereGoverned'
  <1>1. DefaultConfigs # NoConfigs
    <2>1. NoConfigs["critical"] = NoConfigs["high"]
      BY DEF NoConfigs, Severity
    <2>2. DefaultConfigs["critical"] # DefaultConfigs["high"]
      BY DEF DefaultConfigs, DefaultConfig
    <2> QED
      BY <2>1, <2>2
  <1>2. ASSUME \/ \E a, o \in Address : Initialize(a, o)
               \/ \E c \in Address : ResetConfigToDefaults(c)
        PROVE  configs' # NoConfigs
    <2>1. configs' = DefaultConfigs
      BY <1>2 DEF Initialize, ResetConfigToDefaults
    <2> QED
      BY <1>1, <2>1
  <1>3. ASSUME NEW c \in Address, NEW imported \in ImportInputs, ImportConfigMap(c, imported)
        PROVE  configs' # NoConfigs
    BY <1>3 DEF ImportConfigMap, Configured, NoConfigs
  <1>4. ASSUME NEW c \in Address, NEW input \in ConfigInputs,
               SetConfig(c, input.severity, input.config)
        PROVE  configs' # NoConfigs
    <2>1. /\ configs \in ConfigMap
          /\ configs' = [configs EXCEPT ![input.severity] = input.config]
          /\ ValidateConfig(input.severity, input.config, configs)
      BY <1>4 DEF SetConfig, LInv, TypeOK
    <2>2. input.severity \in Severity
      BY LedgerInputAssumption
    <2>3. \A other \in Severity \ {input.severity} : configs[other] # NoConfig
      BY <2>1 DEF ValidateConfig, FitsOthers, Configured
    <2>4. PICK other \in Severity : other # input.severity
      BY DEF Severity
    <2>5. configs'[other] # NoConfig
      BY <2>1, <2>3, <2>4 DEF ConfigMap
    <2> QED
      BY <2>4, <2>5 DEF NoConfigs
  <1>5. CASE Environment
    BY <1>5 DEF Environment, Tick, Govern, ChangeAdmin, ChangeOperator, SwitchPause,
                ChangeVersion, ConfigWhereGoverned, ledgerVars, configVars, STORAGE_VERSION
  <1>6. ASSUME NEW c \in Address,
               \/ \E limit \in RetentionInputs : SetRetentionLimit(c, limit)
               \/ \E limit \in DurationInputs : SetMaxOutageDuration(c, limit)
               \/ PruneHistoryQueue(c)
               \/ \E n \in PruneInputs : PruneHistory(c, n) \/ PruneHistoryByAge(c, n)
               \/ \E outage \in Outage, report \in Reports :
                    CalculateSla(c, outage, report.severity, report.mttr)
        PROVE  UNCHANGED <<configs, admin, operator, version>>
    BY <1>6 DEF SetRetentionLimit, SetMaxOutageDuration, PruneHistoryQueue, PruneHistory,
                PruneHistoryByAge, CalculateSla, AdminCall, OperatorCall, configVars, seen
  <1>7. CASE UNCHANGED vars
    BY <1>7 DEF vars, seen, ledgerVars, configVars, ConfigWhereGoverned
  <1> QED
    BY <1>2, <1>3, <1>4, <1>5, <1>6, <1>7, CallCases DEF ConfigWhereGoverned

\* The read paths tell one story: the look-ups by outage and by batch give the one
\* entry, the audit finds its verdict again, an operator is served unless paused,
\* and the snapshots count what the history and the statistics hold
\* (lib.rs, batch.rs, state_snapshot.rs).
THEOREM OneStory == LedgerSpec => []ViewsAgree
  <1>1. LedgerInit => EntriesComputed
    BY DEF LedgerInit, EntriesComputed
  <1>2. LInv /\ EntriesComputed /\ [LedgerNext]_vars => EntriesComputed'
    BY EveryStepIsHistoryStep, StepKeepsComputed DEF LInv
  <1>3. LedgerInit => ConfigWhereGoverned
    <2>1. DefaultConfigs["critical"] # DefaultConfigs["high"]
      BY DEF DefaultConfigs, DefaultConfig
    <2>2. NoConfigs["critical"] = NoConfigs["high"]
      BY DEF NoConfigs, Severity
    <2> QED
      BY <2>1, <2>2, VacancyAssumption DEF LedgerInit, Init, ConfigWhereGoverned
  <1>4. LInv /\ ConfigWhereGoverned /\ [LedgerNext]_vars => ConfigWhereGoverned'
    BY StepKeepsConfig
  <1>5. ASSUME LInv, EntriesComputed, StatsBalance, ConfigWhereGoverned PROVE ViewsAgree
    <2>1. OperatorIsServed
      BY <1>5, VacancyAssumption
         DEF OperatorIsServed, ServesBatch, Stored, ConfigWhereGoverned
    <2> QED
      BY <1>5, <2>1, DowntimeAgrees, AuditAgrees, SnapshotsAgree DEF LInv, ViewsAgree
  <1> QED
    BY <1>1, <1>2, <1>3, <1>4, <1>5, InductiveInvariant, StatisticsBalance, PTL DEF LedgerSpec

\* The default configurations are in order.
LEMMA DefaultsAreOrdered == Ordered(DefaultConfigs)
  <1> SUFFICES ASSUME NEW s \in Severity, NEW t \in Severity, Rank[s] < Rank[t]
               PROVE  Stricter(DefaultConfigs[s], DefaultConfigs[t])
    BY DEF Ordered, Configured
  <1> USE DEF Rank, Stricter, DefaultConfigs, DefaultConfig, Severity
  <1>1. CASE s = "critical"
    BY <1>1
  <1>2. CASE s = "high"
    BY <1>2
  <1>3. CASE s = "medium"
    BY <1>3
  <1>4. CASE s = "low"
    BY <1>4
  <1> QED
    BY <1>1, <1>2, <1>3, <1>4

\* A configuration that set_config accepts keeps the others' order.
LEMMA AcceptedKeepsOrder ==
  ASSUME configs \in ConfigMap, Ordered(configs),
         NEW severity \in Severity, NEW config, ValidateConfig(severity, config, configs)
  PROVE  Ordered([configs EXCEPT ![severity] = config])
  <1> DEFINE updated == [configs EXCEPT ![severity] = config]
  <1>1. /\ updated[severity] = config
        /\ \A s \in Severity \ {severity} : updated[s] = configs[s]
    BY DEF ConfigMap
  <1>2. \A other \in Severity \ {severity} :
          IF Rank[other] < Rank[severity]
          THEN Stricter(configs[other], config)
          ELSE Stricter(config, configs[other])
    BY DEF ValidateConfig, FitsOthers
  <1>3. \A s \in Severity : Rank[s] \in Nat
    BY DEF Rank, Severity
  <1> HIDE DEF updated
  <1> SUFFICES ASSUME NEW s \in Configured(updated), NEW t \in Configured(updated),
                      Rank[s] < Rank[t]
               PROVE  Stricter(updated[s], updated[t])
    BY DEF Ordered, updated
  <1>4. s \in Severity /\ t \in Severity /\ s # t
    BY <1>3 DEF Configured
  <1>5. CASE s = severity
    <2>1. ~(Rank[t] < Rank[severity])
      BY <1>3, <1>4, <1>5
    <2> QED
      BY <1>1, <1>2, <1>4, <1>5, <2>1
  <1>6. CASE t = severity
    BY <1>1, <1>2, <1>4, <1>6
  <1>7. CASE s # severity /\ t # severity
    <2>1. s \in Configured(configs) /\ t \in Configured(configs)
      BY <1>1, <1>4, <1>7 DEF Configured
    <2> QED
      BY <1>1, <1>4, <1>7, <2>1 DEF Ordered
  <1> QED
    BY <1>5, <1>6, <1>7

\* Once the severities are in order (a more severe one has the shorter
\* threshold and the higher penalty), no call but import_config_map can
\* bring them out of order, for every set of configurations an admin may set.
THEOREM OnlyImportBreaksOrder == LedgerSpec => OrderBrokenOnlyByImport
  <1> DEFINE step == Ordered(configs) => Ordered(configs') \/ configs' \in ImportInputs
  <1>1. ASSUME LInv, [LedgerNext]_vars, Ordered(configs)
        PROVE  Ordered(configs') \/ configs' \in ImportInputs
    <2>1. CASE UNCHANGED configs
      BY <1>1, <2>1 DEF Ordered
    <2>2. CASE configs' = DefaultConfigs
      BY <2>2, DefaultsAreOrdered
    <2>3. ASSUME NEW c \in Address, NEW input \in ConfigInputs,
                 SetConfig(c, input.severity, input.config)
          PROVE  Ordered(configs')
      BY <1>1, <2>3, LedgerInputAssumption, AcceptedKeepsOrder DEF LInv, TypeOK, SetConfig
    <2>4. ASSUME NEW c \in Address, NEW imported \in ImportInputs, ImportConfigMap(c, imported)
          PROVE  configs' \in ImportInputs
      BY <2>4 DEF ImportConfigMap
    <2>5. ASSUME NEW a \in Address, NEW o \in Address, Initialize(a, o)
          PROVE  configs' = DefaultConfigs
      BY <2>5 DEF Initialize
    <2>6. ASSUME NEW c \in Address, ResetConfigToDefaults(c) PROVE configs' = DefaultConfigs
      BY <2>6 DEF ResetConfigToDefaults
    <2>7. ASSUME NEW c \in Address,
                 \/ \E limit \in RetentionInputs : SetRetentionLimit(c, limit)
                 \/ \E limit \in DurationInputs : SetMaxOutageDuration(c, limit)
                 \/ PruneHistoryQueue(c)
                 \/ \E n \in PruneInputs : PruneHistory(c, n) \/ PruneHistoryByAge(c, n)
                 \/ \E outage \in Outage, report \in Reports :
                      CalculateSla(c, outage, report.severity, report.mttr)
          PROVE  UNCHANGED configs
      BY <2>7 DEF SetRetentionLimit, SetMaxOutageDuration, PruneHistoryQueue, PruneHistory,
                  PruneHistoryByAge, CalculateSla, configVars
    <2>8. CASE Environment \/ UNCHANGED vars
      BY <2>1, <2>8 DEF Environment, vars, ledgerVars, configVars
    <2> QED
      BY <1>1, <2>1, <2>2, <2>3, <2>4, <2>5, <2>6, <2>7, <2>8, CallCases
  <1>2. LInv /\ [LedgerNext]_vars => [step]_vars
    BY <1>1
  <1> QED
    BY <1>2, InductiveInvariant, PTL DEF LedgerSpec, OrderBrokenOnlyByImport

=============================================================================
