-------------------------- MODULE CalculationProofs --------------------------
(***************************************************************************)
(* Proofs about SLACalculations, for every set of configurations within the  *)
(* bounds of set_config, every duration cap, and inputs of any size: a longer *)
(* outage pays no more, the three copies of the formula agree, the months     *)
(* tile the civil calendar, and isqrt and the availabilities round down.      *)
(***************************************************************************)
EXTENDS SLACalculations, Sums, TLAPS

\* What a behaviour has fixed, and the input it has come to.
SweepType == config \in ConfigChoices /\ cap \in Caps /\ input \in Nat

\* A behaviour keeps its configuration and its cap.
THEOREM SweepTypes == Spec => []SweepType
  <1>1. Init => SweepType
    BY DEF Init, SweepType
  <1>2. SweepType /\ [Grow]_sweepVars => SweepType'
    BY DEF SweepType, Grow, sweepVars
  <1> QED
    BY <1>1, <1>2, PTL DEF Spec

\* The configuration is one that set_config accepts, and the cap is not zero.
LEMMA SweptConfig ==
  ASSUME SweepType
  PROVE  config \in SLAConfig /\ InBounds(config) /\ cap \in Nat \ {0}
  BY CalculationAssumption DEF SweepType

-----------------------------------------------------------------------------
(* Arithmetic.                                                             *)

\* The quotient is the whole number of times the divisor fits.
LEMMA Quotient ==
  ASSUME NEW a \in Int, NEW m \in Nat \ {0}
  PROVE  a \div m \in Int /\ m * (a \div m) <= a /\ a < m * (a \div m) + m
  OBVIOUS

LEMMA QuotientMonotone ==
  ASSUME NEW a \in Int, NEW b \in Int, NEW m \in Nat \ {0}, a <= b
  PROVE  a \div m <= b \div m
  OBVIOUS

LEMMA ProductMonotone ==
  ASSUME NEW a \in Int, NEW b \in Int, NEW c \in Nat, a <= b
  PROVE  a * c <= b * c /\ c * a <= c * b
  OBVIOUS

LEMMA ProductOfNaturals ==
  ASSUME NEW a \in Nat, NEW b \in Nat
  PROVE  a * b \in Nat
  OBVIOUS

-----------------------------------------------------------------------------
(* Longer outages.                                                         *)

\* A configuration within the bounds, its better ratings not paid less.
SoundConfig(c) ==
    /\ c \in SLAConfig
    /\ InBounds(c)
    /\ c.top >= c.excel /\ c.excel >= c.good

\* A longer outage has no better rating.
LEMMA RatingFalls ==
  ASSUME NEW c, SoundConfig(c), NEW m \in Nat, NEW k \in Nat, m <= k
  PROVE  /\ c[MetRating(m, c)] \in Nat /\ c[MetRating(k, c)] \in Nat
         /\ c[MetRating(k, c)] <= c[MetRating(m, c)]
  <1>1. c.threshold_minutes \in Nat \ {0}
    BY DEF SoundConfig, SLAConfig, InBounds
  <1>2. m * 100 \in Int /\ k * 100 \in Int /\ m * 100 <= k * 100
    OBVIOUS
  <1>3. /\ PerformanceRatio(m, c) \in Int /\ PerformanceRatio(k, c) \in Int
        /\ PerformanceRatio(m, c) <= PerformanceRatio(k, c)
    BY <1>1, <1>2, Quotient, QuotientMonotone DEF PerformanceRatio
  <1>4. c.top \in Nat /\ c.excel \in Nat /\ c.good \in Nat
        /\ c.top >= c.excel /\ c.excel >= c.good
    BY DEF SoundConfig, SLAConfig
  <1> QED
    BY <1>3, <1>4 DEF MetRating

\* What is paid for an outage within the threshold falls with its length.
LEMMA RewardFalls ==
  ASSUME NEW c, SoundConfig(c), NEW m \in Nat, NEW k \in Nat, m <= k
  PROVE  Reward(k, c) \in Int /\ Reward(m, c) \in Int /\ Reward(k, c) <= Reward(m, c) /\ 0 <= Reward(m, c)
  <1> DEFINE base == c.reward_base
             low == c[MetRating(k, c)]
             high == c[MetRating(m, c)]
  <1>1. base \in Nat
    BY DEF SoundConfig, SLAConfig, InBounds
  <1>2. low \in Nat /\ high \in Nat /\ low <= high
    BY RatingFalls
  <1> HIDE DEF base, low, high
  <1>3. base * low \in Nat /\ base * high \in Nat
    BY <1>1, <1>2, ProductOfNaturals
  <1>4. base * low <= base * high
    BY <1>1, <1>2, ProductMonotone
  <1>5. (base * low) \div 100 <= (base * high) \div 100 /\ 0 <= (base * high) \div 100
    BY <1>3, <1>4
  <1>6. (base * low) \div 100 \in Int /\ (base * high) \div 100 \in Int
    BY <1>3
  <1> QED
    BY <1>5, <1>6 DEF Reward, base, low, high

\* What is charged for an outage over the threshold grows with its length.
LEMMA PenaltyGrows ==
  ASSUME NEW c, c \in SLAConfig, InBounds(c), NEW m \in Nat, NEW k \in Nat, m <= k, Breach(m, c)
  PROVE  /\ Penalty(m, c) \in Int /\ Penalty(k, c) \in Int
         /\ 0 < Penalty(m, c) /\ Penalty(m, c) <= Penalty(k, c)
  <1> DEFINE rate == c.penalty_per_minute
             less == Overtime(m, c)
             more == Overtime(k, c)
  <1>1. rate \in Nat \ {0}
    BY DEF SLAConfig, InBounds
  <1>2. less \in Nat \ {0} /\ more \in Nat /\ less <= more
    BY DEF SLAConfig, Breach, Overtime
  <1> HIDE DEF rate, less, more
  <1>3. less * rate \in Nat /\ more * rate \in Nat /\ 0 < less * rate
    BY <1>1, <1>2
  <1>4. less * rate <= more * rate
    BY <1>1, <1>2, ProductMonotone
  <1> QED
    BY <1>3, <1>4 DEF Penalty, rate, less, more

\* The outcomes across the threshold.
LEMMA OutcomeFalls ==
  ASSUME NEW c, SoundConfig(c), NEW m \in Nat \ {0}, NEW k \in Nat \ {0}, m <= k
  PROVE  /\ ComputeResult(m, c).amount \in Int /\ ComputeResult(k, c).amount \in Int
         /\ ComputeResult(k, c).amount <= ComputeResult(m, c).amount
  <1>1. c \in SLAConfig /\ InBounds(c)
    BY DEF SoundConfig
  <1>2. Breach(m, c) => Breach(k, c)
    BY <1>1 DEF Breach, SLAConfig
  <1>3. \A n \in Nat \ {0} :
          ComputeResult(n, c).amount = IF Breach(n, c) THEN -Penalty(n, c) ELSE Reward(n, c)
    BY DEF ComputeResult, Violated, Met, Outcome
  <1>4. Reward(k, c) \in Int /\ Reward(m, c) \in Int /\ Reward(k, c) <= Reward(m, c) /\ 0 <= Reward(m, c)
    BY RewardFalls
  <1>5. CASE Breach(m, c)
    <2>1. /\ Penalty(m, c) \in Int /\ Penalty(k, c) \in Int /\ Penalty(m, c) <= Penalty(k, c)
      BY <1>1, <1>5, PenaltyGrows
    <2>2. -Penalty(m, c) \in Int /\ -Penalty(k, c) \in Int /\ -Penalty(k, c) <= -Penalty(m, c)
      BY <2>1
    <2> QED
      BY <1>2, <1>3, <1>5, <2>2
  <1>6. CASE ~Breach(m, c) /\ Breach(k, c)
    <2>1. Penalty(k, c) \in Int /\ 0 < Penalty(k, c)
      BY <1>1, <1>6, PenaltyGrows
    <2>2. -Penalty(k, c) \in Int /\ -Penalty(k, c) <= Reward(m, c)
      BY <1>4, <2>1
    <2> QED
      BY <1>3, <1>4, <1>6, <2>2
  <1>7. CASE ~Breach(m, c) /\ ~Breach(k, c)
    BY <1>3, <1>4, <1>7
  <1> QED
    BY <1>5, <1>6, <1>7

\* A larger penalty is not smaller after the discount.
LEMMA DiscountMonotone ==
  ASSUME NEW a \in Int, NEW b \in Int, a <= b, NEW sites \in 0..4
  PROVE  Discounted(a, sites) <= Discounted(b, sites)
  <1>1. DiscountFactor(sites) \in {7, 8, 9, 10}
    BY DEF DiscountFactor
  <1>2. ASSUME NEW f \in {7, 8, 9, 10}
        PROVE  /\ a <= 0 /\ b > 0 => 0 <= (b * f) \div 10
               /\ a > 0 => (a * f) \div 10 <= (b * f) \div 10
    OBVIOUS
  <1> QED
    BY <1>1, <1>2 DEF Discounted

\* A longer outage never pays the operator more, whatever the thresholds, rates and
\* multipliers within the bounds of set_config, nor is it charged less after the
\* discount for several sites (compute_result, apply_multi_site_discount).
THEOREM LongerPaysLess == Spec => LongerNeverPaysMore
  <1> DEFINE step == input > 0 /\ OrderedMultipliers =>
        /\ Result(input').amount <= Result(input).amount
        /\ \A sites \in 0..4 :
             Discounted(-Result(input').amount, sites) >= Discounted(-Result(input).amount, sites)
  <1>1. ASSUME SweepType, [Grow]_sweepVars, input > 0, OrderedMultipliers PROVE step
    <2> DEFINE m == EffectiveMttr(input, cap)
               k == EffectiveMttr(input', cap)
    <2>1. input' \in Nat /\ input \in Nat /\ input <= input'
      BY <1>1 DEF Grow, sweepVars, SweepType
    <2>2. m \in Nat \ {0} /\ k \in Nat \ {0} /\ m <= k
      BY <1>1, <2>1, SweptConfig DEF EffectiveMttr
    <2>3. SoundConfig(config)
      BY <1>1, SweptConfig DEF SoundConfig, OrderedMultipliers
    <2> DEFINE less == Result(input').amount
               more == Result(input).amount
    <2>4. less \in Int /\ more \in Int /\ less <= more
      BY <2>2, <2>3, OutcomeFalls DEF Result
    <2> HIDE DEF less, more
    <2>5. -more \in Int /\ -less \in Int /\ -more <= -less
      BY <2>4
    <2>6. ASSUME NEW sites \in 0..4
          PROVE  Discounted(-less, sites) >= Discounted(-more, sites)
      BY <2>5, DiscountMonotone
    <2> QED
      BY <2>4, <2>6 DEF less, more
  <1>2. SweepType /\ [Grow]_sweepVars => [step]_sweepVars
    BY <1>1
  <1> QED
    BY <1>2, SweepTypes, PTL DEF Spec, LongerNeverPaysMore

-----------------------------------------------------------------------------
(* The copies of the formula.                                              *)

\* The outcome on each path, for a duration within the cap.
LEMMA ForecastAgrees == SweepType => SimulationForecasts
  <1> SUFFICES ASSUME SweepType, Accepted(input)
               PROVE  /\ ComputeSla(input, cap, config).is_breach <=> Result(input).status = "viol"
                      /\ ComputeSla(input, cap, config).penalty_amount
                           = IF Result(input).amount < 0 THEN -Result(input).amount ELSE 0
    BY DEF SimulationForecasts
  <1> DEFINE m == EffectiveMttr(input, cap)
  <1>1. config \in SLAConfig /\ InBounds(config) /\ m \in Nat
    BY SweptConfig DEF SweepType, EffectiveMttr
  <1> HIDE DEF m
  <1>2. /\ ComputeSla(input, cap, config).is_breach = Breach(m, config)
        /\ ComputeSla(input, cap, config).penalty_amount
             = IF Breach(m, config) THEN Penalty(m, config) ELSE 0
        /\ Result(input) = ComputeResult(m, config)
    BY DEF ComputeSla, Result, m
  <1>3. CASE m = 0
    <2>1. ~Breach(m, config)
      BY <1>1, <1>3 DEF Breach, SLAConfig
    <2>2. ComputeResult(m, config) = Outcome("met", 0, "top")
      BY <1>3 DEF ComputeResult
    <2> QED
      BY <1>2, <2>1, <2>2 DEF Outcome
  <1>4. CASE m # 0 /\ Breach(m, config)
    <2>1. Penalty(m, config) \in Int /\ 0 < Penalty(m, config)
      BY <1>1, <1>4, PenaltyGrows
    <2>2. ComputeResult(m, config) = Outcome("viol", -Penalty(m, config), "poor")
      BY <1>4 DEF ComputeResult, Violated
    <2>3. -Penalty(m, config) < 0 /\ -(-Penalty(m, config)) = Penalty(m, config)
      BY <2>1
    <2> QED
      BY <1>2, <1>4, <2>2, <2>3 DEF Outcome
  <1>5. CASE m # 0 /\ ~Breach(m, config)
    <2>1. ComputeResult(m, config) = Outcome("met", Reward(m, config), MetRating(m, config))
      BY <1>5 DEF ComputeResult, Met
    <2>2. Reward(m, config) \in Int /\ 0 <= Reward(m, config)
      <3>1. config.reward_base \in Nat /\ config[MetRating(m, config)] \in Nat
        BY <1>1 DEF SLAConfig, InBounds, MetRating
      <3>2. config.reward_base * config[MetRating(m, config)] \in Nat
        BY <3>1, ProductOfNaturals
      <3> QED
        BY <3>2 DEF Reward
    <2> QED
      BY <1>2, <1>5, <2>1, <2>2 DEF Outcome
  <1> QED
    BY <1>3, <1>4, <1>5

LEMMA BatchAgrees ==
  ASSUME SweepType, NEW mttr \in 1..cap
  PROVE  ProcessSingle(mttr, config) = Result(mttr)
  <1>1. EffectiveMttr(mttr, cap) = mttr /\ mttr # 0
    BY SweptConfig DEF EffectiveMttr
  <1> QED
    BY <1>1 DEF ProcessSingle, Result, ComputeResult

\* The amount of an outcome is a number.
LEMMA AmountType ==
  ASSUME SweepType, NEW mttr \in Nat
  PROVE  Result(mttr).amount \in Int
  <1> DEFINE m == EffectiveMttr(mttr, cap)
  <1>1. config \in SLAConfig /\ m \in Nat
    BY SweptConfig DEF EffectiveMttr
  <1> HIDE DEF m
  <1>2. Penalty(m, config) \in Int
    BY <1>1 DEF Penalty, Overtime, SLAConfig
  <1>3. Reward(m, config) \in Int
    <2>1. config.reward_base \in Int /\ config[MetRating(m, config)] \in Int
      BY <1>1 DEF SLAConfig, MetRating
    <2>2. config.reward_base * config[MetRating(m, config)] \in Int
      BY <2>1
    <2> QED
      BY <2>2 DEF Reward
  <1>4. ComputeResult(m, config).amount \in Int
    BY <1>2, <1>3 DEF ComputeResult, Violated, Met, Outcome
  <1> QED
    BY <1>4 DEF Result, m

\* The sum of a summary, as a sum over the entries of a function.
LEMMA TotalOfEntries ==
  ASSUME NEW results, NEW chosen
  PROVE  TotalOf(results, chosen) = SumOver([i \in chosen |-> results[i].result.amount], chosen)
  BY Zenon DEF TotalOf, SumOver, MapThenSumSet, MapThenFoldSet

LEMMA TotalIsSum ==
  ASSUME NEW results, NEW chosen, IsFiniteSet(chosen), NEW amounts,
         \A i \in chosen : amounts[i] \in Int /\ results[i].result.amount = amounts[i]
  PROVE  TotalOf(results, chosen) = SumOver(amounts, chosen)
  <1> DEFINE f == [i \in chosen |-> results[i].result.amount]
  <1>1. TotalOf(results, chosen) = SumOver(f, chosen)
    BY TotalOfEntries
  <1>2. \A i \in chosen : f[i] \in Int /\ f[i] = amounts[i]
    OBVIOUS
  <1> HIDE DEF f
  <1>3. SumOver(f, chosen) = SumOver(amounts, chosen)
    BY <1>2, SumSame
  <1> QED
    BY <1>1, <1>3

\* The batch succeeds where calculate_sla would, and its summary is the sum of what
\* calculate_sla would give.
LEMMA SummaryAgrees == SweepType => BatchesSumUp
  <1> SUFFICES ASSUME SweepType, ValidBatch(Batch), input \in 1..cap PROVE BatchesSumUp
    BY DEF BatchesSumUp
  <1> DEFINE results == BatchResults(Batch, Configs)
             summary == BatchSummary(results)
             served == {i \in DOMAIN Batch :
                          Batch[i].mttr > 0 /\ Batch[i].severity \in Configured(Configs)}
             breached == {i \in served : ComputeSla(Batch[i].mttr, cap, config).is_breach}
             done == {i \in DOMAIN results : results[i].success}
             violated == {i \in done : results[i].result.status = "viol"}
             amounts == [i \in 1..4 |-> Result(Batch[i].mttr).amount]
  <1>1. /\ DOMAIN Batch = 1..4 /\ Len(Batch) = 4
        /\ \A i \in 1..4 : Batch[i].mttr \in 0..cap /\ (Batch[i].mttr > 0 => Batch[i].mttr \in 1..cap)
    <2>1. cap \in Nat /\ input \in Nat /\ input \div 2 \in 0..cap
      BY SweptConfig DEF SweepType
    <2>2. 1 \in 0..cap
      BY <2>1
    <2>3. \A n \in 0..cap : n > 0 => n \in 1..cap
      BY <2>1
    <2>4. /\ Batch[1].mttr = input /\ Batch[2].mttr = input \div 2
          /\ Batch[3].mttr = 0 /\ Batch[4].mttr = 1
          /\ DOMAIN Batch = 1..4 /\ Len(Batch) = 4
      BY DEF Batch, Asked
    <2>5. \A i \in 1..4 : Batch[i].mttr \in 0..cap
      <3>1. input \in 0..cap /\ 0 \in 0..cap
        BY <2>1
      <3>2. \A i \in 1..4 : i = 1 \/ i = 2 \/ i = 3 \/ i = 4
        OBVIOUS
      <3> QED
        BY <2>1, <2>2, <2>4, <3>1, <3>2
    <2> QED
      BY <2>3, <2>4, <2>5
  <1>2. /\ DOMAIN results = 1..4 /\ Len(results) = 4
        /\ \A i \in 1..4 : results[i] = BatchItem(Batch[i], Configs)
    BY <1>1 DEF BatchResults
  <1>3. \A s \in Configured(Configs) : Configs[s] = config
    <2>1. \A s \in Severity : Configs[s] = config \/ Configs[s] = NoConfig
      BY DEF Configs, NoConfigs
    <2> QED
      BY <2>1 DEF Configured
  <1>4. \A i \in 1..4 :
          /\ results[i].outage_id = Batch[i].outage_id
          /\ results[i].success <=> i \in served
          /\ i \in served => results[i].result = Result(Batch[i].mttr)
    <2> TAKE i \in 1..4
    <2> DEFINE request == Batch[i]
    <2>1. BatchAccepts(request.severity, request.mttr, Configs) <=> i \in served
      BY <1>1 DEF BatchAccepts
    <2>2. ASSUME i \in served
          PROVE  ProcessSingle(request.mttr, Configs[request.severity]) = Result(request.mttr)
      BY <1>1, <1>3, <2>2, BatchAgrees
    <2> HIDE DEF served, results, request
    <2>3. /\ BatchItem(request, Configs).outage_id = request.outage_id
          /\ BatchItem(request, Configs).success
               = BatchAccepts(request.severity, request.mttr, Configs)
          /\ BatchAccepts(request.severity, request.mttr, Configs) =>
               BatchItem(request, Configs).result
                 = ProcessSingle(request.mttr, Configs[request.severity])
      BY DEF BatchItem
    <2> QED
      BY <1>2, <2>1, <2>2, <2>3 DEF request
  <1> HIDE DEF results
  <1>5. done = served
    BY <1>1, <1>2, <1>4
  <1>6. violated = breached
    <2>1. ASSUME NEW i \in served
          PROVE  ComputeSla(Batch[i].mttr, cap, config).is_breach
                   <=> Result(Batch[i].mttr).status = "viol"
      <3>1. Batch[i].mttr \in 1..cap
        BY <1>1
      <3>2. ProcessSingle(Batch[i].mttr, config) = Result(Batch[i].mttr)
        BY <3>1, BatchAgrees
      <3>3. EffectiveMttr(Batch[i].mttr, cap) = Batch[i].mttr
        BY <3>1, SweptConfig DEF EffectiveMttr
      <3> QED
        BY <3>2, <3>3 DEF ProcessSingle, ComputeSla, Violated, Met, Outcome
    <2> QED
      BY <1>1, <1>4, <1>5, <2>1
  <1>7. served \subseteq 1..4 /\ breached \subseteq served
    BY <1>1
  <1>8. IsFiniteSet(served) /\ IsFiniteSet(breached) /\ IsFiniteSet(served \ breached)
    <2>1. IsFiniteSet(1..4)
      <3>1. 1 \in Int /\ 4 \in Int
        OBVIOUS
      <3> QED
        BY <3>1, FS_Interval
    <2> QED
      BY <1>7, <2>1, FS_Subset
  <1> DEFINE Sum(items) == MapThenSumSet(LAMBDA i : Result(Batch[i].mttr).amount, items)
  <1>9. ASSUME NEW items \in SUBSET served, IsFiniteSet(items)
        PROVE  TotalOf(results, items) = Sum(items)
    <2> DEFINE f == [i \in items |-> Result(Batch[i].mttr).amount]
    <2>1. Sum(items) = SumOver(f, items)
      BY Zenon DEF SumOver, MapThenSumSet, MapThenFoldSet
    <2>2. ASSUME NEW i \in items PROVE f[i] \in Int /\ results[i].result.amount = f[i]
      <3>1. Batch[i].mttr \in Nat
        BY <1>1, <1>7, SweptConfig
      <3> QED
        BY <1>4, <1>7, <3>1, AmountType
    <2> HIDE DEF f
    <2>3. TotalOf(results, items) = SumOver(f, items)
      BY <1>9, <2>2, TotalIsSum
    <2> QED
      BY <2>1, <2>3
  <1>10. /\ summary.total = 4 /\ summary.succeeded = Cardinality(done)
         /\ summary.failed = 4 - Cardinality(done)
         /\ summary.total_rewards = TotalOf(results, done \ violated)
         /\ summary.total_penalties = TotalOf(results, violated)
    BY <1>2 DEF BatchSummary
  <1>11. Cardinality(served) \in Nat
    BY <1>8, FS_CardinalityType
  <1>12. ASSUME NEW i \in 1..4
         PROVE  find_result_by_outage_id(results, Batch[i].outage_id) = results[i]
    <2> DEFINE found == {j \in DOMAIN results : results[j].outage_id = Batch[i].outage_id}
    <2>1. found = {i}
      BY <1>1, <1>2, <1>4 DEF ValidBatch
    <2>2. Min({i}) = i
      BY DEF Min
    <2> HIDE DEF found
    <2>3. find_result_by_outage_id(results, Batch[i].outage_id)
            = IF found = {} THEN NoResult ELSE results[Min(found)]
      BY DEF find_result_by_outage_id, found
    <2> QED
      BY <2>1, <2>2, <2>3
  <1> HIDE DEF served, breached, done, violated, summary, Sum
  <1>13. summary.total_penalties = Sum(breached) /\ summary.total_rewards = Sum(served \ breached)
    BY <1>5, <1>6, <1>7, <1>8, <1>9, <1>10
  <1>14. /\ {summary.total, summary.succeeded + summary.failed} = {Len(Batch)}
         /\ summary.succeeded = Cardinality(served)
    <2>1. summary.succeeded + summary.failed = 4
      BY <1>5, <1>10, <1>11
    <2> QED
      BY <1>1, <1>5, <1>10, <2>1
  <1> QED
    BY <1>1, <1>12, <1>13, <1>14
       DEF BatchesSumUp, results, summary, served, breached, Sum

\* The formula is written three times, and says the same: simulate_sla forecasts the
\* verdict and the penalty that calculate_sla books, and a batch gives what
\* calculate_sla gives, item by item and in sum (compute_sla, process_single).
THEOREM FormulasAgree == Spec => []CopiesAgree
  <1>1. SweepType => CopiesAgree
    BY ForecastAgrees, BatchAgrees, SummaryAgrees, SweptConfig DEF CopiesAgree, BatchRecalculates
  <1> QED
    BY <1>1, SweepTypes, PTL

-----------------------------------------------------------------------------
(* The calendar.                                                           *)

LEMMA EpochType == EpochYear \in Nat
  BY DEF EpochYear

YearLengths == [year \in Nat |-> DaysInYear(year)]
MonthLengths(year) == [month \in 1..12 |-> DaysInMonth(year, month)]

\* The days of the years from EpochYear, and of the months of a year, before the given one.
DaysOfYears(year) == SumOver(YearLengths, EpochYear..(year - 1))
DaysOfMonths(year, month) == SumOver(MonthLengths(year), 1..(month - 1))

LEMMA YearLength ==
  ASSUME NEW year \in Nat
  PROVE  YearLengths[year] = DaysInYear(year) /\ DaysInYear(year) \in Nat /\ YearLengths[year] \in Int
  BY DEF YearLengths, DaysInYear

LEMMA MonthLength ==
  ASSUME NEW year \in Nat, NEW month \in 1..12
  PROVE  /\ MonthLengths(year)[month] = DaysInMonth(year, month)
         /\ DaysInMonth(year, month) \in Nat /\ MonthLengths(year)[month] \in Int
  <1>1. month \in {1, 3, 5, 7, 8, 10, 12} \/ month \in {4, 6, 9, 11} \/ month = 2
    OBVIOUS
  <1>2. DaysInMonth(year, month) \in Nat
    BY <1>1 DEF DaysInMonth
  <1>3. MonthLengths(year)[month] = DaysInMonth(year, month)
    BY DEF MonthLengths
  <1> QED
    BY <1>2, <1>3

\* The model's sums are these sums.
LEMMA DaysBeforeUnfolds ==
  ASSUME NEW year, NEW month
  PROVE  DaysBefore(year, month) =
           SumOver([y \in EpochYear..(year - 1) |-> DaysInYear(y)], EpochYear..(year - 1))
           + SumOver([m \in 1..(month - 1) |-> DaysInMonth(year, m)], 1..(month - 1))
  <1> DEFINE years == EpochYear..(year - 1)
             months == 1..(month - 1)
             yearSum == MapThenSumSet(DaysInYear, years)
             monthSum == MapThenSumSet(LAMBDA m : DaysInMonth(year, m), months)
  <1>1. DaysBefore(year, month) = yearSum + monthSum
    BY Zenon DEF DaysBefore
  <1>2. yearSum = SumOver([y \in years |-> DaysInYear(y)], years)
    BY Zenon DEF SumOver, MapThenSumSet, MapThenFoldSet
  <1>3. monthSum = SumOver([m \in months |-> DaysInMonth(year, m)], months)
    BY Zenon DEF SumOver, MapThenSumSet, MapThenFoldSet
  <1> HIDE DEF yearSum, monthSum
  <1> QED
    BY <1>1, <1>2, <1>3, Zenon

LEMMA DaysBeforeIsSum ==
  ASSUME NEW year \in Nat, NEW month \in 1..13
  PROVE  /\ DaysBefore(year, month) = DaysOfYears(year) + DaysOfMonths(year, month)
         /\ DaysOfYears(year) \in Int /\ DaysOfMonths(year, month) \in Int
  <1> DEFINE years == EpochYear..(year - 1)
             months == 1..(month - 1)
             f == [y \in years |-> DaysInYear(y)]
             g == [m \in months |-> DaysInMonth(year, m)]
  <1>1. DaysBefore(year, month) = SumOver(f, years) + SumOver(g, months)
    BY DaysBeforeUnfolds, Zenon
  <1>2. IsFiniteSet(years) /\ IsFiniteSet(months)
    <2>1. EpochYear \in Int /\ year - 1 \in Int /\ 1 \in Int /\ month - 1 \in Int
      BY EpochType
    <2> QED
      BY <2>1, FS_Interval
  <1>3. ASSUME NEW y \in years
        PROVE  f[y] \in Int /\ f[y] = YearLengths[y] /\ YearLengths[y] \in Int
    <2>1. y \in Nat /\ f[y] = DaysInYear(y)
      BY EpochType
    <2> HIDE DEF f, years
    <2> QED
      BY <2>1, YearLength
  <1>4. ASSUME NEW m \in months
        PROVE  g[m] \in Int /\ g[m] = MonthLengths(year)[m] /\ MonthLengths(year)[m] \in Int
    <2>1. m \in 1..12 /\ g[m] = DaysInMonth(year, m)
      OBVIOUS
    <2> HIDE DEF g, months
    <2> QED
      BY <2>1, MonthLength
  <1> HIDE DEF f, g, years, months
  <1>5. SumOver(f, years) = SumOver(YearLengths, years) /\ SumOver(YearLengths, years) \in Int
    BY <1>2, <1>3, SumSame, SumInt
  <1>6. /\ SumOver(g, months) = SumOver(MonthLengths(year), months)
        /\ SumOver(MonthLengths(year), months) \in Int
    BY <1>2, <1>4, SumSame, SumInt
  <1> QED
    BY <1>1, <1>5, <1>6 DEF DaysOfYears, DaysOfMonths, years, months

\* One more month, and one more year.
LEMMA MonthAdds ==
  ASSUME NEW year \in Nat, NEW month \in 1..12
  PROVE  DaysOfMonths(year, month + 1) = DaysOfMonths(year, month) + DaysInMonth(year, month)
  <1> DEFINE months == 1..(month - 1)
             f == MonthLengths(year)
  <1>1. 1..((month + 1) - 1) = months \cup {month} /\ month \notin months
    OBVIOUS
  <1>2. \A m \in months \cup {month} : f[m] \in Int
    <2>1. \A m \in months \cup {month} : m \in 1..12
      OBVIOUS
    <2> QED
      BY <2>1, MonthLength
  <1>3. IsFiniteSet(months)
    <2>1. 1 \in Int /\ month - 1 \in Int
      OBVIOUS
    <2> QED
      BY <2>1, FS_Interval
  <1>4. f[month] = DaysInMonth(year, month) /\ DaysInMonth(year, month) \in Nat
    BY MonthLength
  <1> HIDE DEF months, f
  <1>5. SumOver(f, months \cup {month}) = f[month] + SumOver(f, months)
    BY <1>1, <1>2, <1>3, SumAdd
  <1>6. SumOver(f, months) \in Int
    BY <1>2, <1>3, SumInt
  <1>7. SumOver(f, 1..((month + 1) - 1)) = SumOver(f, months) + DaysInMonth(year, month)
    <2>1. SumOver(f, 1..((month + 1) - 1)) = DaysInMonth(year, month) + SumOver(f, months)
      BY <1>1, <1>4, <1>5, Zenon
    <2>2. \A a, b \in Int : a + b = b + a
      OBVIOUS
    <2> QED
      BY <1>4, <1>6, <2>1, <2>2
  <1> QED
    BY <1>7 DEF DaysOfMonths, months, f

LEMMA YearAdds ==
  ASSUME NEW year \in Nat, year >= EpochYear
  PROVE  DaysOfYears(year + 1) = DaysOfYears(year) + DaysInYear(year)
  <1> DEFINE years == EpochYear..(year - 1)
             longer == EpochYear..((year + 1) - 1)
  <1>1. longer = years \cup {year} /\ year \notin years
    OBVIOUS
  <1>2. \A y \in years \cup {year} : YearLengths[y] \in Int
    <2>1. \A y \in years \cup {year} : y \in Nat
      BY EpochType
    <2> QED
      BY <2>1, YearLength
  <1>3. IsFiniteSet(years)
    <2>1. EpochYear \in Int /\ year - 1 \in Int
      BY EpochType
    <2> QED
      BY <2>1, FS_Interval
  <1>4. YearLengths[year] = DaysInYear(year) /\ DaysInYear(year) \in Nat
    BY YearLength
  <1> HIDE DEF years, longer
  <1>5. SumOver(YearLengths, years \cup {year}) = YearLengths[year] + SumOver(YearLengths, years)
    BY <1>1, <1>2, <1>3, SumAdd
  <1>6. SumOver(YearLengths, years) \in Int
    BY <1>2, <1>3, SumInt
  <1>7. SumOver(YearLengths, longer) = SumOver(YearLengths, years) + DaysInYear(year)
    <2>1. SumOver(YearLengths, longer) = DaysInYear(year) + SumOver(YearLengths, years)
      BY <1>1, <1>4, <1>5, Zenon
    <2>2. \A a, b \in Int : a + b = b + a
      OBVIOUS
    <2> QED
      BY <1>4, <1>6, <2>1, <2>2
  <1> QED
    BY <1>7 DEF DaysOfYears, years, longer

\* Before the first month and the first year there are no days.
LEMMA CalendarStarts ==
  ASSUME NEW year \in Nat
  PROVE  DaysOfMonths(year, 1) = 0 /\ DaysOfYears(EpochYear) = 0
  <1>1. 1..(1 - 1) = {} /\ EpochYear..(EpochYear - 1) = {}
    BY EpochType
  <1>2. SumOver(MonthLengths(year), {}) = 0 /\ SumOver(YearLengths, {}) = 0
    BY SumEmpty
  <1> QED
    BY <1>1, <1>2 DEF DaysOfMonths, DaysOfYears

\* The twelve months make the year.
LEMMA MonthsMakeYear ==
  ASSUME NEW year \in Nat
  PROVE  DaysOfMonths(year, 12) + DaysInMonth(year, 12) = DaysInYear(year)
  <1> DEFINE days(month) == DaysOfMonths(year, month)
             february == IF IsLeap(year) THEN 29 ELSE 28
  <1>1. \A month \in 1..12 : days(month + 1) = days(month) + DaysInMonth(year, month)
    BY MonthAdds
  <1>2. \A month \in {1, 3, 5, 7, 8, 10, 12} : DaysInMonth(year, month) = 31
    BY DEF DaysInMonth
  <1>3. \A month \in {4, 6, 9, 11} : DaysInMonth(year, month) = 30
    BY DEF DaysInMonth
  <1>4. DaysInMonth(year, 2) = february
    BY DEF DaysInMonth
  <1>5. days(1) = 0
    BY CalendarStarts
  <1> HIDE DEF days
  <1>6. february \in {28, 29}
    OBVIOUS
  <1>7. DaysInYear(year) = 337 + february
    BY DEF DaysInYear
  <1> HIDE DEF february
  <1>8. days(3) = 31 + february
    BY <1>1, <1>2, <1>4, <1>5, <1>6
  <1>9. days(6) = 123 + february
    BY <1>1, <1>2, <1>3, <1>6, <1>8
  <1>10. days(9) = 215 + february
    BY <1>1, <1>2, <1>3, <1>6, <1>9
  <1>11. days(12) = 306 + february
    BY <1>1, <1>2, <1>3, <1>6, <1>10
  <1>12. days(12) + DaysInMonth(year, 12) = 337 + february
    BY <1>2, <1>6, <1>11
  <1> QED
    BY <1>7, <1>12 DEF days

\* The Gregorian count grows by the length of the year.
LEMMA CountAdds ==
  ASSUME NEW year \in Nat, year >= EpochYear
  PROVE  DaysToJanuary(year + 1) = DaysToJanuary(year) + DaysInYear(year)
  <1>1. \A n \in {4, 100, 400} :
          year \div n = (year - 1) \div n + (IF year % n = 0 THEN 1 ELSE 0)
    <2>1. year \div 4 = (year - 1) \div 4 + (IF year % 4 = 0 THEN 1 ELSE 0)
      OBVIOUS
    <2>2. year \div 100 = (year - 1) \div 100 + (IF year % 100 = 0 THEN 1 ELSE 0)
      OBVIOUS
    <2>3. year \div 400 = (year - 1) \div 400 + (IF year % 400 = 0 THEN 1 ELSE 0)
      OBVIOUS
    <2> QED
      BY <2>1, <2>2, <2>3
  <1>2. (year % 400 = 0 => year % 100 = 0) /\ (year % 100 = 0 => year % 4 = 0)
    OBVIOUS
  <1>3. /\ year \div 4 \in Int /\ year \div 100 \in Int /\ year \div 400 \in Int
        /\ (year - 1) \div 4 \in Int /\ (year - 1) \div 100 \in Int /\ (year - 1) \div 400 \in Int
    OBVIOUS
  <1>4. LeapYearsUpTo(year) = LeapYearsUpTo(year - 1) + (IF IsLeap(year) THEN 1 ELSE 0)
    BY <1>1, <1>2, <1>3 DEF LeapYearsUpTo, IsLeap
  <1>5. LeapYearsUpTo(year - 1) \in Int /\ LeapYearsUpTo(EpochYear - 1) \in Int /\ (year + 1) - 1 = year
    BY <1>3, EpochType DEF LeapYearsUpTo
  <1> QED
    BY <1>4, <1>5, EpochType DEF DaysToJanuary, DaysInYear

\* The years start on the days of the Gregorian count: take the least year that does
\* not.
LEMMA YearsFollowCount ==
  ASSUME NEW year \in Nat, year >= EpochYear
  PROVE  DaysOfYears(year) = DaysToJanuary(year)
  <1> DEFINE Bad == {y \in Nat : y >= EpochYear /\ DaysOfYears(y) # DaysToJanuary(y)}
  <1>1. ASSUME Bad # {} PROVE FALSE
    <2>0. Bad \subseteq Nat
      OBVIOUS
    <2>1. PICK y \in Bad : \A z \in Bad : y <= z
      <3> HIDE DEF Bad
      <3> QED
        BY <1>1, <2>0, LeastNatural
    <2>2. CASE y = EpochYear
      <3>1. DaysToJanuary(EpochYear) = 0
        BY EpochType DEF DaysToJanuary, LeapYearsUpTo
      <3> QED
        BY <2>1, <2>2, <3>1, CalendarStarts
    <2>3. CASE y # EpochYear
      <3>1. y - 1 \in Nat /\ y - 1 >= EpochYear /\ (y - 1) + 1 = y /\ ~(y <= y - 1)
        BY <2>1, <2>3, EpochType
      <3>2. DaysOfYears(y - 1) = DaysToJanuary(y - 1)
        BY <2>1, <3>1
      <3>3. /\ DaysOfYears((y - 1) + 1) = DaysOfYears(y - 1) + DaysInYear(y - 1)
            /\ DaysToJanuary((y - 1) + 1) = DaysToJanuary(y - 1) + DaysInYear(y - 1)
        BY <3>1, YearAdds, CountAdds
      <3> QED
        BY <2>1, <3>1, <3>2, <3>3
    <2> QED
      BY <2>2, <2>3
  <1> QED
    BY <1>1

\* A month ends where the next one starts, and December at the next January.
LEMMA MonthsMeet ==
  ASSUME NEW year \in Nat, year >= EpochYear, NEW month \in 1..12, NEW day \in Nat
  PROVE  /\ month < 12 => MonthEnd(year, month, day) = MonthStart(year, month + 1, day)
         /\ month = 12 => MonthEnd(year, month, day) = DaysToJanuary(year + 1) * day
         /\ month = 1  => MonthStart(year, month, day) = DaysToJanuary(year) * day
  <1> DEFINE before == DaysBefore(year, month)
             length == DaysInMonth(year, month)
  <1>1. /\ before = DaysOfYears(year) + DaysOfMonths(year, month)
        /\ DaysOfYears(year) \in Int /\ DaysOfMonths(year, month) \in Int
    <2>1. month \in 1..13
      OBVIOUS
    <2> QED
      BY <2>1, DaysBeforeIsSum
  <1>2. length \in Nat
    BY MonthLength
  <1>3. MonthEnd(year, month, day) = (before + length) * day
    <2>1. before \in Int
      BY <1>1
    <2> HIDE DEF before, length
    <2>2. (before + length) * day = before * day + length * day
      BY <1>2, <2>1
    <2> QED
      BY <2>2 DEF MonthEnd, MonthStart, before, length
  <1> HIDE DEF before, length
  <1>4. ASSUME month < 12 PROVE MonthEnd(year, month, day) = MonthStart(year, month + 1, day)
    <2>1. month + 1 \in 1..13
      OBVIOUS
    <2>2. DaysBefore(year, month + 1) = DaysOfYears(year) + DaysOfMonths(year, month + 1)
      BY <2>1, DaysBeforeIsSum
    <2>3. DaysOfMonths(year, month + 1) = DaysOfMonths(year, month) + length
      BY MonthAdds DEF length
    <2>4. DaysBefore(year, month + 1) = before + length
      BY <1>1, <1>2, <2>2, <2>3
    <2> QED
      BY <1>3, <2>4 DEF MonthStart
  <1>5. ASSUME month = 12 PROVE MonthEnd(year, month, day) = DaysToJanuary(year + 1) * day
    <2>1. DaysOfMonths(year, month) + length = DaysInYear(year)
      BY <1>5, MonthsMakeYear DEF length
    <2>2. DaysInYear(year) \in Nat
      BY YearLength
    <2>3. before + length = DaysOfYears(year) + DaysInYear(year)
      BY <1>1, <1>2, <2>1, <2>2
    <2>4. year + 1 \in Nat /\ year + 1 >= EpochYear
      BY EpochType
    <2>5. DaysOfYears(year) + DaysInYear(year) = DaysToJanuary(year + 1)
      BY <2>4, YearAdds, YearsFollowCount
    <2> QED
      BY <1>3, <2>3, <2>5
  <1>6. ASSUME month = 1 PROVE MonthStart(year, month, day) = DaysToJanuary(year) * day
    <2>1. DaysOfMonths(year, month) = 0
      BY <1>6, CalendarStarts
    <2>2. before = DaysToJanuary(year)
      <3>1. before = DaysOfYears(year)
        BY <1>1, <2>1
      <3> QED
        BY <3>1, YearsFollowCount
    <2> QED
      BY <2>2 DEF MonthStart, before
  <1> QED
    BY <1>4, <1>5, <1>6

\* The months of the compliance view tile the time line and their years start on the
\* days of the Gregorian calendar, for every month from 1970
\* (calculate_monthly_sla_compliance).
THEOREM CalendarIsCivil == Spec => []MonthsTileTheCalendar
  <1>1. ASSUME SweepType PROVE MonthsTileTheCalendar
    <2>1. input \div 12 \in Nat /\ input % 12 \in 0..11
      BY <1>1 DEF SweepType
    <2>2. Year \in Nat /\ Year >= EpochYear /\ Month \in 1..12
      BY <2>1, EpochType DEF Year, Month
    <2>3. Day \in Nat
      BY CalculationAssumption
    <2> QED
      BY <2>2, <2>3, MonthsMeet DEF MonthsTileTheCalendar
  <1> QED
    BY <1>1, SweepTypes, PTL

-----------------------------------------------------------------------------
(* isqrt.                                                                  *)

\* One turn of the loop.
Mid(s) == s.low + (s.high - s.low) \div 2
Right(s) == [s EXCEPT !.low = Mid(s) + 1, !.ans = Mid(s)]
Left(s) == [s EXCEPT !.high = Mid(s) - 1]
Fits(n, m) == m <= n \div m
Turn(n, f, s) ==
    IF s.low > s.high THEN s.ans ELSE IF Fits(n, Mid(s)) THEN f[Right(s)] ELSE f[Left(s)]
Searches(n, f) == f = [s \in SearchState(n) |-> Turn(n, f, s)]
Start(n) == [low |-> 1, high |-> n \div 2 + 1, ans |-> 0]

\* isqrt is a solution of the loop's equation, if it has one.
LEMMA SearchEquation ==
  ASSUME NEW n
  PROVE  IsqrtSearch(n) = (CHOOSE f : Searches(n, f))[Start(n)]
  BY Zenon DEF IsqrtSearch, Searches, Turn, Mid, Right, Left, Fits, Start

\* What is left to search, and how much it is.
Candidates(n, s) == {m \in s.low..s.high : Fits(n, m)}
Span(s) == IF s.low > s.high THEN 0 ELSE (s.high - s.low) + 1

\* What the search finds: the largest candidate that fits, or the last answer.
Largest(n) == [s \in SearchState(n) |->
                 IF Candidates(n, s) = {} THEN s.ans ELSE Max(Candidates(n, s))]

LEMMA TurnFields ==
  ASSUME NEW A, NEW B, NEW C, NEW s \in [low : A, high : B, ans : C], NEW x, NEW y
  PROVE  /\ [s EXCEPT !.low = x, !.ans = y].low = x
         /\ [s EXCEPT !.low = x, !.ans = y].high = s.high
         /\ [s EXCEPT !.low = x, !.ans = y].ans = y
         /\ [s EXCEPT !.high = x].low = s.low
         /\ [s EXCEPT !.high = x].high = x
         /\ [s EXCEPT !.high = x].ans = s.ans
         /\ x \in A /\ y \in C => [s EXCEPT !.low = x, !.ans = y] \in [low : A, high : B, ans : C]
         /\ x \in B => [s EXCEPT !.high = x] \in [low : A, high : B, ans : C]
  <1>1. /\ [s EXCEPT !.low = x, !.ans = y].low = x
        /\ [s EXCEPT !.low = x, !.ans = y].high = s.high
        /\ [s EXCEPT !.low = x, !.ans = y].ans = y
    OBVIOUS
  <1>2. /\ [s EXCEPT !.high = x].low = s.low
        /\ [s EXCEPT !.high = x].high = x
        /\ [s EXCEPT !.high = x].ans = s.ans
    OBVIOUS
  <1>3. x \in A /\ y \in C => [s EXCEPT !.low = x, !.ans = y] \in [low : A, high : B, ans : C]
    OBVIOUS
  <1>4. x \in B => [s EXCEPT !.high = x] \in [low : A, high : B, ans : C]
    OBVIOUS
  <1> QED
    BY <1>1, <1>2, <1>3, <1>4

\* A turn keeps to the states of the loop, and leaves less to search.
LEMMA TurnShrinks ==
  ASSUME NEW n \in Nat \ {0}, NEW s \in SearchState(n), ~(s.low > s.high)
  PROVE  /\ Mid(s) \in s.low..s.high /\ Mid(s) \in Nat \ {0}
         /\ Right(s) \in SearchState(n) /\ Left(s) \in SearchState(n)
         /\ Right(s).low = Mid(s) + 1 /\ Right(s).high = s.high /\ Right(s).ans = Mid(s)
         /\ Left(s).low = s.low /\ Left(s).high = Mid(s) - 1 /\ Left(s).ans = s.ans
         /\ Span(s) \in Nat /\ Span(Right(s)) \in Nat /\ Span(Left(s)) \in Nat
         /\ Span(Right(s)) < Span(s) /\ Span(Left(s)) < Span(s)
  <1> DEFINE half == n \div 2
  <1>1. half \in Nat /\ half <= n
    OBVIOUS
  <1>2. /\ s.low \in 1..(half + 2) /\ s.high \in 0..(half + 1) /\ s.ans \in 0..n
    BY DEF SearchState
  <1>3. SearchState(n) = [low : 1..(half + 2), high : 0..(half + 1), ans : 0..n]
    BY DEF SearchState
  <1>4. Mid(s) \in s.low..s.high /\ Mid(s) \in Nat \ {0}
    BY <1>2 DEF Mid
  <1>6. /\ Mid(s) + 1 \in 1..(half + 2) /\ Mid(s) - 1 \in 0..(half + 1) /\ Mid(s) \in 0..n
    <2>1. half + 1 <= n
      OBVIOUS
    <2> HIDE DEF half
    <2> QED
      BY <1>1, <1>2, <1>4, <2>1
  <1> HIDE DEF half
  <1> DEFINE A == 1..(half + 2)
             B == 0..(half + 1)
             C == 0..n
  <1>7. s \in [low : A, high : B, ans : C] /\ SearchState(n) = [low : A, high : B, ans : C]
    BY <1>3
  <1> HIDE DEF A, B, C
  <1>8. /\ Right(s).low = Mid(s) + 1 /\ Right(s).high = s.high /\ Right(s).ans = Mid(s)
        /\ Left(s).low = s.low /\ Left(s).high = Mid(s) - 1 /\ Left(s).ans = s.ans
        /\ Right(s) \in SearchState(n) /\ Left(s) \in SearchState(n)
    <2> DEFINE mid == Mid(s)
               right == [s EXCEPT !.low = mid + 1, !.ans = mid]
               left == [s EXCEPT !.high = mid - 1]
    <2>1. mid + 1 \in A /\ mid - 1 \in B /\ mid \in C
      BY <1>6 DEF A, B, C
    <2> HIDE DEF mid
    <2>2. right.low = mid + 1 /\ right.high = s.high /\ right.ans = mid
          /\ right \in [low : A, high : B, ans : C]
      BY <1>7, <2>1, TurnFields
    <2>3. left.low = s.low /\ left.high = mid - 1 /\ left.ans = s.ans
          /\ left \in [low : A, high : B, ans : C]
      BY <1>7, <2>1, TurnFields
    <2>4. Right(s) = right /\ Left(s) = left
      BY DEF Right, Left, mid
    <2> HIDE DEF right, left
    <2> QED
      BY <1>7, <2>2, <2>3, <2>4 DEF mid
  <1>9. /\ Span(s) \in Nat /\ Span(Right(s)) \in Nat /\ Span(Left(s)) \in Nat
        /\ Span(Right(s)) < Span(s) /\ Span(Left(s)) < Span(s)
    BY <1>2, <1>4, <1>8 DEF Span
  <1> QED
    BY <1>4, <1>8, <1>9

\* What fits is what the square of does not exceed the number; so what is larger than
\* something that does not fit does not fit either.
LEMMA FitsIsSquare ==
  ASSUME NEW n \in Nat, NEW m \in Nat \ {0}
  PROVE  Fits(n, m) <=> m * m <= n
  BY DEF Fits

LEMMA FitsDownwards ==
  ASSUME NEW n \in Nat, NEW m \in Nat \ {0}, NEW k \in Nat \ {0}, m <= k, Fits(n, k)
  PROVE  Fits(n, m)
  <1>1. k * k <= n
    BY FitsIsSquare
  <1>2. m * m <= k * k
    <2>1. m * m <= k * m /\ k * m <= k * k
      BY ProductMonotone
    <2> QED
      BY <2>1
  <1>3. m * m <= n
    BY <1>1, <1>2
  <1> QED
    BY <1>3, FitsIsSquare

\* A non-empty bounded set of numbers has a largest one.
LEMMA LargestIsMax ==
  ASSUME NEW k \in Nat, NEW S \in SUBSET (0..k), S # {}
  PROVE  /\ Max(S) \in S /\ \A m \in S : m <= Max(S)
         /\ \A x \in S : (\A m \in S : m <= x) => Max(S) = x
  <1> DEFINE rests == {k - m : m \in S}
  <1>0. \A m \in S : m \in Nat /\ k - m \in Nat
    <2>1. \A m \in 0..k : m \in Nat /\ k - m \in Nat
      OBVIOUS
    <2> QED
      BY <2>1
  <1>1. rests \subseteq Nat /\ rests # {}
    BY <1>0
  <1> HIDE DEF rests
  <1>2. PICK r \in rests : \A q \in rests : r <= q
    BY <1>1, LeastNatural
  <1>3. PICK x \in S : r = k - x
    BY <1>2 DEF rests
  <1>4. \A m \in S : m <= x
    <2> TAKE m \in S
    <2>1. k - m \in rests
      BY DEF rests
    <2> QED
      BY <1>2, <1>3, <2>1
  <1>5. x \in S /\ \A m \in S : x >= m
    BY <1>4
  <1>6. Max(S) \in S /\ \A m \in S : Max(S) >= m
    <2> DEFINE P(y) == y \in S /\ \A m \in S : y >= m
    <2>1. Max(S) = CHOOSE y : P(y)
      BY Zenon DEF Max
    <2>2. P(x)
      BY <1>5
    <2> HIDE DEF P
    <2>3. P(CHOOSE y : P(y))
      BY <2>2
    <2> QED
      BY <2>1, <2>3 DEF P
  <1>7. Max(S) \in Nat /\ \A m \in S : m \in Nat /\ m <= Max(S)
    <2>1. Max(S) \in Nat
      BY <1>0, <1>6
    <2>2. ASSUME NEW m \in S PROVE m \in Nat /\ m <= Max(S)
      <3>1. m \in Nat /\ Max(S) >= m
        BY <1>0, <1>6
      <3> QED
        BY <2>1, <3>1
    <2> QED
      BY <2>1, <2>2
  <1>8. ASSUME NEW y \in S, \A m \in S : m <= y PROVE Max(S) = y
    <2>1. Max(S) <= y /\ Max(S) >= y /\ y \in Nat
      BY <1>0, <1>6, <1>8
    <2> QED
      BY <1>7, <2>1
  <1> QED
    BY <1>6, <1>7, <1>8

\* The candidates of a state are bounded numbers.
LEMMA CandidatesBounded ==
  ASSUME NEW n \in Nat \ {0}, NEW s \in SearchState(n)
  PROVE  n + 1 \in Nat /\ Candidates(n, s) \in SUBSET (0..(n + 1))
  BY DEF Candidates, SearchState

\* The largest candidate is what the loop's equation asks for.
LEMMA LargestTurns ==
  ASSUME NEW n \in Nat \ {0}, NEW s \in SearchState(n)
  PROVE  Largest(n)[s] = Turn(n, Largest(n), s)
  <1> DEFINE here == Candidates(n, s)
             right == Candidates(n, Right(s))
             left == Candidates(n, Left(s))
  <1>0. s.low \in Nat \ {0} /\ s.high \in Nat
    BY DEF SearchState
  <1>1. Largest(n)[s] = IF here = {} THEN s.ans ELSE Max(here)
    BY DEF Largest
  <1>2. CASE s.low > s.high
    <2>1. here = {}
      BY <1>0, <1>2 DEF Candidates
    <2> QED
      BY <1>1, <1>2, <2>1 DEF Turn
  <1>3. CASE ~(s.low > s.high) /\ Fits(n, Mid(s))
    <2>1. /\ Mid(s) \in s.low..s.high /\ Mid(s) \in Nat \ {0} /\ Right(s) \in SearchState(n)
          /\ Right(s).low = Mid(s) + 1 /\ Right(s).high = s.high /\ Right(s).ans = Mid(s)
      BY <1>3, TurnShrinks
    <2>2. Largest(n)[Right(s)] = IF right = {} THEN Mid(s) ELSE Max(right)
      BY <2>1 DEF Largest
    <2>3. /\ Mid(s) \in here
          /\ \A m \in here : m \in Nat /\ (m <= Mid(s) \/ m \in right)
          /\ \A m \in right : m \in here /\ Mid(s) <= m
      BY <1>0, <1>3, <2>1 DEF Candidates
    <2>4. here # {} /\ here \in SUBSET (0..(n + 1)) /\ right \in SUBSET (0..(n + 1)) /\ n + 1 \in Nat
      BY <2>1, <2>3, CandidatesBounded
    <2> HIDE DEF here, right
    <2>5. Turn(n, Largest(n), s) = Largest(n)[Right(s)]
      BY <1>3 DEF Turn
    <2>6. CASE right = {}
      <3>1. \A m \in here : m <= Mid(s)
        BY <2>3, <2>6
      <3>2. Max(here) = Mid(s)
        BY <2>3, <2>4, <3>1, LargestIsMax
      <3> QED
        BY <1>1, <2>2, <2>4, <2>5, <2>6, <3>2
    <2>7. CASE right # {}
      <3>1. Max(right) \in right /\ \A m \in right : m <= Max(right)
        BY <2>4, <2>7, LargestIsMax
      <3>2. Max(right) \in here /\ Mid(s) <= Max(right) /\ Max(right) \in Nat
        BY <2>3, <3>1
      <3>3. ASSUME NEW m \in here PROVE m <= Max(right)
        <4>1. m \in Nat /\ (m <= Mid(s) \/ m \in right)
          BY <2>3
        <4> QED
          BY <2>1, <3>1, <3>2, <4>1
      <3>4. Max(here) = Max(right)
        BY <2>4, <3>2, <3>3, LargestIsMax
      <3> QED
        BY <1>1, <2>2, <2>4, <2>5, <2>7, <3>4
    <2> QED
      BY <2>6, <2>7
  <1>4. CASE ~(s.low > s.high) /\ ~Fits(n, Mid(s))
    <2>1. /\ Mid(s) \in s.low..s.high /\ Mid(s) \in Nat \ {0} /\ Left(s) \in SearchState(n)
          /\ Left(s).low = s.low /\ Left(s).high = Mid(s) - 1 /\ Left(s).ans = s.ans
      BY <1>4, TurnShrinks
    <2>2. ASSUME NEW m \in here PROVE m \in left
      <3>1. m \in s.low..s.high /\ m \in Nat \ {0} /\ Fits(n, m)
        BY <1>0 DEF Candidates
      <3>2. ~(Mid(s) <= m)
        BY <1>4, <2>1, <3>1, FitsDownwards
      <3> QED
        BY <1>0, <2>1, <3>1, <3>2 DEF Candidates
    <2>3. left \subseteq here
      BY <1>0, <2>1 DEF Candidates
    <2>4. here = left
      BY <2>2, <2>3
    <2>5. Largest(n)[Left(s)] = IF left = {} THEN s.ans ELSE Max(left)
      BY <2>1 DEF Largest
    <2>6. Turn(n, Largest(n), s) = Largest(n)[Left(s)]
      BY <1>4 DEF Turn
    <2> HIDE DEF here, left
    <2> QED
      BY <1>1, <2>4, <2>5, <2>6
  <1> QED
    BY <1>2, <1>3, <1>4

\* So the equation has a solution, and no other: of the states at which another
\* differs, take one with the least left to search.
LEMMA SearchFindsLargest ==
  ASSUME NEW n \in Nat \ {0}, NEW s \in SearchState(n)
  PROVE  (CHOOSE f : Searches(n, f))[s] = Largest(n)[s]
  <1> DEFINE g == Largest(n)
             f == CHOOSE h : Searches(n, h)
  <1>1. Searches(n, g)
    <2>1. \A t \in SearchState(n) : g[t] = Turn(n, g, t)
      BY LargestTurns
    <2>2. g = [t \in SearchState(n) |-> g[t]]
      BY DEF Largest
    <2> HIDE DEF g
    <2> QED
      BY <2>1, <2>2 DEF Searches
  <1>2. Searches(n, f)
    BY <1>1
  <1> HIDE DEF f, g
  <1>3. \A t \in SearchState(n) : f[t] = Turn(n, f, t) /\ g[t] = Turn(n, g, t)
    BY <1>1, <1>2 DEF Searches
  <1> DEFINE Bad == {k \in Nat : \E t \in SearchState(n) : Span(t) = k /\ f[t] # g[t]}
  <1>4. ASSUME Bad # {} PROVE FALSE
    <2>1. Bad \subseteq Nat
      OBVIOUS
    <2> HIDE DEF Bad
    <2>2. PICK k \in Bad : \A j \in Bad : k <= j
      BY <1>4, <2>1, LeastNatural
    <2>3. PICK t \in SearchState(n) : Span(t) = k /\ f[t] # g[t]
      BY <2>2 DEF Bad
    <2>4. CASE t.low > t.high
      BY <1>3, <2>3, <2>4 DEF Turn
    <2>5. CASE ~(t.low > t.high)
      <3>1. ASSUME NEW u \in SearchState(n), Span(u) \in Nat, Span(u) < k PROVE f[u] = g[u]
        <4>1. k \in Nat
          BY <2>1, <2>2
        <4>2. Span(u) \notin Bad
          BY <2>2, <3>1, <4>1
        <4> QED
          BY <3>1, <4>2 DEF Bad
      <3>2. f[Right(t)] = g[Right(t)] /\ f[Left(t)] = g[Left(t)]
        BY <2>3, <2>5, <3>1, TurnShrinks
      <3> QED
        BY <1>3, <2>3, <2>5, <3>2 DEF Turn
    <2> QED
      BY <2>4, <2>5
  <1>5. ASSUME f[s] # g[s] PROVE FALSE
    <2>1. Span(s) \in Nat
      BY DEF Span, SearchState
    <2> QED
      BY <1>4, <1>5, <2>1
  <1> QED
    BY <1>5 DEF f, g

\* The result is the whole part of the square root.
LEMMA IsqrtIsRoot ==
  ASSUME NEW n \in Nat
  PROVE  Isqrt(n) \in Nat /\ Isqrt(n) * Isqrt(n) <= n /\ n < (Isqrt(n) + 1) * (Isqrt(n) + 1)
  <1>1. CASE n <= 1
    <2>1. n = 0 \/ n = 1
      BY <1>1
    <2>2. Isqrt(n) = n
      BY <1>1 DEF Isqrt
    <2> QED
      BY <2>1, <2>2
  <1>2. CASE ~(n <= 1)
    <2> DEFINE top == n \div 2 + 1
               fitting == Candidates(n, Start(n))
               root == Isqrt(n)
    <2>0. n \in Nat \ {0}
      BY <1>2
    <2>1. Start(n) \in SearchState(n) /\ Start(n).low = 1 /\ Start(n).high = top
      BY DEF Start, SearchState
    <2>2. root = Largest(n)[Start(n)]
      BY <1>2, <2>0, <2>1, SearchEquation, SearchFindsLargest DEF Isqrt
    <2>3. fitting = {m \in 1..top : Fits(n, m)}
      BY <2>1 DEF Candidates
    <2>4. top \in Nat \ {0} /\ n < (top + 1) * (top + 1)
      BY <1>2
    <2>5. 1 \in fitting
      <3>1. Fits(n, 1)
        BY <1>2, FitsIsSquare
      <3> QED
        BY <2>3, <2>4, <3>1
    <2>6. n + 1 \in Nat /\ fitting \in SUBSET (0..(n + 1))
      BY <2>0, <2>1, CandidatesBounded
    <2>7. Largest(n)[Start(n)] = IF fitting = {} THEN Start(n).ans ELSE Max(fitting)
      BY <2>1 DEF Largest
    <2> HIDE DEF top, fitting, root
    <2>8. root \in fitting /\ \A m \in fitting : m <= root
      <3>1. root = Max(fitting)
        BY <2>2, <2>5, <2>7
      <3> QED
        BY <2>5, <2>6, <3>1, LargestIsMax
    <2>9. root \in 1..top /\ Fits(n, root)
      BY <2>3, <2>8
    <2>10. root \in Nat \ {0} /\ root + 1 \in Nat \ {0} /\ ~(root + 1 <= root)
      BY <2>4, <2>9
    <2>11. root * root <= n
      BY <2>9, <2>10, FitsIsSquare
    <2>12. n < (root + 1) * (root + 1)
      <3>1. CASE root = top
        BY <2>4, <3>1
      <3>2. CASE root # top
        <4>1. root + 1 \in 1..top
          BY <2>4, <2>9, <3>2
        <4>2. root + 1 \notin fitting
          BY <2>8, <2>10
        <4>3. ~Fits(n, root + 1)
          BY <2>3, <4>1, <4>2
        <4>4. ~((root + 1) * (root + 1) <= n)
          BY <2>10, <4>3, FitsIsSquare
        <4>5. (root + 1) * (root + 1) \in Nat
          BY <2>10, ProductOfNaturals
        <4> QED
          BY <4>4, <4>5
      <3> QED
        BY <3>1, <3>2
    <2> QED
      BY <2>10, <2>11, <2>12 DEF root
  <1> QED
    BY <1>1, <1>2

-----------------------------------------------------------------------------
(* Availabilities.                                                         *)

\* Of two downtimes the longer gives the lower availability; both are at most full.
LEMMA AvailabilityFalls ==
  ASSUME NEW a \in Nat, NEW b \in Nat, a <= b
  PROVE  /\ DowntimeAvailabilityMilliBps(a, Window, Full, Scale) \in Int
         /\ DowntimeAvailabilityMilliBps(b, Window, Full, Scale)
              <= DowntimeAvailabilityMilliBps(a, Window, Full, Scale)
  <1> DEFINE up(d) == Window - (IF d > Window THEN Window ELSE d)
             parts(d) == up(d) * Full * Scale
  <1>1. Window \in Nat \ {0} /\ Full \in Nat /\ Scale \in Nat
    BY CalculationAssumption
  <1>2. up(a) \in Nat /\ up(b) \in Nat /\ up(b) <= up(a) /\ up(a) <= Window /\ up(b) <= Window
    BY <1>1
  <1>3. /\ DowntimeAvailabilityMilliBps(a, Window, Full, Scale) = parts(a) \div Window
        /\ DowntimeAvailabilityMilliBps(b, Window, Full, Scale) = parts(b) \div Window
    BY <1>1, <1>2 DEF DowntimeAvailabilityMilliBps, AvailabilityMilliBps
  <1> HIDE DEF up
  <1>4. up(a) * Full \in Nat /\ up(b) * Full \in Nat /\ up(b) * Full <= up(a) * Full
    BY <1>1, <1>2, ProductMonotone, ProductOfNaturals
  <1>5. parts(a) \in Nat /\ parts(b) \in Nat /\ parts(b) <= parts(a)
    BY <1>1, <1>4, ProductMonotone, ProductOfNaturals
  <1> HIDE DEF parts
  <1> QED
    BY <1>1, <1>3, <1>5, Quotient, QuotientMonotone

\* Only a service that was never down is fully available.
LEMMA FullOnlyWithoutDowntime ==
  ASSUME NEW d \in Nat,
         MilliBpsToBps(DowntimeAvailabilityMilliBps(d, Window, Full, Scale), Scale) = Full
  PROVE  d = 0
  <1> DEFINE up == Window - (IF d > Window THEN Window ELSE d)
             unit == Full * Scale
             exact == (up * unit) \div Window
  <1>1. Window \in Nat \ {0} /\ Full \in Nat \ {0} /\ Scale \in Nat \ {0}
    BY CalculationAssumption
  <1>2. up \in Nat /\ up <= Window /\ (up = Window => d = 0)
    BY <1>1
  <1>3. DowntimeAvailabilityMilliBps(d, Window, Full, Scale) = exact
    <2>1. up * Full * Scale = up * unit
      <3> HIDE DEF up
      <3> QED
        BY <1>1, <1>2
    <2>2. DowntimeAvailabilityMilliBps(d, Window, Full, Scale) = (up * Full * Scale) \div Window
      BY <1>1, <1>2 DEF DowntimeAvailabilityMilliBps, AvailabilityMilliBps
    <2> QED
      BY <2>1, <2>2
  <1>4. unit \in Nat \ {0}
    BY <1>1
  <1> HIDE DEF up
  <1>5. up * unit \in Nat
    BY <1>2, <1>4, ProductOfNaturals
  <1> HIDE DEF unit
  <1>6. exact \in Int /\ Window * exact <= up * unit
    BY <1>1, <1>5, Quotient
  <1>7. exact \div Scale = Full
    BY <1>3 DEF MilliBpsToBps
  <1> HIDE DEF exact
  <1>8. unit <= exact
    <2>1. Scale * (exact \div Scale) <= exact
      BY <1>1, <1>6, Quotient
    <2>2. unit = Scale * Full
      BY <1>1 DEF unit
    <2> QED
      BY <1>7, <2>1, <2>2
  <1>9. Window * unit <= Window * exact
    BY <1>1, <1>4, <1>6, <1>8, ProductMonotone
  <1>10. Window * unit \in Int /\ Window * exact \in Int
    BY <1>1, <1>4, <1>6
  <1>11. Window * unit <= up * unit
    BY <1>5, <1>6, <1>9, <1>10
  <1>12. ~(up < Window)
    <2>1. ASSUME up < Window PROVE up * unit < Window * unit
      BY <1>1, <1>2, <1>4, <2>1
    <2> QED
      BY <1>5, <1>10, <1>11, <2>1
  <1> QED
    BY <1>1, <1>2, <1>12

\* Rounding makes no service look more available than it was.
LEMMA RoundsCarefully == SweepType => RoundingIsConservative
  <1> SUFFICES ASSUME SweepType PROVE RoundingIsConservative
    OBVIOUS
  <1> DEFINE whole == MillisToMinutesCeil(input, Minute) * Minute
             exact == DowntimeAvailabilityMilliBps(input, Window, Full, Scale)
  <1>1. input \in Nat /\ Minute \in Nat \ {0} /\ Scale \in Nat \ {0}
    BY CalculationAssumption DEF SweepType
  <1>2. whole \in Nat /\ input <= whole
    <2> DEFINE sum == input + Minute - 1
               minutes == sum \div Minute
    <2>1. sum \in Nat /\ sum = input + Minute - 1
      BY <1>1
    <2> HIDE DEF sum
    <2>2. minutes \in Nat /\ sum < Minute * minutes + Minute
      BY <1>1, <2>1, Quotient
    <2>3. MillisToMinutesCeil(input, Minute) = minutes
      BY DEF MillisToMinutesCeil, sum
    <2> HIDE DEF minutes
    <2>4. minutes * Minute \in Nat /\ minutes * Minute = Minute * minutes
      BY <1>1, <2>2
    <2>5. input <= minutes * Minute
      BY <1>1, <2>1, <2>2, <2>4
    <2> QED
      BY <2>3, <2>4, <2>5
  <1> HIDE DEF whole
  <1>3. exact \in Int /\ DowntimeAvailabilityMilliBps(whole, Window, Full, Scale) <= exact
    BY <1>1, <1>2, AvailabilityFalls
  <1>4. MilliBpsToBps(exact, Scale) = Full => input = 0
    BY <1>1, FullOnlyWithoutDowntime
  <1> HIDE DEF exact
  <1>5. MilliBpsToBps(exact, Scale) * Scale <= exact
    <2>1. exact \div Scale \in Int /\ Scale * (exact \div Scale) <= exact
      BY <1>1, <1>3, Quotient
    <2>2. Scale * (exact \div Scale) = (exact \div Scale) * Scale
      BY <1>1, <2>1
    <2> QED
      BY <2>1, <2>2 DEF MilliBpsToBps
  <1> QED
    BY <1>3, <1>4, <1>5 DEF RoundingIsConservative, whole, exact

\* isqrt ends at the whole part of the root, and the availabilities err downwards, for
\* every number, window and unit (isqrt, SubMinutePrecision).
THEOREM RoundingIsCareful == Spec => []RoundsDown
  <1>1. SweepType => RoundsDown
    BY IsqrtIsRoot, RoundsCarefully DEF SweepType, RoundsDown, IsqrtIsFloorOfRoot
  <1> QED
    BY <1>1, SweepTypes, PTL

=============================================================================
