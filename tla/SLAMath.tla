------------------------------ MODULE SLAMath ------------------------------
(***************************************************************************)
(* The pure part of the SLA calculator (sla_calculator/src/lib.rs and       *)
(* batch.rs): severity configurations and their validation, the outcome of *)
(* an outage on the mutating, simulating and batch paths, the calendar of  *)
(* the monthly compliance view, and the arithmetic helpers.                 *)
(*                                                                         *)
(* Amounts are unbounded integers: an i128 saturates far above what          *)
(* validated configurations (at most 10000 per minute) can produce.         *)
(***************************************************************************)
EXTENDS Integers, FiniteSets, FiniteSetsExt

CONSTANT NoConfig   \* the map has no entry for a severity

-----------------------------------------------------------------------------
(* Severity configurations.                                                *)

Severity == {"critical", "high", "medium", "low"}

\* canonical_severity_index: 0 is the most severe.
Rank == [critical |-> 0, high |-> 1, medium |-> 2, low |-> 3]

SLAConfig == [threshold_minutes : Nat, penalty_per_minute : Int, reward_base : Int,
              top : Nat, excel : Nat, good : Nat]

\* What CONFIG may hold: import_config_map accepts any non-empty part of the
\* severities, and nothing is stored before initialize.
ConfigMap == [Severity -> SLAConfig \cup {NoConfig}]
Configured(configs) == {s \in Severity : configs[s] # NoConfig}
NoConfigs == [s \in Severity |-> NoConfig]

DefaultConfig(threshold, penalty, reward) ==
    [threshold_minutes |-> threshold, penalty_per_minute |-> penalty, reward_base |-> reward,
     top |-> 200, excel |-> 150, good |-> 100]

DefaultConfigs ==
    [critical |-> DefaultConfig(15, 100, 750),
     high     |-> DefaultConfig(30, 50, 500),
     medium   |-> DefaultConfig(60, 20, 250),
     low      |-> DefaultConfig(120, 5, 100)]

InBounds(c) ==
    /\ c.threshold_minutes # 0 /\ c.threshold_minutes <= 1440
    /\ c.penalty_per_minute > 0 /\ c.penalty_per_minute <= 10000
    /\ c.reward_base > 0 /\ c.reward_base <= 100000

\* The extra limits per severity.
FitsSeverity(severity, c) ==
    CASE severity = "critical" -> c.threshold_minutes <= 60 /\ c.penalty_per_minute >= 50
      [] severity = "high"     -> c.threshold_minutes <= 120 /\ c.penalty_per_minute >= 25
      [] severity = "medium"   -> c.threshold_minutes <= 240 /\ c.penalty_per_minute >= 10
      [] severity = "low"      -> c.penalty_per_minute <= 100

\* A more severe outage must be repaired sooner and costs more per minute.
Stricter(c, d) ==
    /\ c.threshold_minutes < d.threshold_minutes
    /\ c.penalty_per_minute > d.penalty_per_minute

\* The loop over the other severities.  It unwraps their configurations, so
\* the call also fails when one of them is missing.
FitsOthers(severity, c, configs) ==
    \A other \in Severity \ {severity} :
        /\ other \in Configured(configs)
        /\ IF Rank[other] < Rank[severity]
           THEN Stricter(configs[other], c)
           ELSE Stricter(c, configs[other])

\* Mutant: the other severities are not consulted.
ValidateAlone(severity, c, configs) == InBounds(c) /\ FitsSeverity(severity, c)

ValidateConfig(severity, c, configs) ==
    /\ InBounds(c)
    /\ FitsSeverity(severity, c)
    /\ FitsOthers(severity, c, configs)

-----------------------------------------------------------------------------
(* The outcome of an outage.                                               *)

\* #671: longer outages are charged as the maximum.
EffectiveMttr(mttr, cap) == IF mttr > cap THEN cap ELSE mttr

Breach(mttr, c) == mttr > c.threshold_minutes
Overtime(mttr, c) == mttr - c.threshold_minutes
PerformanceRatio(mttr, c) == (mttr * 100) \div c.threshold_minutes

\* Mutant: the two limits are swapped.
MetRatingSwapped(mttr, c) ==
    IF PerformanceRatio(mttr, c) < 50 THEN "excel"
    ELSE IF PerformanceRatio(mttr, c) < 75 THEN "top"
    ELSE "good"

MetRating(mttr, c) ==
    IF PerformanceRatio(mttr, c) < 50 THEN "top"
    ELSE IF PerformanceRatio(mttr, c) < 75 THEN "excel"
    ELSE "good"

Reward(mttr, c) == (c.reward_base * c[MetRating(mttr, c)]) \div 100
Penalty(mttr, c) == Overtime(mttr, c) * c.penalty_per_minute

Outcome(status, amount, rating) == [status |-> status, amount |-> amount, rating |-> rating]

Violated(mttr, c) == Outcome("viol", -Penalty(mttr, c), "poor")
Met(mttr, c) == Outcome("met", Reward(mttr, c), MetRating(mttr, c))

\* compute_result: an outage of no duration is met but pays nothing.
ComputeResult(mttr, c) ==
    IF mttr = 0 THEN Outcome("met", 0, "top")
    ELSE IF Breach(mttr, c) THEN Violated(mttr, c)
    ELSE Met(mttr, c)

\* InvalidPenaltyAmount: a violation that would not cost anything is refused.
Computable(mttr, c) == mttr > 0 /\ Breach(mttr, c) => Penalty(mttr, c) > 0

\* compute_sla, what simulate_sla reports; the threshold must not be zero.
\* uptime_bps is repair time over threshold, cut to 32 bits.
ComputeSla(mttr, cap, c) ==
    LET effective == EffectiveMttr(mttr, cap)
    IN [is_breach      |-> Breach(effective, c),
        penalty_amount |-> IF Breach(effective, c) THEN Penalty(effective, c) ELSE 0,
        uptime_bps     |-> (effective * 10000) \div c.threshold_minutes]

\* process_single, one item of a batch: no cap, and no outage of no duration.
BatchAccepts(severity, mttr, configs) ==
    severity \in Configured(configs) /\ mttr # 0

\* Mutant: the threshold itself counts as a breach.
ProcessSingleStrict(mttr, c) ==
    IF mttr >= c.threshold_minutes THEN Violated(mttr, c) ELSE Met(mttr, c)

ProcessSingle(mttr, c) == IF Breach(mttr, c) THEN Violated(mttr, c) ELSE Met(mttr, c)

\* apply_multi_site_discount: the more sites an outage affects, the less it is
\* charged.  The factor is in tenths here, in ten-thousandths in the code; the
\* base is a penalty without its sign.
DiscountFactor(sites) ==
    CASE sites <= 1 -> 10 [] sites = 2 -> 9 [] sites = 3 -> 8 [] OTHER -> 7
Discounted(base, sites) == IF base <= 0 THEN 0 ELSE (base * DiscountFactor(sites)) \div 10

-----------------------------------------------------------------------------
(* calculate_monthly_sla_compliance.                                       *)

\* Mutant: the exception for every fourth century is missing.
IsLeapJulianish(year) == year % 4 = 0 /\ year % 100 # 0

IsLeap(year) == year % 4 = 0 /\ (year % 100 # 0 \/ year % 400 = 0)
DaysInYear(year) == IF IsLeap(year) THEN 366 ELSE 365
DaysInMonth(year, month) ==
    CASE month \in {1, 3, 5, 7, 8, 10, 12} -> 31
      [] month \in {4, 6, 9, 11}           -> 30
      [] month = 2                         -> IF IsLeap(year) THEN 29 ELSE 28

EpochYear == 1970

\* Days from the first of January of EpochYear to the first of the month.
DaysBefore(year, month) ==
    MapThenSumSet(DaysInYear, EpochYear..(year - 1))
      + MapThenSumSet(LAMBDA m : DaysInMonth(year, m), 1..(month - 1))

MonthStart(year, month, day) == DaysBefore(year, month) * day
MonthEnd(year, month, day) == MonthStart(year, month, day) + DaysInMonth(year, month) * day

-----------------------------------------------------------------------------
(* Arithmetic helpers.                                                     *)

\* The variables of isqrt's loop.
SearchState(n) == [low : 1..(n \div 2 + 2), high : 0..(n \div 2 + 1), ans : 0..n]

\* Mutant: an exact root is taken for too large.
IsqrtSearchStrict(n) ==
    LET search[s \in SearchState(n)] ==
            IF s.low > s.high THEN s.ans
            ELSE LET mid == s.low + (s.high - s.low) \div 2
                 IN IF mid < n \div mid
                    THEN search[[s EXCEPT !.low = mid + 1, !.ans = mid]]
                    ELSE search[[s EXCEPT !.high = mid - 1]]
    IN search[[low |-> 1, high |-> n \div 2 + 1, ans |-> 0]]

\* isqrt: the binary search, as a function of the state of the loop.
IsqrtSearch(n) ==
    LET search[s \in SearchState(n)] ==
            IF s.low > s.high THEN s.ans
            ELSE LET mid == s.low + (s.high - s.low) \div 2
                 IN IF mid <= n \div mid
                    THEN search[[s EXCEPT !.low = mid + 1, !.ans = mid]]
                    ELSE search[[s EXCEPT !.high = mid - 1]]
    IN search[[low |-> 1, high |-> n \div 2 + 1, ans |-> 0]]
Isqrt(n) == IF n <= 1 THEN n ELSE IsqrtSearch(n)

\* SubMinutePrecision.  A window of full availability has `full' basis points
\* (10000), each of `scale' parts (1000); a minute has `minute' milliseconds.
\* The window is not empty.
AvailabilityMilliBps(uptime, window, full, scale) ==
    ((IF uptime > window THEN window ELSE uptime) * full * scale) \div window
DowntimeAvailabilityMilliBps(downtime, window, full, scale) ==
    AvailabilityMilliBps(window - (IF downtime > window THEN window ELSE downtime),
                         window, full, scale)
MilliBpsToBps(milliBps, scale) == milliBps \div scale
MillisToMinutesCeil(millis, minute) == (millis + minute - 1) \div minute

=============================================================================
