-------------------------- MODULE SLACalculations --------------------------
(***************************************************************************)
(* Batches of recalculations (batch.rs), and a sweep over the inputs of the   *)
(* pure functions, so that what they compute can be compared with a reference *)
(* and with each other.                                                     *)
(*                                                                         *)
(* A behaviour fixes a configuration, a duration cap and an observation     *)
(* window, and lets the input grow: it is in turn the repair time of an      *)
(* outage in minutes and in milliseconds, the number of a month since        *)
(* January 1970, and the argument of isqrt.                                 *)
(***************************************************************************)
EXTENDS SLAMath, Sequences

CONSTANTS
    ConfigChoices,   \* configurations within the bounds of set_config
    Caps,            \* outage duration caps
    Minute,          \* milliseconds in a minute (60000)
    Window,          \* length of the availability window, in milliseconds
    Full,            \* basis points of full availability (10000)
    Scale,           \* parts of a basis point (1000)
    Day,             \* seconds in a day (86400)
    BatchLimit,      \* get_batch_limit (50)
    NoResult,        \* an item that failed has no result
    MaxInput         \* bound on the input

ASSUME CalculationAssumption ==
    /\ ConfigChoices \subseteq {c \in SLAConfig : InBounds(c)}
    /\ Caps \subseteq Nat \ {0}
    /\ {Minute, Window, Full, Scale, Day, BatchLimit, MaxInput} \subseteq Nat \ {0}

VARIABLES config, cap, input

sweepVars == <<config, cap, input>>

Init == config \in ConfigChoices /\ cap \in Caps /\ input = 0

Grow ==
    /\ input < MaxInput
    /\ input' = input + 1
    /\ UNCHANGED <<config, cap>>

Spec == Init /\ [][Grow]_sweepVars

-----------------------------------------------------------------------------
(* Batches: what is accepted as one, the outcome of each item, and the       *)
(* summary.  batch_calculate_view in lib.rs repeats the loop of              *)
(* batch_calculate; the two differ in who may call them, which LedgerViews    *)
(* models.  The recorded time and the configuration's hash are those of the   *)
(* call and are left out.                                                   *)

\* A request is a record of an outage_id, a severity and a repair time mttr.
\* validate_batch: one request per outage, for canonical severities only.
ValidBatch(requests) ==
    /\ Len(requests) \in 1..BatchLimit
    /\ \A i, j \in DOMAIN requests : requests[i].outage_id = requests[j].outage_id => i = j
    /\ \A i \in DOMAIN requests : requests[i].severity \in Severity

\* One item: its outcome, or the name of its error.  A valid batch has no item
\* of an invalid severity, so that bad_sev and bad_thres are never told.
BatchItem(request, configs) ==
    LET accepted == BatchAccepts(request.severity, request.mttr, configs)
    IN  [outage_id |-> request.outage_id,
         success   |-> accepted,
         result    |-> IF accepted THEN ProcessSingle(request.mttr, configs[request.severity])
                       ELSE NoResult,
         error     |-> CASE accepted -> "none"
                         [] request.severity \notin Configured(configs) -> "no_config"
                         [] OTHER -> "unknown"]

BatchResults(requests, configs) ==
    [i \in DOMAIN requests |-> BatchItem(requests[i], configs)]

TotalOf(results, chosen) == MapThenSumSet(LAMBDA i : results[i].result.amount, chosen)

\* Penalties are summed with their sign.
BatchSummary(results) ==
    LET done == {i \in DOMAIN results : results[i].success}
        violated == {i \in done : results[i].result.status = "viol"}
    IN  [total |-> Len(results), succeeded |-> Cardinality(done),
         failed |-> Len(results) - Cardinality(done),
         total_rewards |-> TotalOf(results, done \ violated),
         total_penalties |-> TotalOf(results, violated)]

find_result_by_outage_id(results, outage) ==
    LET found == {i \in DOMAIN results : results[i].outage_id = outage}
    IN  IF found = {} THEN NoResult ELSE results[Min(found)]

-----------------------------------------------------------------------------
(* Outcomes.                                                               *)

Result(mttr) == ComputeResult(EffectiveMttr(mttr, cap), config)
Accepted(mttr) == Computable(EffectiveMttr(mttr, cap), config)

\* What set_config does not ask for: the better rating has the larger
\* multiplier.
OrderedMultipliers == config.top >= config.excel /\ config.excel >= config.good

\* A longer outage never pays the operator more, across the three ratings,
\* the threshold, the first minute of overtime and the duration cap.  (An
\* outage of no duration is left out: it pays nothing, less than one of a
\* minute.)  Nor does its length ever lower a penalty that is discounted for
\* the sites it affects, however the discount is cut to whole units.
LongerNeverPaysMore ==
    [][input > 0 /\ OrderedMultipliers =>
        /\ Result(input').amount <= Result(input).amount
        /\ \A sites \in 0..4 :
             Discounted(-Result(input').amount, sites) >= Discounted(-Result(input).amount, sites)]_sweepVars

SimulationForecasts ==
    LET simulated == ComputeSla(input, cap, config)
    IN Accepted(input) =>
         /\ simulated.is_breach <=> Result(input).status = "viol"
         /\ simulated.penalty_amount = IF Result(input).amount < 0 THEN -Result(input).amount ELSE 0

BatchRecalculates ==
    input \in 1..cap => ProcessSingle(input, config) = Result(input)

\* A batch of outages of the present length, of half of it, and of none, the
\* last two of severities of which one may not be configured.
Configs == [NoConfigs EXCEPT !["critical"] = config,
                             !["low"] = IF cap > 100 THEN config ELSE NoConfig]
Asked(outage, severity, mttr) == [outage_id |-> outage, severity |-> severity, mttr |-> mttr]
Batch == <<Asked("x", "critical", input), Asked("y", "low", input \div 2),
           Asked("z", "critical", 0), Asked("u", "medium", 1)>>

\* Each item of a batch succeeds or fails alone, is found under its outage, and
\* the summary is the sum over what calculate_sla would give for each item, with
\* violations told apart as the simulation tells them.
BatchesSumUp ==
    LET results == BatchResults(Batch, Configs)
        summary == BatchSummary(results)
        served == {i \in DOMAIN Batch : Batch[i].mttr > 0 /\ Batch[i].severity \in Configured(Configs)}
        breached == {i \in served : ComputeSla(Batch[i].mttr, cap, config).is_breach}
        Sum(items) == MapThenSumSet(LAMBDA i : Result(Batch[i].mttr).amount, items)
    IN  ValidBatch(Batch) /\ input \in 1..cap =>
            /\ {summary.total, summary.succeeded + summary.failed} = {Len(Batch)}
            /\ summary.succeeded = Cardinality(served)
            /\ summary.total_penalties = Sum(breached)
            /\ summary.total_rewards = Sum(served \ breached)
            /\ \A i \in DOMAIN Batch :
                 find_result_by_outage_id(results, Batch[i].outage_id) = results[i]

\* The formula is written three times: in calculate_sla, in simulate_sla, and in
\* the two batch endpoints, which share one.  The simulation forecasts what
\* calculate_sla books, the verdict and the penalty; the batch, for outages of
\* some duration not longer than the cap, gives what calculate_sla gives, item
\* by item and in sum.
CopiesAgree == SimulationForecasts /\ BatchRecalculates /\ BatchesSumUp

-----------------------------------------------------------------------------
(* Calendar.                                                               *)

Year == EpochYear + input \div 12
Month == (input % 12) + 1

\* Reference: days to the first of January by the Gregorian leap year count.
LeapYearsUpTo(year) == (year \div 4 - year \div 100) + year \div 400
DaysToJanuary(year) ==
    365 * (year - EpochYear) + LeapYearsUpTo(year - 1) - LeapYearsUpTo(EpochYear - 1)

\* The months of the compliance view tile the time line: each one starts
\* where the previous one ends, so a settlement counts in exactly one month;
\* and the years start on the days of the civil calendar.
MonthsTileTheCalendar ==
    /\ Month < 12 => MonthEnd(Year, Month, Day) = MonthStart(Year, Month + 1, Day)
    /\ Month = 12 => MonthEnd(Year, Month, Day) = DaysToJanuary(Year + 1) * Day
    /\ Month = 1  => MonthStart(Year, Month, Day) = DaysToJanuary(Year) * Day

-----------------------------------------------------------------------------
(* Arithmetic.                                                             *)

IsqrtIsFloorOfRoot ==
    LET root == Isqrt(input)
    IN root * root <= input /\ input < (root + 1) * (root + 1)

RoundingIsConservative ==
    LET exact == DowntimeAvailabilityMilliBps(input, Window, Full, Scale)
        byMinutes == DowntimeAvailabilityMilliBps(MillisToMinutesCeil(input, Minute) * Minute,
                                                  Window, Full, Scale)
        byPoints == MilliBpsToBps(exact, Scale)
    IN /\ byMinutes <= exact
       /\ byPoints * Scale <= exact
       /\ byPoints = Full => input = 0

\* Rounding errs on the careful side: isqrt's binary search ends at the largest
\* integer whose square fits, and counting a started minute as a whole one, or
\* cutting an availability to whole basis points, never makes a service look
\* more available than it was.
RoundsDown == IsqrtIsFloorOfRoot /\ RoundingIsConservative

=============================================================================
