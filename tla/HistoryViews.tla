---------------------------- MODULE HistoryViews ----------------------------
(***************************************************************************)
(* What is read off the settlement history, HISTORY_KEY: the trends and        *)
(* their summaries (trend.rs), the filtered and windowed queries                *)
(* (event_filter.rs), pages and summaries (lib.rs), the digest of                *)
(* history_snapshot.rs, the compliance of a month and the compressed form of     *)
(* an entry (event_compression.rs).  The ledger appends in the order of time      *)
(* and settles an outage once; the history here takes every such shape.          *)
(***************************************************************************)
EXTENDS LedgerClock, Sequences, FiniteSets, FiniteSetsExt

CONSTANTS
    Outcome,        \* the entries calculate_sla may append, before they are stamped
    MaxHistory,     \* bound on the length of the history
    BucketInputs,   \* numbers of buckets of a summary
    NoFilter,       \* a filter that is not given
    MinuteWidth,    \* 2^16: a u16 holds the minutes of a compressed entry
    TimeWidth,      \* 2^32: a u32 holds its time
    HashWidth,      \* 2^32: a u32 holds the low half of the configuration's hash
    HalfAmount      \* 2^63: an i64 holds the amount

ASSUME WidthAssumption == {MinuteWidth, TimeWidth, HashWidth, HalfAmount} \subseteq Nat \ {0}

VARIABLE history   \* HISTORY_KEY, oldest first

Violating(entry) == entry.status = "viol"
Total(field, entries) == MapThenSumSet(LAMBDA i : history[i][field], entries)

-----------------------------------------------------------------------------
(* Filters and pages.                                                      *)

Passes(entry, filter) ==
    /\ filter.from = NoFilter \/ entry.recorded_at >= filter.from
    /\ filter.to = NoFilter \/ entry.recorded_at <= filter.to
    /\ filter.status = NoFilter \/ entry.status = filter.status
    /\ filter.payment_type = NoFilter \/ entry.payment_type = filter.payment_type

filter_events(filter, offset, limit) ==
    LET matching == SelectSeq(history, LAMBDA entry : Passes(entry, filter))
    IN  SubSeq(matching, offset + 1, Min({offset + limit, Len(matching)}))

count_filtered_events(filter) == Cardinality({i \in DOMAIN history : Passes(history[i], filter)})

Within(from, to) == [from |-> from, to |-> to, status |-> NoFilter, payment_type |-> NoFilter]
Ago(seconds) == IF now > seconds THEN now - seconds ELSE 0

get_events_in_window(start_ago, end_ago, limit) ==
    filter_events(Within(Ago(start_ago), Ago(end_ago)), 0, limit)
get_violations_in_range(from, to, limit) ==
    filter_events([Within(from, to) EXCEPT !.status = "viol"], 0, limit)
get_rewards_in_range(from, to, limit) ==
    filter_events([Within(from, to) EXCEPT !.payment_type = "rew"], 0, limit)

get_history_page(offset, limit) ==
    IF offset >= Len(history) \/ limit = 0 THEN <<>>
      ELSE SubSeq(history, offset + 1, Min({offset + limit, Len(history)}))

get_history_summary ==
    [total    |-> Len(history),
     met      |-> Cardinality({i \in DOMAIN history : history[i].status = "met"}),
     violated |-> Cardinality({i \in DOMAIN history : Violating(history[i])})]

normalize_history ==
    [count          |-> Len(history),
     has_violations |-> \E i \in DOMAIN history : Violating(history[i]),
     has_rewards    |-> \E i \in DOMAIN history : history[i].payment_type = "rew"]

-----------------------------------------------------------------------------
(* Trends.                                                                 *)

Rate(part, whole) == IF whole = 0 THEN 0 ELSE (part * 10000) \div whole

\* The amounts of violations are negative, so the net amount adds them to the
\* rewards with the sign turned.
calculate_trend(from, to) ==
    LET period == {i \in DOMAIN history : history[i].recorded_at \in from..to}
        violations == {i \in period : Violating(history[i])}
        rewards == Total("amount", period \ violations)
        penalties == Total("amount", violations)
        minutes == Total("mttr_minutes", period)
    IN  [calculation_count   |-> Cardinality(period),
         violation_count     |-> Cardinality(violations),
         compliance_rate_bps |-> Rate(Cardinality(period \ violations), Cardinality(period)),
         avg_mttr_minutes    |-> IF period = {} THEN 0 ELSE minutes \div Cardinality(period),
         total_rewards       |-> rewards,
         total_penalties     |-> penalties,
         net_amount          |-> rewards - penalties]

\* Bucket i of the n in which from..to is divided; the last takes the rest.
BucketStart(from, to, n, i) == from + i * ((IF to > from THEN to - from ELSE 0) \div n)
Bucket(from, to, n, i) ==
    calculate_trend(BucketStart(from, to, n, i),
                    IF i = n - 1 THEN to ELSE BucketStart(from, to, n, i + 1))

calculate_trend_summary(from, to, n) ==
    LET bucket == [i \in 0..(n - 1) |-> Bucket(from, to, n, i)]
        total == MapThenSumSet(LAMBDA i : bucket[i].calculation_count, 0..(n - 1))
    IN  [overall_compliance_bps |->
            MapThenSumSet(LAMBDA i : bucket[i].compliance_rate_bps, 0..(n - 1)) \div n,
         overall_avg_mttr |->
            IF total = 0 THEN 0
              ELSE MapThenSumSet(LAMBDA i : bucket[i].avg_mttr_minutes * bucket[i].calculation_count,
                                 0..(n - 1)) \div total,
         total_calculations |-> total,
         trend_direction |->
            MapThenSumSet(LAMBDA i : bucket[i].compliance_rate_bps
                                       - bucket[i - 1].compliance_rate_bps, 1..(n - 1))]

\* The last entries by number are looked up by the time of the first of them;
\* none of them cannot be asked for unless the history is empty.
get_recent_trend(lookback) ==
    IF history = <<>> THEN calculate_trend(1, 0)
      ELSE calculate_trend(history[Max({1, Len(history) - lookback + 1})].recorded_at,
                           history[Len(history)].recorded_at)

get_latest_trend_direction(n) ==
    LET times == {history[i].recorded_at : i \in DOMAIN history}
        direction == calculate_trend_summary(Min(times), Max(times), n).trend_direction
    IN  IF Len(history) < 2 \/ direction = 0 THEN 0 ELSE IF direction > 0 THEN 1 ELSE -1

\* calculate_monthly_sla_compliance, given the bounds of the month.
monthly_compliance(start, end) ==
    LET month == {i \in DOMAIN history : history[i].recorded_at >= start /\ history[i].recorded_at < end}
        met == {i \in month : ~Violating(history[i])}
    IN  IF month = {} THEN 10000 ELSE (Cardinality(met) * 10000) \div Cardinality(month)

-----------------------------------------------------------------------------
(* Compressed entries.                                                     *)

Ratings == <<"top", "excel", "good", "poor">>
RatingBits(rating) == (CHOOSE i \in 1..4 : Ratings[i] = rating) - 1

\* The i128 amount cut down to the low half of its bits, the first of them its sign.
Narrowed(amount) == ((amount + HalfAmount) % (2 * HalfAmount)) - HalfAmount

\* Status, rating and payment share one word; the severity's bits stay zero.
Packed(entry) ==
    (IF entry.status = "met" THEN 0 ELSE 1) * 8 + RatingBits(entry.rating) * 2
      + (IF entry.payment_type = "rew" THEN 0 ELSE 1)

compress_event(entry) ==
    [packed_flags |-> Packed(entry), outage_id |-> entry.outage_id,
     mttr_minutes |-> entry.mttr_minutes % MinuteWidth, amount |-> Narrowed(entry.amount),
     threshold_minutes |-> entry.threshold_minutes % MinuteWidth,
     config_hash_lo |-> entry.config_version_hash % HashWidth,
     recorded_at |-> entry.recorded_at % TimeWidth]

decompress_event(compressed) ==
    [outage_id |-> compressed.outage_id,
     status |-> IF (compressed.packed_flags \div 8) % 2 = 0 THEN "met" ELSE "viol",
     mttr_minutes |-> compressed.mttr_minutes, amount |-> compressed.amount,
     threshold_minutes |-> compressed.threshold_minutes,
     payment_type |-> IF compressed.packed_flags % 2 = 0 THEN "rew" ELSE "pen",
     rating |-> Ratings[((compressed.packed_flags \div 2) % 4) + 1],
     config_version_hash |-> compressed.config_hash_lo,
     recorded_at |-> compressed.recorded_at]

-----------------------------------------------------------------------------
ViewsInit == history = <<>>

\* calculate_sla appends a result.
Settle(outcome) ==
    /\ Len(history) < MaxHistory
    /\ \A i \in DOMAIN history : history[i].outage_id # outcome.outage_id
    /\ history' = Append(history, [outcome EXCEPT !.recorded_at = now])
    /\ UNCHANGED now

ViewsNext ==
    \/ Tick /\ UNCHANGED history
    \/ \E outcome \in Outcome : Settle(outcome)

-----------------------------------------------------------------------------
(* Properties.                                                             *)

Whole == calculate_trend(0, MaxTime)

\* The counts told by the trend, the summary, the digest and the filters are
\* the same counts, each taken by a loop of its own.
CountsAgree ==
    LET bad == [Within(NoFilter, NoFilter) EXCEPT !.status = "viol"]
    IN  /\ get_history_summary.met + get_history_summary.violated = Whole.calculation_count
        /\ Whole.violation_count = get_history_summary.violated
        /\ count_filtered_events(bad) = Whole.violation_count
        /\ get_violations_in_range(0, now, MaxHistory) = filter_events(bad, 0, MaxHistory)
        /\ normalize_history.has_violations <=> Whole.violation_count > 0
        /\ normalize_history.has_rewards <=> get_rewards_in_range(0, now, 1) # <<>>

\* Pages tile the history: reading page after page, of any size, with or
\* without a filter, every entry is seen once and in order.
PagesTile ==
    \A size \in 1..MaxHistory, at \in 0..MaxHistory :
        /\ get_history_page(at, size) \o get_history_page(at + size, MaxHistory)
             = get_history_page(at, MaxHistory)
        /\ \A from, to \in 0..MaxTime :
             filter_events(Within(from, to), at, size)
               \o filter_events(Within(from, to), at + size, MaxHistory)
             = filter_events(Within(from, to), at, MaxHistory)

\* A period divided in two has the counts and the amounts of its parts.
TrendsAdd ==
    \A from, cut, to \in 0..MaxTime : from <= cut /\ cut < to =>
        LET left == calculate_trend(from, cut)
            right == calculate_trend(cut + 1, to)
            both == calculate_trend(from, to)
        IN  /\ both.calculation_count = left.calculation_count + right.calculation_count
            /\ both.net_amount = left.net_amount + right.net_amount
            /\ (both.compliance_rate_bps = 10000 /\ both.calculation_count > 0) <=>
                 both.violation_count = 0 /\ both.calculation_count > 0

\* The buckets of a summary cover the period and share their ends: what the
\* summary counts is what the period holds, and what lies on an inner bound
\* once more for each bucket it begins.
BucketsCoverPeriod ==
    \A from, to \in 0..MaxTime, n \in BucketInputs : from <= to =>
        calculate_trend_summary(from, to, n).total_calculations =
          calculate_trend(from, to).calculation_count
            + MapThenSumSet(LAMBDA i :
                Cardinality({k \in DOMAIN history :
                               history[k].recorded_at = BucketStart(from, to, n, i)}), 1..(n - 1))

\* The direction of a trend is the difference between its last and its first
\* bucket, whatever lies between, and the latest direction is its sign.
DirectionIsEndToEnd ==
    \A n \in BucketInputs :
        /\ \A from, to \in 0..MaxTime :
             calculate_trend_summary(from, to, n).trend_direction =
               Bucket(from, to, n, n - 1).compliance_rate_bps - Bucket(from, to, n, 0).compliance_rate_bps
        /\ n = 1 => get_latest_trend_direction(n) = 0

\* Looking back by number finds at least that many entries, and more only
\* when the oldest of them shares its instant with older ones.
RecentTrendIsRecent ==
    \A lookback \in 1..MaxHistory :
        LET found == get_recent_trend(lookback).calculation_count
            wanted == Min({lookback, Len(history)})
        IN  /\ found >= wanted
            /\ found > wanted =>
                 history[Len(history) - wanted].recorded_at = history[Len(history) - wanted + 1].recorded_at

\* A month and a trend over the same instants tell the same compliance; they
\* differ on a period without entries, which the month counts as compliant.
MonthsAgreeWithTrends ==
    \A start, end \in 0..MaxTime : start < end =>
        LET trend == calculate_trend(start, end - 1)
        IN  monthly_compliance(start, end) =
              IF trend.calculation_count = 0 THEN 10000 ELSE trend.compliance_rate_bps

\* Compressing keeps the outage, the verdict, the rating and the payment of every
\* entry, and the rest exactly when it fits the narrower fields; an amount that
\* does not fit is read back as another one, of either sign, beside a payment type
\* that was kept.
CompressionKeepsOutcome ==
    \A i \in DOMAIN history :
        LET entry == history[i]
            read == decompress_event(compress_event(entry))
            fits == /\ entry.mttr_minutes < MinuteWidth /\ entry.threshold_minutes < MinuteWidth
                    /\ entry.recorded_at < TimeWidth /\ entry.config_version_hash < HashWidth
                    /\ entry.amount \in -HalfAmount..(HalfAmount - 1)
        IN  /\ \A field \in {"outage_id", "status", "rating", "payment_type"} :
                 read[field] = entry[field]
            /\ read = entry <=> fits

\* The views of the history tell one story: the properties above together.
HistoryViewsAgree ==
    /\ CountsAgree /\ PagesTile /\ TrendsAdd /\ BucketsCoverPeriod /\ DirectionIsEndToEnd
    /\ RecentTrendIsRecent /\ MonthsAgreeWithTrends /\ CompressionKeepsOutcome
=============================================================================
