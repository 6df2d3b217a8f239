--------------------------- MODULE RollingWindows ---------------------------
(***************************************************************************)
(* The rolling figures of trend.rs: the compliance and the badge of an          *)
(* operator over a quarter, and the availability over a month.  The outcomes    *)
(* of operators are never discarded; the closings that have left the month       *)
(* are discarded by the next closing recorded, and readers skip them meanwhile.  *)
(***************************************************************************)
EXTENDS LedgerClock, Sequences, FiniteSets, SequencesExt

CONSTANTS
    Rated,              \* operators with outcomes
    MaxOutcomes,        \* bound on the outcomes of an operator
    MaxClosings,        \* bound on the outages closed
    TIER_WINDOW,        \* 90 days in the code
    ROLLING_WINDOW,     \* 30 days in the code
    GOLD, SILVER, BRONZE  \* 9990, 9900 and 9500 basis points in the code

ASSUME RollingAssumption ==
    /\ TIER_WINDOW \in Nat /\ ROLLING_WINDOW \in Nat \ {0}
    /\ 0 < BRONZE /\ BRONZE < SILVER /\ SILVER < GOLD /\ GOLD < 10000

VARIABLES
    outcomes,     \* OPERATOR_OUTCOMES_KEY
    rolling,      \* ROLLING_DOWNTIME_KEY
    closings      \* history: every closing recorded

rollingVars == <<outcomes, rolling, closings>>

OperatorOutcome == [recorded_at : Time, met : BOOLEAN]
RollingDowntimeEntry == [closed_at : Time, downtime_seconds : Time]

\* The first instant of a window of that length, which ends now.
WindowStart(length) == Max({0, now - length})

-----------------------------------------------------------------------------
(* Badges of operators.                                                    *)

RecordOperatorOutcome(operator, met) ==
    /\ Len(outcomes[operator]) < MaxOutcomes
    /\ outcomes' = [outcomes EXCEPT ![operator] = Append(@, [recorded_at |-> now, met |-> met])]
    /\ UNCHANGED <<now, rolling, closings>>

calculate_operator_compliance_bps(operator) ==
    LET recent == {i \in DOMAIN outcomes[operator] :
                     outcomes[operator][i].recorded_at >= WindowStart(TIER_WINDOW)}
        met == {i \in recent : outcomes[operator][i].met}
    IN  IF recent = {} THEN 0 ELSE (Cardinality(met) * 10000) \div Cardinality(recent)

\* Gold is 3, and AtRisk is 0.
get_operator_tier(operator) ==
    Cardinality({threshold \in {GOLD, SILVER, BRONZE} :
                   calculate_operator_compliance_bps(operator) > threshold})

-----------------------------------------------------------------------------
(* Availability.                                                           *)

rolling_availability_bps(downtime) ==
    ((ROLLING_WINDOW - Min({downtime, ROLLING_WINDOW})) * 10000) \div ROLLING_WINDOW

Downtime(closed) == FoldSeq(LAMBDA entry, sum : entry.downtime_seconds + sum, 0, closed)

RollingUptimeWindow(kept) ==
    [window_start |-> WindowStart(ROLLING_WINDOW), window_end |-> now,
     downtime_seconds |-> Downtime(kept), outage_count |-> Len(kept),
     availability_bps |-> rolling_availability_bps(Downtime(kept))]

\* Mutant: what closed at the very start of the window is discarded with the rest.
collect_window_open ==
    SelectSeq(rolling, LAMBDA entry : entry.closed_at > WindowStart(ROLLING_WINDOW))

collect_window ==
    SelectSeq(rolling, LAMBDA entry : entry.closed_at >= WindowStart(ROLLING_WINDOW))

\* The ends of the outage are the caller's, and may lie ahead.
RecordOutageClose(from, to) ==
    LET closed == [closed_at |-> to, downtime_seconds |-> to - from]
    IN  /\ from <= to
        /\ Len(closings) < MaxClosings
        /\ closings' = Append(closings, closed)
        /\ rolling' = IF to >= WindowStart(ROLLING_WINDOW) THEN Append(collect_window, closed)
                        ELSE collect_window
        /\ UNCHANGED <<now, outcomes>>

get_rolling_uptime_window == RollingUptimeWindow(collect_window)
get_rolling_sla_bps == rolling_availability_bps(Downtime(collect_window))

-----------------------------------------------------------------------------
RollingInit ==
    /\ outcomes = [operator \in Rated |-> <<>>]
    /\ rolling = <<>>
    /\ closings = <<>>

BadgeNext ==
    \/ Tick /\ UNCHANGED rollingVars
    \/ \E operator \in Rated, met \in BOOLEAN : RecordOperatorOutcome(operator, met)

ClosingNext ==
    \/ Tick /\ UNCHANGED rollingVars
    \/ \E from, to \in Time : RecordOutageClose(from, to)

-----------------------------------------------------------------------------
(* Properties.                                                             *)

RollingTypeOK ==
    /\ outcomes \in [Rated -> Seq(OperatorOutcome)]
    /\ rolling \in Seq(RollingDowntimeEntry)
    /\ closings \in Seq(RollingDowntimeEntry)

\* Discarding what has left the window, whenever the next closing happens to be
\* recorded, loses nothing a reader would count: the window told is a recount
\* of all closings ever recorded (collect_window, record_outage_close).
WindowRecountsClosings ==
    LET counted == {i \in DOMAIN closings : closings[i].closed_at + ROLLING_WINDOW >= now}
        told == get_rolling_uptime_window
    IN  /\ told.outage_count = Cardinality(counted)
        /\ told.downtime_seconds = MapThenSumSet(LAMBDA i : closings[i].downtime_seconds, counted)
        /\ told.availability_bps = get_rolling_sla_bps

\* While nothing is recorded, availability only recovers; an outage recorded
\* never improves it, though recording is what discards the old ones.
AvailabilityFollowsOutages ==
    /\ now' # now => get_rolling_sla_bps' >= get_rolling_sla_bps
    /\ closings' # closings => get_rolling_sla_bps' <= get_rolling_sla_bps

\* A badge is moved by an outcome only in the direction of that outcome, and
\* only that operator's; time alone takes an unblemished badge from an
\* operator only when nothing is left in the window.
BadgeFollowsOutcomes ==
    \A operator \in Rated :
        LET tier == get_operator_tier(operator)
            rate == calculate_operator_compliance_bps(operator)
            recorded == outcomes'[operator] # outcomes[operator]
            last == outcomes'[operator][Len(outcomes'[operator])]
        IN  /\ recorded /\ last.met => get_operator_tier(operator)' >= tier
            /\ recorded /\ ~last.met => get_operator_tier(operator)' <= tier
            /\ ~recorded /\ now' = now => get_operator_tier(operator)' = tier
            /\ now' # now /\ rate = 10000 =>
                 calculate_operator_compliance_bps(operator)' \in {10000, 0}
=============================================================================
