-------------------------- MODULE SubmissionLimits --------------------------
(***************************************************************************)
(* The submission limits of submission_rate.rs: at most max_per_operator     *)
(* submissions of one operator and max_total of all, counted in windows that *)
(* open independently of each other.  Check and record are two functions of  *)
(* the file; a submission calls both within one invocation, which no other   *)
(* invocation interrupts.  The admin reconfigures and disables the limits    *)
(* between submissions, and a disabled limiter neither checks nor records.    *)
(***************************************************************************)
EXTENDS LedgerClock, FiniteSets, Sequences, FiniteSetsExt

CONSTANTS
    Operator,     \* the accounts that submit
    RateInputs,   \* what the admin may set: SubmissionRateInput records
    MaxLog        \* bound on the number of submissions

SubmissionRateInput == [max_per_operator : Int, max_total : Int, window_seconds : Int]

\* What set_submission_rate accepts of it.
AcceptedRates ==
    {input \in RateInputs : /\ input.max_per_operator \in 1..input.max_total
                            /\ input.window_seconds > 0}

ASSUME RateInputAssumption ==
    /\ RateInputs \subseteq SubmissionRateInput /\ IsFiniteSet(RateInputs)
    /\ AcceptedRates # {}
    /\ IsFiniteSet(Operator)

VARIABLES
    rateConfig,   \* SUB_RATE_KEY
    tracks,       \* per operator
    total,        \* over all operators
    log           \* history: the submissions that were counted

submissionVars == <<rateConfig, tracks, total, log>>

SubmissionRateConfig ==
    [max_per_operator : Nat, max_total : Nat, window_seconds : Nat \ {0}, enabled : BOOLEAN]

SubmissionTypeOK ==
    /\ rateConfig \in SubmissionRateConfig
    /\ tracks \in [Operator -> Track(Time) \cup {NoTrack}]
    /\ total \in Track(Time) \cup {NoTrack}
    /\ log \in Seq([operator : Operator, at : Time])

-----------------------------------------------------------------------------
(* Configuration and views.                                                *)

init_submission_rate ==
    [max_per_operator |-> 50, max_total |-> 200, window_seconds |-> 3600, enabled |-> FALSE]

Window == rateConfig.window_seconds

SetSubmissionRate(input) ==
    /\ input.max_per_operator > 0
    /\ input.max_total > 0
    /\ input.window_seconds > 0
    /\ input.max_per_operator <= input.max_total
    /\ rateConfig' = [max_per_operator |-> input.max_per_operator,
                  max_total |-> input.max_total,
                  window_seconds |-> input.window_seconds, enabled |-> TRUE]
    /\ UNCHANGED <<now, tracks, total, log>>

DisableSubmissionRate ==
    /\ rateConfig' = [rateConfig EXCEPT !.enabled = FALSE]
    /\ UNCHANGED <<now, tracks, total, log>>

get_operator_submission_count(operator) == InWindow(tracks[operator], Window)
get_global_submission_count == InWindow(total, Window)

\* The active window, or the one the next submission would open.
get_rate_window ==
    LET start == IF total # NoTrack /\ ~Over(total, Window) THEN total.start ELSE now
    IN  [start |-> start, end |-> start + Window]

-----------------------------------------------------------------------------
(* Submissions.                                                            *)

CheckSubmissionRate(operator) ==
    rateConfig.enabled =>
        /\ get_operator_submission_count(operator) < rateConfig.max_per_operator
        /\ get_global_submission_count < rateConfig.max_total

TotalAfter == Counted(total, Window)

\* Mutant: the operator is counted while the limits are disabled.
RecordWhenDisabled(operator) ==
    /\ tracks' = [tracks EXCEPT ![operator] = Counted(@, Window)]
    /\ total' = IF rateConfig.enabled THEN TotalAfter ELSE total
    /\ log' = IF rateConfig.enabled THEN Append(log, [operator |-> operator, at |-> now]) ELSE log

RecordSubmission(operator) ==
    IF rateConfig.enabled
      THEN /\ tracks' = [tracks EXCEPT ![operator] = Counted(@, Window)]
           /\ total' = TotalAfter
           /\ log' = Append(log, [operator |-> operator, at |-> now])
      ELSE UNCHANGED <<tracks, total, log>>

Submit(operator) ==
    /\ Len(log) < MaxLog
    /\ CheckSubmissionRate(operator)
    /\ RecordSubmission(operator)
    /\ UNCHANGED <<now, rateConfig>>

-----------------------------------------------------------------------------
(* The system.                                                             *)

SubmissionInit ==
    /\ rateConfig = init_submission_rate
    /\ tracks = [operator \in Operator |-> NoTrack]
    /\ total = NoTrack
    /\ log = <<>>

SubmissionNext ==
    \/ Tick /\ UNCHANGED submissionVars
    \/ DisableSubmissionRate
    \/ \E input \in RateInputs : SetSubmissionRate(input)
    \/ \E operator \in Operator : Submit(operator)

-----------------------------------------------------------------------------
(* Properties.                                                             *)

Logged(operators, from, to) ==
    Cardinality({i \in DOMAIN log : log[i].operator \in operators /\ log[i].at \in from..to})

\* A counter says how many submissions were counted since its window opened,
\* for each operator and for all together, across reconfigurations and times
\* of being disabled (record_submission).  Only at the very second a shorter
\* window is configured may a submission belong to the old window and to the
\* time of the new one.
CountsSince(track, operators) ==
    track # NoTrack =>
        track.count \in Logged(operators, track.start + 1, now)..Logged(operators, track.start, now)
CountsAreExact ==
    /\ CountsSince(total, Operator)
    /\ \A operator \in Operator : CountsSince(tracks[operator], {operator})

HighestLimit(field) == Max({input[field] : input \in AcceptedRates})
ShortestWindow == Min({input.window_seconds : input \in AcceptedRates})

\* Whatever the admin changes, a stretch of time as long as the shortest
\* window sees at most twice the largest limit: fixed windows allow a burst at
\* the end of one and the start of the next, and nothing more.  The operators'
\* windows and the common one open at different times, so neither limit
\* follows from the other.
BurstBound ==
    \A from \in Time :
        /\ Logged(Operator, from, from + ShortestWindow - 1) <= 2 * HighestLimit("max_total")
        /\ \A operator \in Operator :
             Logged({operator}, from, from + ShortestWindow - 1)
               <= 2 * HighestLimit("max_per_operator")

\* The window reported to callers is the one the next submission is counted
\* in: it contains the present, and a submission made now leaves it as it is
\* (get_rate_window is a third reading of the same counter).
WindowIsTheOneCountedIn ==
    /\ now \in get_rate_window.start..(get_rate_window.end - 1)
    /\ TotalAfter.start = get_rate_window.start

\* The counters of operators whose windows opened after the common one add up
\* to no more than the common counter: the two levels, which move their
\* windows independently, count the same submissions.
TotalCoversOperators ==
    LET inside == {operator \in Operator : total # NoTrack /\ tracks[operator].start > total.start}
    IN  inside # {} =>
            MapThenSumSet(LAMBDA operator : tracks[operator].count, inside) <= total.count

\* The limits of submission_rate.rs hold: the properties above together.
SubmissionLimitsHold ==
    /\ SubmissionTypeOK
    /\ CountsAreExact
    /\ BurstBound
    /\ WindowIsTheOneCountedIn
    /\ TotalCoversOperators

(***************************************************************************)
(* The rate limit of rate_limit.rs: at most max_submissions of one caller in  *)
(* a window.  As its comments ask, check_rate_limit comes before the          *)
(* calculation and record_submission after a successful one, in the same      *)
(* invocation; a calculation that fails is not recorded.                      *)
(***************************************************************************)

CONSTANTS
    Caller,       \* the accounts that submit
    LimitInputs,  \* the [max_submissions, window_seconds] the admin may set
    MaxCalls      \* bound on the number of submissions

\* What set_rate_limit accepts.
AcceptedLimits == {input \in LimitInputs : input.max_submissions # 0 /\ input.window_seconds # 0}

ASSUME LimitInputAssumption ==
    /\ LimitInputs \subseteq [max_submissions : Nat, window_seconds : Nat]
    /\ IsFiniteSet(LimitInputs) /\ AcceptedLimits # {}

VARIABLES
    callerLimit, \* RATE_LIMIT_KEY, or NoLimit
    trackers,    \* TRK_<caller>
    lastAt,      \* last_submission of each tracker
    calls        \* history: the submissions that were recorded

callerLimitVars == <<callerLimit, trackers, lastAt, calls>>

NoLimit == [max_submissions |-> 0, window_seconds |-> 0, enabled |-> FALSE]
RateLimitConfig == [max_submissions : Nat, window_seconds : Nat, enabled : BOOLEAN]

\* A tracker's last submission is not before the start of its window.
RateLimitTypeOK ==
    /\ callerLimit \in RateLimitConfig
    /\ trackers \in [Caller -> Track(Time) \cup {NoTrack}]
    /\ lastAt \in [Caller -> Time]
    /\ \A caller \in Caller : lastAt[caller] >= trackers[caller].start
    /\ calls \in Seq([caller : Caller, at : Time])

-----------------------------------------------------------------------------
init_rate_limit == [max_submissions |-> 100, window_seconds |-> 3600, enabled |-> FALSE]

SetRateLimit(input) ==
    /\ input.max_submissions # 0
    /\ input.window_seconds # 0
    /\ callerLimit' = [max_submissions |-> input.max_submissions,
                  window_seconds |-> input.window_seconds, enabled |-> TRUE]
    /\ UNCHANGED <<now, trackers, lastAt, calls>>

\* Disabling a limit that was never set stores the initial values.
DisableRateLimit ==
    /\ callerLimit' = [(IF callerLimit = NoLimit THEN init_rate_limit ELSE callerLimit) EXCEPT !.enabled = FALSE]
    /\ UNCHANGED <<now, trackers, lastAt, calls>>

get_submission_count(caller) ==
    IF callerLimit = NoLimit \/ trackers[caller] = NoTrack THEN 0
      ELSE InWindow(trackers[caller], callerLimit.window_seconds)

CheckRateLimit(caller) ==
    callerLimit.enabled =>
        InWindow(trackers[caller], callerLimit.window_seconds) < callerLimit.max_submissions

RecordCall(caller) ==
    IF callerLimit.enabled
      THEN /\ trackers' = [trackers EXCEPT ![caller] = Counted(@, callerLimit.window_seconds)]
           /\ lastAt' = [lastAt EXCEPT ![caller] = now]
           /\ calls' = Append(calls, [caller |-> caller, at |-> now])
      ELSE UNCHANGED <<trackers, lastAt, calls>>

\* A checked calculation that succeeds.
LimitedCall(caller) ==
    /\ Len(calls) < MaxCalls
    /\ CheckRateLimit(caller)
    /\ RecordCall(caller)
    /\ UNCHANGED <<now, callerLimit>>

RateLimitInit ==
    /\ callerLimit \in {NoLimit, init_rate_limit}
    /\ trackers = [caller \in Caller |-> NoTrack]
    /\ lastAt = [caller \in Caller |-> 0]
    /\ calls = <<>>

RateLimitNext ==
    \/ Tick /\ UNCHANGED callerLimitVars
    \/ DisableRateLimit
    \/ \E input \in LimitInputs : SetRateLimit(input)
    \/ \E caller \in Caller : LimitedCall(caller)

-----------------------------------------------------------------------------
(* Properties.                                                             *)

LoggedBy(caller, from, to) ==
    Cardinality({i \in DOMAIN calls : calls[i].caller = caller /\ calls[i].at \in from..to})

\* One caller's submissions never exceed twice the largest limit within the
\* shortest window that was ever configured, whatever the other callers do,
\* the admin changes, or the times of being disabled: the count of a caller
\* starts anew only after a full window, and never because of somebody else.
CallerBurstBound ==
    LET highest == Max({input.max_submissions : input \in AcceptedLimits})
        shortest == Min({input.window_seconds : input \in AcceptedLimits})
    IN  \A caller \in Caller, from \in Time :
            LoggedBy(caller, from, from + shortest - 1) <= 2 * highest

\* What callers are told agrees with what they will meet: while the limit is
\* on, the reported count is below the limit exactly when a submission passes,
\* and it never exceeds what was submitted in the window's length.
ReportForecastsCheck ==
    callerLimit.enabled => \A caller \in Caller :
        /\ (get_submission_count(caller) < callerLimit.max_submissions) <=> CheckRateLimit(caller)
        /\ get_submission_count(caller) <= LoggedBy(caller, now - callerLimit.window_seconds + 1, now)

\* The limit of rate_limit.rs holds: the properties above together.
RateLimitHolds == RateLimitTypeOK /\ CallerBurstBound /\ ReportForecastsCheck
=============================================================================
