---------------------------- MODULE Resolutions ----------------------------
(***************************************************************************)
(* The delay from the detection of an outage to its resolution                *)
(* (resolution_delay.rs).  The times are those of the reporters, whose clocks *)
(* need not agree with the ledger's: reports come late, and a detection may    *)
(* be dated in the future.                                                   *)
(***************************************************************************)
EXTENDS LedgerClock, FiniteSets

CONSTANTS
    Outage,        \* outages reported
    MAX_DELAY_S    \* 86 400 in the code

ASSUME DelayAssumption == MAX_DELAY_S \in Nat

VARIABLES
    resolutionStates,   \* STATE_MAP
    resolutions         \* RECORD_MAP

resolutionVars == <<resolutionStates, resolutions>>

NoReport == [detected_at |-> -1, resolved_at |-> 0, delay_seconds |-> 0]
ResolutionRecord == [detected_at : Time, resolved_at : Time, delay_seconds : 0..MAX_DELAY_S]

resolution_state(outage) == resolutionStates[outage]
is_pending(outage) == resolution_state(outage) = "Pending"

\* Absent is -1.
pending_delay(outage, at) ==
    LET elapsed == at - resolutions[outage].detected_at
    IN  IF ~is_pending(outage) THEN -1
          ELSE IF elapsed < 0 THEN 0
          ELSE IF elapsed > MAX_DELAY_S THEN MAX_DELAY_S ELSE elapsed

-----------------------------------------------------------------------------
\* A second detection of a pending outage succeeds and changes nothing.
MarkDetected(outage, detected_at) ==
    /\ resolution_state(outage) # "Resolved"
    /\ IF is_pending(outage)
         THEN UNCHANGED resolutionVars
         ELSE /\ resolutionStates' = [resolutionStates EXCEPT ![outage] = "Pending"]
              /\ resolutions' = [resolutions EXCEPT ![outage] =
                   [detected_at |-> detected_at, resolved_at |-> 0, delay_seconds |-> 0]]
    /\ UNCHANGED now

Resolvable(outage, resolved_at) ==
    /\ is_pending(outage)
    /\ resolved_at >= resolutions[outage].detected_at
    /\ resolved_at - resolutions[outage].detected_at <= MAX_DELAY_S

MarkResolved(outage, resolved_at) ==
    /\ Resolvable(outage, resolved_at)
    /\ resolutions' = [resolutions EXCEPT
         ![outage].resolved_at = resolved_at,
         ![outage].delay_seconds = resolved_at - resolutions[outage].detected_at]
    /\ resolutionStates' = [resolutionStates EXCEPT ![outage] = "Resolved"]
    /\ UNCHANGED now

-----------------------------------------------------------------------------
ResolutionInit ==
    /\ resolutionStates = [outage \in Outage |-> "Unknown"]
    /\ resolutions = [outage \in Outage |-> NoReport]

ResolutionNext ==
    \/ Tick /\ UNCHANGED resolutionVars
    \/ \E outage \in Outage, at \in Time : MarkDetected(outage, at) \/ MarkResolved(outage, at)

ResolutionSpec == now = 0 /\ ResolutionInit /\ [][ResolutionNext]_<<now, resolutionVars>>

-----------------------------------------------------------------------------
(* Properties.                                                             *)

\* The two maps are written one after the other and speak of the same outages;
\* a stored delay is the time between two stored instants, within the maximum.
ResolutionTypeOK ==
    /\ resolutionStates \in [Outage -> {"Unknown", "Pending", "Resolved"}]
    /\ resolutions \in [Outage -> ResolutionRecord \cup {NoReport}]
    /\ \A outage \in Outage :
         /\ resolutions[outage] = NoReport <=> resolution_state(outage) = "Unknown"
         /\ resolution_state(outage) = "Resolved" =>
              resolutions[outage].resolved_at =
                resolutions[outage].detected_at + resolutions[outage].delay_seconds

\* The pending delay forecasts the resolution: below the maximum, a resolution
\* dated now is accepted, once the detection's date is reached, and stores
\* exactly that delay; it is refused only at the maximum.
PendingDelayForecasts ==
    \A outage \in Outage : is_pending(outage) /\ now >= resolutions[outage].detected_at =>
        /\ pending_delay(outage, now) < MAX_DELAY_S => Resolvable(outage, now)
        /\ Resolvable(outage, now) =>
             pending_delay(outage, now) = now - resolutions[outage].detected_at

\* A pending outage can be resolved at any later time, if need be with a date
\* in the past: the maximal delay leaves no outage behind for ever.
NeverBeyondResolution ==
    \A outage \in Outage : is_pending(outage) => \E at \in Time : Resolvable(outage, at)

\* The first detection counts, and a resolution is final, whatever later
\* reports say (mark_detected, mark_resolved).
FirstReportsStand ==
    \A outage \in Outage :
        /\ resolutions[outage] # NoReport =>
             resolutions'[outage].detected_at = resolutions[outage].detected_at
        /\ resolution_state(outage) = "Resolved" =>
             resolutions'[outage] = resolutions[outage] /\ resolution_state(outage)' = "Resolved"

(***************************************************************************)
(* Excused downtime (force_majeure.rs).  The governance account records an    *)
(* interval in which an outage is not penalised, closes the record once the    *)
(* interval is over, and may then record the outage again, which replaces the  *)
(* record.  All times are the caller's: starts, ends and the date of a closing, *)
(* which may lie in the ledger's future.  The length of the reason and the      *)
(* residual penalty, which no reader of the record uses, are left out.       *)
(***************************************************************************)

CONSTANTS
    Excusable,      \* outages
    Governor,       \* accounts
    MAX_EXCUSE_S    \* 86 400 in the code

VARIABLES
    governance,     \* GOVERNANCE_KEY
    excuses         \* the fm_rec map

excuseVars == <<governance, excuses>>

NoExcuse == [started_at |-> 0, excused_until |-> 0, approved_by |-> "", closed_at |-> 0]
ForceMajeureRecord ==
    [started_at : Time, excused_until : Time, approved_by : Governor, closed_at : Time]

-----------------------------------------------------------------------------
(* Views.                                                                  *)

IsRecorded(outage) == excuses[outage] # NoExcuse

is_excused(outage, at) ==
    IsRecorded(outage) /\ at \in excuses[outage].started_at..excuses[outage].excused_until

is_open(outage) == IsRecorded(outage) /\ excuses[outage].closed_at = 0

apply_penalty_bps(outage, base, at) == IF is_excused(outage, at) THEN 0 ELSE base

excused_seconds(outage, at) ==
    LET record == excuses[outage]
        end == IF record.closed_at # 0 /\ record.closed_at < record.excused_until
                 THEN record.closed_at ELSE record.excused_until
    IN  IF ~IsRecorded(outage) \/ at <= record.started_at THEN 0
          ELSE IF at <= end THEN at - record.started_at
          ELSE end - record.started_at

-----------------------------------------------------------------------------
(* Operations.                                                             *)

\* The file gives the account away without asking anybody.
SetGovernance(account) ==
    /\ governance' = account
    /\ UNCHANGED <<now, excuses>>

\* Mutant: an open record may be replaced.
RecordForceMajeureAnyTime(caller, outage, from, until) ==
    /\ governance = caller
    /\ from < until
    /\ until - from <= MAX_EXCUSE_S
    /\ excuses' = [excuses EXCEPT ![outage] =
         [started_at |-> from, excused_until |-> until, approved_by |-> caller, closed_at |-> 0]]
    /\ UNCHANGED <<now, governance>>

RecordForceMajeure(caller, outage, from, until) ==
    /\ governance = caller
    /\ ~is_open(outage)
    /\ from < until
    /\ until - from <= MAX_EXCUSE_S
    /\ excuses' = [excuses EXCEPT ![outage] =
         [started_at |-> from, excused_until |-> until, approved_by |-> caller, closed_at |-> 0]]
    /\ UNCHANGED <<now, governance>>

CloseForceMajeure(caller, outage, at) ==
    /\ governance = caller
    /\ is_open(outage)
    /\ at >= excuses[outage].excused_until
    /\ excuses' = [excuses EXCEPT ![outage].closed_at = at]
    /\ UNCHANGED <<now, governance>>

-----------------------------------------------------------------------------
ForceMajeureInit ==
    /\ governance = ""
    /\ excuses = [outage \in Excusable |-> NoExcuse]

ForceMajeureNext ==
    \/ Tick /\ UNCHANGED excuseVars
    \/ \E account \in Governor : SetGovernance(account)
    \/ \E caller \in Governor, outage \in Excusable, from, until \in Time :
         RecordForceMajeure(caller, outage, from, until)
    \/ \E caller \in Governor, outage \in Excusable, at \in Time : CloseForceMajeure(caller, outage, at)

ForceMajeureSpec == now = 0 /\ ForceMajeureInit /\ [][ForceMajeureNext]_<<now, excuseVars>>

-----------------------------------------------------------------------------
(* Properties.                                                             *)

ForceMajeureTypeOK ==
    /\ governance \in Governor \cup {""}
    /\ excuses \in [Excusable -> ForceMajeureRecord \cup {NoExcuse}]

\* The two readings of a record agree: the seconds excused up to any instant
\* are the seconds at which no penalty applies, also after the record was
\* closed or replaced.
ExcuseViewsAgree ==
    \A outage \in Excusable, at \in Time :
        excused_seconds(outage, at) =
          Cardinality({t \in (excuses[outage].started_at + 1)..at :
                         apply_penalty_bps(outage, 1, t) = 0})

\* An excuse once granted is not lost, whoever governs next, unless the record
\* was first closed as of a date by which all of the interval is over; that date
\* is the caller's word and not the ledger's (record_force_majeure).
ExcuseOutlivesItsInterval ==
    \A outage \in Excusable, at \in Time :
        is_excused(outage, at) /\ ~is_excused(outage, at)' =>
            at <= excuses[outage].closed_at
=============================================================================
