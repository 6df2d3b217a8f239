--------------------------- MODULE DisputeRecourse ---------------------------
(***************************************************************************)
(* What may be done about a dispute beside voting on it: withdraw it          *)
(* (dispute_withdrawal.rs), settle it by force (dispute_force_settle.rs),      *)
(* appeal its outcome (dispute_appeal.rs), and look it up afterwards           *)
(* (provider_dispute_history.rs).  The files store the consumed appeals and     *)
(* their limit and nothing else: what they need to know of a dispute, its        *)
(* times, its votes, its bond and whether it is over, is what a caller says, and  *)
(* what they decide is announced and moves neither the dispute nor a token.      *)
(***************************************************************************)
EXTENDS LedgerClock, FiniteSets, Sequences, SequencesExt

CONSTANTS
    Contested,             \* dispute identifiers
    BondInputs,            \* bonds callers hand in
    AppealLimits,          \* limits the admin may set
    WITHDRAWAL_S,          \* TWO_HOURS_SECS
    APPEAL_S,              \* FORTY_EIGHT_HOURS_SECS
    INACTIVE_S,            \* THIRTY_DAYS_SECS
    MAX_APPEALS_CEILING,   \* 10
    PageWord,              \* 2^32: where the arithmetic of pages wraps
    MaxEvents,             \* bound on the announced events
    MaxListed              \* bound on the length of a provider's history

ASSUME RecourseAssumption ==
    /\ BondInputs \subseteq Int
    /\ AppealLimits \subseteq Nat
    /\ {WITHDRAWAL_S, APPEAL_S, INACTIVE_S, MAX_APPEALS_CEILING} \subseteq Nat
    /\ WITHDRAWAL_S < INACTIVE_S /\ MAX_APPEALS_CEILING > 0
    /\ PageWord \in Nat \ {0}

VARIABLES
    recourses,         \* history: the events announced about disputes
    appeals,           \* (APPEAL_COUNT_KEY, dispute)
    maxAppeals,        \* MAX_APPEALS_KEY, with its default of 1
    granted,           \* history: the numbers record_appeal has answered
    highestLimit,      \* history: the highest limit in force so far
    outcomeList        \* the records a caller hands to get_provider_disputes

appealVars == <<appeals, maxAppeals, granted, highestLimit>>
recourseVars == <<recourses, appealVars, outcomeList>>

\* since: the time the caller handed in, of filing, last activity or settlement.
RecourseStep == [kind : {"withdrawn", "forced", "appealed"}, dispute_id : Contested,
                 since : Time, at : Time]
Outcomes == {"Upheld", "Dismissed", "Withdrawn"}

-----------------------------------------------------------------------------
(* Announcements.                                                          *)

Announce(kind, dispute, since) ==
    /\ recourses' = recourses \cup
         {[kind |-> kind, dispute_id |-> dispute, since |-> since, at |-> now]}
    /\ UNCHANGED <<now, appealVars, outcomeList>>

\* The division truncates towards zero.
Refund(bond) == IF bond >= 0 THEN (bond * 95) \div 100 ELSE -(((-bond) * 95) \div 100)
AppealBond(bond) == bond * 2

\* withdraw_dispute, and withdraw_dispute_checked of a dispute its caller says
\* is neither final nor suspended.
WithdrawDispute(dispute, filed_at, votes_cast) ==
    /\ now <= filed_at + WITHDRAWAL_S
    /\ votes_cast = 0
    /\ Announce("withdrawn", dispute, filed_at)

\* force_settle_dispute, and force_settle_unsettled of a dispute its caller says
\* is not settled; whoever signs, there are three of them.
ForceSettleDispute(dispute, last_activity_at, signers) ==
    /\ now >= last_activity_at + INACTIVE_S
    /\ signers >= 3
    /\ Announce("forced", dispute, last_activity_at)

\* file_appeal: whether there was one already is what the caller says.
FileAppeal(dispute, settled_at, already_appealed) ==
    /\ ~already_appealed
    /\ now <= settled_at + APPEAL_S
    /\ Announce("appealed", dispute, settled_at)

-----------------------------------------------------------------------------
(* The count of appeals.                                                   *)

SetMaxAppeals(max) ==
    /\ max \in 1..MAX_APPEALS_CEILING
    /\ maxAppeals' = max
    /\ highestLimit' = IF max > highestLimit THEN max ELSE highestLimit
    /\ UNCHANGED <<now, recourses, appeals, granted, outcomeList>>

\* Mutant: the limit is overstepped by one.
RecordAppealBeyond(dispute) ==
    /\ appeals[dispute] <= maxAppeals
    /\ appeals' = [appeals EXCEPT ![dispute] = @ + 1]
    /\ granted' = [granted EXCEPT ![dispute] = Append(@, appeals[dispute] + 1)]
    /\ UNCHANGED <<now, recourses, maxAppeals, highestLimit, outcomeList>>

RecordAppeal(dispute) ==
    /\ appeals[dispute] < maxAppeals
    /\ appeals' = [appeals EXCEPT ![dispute] = @ + 1]
    /\ granted' = [granted EXCEPT ![dispute] = Append(@, appeals[dispute] + 1)]
    /\ UNCHANGED <<now, recourses, maxAppeals, highestLimit, outcomeList>>

-----------------------------------------------------------------------------
(* A provider's history.                                                   *)

\* The caller's list grows with every dispute that ended.
ListOutcome(outcome) ==
    /\ Len(outcomeList) < MaxListed
    /\ outcomeList' = Append(outcomeList, outcome)
    /\ UNCHANGED <<now, recourses, appealVars>>

\* Start and end of a page are machine words, and a page may start beyond the end.
get_provider_disputes(page, size) ==
    LET start == (page * size) % PageWord
        stop == (start + size) % PageWord
    IN  SubSeq(outcomeList, start + 1, Min({Len(outcomeList), stop}))

-----------------------------------------------------------------------------
RecourseInit ==
    /\ recourses = {}
    /\ appeals = [dispute \in Contested |-> 0]
    /\ maxAppeals = 1
    /\ granted = [dispute \in Contested |-> <<>>]
    /\ highestLimit = 1
    /\ outcomeList = <<>>

RecourseNext ==
    \/ Tick /\ UNCHANGED recourseVars
    \/ /\ Cardinality(recourses) < MaxEvents
       /\ \E dispute \in Contested, since \in Time :
            \/ \E votes \in 0..1 : WithdrawDispute(dispute, since, votes)
            \/ \E signers \in 2..3 : ForceSettleDispute(dispute, since, signers)
            \/ \E already \in BOOLEAN : FileAppeal(dispute, since, already)

AppealNext ==
    \/ \E max \in AppealLimits : SetMaxAppeals(max)
    \/ \E dispute \in Contested : RecordAppeal(dispute)

ListingNext == \E outcome \in Outcomes : ListOutcome(outcome)

-----------------------------------------------------------------------------
(* Properties.                                                             *)

RecourseTypeOK ==
    /\ recourses \subseteq RecourseStep
    /\ appeals \in [Contested -> Nat]
    /\ maxAppeals \in 1..MAX_APPEALS_CEILING
    /\ granted \in [Contested -> Seq(Nat)]
    /\ highestLimit \in Nat
    /\ outcomeList \in Seq(Outcomes)

\* Withdrawing and forcing exclude each other by their times alone: of a dispute
\* whose last activity was not before its filing, any withdrawal came before
\* any forced settlement, whatever else callers say and however late they call.
WithdrawnBeforeForced ==
    \A one, other \in recourses :
        /\ one.kind = "withdrawn" /\ other.kind = "forced"
        /\ one.dispute_id = other.dispute_id
        /\ one.since <= other.since
        => one.at < other.at

\* A refund keeps the sign of the bond and leaves some of it, down to the
\* smallest one, so that an appeal always asks for more than a withdrawal returns.
RefundLeavesAShare ==
    \A bond \in BondInputs :
        /\ bond > 0 => Refund(bond) >= 0 /\ Refund(bond) < bond /\ Refund(bond) < AppealBond(bond)
        /\ bond < 0 => Refund(bond) <= 0 /\ Refund(bond) > bond /\ Refund(bond) > AppealBond(bond)

\* However the limit is moved between the appeals of a dispute, lowered below
\* their count and raised again, their numbers are given out once each and in
\* order, and never one beyond the highest limit that was in force.
AppealsAreNumbered ==
    \A dispute \in Contested :
        /\ granted[dispute] = [n \in 1..appeals[dispute] |-> n]
        /\ appeals[dispute] <= highestLimit

\* The pages of a history that stays within a word put one behind the other are
\* the history, for every size of a page.
PagesTileTheHistory ==
    \A size \in 1..(Len(outcomeList) + 1) :
        (Len(outcomeList) + 1) * (Len(outcomeList) + 1) < PageWord =>
          FlattenSeq([page \in 1..(Len(outcomeList) + 1) |-> get_provider_disputes(page - 1, size)]) = outcomeList
=============================================================================
