------------------------------- MODULE Claims -------------------------------
(***************************************************************************)
(* The claim windows of claim_deadline.rs.  A window is opened for a claim,   *)
(* extended a limited number of times, and ends by a payment or by being      *)
(* expired, which only a call does: a window that has merely lapsed is still  *)
(* stored as open.  The callers pass the ledger time.                        *)
(***************************************************************************)
EXTENDS LedgerClock, Sequences

CONSTANTS
    Claim,            \* claim identifiers
    WindowInputs,     \* window lengths and extensions tried, in seconds
    BpsInputs,        \* shares of the gross amount tried
    GrossInputs,      \* gross amounts tried
    MAX_WINDOW_S,     \* 2 592 000 in the code
    MAX_EXTENSIONS,   \* 2 in the code
    MAX_CLAIM_BPS,    \* 20 000 in the code
    MaxOpenings       \* bound on the openings of one claim

ASSUME ClaimsAssumption ==
    /\ WindowInputs \subseteq Nat /\ BpsInputs \subseteq Nat /\ GrossInputs \subseteq Nat
    /\ MAX_WINDOW_S \in Nat /\ MAX_EXTENSIONS \in Nat /\ MAX_CLAIM_BPS \in Nat
    /\ MaxOpenings \in Nat

VARIABLES
    windows,      \* WINDOW_MAP
    payouts,      \* history: the payments of each claim
    openings      \* history: how often each claim was opened

claimVars == <<windows, payouts, openings>>

BPS_DENOMINATOR == 10000

NoWindow == [opened_at |-> 0, deadline |-> 0, max_claim_bps |-> 0,
             state |-> "Absent", extensions |-> 0]
ClaimWindow ==
    [opened_at : Time, deadline : Nat, max_claim_bps : 1..MAX_CLAIM_BPS,
     state : {"Open", "Claimed", "Expired"}, extensions : 0..MAX_EXTENSIONS]
ClaimPayout == [gross : Nat, amount : Nat, claimed_at : Time]

-----------------------------------------------------------------------------
(* Views.                                                                  *)

claim_state(claim) ==
    IF windows[claim].state = "Open" /\ now > windows[claim].deadline
      THEN "Expired" ELSE windows[claim].state

is_claimable(claim) == claim_state(claim) = "Open"

seconds_remaining(claim) ==
    IF windows[claim].deadline > now THEN windows[claim].deadline - now ELSE 0

remaining_claim_time(claim) == IF is_claimable(claim) THEN seconds_remaining(claim) ELSE 0

\* What is_claimable lets be paid: never less than one unit.
claimable_amount(claim, gross) ==
    LET share == (gross * windows[claim].max_claim_bps) \div BPS_DENOMINATOR
    IN  IF share > 0 THEN share ELSE 1

-----------------------------------------------------------------------------
(* Operations.                                                             *)

\* A window that was opened before may be opened again once it was expired.
OpenClaimWindow(claim, seconds, bps) ==
    /\ openings[claim] < MaxOpenings
    /\ seconds \in 1..MAX_WINDOW_S
    /\ bps \in 1..MAX_CLAIM_BPS
    /\ windows[claim].state \notin {"Open", "Claimed"}
    /\ windows' = [windows EXCEPT ![claim] =
         [opened_at |-> now, deadline |-> now + seconds, max_claim_bps |-> bps,
          state |-> "Open", extensions |-> 0]]
    /\ openings' = [openings EXCEPT ![claim] = @ + 1]
    /\ UNCHANGED <<now, payouts>>

PayClaim(claim, gross) ==
    /\ gross > 0
    /\ is_claimable(claim)
    /\ windows' = [windows EXCEPT ![claim].state = "Claimed"]
    /\ payouts' = [payouts EXCEPT ![claim] = Append(@,
         [gross |-> gross, amount |-> claimable_amount(claim, gross), claimed_at |-> now])]
    /\ UNCHANGED <<now, openings>>

\* Mutant: the stored state is looked at, not the deadline.
ExtendClaimDeadlineLapsed(claim, extra) ==
    /\ extra \in 1..MAX_WINDOW_S
    /\ windows[claim].state = "Open"
    /\ windows[claim].extensions < MAX_EXTENSIONS
    /\ windows' = [windows EXCEPT ![claim].deadline = @ + extra, ![claim].extensions = @ + 1]
    /\ UNCHANGED <<now, payouts, openings>>

ExtendClaimDeadline(claim, extra) ==
    /\ extra \in 1..MAX_WINDOW_S
    /\ windows[claim].state = "Open"
    /\ now <= windows[claim].deadline
    /\ windows[claim].extensions < MAX_EXTENSIONS
    /\ windows' = [windows EXCEPT ![claim].deadline = @ + extra, ![claim].extensions = @ + 1]
    /\ UNCHANGED <<now, payouts, openings>>

ExpireClaim(claim) ==
    /\ windows[claim].state \notin {"Absent", "Claimed", "Expired"}
    /\ now > windows[claim].deadline
    /\ windows' = [windows EXCEPT ![claim].state = "Expired"]
    /\ UNCHANGED <<now, payouts, openings>>

-----------------------------------------------------------------------------
ClaimsInit ==
    /\ windows = [claim \in Claim |-> NoWindow]
    /\ payouts = [claim \in Claim |-> <<>>]
    /\ openings = [claim \in Claim |-> 0]

ClaimsNext ==
    \/ Tick /\ UNCHANGED claimVars
    \/ \E claim \in Claim, seconds \in WindowInputs, bps \in BpsInputs :
         OpenClaimWindow(claim, seconds, bps)
    \/ \E claim \in Claim, gross \in GrossInputs : PayClaim(claim, gross)
    \/ \E claim \in Claim, extra \in WindowInputs : ExtendClaimDeadline(claim, extra)
    \/ \E claim \in Claim : ExpireClaim(claim)

ClaimsSpec == now = 0 /\ ClaimsInit /\ [][ClaimsNext]_<<now, claimVars>>

-----------------------------------------------------------------------------
(* Properties.                                                             *)

ClaimsTypeOK ==
    /\ windows \in [Claim -> ClaimWindow \cup {NoWindow}]
    /\ payouts \in [Claim -> Seq(ClaimPayout)]
    /\ openings \in [Claim -> 0..MaxOpenings]

\* However often a claim is opened, extended and expired, it is paid at most
\* once; the payment lies within the window it was made from, and no window
\* lasts longer than its own length and MAX_EXTENSIONS extensions allow.
PaidOnceInTime ==
    \A claim \in Claim :
        /\ windows[claim].deadline <= windows[claim].opened_at + (1 + MAX_EXTENSIONS) * MAX_WINDOW_S
        /\ Len(payouts[claim]) = (IF windows[claim].state = "Claimed" THEN 1 ELSE 0)
        /\ \A i \in DOMAIN payouts[claim] :
             payouts[claim][i].claimed_at \in windows[claim].opened_at..windows[claim].deadline

\* What a claimant is told of the time left agrees with what the payment
\* accepts: time is left exactly while it does, the last second excepted.
TimeLeftIsTimeToClaim ==
    \A claim \in Claim :
        is_claimable(claim) <=> \/ remaining_claim_time(claim) > 0
                                \/ windows[claim].state = "Open" /\ now = windows[claim].deadline

\* A claim that cannot be paid becomes payable only by being opened anew, for
\* which an older window must have been expired: neither a late extension nor
\* the passing of time brings it back.
RevivedOnlyByOpening ==
    \A claim \in Claim :
        ~is_claimable(claim) /\ is_claimable(claim)' =>
            /\ openings'[claim] = openings[claim] + 1
            /\ windows[claim].state \in {"Absent", "Expired"}

\* Claims are paid once and in time, and lapse for good unless opened anew
\* (claim_deadline.rs): the three properties above together.
ClaimsAreHonoured ==
    /\ [](ClaimsTypeOK /\ PaidOnceInTime /\ TimeLeftIsTimeToClaim)
    /\ [][RevivedOnlyByOpening]_<<now, claimVars>>
=============================================================================
