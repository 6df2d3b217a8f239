------------------------------ MODULE Disputes ------------------------------
(***************************************************************************)
(* Filing, escalation, arbitration and settlement of disputes               *)
(* (sla_calculator/src/dispute.rs).                                         *)
(*                                                                         *)
(* One action is one successful call; votes, admin decisions, evidence and  *)
(* the passing of the arbitration window interleave freely.  Bonds and      *)
(* payouts are accounting entries: the module moves no tokens.  A bond is     *)
(* any i128, the negative ones included: open_dispute checks nothing about    *)
(* it.  Reasons, resolution notes and who resolved a dispute, which no handler *)
(* reads, are left out, and evidence_hash is the last entry of               *)
(* evidence_history.                                                       *)
(***************************************************************************)
EXTENDS Integers, FiniteSets, Sequences, FiniteSetsExt

CONSTANTS
    Account,              \* filers and arbitrators
    Filers,               \* accounts that file disputes
    Admin,                \* the account stored under ADMIN
    DisputeId,            \* identifiers a filer may choose
    NoDispute, NoPayout,  \* absent map entries
    Evidence,             \* evidence hashes
    Bonds,                \* bonds a filer may post
    Ballots,              \* votes that may be cast
    Panels,               \* panels the admin may assign
    MAX_ACTIVE_DISPUTES,
    ArbitrationWindow,    \* DEFAULT_ARBITRATION_WINDOW_SECS
    MaxTime,              \* bound on the ledger time
    MaxPosted,            \* bound on the positive bonds posted altogether
    MaxEvidence           \* bound on the evidence added to a dispute

ARBITRATOR_FEE_BPS == 500
BPS_DENOMINATOR == 10000
ARBITRATOR_PANEL_SIZE == 3
ARBITRATOR_QUORUM == 2

Vote == [arbitrator : Account, decision : {"UpholdOutage", "DismissOutage"}, frivolous : BOOLEAN]

\* A panel is a vector of exactly three addresses of which only membership
\* matters; the same address may be named twice.
ASSUME DisputeAssumption ==
    /\ IsFiniteSet(Account) /\ IsFiniteSet(DisputeId)
    /\ Filers \subseteq Account /\ Bonds \subseteq Int
    /\ Ballots \subseteq Vote
    /\ Panels \subseteq SUBSET Account
    /\ \A panel \in Panels : Cardinality(panel) \in 1..ARBITRATOR_PANEL_SIZE
    /\ MAX_ACTIVE_DISPUTES \in Nat
    /\ ArbitrationWindow \in Nat /\ MaxTime \in Nat
    /\ MaxPosted \in Nat /\ MaxEvidence \in Nat

VARIABLES
    now,        \* env.ledger().timestamp()
    disputes,   \* DISP
    payouts,    \* PAYOUT
    fees,       \* ARBFEE, 0 for an account without an entry
    pool,       \* ARBPOOL
    posted,     \* the sum of all positive bonds ever posted
    released    \* the sum of all positive customer payouts ever recorded

vars == <<now, disputes, payouts, fees, pool, posted, released>>
settlementVars == <<payouts, fees, pool, released>>

Status == {"Open", "UnderReview", "Escalated", "Resolved", "Dismissed"}
Level == {"L1Support", "L2Engineering", "L3Management"}
Dispute == [opened_by : Account, status : Status, escalation_level : Level,
            bond_amount : Int, evidence_history : Seq(Evidence), votes_detail : SUBSET Vote,
            designated_arbitrators : SUBSET Account, deadline : Nat]
Payout == [upheld : BOOLEAN, customer_payout : Int, arbitrator_fee_total : Int,
           per_arbitrator_share : Int]

ASSUME NoDisputeAssumption == NoDispute \notin Dispute

TypeOK ==
    /\ now \in 0..MaxTime
    /\ disputes \in [DisputeId -> Dispute \cup {NoDispute}]
    /\ payouts \in [DisputeId -> Payout \cup {NoPayout}]
    /\ fees \in [Account -> Nat]
    /\ {pool, posted, released} \subseteq Nat

-----------------------------------------------------------------------------
(* Reading the state.                                                      *)

is_active(dispute) == dispute.status \in {"Open", "UnderReview", "Escalated"}
Active(id) == disputes[id] # NoDispute /\ is_active(disputes[id])
ActiveDisputes == {id \in DisputeId : Active(id)}

Voters(dispute) == {vote.arbitrator : vote \in dispute.votes_detail}
VotesFor(dispute, decision) ==
    Cardinality({vote \in dispute.votes_detail : vote.decision = decision})

\* try_tally_quorum.
QuorumUpholds(dispute) == VotesFor(dispute, "UpholdOutage") >= ARBITRATOR_QUORUM
\* Mutant: more votes than the quorum are needed.
QuorumDismissesLate(dispute) == VotesFor(dispute, "DismissOutage") > ARBITRATOR_QUORUM

QuorumDismisses(dispute) == VotesFor(dispute, "DismissOutage") >= ARBITRATOR_QUORUM
QuorumReached(dispute) == QuorumUpholds(dispute) \/ QuorumDismisses(dispute)
BondIsSlashed(dispute) ==
    /\ ~QuorumUpholds(dispute)
    /\ Cardinality(dispute.votes_detail) = ARBITRATOR_PANEL_SIZE
    /\ \A vote \in dispute.votes_detail : vote.decision = "DismissOutage" /\ vote.frivolous

\* Division of i128s rounds toward zero.
Quotient(a, b) == IF a >= 0 THEN a \div b ELSE -((-a) \div b)

\* Mutant: the sign is not checked, and negative shares are booked.
CreditUnchecked(amount) == amount

Credit(amount) == IF amount > 0 THEN amount ELSE 0

\* The payout settle_dispute records.
ArbitratorFee(dispute, upheld) ==
    IF upheld /\ Voters(dispute) # {}
    THEN Quotient(dispute.bond_amount * ARBITRATOR_FEE_BPS, BPS_DENOMINATOR)
    ELSE 0
PayoutOf(dispute, upheld, slash) ==
    LET fee == IF slash THEN 0 ELSE ArbitratorFee(dispute, upheld)
    IN [upheld |-> upheld,
        customer_payout |-> IF slash THEN 0 ELSE dispute.bond_amount - fee,
        arbitrator_fee_total |-> fee,
        per_arbitrator_share |-> IF Voters(dispute) = {} THEN 0
                                 ELSE Quotient(fee, Cardinality(Voters(dispute)))]

\* settle_dispute: the one way a dispute is resolved.  Shares and slashed bonds
\* are booked only when they are positive.
Settle(id, dispute, upheld, slash) ==
    LET payout == PayoutOf(dispute, upheld, slash)
        share == payout.per_arbitrator_share
    IN /\ disputes' = [disputes EXCEPT ![id] = [dispute EXCEPT !.status = "Resolved"]]
       /\ payouts' = [payouts EXCEPT ![id] = payout]
       /\ fees' = [a \in Account |-> IF a \in Voters(dispute) THEN fees[a] + Credit(share)
                                  ELSE fees[a]]
       /\ pool' = IF slash THEN pool + Credit(dispute.bond_amount) ELSE pool
       /\ released' = released + Credit(payout.customer_payout)
       /\ UNCHANGED <<now, posted>>

-----------------------------------------------------------------------------
(* Calls.                                                                  *)

\* An existing dispute of that identifier, active or not, is replaced.  The
\* evidence handed in is put into a vector that the record does not use.
OpenDispute(caller, id, bond) ==
    /\ posted' = posted + Credit(bond) /\ posted' <= MaxPosted
    /\ Cardinality(ActiveDisputes) < MAX_ACTIVE_DISPUTES
    /\ disputes' = [disputes EXCEPT ![id] =
           [opened_by |-> caller, status |-> "Open", escalation_level |-> "L1Support",
            bond_amount |-> bond, evidence_history |-> << >>, votes_detail |-> {},
            designated_arbitrators |-> {}, deadline |-> now + ArbitrationWindow]]
    /\ UNCHANGED <<now, settlementVars>>

EscalateDispute(caller, id) ==
    /\ caller = Admin
    /\ disputes[id] # NoDispute
    /\ disputes[id].status \in {"Open", "UnderReview"}
    /\ disputes[id].escalation_level # "L3Management"
    /\ disputes' = [disputes EXCEPT
           ![id].escalation_level = IF @ = "L1Support" THEN "L2Engineering" ELSE "L3Management",
           ![id].status = "Escalated"]
    /\ UNCHANGED <<now, settlementVars, posted>>

AddDisputeEvidence(caller, id, evidence) ==
    /\ Active(id)
    /\ Len(disputes[id].evidence_history) < MaxEvidence
    /\ disputes[id].opened_by = caller
    /\ disputes' = [disputes EXCEPT ![id].evidence_history = Append(@, evidence)]
    /\ UNCHANGED <<now, settlementVars, posted>>

\* Votes cast before, by whomever, stay.
AssignArbitratorPanel(caller, id, panel) ==
    /\ caller = Admin
    /\ Active(id)
    /\ disputes' = [disputes EXCEPT ![id].designated_arbitrators = panel]
    /\ UNCHANGED <<now, settlementVars, posted>>

\* A second vote of an arbitrator changes nothing.
WithVote(dispute, vote) ==
    IF vote.arbitrator \in Voters(dispute)
    THEN dispute
    ELSE [dispute EXCEPT !.votes_detail = @ \cup {vote}]

\* Mutant: the votes are tallied before the new one is added.
CastArbitratorVoteStale(id, vote) ==
    /\ Active(id)
    /\ LET panel == disputes[id].designated_arbitrators
           voted == WithVote(disputes[id], vote)
       IN /\ panel = {} \/ vote.arbitrator \in panel
          /\ \/ /\ QuorumReached(disputes[id])
                /\ Settle(id, voted, QuorumUpholds(disputes[id]), BondIsSlashed(disputes[id]))
             \/ /\ ~QuorumReached(disputes[id])
                /\ disputes' = [disputes EXCEPT ![id] = voted]
                /\ UNCHANGED <<now, settlementVars, posted>>

\* Mutant: a vote on a settled dispute is counted.
CastArbitratorVoteLate(id, vote) ==
    /\ disputes[id] # NoDispute
    /\ LET panel == disputes[id].designated_arbitrators
           voted == WithVote(disputes[id], vote)
       IN /\ panel = {} \/ vote.arbitrator \in panel
          /\ \/ /\ QuorumReached(voted)
                /\ Settle(id, voted, QuorumUpholds(voted), BondIsSlashed(voted))
             \/ /\ ~QuorumReached(voted)
                /\ disputes' = [disputes EXCEPT ![id] = voted]
                /\ UNCHANGED <<now, settlementVars, posted>>

CastArbitratorVote(id, vote) ==
    /\ Active(id)
    /\ LET panel == disputes[id].designated_arbitrators
           voted == WithVote(disputes[id], vote)
       IN /\ panel = {} \/ vote.arbitrator \in panel
          /\ \/ /\ QuorumReached(voted)
                /\ Settle(id, voted, QuorumUpholds(voted), BondIsSlashed(voted))
             \/ /\ ~QuorumReached(voted)
                /\ disputes' = [disputes EXCEPT ![id] = voted]
                /\ UNCHANGED <<now, settlementVars, posted>>

\* Mutant: the status is not checked.
ResolveDisputeAgain(caller, id, upheld) ==
    /\ caller = Admin
    /\ disputes[id] # NoDispute
    /\ Settle(id, disputes[id], upheld, FALSE)

ResolveDispute(caller, id, upheld) ==
    /\ caller = Admin
    /\ Active(id)
    /\ Settle(id, disputes[id], upheld, FALSE)

\* Mutant: an escalated dispute is left to the admin.
AutoResolveOpenDispute(id) ==
    /\ disputes[id] # NoDispute
    /\ disputes[id].status = "Open"
    /\ now > disputes[id].deadline
    /\ Settle(id, disputes[id], TRUE, FALSE)

\* Anyone may call it.
AutoResolveExpiredDispute(id) ==
    /\ Active(id)
    /\ now > disputes[id].deadline
    /\ Settle(id, disputes[id], TRUE, FALSE)

\* Whatever the status; the bond is not paid out.
DismissDispute(caller, id) ==
    /\ caller = Admin
    /\ disputes[id] # NoDispute
    /\ disputes' = [disputes EXCEPT ![id].status = "Dismissed"]
    /\ UNCHANGED <<now, settlementVars, posted>>

-----------------------------------------------------------------------------
(* The system.                                                             *)

\* A new ledger closes.
Tick ==
    /\ now < MaxTime
    /\ now' = now + 1
    /\ UNCHANGED <<disputes, settlementVars, posted>>

Init ==
    /\ now = 0
    /\ disputes = [id \in DisputeId |-> NoDispute]
    /\ payouts = [id \in DisputeId |-> NoPayout]
    /\ fees = [a \in Account |-> 0]
    /\ pool = 0 /\ posted = 0 /\ released = 0

FilerCall(caller, id) ==
    \/ \E bond \in Bonds : OpenDispute(caller, id, bond)
    \/ \E evidence \in Evidence : AddDisputeEvidence(caller, id, evidence)

AdminCall(caller, id) ==
    \/ EscalateDispute(caller, id)
    \/ DismissDispute(caller, id)
    \/ \E panel \in Panels : AssignArbitratorPanel(caller, id, panel)
    \/ \E upheld \in BOOLEAN : ResolveDispute(caller, id, upheld)

Next ==
    \/ Tick
    \/ \E id \in DisputeId :
         \/ AutoResolveExpiredDispute(id)
         \/ \E caller \in Filers \cup {Admin} : AdminCall(caller, id)
         \/ \E caller \in Filers : FilerCall(caller, id)
         \/ \E vote \in Ballots : CastArbitratorVote(id, vote)

\* Somebody, the filer if nobody else, resolves an expired dispute.
Fairness == \A id \in DisputeId : WF_vars(AutoResolveExpiredDispute(id))

Spec == Init /\ [][Next]_vars /\ Fairness

-----------------------------------------------------------------------------
(* Properties.                                                             *)

\* Nothing is paid twice, and nothing out of a negative bond (which open_dispute
\* accepts): what customers and arbitrators were credited and the pool received,
\* together with the positive bonds still at stake, never exceeds the positive
\* bonds posted.  What settle_dispute records against a negative bond is a debit
\* and is not set off.
BondsAtStake == MapThenSumSet(LAMBDA id : Credit(disputes[id].bond_amount), ActiveDisputes)
FeesOwed == MapThenSumSet(LAMBDA a : fees[a], Account)
BondsCovered == released + FeesOwed + pool + BondsAtStake <= posted

\* No dispute stays active with a quorum, however votes, panels and
\* escalations interleave: the deciding vote settles it, so the outcome is
\* the quorum's and not that of a later admin call or of the deadline.
QuorumSettlesAtOnce == \A id \in ActiveDisputes : ~QuorumReached(disputes[id])

\* A settlement is final: the payout of a dispute and the votes it rests on
\* change only while the dispute is active, or when it is filed anew.
SettledOnce ==
    [][\A id \in DisputeId : disputes[id] # NoDispute /\ ~Active(id) =>
         /\ payouts'[id] = payouts[id]
         /\ disputes'[id].votes_detail # disputes[id].votes_detail =>
              Active(id)' /\ disputes'[id].votes_detail = {}]_vars

\* A filer is never stuck: a dispute whose window has passed gets settled, at
\* whatever level, under whatever panel, with whatever votes.
Overdue(id) == Active(id) /\ now > disputes[id].deadline
FilerNotStuck == \A id \in DisputeId : Overdue(id) ~> ~Overdue(id)

\* What try_tally_quorum's comment and the test of it say: a panel of three
\* that votes to dismiss as frivolous, one after the other, takes the bond for the
\* pool.  So a vote of such a panel either leaves the rest of it to vote or, when
\* it is the third, slashes.  The code settles and refunds at the second.
OnlyFrivolous(dispute) ==
    /\ Cardinality(dispute.designated_arbitrators) = ARBITRATOR_PANEL_SIZE
    /\ Voters(dispute) \subseteq dispute.designated_arbitrators
    /\ \A vote \in dispute.votes_detail : vote.decision = "DismissOutage" /\ vote.frivolous
FrivolousDisputeIsSlashed ==
    [][\A id \in DisputeId :
         /\ Active(id) /\ OnlyFrivolous(disputes'[id])
         /\ Cardinality(disputes'[id].votes_detail) = Cardinality(disputes[id].votes_detail) + 1
         => \/ Active(id)' /\ Voters(disputes'[id]) # disputes[id].designated_arbitrators
            \/ /\ Voters(disputes'[id]) = disputes[id].designated_arbitrators
               /\ payouts'[id].customer_payout = 0
               /\ pool' = pool + disputes[id].bond_amount]_vars

=============================================================================
