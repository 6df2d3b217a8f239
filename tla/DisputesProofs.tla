--------------------------- MODULE DisputesProofs ---------------------------
(***************************************************************************)
(* Disputes, proved for every set of accounts, identifiers, bonds, ballots     *)
(* and panels, and every length of the arbitration window.                   *)
(*                                                                         *)
(* DInv is inductive.  That a quorum settles at once is what keeps the pool of  *)
(* slashed bonds empty: a dispute that may still be voted on has at most one     *)
(* vote to dismiss it, and slashing asks for three after the next.  The votes    *)
(* of a dispute are kept finite, so that they can be counted.  Bonds are integers   *)
(* of either sign, as open_dispute takes them: what settling a negative one      *)
(* records is a debit and no credit.                                        *)
(***************************************************************************)
EXTENDS Disputes, Sums, SequenceTheorems, TLAPS

FiniteVotes ==
    \A id \in DisputeId : disputes[id] # NoDispute => IsFiniteSet(disputes[id].votes_detail)

\* The pool of slashed bonds stays empty.
NothingIsSlashed == pool = 0

DInv == TypeOK /\ FiniteVotes /\ QuorumSettlesAtOnce /\ NothingIsSlashed

-----------------------------------------------------------------------------
(* Counting votes.                                                         *)

\* The tally depends on the votes only.
LEMMA SameVotesSameQuorum ==
  ASSUME NEW d, NEW e, d.votes_detail = e.votes_detail
  PROVE  QuorumReached(d) <=> QuorumReached(e)
  BY DEF QuorumReached, QuorumUpholds, QuorumDismisses, VotesFor

\* Without votes there is no quorum.
LEMMA NoVotesNoQuorum ==
  ASSUME NEW d, d.votes_detail = {}
  PROVE  ~QuorumReached(d)
  <1>1. \A decision : {vote \in d.votes_detail : vote.decision = decision} = {}
    OBVIOUS
  <1>2. \A decision : VotesFor(d, decision) = 0
    BY <1>1, FS_EmptySet DEF VotesFor
  <1> QED
    BY <1>2 DEF QuorumReached, QuorumUpholds, QuorumDismisses, ARBITRATOR_QUORUM

\* A vote is added to a dispute's record or changes nothing.
LEMMA VotedRecord ==
  ASSUME NEW d \in Dispute, NEW vote \in Vote, IsFiniteSet(d.votes_detail)
  PROVE  /\ WithVote(d, vote) \in Dispute
         /\ IsFiniteSet(WithVote(d, vote).votes_detail)
         /\ \/ WithVote(d, vote) = d
            \/ /\ WithVote(d, vote).votes_detail = d.votes_detail \cup {vote}
               /\ vote \notin d.votes_detail
  <1>1. CASE vote.arbitrator \in Voters(d)
    BY <1>1 DEF WithVote
  <1>2. CASE vote.arbitrator \notin Voters(d)
    <2>1. WithVote(d, vote) = [d EXCEPT !.votes_detail = d.votes_detail \cup {vote}]
      BY <1>2 DEF WithVote
    <2>2. vote \notin d.votes_detail
      BY <1>2 DEF Voters
    <2>3. /\ WithVote(d, vote) \in Dispute
          /\ WithVote(d, vote).votes_detail = d.votes_detail \cup {vote}
      BY <2>1 DEF Dispute
    <2>4. IsFiniteSet(d.votes_detail \cup {vote})
      BY FS_AddElement
    <2> QED
      BY <2>2, <2>3, <2>4
  <1> QED
    BY <1>1, <1>2

\* The deciding vote never slashes: before it there were fewer than two votes to
\* dismiss, and slashing asks for three.
LEMMA DecidingVoteSlashesNothing ==
  ASSUME NEW d \in Dispute, NEW vote \in Vote, IsFiniteSet(d.votes_detail),
         ~QuorumReached(d), QuorumReached(WithVote(d, vote))
  PROVE  ~BondIsSlashed(WithVote(d, vote))
  <1> DEFINE voted == WithVote(d, vote)
  <1>1. voted # d
    OBVIOUS
  <1>2. voted.votes_detail = d.votes_detail \cup {vote} /\ vote \notin d.votes_detail
    BY <1>1, VotedRecord
  <1> SUFFICES ASSUME BondIsSlashed(voted) PROVE FALSE
    OBVIOUS
  <1>3. Cardinality(voted.votes_detail) = 3
    BY DEF BondIsSlashed, ARBITRATOR_PANEL_SIZE
  <1>4. Cardinality(voted.votes_detail) = Cardinality(d.votes_detail) + 1
    BY <1>2, FS_AddElement
  <1>5. Cardinality(d.votes_detail) = 2
    BY <1>3, <1>4, FS_CardinalityType
  <1>6. \A v \in d.votes_detail : v.decision = "DismissOutage"
    BY <1>2 DEF BondIsSlashed
  <1>7. {v \in d.votes_detail : v.decision = "DismissOutage"} = d.votes_detail
    BY <1>6
  <1>8. VotesFor(d, "DismissOutage") = 2
    BY <1>5, <1>7 DEF VotesFor
  <1> QED
    BY <1>8 DEF QuorumReached, QuorumDismisses, ARBITRATOR_QUORUM

-----------------------------------------------------------------------------
(* Settlement.                                                             *)

\* The fee is a part of the bond, and of its sign.
LEMMA FeeIsPart ==
  ASSUME NEW bond \in Int
  PROVE  /\ Quotient(bond * 500, 10000) \in Int
         /\ bond >= 0 => Quotient(bond * 500, 10000) \in 0..bond
         /\ bond < 0 => Quotient(bond * 500, 10000) \in bond..0
  <1>1. \A b \in Nat : (b * 500) \div 10000 \in 0..b
    OBVIOUS
  <1>2. CASE bond >= 0
    <2>1. Quotient(bond * 500, 10000) = (bond * 500) \div 10000
      BY <1>2 DEF Quotient
    <2> QED
      BY <1>1, <1>2, <2>1
  <1>3. CASE bond < 0
    <2>1. /\ Quotient(bond * 500, 10000) = -((-(bond * 500)) \div 10000)
          /\ -(bond * 500) = (-bond) * 500
      BY <1>3 DEF Quotient
    <2>2. ((-bond) * 500) \div 10000 \in 0..(-bond)
      BY <1>1, <1>3
    <2> QED
      BY <1>3, <2>1, <2>2
  <1> QED
    BY <1>2, <1>3

\* A share is an integer, and not more than an even split of a positive fee.
LEMMA ShareRoundsDown ==
  ASSUME NEW fee \in Int, NEW n \in Nat \ {0}
  PROVE  /\ Quotient(fee, n) \in Int
         /\ fee >= 0 => Quotient(fee, n) \in Nat /\ Quotient(fee, n) * n <= fee
         /\ fee < 0 => Quotient(fee, n) <= 0
  <1>1. \A m \in Nat, k \in Nat \ {0} : m \div k \in Nat /\ (m \div k) * k <= m
    OBVIOUS
  <1>2. CASE fee >= 0
    BY <1>1, <1>2 DEF Quotient
  <1>3. CASE fee < 0
    <2>1. -fee \in Nat /\ Quotient(fee, n) = -((-fee) \div n)
      BY <1>3 DEF Quotient
    <2>2. (-fee) \div n \in Nat
      BY <1>1, <2>1
    <2> QED
      BY <1>3, <2>1, <2>2
  <1> QED
    BY <1>2, <1>3

LEMMA CreditIsNat == \A amount \in Int : Credit(amount) \in Nat
  BY DEF Credit

LEMMA PayoutType ==
  ASSUME NEW d \in Dispute, NEW upheld \in BOOLEAN, NEW slash \in BOOLEAN
  PROVE  PayoutOf(d, upheld, slash) \in Payout
  <1> DEFINE fee == IF slash THEN 0 ELSE ArbitratorFee(d, upheld)
  <1>1. d.bond_amount \in Int /\ Voters(d) \subseteq Account
    BY DEF Dispute, Voters, Vote
  <1>2. ArbitratorFee(d, upheld) \in Int
    BY <1>1, FeeIsPart DEF ArbitratorFee, ARBITRATOR_FEE_BPS, BPS_DENOMINATOR
  <1>3. fee \in Int
    BY <1>1, <1>2
  <1>4. Voters(d) # {} => Quotient(fee, Cardinality(Voters(d))) \in Int
    <2> SUFFICES ASSUME Voters(d) # {} PROVE Quotient(fee, Cardinality(Voters(d))) \in Int
      OBVIOUS
    <2>1. IsFiniteSet(Voters(d))
      BY <1>1, DisputeAssumption, FS_Subset
    <2>2. Cardinality(Voters(d)) \in Nat /\ Cardinality(Voters(d)) # 0
      BY <2>1, FS_CardinalityType, FS_EmptySet
    <2> HIDE DEF fee
    <2> QED
      BY <1>3, <2>2, ShareRoundsDown
  <1> HIDE DEF fee
  <1>5. /\ (IF slash THEN 0 ELSE d.bond_amount - fee) \in Int
        /\ fee \in Int
        /\ (IF Voters(d) = {} THEN 0 ELSE Quotient(fee, Cardinality(Voters(d)))) \in Int
    BY <1>1, <1>3, <1>4
  <1> QED
    BY <1>5 DEF PayoutOf, Payout, fee

\* A settlement without slashing keeps the invariant, and changes nothing but
\* the dispute it settles and what is credited.
LEMMA SettlementKeepsInv ==
  ASSUME DInv, NEW id \in DisputeId, NEW d \in Dispute, IsFiniteSet(d.votes_detail),
         NEW upheld \in BOOLEAN, Settle(id, d, upheld, FALSE)
  PROVE  DInv'
  <1> DEFINE payout == PayoutOf(d, upheld, FALSE)
  <1>1. /\ disputes' = [disputes EXCEPT ![id] = [d EXCEPT !.status = "Resolved"]]
        /\ payouts' = [payouts EXCEPT ![id] = payout]
        /\ fees' = [a \in Account |-> IF a \in Voters(d)
                                      THEN fees[a] + Credit(payout.per_arbitrator_share)
                                      ELSE fees[a]]
        /\ pool' = pool
        /\ released' = released + Credit(payout.customer_payout)
        /\ UNCHANGED <<now, posted>>
    BY DEF Settle
  <1>2. payout \in Payout
    BY PayoutType
  <1>3. Credit(payout.per_arbitrator_share) \in Nat /\ Credit(payout.customer_payout) \in Nat
    BY <1>2, CreditIsNat DEF Payout
  <1> HIDE DEF payout
  <1>4. /\ [d EXCEPT !.status = "Resolved"] \in Dispute
        /\ [d EXCEPT !.status = "Resolved"].status = "Resolved"
        /\ [d EXCEPT !.status = "Resolved"].votes_detail = d.votes_detail
    BY DEF Dispute, Status
  <1>5. TypeOK'
    <2>1. disputes' \in [DisputeId -> Dispute \cup {NoDispute}]
      BY <1>1, <1>4 DEF DInv, TypeOK
    <2>2. payouts' \in [DisputeId -> Payout \cup {NoPayout}]
      BY <1>1, <1>2 DEF DInv, TypeOK
    <2>3. fees' \in [Account -> Nat]
      BY <1>1, <1>3 DEF DInv, TypeOK
    <2>4. pool' \in Nat /\ released' \in Nat /\ posted' \in Nat
      BY <1>1, <1>3 DEF DInv, TypeOK
    <2>5. now' \in 0..MaxTime
      BY <1>1 DEF DInv, TypeOK
    <2> QED
      BY <2>1, <2>2, <2>3, <2>4, <2>5 DEF TypeOK
  <1>6. FiniteVotes'
    BY <1>1, <1>4 DEF DInv, TypeOK, FiniteVotes
  <1>7. QuorumSettlesAtOnce'
    <2> SUFFICES ASSUME NEW other \in DisputeId, Active(other)'
                 PROVE  ~QuorumReached(disputes'[other])
      BY DEF QuorumSettlesAtOnce, ActiveDisputes
    <2>1. other # id
      BY <1>1, <1>4 DEF DInv, TypeOK, Active, is_active
    <2>2. disputes'[other] = disputes[other]
      BY <1>1, <2>1 DEF DInv, TypeOK
    <2> QED
      BY <2>2 DEF DInv, QuorumSettlesAtOnce, ActiveDisputes, Active
  <1> QED
    BY <1>1, <1>5, <1>6, <1>7 DEF DInv, NothingIsSlashed

\* A change of one dispute that leaves its votes alone keeps the invariant.
LEMMA EditKeepsInv ==
  ASSUME DInv, NEW id \in DisputeId, NEW d \in Dispute,
         \/ disputes[id] \in Dispute /\ disputes[id] # NoDispute
            /\ d.votes_detail = disputes[id].votes_detail /\ (is_active(d) => Active(id))
         \/ d.votes_detail = {}
         \/ IsFiniteSet(d.votes_detail) /\ ~QuorumReached(d),
         disputes' = [disputes EXCEPT ![id] = d],
         UNCHANGED <<now, payouts, fees, pool, released>>,
         posted' \in Nat
  PROVE  DInv'
  <1>1. TypeOK'
    BY DEF DInv, TypeOK
  <1>2. disputes'[id] = d /\ \A other \in DisputeId \ {id} : disputes'[other] = disputes[other]
    BY DEF DInv, TypeOK
  <1>3. IsFiniteSet(d.votes_detail)
    BY FS_EmptySet DEF DInv, FiniteVotes
  <1>4. FiniteVotes'
    BY <1>2, <1>3 DEF DInv, FiniteVotes
  <1>5. is_active(d) => ~QuorumReached(d)
    BY SameVotesSameQuorum, NoVotesNoQuorum DEF DInv, QuorumSettlesAtOnce, ActiveDisputes
  <1>6. QuorumSettlesAtOnce'
    <2> SUFFICES ASSUME NEW other \in DisputeId, Active(other)'
                 PROVE  ~QuorumReached(disputes'[other])
      BY DEF QuorumSettlesAtOnce, ActiveDisputes
    <2>1. CASE other = id
      BY <1>2, <1>5, <2>1 DEF Active
    <2>2. CASE other # id
      BY <1>2, <2>2 DEF DInv, QuorumSettlesAtOnce, ActiveDisputes, Active
    <2> QED
      BY <2>1, <2>2
  <1> QED
    BY <1>1, <1>4, <1>6 DEF DInv, NothingIsSlashed

-----------------------------------------------------------------------------
(* The inductive invariant.                                                *)

LEMMA InitEstablishesInv == Init => DInv
  <1> SUFFICES ASSUME Init PROVE DInv
    OBVIOUS
  <1>1. TypeOK
    BY DisputeAssumption DEF Init, TypeOK
  <1>2. \A id \in DisputeId : disputes[id] = NoDispute
    BY DEF Init
  <1> QED
    BY <1>1, <1>2
       DEF DInv, FiniteVotes, QuorumSettlesAtOnce, NothingIsSlashed, ActiveDisputes, Active, Init

\* Every step is one of these calls.
LEMMA CallCases ==
  ASSUME Next
  PROVE  \/ Tick
         \/ \E id \in DisputeId : AutoResolveExpiredDispute(id)
         \/ \E id \in DisputeId, vote \in Ballots : CastArbitratorVote(id, vote)
         \/ \E id \in DisputeId, c \in Filers, bond \in Bonds : OpenDispute(c, id, bond)
         \/ \E id \in DisputeId, c \in Filers, evidence \in Evidence :
              AddDisputeEvidence(c, id, evidence)
         \/ \E id \in DisputeId, c \in Filers \cup {Admin} :
              EscalateDispute(c, id) \/ DismissDispute(c, id)
         \/ \E id \in DisputeId, c \in Filers \cup {Admin}, panel \in Panels :
              AssignArbitratorPanel(c, id, panel)
         \/ \E id \in DisputeId, c \in Filers \cup {Admin}, upheld \in BOOLEAN :
              ResolveDispute(c, id, upheld)
  BY Zenon DEF Next, AdminCall, FilerCall

LEMMA ActiveIsRecord ==
  ASSUME DInv, NEW id \in DisputeId, disputes[id] # NoDispute
  PROVE  disputes[id] \in Dispute /\ IsFiniteSet(disputes[id].votes_detail)
  BY DEF DInv, TypeOK, FiniteVotes

\* A dispute that a vote takes to its quorum is settled without slashing.
LEMMA TallyIsBoolean ==
  ASSUME DInv, NEW id \in DisputeId, NEW vote \in Ballots, Active(id),
         disputes[id] \in Dispute, QuorumReached(WithVote(disputes[id], vote))
  PROVE  /\ BondIsSlashed(WithVote(disputes[id], vote)) = FALSE
         /\ QuorumUpholds(WithVote(disputes[id], vote)) \in BOOLEAN
  <1> DEFINE voted == WithVote(disputes[id], vote)
  <1>1. IsFiniteSet(disputes[id].votes_detail) /\ vote \in Vote
    BY DisputeAssumption DEF DInv, FiniteVotes, Active
  <1>2. IsFiniteSet(voted.votes_detail)
    BY <1>1, VotedRecord
  <1>3. ~QuorumReached(disputes[id])
    BY DEF DInv, QuorumSettlesAtOnce, ActiveDisputes
  <1>4. ~BondIsSlashed(voted)
    BY <1>1, <1>3, DecidingVoteSlashesNothing
  <1>5. BondIsSlashed(voted) \in BOOLEAN
    BY Zenon DEF BondIsSlashed
  <1>6. VotesFor(voted, "UpholdOutage") \in Nat
    <2>1. IsFiniteSet({v \in voted.votes_detail : v.decision = "UpholdOutage"})
      BY <1>2, FS_Subset
    <2> QED
      BY <2>1, FS_CardinalityType DEF VotesFor
  <1> HIDE DEF voted
  <1>7. QuorumUpholds(voted) \in BOOLEAN
    BY <1>6 DEF QuorumUpholds, ARBITRATOR_QUORUM
  <1> QED
    BY <1>4, <1>5, <1>7, Zenon DEF voted

LEMMA StepPreservesInv == DInv /\ [Next]_vars => DInv'
  <1> SUFFICES ASSUME DInv, [Next]_vars PROVE DInv'
    OBVIOUS
  <1>1. CASE UNCHANGED vars \/ Tick
    <2>1. UNCHANGED <<disputes, payouts, fees, pool, released, posted>>
      BY <1>1 DEF vars, Tick, settlementVars
    <2>2. now' \in 0..MaxTime
      BY <1>1, DisputeAssumption DEF vars, Tick, DInv, TypeOK
    <2> QED
      BY <2>1, <2>2 DEF DInv, TypeOK, FiniteVotes, QuorumSettlesAtOnce, NothingIsSlashed,
                        ActiveDisputes, Active
  <1>2. ASSUME NEW id \in DisputeId, AutoResolveExpiredDispute(id) PROVE DInv'
    BY <1>2, ActiveIsRecord, SettlementKeepsInv DEF AutoResolveExpiredDispute, Active
  <1>3. ASSUME NEW id \in DisputeId, NEW vote \in Ballots, CastArbitratorVote(id, vote)
        PROVE  DInv'
    <2> DEFINE voted == WithVote(disputes[id], vote)
    <2>1. Active(id) /\ disputes[id] \in Dispute /\ IsFiniteSet(disputes[id].votes_detail)
      BY <1>3, ActiveIsRecord DEF CastArbitratorVote, Active
    <2>2. vote \in Vote
      BY DisputeAssumption
    <2>3. voted \in Dispute /\ IsFiniteSet(voted.votes_detail)
      BY <2>1, <2>2, VotedRecord
    <2>4. CASE QuorumReached(voted)
      <3>1. Settle(id, voted, QuorumUpholds(voted), BondIsSlashed(voted))
        BY <1>3, <2>4 DEF CastArbitratorVote
      <3>2. QuorumUpholds(voted) \in BOOLEAN /\ BondIsSlashed(voted) = FALSE
        BY <2>1, <2>4, TallyIsBoolean
      <3>3. Settle(id, voted, QuorumUpholds(voted), FALSE)
        BY <3>1, <3>2
      <3> QED
        BY <2>3, <3>2, <3>3, SettlementKeepsInv
    <2>5. CASE ~QuorumReached(voted)
      <3>1. /\ disputes' = [disputes EXCEPT ![id] = voted]
            /\ UNCHANGED <<now, settlementVars, posted>>
        BY <1>3, <2>5 DEF CastArbitratorVote
      <3>2. UNCHANGED <<now, payouts, fees, pool, released>>
            /\ posted' \in Nat
        BY <3>1 DEF settlementVars, DInv, TypeOK
      <3> HIDE DEF voted
      <3> QED
        BY <2>3, <2>5, <3>1, <3>2, EditKeepsInv
    <2> QED
      BY <2>4, <2>5
  <1>4. ASSUME NEW id \in DisputeId, NEW c \in Filers, NEW bond \in Bonds,
               OpenDispute(c, id, bond)
        PROVE  DInv'
    <2> DEFINE d == [opened_by |-> c, status |-> "Open", escalation_level |-> "L1Support",
                     bond_amount |-> bond, evidence_history |-> << >>, votes_detail |-> {},
                     designated_arbitrators |-> {}, deadline |-> now + ArbitrationWindow]
    <2>1. /\ disputes' = [disputes EXCEPT ![id] = d]
          /\ posted' = posted + Credit(bond)
          /\ UNCHANGED <<now, settlementVars>>
      BY <1>4 DEF OpenDispute
    <2>2. bond \in Int /\ c \in Account /\ Credit(bond) \in Nat
      BY DisputeAssumption, CreditIsNat
    <2>3. now + ArbitrationWindow \in Nat
      BY DisputeAssumption DEF DInv, TypeOK
    <2>4. d \in Dispute /\ d.votes_detail = {}
      BY <2>2, <2>3 DEF Dispute, Status, Level
    <2>5. /\ UNCHANGED <<now, payouts, fees, pool, released>>
          /\ posted' \in Nat
      BY <2>1, <2>2 DEF settlementVars, DInv, TypeOK
    <2> HIDE DEF d
    <2> QED
      BY <2>1, <2>4, <2>5, EditKeepsInv
  <1>5. ASSUME NEW id \in DisputeId, NEW c \in Filers, NEW evidence \in Evidence,
               AddDisputeEvidence(c, id, evidence)
        PROVE  DInv'
    <2> DEFINE d == [disputes[id] EXCEPT
                       !.evidence_history = Append(disputes[id].evidence_history, evidence)]
    <2>1. /\ Active(id) /\ disputes[id] \in Dispute
          /\ disputes' = [disputes EXCEPT ![id] = d]
          /\ UNCHANGED <<now, payouts, fees, pool, released>>
          /\ posted' = posted
      BY <1>5, ActiveIsRecord DEF AddDisputeEvidence, Active, settlementVars
    <2>2. Append(disputes[id].evidence_history, evidence) \in Seq(Evidence)
      BY <2>1, AppendProperties DEF Dispute
    <2>3. /\ d \in Dispute /\ d.votes_detail = disputes[id].votes_detail
          /\ d.status = disputes[id].status
      BY <2>1, <2>2 DEF Dispute
    <2>4. posted' \in Nat
      BY <2>1 DEF DInv, TypeOK
    <2> HIDE DEF d
    <2> QED
      BY <2>1, <2>3, <2>4, EditKeepsInv DEF Active
  <1>6. ASSUME NEW id \in DisputeId, NEW c \in Filers \cup {Admin}, EscalateDispute(c, id)
        PROVE  DInv'
    <2> DEFINE d == [disputes[id] EXCEPT
                       !.escalation_level = IF disputes[id].escalation_level = "L1Support"
                                            THEN "L2Engineering" ELSE "L3Management",
                       !.status = "Escalated"]
    <2>1. /\ disputes[id] # NoDispute /\ disputes[id] \in Dispute /\ Active(id)
          /\ disputes' = [disputes EXCEPT ![id] = d]
          /\ UNCHANGED <<now, payouts, fees, pool, released, posted>>
      BY <1>6, ActiveIsRecord DEF EscalateDispute, Active, is_active, settlementVars
    <2>2. d \in Dispute /\ d.votes_detail = disputes[id].votes_detail
      BY <2>1 DEF Dispute, Level, Status
    <2>3. posted' \in Nat
      BY <2>1 DEF DInv, TypeOK
    <2> HIDE DEF d
    <2> QED
      BY <2>1, <2>2, <2>3, EditKeepsInv
  <1>7. ASSUME NEW id \in DisputeId, NEW c \in Filers \cup {Admin}, DismissDispute(c, id)
        PROVE  DInv'
    <2> DEFINE d == [disputes[id] EXCEPT !.status = "Dismissed"]
    <2>1. /\ disputes[id] # NoDispute /\ disputes[id] \in Dispute
          /\ disputes' = [disputes EXCEPT ![id] = d]
          /\ UNCHANGED <<now, payouts, fees, pool, released, posted>>
      BY <1>7, ActiveIsRecord DEF DismissDispute, settlementVars
    <2>2. /\ d \in Dispute /\ d.votes_detail = disputes[id].votes_detail
          /\ ~is_active(d)
      BY <2>1 DEF Dispute, Status, is_active
    <2>3. posted' \in Nat
      BY <2>1 DEF DInv, TypeOK
    <2> HIDE DEF d
    <2> QED
      BY <2>1, <2>2, <2>3, EditKeepsInv
  <1>8. ASSUME NEW id \in DisputeId, NEW c \in Filers \cup {Admin}, NEW panel \in Panels,
               AssignArbitratorPanel(c, id, panel)
        PROVE  DInv'
    <2> DEFINE d == [disputes[id] EXCEPT !.designated_arbitrators = panel]
    <2>1. /\ disputes[id] # NoDispute /\ disputes[id] \in Dispute /\ Active(id)
          /\ disputes' = [disputes EXCEPT ![id] = d]
          /\ UNCHANGED <<now, payouts, fees, pool, released, posted>>
      BY <1>8, ActiveIsRecord DEF AssignArbitratorPanel, Active, settlementVars
    <2>2. panel \subseteq Account
      BY DisputeAssumption
    <2>3. d \in Dispute /\ d.votes_detail = disputes[id].votes_detail
      BY <2>1, <2>2 DEF Dispute
    <2>4. posted' \in Nat
      BY <2>1 DEF DInv, TypeOK
    <2> HIDE DEF d
    <2> QED
      BY <2>1, <2>3, <2>4, EditKeepsInv
  <1>9. ASSUME NEW id \in DisputeId, NEW c \in Filers \cup {Admin}, NEW upheld \in BOOLEAN,
               ResolveDispute(c, id, upheld)
        PROVE  DInv'
    BY <1>9, ActiveIsRecord, SettlementKeepsInv DEF ResolveDispute, Active
  <1> QED
    BY <1>1, <1>2, <1>3, <1>4, <1>5, <1>6, <1>7, <1>8, <1>9, CallCases

LEMMA InvHolds == Spec => []DInv
  BY InitEstablishesInv, StepPreservesInv, PTL DEF Spec

-----------------------------------------------------------------------------
(* The books: bonds posted against bonds paid out, owed and still at stake.  *)

\* What a record of the map has at stake, and all of them together.
Stake(d) == IF d # NoDispute /\ is_active(d) THEN Credit(d.bond_amount) ELSE 0
Stakes(map) == [id \in DisputeId |-> Stake(map[id])]
AtStake(map) == SumOver(Stakes(map), DisputeId)

LEMMA StakeIsNat == \A d \in Dispute \cup {NoDispute} : Stake(d) \in Nat
  BY CreditIsNat DEF Stake, Dispute

\* A record of the map is replaced: only its own stake changes.
LEMMA StakeOfEdit ==
  ASSUME NEW map \in [DisputeId -> Dispute \cup {NoDispute}], NEW id \in DisputeId,
         NEW d \in Dispute \cup {NoDispute}
  PROVE  /\ AtStake(map) \in Nat
         /\ AtStake([map EXCEPT ![id] = d]) = AtStake(map) - Stake(map[id]) + Stake(d)
  <1> DEFINE new == [map EXCEPT ![id] = d]
  <1>1. /\ \A x \in DisputeId : Stakes(map)[x] = Stake(map[x]) /\ Stakes(map)[x] \in Nat
        /\ \A x \in DisputeId : Stakes(new)[x] = Stake(new[x]) /\ Stakes(new)[x] \in Nat
    BY StakeIsNat DEF Stakes
  <1>2. /\ Stakes(map)[id] = Stake(map[id]) /\ Stakes(new)[id] = Stake(d)
        /\ \A x \in DisputeId \ {id} : Stakes(map)[x] = Stakes(new)[x]
    BY <1>1
  <1>3. IsFiniteSet(DisputeId)
    BY DisputeAssumption
  <1>4. AtStake(map) \in Nat
    BY <1>1, <1>3, SumNat DEF AtStake
  <1> HIDE DEF new
  <1>5. SumOver(Stakes(new), DisputeId)
          = SumOver(Stakes(map), DisputeId) - Stakes(map)[id] + Stakes(new)[id]
    BY <1>1, <1>2, <1>3, SumChange
  <1> QED
    BY <1>2, <1>4, <1>5 DEF AtStake, new

\* The bonds at stake are those of the active disputes.
LEMMA StakesAreActiveBonds == TypeOK => BondsAtStake = AtStake(disputes)
  <1> SUFFICES ASSUME TypeOK PROVE BondsAtStake = AtStake(disputes)
    OBVIOUS
  <1> DEFINE bond == [id \in ActiveDisputes |-> Credit(disputes[id].bond_amount)]
             part == [id \in DisputeId |-> IF id \in ActiveDisputes THEN bond[id] ELSE 0]
  <1>2. BondsAtStake = SumOver(bond, ActiveDisputes)
    BY Zenon DEF BondsAtStake, SumOver, MapThenSumSet, MapThenFoldSet
  <1>3. ActiveDisputes \subseteq DisputeId /\ IsFiniteSet(DisputeId)
    BY DisputeAssumption DEF ActiveDisputes
  <1>4. \A id \in ActiveDisputes : bond[id] = Credit(disputes[id].bond_amount) /\ bond[id] \in Int
    BY CreditIsNat DEF ActiveDisputes, Active, TypeOK, Dispute
  <1>5. part = Stakes(disputes)
    BY <1>4 DEF Stakes, Stake, ActiveDisputes, Active
  <1> HIDE DEF bond
  <1>6. SumOver(part, DisputeId) = SumOver(bond, ActiveDisputes)
    BY <1>3, <1>4, SumOfPart
  <1> QED
    BY <1>2, <1>5, <1>6 DEF AtStake

LEMMA FeesAreASum == FeesOwed = SumOver(fees, Account)
  BY Zenon DEF FeesOwed, SumOver

Books == released + SumOver(fees, Account) + pool + AtStake(disputes) <= posted

LEMMA BooksBalance == TypeOK => (Books <=> BondsCovered)
  BY StakesAreActiveBonds, FeesAreASum, Zenon DEF Books, BondsCovered

\* The voters of a settled dispute are credited no more than the fee: the share
\* is rounded down.  Nobody is credited anything out of a negative bond.
LEMMA SharesWithinFee ==
  ASSUME NEW d \in Dispute, NEW upheld \in BOOLEAN, NEW old \in [Account -> Nat], NEW new,
         LET payout == PayoutOf(d, upheld, FALSE)
             share == Credit(payout.per_arbitrator_share)
         IN  new = [a \in Account |-> IF a \in Voters(d) THEN old[a] + share ELSE old[a]]
  PROVE  /\ SumOver(old, Account) \in Nat /\ SumOver(new, Account) \in Nat
         /\ SumOver(new, Account) + Credit(PayoutOf(d, upheld, FALSE).customer_payout)
              <= SumOver(old, Account) + Credit(d.bond_amount)
  <1> DEFINE fee == ArbitratorFee(d, upheld)
             payout == PayoutOf(d, upheld, FALSE)
             share == Credit(payout.per_arbitrator_share)
             each == [a \in Voters(d) |-> share]
             credit == [a \in Account |-> IF a \in Voters(d) THEN each[a] ELSE 0]
             sum == [a \in Account |-> old[a] + credit[a]]
  <1>1. d.bond_amount \in Int /\ Voters(d) \subseteq Account
    BY DEF Dispute, Voters, Vote
  <1>2. /\ fee \in Int
        /\ d.bond_amount >= 0 => fee \in 0..d.bond_amount
        /\ d.bond_amount < 0 => fee \in d.bond_amount..0
    BY <1>1, FeeIsPart DEF ArbitratorFee, ARBITRATOR_FEE_BPS, BPS_DENOMINATOR
  <1>3. IsFiniteSet(Account) /\ IsFiniteSet(Voters(d)) /\ Cardinality(Voters(d)) \in Nat
    BY <1>1, DisputeAssumption, FS_Subset, FS_CardinalityType
  <1>4. payout \in Payout /\ share \in Nat
    BY PayoutType, CreditIsNat DEF Payout
  <1>5. payout.customer_payout = d.bond_amount - fee
    BY DEF PayoutOf
  <1>6. share * Cardinality(Voters(d)) <= Credit(fee)
    <2>1. CASE Voters(d) = {}
      <3>1. Cardinality(Voters(d)) = 0 /\ Credit(fee) \in Nat
        BY <1>2, <2>1, FS_EmptySet, CreditIsNat
      <3> HIDE DEF payout, fee, share
      <3> QED
        BY <1>4, <3>1
    <2>2. CASE Voters(d) # {}
      <3> DEFINE n == Cardinality(Voters(d))
      <3>1. n \in Nat \ {0}
        BY <2>2, <1>3, FS_EmptySet
      <3>2. share = Credit(Quotient(fee, n))
        BY <2>2 DEF PayoutOf
      <3> HIDE DEF payout, fee, share, n
      <3>3. CASE fee >= 0
        <4>1. Quotient(fee, n) \in Nat /\ Quotient(fee, n) * n <= fee
          BY <1>2, <3>1, <3>3, ShareRoundsDown
        <4>2. share = Quotient(fee, n) /\ Credit(fee) = fee
          BY <1>2, <3>2, <3>3, <4>1 DEF Credit
        <4> QED
          BY <4>1, <4>2 DEF n
      <3>4. CASE fee < 0
        <4>1. Quotient(fee, n) \in Int /\ Quotient(fee, n) <= 0
          BY <1>2, <3>1, <3>4, ShareRoundsDown
        <4>2. share = 0 /\ Credit(fee) = 0
          BY <1>2, <3>2, <3>4, <4>1 DEF Credit
        <4> QED
          BY <3>1, <4>2 DEF n
      <3> QED
        BY <1>2, <3>3, <3>4
    <2> QED
      BY <2>1, <2>2
  <1> HIDE DEF payout, fee
  <1>7. \A a \in Account : credit[a] \in Nat /\ old[a] \in Nat /\ sum[a] \in Nat
    BY <1>4
  <1>8. new = sum
    <2>1. \A a \in Account : sum[a] = IF a \in Voters(d) THEN old[a] + share ELSE old[a]
      BY <1>7
    <2>2. new = [a \in Account |-> IF a \in Voters(d) THEN old[a] + share ELSE old[a]]
      BY DEF payout, share
    <2> HIDE DEF credit, each, share
    <2> QED
      BY <2>1, <2>2
  <1>9. SumOver(each, Voters(d)) = share * Cardinality(Voters(d))
    <2>1. share \in Int
      BY <1>4
    <2> HIDE DEF share
    <2> QED
      BY <1>3, <2>1, SumConstant, Zenon
  <1>10. SumOver(credit, Account) = SumOver(each, Voters(d))
    <2>1. \A a \in Voters(d) : each[a] \in Int
      BY <1>4
    <2> HIDE DEF each
    <2> QED
      BY <1>1, <1>3, <2>1, SumOfPart
  <1> HIDE DEF credit
  <1>11. SumOver(sum, Account) = SumOver(old, Account) + SumOver(credit, Account)
    BY <1>3, <1>7, SumPlus
  <1> HIDE DEF sum, each
  <1>12. SumOver(old, Account) \in Nat /\ SumOver(sum, Account) \in Nat
    BY <1>3, <1>7, SumNat
  <1>13. SumOver(credit, Account) <= Credit(fee)
    BY <1>6, <1>9, <1>10
  <1>14. SumOver(new, Account) = SumOver(old, Account) + SumOver(credit, Account)
    BY <1>8, <1>11
  <1>15. SumOver(new, Account) \in Nat /\ SumOver(credit, Account) \in Int
    <2>1. \A a \in Account : credit[a] \in Int
      BY <1>7
    <2> QED
      BY <1>3, <1>8, <1>12, <2>1, SumInt
  <1> HIDE DEF share
  <1>16. Credit(fee) + Credit(payout.customer_payout) <= Credit(d.bond_amount)
         /\ {Credit(fee), Credit(payout.customer_payout), Credit(d.bond_amount)} \subseteq Nat
    <2>1. CASE d.bond_amount >= 0
      BY <1>1, <1>2, <1>5, <2>1 DEF Credit
    <2>2. CASE d.bond_amount < 0
      BY <1>1, <1>2, <1>5, <2>2 DEF Credit
    <2> QED
      BY <1>1, <2>1, <2>2
  <1>17. SumOver(new, Account) + Credit(payout.customer_payout)
           <= SumOver(old, Account) + Credit(d.bond_amount)
    BY <1>12, <1>13, <1>14, <1>15, <1>16
  <1> QED
    BY <1>12, <1>15, <1>17 DEF payout

\* A settlement moves the bond from the stakes to the credits.
LEMMA SettlementKeepsBooks ==
  ASSUME DInv, Books, NEW id \in DisputeId, Active(id), NEW d \in Dispute,
         d.bond_amount = disputes[id].bond_amount,
         NEW upheld \in BOOLEAN, Settle(id, d, upheld, FALSE)
  PROVE  Books'
  <1> DEFINE payout == PayoutOf(d, upheld, FALSE)
             done == [d EXCEPT !.status = "Resolved"]
  <1>1. /\ disputes' = [disputes EXCEPT ![id] = done]
        /\ fees' = [a \in Account |-> IF a \in Voters(d)
                                      THEN fees[a] + Credit(payout.per_arbitrator_share)
                                      ELSE fees[a]]
        /\ pool' = pool
        /\ released' = released + Credit(payout.customer_payout)
        /\ posted' = posted
    BY DEF Settle
  <1>2. Credit(payout.customer_payout) \in Nat
    BY PayoutType, CreditIsNat DEF Payout
  <1>3. done \in Dispute /\ ~is_active(done)
    BY DEF Dispute, Status, is_active
  <1>4. /\ disputes \in [DisputeId -> Dispute \cup {NoDispute}]
        /\ fees \in [Account -> Nat] /\ pool = 0 /\ released \in Nat /\ posted \in Nat
    BY DEF DInv, TypeOK, NothingIsSlashed
  <1>5. /\ SumOver(fees, Account) \in Nat /\ SumOver(fees', Account) \in Nat
        /\ SumOver(fees', Account) + Credit(payout.customer_payout)
              <= SumOver(fees, Account) + Credit(d.bond_amount)
    BY <1>1, <1>4, SharesWithinFee
  <1>6. /\ Stake(done) = 0 /\ Stake(disputes[id]) = Credit(d.bond_amount)
        /\ Credit(d.bond_amount) \in Nat
    BY <1>3, CreditIsNat DEF Stake, Active, Dispute
  <1> HIDE DEF done, payout
  <1>7. AtStake(disputes) \in Nat /\ AtStake(disputes') = AtStake(disputes) - Credit(d.bond_amount)
    <2>1. /\ AtStake(disputes) \in Nat
          /\ AtStake(disputes') = AtStake(disputes) - Stake(disputes[id]) + Stake(done)
      BY <1>1, <1>3, <1>4, StakeOfEdit
    <2> QED
      BY <1>6, <2>1
  <1>8. Books'
    BY <1>1, <1>2, <1>4, <1>5, <1>6, <1>7 DEF Books
  <1> QED
    BY <1>8

\* An edit raises the stake of its dispute by no more than what is posted with it.
LEMMA EditKeepsBooks ==
  ASSUME DInv, Books, NEW id \in DisputeId, NEW d \in Dispute,
         disputes' = [disputes EXCEPT ![id] = d], UNCHANGED <<fees, pool, released>>,
         NEW more \in Nat, posted' = posted + more,
         Stake(d) <= Stake(disputes[id]) + more
  PROVE  Books'
  <1>1. /\ disputes \in [DisputeId -> Dispute \cup {NoDispute}]
        /\ fees \in [Account -> Nat] /\ pool \in Nat /\ released \in Nat /\ posted \in Nat
    BY DEF DInv, TypeOK
  <1>2. Stake(d) \in Nat /\ Stake(disputes[id]) \in Nat
    BY <1>1, StakeIsNat
  <1>3. /\ AtStake(disputes) \in Nat
        /\ AtStake(disputes') = AtStake(disputes) - Stake(disputes[id]) + Stake(d)
    BY <1>1, StakeOfEdit
  <1>4. SumOver(fees, Account) \in Nat
    BY <1>1, DisputeAssumption, SumNat
  <1> QED
    BY <1>1, <1>2, <1>3, <1>4 DEF Books

\* An edit that raises no stake and posts nothing.
LEMMA SameStake ==
  ASSUME DInv, Books, NEW id \in DisputeId, NEW d \in Dispute, disputes[id] \in Dispute,
         disputes' = [disputes EXCEPT ![id] = d], UNCHANGED <<fees, pool, released>>,
         posted' = posted, Stake(d) = Stake(disputes[id]) \/ Stake(d) = 0
  PROVE  Books'
  <1>1. posted' = posted + 0 /\ 0 \in Nat
    BY DEF DInv, TypeOK
  <1>2. Stake(d) <= Stake(disputes[id]) + 0
    BY StakeIsNat
  <1> QED
    BY <1>1, <1>2, EditKeepsBooks

LEMMA StepKeepsBooks == DInv /\ Books /\ [Next]_vars => Books'
  <1> SUFFICES ASSUME DInv, Books, [Next]_vars PROVE Books'
    OBVIOUS
  <1>0. \A d \in Dispute : Stake(d) = IF is_active(d) THEN Credit(d.bond_amount) ELSE 0
    BY NoDisputeAssumption DEF Stake
  <1>1. CASE UNCHANGED vars \/ Tick
    BY <1>1 DEF vars, Tick, settlementVars, Books
  <1>2. ASSUME NEW id \in DisputeId, AutoResolveExpiredDispute(id) PROVE Books'
    BY <1>2, ActiveIsRecord, SettlementKeepsBooks DEF AutoResolveExpiredDispute, Active
  <1>3. ASSUME NEW id \in DisputeId, NEW vote \in Ballots, CastArbitratorVote(id, vote)
        PROVE  Books'
    <2> DEFINE voted == WithVote(disputes[id], vote)
    <2>1. Active(id) /\ disputes[id] \in Dispute
      BY <1>3, ActiveIsRecord DEF CastArbitratorVote, Active
    <2>2. voted \in Dispute /\ IsFiniteSet(voted.votes_detail)
      BY <2>1, DisputeAssumption, ActiveIsRecord, VotedRecord DEF Active
    <2>3. voted.bond_amount = disputes[id].bond_amount /\ voted.status = disputes[id].status
      BY <2>1 DEF WithVote, Dispute
    <2>4. CASE QuorumReached(voted)
      <3> DEFINE upheld == QuorumUpholds(voted)
      <3>1. Settle(id, voted, upheld, BondIsSlashed(voted))
        BY <1>3, <2>4 DEF CastArbitratorVote
      <3>2. BondIsSlashed(voted) = FALSE /\ upheld \in BOOLEAN
        BY <1>3, <2>1, <2>4, TallyIsBoolean
      <3> HIDE DEF voted, upheld
      <3> QED
        BY <2>1, <2>2, <2>3, <3>1, <3>2, SettlementKeepsBooks
    <2>5. CASE ~QuorumReached(voted)
      <3>1. /\ disputes' = [disputes EXCEPT ![id] = voted] /\ posted' = posted
            /\ UNCHANGED <<fees, pool, released>>
        BY <1>3, <2>5 DEF CastArbitratorVote, settlementVars
      <3>2. Stake(voted) = Stake(disputes[id])
        BY <1>0, <2>1, <2>2, <2>3 DEF is_active
      <3> HIDE DEF voted
      <3> QED
        BY <2>1, <2>2, <3>1, <3>2, SameStake
    <2> QED
      BY <2>4, <2>5
  <1>4. ASSUME NEW id \in DisputeId, NEW c \in Filers, NEW bond \in Bonds,
               OpenDispute(c, id, bond)
        PROVE  Books'
    <2> DEFINE d == [opened_by |-> c, status |-> "Open", escalation_level |-> "L1Support",
                     bond_amount |-> bond, evidence_history |-> << >>, votes_detail |-> {},
                     designated_arbitrators |-> {}, deadline |-> now + ArbitrationWindow]
    <2>1. /\ disputes' = [disputes EXCEPT ![id] = d] /\ posted' = posted + Credit(bond)
          /\ UNCHANGED <<fees, pool, released>>
      BY <1>4 DEF OpenDispute, settlementVars
    <2>2. bond \in Int /\ Credit(bond) \in Nat /\ d \in Dispute
      <3>1. bond \in Int /\ Credit(bond) \in Nat /\ c \in Account /\ now + ArbitrationWindow \in Nat
        BY DisputeAssumption, CreditIsNat DEF DInv, TypeOK
      <3> QED
        BY <3>1 DEF Dispute, Status, Level
    <2>3. Stake(d) = Credit(bond) /\ Stake(disputes[id]) \in Nat
      BY <1>0, <2>2, StakeIsNat DEF is_active, DInv, TypeOK
    <2> HIDE DEF d
    <2>4. Stake(d) <= Stake(disputes[id]) + Credit(bond)
      BY <2>2, <2>3
    <2> QED
      BY <2>1, <2>2, <2>4, EditKeepsBooks
  <1>5. ASSUME NEW id \in DisputeId, NEW c \in Filers, NEW evidence \in Evidence,
               AddDisputeEvidence(c, id, evidence)
        PROVE  Books'
    <2> DEFINE d == [disputes[id] EXCEPT
                       !.evidence_history = Append(disputes[id].evidence_history, evidence)]
    <2>1. /\ Active(id) /\ disputes[id] \in Dispute
          /\ disputes' = [disputes EXCEPT ![id] = d] /\ posted' = posted
          /\ UNCHANGED <<fees, pool, released>>
      BY <1>5, ActiveIsRecord DEF AddDisputeEvidence, Active, settlementVars
    <2>2. Append(disputes[id].evidence_history, evidence) \in Seq(Evidence)
      BY <2>1, AppendProperties DEF Dispute
    <2>3. /\ d \in Dispute /\ d.bond_amount = disputes[id].bond_amount
          /\ d.status = disputes[id].status
      BY <2>1, <2>2 DEF Dispute
    <2> HIDE DEF d
    <2>4. Stake(d) = Stake(disputes[id])
      BY <1>0, <2>1, <2>3 DEF is_active
    <2> QED
      BY <2>1, <2>3, <2>4, SameStake
  <1>6. ASSUME NEW id \in DisputeId, NEW c \in Filers \cup {Admin}, EscalateDispute(c, id)
        PROVE  Books'
    <2> DEFINE d == [disputes[id] EXCEPT
                       !.escalation_level = IF disputes[id].escalation_level = "L1Support"
                                            THEN "L2Engineering" ELSE "L3Management",
                       !.status = "Escalated"]
    <2>1. /\ disputes[id] # NoDispute /\ disputes[id] \in Dispute /\ is_active(disputes[id])
          /\ disputes' = [disputes EXCEPT ![id] = d] /\ posted' = posted
          /\ UNCHANGED <<fees, pool, released>>
      BY <1>6, ActiveIsRecord DEF EscalateDispute, is_active, settlementVars
    <2>2. d \in Dispute /\ d.bond_amount = disputes[id].bond_amount /\ is_active(d)
      BY <2>1 DEF Dispute, Level, Status, is_active
    <2> HIDE DEF d
    <2>3. Stake(d) = Stake(disputes[id])
      BY <1>0, <2>1, <2>2
    <2> QED
      BY <2>1, <2>2, <2>3, SameStake
  <1>7. ASSUME NEW id \in DisputeId, NEW c \in Filers \cup {Admin}, DismissDispute(c, id)
        PROVE  Books'
    <2> DEFINE d == [disputes[id] EXCEPT !.status = "Dismissed"]
    <2>1. /\ disputes[id] # NoDispute /\ disputes[id] \in Dispute
          /\ disputes' = [disputes EXCEPT ![id] = d] /\ posted' = posted
          /\ UNCHANGED <<fees, pool, released>>
      BY <1>7, ActiveIsRecord DEF DismissDispute, settlementVars
    <2>2. d \in Dispute /\ Stake(d) = 0
      BY <1>0, <2>1 DEF Dispute, Status, is_active
    <2> HIDE DEF d
    <2> QED
      BY <2>1, <2>2, SameStake
  <1>8. ASSUME NEW id \in DisputeId, NEW c \in Filers \cup {Admin}, NEW panel \in Panels,
               AssignArbitratorPanel(c, id, panel)
        PROVE  Books'
    <2> DEFINE d == [disputes[id] EXCEPT !.designated_arbitrators = panel]
    <2>1. /\ disputes[id] # NoDispute /\ disputes[id] \in Dispute
          /\ disputes' = [disputes EXCEPT ![id] = d] /\ posted' = posted
          /\ UNCHANGED <<fees, pool, released>>
      BY <1>8, ActiveIsRecord DEF AssignArbitratorPanel, Active, settlementVars
    <2>2. panel \subseteq Account
      BY DisputeAssumption
    <2>3. d \in Dispute /\ Stake(d) = Stake(disputes[id])
      BY <1>0, <2>1, <2>2 DEF Dispute, is_active
    <2> HIDE DEF d
    <2> QED
      BY <2>1, <2>3, SameStake
  <1>9. ASSUME NEW id \in DisputeId, NEW c \in Filers \cup {Admin}, NEW upheld \in BOOLEAN,
               ResolveDispute(c, id, upheld)
        PROVE  Books'
    BY <1>9, ActiveIsRecord, SettlementKeepsBooks DEF ResolveDispute, Active
  <1> QED
    BY <1>1, <1>2, <1>3, <1>4, <1>5, <1>6, <1>7, <1>8, <1>9, CallCases

LEMMA InitBalancesBooks == Init => Books
  <1> SUFFICES ASSUME Init PROVE Books
    OBVIOUS
  <1>1. IsFiniteSet(DisputeId) /\ IsFiniteSet(Account) /\ 0 \in Int
    BY DisputeAssumption
  <1>2. Stakes(disputes) = [id \in DisputeId |-> 0]
    BY DEF Init, Stakes, Stake
  <1>3. AtStake(disputes) = 0 * Cardinality(DisputeId)
    BY <1>1, <1>2, SumConstant, Zenon DEF AtStake
  <1>4. SumOver(fees, Account) = 0 * Cardinality(Account)
    BY <1>1, SumConstant, Zenon DEF Init
  <1>5. AtStake(disputes) = 0 /\ SumOver(fees, Account) = 0
    BY <1>1, <1>3, <1>4, FS_CardinalityType
  <1> QED
    BY <1>5 DEF Init, Books

-----------------------------------------------------------------------------
(* What follows.                                                           *)

\* The storage entries of dispute.rs always have their types: the fees and the
\* pool stay natural numbers, also when a bond is negative (open_dispute takes any
\* i128), since settle_dispute books positive shares and slashed bonds only.
THEOREM TypeCorrect == Spec => []TypeOK
  <1>1. DInv => TypeOK
    BY DEF DInv
  <1> QED
    BY <1>1, InvHolds, PTL

\* No dispute stays active with a quorum (cast_arbitrator_vote).
THEOREM QuorumSettles == Spec => []QuorumSettlesAtOnce
  <1>1. DInv => QuorumSettlesAtOnce
    BY DEF DInv
  <1> QED
    BY <1>1, InvHolds, PTL

\* No sequence of calls by whomever slashes a bond, whatever the ballots and
\* panels (try_tally_quorum).
THEOREM SlashingIsUnreachable == Spec => []NothingIsSlashed
  <1>1. DInv => NothingIsSlashed
    BY DEF DInv
  <1> QED
    BY <1>1, InvHolds, PTL

\* A settled or dismissed dispute's payout stays, and its votes stay or start
\* from none when the dispute is filed anew.
THEOREM SettlementIsFinal == Spec => SettledOnce
  <1> DEFINE Final(id) ==
        /\ payouts'[id] = payouts[id]
        /\ disputes'[id].votes_detail # disputes[id].votes_detail =>
             Active(id)' /\ disputes'[id].votes_detail = {}
  <1>1. ASSUME DInv, [Next]_vars, NEW id \in DisputeId, disputes[id] # NoDispute, ~Active(id)
        PROVE  Final(id)
    <2>0. /\ disputes \in [DisputeId -> Dispute \cup {NoDispute}]
          /\ payouts \in [DisputeId -> Payout \cup {NoPayout}]
      BY <1>1 DEF DInv, TypeOK
    <2>1. CASE UNCHANGED <<disputes, payouts>>
      BY <2>1
    <2>2. ASSUME NEW other \in DisputeId, other # id,
                 \A x \in DisputeId \ {other} : disputes'[x] = disputes[x] /\ payouts'[x] = payouts[x]
          PROVE  Final(id)
      BY <2>2
    <2>3. ASSUME NEW other \in DisputeId, NEW d, NEW upheld, NEW slash,
                 Active(other), Settle(other, d, upheld, slash)
          PROVE  Final(id)
      <3>1. other # id
        BY <1>1, <2>3
      <3>2. \A x \in DisputeId \ {other} : disputes'[x] = disputes[x] /\ payouts'[x] = payouts[x]
        BY <2>0, <2>3 DEF Settle
      <3> QED
        BY <2>2, <3>1, <3>2
    <2>4. ASSUME NEW other \in DisputeId, NEW d,
                 disputes' = [disputes EXCEPT ![other] = d], payouts' = payouts,
                 other = id => \/ d.votes_detail = disputes[id].votes_detail
                               \/ d # NoDispute /\ is_active(d) /\ d.votes_detail = {}
          PROVE  Final(id)
      <3>1. CASE other = id
        <4>1. disputes'[id] = d
          BY <2>0, <2>4, <3>1
        <4> QED
          BY <2>4, <3>1, <4>1 DEF Active
      <3>2. CASE other # id
        BY <2>0, <2>4, <3>2
      <3> QED
        BY <3>1, <3>2
    <2> HIDE DEF Final
    <2>5. CASE UNCHANGED vars \/ Tick
      BY <2>1, <2>5 DEF vars, Tick, settlementVars
    <2>6. ASSUME NEW x \in DisputeId, AutoResolveExpiredDispute(x) PROVE Final(id)
      BY <2>3, <2>6 DEF AutoResolveExpiredDispute
    <2>7. ASSUME NEW x \in DisputeId, NEW vote \in Ballots, CastArbitratorVote(x, vote)
          PROVE  Final(id)
      <3> DEFINE voted == WithVote(disputes[x], vote)
      <3>1. Active(x) /\ x # id
        BY <1>1, <2>7 DEF CastArbitratorVote
      <3>2. CASE Settle(x, voted, QuorumUpholds(voted), BondIsSlashed(voted))
        BY <2>3, <3>1, <3>2
      <3>3. CASE /\ disputes' = [disputes EXCEPT ![x] = voted]
                 /\ UNCHANGED <<now, settlementVars, posted>>
        BY <2>4, <3>1, <3>3 DEF settlementVars
      <3> QED
        BY <2>7, <3>2, <3>3 DEF CastArbitratorVote
    <2>8. ASSUME NEW x \in DisputeId, NEW c \in Filers, NEW bond \in Bonds,
                 OpenDispute(c, x, bond)
          PROVE  Final(id)
      <3> DEFINE d == [opened_by |-> c, status |-> "Open", escalation_level |-> "L1Support",
                       bond_amount |-> bond, evidence_history |-> << >>, votes_detail |-> {},
                       designated_arbitrators |-> {}, deadline |-> now + ArbitrationWindow]
      <3>1. disputes' = [disputes EXCEPT ![x] = d] /\ payouts' = payouts
        BY <2>8 DEF OpenDispute, settlementVars
      <3>2. d.votes_detail = {} /\ is_active(d)
        BY DEF is_active
      <3>3. CASE x # id
        BY <2>4, <3>1, <3>3
      <3>4. CASE x = id /\ d = NoDispute
        <4>1. d \in Dispute
          <5>1. bond \in Int /\ c \in Account /\ now + ArbitrationWindow \in Nat
            BY <1>1, DisputeAssumption DEF DInv, TypeOK
          <5> QED
            BY <5>1 DEF Dispute, Status, Level
        <4> HIDE DEF d
        <4> QED
          BY <3>4, <4>1, NoDisputeAssumption
      <3>5. CASE x = id /\ d # NoDispute
        BY <2>4, <3>1, <3>2, <3>5
      <3> QED
        BY <3>3, <3>4, <3>5
    <2>9. ASSUME NEW x \in DisputeId, NEW c \in Filers, NEW evidence \in Evidence,
                 AddDisputeEvidence(c, x, evidence)
          PROVE  Final(id)
      <3>1. x # id
        BY <1>1, <2>9 DEF AddDisputeEvidence
      <3> QED
        BY <2>4, <2>9, <3>1 DEF AddDisputeEvidence, settlementVars
    <2>10. ASSUME NEW x \in DisputeId, NEW c \in Filers \cup {Admin}, EscalateDispute(c, x)
           PROVE  Final(id)
      <3>1. x # id
        BY <1>1, <2>10 DEF EscalateDispute, Active, is_active
      <3>2. payouts' = payouts /\ \E d : disputes' = [disputes EXCEPT ![x] = d]
        BY <2>10 DEF EscalateDispute, settlementVars
      <3> QED
        BY <2>4, <3>1, <3>2
    <2>11. ASSUME NEW x \in DisputeId, NEW c \in Filers \cup {Admin}, DismissDispute(c, x)
           PROVE  Final(id)
      <3> DEFINE d == [disputes[x] EXCEPT !.status = "Dismissed"]
      <3>1. disputes' = [disputes EXCEPT ![x] = d] /\ payouts' = payouts
        BY <2>11 DEF DismissDispute, settlementVars
      <3>2. d.votes_detail = disputes[x].votes_detail
        BY <1>1, <2>11, ActiveIsRecord DEF DismissDispute, Dispute
      <3> HIDE DEF d
      <3> QED
        BY <2>4, <3>1, <3>2
    <2>12. ASSUME NEW x \in DisputeId, NEW c \in Filers \cup {Admin}, NEW panel \in Panels,
                  AssignArbitratorPanel(c, x, panel)
           PROVE  Final(id)
      <3>1. x # id
        BY <1>1, <2>12 DEF AssignArbitratorPanel
      <3> QED
        BY <2>4, <2>12, <3>1 DEF AssignArbitratorPanel, settlementVars
    <2>13. ASSUME NEW x \in DisputeId, NEW c \in Filers \cup {Admin}, NEW upheld \in BOOLEAN,
                  ResolveDispute(c, x, upheld)
           PROVE  Final(id)
      BY <2>3, <2>13 DEF ResolveDispute
    <2> QED
      BY <1>1, <2>5, <2>6, <2>7, <2>8, <2>9, <2>10, <2>11, <2>12, <2>13, CallCases
  <1>2. DInv /\ [Next]_vars =>
          [\A id \in DisputeId : disputes[id] # NoDispute /\ ~Active(id) => Final(id)]_vars
    BY <1>1
  <1> QED
    BY <1>2, InvHolds, PTL DEF Spec, SettledOnce

\* The books of dispute.rs stay covered, whoever votes, settles, dismisses and
\* refiles, over bonds of either sign: customers and arbitrators are credited out
\* of the positive bond of the dispute that ends, every bond ends once, and a
\* negative one brings nobody a credit.
THEOREM NothingPaidTwice == Spec => []BondsCovered
  <1>1. Init => Books
    BY InitBalancesBooks
  <1>2. DInv /\ Books /\ [Next]_vars => Books'
    BY StepKeepsBooks
  <1>3. DInv /\ Books => BondsCovered
    BY BooksBalance DEF DInv
  <1> QED
    BY <1>1, <1>2, <1>3, InvHolds, PTL DEF Spec
=============================================================================
