--------------------------- MODULE TierProposals ---------------------------
(***************************************************************************)
(* The table of penalty rates (threshold_config.rs).  The admin sets it at    *)
(* once, or proposes a table and executes the proposal by its number.  There   *)
(* is one pending proposal: a new one replaces it.  The admin of the moment     *)
(* may execute what a predecessor proposed.                                  *)
(***************************************************************************)
EXTENDS Integers, Sequences

CONSTANTS
    Steward,      \* the accounts that may be admin
    Table,        \* the tables proposed
    NoTable,      \* nothing is stored
    MaxProposals, \* bound on the number of proposals
    LastId        \* the largest proposal number: 2^64 - 1 in the code

\* The numbers do not run out.
ASSUME TierAssumption == MaxProposals \in Nat /\ LastId \in Nat /\ MaxProposals <= LastId

VARIABLES
    steward,      \* ADMIN, changed by lib.rs
    tierTable,    \* TIER_TBL
    tierProposal, \* TIER_PRP
    lastId,       \* TIER_PID
    agenda,       \* history: all proposals, oldest first
    inForce       \* history: how the table in force came about

tierVars == <<steward, tierTable, tierProposal, lastId, agenda, inForce>>

NoTierProposal == [proposal_id |-> 0, proposer |-> "", new_table |-> NoTable]
TierTableProposal == [proposal_id : 1..LastId, proposer : Steward, new_table : Table]

-----------------------------------------------------------------------------
SetTierTable(caller, table) ==
    /\ caller = steward
    /\ tierTable' = table
    /\ inForce' = [id |-> 0, table |-> table]
    /\ UNCHANGED <<steward, tierProposal, lastId, agenda>>

\* Mutant: the number is taken from the pending proposal.
NextTierIdReused == IF tierProposal = NoTierProposal THEN 1 ELSE tierProposal.proposal_id + 1

\* Numbers stop at the largest one.
NextTierId == IF lastId = LastId THEN LastId ELSE lastId + 1

ProposeTierTable(caller, table) ==
    /\ Len(agenda) < MaxProposals
    /\ caller = steward
    /\ LET proposal == [proposal_id |-> NextTierId, proposer |-> caller, new_table |-> table]
       IN  tierProposal' = proposal /\ agenda' = Append(agenda, proposal)
    /\ lastId' = NextTierId
    /\ UNCHANGED <<steward, tierTable, inForce>>

ExecuteTierTableProposal(caller, id) ==
    /\ caller = steward
    /\ tierProposal # NoTierProposal
    /\ tierProposal.proposal_id = id
    /\ tierTable' = tierProposal.new_table
    /\ tierProposal' = NoTierProposal
    /\ inForce' = [id |-> id, table |-> tierProposal.new_table]
    /\ UNCHANGED <<steward, lastId, agenda>>

\* The admin role changes hands in lib.rs.
ChangeSteward(account) ==
    /\ steward' = account
    /\ UNCHANGED <<tierTable, tierProposal, lastId, agenda, inForce>>

-----------------------------------------------------------------------------
TierInit ==
    /\ steward \in Steward
    /\ tierTable = NoTable
    /\ tierProposal = NoTierProposal
    /\ lastId = 0
    /\ agenda = <<>>
    /\ inForce = [id |-> 0, table |-> NoTable]

TierNext ==
    \/ \E account \in Steward : ChangeSteward(account)
    \/ \E caller \in Steward, table \in Table :
         SetTierTable(caller, table) \/ ProposeTierTable(caller, table)
    \/ \E caller \in Steward, id \in 1..LastId : ExecuteTierTableProposal(caller, id)

TierSpec == TierInit /\ [][TierNext]_tierVars

-----------------------------------------------------------------------------
(* Properties.                                                             *)

TierTypeOK ==
    /\ steward \in Steward
    /\ tierTable \in Table \cup {NoTable}
    /\ tierProposal \in TierTableProposal \cup {NoTierProposal}
    /\ lastId \in 0..LastId
    /\ agenda \in Seq(TierTableProposal)

\* A number names one proposal for ever: whoever executes proposal n gets the
\* table that was announced under n, and no other, although proposals replace
\* each other, admins change and executed proposals leave no trace but their
\* number (propose_tier_table, execute_tier_table_proposal).
NumbersNameProposals ==
    /\ \A i, j \in DOMAIN agenda : agenda[i].proposal_id = agenda[j].proposal_id => i = j
    /\ inForce.id # 0 =>
         \E i \in DOMAIN agenda :
             agenda[i].proposal_id = inForce.id /\ agenda[i].new_table = inForce.table
    /\ tierTable = inForce.table

\* A proposal takes effect once: executed, replaced or still pending, the
\* pending one is always the last on the agenda.
PendingIsLatest ==
    tierProposal # NoTierProposal =>
        agenda # <<>> /\ tierProposal = agenda[Len(agenda)] /\ lastId = tierProposal.proposal_id

\* Tables change by number as announced: the properties above together.
TierTablesAsAnnounced == TierTypeOK /\ NumbersNameProposals /\ PendingIsLatest
=============================================================================
