--------------------------- MODULE ProposalQueue ---------------------------
(***************************************************************************)
(* The queue of approved proposals (proposal_execution_queue.rs), and the     *)
(* timelock of a parameter change (param_timelock.rs).  Leaving the queue and *)
(* being executed are two calls.  The first takes the front off whatever its   *)
(* time says; the second takes a proposal from its caller, asks that its time   *)
(* has come and announces it, without looking at the queue.  So a proposal that  *)
(* was taken early is in nobody's hands but its keeper's, who has to try again,   *)
(* as the test of the queue does; and others may announce what they like.       *)
(***************************************************************************)
EXTENDS LedgerClock, Sequences, FiniteSets

CONSTANTS
    Proposals,     \* what callers put into the queue, or hand in for execution
    MaxQueued,     \* bound on the number of proposals
    MaxAnnounced,  \* bound on the announcements before a stranger's execution
    ParamTimelock  \* 48 hours in the code

QueuedProposal == [proposal_id : Nat, execute_after : Nat]

ASSUME ProposalAssumption == Proposals \subseteq QueuedProposal
ASSUME TimelockAssumption == ParamTimelock \in Nat

VARIABLES
    queue,         \* PROPOSAL_QUEUE_KEY
    arrivals,      \* history: the proposals enqueued
    taken,         \* history: the proposals that left the queue, with its keeper
    served,        \* how many of the taken their keeper has executed
    announced,     \* history: the execution events, with their time
    paramChange,   \* the pending change its proposer holds
    paramApplied   \* history: when a change was proposed and applied

paramVars == <<paramChange, paramApplied>>
queueVars == <<queue, arrivals, taken, served, announced, paramVars>>

NoChange == -1

-----------------------------------------------------------------------------
(* The queue.                                                              *)

EnqueueProposal(proposal) ==
    /\ Len(arrivals) < MaxQueued
    /\ queue' = Append(queue, proposal)
    /\ arrivals' = Append(arrivals, proposal)
    /\ UNCHANGED <<now, taken, served, announced, paramVars>>

\* Mutant: the shortened queue is not saved.
DequeueUnsaved ==
    /\ queue # <<>>
    /\ taken' = Append(taken, Head(queue))
    /\ UNCHANGED <<now, queue, arrivals, served, announced, paramVars>>

\* The front leaves, due or not.
DequeueProposal ==
    /\ queue # <<>>
    /\ queue' = Tail(queue)
    /\ taken' = Append(taken, Head(queue))
    /\ UNCHANGED <<now, arrivals, served, announced, paramVars>>

ExecuteQueuedProposal(proposal) ==
    /\ now >= proposal.execute_after
    /\ announced' = announced \cup {[proposal |-> proposal, at |-> now]}
    /\ UNCHANGED <<now, queue, arrivals, taken, paramVars>>

\* Anyone executes a proposal of their own making, queued or not, once or again.
ExecuteByAnyone(proposal) ==
    /\ Cardinality(announced) < MaxAnnounced
    /\ ExecuteQueuedProposal(proposal)
    /\ UNCHANGED served

\* The keeper executes the first of those it took and has not executed.
ExecuteTaken ==
    /\ served < Len(taken)
    /\ ExecuteQueuedProposal(taken[served + 1])
    /\ served' = served + 1

-----------------------------------------------------------------------------
(* The parameter change.                                                   *)

is_timelock_elapsed == now >= paramChange + ParamTimelock

remaining_timelock ==
    IF paramChange + ParamTimelock > now THEN paramChange + ParamTimelock - now ELSE 0

\* A new proposal replaces the one its proposer held.
ProposeParamChange ==
    /\ paramChange' = now
    /\ UNCHANGED <<now, queue, arrivals, taken, served, announced, paramApplied>>

\* The holder applies the change once the timelock says so.
ApplyParamChange ==
    /\ paramChange # NoChange
    /\ is_timelock_elapsed
    /\ paramChange' = NoChange
    /\ paramApplied' = paramApplied \cup {[proposed |-> paramChange, applied |-> now]}
    /\ UNCHANGED <<now, queue, arrivals, taken, served, announced>>

-----------------------------------------------------------------------------
QueueInit ==
    /\ queue = <<>>
    /\ arrivals = <<>>
    /\ taken = <<>>
    /\ served = 0
    /\ announced = {}
    /\ paramChange = NoChange
    /\ paramApplied = {}

QueueNext ==
    \/ Tick /\ UNCHANGED queueVars
    \/ \E proposal \in Proposals : EnqueueProposal(proposal) \/ ExecuteByAnyone(proposal)
    \/ DequeueProposal
    \/ ExecuteTaken

ParamNext ==
    \/ Tick /\ UNCHANGED queueVars
    \/ ProposeParamChange
    \/ ApplyParamChange

QueueSpec == now = 0 /\ QueueInit /\ [][QueueNext \/ ParamNext]_<<now, queueVars>>

-----------------------------------------------------------------------------
(* Properties.                                                             *)

QueueTypeOK ==
    /\ queue \in Seq(QueuedProposal)
    /\ arrivals \in Seq(QueuedProposal)
    /\ taken \in Seq(QueuedProposal)
    /\ served \in 0..Len(taken)
    /\ announced \subseteq [proposal : QueuedProposal, at : Time]
    /\ paramChange \in Time \cup {NoChange}

\* Nothing is lost, doubled or overtaken in the queue: what left it, followed by
\* what waits, is what arrived, in that order, whatever the timelocks.  And what
\* the keeper has executed are the first to arrive, each of them announced, at a
\* time that was not before its own, however early it was taken and whatever
\* others announced meanwhile.
QueueConserved ==
    /\ arrivals = taken \o queue
    /\ \A n \in 1..served : \E event \in announced :
         event.proposal = arrivals[n] /\ event.at >= arrivals[n].execute_after

\* The two readings of a timelock agree, and no change was applied before it
\* had been pending for the whole timelock.
TimelockIsServed ==
    /\ paramChange # NoChange => (remaining_timelock = 0 <=> is_timelock_elapsed)
    /\ \A change \in paramApplied : change.applied - change.proposed >= ParamTimelock

\* With a keeper that keeps taking and trying, every proposal is executed in the
\* end, those behind a longer timelock too: taking one early does not lose it.
QueueDrains ==
    \A n \in 1..MaxQueued : Len(arrivals) >= n ~> served >= n
=============================================================================
