# A TLA+ model of noc-iq-contracts

noc-iq-contracts computes service-level penalties and rewards for outages in a
Soroban (Stellar) smart contract, `src/sla_calculator`, and surrounds it with
TypeScript helpers.  This directory holds TLA+ modules of the contract, of the
satellite files around its core and of the backend's payment helpers, TLC
instances that check them, and proofs that the TLA+ proof system checks.

    tlc -workers 2 -config SLAGovernance.cfg SLAGovernance
    tlapm SLAGovernanceProofs.tla      # and SLALedgerProofs, DisputesProofs,
                                       # CustodyProofs, CalculationProofs, Sums,
                                       # SatelliteProofs, CompositionProofs

`PROJECT.json` maps every definition to the lines it models and lists the
components, the runs, their mutants, the hazards and the theorems.

## The execution model

A contract call is atomic: the host runs it to its end, and an error undoes
every write, storage removals included.  So one action of a module is one
*successful* call, a failing one is a stuttering step, and concurrency is the
interleaving of calls by different accounts.  Several calls may share a ledger
timestamp; time moves only in `Tick`.  The hard behaviours are therefore not
data races but *sequences of legal calls*: proposals that outlive the role they
were made for, a retry after a reconfiguration, a limit lowered under a full
history, a decision racing a deadline.

Outside the contract nothing is atomic: `Replay` lets a submission arrive at any
time up to the last ledger it is valid for, or never, while the backend polls,
retries and gives up.

## Inventory

| Component | State | Operations | Talks to | Must hold |
|---|---|---|---|---|
| Governance (lib.rs) | ADMIN, OPERATOR, PADMIN, POP, PAUSED, PAUSEINF, VER, MIGKEY/MIGTIME | initialize, migrate, propose/accept/cancel/renounce for both roles, set/revoke operator, pause, unpause, set_migration_key, execute_migration | its flags are read by every other entry point | roles move only by the two-step handoff; a vacated role has no heir; nothing moves under a foreign version; the migration timelock is served in full |
| Settlement ledger (lib.rs, state_snapshot.rs) | CONFIG, HIST, STATS, RETLIM, MAX_DUR, CFGUPDCT | calculate_sla, set/import/reset config, three prunings, two limits, the calls that read them | reads governance; its `set_int` event starts the payment off chain | statistics equal what was announced; one entry per outage; only the oldest entries leave; the limit is kept; all readers tell the same |
| Arithmetic, batches (lib.rs, batch.rs) | none | compute_result, compute_sla, process_single, validate_config, calendar, isqrt, sub-minute helpers, batches | called by the ledger and by views | the copies of the formula agree; longer outages never pay more |
| Disputes (dispute.rs) | DISP, PAYOUT, ARBFEE, ARBPOOL | open, add evidence, escalate, assign panel, vote, resolve, auto-resolve, dismiss | ADMIN of governance | nothing is paid twice, a quorum decides, nobody is stuck |
| Recourse (dispute_appeal, _withdrawal, _force_settle, provider_dispute_history) | appeals consumed, their limit | withdraw, settle by force, file an appeal, count it, look up | what its caller says of a dispute | a withdrawal and a forced settlement cannot both be due; appeals are numbered; pages tile the history |
| Key rotation (upgrade_path.rs) | guardians, one rotation, the upgrade log | set_guardians, propose, execute, cancel, perform_upgrade | ADMIN and VER of governance | the admin changes by one of the two protocols, each with its quorum, acceptance and delay |
| Emergency (emergency.rs) | rollback record, saved configuration | initiate, execute, undo | PAUSED, PAUSEINF, CONFIG | undo restores what was there |
| Penalty tables (threshold_config.rs) | table, one proposal, numbers | set, propose, execute | ADMIN | what is executed is what was announced under the number |
| Escalation (breach_escalation, penalty_escalation) | breaches per provider, violations per outage | record, quote, clear, set level; configure, apply, reset | ADMIN | nobody pays for more than was recorded |
| Parameter timelock, proposal queue | one change; a queue | propose, apply; enqueue, dequeue, execute | their callers, who keep what was dequeued | order of leaving, each once; nothing before its time |
| Limits (submission_rate, rate_limit, reward_cap, zero_downtime_bonus) | counters per window, a budget | decree, check, record, award | settlements | the limit holds over windows and decrees |
| Claims, collateral (claim_deadline, collateral_lock, token_rescue) | claim windows, locks | open, extend, pay, expire; lock, pay out, release, rescue of surplus and of other tokens | token transfers of their callers | one payment per window, collateral conserved |
| Outages (resolution_delay, force_majeure, outage_correlation_tag) | reports, excuses, tags | detect, resolve; record, close; tag, untag | penalties | first reports stand, an excuse outlives its interval, tags form a forest |
| Lists (whitelist, multi_operator) | flags with counters, roles, services | add, remove, clear, switch, register | every caller | the counter is the size of the list; admission follows it |
| Oracle, tuning | configuration, confirmations | configure, confirm, validate; recommend | STATS | data only goes stale; recommendations are damped |
| Views and records (trend, event_filter, event_index, history_snapshot, config_provenance, event_log_compaction, event_compression) | index, badges, closings, monthly snapshots, change log, summaries | build, query, record, compact | HIST | what is told of the past is what was |
| Other contracts (dependency_propagation, cross_contract_safety, version_negotiation) | sites, callers, the list of a tracker | register, report, call, negotiate | contracts outside | flags can be cleared; what took effect is on the list; the registry is its admin's |
| Payment helpers (offchain/) | status of intents, hashes | reconcile, resolveAmbiguity, transition | HIST, settlement events, the network | a settlement is applied once |
| Withdrawals and unbonding; configuration, pause, role, storage, event satellites; off-chain formats; SDK, tooling, scripts, tests | - | mostly copies, wrappers, layout | - | not modelled, see the end |

`PROJECT.json` lists every one of them with its files and, when it is not
modelled, the reason.  Many satellite files are not declared as modules of
`lib.rs` (dispute.rs among them); they are modelled as the state machines they
define, on the storage they would share.

## Modules

| Module | Models | Notes |
|---|---|---|
| `SLAGovernance` | governance entry points of lib.rs | one action per call; absent storage entries are `NoOne`, `NoProposal`, `NoKey`, version 0 |
| `RoleHandoff` | what a two-step handoff promises (docs/adr/006) | abstract; implemented twice by `SLAGovernance` |
| `GovernanceInterface` | what the calculation side sees of governance | abstract; implemented by `SLAGovernance`, *used as the environment* of `SLALedger` |
| `SLALedger` | configuration, `calculate_sla`, history, pruning, statistics | EXTENDS `GovernanceInterface` and `SLAMath` |
| `LedgerViews` | audit view, look-ups, counts, snapshots, health, whether an operator is served a batch | operators on the state of `SLALedger` |
| `SettlementBook` | what the ledger promises to consumers of settlements | abstract; implemented by `SLALedger` |
| `SLAMath`, `SLACalculations` | the pure functions of lib.rs and batch.rs; a sweep over their inputs | compares copies and references |
| `Disputes` | dispute.rs | bonds and payouts are accounting entries, as in the code |
| `DisputeRecourse` | withdrawal, forced settlement, appeals, history of a provider | what these files decide is an event: they read and write nothing of dispute.rs, so it is not composed with `Disputes` |
| `KeyRotation` | upgrade_path.rs | EXTENDS `SLAGovernance`; its `HandoffStep` is every call of lib.rs that changes ADMIN, PADMIN, VER or the migration key |
| `EmergencyRollback`, `SavePoint` | emergency.rs; what a save point promises | the first implements the second |
| `TierProposals`, `Escalations` | threshold_config.rs; breach_escalation.rs and penalty_escalation.rs | |
| `LedgerClock` | the ledger time and the counter over a fixed window that two files write out several times | extended by every satellite that reads the time |
| `SubmissionLimits`, `RewardBudget` | submission_rate.rs and rate_limit.rs; reward_cap.rs with zero_downtime_bonus.rs | a submission checks and records in one invocation |
| `Claims`, `Collateral` | claim_deadline.rs; collateral_lock.rs with token_rescue.rs | |
| `Resolutions`, `Correlations` | resolution_delay.rs and force_majeure.rs; outage_correlation_tag.rs | |
| `ProposalQueue`, `AccessLists` | proposal_execution_queue.rs with param_timelock.rs; whitelist.rs with multi_operator.rs | |
| `Dependencies`, `Coordination` | dependency_propagation.rs; cross_contract_safety.rs with version_negotiation.rs | |
| `HistoryViews`, `EventIndex`, `RollingWindows`, `Archive` | trends, filters, pages and the compressed entry; the stored index; rolling figures and badges; monthly snapshots, change log, compaction | |
| `Tuning`, `OracleData` | adaptive_tuning.rs; oracle.rs | |
| `Replay` | the backend's helpers of offchain/, over an unreliable network and the contract's bounded history | |
| `MC...` | constants and compositions of the TLC instances | with one .cfg per run |
| `Sums`, `...Proofs` | nothing of the code: lemmas about sums, and the theorems | see *Proofs* |
| `...Proofs` | the theorems | see Proofs |

Composition.  `SLALedger` does not include the governance state.  It takes every
step `GovernanceInterface` allows, and `SLAGovernance => GovernanceInterface`
(`SeenThroughInterface`) is checked and proved, so what holds of the ledger
holds under every governance history, those with several renunciations,
re-initializations and migrations included.  `KeyRotation` and `EmergencyRollback`
run beside the calls of lib.rs that write the keys they write.  `MCCustody` and
`MCSatellites` put files together that share no storage key, at most the ledger
time.  Nothing one of them does can be seen by another, so a product of their
states would multiply the work and show nothing more; a variable `part`, chosen
at the start, says which file a behaviour is about, and the run covers the
behaviours of all of them.

Correspondence worth knowing:

* `settled` is a history variable: the results announced since the last
  `initialize`.  HIST is kept as a set of positions of it (`retained`); the code
  only appends at the end and removes.  `stats` is the code's own variable, so
  that `StatsBalance` relates two independent records.
* An operator proposal or admin proposal that is too old is removed and then
  `NoPendingTransfer` is returned; the error undoes the removal, so acceptance of
  an expired proposal is not an action, and only the getters drop it.
* `posted` and `released` in `Disputes` are history variables: the positive bonds
  posted and the positive customer payouts recorded.  `open_dispute` takes any i128
  as a bond and so does the model; what `settle_dispute` then records is negative
  too, and is credited to nobody.
* Likewise `paidOut`, `deposited`, `arrivals`, `taken`, `filings` and others in the
  satellites: each is a record of what happened beside the variable the code
  keeps, so that a property compares the two.
* Checks and records that belong to one invocation are one action: the host undoes
  both when one of them fails.  What the source offers as two functions with no caller
  that joins them is two actions: `DequeueProposal` takes the front off whatever its
  time says, `ExecuteQueuedProposal` announces any proposal whose time has come, and
  that somebody keeps what was dequeued and tries again, as the test at
  proposal_execution_queue.rs:150 does, is the external `ExecuteTaken`.
* Amounts are unbounded integers.  An i128 saturates far above what
  `validate_config` admits (10000 a minute over 32 bits of minutes);
  `import_config_map` admits more, which the model does not explore.
* Where a conversion loses something, so does the model: the limits of the tuning are
  read as signed words (`AsSigned`), a compressed amount as the lower half of an i128
  (`Narrowed`), and a page's bounds wrap at a word (`PageWord`).
* `Mutant:` operators in the modules are plausible bugs.  Each is the counterpart
  of one property: with the original's body replaced by it, TLC finds that
  property violated.  No specification uses them.

## Runs

Passing runs, each exhaustive:

| Run | Instance | Shows |
|---|---|---|
| `governance` (335 368 states) | 3 accounts, times 0..3, proposals last 1 tick, timelock 2 | both roles implement `RoleHandoff` (`FollowsAdminHandoff` without, `FollowsOperatorHandoff` with direct appointment); `VacantAdminHasNoProposal`; `VersionGate`, `FrozenWithoutAdmin`, `MigrationNotice`; `SeenThroughInterface` |
| `ledger` (1 227 846 states) | 1 account, 3 outages (symmetric), 3 settlements at times 1..2, retention limits 1 and 2, 1 configuration update | `StatsBalance`, `OneEntryPerOutage`, `ViewsAgree`, `HistoryInTimeOrder`, `OnlyOldestLeave`, `GrowthWithinLimit`, `KeepsSettlementBook`, `OrderBrokenOnlyByImport` |
| `calculations` (43 767 states) | the input grows through repair times, months since 1970, milliseconds and roots, for several configurations and caps | `CopiesAgree`, `LongerNeverPaysMore`, `MonthsTileTheCalendar`, `RoundsDown` |
| `disputes` (479 331 states) | 1 identifier, filed twice with a bond of 40 and any number of times with one of -40, 3 voters, a panel of two, window 1, times 0..2 | `BondsCovered`, `QuorumSettlesAtOnce`, `SettledOnce`, `FilerNotStuck` |
| `custody` (228 764 states) | 2 accounts, quorum 2 of 2 guardians for 3 of 5, rotation timelock 2 against offers that last 1, times 0..3 (0..1 for rollbacks), 3 proposed tables, 2 providers, 3 strikes, 4 violations | `AdminCustody`, `ConfigSurvivesRollback`, `RollbackCustody`, `TierTablesAsAnnounced`, `EscalationIsEarned` |
| `satellites` (351 447 states) | two or three of everything, times 0..5 (0..2 for the parts about records and services), see `MCSatellites.cfg` | one property per theme, each the conjunction of what its files promise: `LimitsHold`, `PayoutsAreCovered`, `OutageRecordsHold`, `PeersHold`, `ProposalsAreServed`, `AdmissionIsAccounted`, `RecordsAreTold`, `ReplaysAreSafe` |

`ViewsAgree` collects what readers of the ledger rely on: every look-up tells the
same entry (`ReadPathsAgree`), the audit confirms what is in the history
(`AuditConfirmsHistory`), an operator always finds a configuration for a batch
(`OperatorIsServed`), and snapshots describe one state.  `CopiesAgree`
joins the forecasts of the simulation with the batch and the multi-site discount.

Why the bounds are enough.  *Governance*: three accounts can be
holder, nominee and a nominee of before at once; the times let a proposal be accepted in time,
expire, and be replaced, and the timelock be served or restarted.  *Ledger*:
three settlements over limits of one and two reach eviction, a limit lowered
under the history by one, a booking after eviction, and every pruning; two
times are enough because only the order of times matters, and they are those after 0, where
no ledger closes (the constraint `ClockHasStarted`); the operator and the
admin may be the same account since no guard compares them.  *Calculations*: the
sweep passes the ratings' limits, the threshold and the cap of every
configuration, the months of 1970 to 2104 with the leap year 2000 and the common
year 2100, and the squares up to 40.  *Disputes*: three voters are one more than a
quorum, a second filing meets a dispute in each status, the fee of a bond of 40
is 2 and is lost when three voters divide it, and of a bond of -40 it is negative.
*Custody*: the rotation timelock
outlasts an admin offer, so that each protocol can finish and can lapse inside
the other; two accounts can be admin and nominee, and guardians of both, while the
migration key runs out the version under either; an imported map disagrees with itself; two guardian lists differ in one member, so approvals of a guardian
who has left are counted; a rollback can be begun twice at different times; a
proposal of a table can be replaced before it is executed; the ceiling on strikes
moves below and above the strikes recorded.  *Satellites*: every window can open,
fill, lapse and open again; a budget is set below what was paid; a claim is
extended to its last extension and reopened; collateral covers more than its
amount and is locked anew; three tags or sites form a chain whose middle moves, and
`resolve_root` climbs one step of it; an excuse is closed in advance and replaced; a
tracker has calls that fail between calls that succeed; a queue has a late proposal in
front of an early one of the same number, and both are taken early; a limit of the
tuning is negative as a signed word; an amount is wider than its compressed form; a
page lies beyond the end of a word; the index outlives an eviction; and a submission is replayed three times
over a contract that has forgotten it.  `MaxTime`, `MaxSettled`,
`MaxUpdates`, `MaxPosted`, `MaxEvidence`, `MaxInput` and the other `Max...`
constants in lower case bound exploration only; those in capitals are the
code's, scaled.

Deadlock is not checked where the bounds stop the system (`CHECK_DEADLOCK
FALSE`).

Fairness is assumed in two places.  In `Disputes`, weak fairness of
`AutoResolveExpiredDispute`: the call needs no role, so the filer, who gets the
bond back, can always make it; nothing else is assumed to happen, neither votes
nor admin calls nor the passing of time (`FilerNotStuck`).  In `MCSatellites`, for the
proposal queue, weak fairness of `Tick`, `DequeueProposal` and `ExecuteTaken`: time
passes, and one keeper keeps taking the front and trying to execute what it took, as
the test of the queue does (`QueueDrains`).  The queue itself neither restricts these calls to
anybody nor makes anybody do them; a keeper that forgets what it took has lost it.

### Where the code differs from what it says

Each of these runs checks one sentence of the repository and TLC refutes it:

* `renounced_forever`: README.md:321 calls `renounce_admin` irreversible.
  `initialize` asks only whether ADMIN is absent, so anybody can then initialize
  the contract again; history, statistics and configuration start afresh.  Nor is it
  the only way back: README.md:323 says "There is no recovery path by design", but a
  quorum of guardians can rotate the key of a vacant role (`ExecuteKeyRotation` does
  not ask for an admin), and a migration key set before serves after.
* `migration_completable`: the comment on `get_migration_state` sends the admin
  of a contract that reports `needs_migration` to `migrate`.  After
  `execute_migration` the stored version is newer than the binary's, and
  `migrate` refuses it; this binary never serves the contract again.
* `retention_takes_effect`: "The new limit takes effect on the next
  `calculate_sla` call."  A calculation drops one entry, so a history that is
  over the limit by more than one stays as long as it was.
* `same_result_on_retry`: "idempotent only when execution inputs resolve to the
  same deterministic result."  Only duration and threshold are compared; after a
  change of penalty, reward or multipliers the old amount is returned.
* `frivolous_slashed`: the comment at dispute.rs:551-554 and the test at
  dispute.rs:1327 have a panel of three that dismisses a dispute as frivolous take the
  bond for the pool.  The second vote is a quorum; it settles the dispute, the bond
  is refunded, and the third is refused.  No sequence of calls slashes a bond
  (theorem `SlashingIsUnreachable`).
* `applied_twice`: the backend's replay "prevents double-application of SLA
  calculations."  `reconcile` takes the window as closed when both of its bounds
  are given, whatever the present ledger, so a retry can be booked beside the
  submission it replaces once the contract has forgotten the first.
  `ReplaysAreSafe` shows that a backend that waits for the window books once.

Further observations, without a run:

* History: the comment on `prune_history_by_age` (lib.rs:2233-2236) says that entries
  with `recorded_at == 0` are always kept; the code (lib.rs:2260) drops them as soon as
  the cutoff is above 0.  `OnlyOldestLeave` speaks of the other entries only.
* Disputes: `open_dispute` is to attach the evidence of the filing (dispute.rs:242), but
  the vector it builds (dispute.rs:284) is not the one it stores (dispute.rs:302);
  bonds may be zero or negative; `escalate_dispute` refuses an escalated
  dispute, so `L3Management` is never reached, and no call sets `UnderReview`;
  `dismiss_dispute` works on settled disputes and returns no bond; filing under an
  identifier in use replaces the dispute; fee remainders belong to nobody.
* Batches: the batch path ignores the duration cap and refuses an outage of no
  duration, which `calculate_sla` accepts; the operator's `batch_calculate` does not
  check the storage version, the public view does; after a partial import
  `get_config_snapshot` and `get_config_version_hash` fail while calculations and
  `export_snapshot` work.
* Custody: a rotation counts the approvals on record, also those of guardians who
  have left the list (upgrade_path.rs:332; its comment asks for a "guardian
  quorum"); `execute_rollback` installs "factory defaults" (emergency.rs:95) that are
  its own; `undo_rollback` unpauses and leaves the pause record, which
  `get_pause_info` then tells of a contract that is not paused (lib.rs:849).
* Views: the net amount of a trend adds the penalties, which are negative amounts,
  by subtracting them; a trend of no periods panics; neighbouring summaries share
  their bound, and an empty one counts as 0 %; the positions of a stored index are
  stale after an eviction.
* Recourse: withdrawals may be announced again and again and for disputes that are
  settled, since only the caller says what a dispute is; `file_appeal` does not consume
  an appeal and `record_appeal` does not ask for a filed one; a forced settlement counts its
  signers and does not look at them; `set_disputes_paused` sets a flag that nobody reads.
* Tuning: it reads no evaluation window and takes no settlements for 0 %; below the
  target it makes the penalty adjustment negative where its comment says "increase
  penalties" (adaptive_tuning.rs:169), above it positive where the comment says
  "decrease" (adaptive_tuning.rs:173), and no property speaks of that sign; a limit of 2^31 or more is cast
  to a negative number, which is then recommended on either side of the target.
* Other contracts: compensations are listed, and promised "in reverse order"
  (cross_contract_safety.rs:236), but nothing calls them; the `finalize` of the usage
  example does not exist and `RecoverableError` is never produced; no operation asks
  the registry of callers, whose `initialize_admin` is open to anybody and writes the
  ADMIN key of lib.rs; `report_status` stores any u32, and whatever is above 2 is told
  only while no flag covers it.
* Outages: `resolve_root` gives up after 64 steps, so an outage deeper than that is
  grouped under one in mid-chain (`TagsFormForest` says which); `close_force_majeure` takes its date from
  the caller, and a record that is closed in advance may be replaced before its interval begins.
* Others: compacting an outage for which a stale record is given discards the
  details; a compressed amount is the lower half of the original
  (event_compression.rs:144); while there is no admin, configuration changes are
  recorded under a generated address; nobody calls `invalidate_index`;
  `rescue_tokens` lets its caller say which token is the collateral; the oracle gives
  a point dated in the future the age 0.

## Proofs

Eight modules hold theorems; `PROJECT.json` lists the 44 a reader should know of.
Each is proved for every value of its constants under assumptions that the
modules name and TLC evaluates in the runs.  Of the properties of the passing runs
all are proved but three: `RecordsAreTold`, and `FilerNotStuck` and
`ProposalsAreServed`, which contain liveness.

**Governance** (`SLAGovernanceProofs`, from `NoOneAssumption` and
`TimeAssumption`).  All eight properties of the `governance` run, for every
set of accounts, expiration, timelock and bound on time.

The inductive invariant `Inv` is `TypeOK` and `VacantAdminHasNoProposal`.  `TypeOK`
alone is inductive but says too little: `accept_admin` does not ask whether there
is an admin, so that it never fills a vacant role (`FrozenWithoutAdmin`), and that
its effect is a `ChangeAdmin` of the interface, follows only from the absence of
a proposal to accept; and that absence is inductive because `initialize`, which
leaves PADMIN alone, needs the role to be vacant.  `CallCases` splits `Next`
into its calls and `CallPreservesInv` treats each; `InvHolds` draws the temporal
conclusion.  The refinement theorems say, call by call, which abstract action it
is (`AdminHandoffStep`, `OperatorHandoffStep`, `InterfaceStep`), after
`AdminUntouched` and `OperatorUntouched` have disposed of the calls of the other
role; `InTime` turns the code's test on a difference of times into the
abstract deadline.

**Ledger** (`SLALedgerProofs`, from `RetentionAssumption`: limits are positive and
the default is in the range, and `LedgerInputAssumption`: inputs have their
types).  The properties of the `ledger` run, for every set of
outages and accounts, every set of inputs, every retention range and every bound.

Its inductive invariant `LInv` adds to `TypeOK` and `OneEntryPerOutage` that
`settled` is `Chronological`: in the order of time and not later than now.  The
second half is what makes the order survive a new result, and the first is what
makes pruning by age a pruning of the oldest (`AgeIsCut`).  `OneEntryPerOutage`
is inductive because eviction and pruning only ever take from the set
that the duplicate check reads.  The argument has two halves.
`EveryStepIsHistoryStep` reduces the calls to three effects on the history: it
is cleared (`ClearsHistory`), loses its oldest part (`CutsHistory`), or gets one
new result (`ExtendsHistory`); the theorems about the history reason about
these three.  `LatestIsCut`, `RetainIsCut` and `AgeIsCut` say of the operators
of the prunings and of the eviction that what they remove is the oldest part and
how much is left.  `KeepsBook` maps the three effects to `Open`, `Forget` and
`Settle` of the abstract book.  `OnlyImportBreaksOrder` needs no invariant beyond
types: `AcceptedKeepsOrder` shows that the loop of `validate_config`, which
compares the new configuration with each other severity, is enough for the
order of all pairs.

`StatisticsBalance` needs the lemmas of `Sums`: a settlement adds one element to each
set over which the statistics are recounted, and eviction and pruning none, so each
recount grows by what `calculate_sla` adds to its counter.  `OneStory` follows from
`LInv`: with one entry per outage every look-up, from whichever end it reads, ends at
the same place.

**Disputes** (`DisputesProofs`, from `NoDisputeAssumption` and
`DisputeAssumption`).  `TypeOK`, `BondsCovered`, `QuorumSettlesAtOnce` and
`SettledOnce`, for every set of identifiers, voters, integer bonds and panels.  The
inductive invariant `DInv` adds to the types that the votes of a dispute are
finitely many (`FiniteVotes`), so that adding one adds one to their number, and
takes two properties about quorums into the induction: that slashing never
happens (`NothingIsSlashed`, the reason for the run `frivolous_slashed`) follows from an
active dispute having less than a quorum, and that in
turn must survive panels assigned after votes were cast and disputes filed anew.
`NothingPaidTwice` keeps the books: what filers and arbitrators were credited, the pool and
the positive bonds still at stake (a sum over the disputes) never exceed the positive bonds
that were posted, since each call moves a bond from one of them to another or loses a
remainder.  A negative bond is left out on both sides: its payout, its fee and its shares are
negative (`Quotient` rounds toward zero), and `settle_dispute` books only positive ones.

**Custody** (`CustodyProofs`, from `RotationAssumption`, `ConfigInputAssumption`,
`TierAssumption` and those of governance).  The properties of the `custody` run.
`RInv` adds to the invariant of governance and the types of a rotation that an upgrade
on the log leads to the current version and is the only one: without it a second
`perform_upgrade` might follow the first.  `EInv` adds that a contract without a
configuration has no admin, so that there is always something to save; that severities
which agree with each other are brought to disagree only by an imported map, or by the
undoing of a rollback that began under one, then follows call by call, since both copies of
the defaults agree and `set_config` validates the one severity it changes from both sides.  `TInv` adds that proposals are numbered without a gap, so that a number
is a place on the agenda, and that the table in force is the one at the place it was
executed by.

**Arithmetic** (`CalculationProofs`, from `CalculationAssumption`).  The four
properties of the `calculations` run, for every configuration that `set_config`
accepts, every cap, and inputs of any size.  An import can store configurations
that `set_config` refuses; of these the theorems say nothing.
`LongerPaysLess` goes from the rating (`RatingFalls`) through rewards and penalties to
the outcome on both sides of the threshold.  `CalendarIsCivil` does not compute: it
shows that the leap years counted up to a year and the days counted up to a month grow
as the calendar does, and that the end of a month meets the beginning of the next.
`RoundingIsCareful` proves the binary search of `isqrt`: a turn keeps the root between
its bounds and shrinks their distance, and after as many turns as there are the
bounds have met (`SearchFindsLargest`).

**Sums and recursion** (`Sums`).  `MapThenSumSet` folds over a set in the order of
`CHOOSE`, and the induction theorems of the library are of no use to the installed
provers.  What stands in for them is that every non-empty set of numbers
(`LeastNatural`) and every non-empty set of finite sets (`MinimalSubset`) has a minimal
element: a lemma about all sizes is refuted at a smallest counterexample.  By it the
equation of a recursive function has a solution (`AdditiveExists`) and one only
(`RecursionUnique`), so that a fold can be compared with whatever satisfies its
equation.  The lemmas that follow are cited everywhere: how a sum changes when one
element is added, removed or changed, that it is monotone, and how it splits.

**Satellites** (`SatelliteProofs`, from `EscalationAssumption`, `MaxTimeAssumption`,
`TimelockAssumption`, `ClaimsAssumption`, `DelayAssumption`, `TuningAssumption`,
`BudgetAssumption`, `CollateralAssumption`, `AccountAssumption`, `GraceAssumption`).  Eight
sections that share nothing, each with the invariant of its file: `EscalationInv` relates
the record of a provider to the number of its breaches and to the lowest ceiling there
ever was; `QueueInv` says that what arrived is what was taken followed by what waits, and that the
keeper has executed the first of it, each in its time; the invariant of the claim windows bounds a window by its extensions; that of
resolutions keeps two maps in step; `RecommendationOK` brackets a recommendation
between the step and the gap, from which both halves of `TuningIsDamped` follow, the first
for limits that a signed word holds;
`BudgetInv` needs the cap to be positive, since the code encodes "no cap" as the
absence of an amount; `CollateralInv` balances the accounts of every provider; and
`ListInv` ties a saturating counter to the size of its list, so that it never saturates.

**Composition** (`CompositionProofs`, from these and `RateInputAssumption`,
`LimitInputAssumption`, `RecourseAssumption`, `CorrelationAssumption`, `OracleAssumption`,
`SiteAssumption`, `ProtocolAssumption`, `ReplayAssumption`).  Six of the eight
properties of the `satellites` run, about its own specification.  A behaviour of it is
about one part, and `StepsAreTheParts` says that each step is a step of that part or leaves
what the part reads; so the invariant of a part, kept by its steps, holds in the
behaviours that are about it.

* `LimitsKept`.  A counter over a fixed window is the number of the submissions logged
  since the window opened, whatever the admin decreed in between; the log is
  ordered by time, so that what a longer window counts contains what a shorter one does.
* `AdmissionAccounted`.  `ListInv` again, and a grace period that ends when announced
  because nothing changes the time it began.
* `PayoutsCovered`.  `RecourseInv` dates every announcement against what its caller said,
  so that the last withdrawal of a dispute comes before the first forced settlement, and
  numbers the appeals under a limit that may fall below their count; locked collateral is
  the sum over the providers.  That pages tile the history of a provider is a lemma about
  sequences (concatenation, `SubSeq`), for any size of page and length of history.
* `OutageRecordsCohere`.  The tags have no cycle because there is a *rank* that falls
  towards the parents: a new tag raises the rank of everything below it
  (`RankRaised`).  `ancestry_contains` climbs without a limit; a walk that meets an
  outage meets it within the number of outages, since those it passes are different
  ones (`MetInTime`).  `resolve_root` climbs so many steps only: it reaches the root of
  exactly those outages that have no more ancestors than that, since the steps visit the
  ancestors one by one (`AncestorsAreVisited`, `RootWithinReach`).  Wherever it stops, each
  outage belongs to one group, and the totals of the groups add up to the total.
* `PeersCohere`.  The same argument for sites, whose check is `would_close_cycle`:
  it has collected everything above a site after as many steps as there are sites
  (`AncestryIsClosed`).  A tracker of calls and a registry have invariants of a line each.
* `ReplaysSafe`.  `ReplayInv` says that, for a backend that waits, what can still land is
  the last submission on record of an outage that is not booked (`WaitingForTheLast`), and
  that what is booked was booked by the submission on record (`BookedByTheLast`); the first
  is what a retry before the window is closed breaks, as the run `applied_twice` shows.

The assumptions are what the code accepts.  Sets that are summed over or whose size is
taken are finite (accounts, operators, providers, tagged outages, sites); among the rates and limits tried one is acceptable to the setter, since a
limit in force is one that was accepted; amounts, times and versions are natural numbers; the ceiling
on appeals is positive, and the oldest version accepted is not newer than one's own.

Only model-checked: `FilerNotStuck` and `QueueDrains`, since liveness under fairness is out
of the prover's reach (the safety part of `ProposalsAreServed` is `QueueIsConserved`); and
`RecordsAreTold`, about filtered copies of a sequence and the figures taken from them,
which is within reach by the means of `Sums` but not proved yet.  A lemma about
`SelectSeq` for every predicate cannot be stated; it has to be proved for the
membership in a set, and each filter expressed by one.

## Not modelled

Events other than the settlement record, digests and schema getters, token
transfers beyond those the satellites ask of their callers, storage lifetimes,
authentication by signature (a call is made by the account it names).  Of whole files:

* fragments that lib.rs does not declare, that nothing calls and that repeat, often with
  fewer checks, what lib.rs does: the configuration, pause, role and storage
  satellites, the bounds and ratings;
* `dispute_pause.rs`: a flag with a reason that nothing in the repository reads;
* withdrawals and unbonding: comparisons over a total and a time that a caller outside
  the repository keeps, with nothing to interleave;
* layouts: the off-chain formats, the event layouts, the client libraries;
* harnesses, fixtures, scripts and generated material.

What is left to do with the present modules: the proof of `RecordsAreTold`; the rows of a
penalty table, which `TierProposals` takes as one value; and larger instances of the
ledger.
