------------------------- MODULE CompositionProofs -------------------------
(***************************************************************************)
(* Theorems about the satellites together, for the specification the run of   *)
(* MCSatellites checks.  Its behaviours are each about one part, so a step is    *)
(* that part's or none; an invariant of a part, kept by its steps, then holds     *)
(* in the composition for the behaviours that are about it.                     *)
(***************************************************************************)
EXTENDS MCSatellites, SatelliteProofs, Sums

-----------------------------------------------------------------------------
(* Steps of the composition.                                               *)

\* A step leaves the part a behaviour is about, and is a step of that part or
\* moves none of what the part reads.
LEMMA StepsAreTheParts ==
    ASSUME [SatellitesNext]_satelliteVars
    PROVE  /\ part' = part
           /\ part = "replays" => ReplayNext \/ UNCHANGED <<now, replayVars>>
           /\ part = "lists" => ListNext \/ UNCHANGED <<now, accessVars>>
           /\ part = "services" => ServiceNext \/ UNCHANGED <<now, accessVars>>
           /\ part = "submissions" => SubmissionNext \/ UNCHANGED <<now, submissionVars>>
           /\ part = "callers" => RateLimitNext \/ UNCHANGED <<now, callerLimitVars>>
           /\ part = "tuning" => [TuningNext]_tuningVars
           /\ part = "budget" => [BudgetNext]_budgetVars
           /\ part = "claims" => ClaimsNext \/ UNCHANGED <<now, claimVars>>
           /\ part # "claims" => UNCHANGED claimVars
           /\ part = "collateral" => [CollateralNext]_collateralVars
           /\ part = "recourse" => RecourseNext \/ UNCHANGED <<now, recourseVars>>
           /\ part \in {"appeals", "listing"} =>
                AppealNext \/ ListingNext \/ UNCHANGED <<now, recourseVars>>
           /\ part = "resolutions" => ResolutionNext \/ UNCHANGED <<now, resolutionVars>>
           /\ part = "excuses" => ForceMajeureNext \/ UNCHANGED <<now, excuseVars>>
           /\ part = "correlations" => [CorrelationNext]_correlationVars
           /\ part = "oracle" => OracleNext \/ UNCHANGED <<now, oracleVars>>
           /\ part = "sites" => [DependencyNext]_dependencyVars
           /\ part = "calls" => [CoordinationNext]_coordinationVars
PROOF
<1>1. CASE UNCHANGED satelliteVars
  BY <1>1 DEF satelliteVars, Accounts, Limits, Money, Outages, Peers
<1>2. CASE LimitsNext
  BY <1>2 DEF LimitsNext, RestOfLimits, Accounts, Money, Outages, Peers
<1>3. CASE MoneyNext
  BY <1>3 DEF MoneyNext, RestOfRecourse, RestOfMoney, Accounts, Limits, Outages, Peers,
       AppealNext, ListingNext, SetMaxAppeals, RecordAppeal, ListOutcome
<1>4. CASE OutagesNext
  BY <1>4 DEF OutagesNext, RestOfOutages, Accounts, Limits, Money, Peers
<1>5. CASE PeersNext
  BY <1>5 DEF PeersNext, RestOfPeers, Accounts, Limits, Money, Outages
<1>6. CASE AccountsNext
  BY <1>6 DEF AccountsNext, RestOfQueue, RestOfAccounts, Limits, Money, Outages, Peers
<1>7. CASE RecordsNext
  BY <1>7 DEF RecordsNext, AllButViews, AllButIndex, AllButRolling, AllButArchive, RestOfRecords,
       Accounts, Limits, Money, Outages, Peers
<1>8. CASE ReplaysNext
  BY <1>8 DEF ReplaysNext, RestOfReplays, Limits, Money, Outages, Peers
<1> QED  BY <1>1, <1>2, <1>3, <1>4, <1>5, <1>6, <1>7, <1>8 DEF SatellitesNext

-----------------------------------------------------------------------------
(* Replays.                                                                *)

\* The submissions of an outage are numbered in their order, the last of them
\* on record.
FlightsAreNumbered ==
    /\ \A flight \in flights : flight.tx_hash <= registry[flight.job].tx_hash
    /\ \A flight, other \in flights :
         flight.job = other.job /\ flight.tx_hash = other.tx_hash => flight = other

\* What has landed, what is remembered and what is held for final is booked.
LandedIsBooked ==
    /\ \A flight \in flights : flight.fate = "included" => applied[flight.job] > 0
    /\ \A job \in Job : finality[job] = "finalized" \/ job \in remembered => applied[job] > 0

\* What can still land is the last submission of an outage that waits for it and
\* is not booked.
WaitingForTheLast ==
    \A flight \in flights : CanLand(flight) =>
        /\ finality[flight.job] = "submitted"
        /\ flight.tx_hash = registry[flight.job].tx_hash
        /\ applied[flight.job] = 0

\* An outage is booked by the submission on record, and as long as that is
\* not known the contract remembers it.
BookedByTheLast ==
    \A job \in Job :
        /\ applied[job] \in {0, 1}
        /\ applied[job] = 1 => finality[job] \in {"submitted", "finalized"}
        /\ applied[job] = 1 /\ finality[job] = "submitted" =>
             job \in remembered /\ "included" \in Fate(job)

ReplayInv ==
    /\ now \in Nat /\ ReplayTypeOK
    /\ FlightsAreNumbered /\ LandedIsBooked
    /\ ~rash => WaitingForTheLast /\ BookedByTheLast

\* The submission on record is the only one with its hash.
LEMMA FateIsOne ==
    ASSUME ReplayInv, NEW flight \in flights, flight.tx_hash = registry[flight.job].tx_hash
    PROVE  Fate(flight.job) = {flight.fate}
PROOF
  BY DEF ReplayInv, FlightsAreNumbered, Fate

\* What the registry counts for an outage of which a submission is known to have
\* ended can land no more.
LEMMA EndedIsOver ==
    ASSUME ReplayInv, ~rash, NEW job \in Job, Fate(job) # {"open"}, Fate(job) # {}
    PROVE  \A flight \in flights : flight.job = job => ~CanLand(flight)
PROOF
  BY FateIsOne DEF ReplayInv, WaitingForTheLast, CanLand

LEMMA ReplayBegins == ReplayInit /\ now = 0 => ReplayInv
PROOF
<1> SUFFICES ASSUME ReplayInit, now = 0 PROVE ReplayInv
  OBVIOUS
<1>1. ReplayTypeOK
  <2>1. [tx_hash |-> 0, confirmed |-> FALSE] \in TxRecord
    BY ReplayAssumption DEF TxRecord
  <2> QED  BY <2>1 DEF ReplayInit, ReplayTypeOK, FinalityState
<1>2. FlightsAreNumbered /\ LandedIsBooked
  BY DEF ReplayInit, FlightsAreNumbered, LandedIsBooked
<1>3. WaitingForTheLast /\ BookedByTheLast
  BY DEF ReplayInit, WaitingForTheLast, BookedByTheLast
<1> QED  BY <1>1, <1>2, <1>3 DEF ReplayInv

\* A confirmation is of a booked outage no submission of which can still land.
LEMMA ConfirmationKeepsInv ==
    ASSUME ReplayInv, NEW job \in Job, Confirmed(job), applied[job] > 0,
           Fate(job) = {"included"} \/ job \in remembered,
           UNCHANGED <<now, flights, remembered, applied, rash>>
    PROVE  ReplayInv'
PROOF
<1>1. ReplayTypeOK'
  <2>1. registry' \in [Job -> TxRecord]
    BY DEF ReplayInv, ReplayTypeOK, Confirmed, TxRecord
  <2> QED  BY <2>1 DEF ReplayInv, ReplayTypeOK, Confirmed, transition, FinalityState
<1>2. \A other \in Job : registry'[other].tx_hash = registry[other].tx_hash
  BY DEF ReplayInv, ReplayTypeOK, Confirmed, TxRecord
<1>3. \A flight \in flights : flight.job \in Job
  BY DEF ReplayInv, ReplayTypeOK, Flight
<1>4. FlightsAreNumbered'
  BY <1>2, <1>3 DEF ReplayInv, FlightsAreNumbered
<1>5. finality' = [finality EXCEPT ![job] = "finalized"] /\ finality[job] = "submitted"
  BY DEF Confirmed, transition, TRANSITIONS
<1>6. LandedIsBooked'
  BY <1>5 DEF ReplayInv, ReplayTypeOK, LandedIsBooked
<1>7. ASSUME ~rash' PROVE WaitingForTheLast' /\ BookedByTheLast'
  <2>1. ~rash /\ WaitingForTheLast /\ BookedByTheLast
    BY <1>7 DEF ReplayInv
  <2>2. \A flight \in flights : CanLand(flight)' <=> CanLand(flight)
    BY DEF CanLand
  <2>3. \A flight \in flights : CanLand(flight) => flight.job # job
    BY <2>1 DEF WaitingForTheLast
  <2>4. WaitingForTheLast'
    BY <1>2, <1>3, <1>5, <2>1, <2>2, <2>3 DEF WaitingForTheLast, ReplayInv, ReplayTypeOK
  <2>5. \A other \in Job : Fate(other)' = Fate(other)
    BY <1>2 DEF Fate
  <2>6. BookedByTheLast'
    BY <1>5, <2>1, <2>5 DEF BookedByTheLast, ReplayInv, ReplayTypeOK
  <2> QED  BY <2>4, <2>6
<1> QED  BY <1>1, <1>4, <1>6, <1>7 DEF ReplayInv

\* An outage that is given up, or taken up again, is not booked unless the backend
\* was rash.
LEMMA RestartKeepsInv ==
    ASSUME ReplayInv, NEW job \in Job,
           NEW state \in {"pending", "rolled_back", "expired"}, transition(job, state),
           rash' \in BOOLEAN, rash => rash',
           ~rash' => /\ \A flight \in flights : flight.job = job => ~CanLand(flight)
                     /\ applied[job] = 0,
           UNCHANGED <<now, registry, flights, remembered, applied>>
    PROVE  ReplayInv'
PROOF
<1>1. finality' = [finality EXCEPT ![job] = state] /\ state \in FinalityState
  BY DEF transition, FinalityState
<1>2. ReplayTypeOK'
  BY <1>1 DEF ReplayInv, ReplayTypeOK
<1>3. FlightsAreNumbered'
  BY DEF ReplayInv, FlightsAreNumbered
<1>4. LandedIsBooked'
  BY <1>1 DEF ReplayInv, ReplayTypeOK, LandedIsBooked
<1>5. ASSUME ~rash' PROVE WaitingForTheLast' /\ BookedByTheLast'
  <2>1. ~rash /\ WaitingForTheLast /\ BookedByTheLast
    BY <1>5 DEF ReplayInv
  <2>2. \A flight \in flights : CanLand(flight)' <=> CanLand(flight)
    BY DEF CanLand
  <2>3. \A flight \in flights : CanLand(flight) => flight.job # job /\ flight.job \in Job
    BY <1>5 DEF ReplayInv, ReplayTypeOK, Flight
  <2>4. WaitingForTheLast'
    BY <1>1, <2>1, <2>2, <2>3 DEF WaitingForTheLast, ReplayInv, ReplayTypeOK
  <2>5. \A other \in Job : Fate(other)' = Fate(other)
    BY DEF Fate
  <2>6. BookedByTheLast'
    BY <1>1, <1>5, <2>1, <2>5 DEF BookedByTheLast, ReplayInv, ReplayTypeOK
  <2> QED  BY <2>4, <2>6
<1> QED  BY <1>2, <1>3, <1>4, <1>5 DEF ReplayInv

\* An outage is submitted again with the next hash, when it is not booked.
LEMMA JobKeepsInv ==
    ASSUME ReplayInv, NEW job \in Job, SubmitJob(job)
    PROVE  ReplayInv'
PROOF
<1> DEFINE hash == registry[job].tx_hash + 1
           new == [job |-> job, tx_hash |-> hash, last |-> now + Validity, fate |-> "open"]
<1>1. /\ finality[job] = "pending" /\ finality' = [finality EXCEPT ![job] = "submitted"]
      /\ registry' = [registry EXCEPT ![job] = [tx_hash |-> hash, confirmed |-> FALSE]]
      /\ flights' = flights \cup {new}
      /\ hash <= MaxAttempts
      /\ UNCHANGED <<now, remembered, applied, rash>>
  BY DEF SubmitJob, transition, TRANSITIONS
<1>2. registry[job].tx_hash \in 0..MaxAttempts /\ now \in Int
  BY DEF ReplayInv, ReplayTypeOK, TxRecord
<1>3. hash \in 1..MaxAttempts
  BY <1>1, <1>2, ReplayAssumption
<1>4. now \in Nat
  BY DEF ReplayInv
<1>5. new \in Flight /\ [tx_hash |-> hash, confirmed |-> FALSE] \in TxRecord
  BY <1>3, <1>4, ReplayAssumption DEF Flight, TxRecord
<1>6. /\ \A other \in Job : other # job => registry'[other] = registry[other]
      /\ registry'[job].tx_hash = hash
      /\ new.job = job /\ new.tx_hash = hash /\ new.fate = "open"
  BY <1>1 DEF ReplayInv, ReplayTypeOK
<1> HIDE DEF new, hash
<1>7. ReplayTypeOK'
  BY <1>1, <1>5 DEF ReplayInv, ReplayTypeOK, FinalityState
<1>8. \A flight \in flights : flight.job \in Job /\ flight.tx_hash \in Nat
  BY DEF ReplayInv, ReplayTypeOK, Flight
<1>9. \A flight \in flights : flight.job = job => flight.tx_hash < hash
  BY <1>2, <1>8 DEF hash, ReplayInv, FlightsAreNumbered
<1>10. FlightsAreNumbered'
  <2>1. \A flight \in flights' : flight.tx_hash <= registry'[flight.job].tx_hash
    BY <1>1, <1>3, <1>6, <1>8, <1>9 DEF ReplayInv, FlightsAreNumbered
  <2>2. \A flight, other \in flights' :
          flight.job = other.job /\ flight.tx_hash = other.tx_hash => flight = other
    BY <1>1, <1>3, <1>6, <1>8, <1>9 DEF ReplayInv, FlightsAreNumbered
  <2> QED  BY <2>1, <2>2 DEF FlightsAreNumbered
<1>11. LandedIsBooked'
  BY <1>1, <1>6 DEF ReplayInv, ReplayTypeOK, LandedIsBooked
<1>12. ASSUME ~rash' PROVE WaitingForTheLast' /\ BookedByTheLast'
  <2>1. ~rash /\ WaitingForTheLast /\ BookedByTheLast
    BY <1>1, <1>12 DEF ReplayInv
  <2>2. \A flight \in flights' : CanLand(flight)' <=> CanLand(flight)
    BY <1>1 DEF CanLand
  <2>3. \A flight \in flights : CanLand(flight) => flight.job # job
    BY <1>1, <2>1 DEF WaitingForTheLast
  <2>4. applied[job] = 0
    BY <1>1, <2>1 DEF BookedByTheLast
  <2>5. WaitingForTheLast'
    BY <1>1, <1>6, <1>8, <2>1, <2>2, <2>3, <2>4
       DEF WaitingForTheLast, ReplayInv, ReplayTypeOK
  <2>6. \A other \in Job : other # job => Fate(other)' = Fate(other)
    BY <1>1, <1>6 DEF Fate
  <2>7. BookedByTheLast'
    BY <1>1, <2>1, <2>4, <2>6 DEF BookedByTheLast, ReplayInv, ReplayTypeOK
  <2> QED  BY <2>5, <2>7
<1> QED  BY <1>1, <1>7, <1>10, <1>11, <1>12 DEF ReplayInv

\* A submission that lands is the last of its outage, which was not booked
\* before, unless the backend was rash.
LEMMA LandingKeepsInv ==
    ASSUME ReplayInv, NEW flight \in flights, NEW fate \in {"included", "failed"},
           CanLand(flight),
           flights' = (flights \ {flight}) \cup {[flight EXCEPT !.fate = fate]},
           IF fate = "failed" THEN UNCHANGED <<remembered, applied>>
             ELSE /\ remembered' = remembered \cup {flight.job}
                  /\ applied' = IF flight.job \in remembered THEN applied
                                  ELSE [applied EXCEPT ![flight.job] = @ + 1],
           UNCHANGED <<now, finality, registry, rash>>
    PROVE  ReplayInv'
PROOF
<1> DEFINE landed == [flight EXCEPT !.fate = fate]
           job == flight.job
<1>1. flight \in Flight
  BY DEF ReplayInv, ReplayTypeOK
<1>2. /\ landed \in Flight /\ landed.job = job /\ landed.tx_hash = flight.tx_hash
      /\ landed.fate = fate /\ job \in Job
  BY <1>1 DEF Flight
<1>3. flights' = (flights \ {flight}) \cup {landed}
  OBVIOUS
<1> HIDE DEF landed
<1>4. /\ remembered' \subseteq Job /\ applied' \in [Job -> Nat]
      /\ \A other \in Job : applied'[other] >= applied[other]
      /\ \A other \in Job : other # job =>
           applied'[other] = applied[other] /\ (other \in remembered' <=> other \in remembered)
      /\ fate = "failed" => applied' = applied /\ remembered' = remembered
      /\ fate = "included" /\ job \notin remembered => applied'[job] = applied[job] + 1
      /\ fate = "included" => job \in remembered'
      /\ job \in remembered => applied' = applied
  BY <1>2 DEF ReplayInv, ReplayTypeOK
<1>5. ReplayTypeOK'
  BY <1>2, <1>3, <1>4 DEF ReplayInv, ReplayTypeOK
<1>6. FlightsAreNumbered'
  BY <1>2, <1>3 DEF ReplayInv, FlightsAreNumbered
<1>7. \A other \in flights : other.job \in Job
  BY DEF ReplayInv, ReplayTypeOK, Flight
<1>8. fate = "included" => applied'[job] > 0
  BY <1>2, <1>4 DEF ReplayInv, ReplayTypeOK, LandedIsBooked
<1>9. LandedIsBooked'
  <2>1. \A other \in flights' : other.fate = "included" => applied'[other.job] > 0
    BY <1>2, <1>3, <1>4, <1>7, <1>8 DEF ReplayInv, ReplayTypeOK, LandedIsBooked
  <2>2. \A other \in Job : finality'[other] = "finalized" \/ other \in remembered' =>
          applied'[other] > 0
    BY <1>4, <1>8 DEF ReplayInv, ReplayTypeOK, LandedIsBooked
  <2> QED  BY <2>1, <2>2 DEF LandedIsBooked
<1>10. ASSUME ~rash' PROVE WaitingForTheLast' /\ BookedByTheLast'
  <2>1. ~rash /\ WaitingForTheLast /\ BookedByTheLast
    BY <1>10 DEF ReplayInv
  <2>2. /\ finality[job] = "submitted" /\ flight.tx_hash = registry[job].tx_hash
        /\ applied[job] = 0 /\ job \notin remembered
    BY <1>2, <2>1 DEF WaitingForTheLast, ReplayInv, LandedIsBooked
  <2>3. \A other \in flights' : CanLand(other)' => other \in flights /\ CanLand(other) /\ other # flight
    BY <1>2, <1>3 DEF CanLand
  <2>4. \A other \in flights' : CanLand(other)' => other.job # job
    BY <2>1, <2>2, <2>3 DEF WaitingForTheLast, ReplayInv, FlightsAreNumbered
  <2>5. WaitingForTheLast'
    BY <1>4, <1>7, <2>1, <2>3, <2>4 DEF WaitingForTheLast
  <2>6. \A other \in Job : other # job => Fate(other)' = Fate(other)
    <3> SUFFICES ASSUME NEW other \in Job, other # job
                 PROVE  {f \in flights : f.job = other /\ f.tx_hash = registry[other].tx_hash}' =
                        {f \in flights : f.job = other /\ f.tx_hash = registry[other].tx_hash}
      BY DEF Fate
    <3> QED  BY <1>2, <1>3
  <2>7. fate \in Fate(job)'
    BY <1>2, <1>3, <2>2 DEF Fate
  <2>8. \A other \in Job : other # job =>
          /\ applied'[other] \in {0, 1}
          /\ applied'[other] = 1 => finality'[other] \in {"submitted", "finalized"}
          /\ applied'[other] = 1 /\ finality'[other] = "submitted" =>
               other \in remembered' /\ "included" \in Fate(other)'
    BY <1>4, <2>1, <2>6 DEF BookedByTheLast
  <2>9. /\ applied'[job] \in {0, 1}
        /\ applied'[job] = 1 => finality'[job] \in {"submitted", "finalized"}
        /\ applied'[job] = 1 /\ finality'[job] = "submitted" =>
             job \in remembered' /\ "included" \in Fate(job)'
    BY <1>4, <2>2, <2>7
  <2>10. BookedByTheLast'
    BY <2>8, <2>9 DEF BookedByTheLast
  <2> QED  BY <2>5, <2>10
<1> QED  BY <1>5, <1>6, <1>9, <1>10 DEF ReplayInv

LEMMA ForgettingKeepsInv ==
    ASSUME ReplayInv, NEW job \in Job, Forget(job)
    PROVE  ReplayInv'
PROOF
<1>1. ReplayTypeOK'
  BY DEF Forget, ReplayInv, ReplayTypeOK
<1>2. FlightsAreNumbered' /\ LandedIsBooked'
  BY DEF Forget, ReplayInv, FlightsAreNumbered, LandedIsBooked
<1>3. ASSUME ~rash' PROVE WaitingForTheLast' /\ BookedByTheLast'
  <2>1. ~rash /\ WaitingForTheLast /\ BookedByTheLast /\ finality[job] = "finalized"
    BY <1>3 DEF Forget, ReplayInv
  <2>2. WaitingForTheLast'
    BY <2>1 DEF Forget, WaitingForTheLast, CanLand
  <2>3. BookedByTheLast'
    BY <2>1 DEF Forget, BookedByTheLast, Fate
  <2> QED  BY <2>2, <2>3
<1> QED  BY <1>1, <1>2, <1>3 DEF ReplayInv, Forget

\* Nothing moves but the time, after which fewer submissions can land.
LEMMA WaitingKeepsInv ==
    ASSUME ReplayInv, now' \in Nat, now' >= now, UNCHANGED replayVars
    PROVE  ReplayInv'
PROOF
<1>1. UNCHANGED <<finality, registry, flights, remembered, applied, rash>>
  BY DEF replayVars
<1>2. ReplayTypeOK' /\ FlightsAreNumbered' /\ LandedIsBooked'
  BY <1>1 DEF ReplayInv, ReplayTypeOK, FlightsAreNumbered, LandedIsBooked
<1>3. \A flight \in flights : CanLand(flight)' => CanLand(flight)
  BY <1>1 DEF ReplayInv, ReplayTypeOK, Flight, CanLand
<1>4. ~rash => WaitingForTheLast' /\ BookedByTheLast'
  BY <1>1, <1>3 DEF ReplayInv, WaitingForTheLast, BookedByTheLast, Fate
<1> QED  BY <1>1, <1>2, <1>4 DEF ReplayInv

LEMMA ReplayKeepsInv == ReplayInv /\ [ReplayNext]_<<now, replayVars>> => ReplayInv'
PROOF
<1> SUFFICES ASSUME ReplayInv, [ReplayNext]_<<now, replayVars>> PROVE ReplayInv'
  OBVIOUS
<1>1. CASE UNCHANGED <<now, replayVars>>
  BY <1>1, WaitingKeepsInv DEF ReplayInv
<1>2. CASE Tick /\ UNCHANGED replayVars
  BY <1>2, WaitingKeepsInv DEF Tick, ReplayInv
<1>3. ASSUME NEW job \in Job, SubmitJob(job) PROVE ReplayInv'
  BY <1>3, JobKeepsInv
<1>4. ASSUME NEW job \in Job, Confirm(job) PROVE ReplayInv'
  <2>1. PICK flight \in flights :
          flight.job = job /\ flight.tx_hash = registry[job].tx_hash /\ flight.fate = "included"
    BY <1>4 DEF Confirm, Fate
  <2>2. Fate(job) = {"included"}
    BY <2>1, FateIsOne
  <2>3. applied[job] > 0
    BY <2>1 DEF ReplayInv, LandedIsBooked
  <2> QED  BY <1>4, <2>2, <2>3, ConfirmationKeepsInv DEF Confirm
<1>5. ASSUME NEW job \in Job, RollBack(job) PROVE ReplayInv'
  <2>1. PICK flight \in flights :
          flight.job = job /\ flight.tx_hash = registry[job].tx_hash /\ flight.fate = "failed"
    BY <1>5 DEF RollBack, Fate
  <2>2. Fate(job) = {"failed"}
    BY <2>1, FateIsOne
  <2>3. finality[job] = "submitted"
    BY <1>5 DEF RollBack, transition, TRANSITIONS
  <2>4. ~rash => /\ \A other \in flights : other.job = job => ~CanLand(other)
                 /\ applied[job] = 0
    BY <2>2, <2>3, EndedIsOver DEF ReplayInv, BookedByTheLast
  <2> QED  BY <1>5, <2>4, RestartKeepsInv DEF RollBack, ReplayInv, ReplayTypeOK
<1>6. ASSUME NEW job \in Job, Requeue(job) PROVE ReplayInv'
  <2>1. finality[job] \in {"rolled_back", "expired"}
    BY <1>6 DEF Requeue, transition, TRANSITIONS
  <2>2. ~rash => /\ \A other \in flights : other.job = job => ~CanLand(other)
                 /\ applied[job] = 0
    BY <2>1 DEF ReplayInv, WaitingForTheLast, BookedByTheLast
  <2> QED  BY <1>6, <2>2, RestartKeepsInv DEF Requeue, ReplayInv, ReplayTypeOK
<1>7. ASSUME NEW job \in Job, Forget(job) PROVE ReplayInv'
  BY <1>7, ForgettingKeepsInv
<1>8. ASSUME NEW job \in Job, NEW observation, NEW windowGiven \in BOOLEAN,
             Query(job, observation, windowGiven)
      PROVE  ReplayInv'
  <2>1. CASE Reconcile(job, windowGiven) = "no_op" /\ Confirmed(job) /\ UNCHANGED rash
    <3>1. job \in remembered
      BY <2>1 DEF Reconcile
    <3>2. applied[job] > 0
      BY <3>1 DEF ReplayInv, LandedIsBooked
    <3> QED  BY <1>8, <2>1, <3>1, <3>2, ConfirmationKeepsInv DEF Query
  <2>2. CASE /\ Reconcile(job, windowGiven) = "retry" /\ transition(job, "expired")
             /\ rash' = (rash \/ \E flight \in flights : flight.job = job /\ CanLand(flight))
             /\ UNCHANGED registry
    <3>1. job \notin remembered /\ finality[job] = "submitted"
      BY <1>8, <2>2 DEF Reconcile, Query
    <3>2. ~rash => applied[job] = 0
      BY <3>1 DEF ReplayInv, BookedByTheLast
    <3>3. rash' \in BOOLEAN /\ (rash => rash')
      BY <2>2 DEF ReplayInv, ReplayTypeOK
    <3> QED  BY <1>8, <2>2, <3>2, <3>3, RestartKeepsInv DEF Query
  <2> QED  BY <1>8, <2>1, <2>2 DEF Query
<1>9. ASSUME NEW flight \in flights, Include(flight) PROVE ReplayInv'
  BY <1>9, LandingKeepsInv DEF Include
<1>10. ASSUME NEW flight \in flights, Fail(flight) PROVE ReplayInv'
  BY <1>10, LandingKeepsInv DEF Fail
<1> QED  BY <1>1, <1>2, <1>3, <1>4, <1>5, <1>6, <1>7, <1>8, <1>9, <1>10 DEF ReplayNext

LEMMA PatienceIsSafe == ReplayInv => PatientReplaysAreSafe
PROOF
<1> SUFFICES ASSUME ReplayInv, NEW job \in Job
             PROVE  LET underWay == {flight \in flights : flight.job = job /\ CanLand(flight)}
                    IN  /\ finality[job] = "finalized" => applied[job] > 0
                        /\ applied[job] = 0 => job \notin remembered
                        /\ ~rash => /\ Cardinality(underWay) <= 1
                                    /\ applied[job] <= 1
                                    /\ applied[job] = 1 => underWay = {}
  BY DEF PatientReplaysAreSafe
<1> DEFINE underWay == {flight \in flights : flight.job = job /\ CanLand(flight)}
<1>1. /\ finality[job] = "finalized" => applied[job] > 0
      /\ applied[job] = 0 => job \notin remembered
  BY DEF ReplayInv, LandedIsBooked
<1>2. ASSUME ~rash PROVE Cardinality(underWay) <= 1
  <2>1. \A flight, other \in underWay : flight = other
    BY <1>2 DEF ReplayInv, WaitingForTheLast, FlightsAreNumbered
  <2>2. CASE underWay = {}
    BY <2>2, FS_EmptySet
  <2>3. CASE underWay # {}
    <3>1. PICK flight \in underWay : TRUE
      BY <2>3
    <3> HIDE DEF underWay
    <3>2. underWay = {flight}
      BY <2>1, <3>1
    <3>3. Cardinality({flight}) = 1
      BY FS_Singleton
    <3> QED  BY <3>2, <3>3
  <2> QED  BY <2>2, <2>3
<1>3. ASSUME ~rash PROVE applied[job] <= 1 /\ (applied[job] = 1 => underWay = {})
  BY <1>3 DEF ReplayInv, WaitingForTheLast, BookedByTheLast
<1> QED  BY <1>1, <1>2, <1>3

\* A backend that retries only when no submission can land any more books no
\* outage twice and never has two submissions of it under way, in the
\* composition (offchain/).
THEOREM ReplaysSafe == SatellitesSpec => []ReplaysAreSafe
PROOF
<1> DEFINE Inv == part = "replays" => ReplayInv
<1>1. SatellitesInit => Inv
  BY ReplayBegins DEF SatellitesInit
<1>2. Inv /\ [SatellitesNext]_satelliteVars => Inv'
  BY StepsAreTheParts, ReplayKeepsInv
<1>3. Inv => ReplaysAreSafe
  BY PatienceIsSafe DEF ReplaysAreSafe, About, ReplayInv
<1> QED  BY <1>1, <1>2, <1>3, PTL DEF SatellitesSpec

-----------------------------------------------------------------------------
(* The access lists.                                                       *)

AdmissionInv == now \in Time /\ AccessTypeOK /\ ListInv

LEMMA AdmissionBegins == AccessInit /\ now = 0 => AdmissionInv
PROOF
<1> SUFFICES ASSUME AccessInit, now = 0 PROVE AdmissionInv
  OBVIOUS
<1>1. now \in Time
  BY MaxTimeAssumption DEF Time
<1>2. ListInv
  BY AccessBegins
<1>3. AccessTypeOK
  BY <1>2, GraceAssumption DEF AccessInit, AccessTypeOK, ListInv
<1> QED  BY <1>1, <1>2, <1>3 DEF AdmissionInv

LEMMA AdmissionKeepsInv ==
    ASSUME AdmissionInv, [ListNext \/ ServiceNext]_<<now, accessVars>>
    PROVE  AdmissionInv' /\ now' >= now
PROOF
<1>1. ListInv'
  BY AccessKeepsInv DEF AdmissionInv
<1>2. ListNext => UNCHANGED <<now, serviceVars>>
  <2>1. ASSUME NEW account \in Account, ListCall(account) PROVE UNCHANGED <<now, serviceVars>>
    BY <2>1 DEF ListCall, AddToWhitelist, RemoveFromWhitelist, InitOperators, AddOperator,
         RemoveOperator
  <2>2. EnableWhitelist \/ DisableWhitelist \/ ClearWhitelist => UNCHANGED <<now, serviceVars>>
    BY DEF EnableWhitelist, DisableWhitelist, ClearWhitelist
  <2> QED  BY <2>1, <2>2 DEF ListNext
<1>3. ServiceNext => now' = now \/ Tick
  BY DEF ServiceNext, ServiceCall, AssignRole, RevokeRole, RegisterService, SetGracePeriodDuration
<1>4. now' \in Time /\ now' >= now
  <2>1. now' = now \/ Tick
    BY <1>2, <1>3
  <2> QED  BY <2>1, MaxTimeAssumption DEF AdmissionInv, Time, Tick
<1>5. ASSUME UNCHANGED serviceVars PROVE AccessTypeOK'
  BY <1>1, <1>5 DEF AdmissionInv, AccessTypeOK, ListInv, serviceVars
<1>6. ASSUME NEW seconds \in GraceInputs, SetGracePeriodDuration(seconds) PROVE AccessTypeOK'
  BY <1>1, <1>6, GraceAssumption DEF SetGracePeriodDuration, AdmissionInv, AccessTypeOK, ListInv
<1>7. ASSUME NEW account \in Account, ServiceCall(account) PROVE AccessTypeOK'
  <2>1. [registered_at |-> now, grace_period |-> gracePeriod] \in ServiceRegistration
    BY DEF AdmissionInv, AccessTypeOK, ServiceRegistration
  <2> QED
    BY <1>1, <1>7, <2>1
       DEF ServiceCall, AssignRole, RevokeRole, RegisterService, AdmissionInv, AccessTypeOK, ListInv
<1>8. AccessTypeOK'
  BY <1>2, <1>5, <1>6, <1>7 DEF ServiceNext, accessVars
<1> QED  BY <1>1, <1>4, <1>8 DEF AdmissionInv

\* Only a registration touches an account's record, and time only passes.
LEMMA GraceEnds ==
    ASSUME AdmissionInv, [ListNext \/ ServiceNext]_<<now, accessVars>>
    PROVE  GraceEndsAsAnnounced
PROOF
<1> SUFFICES ASSUME NEW account \in Account,
                    services'[account] # [registered_at |-> now, grace_period |-> gracePeriod],
                    (evaluate_outage_penalty_with_grace(account, 1) = 0)
                      # (evaluate_outage_penalty_with_grace(account, 1) = 0)'
             PROVE  /\ evaluate_outage_penalty_with_grace(account, 1) = 0
                    /\ now' >= services[account].registered_at + services[account].grace_period
  BY DEF GraceEndsAsAnnounced
<1> DEFINE record == services[account]
<1>1. record # NotRegistered => record.registered_at \in Int /\ record.grace_period \in Int
  BY DEF AdmissionInv, AccessTypeOK, ServiceRegistration, Time
<1>2. now \in Int /\ now' \in Int /\ now' >= now
  BY AdmissionKeepsInv, MaxTimeAssumption DEF AdmissionInv, Time
<1>3. services'[account] = record
  <2>1. ListNext \/ UNCHANGED accessVars => services' = services
    <3>1. ASSUME NEW other \in Account, ListCall(other) PROVE services' = services
      BY <3>1 DEF ListCall, AddToWhitelist, RemoveFromWhitelist, InitOperators, AddOperator, RemoveOperator,
           serviceVars
    <3>2. EnableWhitelist \/ DisableWhitelist \/ ClearWhitelist => services' = services
      BY DEF EnableWhitelist, DisableWhitelist, ClearWhitelist, serviceVars
    <3> QED  BY <3>1, <3>2 DEF ListNext, accessVars, serviceVars
  <2>2. ASSUME NEW other \in Account, ServiceCall(other) PROVE services'[account] = record
    <3>1. CASE RegisterService(other)
      <4>1. services \in [Account -> ServiceRegistration \cup {NotRegistered}]
        BY DEF AdmissionInv, AccessTypeOK
      <4> QED  BY <3>1, <4>1 DEF RegisterService
    <3>2. CASE ~RegisterService(other)
      BY <2>2, <3>2 DEF ServiceCall, AssignRole, RevokeRole
    <3> QED  BY <3>1, <3>2
  <2>3. ASSUME NEW seconds, SetGracePeriodDuration(seconds) PROVE services' = services
    BY <2>3 DEF SetGracePeriodDuration
  <2> QED  BY <2>1, <2>2, <2>3 DEF ServiceNext
<1>4. (evaluate_outage_penalty_with_grace(account, 1) = 0) <=>
        record # NotRegistered /\ now < record.registered_at + record.grace_period
  BY DEF evaluate_outage_penalty_with_grace, is_service_in_grace_period
<1>5. (evaluate_outage_penalty_with_grace(account, 1) = 0)' <=>
        record # NotRegistered /\ now' < record.registered_at + record.grace_period
  BY <1>3 DEF evaluate_outage_penalty_with_grace, is_service_in_grace_period
<1> HIDE DEF record
<1>6. /\ record # NotRegistered /\ now < record.registered_at + record.grace_period
      /\ ~(now' < record.registered_at + record.grace_period)
  BY <1>1, <1>2, <1>4, <1>5
<1>7. now' >= record.registered_at + record.grace_period
  BY <1>1, <1>2, <1>6
<1> QED  BY <1>4, <1>6, <1>7 DEF record

\* In the composition, the counters stay the numbers of accounts listed, nobody
\* loses admission but by name, and grace ends as announced (whitelist.rs,
\* multi_operator.rs).
THEOREM AdmissionAccounted == SatellitesSpec => AdmissionIsAccounted
PROOF
<1> DEFINE Inv == part \in {"lists", "services"} => AdmissionInv
<1>1. SatellitesInit => Inv
  BY AdmissionBegins DEF SatellitesInit
<1>2. ASSUME Inv, [SatellitesNext]_satelliteVars
      PROVE  /\ Inv'
             /\ About({"lists", "services"}) => AdmissionFollowsList /\ GraceEndsAsAnnounced
  <2>1. part' = part /\ (part \in {"lists", "services"} => [ListNext \/ ServiceNext]_<<now, accessVars>>)
    BY <1>2, StepsAreTheParts
  <2>2. part \in {"lists", "services"} =>
          AdmissionInv' /\ AdmissionFollowsList /\ GraceEndsAsAnnounced
    BY <1>2, <2>1, AdmissionKeepsInv, StepsFollowList, GraceEnds DEF AdmissionInv
  <2> QED  BY <2>1, <2>2 DEF About
<1>3. Inv => (About({"lists", "services"}) => AccessTypeOK /\ CountsMatchLists)
  BY CountersFollow DEF About, AdmissionInv
<1> QED  BY <1>1, <1>2, <1>3, PTL DEF SatellitesSpec, AdmissionIsAccounted

-----------------------------------------------------------------------------
(* Counters over windows.                                                  *)

\* How many events, of which at gives the times, fall into a stretch of time.
Seen(at, from, to) == Cardinality({i \in DOMAIN at : at[i] \in from..to})

\* One more event, now.
SeenNow(at, event) == [i \in DOMAIN at \cup {event} |-> IF i = event THEN now ELSE at[i]]

\* What a counter has to do with its events: it counts those since its window
\* opened, together with those of a shortest window before it they stay within
\* twice the limit, and so do those of any stretch as long.
CounterKept(track, at, time, limit, shortest) ==
    /\ track.start \in 0..time /\ track.count \in 0..limit
    /\ Seen(at, track.start + 1, time) <= track.count
    /\ track.count <= Seen(at, track.start, time)
    /\ Seen(at, track.start - shortest + 1, time) <= limit + track.count

BurstsBounded(at, limit, shortest) ==
    \A from \in Int : Seen(at, from, from + shortest - 1) <= 2 * limit

EventsPast(at, time) == IsFiniteSet(DOMAIN at) /\ \A i \in DOMAIN at : at[i] \in 0..time

WindowsKept(track, at, time, limit, shortest) ==
    /\ EventsPast(at, time)
    /\ IF track = NoTrack THEN DOMAIN at = {} ELSE CounterKept(track, at, time, limit, shortest)
    /\ BurstsBounded(at, limit, shortest)

LEMMA SeenType ==
    ASSUME NEW at, IsFiniteSet(DOMAIN at), NEW from, NEW to
    PROVE  /\ IsFiniteSet({i \in DOMAIN at : at[i] \in from..to})
           /\ Seen(at, from, to) \in Nat
           /\ DOMAIN at = {} => Seen(at, from, to) = 0
PROOF
<1>1. {i \in DOMAIN at : at[i] \in from..to} \subseteq DOMAIN at
  OBVIOUS
<1>2. IsFiniteSet({i \in DOMAIN at : at[i] \in from..to})
  BY <1>1, FS_Subset
<1>3. DOMAIN at = {} => {i \in DOMAIN at : at[i] \in from..to} = {}
  OBVIOUS
<1> QED  BY <1>2, <1>3, FS_CardinalityType, FS_EmptySet DEF Seen

\* A longer stretch sees more; what is to come is not seen.
LEMMA SeenMonotone ==
    ASSUME NEW at, IsFiniteSet(DOMAIN at), NEW time \in Int, \A i \in DOMAIN at : at[i] \in 0..time,
           NEW from \in Int, NEW to \in Int, NEW earlier \in Int, NEW later \in Int,
           earlier <= from, to <= later \/ time <= later
    PROVE  Seen(at, from, to) <= Seen(at, earlier, later)
PROOF
<1> DEFINE few == {i \in DOMAIN at : at[i] \in from..to}
           many == {i \in DOMAIN at : at[i] \in earlier..later}
<1>1. few \subseteq many
  OBVIOUS
<1>2. IsFiniteSet(many)
  BY SeenType
<1> HIDE DEF few, many
<1>3. Cardinality(few) <= Cardinality(many)
  BY <1>1, <1>2, FS_Subset
<1> QED  BY <1>3 DEF Seen, few, many

LEMMA SeenBackwards ==
    ASSUME NEW at, IsFiniteSet(DOMAIN at), \A i \in DOMAIN at : at[i] \in Int,
           NEW from \in Int, NEW to \in Int, to < from
    PROVE  Seen(at, from, to) = 0
PROOF
<1>1. {i \in DOMAIN at : at[i] \in from..to} = {}
  OBVIOUS
<1> QED  BY <1>1, FS_EmptySet DEF Seen

LEMMA SeenOneMore ==
    ASSUME NEW at, IsFiniteSet(DOMAIN at), NEW event, event \notin DOMAIN at, now \in Int,
           NEW from \in Int, NEW to \in Int
    PROVE  Seen(SeenNow(at, event), from, to) =
             Seen(at, from, to) + (IF now \in from..to THEN 1 ELSE 0)
PROOF
<1> DEFINE more == SeenNow(at, event)
           before == {i \in DOMAIN at : at[i] \in from..to}
           after == {i \in DOMAIN more : more[i] \in from..to}
<1>1. DOMAIN more = DOMAIN at \cup {event} /\ more[event] = now /\ \A i \in DOMAIN at : more[i] = at[i]
  BY DEF SeenNow
<1>2. after = IF now \in from..to THEN before \cup {event} ELSE before
  BY <1>1
<1>3. event \notin before /\ IsFiniteSet(before)
  BY SeenType
<1> HIDE DEF before, after, more
<1>4. Cardinality(before) \in Nat /\ Cardinality(before \cup {event}) = Cardinality(before) + 1
  BY <1>3, FS_AddElement, FS_CardinalityType
<1>5. Cardinality(after) = Cardinality(before) + (IF now \in from..to THEN 1 ELSE 0)
  BY <1>2, <1>4
<1> QED  BY <1>5 DEF Seen, before, after, more

\* Time passing opens no window and is seen by no counter.
LEMMA WindowsWait ==
    ASSUME NEW time \in Nat, NEW later \in Nat, time <= later, NEW limit \in Nat,
           NEW shortest \in Nat, NEW track, NEW at,
           WindowsKept(track, at, time, limit, shortest)
    PROVE  WindowsKept(track, at, later, limit, shortest)
PROOF
<1>1. EventsPast(at, time)
  BY DEF WindowsKept
<1>2. EventsPast(at, later)
  BY <1>1 DEF EventsPast
<1>3. ASSUME NEW from \in Int PROVE Seen(at, from, later) = Seen(at, from, time)
  <2>1. {i \in DOMAIN at : at[i] \in from..later} = {i \in DOMAIN at : at[i] \in from..time}
    BY <1>1 DEF EventsPast
  <2> QED  BY <2>1 DEF Seen
<1>4. ASSUME CounterKept(track, at, time, limit, shortest)
      PROVE  CounterKept(track, at, later, limit, shortest)
  <2>1. track.start \in 0..time
    BY <1>4 DEF CounterKept
  <2>2. track.start \in Int /\ track.start + 1 \in Int /\ track.start - shortest + 1 \in Int
    BY <2>1
  <2>3. /\ Seen(at, track.start + 1, later) = Seen(at, track.start + 1, time)
        /\ Seen(at, track.start, later) = Seen(at, track.start, time)
        /\ Seen(at, track.start - shortest + 1, later) = Seen(at, track.start - shortest + 1, time)
    BY <1>3, <2>2
  <2>4. track.start \in 0..later
    BY <2>1
  <2> QED  BY <1>4, <2>3, <2>4 DEF CounterKept
<1> QED  BY <1>2, <1>4 DEF WindowsKept

\* The two ways of counting one more event.
LEMMA CountedEitherWay ==
    ASSUME NEW track \in Track(Time) \cup {NoTrack}, now \in Time, NEW window \in Int, window > 0
    PROVE  /\ Counted(track, window) \in Track(Time)
           /\ Counted(track, window) # NoTrack
           /\ \/ /\ track = NoTrack \/ now - track.start >= window
                 /\ Counted(track, window).count = 1
                 /\ Counted(track, window).start = now
                 /\ InWindow(track, window) = 0
              \/ /\ track # NoTrack /\ now - track.start < window
                 /\ Counted(track, window).count = track.count + 1
                 /\ Counted(track, window).start = track.start
                 /\ InWindow(track, window) = track.count
PROOF
<1>1. now \in Nat
  BY MaxTimeAssumption DEF Time
<1>2. CASE track = NoTrack
  BY <1>1, <1>2 DEF Counted, InWindow, Over, Stored, Track, NoTrack
<1>3. CASE track # NoTrack
  <2>1. track \in Track(Time) /\ track.count \in Nat /\ track.start \in Nat /\ Stored(track) = track
    BY <1>3, MaxTimeAssumption DEF Track, Time, Stored
  <2>2. CASE Over(track, window)
    <3>1. Counted(track, window) = [count |-> 1, start |-> now] /\ InWindow(track, window) = 0
      BY <2>1, <2>2 DEF Counted, InWindow
    <3> QED  BY <1>1, <2>1, <2>2, <3>1 DEF Over, Track, NoTrack
  <2>3. CASE ~Over(track, window)
    <3>1. /\ Counted(track, window) = [track EXCEPT !.count = @ + 1]
          /\ InWindow(track, window) = track.count
      BY <2>1, <2>3 DEF Counted, InWindow
    <3>2. now - track.start < window
      BY <1>1, <2>1, <2>3 DEF Over
    <3> QED  BY <1>3, <2>1, <3>1, <3>2 DEF Track, NoTrack
  <2> QED  BY <2>2, <2>3
<1> QED  BY <1>2, <1>3

\* A counted event, let in below the limit.
LEMMA WindowsCount ==
    ASSUME NEW track \in Track(Time) \cup {NoTrack}, now \in Time, NEW at, NEW limit \in Nat,
           NEW shortest \in Nat, shortest > 0, NEW window \in Int, shortest <= window,
           WindowsKept(track, at, now, limit, shortest), InWindow(track, window) < limit,
           NEW event, event \notin DOMAIN at
    PROVE  WindowsKept(Counted(track, window), SeenNow(at, event), now, limit, shortest)
PROOF
<1> DEFINE more == SeenNow(at, event)
           after == Counted(track, window)
<1>1. /\ IsFiniteSet(DOMAIN at) /\ \A i \in DOMAIN at : at[i] \in 0..now
      /\ \A from \in Int : Seen(at, from, from + shortest - 1) <= 2 * limit
  BY DEF WindowsKept, EventsPast, BurstsBounded
<1>2. now \in Nat /\ now \in Int
  BY MaxTimeAssumption DEF Time
<1>3. ASSUME NEW from \in Int, NEW to \in Int
      PROVE  /\ Seen(at, from, to) \in Nat
             /\ Seen(more, from, to) = Seen(at, from, to) + (IF now \in from..to THEN 1 ELSE 0)
  <2>1. Seen(at, from, to) \in Nat
    BY <1>1, SeenType
  <2>2. Seen(more, from, to) = Seen(at, from, to) + (IF now \in from..to THEN 1 ELSE 0)
    BY <1>1, <1>2, SeenOneMore
  <2> QED  BY <2>1, <2>2
<1>4. IsFiniteSet(DOMAIN more) /\ \A i \in DOMAIN more : more[i] \in 0..now
  BY <1>1, <1>2, FS_AddElement DEF SeenNow
<1>5. ASSUME NEW from \in Int, NEW to \in Int PROVE Seen(more, from, to) \in Nat
  BY <1>4, SeenType
<1>6. /\ after \in Track(Time) /\ after # NoTrack
      /\ \/ /\ track = NoTrack \/ now - track.start >= window
            /\ after.count = 1 /\ after.start = now /\ 0 < limit
         \/ /\ track # NoTrack /\ now - track.start < window
            /\ after.count = track.count + 1 /\ after.start = track.start /\ track.count < limit
  BY CountedEitherWay
<1> HIDE DEF more, after
\* What bounds the events of the last shortest stretch bounds those of any.
<1>7. ASSUME NEW open \in Int, open <= now - shortest + 1, Seen(more, open, now) <= 2 * limit
      PROVE  BurstsBounded(more, limit, shortest)
  <2> SUFFICES ASSUME NEW from \in Int PROVE Seen(more, from, from + shortest - 1) <= 2 * limit
    BY DEF BurstsBounded
  <2> DEFINE to == from + shortest - 1
  <2>0. to \in Int
    OBVIOUS
  <2>1. CASE now \notin from..to
    <3>1. Seen(more, from, to) = Seen(at, from, to) + 0
      BY <1>3, <2>0, <2>1
    <3>2. Seen(at, from, to) \in Nat /\ Seen(at, from, to) <= 2 * limit
      BY <1>1, <1>3, <2>0
    <3> HIDE DEF to
    <3>3. Seen(more, from, to) <= 2 * limit
      BY <3>1, <3>2
    <3> QED  BY <3>3 DEF to
  <2>2. CASE now \in from..to
    <3>1. open <= from
      BY <1>2, <1>7, <2>2
    <3> HIDE DEF to
    <3>2. Seen(more, from, to) <= Seen(more, open, now)
      BY <1>2, <1>4, <1>7, <2>0, <3>1, SeenMonotone
    <3>3. Seen(more, from, to) \in Nat /\ Seen(more, open, now) \in Nat
      BY <1>2, <1>5, <1>7, <2>0
    <3>4. Seen(more, from, to) <= 2 * limit
      BY <1>7, <3>2, <3>3
    <3> QED  BY <3>4 DEF to
  <2> QED  BY <2>1, <2>2
<1>8. CASE /\ track = NoTrack \/ now - track.start >= window
           /\ after.count = 1 /\ after.start = now /\ 0 < limit
  <2> DEFINE open == now - shortest + 1
  <2>0. open \in Int /\ open <= now /\ now + 1 \in Int
    BY <1>2
  <2>1. Seen(at, open, now) <= limit
    <3>1. CASE track = NoTrack
      <4>1. Seen(at, open, now) = 0
        BY <1>1, <3>1, SeenType DEF WindowsKept
      <4> QED  BY <4>1
    <3>2. CASE track # NoTrack
      <4>1. /\ track.start \in 0..now /\ track.count \in 0..limit
            /\ Seen(at, track.start + 1, now) <= track.count
        BY <3>2 DEF WindowsKept, CounterKept
      <4>2. track.start + 1 \in Int /\ track.start + 1 <= open
        BY <1>2, <1>8, <3>2, <4>1
      <4> HIDE DEF open
      <4>3. Seen(at, open, now) <= Seen(at, track.start + 1, now)
        BY <1>1, <1>2, <2>0, <4>2, SeenMonotone
      <4>4. Seen(at, open, now) \in Nat
        BY <1>2, <1>3, <2>0
      <4>5. Seen(at, track.start + 1, now) \in Nat
        BY <1>2, <1>3, <4>2
      <4> QED  BY <4>1, <4>3, <4>4, <4>5
    <3> QED  BY <3>1, <3>2
  <2> HIDE DEF open
  <2>2. Seen(more, open, now) <= limit + 1
    <3>1. Seen(at, open, now) \in Nat /\ Seen(more, open, now) = Seen(at, open, now) + (IF now \in open..now THEN 1 ELSE 0)
      BY <1>2, <1>3, <2>0
    <3> QED  BY <2>1, <3>1
  <2>3. Seen(more, now + 1, now) = 0
    BY <1>2, <1>4, SeenBackwards
  <2>4. 1 <= Seen(more, now, now)
    <3>1. Seen(at, now, now) \in Nat /\ Seen(more, now, now) = Seen(at, now, now) + (IF now \in now..now THEN 1 ELSE 0)
      BY <1>2, <1>3
    <3> QED  BY <1>2, <3>1
  <2>5. BurstsBounded(more, limit, shortest)
    <3>1. Seen(more, open, now) \in Nat
      BY <1>2, <1>5, <2>0
    <3>2. Seen(more, open, now) <= 2 * limit
      BY <1>8, <2>2, <3>1
    <3> QED  BY <1>7, <2>0, <3>2 DEF open
  <2>6. CounterKept(after, more, now, limit, shortest)
    <3>1. after.start \in 0..now /\ after.count \in 0..limit
      BY <1>2, <1>8
    <3>2. Seen(more, after.start + 1, now) <= after.count
      BY <1>8, <2>3
    <3>3. after.count <= Seen(more, after.start, now)
      BY <1>8, <2>4
    <3>4. Seen(more, after.start - shortest + 1, now) <= limit + after.count
      BY <1>8, <2>2 DEF open
    <3> QED  BY <3>1, <3>2, <3>3, <3>4 DEF CounterKept
  <2>7. WindowsKept(after, more, now, limit, shortest)
    BY <1>4, <1>6, <2>5, <2>6, Zenon DEF WindowsKept, EventsPast
  <2> QED  BY <2>7 DEF after, more
<1>9. CASE /\ track # NoTrack /\ now - track.start < window
           /\ after.count = track.count + 1 /\ after.start = track.start /\ track.count < limit
  <2> DEFINE start == track.start
             open == start - shortest + 1
  <2>1. /\ start \in 0..now /\ track.count \in 0..limit
        /\ Seen(at, start + 1, now) <= track.count
        /\ track.count <= Seen(at, start, now)
        /\ Seen(at, open, now) <= limit + track.count
    BY <1>9 DEF WindowsKept, CounterKept
  <2>2. /\ start \in Int /\ start <= now /\ track.count \in Nat /\ start + 1 \in Int
        /\ open \in Int /\ open <= now - shortest + 1 /\ open <= now
    BY <1>2, <2>1
  <2> HIDE DEF start, open
  <2>3. /\ Seen(at, start + 1, now) \in Nat
        /\ Seen(more, start + 1, now) = Seen(at, start + 1, now) + (IF now \in (start + 1)..now THEN 1 ELSE 0)
    BY <1>2, <1>3, <2>2
  <2>4. /\ Seen(at, start, now) \in Nat
        /\ Seen(more, start, now) = Seen(at, start, now) + (IF now \in start..now THEN 1 ELSE 0)
    BY <1>2, <1>3, <2>2
  <2>5. /\ Seen(at, open, now) \in Nat
        /\ Seen(more, open, now) = Seen(at, open, now) + (IF now \in open..now THEN 1 ELSE 0)
    BY <1>2, <1>3, <2>2
  <2>6. Seen(more, start + 1, now) <= after.count
    BY <1>9, <2>1, <2>2, <2>3
  <2>7. after.count <= Seen(more, start, now)
    BY <1>2, <1>9, <2>1, <2>2, <2>4
  <2>8. Seen(more, open, now) <= limit + after.count
    BY <1>9, <2>1, <2>2, <2>5
  <2>9. BurstsBounded(more, limit, shortest)
    <3>1. Seen(more, open, now) \in Nat
      BY <1>2, <1>5, <2>2
    <3>2. Seen(more, open, now) <= 2 * limit
      BY <1>9, <2>2, <2>8, <3>1
    <3> QED  BY <1>7, <2>2, <3>2
  <2>10. CounterKept(after, more, now, limit, shortest)
    <3>1. after.count \in 0..limit
      BY <1>9, <2>2
    <3>2. after.start \in 0..now /\ after.start = start
      BY <1>9, <2>1 DEF start
    <3>3. Seen(more, after.start + 1, now) <= after.count
      BY <2>6, <3>2
    <3>4. after.count <= Seen(more, after.start, now)
      BY <2>7, <3>2
    <3>5. Seen(more, after.start - shortest + 1, now) <= limit + after.count
      BY <2>8, <3>2 DEF open
    <3> QED  BY <3>1, <3>2, <3>3, <3>4, <3>5 DEF CounterKept
  <2>11. WindowsKept(after, more, now, limit, shortest)
    BY <1>4, <1>6, <2>9, <2>10, Zenon DEF WindowsKept, EventsPast
  <2> QED  BY <2>11 DEF after, more
<1> QED  BY <1>6, <1>8, <1>9

-----------------------------------------------------------------------------
(* The submission limits.                                                  *)

\* When the counted submissions of some operators were made.
SubmittedAt(those) ==
    [i \in {k \in DOMAIN log : log[k].operator \in those} |-> log[i].at]

CommonLimit == HighestLimit("max_total")
OwnLimit == HighestLimit("max_per_operator")

SubmissionInv ==
    /\ now \in Time /\ SubmissionTypeOK
    /\ rateConfig.enabled =>
         \E input \in AcceptedRates :
             /\ rateConfig.max_total = input.max_total
             /\ rateConfig.max_per_operator = input.max_per_operator
             /\ rateConfig.window_seconds = input.window_seconds
    /\ WindowsKept(total, SubmittedAt(Operator), now, CommonLimit, ShortestWindow)
    /\ \A operator \in Operator :
         WindowsKept(tracks[operator], SubmittedAt({operator}), now, OwnLimit, ShortestWindow)

LEMMA ImageIsFinite ==
    ASSUME NEW S, IsFiniteSet(S), NEW f
    PROVE  IsFiniteSet({f[x] : x \in S})
PROOF
<1> DEFINE T == {f[x] : x \in S}
           g == [x \in S |-> f[x]]
<1>1. g \in Surjection(S, T)
  BY DEF Surjection
<1> QED  BY <1>1, FS_Surjection

\* The bounds of what may be configured are among what may be.
LEMMA RatesAreBounded ==
    /\ CommonLimit \in Nat /\ OwnLimit \in Nat /\ ShortestWindow \in Nat /\ ShortestWindow > 0
    /\ \A input \in AcceptedRates :
         /\ input.max_total <= CommonLimit /\ input.max_per_operator <= OwnLimit
         /\ ShortestWindow <= input.window_seconds
         /\ input \in SubmissionRateInput /\ input.max_total > 0 /\ input.max_per_operator > 0
         /\ input.window_seconds > 0
PROOF
<1>1. ASSUME NEW input \in AcceptedRates
      PROVE  /\ input \in SubmissionRateInput /\ input.max_total > 0 /\ input.max_per_operator > 0
             /\ input.window_seconds > 0
             /\ input.max_total \in Int /\ input.max_per_operator \in Int /\ input.window_seconds \in Int
  <2>1. /\ input \in SubmissionRateInput /\ input.max_per_operator \in 1..input.max_total
        /\ input.window_seconds > 0
    BY RateInputAssumption DEF AcceptedRates
  <2> QED  BY <2>1 DEF SubmissionRateInput
<1>2. IsFiniteSet(AcceptedRates) /\ AcceptedRates # {}
  <2>1. AcceptedRates \subseteq RateInputs
    BY DEF AcceptedRates
  <2> QED  BY <2>1, RateInputAssumption, FS_Subset
<1>3. ASSUME NEW field \in {"max_total", "max_per_operator"}
      PROVE  /\ HighestLimit(field) \in Nat
             /\ \A input \in AcceptedRates : input[field] <= HighestLimit(field)
  <2> DEFINE values == {input[field] : input \in AcceptedRates}
             value == [input \in AcceptedRates |-> input[field]]
  <2>1. IsFiniteSet(values)
    <3>1. values = {value[input] : input \in AcceptedRates}
      OBVIOUS
    <3> HIDE DEF values, value
    <3> QED  BY <1>2, <3>1, ImageIsFinite
  <2>2. values \subseteq Int /\ values # {} /\ \A bound \in values : bound > 0
    BY <1>1, <1>2, <1>3
  <2>3. Max(values) \in values /\ \A bound \in values : bound <= Max(values)
    BY <2>1, <2>2, LargestElement, Zenon
  <2> QED  BY <2>2, <2>3 DEF HighestLimit
<1>4. ShortestWindow \in Nat /\ ShortestWindow > 0
      /\ \A input \in AcceptedRates : ShortestWindow <= input.window_seconds
  <2> DEFINE values == {input.window_seconds : input \in AcceptedRates}
             value == [input \in AcceptedRates |-> input.window_seconds]
  <2>1. IsFiniteSet(values)
    <3>1. values = {value[input] : input \in AcceptedRates}
      OBVIOUS
    <3> HIDE DEF values, value
    <3> QED  BY <1>2, <3>1, ImageIsFinite
  <2>2. values \subseteq Int /\ values # {} /\ \A bound \in values : bound > 0
    BY <1>1, <1>2
  <2>3. Min(values) \in values /\ \A bound \in values : Min(values) <= bound
    BY <2>1, <2>2, LeastElement, Zenon
  <2> QED  BY <2>2, <2>3 DEF ShortestWindow
<1> QED  BY <1>1, <1>3, <1>4 DEF CommonLimit, OwnLimit

LEMMA SubmissionBegins == SubmissionInit /\ now = 0 => SubmissionInv
PROOF
<1> SUFFICES ASSUME SubmissionInit, now = 0 PROVE SubmissionInv
  OBVIOUS
<1>1. now \in Time /\ SubmissionTypeOK
  BY MaxTimeAssumption
     DEF Time, SubmissionInit, SubmissionTypeOK, init_submission_rate, SubmissionRateConfig
<1>2. ASSUME NEW those, NEW limit \in Nat
      PROVE  WindowsKept(NoTrack, SubmittedAt(those), now, limit, ShortestWindow)
  <2>1. DOMAIN SubmittedAt(those) = {}
    BY DEF SubmissionInit, SubmittedAt
  <2>2. EventsPast(SubmittedAt(those), now)
    BY <2>1, FS_EmptySet DEF EventsPast
  <2>3. BurstsBounded(SubmittedAt(those), limit, ShortestWindow)
    <3>1. \A from, to : Seen(SubmittedAt(those), from, to) = 0
      BY <2>1, FS_EmptySet, SeenType
    <3> QED  BY <3>1 DEF BurstsBounded
  <2> QED  BY <2>1, <2>2, <2>3 DEF WindowsKept
<1> QED
  BY <1>1, <1>2, RatesAreBounded DEF SubmissionInv, SubmissionInit, init_submission_rate

\* A submission is seen by the counters it concerns, and by no other.
LEMMA SubmissionIsSeen ==
    ASSUME SubmissionTypeOK, NEW those, NEW operator \in Operator,
           log' = Append(log, [operator |-> operator, at |-> now])
    PROVE  /\ Len(log) + 1 \notin DOMAIN SubmittedAt(those)
           /\ SubmittedAt(those)' =
                IF operator \in those THEN SeenNow(SubmittedAt(those), Len(log) + 1)
                  ELSE SubmittedAt(those)
PROOF
<1> DEFINE event == Len(log) + 1
           old == {k \in DOMAIN log : log[k].operator \in those}
           new == {k \in DOMAIN log' : log'[k].operator \in those}
<1>1. /\ DOMAIN log' = DOMAIN log \cup {event} /\ event \notin DOMAIN log
      /\ log'[event] = [operator |-> operator, at |-> now]
      /\ \A k \in DOMAIN log : log'[k] = log[k]
  BY DEF SubmissionTypeOK
<1> HIDE DEF event
<1>2. new = IF operator \in those THEN old \cup {event} ELSE old
  BY <1>1
<1>3. SubmittedAt(those)' = [i \in new |-> log'[i].at] /\ DOMAIN SubmittedAt(those) = old
  BY DEF SubmittedAt
<1>4. \A i \in old : log'[i].at = SubmittedAt(those)[i]
  BY <1>1 DEF SubmittedAt
<1>5. event \notin old /\ log'[event].at = now
  BY <1>1
<1>6. CASE operator \in those
  BY <1>2, <1>3, <1>4, <1>5, <1>6 DEF SeenNow, event
<1>7. CASE operator \notin those
  <2>1. SubmittedAt(those)' = [i \in old |-> SubmittedAt(those)[i]]
    BY <1>2, <1>3, <1>4, <1>7
  <2>2. SubmittedAt(those) = [i \in old |-> SubmittedAt(those)[i]]
    BY DEF SubmittedAt
  <2> QED  BY <1>3, <1>5, <1>7, <2>1, <2>2 DEF event
<1> QED  BY <1>6, <1>7

LEMMA SubmissionKeepsWindows ==
    ASSUME SubmissionInv, NEW operator \in Operator, Submit(operator)
    PROVE  SubmissionInv'
PROOF
<1>1. CASE ~rateConfig.enabled
  <2>1. UNCHANGED <<now, submissionVars>>
    BY <1>1 DEF Submit, RecordSubmission, submissionVars
  <2> QED
    BY <2>1 DEF submissionVars, SubmissionInv, SubmissionTypeOK, SubmittedAt
<1>2. CASE rateConfig.enabled
  <2>1. PICK input \in AcceptedRates :
             /\ rateConfig.max_total = input.max_total
             /\ rateConfig.max_per_operator = input.max_per_operator
             /\ rateConfig.window_seconds = input.window_seconds
    BY <1>2 DEF SubmissionInv
  <2>2. /\ tracks' = [tracks EXCEPT ![operator] = Counted(@, Window)]
        /\ total' = Counted(total, Window)
        /\ log' = Append(log, [operator |-> operator, at |-> now])
        /\ UNCHANGED <<now, rateConfig>>
        /\ InWindow(tracks[operator], Window) < rateConfig.max_per_operator
        /\ InWindow(total, Window) < rateConfig.max_total
    BY <1>2 DEF Submit, RecordSubmission, CheckSubmissionRate, get_operator_submission_count,
         get_global_submission_count, TotalAfter
  <2>3. /\ Window \in Int /\ Window > 0 /\ ShortestWindow <= Window
        /\ rateConfig.max_total <= CommonLimit /\ rateConfig.max_per_operator <= OwnLimit
        /\ rateConfig.max_total \in Int /\ rateConfig.max_per_operator \in Int
    BY <2>1, RatesAreBounded DEF Window, SubmissionInv, SubmissionTypeOK, SubmissionRateConfig
  <2>4. /\ now \in Time /\ SubmissionTypeOK
        /\ total \in Track(Time) \cup {NoTrack} /\ tracks[operator] \in Track(Time) \cup {NoTrack}
    BY DEF SubmissionInv, SubmissionTypeOK
  <2>5. Counted(total, Window) \in Track(Time) /\ Counted(tracks[operator], Window) \in Track(Time)
    BY <2>3, <2>4, CountedEitherWay
  <2>6. ASSUME NEW track \in Track(Time) \cup {NoTrack} PROVE InWindow(track, Window) \in Nat
    BY <2>6 DEF InWindow, Track, NoTrack
  <2>7. InWindow(tracks[operator], Window) < OwnLimit /\ InWindow(total, Window) < CommonLimit
    BY <2>2, <2>3, <2>4, <2>6, RatesAreBounded
  <2>8. SubmissionTypeOK'
    BY <2>2, <2>4, <2>5 DEF SubmissionTypeOK
  <2>9. WindowsKept(total, SubmittedAt(Operator), now, CommonLimit, ShortestWindow)'
    <3>1. WindowsKept(Counted(total, Window), SeenNow(SubmittedAt(Operator), Len(log) + 1), now,
                      CommonLimit, ShortestWindow)
      BY <2>2, <2>3, <2>4, <2>7, SubmissionIsSeen, WindowsCount, RatesAreBounded DEF SubmissionInv
    <3>2. SubmittedAt(Operator)' = SeenNow(SubmittedAt(Operator), Len(log) + 1)
      BY <2>2, <2>4, SubmissionIsSeen
    <3> QED  BY <2>2, <3>1, <3>2
  <2>10. ASSUME NEW other \in Operator
         PROVE  WindowsKept(tracks[other], SubmittedAt({other}), now, OwnLimit, ShortestWindow)'
    <3>1. CASE other = operator
      <4>1. WindowsKept(Counted(tracks[operator], Window), SeenNow(SubmittedAt({operator}), Len(log) + 1),
                        now, OwnLimit, ShortestWindow)
        BY <2>2, <2>3, <2>4, <2>7, SubmissionIsSeen, WindowsCount, RatesAreBounded DEF SubmissionInv
      <4>2. SubmittedAt({operator})' = SeenNow(SubmittedAt({operator}), Len(log) + 1)
        BY <2>2, <2>4, SubmissionIsSeen
      <4>3. tracks'[operator] = Counted(tracks[operator], Window)
        BY <2>2, <2>4 DEF SubmissionTypeOK
      <4> QED  BY <2>2, <3>1, <4>1, <4>2, <4>3
    <3>2. CASE other # operator
      <4>1. SubmittedAt({other})' = SubmittedAt({other})
        BY <2>2, <2>4, <3>2, SubmissionIsSeen
      <4>2. tracks'[other] = tracks[other]
        BY <2>2, <2>4, <3>2 DEF SubmissionTypeOK
      <4> QED  BY <2>2, <4>1, <4>2 DEF SubmissionInv
    <3> QED  BY <3>1, <3>2
  <2> QED  BY <2>1, <2>2, <2>4, <2>8, <2>9, <2>10 DEF SubmissionInv
<1> QED  BY <1>1, <1>2

LEMMA SubmissionKeepsInv ==
    SubmissionInv /\ [SubmissionNext]_<<now, submissionVars>> => SubmissionInv'
PROOF
<1> SUFFICES ASSUME SubmissionInv, [SubmissionNext]_<<now, submissionVars>> PROVE SubmissionInv'
  OBVIOUS
<1>1. CASE UNCHANGED <<now, submissionVars>>
  BY <1>1 DEF submissionVars, SubmissionInv, SubmissionTypeOK, SubmittedAt
<1>2. CASE Tick /\ UNCHANGED submissionVars
  <2>1. now \in Nat /\ now' \in Nat /\ now <= now' /\ now' \in Time
    BY <1>2, MaxTimeAssumption DEF Tick, SubmissionInv, Time
  <2>2. UNCHANGED <<rateConfig, tracks, total, log>>
    BY <1>2 DEF submissionVars
  <2>3. SubmissionTypeOK'
    BY <2>2 DEF SubmissionInv, SubmissionTypeOK
  <2>4. \A those : SubmittedAt(those)' = SubmittedAt(those)
    BY <2>2 DEF SubmittedAt
  <2>5. WindowsKept(total, SubmittedAt(Operator), now', CommonLimit, ShortestWindow)
    BY <2>1, WindowsWait, RatesAreBounded DEF SubmissionInv
  <2>6. ASSUME NEW operator \in Operator
        PROVE  WindowsKept(tracks[operator], SubmittedAt({operator}), now', OwnLimit, ShortestWindow)
    BY <2>1, WindowsWait, RatesAreBounded DEF SubmissionInv
  <2> QED  BY <2>1, <2>2, <2>3, <2>4, <2>5, <2>6 DEF SubmissionInv
<1>3. ASSUME UNCHANGED <<now, tracks, total, log>>, rateConfig' \in SubmissionRateConfig,
             rateConfig'.enabled =>
               \E input \in AcceptedRates :
                   /\ rateConfig'.max_total = input.max_total
                   /\ rateConfig'.max_per_operator = input.max_per_operator
                   /\ rateConfig'.window_seconds = input.window_seconds
      PROVE  SubmissionInv'
  BY <1>3 DEF SubmissionInv, SubmissionTypeOK, SubmittedAt
<1>4. CASE DisableSubmissionRate
  <2>1. rateConfig \in SubmissionRateConfig /\ rateConfig' = [rateConfig EXCEPT !.enabled = FALSE]
    BY <1>4 DEF SubmissionInv, SubmissionTypeOK, DisableSubmissionRate
  <2>2. rateConfig' \in SubmissionRateConfig /\ ~rateConfig'.enabled
    BY <2>1 DEF SubmissionRateConfig
  <2> QED  BY <1>3, <1>4, <2>2 DEF DisableSubmissionRate
<1>5. ASSUME NEW input \in RateInputs, SetSubmissionRate(input) PROVE SubmissionInv'
  <2>1. /\ input.max_per_operator > 0 /\ input.max_total > 0 /\ input.window_seconds > 0
        /\ input.max_per_operator <= input.max_total
        /\ rateConfig' = [max_per_operator |-> input.max_per_operator, max_total |-> input.max_total,
                          window_seconds |-> input.window_seconds, enabled |-> TRUE]
        /\ UNCHANGED <<now, tracks, total, log>>
    BY <1>5 DEF SetSubmissionRate
  <2>2. /\ input.max_per_operator \in Int /\ input.max_total \in Int /\ input.window_seconds \in Int
    BY RateInputAssumption DEF SubmissionRateInput
  <2>3. input \in AcceptedRates
    BY <2>1, <2>2 DEF AcceptedRates
  <2>4. rateConfig' \in SubmissionRateConfig
    BY <2>1, <2>2 DEF SubmissionRateConfig
  <2> QED  BY <1>3, <2>1, <2>3, <2>4
<1>6. ASSUME NEW operator \in Operator, Submit(operator) PROVE SubmissionInv'
  BY <1>6, SubmissionKeepsWindows
<1> QED  BY <1>1, <1>2, <1>4, <1>5, <1>6 DEF SubmissionNext

LEMMA LoggedIsSeen ==
    ASSUME NEW those, NEW from, NEW to
    PROVE  Logged(those, from, to) = Seen(SubmittedAt(those), from, to)
PROOF
<1>1. {i \in DOMAIN log : log[i].operator \in those /\ log[i].at \in from..to} =
      {i \in DOMAIN SubmittedAt(those) : SubmittedAt(those)[i] \in from..to}
  BY DEF SubmittedAt
<1> QED  BY <1>1 DEF Logged, Seen

LEMMA CountersAreExact == SubmissionInv => CountsAreExact
PROOF
<1> SUFFICES ASSUME SubmissionInv PROVE CountsAreExact
  OBVIOUS
<1>1. ASSUME NEW track, track \in Track(Time) \cup {NoTrack}, NEW those, NEW limit,
             WindowsKept(track, SubmittedAt(those), now, limit, ShortestWindow)
      PROVE  CountsSince(track, those)
  <2> SUFFICES ASSUME track # NoTrack
               PROVE  track.count \in Logged(those, track.start + 1, now)..Logged(those, track.start, now)
    BY DEF CountsSince
  <2>1. /\ IsFiniteSet(DOMAIN SubmittedAt(those))
        /\ Seen(SubmittedAt(those), track.start + 1, now) <= track.count
        /\ track.count <= Seen(SubmittedAt(those), track.start, now)
    BY <1>1 DEF WindowsKept, EventsPast, CounterKept
  <2>2. /\ Seen(SubmittedAt(those), track.start + 1, now) \in Nat
        /\ Seen(SubmittedAt(those), track.start, now) \in Nat
    BY <2>1, SeenType
  <2>3. track.count \in Nat
    BY <1>1 DEF Track
  <2>4. track.count \in Seen(SubmittedAt(those), track.start + 1, now)
                          ..Seen(SubmittedAt(those), track.start, now)
    BY <2>1, <2>2, <2>3
  <2> QED  BY <2>4, LoggedIsSeen
<1> QED  BY <1>1 DEF CountsAreExact, SubmissionInv, SubmissionTypeOK

LEMMA SubmissionBursts == SubmissionInv => BurstBound
PROOF
<1> SUFFICES ASSUME SubmissionInv, NEW from \in Time
             PROVE  /\ Logged(Operator, from, from + ShortestWindow - 1) <= 2 * CommonLimit
                    /\ \A operator \in Operator :
                         Logged({operator}, from, from + ShortestWindow - 1) <= 2 * OwnLimit
  BY DEF BurstBound, CommonLimit, OwnLimit
<1>1. from \in Int
  BY MaxTimeAssumption DEF Time
<1> QED
  BY <1>1, LoggedIsSeen DEF SubmissionInv, WindowsKept, BurstsBounded

LEMMA WindowTold == SubmissionInv => WindowIsTheOneCountedIn
PROOF
<1> SUFFICES ASSUME SubmissionInv PROVE WindowIsTheOneCountedIn
  OBVIOUS
<1>1. Window \in Nat /\ Window > 0 /\ total \in Track(Time) \cup {NoTrack} /\ now \in Nat
  BY MaxTimeAssumption
     DEF SubmissionInv, SubmissionTypeOK, SubmissionRateConfig, Window, Time
<1>2. total # NoTrack => total.start \in 0..now
  BY DEF SubmissionInv, WindowsKept, CounterKept
<1>3. CASE total = NoTrack
  BY <1>1, <1>3
     DEF WindowIsTheOneCountedIn, get_rate_window, TotalAfter, Counted, Over, Stored, NoTrack
<1>4. CASE total # NoTrack /\ Over(total, Window)
  BY <1>1, <1>4
     DEF WindowIsTheOneCountedIn, get_rate_window, TotalAfter, Counted, Stored
<1>5. CASE total # NoTrack /\ ~Over(total, Window)
  <2>1. get_rate_window = [start |-> total.start, end |-> total.start + Window]
    BY <1>5 DEF get_rate_window
  <2>2. TotalAfter.start = total.start
    BY <1>1, <1>5 DEF TotalAfter, Counted, Stored, Track
  <2>3. now - total.start < Window
    BY <1>1, <1>2, <1>5 DEF Over
  <2> QED  BY <1>1, <1>2, <1>5, <2>1, <2>2, <2>3 DEF WindowIsTheOneCountedIn
<1> QED  BY <1>3, <1>4, <1>5

\* Submissions of different operators are different submissions.
LEMMA OneOperatorMore ==
    ASSUME SubmissionInv, NEW those, NEW operator, operator \notin those, NEW from \in Int
    PROVE  Logged(those \cup {operator}, from, now) =
             Logged(those, from, now) + Logged({operator}, from, now)
PROOF
<1> DEFINE of(some) == {i \in DOMAIN log : log[i].operator \in some /\ log[i].at \in from..now}
<1>1. IsFiniteSet(DOMAIN log)
  <2>1. DOMAIN log = 1..Len(log) /\ Len(log) \in Nat
    BY DEF SubmissionInv, SubmissionTypeOK
  <2>2. 1 \in Int /\ Len(log) \in Int
    BY <2>1
  <2> QED  BY <2>1, <2>2, FS_Interval
<1>2. of(those \cup {operator}) = of(those) \cup of({operator}) /\ of(those) \cap of({operator}) = {}
  OBVIOUS
<1>3. of(those) \subseteq DOMAIN log /\ of({operator}) \subseteq DOMAIN log
  OBVIOUS
<1>4. IsFiniteSet(of(those)) /\ IsFiniteSet(of({operator}))
  BY <1>1, <1>3, FS_Subset
<1> DEFINE both == of(those \cup {operator})
           before == of(those)
           own == of({operator})
<1>5. /\ IsFiniteSet(before) /\ IsFiniteSet(own) /\ both = before \cup own /\ before \cap own = {}
      /\ Logged(those \cup {operator}, from, now) = Cardinality(both)
      /\ Logged(those, from, now) = Cardinality(before)
      /\ Logged({operator}, from, now) = Cardinality(own)
  BY <1>2, <1>4 DEF Logged
<1> HIDE DEF both, before, own
<1>6. Cardinality(before \cup own) =
        Cardinality(before) + Cardinality(own) - Cardinality(before \cap own)
  BY <1>5, FS_Union
<1>7. Cardinality(before \cap own) = 0 /\ Cardinality(before) \in Nat /\ Cardinality(own) \in Nat
  BY <1>5, FS_EmptySet, FS_CardinalityType
<1> QED  BY <1>5, <1>6, <1>7

\* The counters of operators whose windows opened after a time count no more than
\* those operators submitted since.
LEMMA CountersAddUp ==
    ASSUME SubmissionInv, NEW from \in Nat,
           NEW those, those \subseteq {operator \in Operator : tracks[operator].start > from}
    PROVE  /\ SumOver([operator \in those |-> tracks[operator].count], those)
                <= Logged(those, from + 1, now)
           /\ IsFiniteSet(those)
PROOF
<1> DEFINE count == [operator \in those |-> tracks[operator].count]
           Bad == {some \in SUBSET those : ~(SumOver(count, some) <= Logged(some, from + 1, now))}
<1>1. IsFiniteSet(those)
  BY RateInputAssumption, FS_Subset
<1>2. ASSUME NEW operator \in those
      PROVE  /\ count[operator] \in Nat
             /\ count[operator] <= Logged({operator}, from + 1, now)
             /\ Logged({operator}, from + 1, now) \in Nat
  <2> DEFINE at == SubmittedAt({operator})
             track == tracks[operator]
  <2>1. operator \in Operator /\ track.start > from
    OBVIOUS
  <2>2. track \in Track(Time) \cup {NoTrack} /\ track # NoTrack
    BY <2>1 DEF SubmissionInv, SubmissionTypeOK, NoTrack
  <2>3. /\ IsFiniteSet(DOMAIN at) /\ \A i \in DOMAIN at : at[i] \in 0..now
        /\ track.count <= Seen(at, track.start, now)
        /\ track.start \in 0..now
    BY <2>1, <2>2 DEF SubmissionInv, WindowsKept, EventsPast, CounterKept
  <2>4. track.count \in Nat /\ now \in Int /\ track.start \in Int /\ from + 1 \in Int
        /\ from + 1 <= track.start
    BY <2>1, <2>2, <2>3, MaxTimeAssumption DEF Track, SubmissionInv, Time
  <2> HIDE DEF at, track
  <2>5. Seen(at, track.start, now) <= Seen(at, from + 1, now)
    BY <2>3, <2>4, SeenMonotone
  <2>6. Seen(at, track.start, now) \in Nat /\ Seen(at, from + 1, now) \in Nat
    BY <2>3, SeenType
  <2>7. Logged({operator}, from + 1, now) = Seen(at, from + 1, now) /\ count[operator] = track.count
    BY LoggedIsSeen DEF at, track
  <2> HIDE DEF count
  <2> QED  BY <2>3, <2>4, <2>5, <2>6, <2>7
<1>3. Logged({}, from + 1, now) = 0
  <2>1. {i \in DOMAIN log : log[i].operator \in {} /\ log[i].at \in (from + 1)..now} = {}
    OBVIOUS
  <2> QED  BY <2>1, FS_EmptySet DEF Logged
<1>4. Bad = {}
  <2>1. SUFFICES ASSUME Bad # {} PROVE FALSE
    OBVIOUS
  <2>2. PICK some \in Bad : \A x \in some : some \ {x} \notin Bad
    BY <1>1, <2>1, MinimalSubset
  <2>3. CASE some = {}
    BY <1>3, <2>2, <2>3, SumEmpty
  <2>4. CASE some # {}
    <3>1. PICK operator \in some : TRUE
      BY <2>4
    <3> DEFINE rest == some \ {operator}
    <3>2. some \subseteq those /\ IsFiniteSet(some) /\ rest \notin Bad /\ rest \subseteq those
          /\ some = rest \cup {operator} /\ operator \in those /\ IsFiniteSet(rest)
      BY <1>1, <2>2, <3>1, FS_Subset
    <3>3. SumOver(count, rest) <= Logged(rest, from + 1, now)
      BY <3>2
    <3>4. ~(SumOver(count, some) <= Logged(some, from + 1, now))
      BY <2>2
    <3> HIDE DEF Bad, count
    <3>5. ASSUME NEW x \in some PROVE count[x] \in Int
      <4>1. x \in those
        BY <3>2
      <4>2. count[x] \in Nat
        BY <1>2, <4>1
      <4> QED  BY <4>2
    <3>6. SumOver(count, some) = count[operator] + SumOver(count, rest)
      BY <3>1, <3>2, <3>5, SumRemove
    <3>7. SumOver(count, rest) \in Int
      BY <3>2, <3>5, SumInt
    <3>8. Logged(some, from + 1, now) = Logged(rest, from + 1, now) + Logged({operator}, from + 1, now)
      <4>1. operator \notin rest /\ from + 1 \in Int
        OBVIOUS
      <4> HIDE DEF rest
      <4> QED  BY <3>2, <4>1, OneOperatorMore
    <3>9. Logged(rest, from + 1, now) \in Nat
      <4>1. IsFiniteSet(DOMAIN log)
        <5>1. DOMAIN log = 1..Len(log) /\ Len(log) \in Nat
          BY DEF SubmissionInv, SubmissionTypeOK
        <5>2. 1 \in Int /\ Len(log) \in Int
          BY <5>1
        <5> QED  BY <5>1, <5>2, FS_Interval
      <4>2. {i \in DOMAIN log : log[i].operator \in rest /\ log[i].at \in (from + 1)..now} \subseteq DOMAIN log
        OBVIOUS
      <4> QED  BY <4>1, <4>2, FS_Subset, FS_CardinalityType DEF Logged
    <3>10. /\ count[operator] \in Nat /\ count[operator] <= Logged({operator}, from + 1, now)
           /\ Logged({operator}, from + 1, now) \in Nat
      BY <1>2, <3>2
    <3> HIDE DEF rest
    <3> QED  BY <3>3, <3>4, <3>6, <3>7, <3>8, <3>9, <3>10
  <2> QED  BY <2>3, <2>4
<1> QED  BY <1>1, <1>4

LEMMA CountsAreSummed ==
    ASSUME NEW those
    PROVE  MapThenSumSet(LAMBDA operator : tracks[operator].count, those) =
             SumOver([operator \in those |-> tracks[operator].count], those)
PROOF
  BY Zenon DEF SumOver, MapThenSumSet, MapThenFoldSet

LEMMA TotalCovers == SubmissionInv => TotalCoversOperators
PROOF
<1> DEFINE inside == {operator \in Operator : total # NoTrack /\ tracks[operator].start > total.start}
<1> SUFFICES ASSUME SubmissionInv, inside # {}
             PROVE  MapThenSumSet(LAMBDA operator : tracks[operator].count, inside) <= total.count
  BY Zenon DEF TotalCoversOperators
<1> DEFINE at == SubmittedAt(Operator)
           count == [operator \in inside |-> tracks[operator].count]
<1>1. total # NoTrack /\ total \in Track(Time) \cup {NoTrack}
  BY DEF SubmissionInv, SubmissionTypeOK
<1>2. /\ total.start \in 0..now /\ Seen(at, total.start + 1, now) <= total.count
      /\ IsFiniteSet(DOMAIN at)
  BY <1>1 DEF SubmissionInv, WindowsKept, EventsPast, CounterKept
<1>3. total.start \in Nat /\ total.count \in Nat
  BY <1>1, <1>2 DEF Track
<1>4. inside \subseteq {operator \in Operator : tracks[operator].start > total.start}
  OBVIOUS
<1>5. SumOver(count, inside) <= Logged(inside, total.start + 1, now) /\ IsFiniteSet(inside)
  <2> HIDE DEF inside
  <2> QED  BY <1>3, <1>4, CountersAddUp
<1>6. Logged(inside, total.start + 1, now) <= Logged(Operator, total.start + 1, now)
  <2> DEFINE few == {i \in DOMAIN log : log[i].operator \in inside /\ log[i].at \in (total.start + 1)..now}
             many == {i \in DOMAIN log : log[i].operator \in Operator /\ log[i].at \in (total.start + 1)..now}
  <2>1. few \subseteq many
    OBVIOUS
  <2>2. many = {i \in DOMAIN at : at[i] \in (total.start + 1)..now}
    BY DEF SubmittedAt
  <2>3. IsFiniteSet(many)
    BY <1>2, <2>2, SeenType
  <2> HIDE DEF few, many
  <2>4. Cardinality(few) <= Cardinality(many)
    BY <2>1, <2>3, FS_Subset
  <2> QED  BY <2>4, Zenon DEF Logged, few, many
<1>7. Logged(Operator, total.start + 1, now) = Seen(at, total.start + 1, now)
  BY LoggedIsSeen
<1>8. Seen(at, total.start + 1, now) \in Nat
  BY <1>2, SeenType
<1>9. Logged(inside, total.start + 1, now) \in Nat
  <2>1. IsFiniteSet({i \in DOMAIN SubmittedAt(inside) : SubmittedAt(inside)[i] \in (total.start + 1)..now})
    <3>1. DOMAIN SubmittedAt(inside) \subseteq DOMAIN at
      BY DEF SubmittedAt
    <3>2. IsFiniteSet(DOMAIN SubmittedAt(inside))
      BY <1>2, <3>1, FS_Subset
    <3> QED  BY <3>2, SeenType
  <2> QED  BY <2>1, LoggedIsSeen, FS_CardinalityType DEF Seen
<1>10. SumOver(count, inside) \in Int
  <2>1. \A operator \in inside : count[operator] \in Int
    BY DEF SubmissionInv, SubmissionTypeOK, Track, NoTrack
  <2> HIDE DEF count, inside
  <2> QED  BY <1>5, <2>1, SumInt
<1>11. MapThenSumSet(LAMBDA operator : tracks[operator].count, inside) = SumOver(count, inside)
  BY CountsAreSummed
<1> HIDE DEF count, inside, at
<1>12. SumOver(count, inside) <= total.count
  BY <1>2, <1>3, <1>5, <1>6, <1>7, <1>8, <1>9, <1>10
<1> QED  BY <1>11, <1>12 DEF inside

LEMMA SubmissionsLimited == SubmissionInv => SubmissionLimitsHold
PROOF
  BY CountersAreExact, SubmissionBursts, WindowTold, TotalCovers
     DEF SubmissionLimitsHold, SubmissionInv

-----------------------------------------------------------------------------
(* The rate limit of a caller.                                             *)

CalledAt(caller) == [i \in {k \in DOMAIN calls : calls[k].caller = caller} |-> calls[i].at]

LargestLimit == Max({input.max_submissions : input \in AcceptedLimits})
ShortestLimitWindow == Min({input.window_seconds : input \in AcceptedLimits})

RateLimitInv ==
    /\ now \in Time /\ RateLimitTypeOK
    /\ callerLimit.enabled =>
         \E input \in AcceptedLimits : /\ callerLimit.max_submissions = input.max_submissions
                                       /\ callerLimit.window_seconds = input.window_seconds
    /\ \A caller \in Caller :
         WindowsKept(trackers[caller], CalledAt(caller), now, LargestLimit, ShortestLimitWindow)

LEMMA LimitsAreBounded ==
    /\ LargestLimit \in Nat /\ ShortestLimitWindow \in Nat /\ ShortestLimitWindow > 0
    /\ \A input \in AcceptedLimits :
         /\ input.max_submissions <= LargestLimit /\ ShortestLimitWindow <= input.window_seconds
         /\ input.max_submissions \in Nat /\ input.window_seconds \in Nat
PROOF
<1>1. ASSUME NEW input \in AcceptedLimits
      PROVE  /\ input.max_submissions \in Nat
             /\ input.window_seconds \in Nat /\ input.window_seconds > 0
  BY LimitInputAssumption DEF AcceptedLimits
<1>2. IsFiniteSet(AcceptedLimits) /\ AcceptedLimits # {}
  <2>1. AcceptedLimits \subseteq LimitInputs
    BY DEF AcceptedLimits
  <2> QED  BY <2>1, LimitInputAssumption, FS_Subset
<1>3. LargestLimit \in Nat /\ \A input \in AcceptedLimits : input.max_submissions <= LargestLimit
  <2> DEFINE values == {input.max_submissions : input \in AcceptedLimits}
             value == [input \in AcceptedLimits |-> input.max_submissions]
  <2>1. IsFiniteSet(values)
    <3>1. values = {value[input] : input \in AcceptedLimits}
      OBVIOUS
    <3> HIDE DEF values, value
    <3> QED  BY <1>2, <3>1, ImageIsFinite
  <2>2. values \subseteq Int /\ values # {} /\ \A bound \in values : bound \in Nat
    BY <1>1, <1>2
  <2>3. Max(values) \in values /\ \A bound \in values : bound <= Max(values)
    BY <2>1, <2>2, LargestElement, Zenon
  <2> QED  BY <2>2, <2>3 DEF LargestLimit
<1>4. ShortestLimitWindow \in Nat /\ ShortestLimitWindow > 0
      /\ \A input \in AcceptedLimits : ShortestLimitWindow <= input.window_seconds
  <2> DEFINE values == {input.window_seconds : input \in AcceptedLimits}
             value == [input \in AcceptedLimits |-> input.window_seconds]
  <2>1. IsFiniteSet(values)
    <3>1. values = {value[input] : input \in AcceptedLimits}
      OBVIOUS
    <3> HIDE DEF values, value
    <3> QED  BY <1>2, <3>1, ImageIsFinite
  <2>2. values \subseteq Int /\ values # {} /\ \A bound \in values : bound > 0
    BY <1>1, <1>2
  <2>3. Min(values) \in values /\ \A bound \in values : Min(values) <= bound
    BY <2>1, <2>2, LeastElement, Zenon
  <2> QED  BY <2>2, <2>3 DEF ShortestLimitWindow
<1> QED  BY <1>1, <1>3, <1>4

LEMMA RateLimitBegins == RateLimitInit /\ now = 0 => RateLimitInv
PROOF
<1> SUFFICES ASSUME RateLimitInit, now = 0 PROVE RateLimitInv
  OBVIOUS
<1>1. now \in Time /\ RateLimitTypeOK /\ ~callerLimit.enabled
  <2>1. callerLimit \in RateLimitConfig /\ ~callerLimit.enabled
    <3>1. NoLimit \in RateLimitConfig /\ ~NoLimit.enabled
      BY DEF RateLimitConfig, NoLimit
    <3>2. init_rate_limit \in RateLimitConfig /\ ~init_rate_limit.enabled
      BY SMT DEF RateLimitConfig, init_rate_limit
    <3> QED  BY <3>1, <3>2, Zenon DEF RateLimitInit
  <2>2. now \in Time
    BY MaxTimeAssumption DEF Time
  <2> QED  BY <2>1, <2>2 DEF RateLimitInit, RateLimitTypeOK, NoTrack
<1>2. ASSUME NEW caller \in Caller
      PROVE  WindowsKept(NoTrack, CalledAt(caller), now, LargestLimit, ShortestLimitWindow)
  <2>1. DOMAIN CalledAt(caller) = {}
    BY DEF RateLimitInit, CalledAt
  <2>2. EventsPast(CalledAt(caller), now)
    BY <2>1, FS_EmptySet DEF EventsPast
  <2>3. BurstsBounded(CalledAt(caller), LargestLimit, ShortestLimitWindow)
    <3>1. \A from, to : Seen(CalledAt(caller), from, to) = 0
      BY <2>1, FS_EmptySet, SeenType
    <3> QED  BY <3>1, LimitsAreBounded DEF BurstsBounded
  <2> QED  BY <2>1, <2>2, <2>3 DEF WindowsKept
<1> QED  BY <1>1, <1>2 DEF RateLimitInv, RateLimitInit

LEMMA CallIsSeen ==
    ASSUME RateLimitTypeOK, NEW caller \in Caller, NEW other \in Caller,
           calls' = Append(calls, [caller |-> caller, at |-> now])
    PROVE  /\ Len(calls) + 1 \notin DOMAIN CalledAt(other)
           /\ CalledAt(other)' =
                IF other = caller THEN SeenNow(CalledAt(other), Len(calls) + 1) ELSE CalledAt(other)
PROOF
<1> DEFINE event == Len(calls) + 1
           old == {k \in DOMAIN calls : calls[k].caller = other}
           new == {k \in DOMAIN calls' : calls'[k].caller = other}
<1>1. /\ DOMAIN calls' = DOMAIN calls \cup {event} /\ event \notin DOMAIN calls
      /\ calls'[event] = [caller |-> caller, at |-> now]
      /\ \A k \in DOMAIN calls : calls'[k] = calls[k]
  BY DEF RateLimitTypeOK
<1> HIDE DEF event
<1>2. new = IF other = caller THEN old \cup {event} ELSE old
  BY <1>1
<1>3. CalledAt(other)' = [i \in new |-> calls'[i].at] /\ DOMAIN CalledAt(other) = old
  BY DEF CalledAt
<1>4. \A i \in old : calls'[i].at = CalledAt(other)[i]
  BY <1>1 DEF CalledAt
<1>5. event \notin old /\ calls'[event].at = now
  BY <1>1
<1>6. CASE other = caller
  BY <1>2, <1>3, <1>4, <1>5, <1>6 DEF SeenNow, event
<1>7. CASE other # caller
  <2>1. CalledAt(other)' = [i \in old |-> CalledAt(other)[i]]
    BY <1>2, <1>3, <1>4, <1>7
  <2>2. CalledAt(other) = [i \in old |-> CalledAt(other)[i]]
    BY DEF CalledAt
  <2> QED  BY <1>3, <1>5, <1>7, <2>1, <2>2 DEF event
<1> QED  BY <1>6, <1>7

LEMMA CallKeepsInv ==
    ASSUME RateLimitInv, NEW caller \in Caller, LimitedCall(caller)
    PROVE  RateLimitInv'
PROOF
<1>1. CASE ~callerLimit.enabled
  <2>1. UNCHANGED <<now, callerLimit, trackers, lastAt, calls>>
    BY <1>1 DEF LimitedCall, RecordCall
  <2> QED  BY <2>1 DEF RateLimitInv, RateLimitTypeOK, CalledAt
<1>2. CASE callerLimit.enabled
  <2> DEFINE window == callerLimit.window_seconds
             track == trackers[caller]
             after == Counted(track, window)
             event == Len(calls) + 1
  <2>1. PICK input \in AcceptedLimits :
             /\ callerLimit.max_submissions = input.max_submissions
             /\ window = input.window_seconds
    BY <1>2 DEF RateLimitInv
  <2>2. /\ trackers' = [trackers EXCEPT ![caller] = after]
        /\ lastAt' = [lastAt EXCEPT ![caller] = now]
        /\ calls' = Append(calls, [caller |-> caller, at |-> now])
        /\ UNCHANGED <<now, callerLimit>>
        /\ InWindow(track, window) < callerLimit.max_submissions
    BY <1>2 DEF LimitedCall, RecordCall, CheckRateLimit
  <2>3. /\ window \in Int /\ window > 0 /\ ShortestLimitWindow <= window
        /\ callerLimit.max_submissions <= LargestLimit /\ callerLimit.max_submissions \in Int
    BY <2>1, LimitsAreBounded
  <2>4. now \in Time /\ RateLimitTypeOK /\ track \in Track(Time) \cup {NoTrack}
    BY DEF RateLimitInv, RateLimitTypeOK
  <2>5. /\ after \in Track(Time)
        /\ after.start = now \/ (after.start = track.start /\ track # NoTrack)
    BY <2>3, <2>4, CountedEitherWay
  <2>6. InWindow(track, window) < LargestLimit
    <3>1. InWindow(track, window) \in Nat
      BY <2>4 DEF InWindow, Track, NoTrack
    <3> QED  BY <2>2, <2>3, <3>1, LimitsAreBounded
  <2>7. WindowsKept(track, CalledAt(caller), now, LargestLimit, ShortestLimitWindow)
    BY DEF RateLimitInv
  <2>8. after.start <= now
    <3>1. now \in Nat
      BY <2>4, MaxTimeAssumption DEF Time
    <3> QED  BY <2>5, <2>7, <3>1 DEF WindowsKept, CounterKept
  <2>9. event \notin DOMAIN CalledAt(caller) /\ CalledAt(caller)' = SeenNow(CalledAt(caller), event)
    BY <2>2, <2>4, CallIsSeen
  <2> HIDE DEF after, track, window, event
  <2>10. WindowsKept(after, SeenNow(CalledAt(caller), event), now, LargestLimit, ShortestLimitWindow)
    BY <2>3, <2>4, <2>6, <2>7, <2>9, WindowsCount, LimitsAreBounded DEF after
  <2>11. RateLimitTypeOK'
    <3>1. trackers' \in [Caller -> Track(Time) \cup {NoTrack}] /\ lastAt' \in [Caller -> Time]
      BY <2>2, <2>4, <2>5 DEF RateLimitTypeOK
    <3>2. ASSUME NEW other \in Caller PROVE lastAt'[other] >= trackers'[other].start
      <4>1. CASE other = caller
        <5>1. lastAt'[other] = now /\ trackers'[other] = after
          BY <2>2, <2>4, <4>1 DEF RateLimitTypeOK
        <5>2. now \in Int /\ after.start \in Int
          BY <2>4, <2>5, MaxTimeAssumption DEF Time, Track
        <5> QED  BY <2>8, <5>1, <5>2
      <4>2. CASE other # caller
        BY <2>2, <2>4, <4>2 DEF RateLimitTypeOK
      <4> QED  BY <4>1, <4>2
    <3>3. calls' \in Seq([caller : Caller, at : Time])
      BY <2>2, <2>4 DEF RateLimitTypeOK
    <3> QED  BY <2>2, <2>4, <3>1, <3>2, <3>3 DEF RateLimitTypeOK
  <2>12. ASSUME NEW other \in Caller
         PROVE  WindowsKept(trackers[other], CalledAt(other), now, LargestLimit, ShortestLimitWindow)'
    <3>1. CASE other = caller
      <4>1. trackers'[other] = after
        BY <2>2, <2>4, <3>1 DEF RateLimitTypeOK
      <4> QED  BY <2>2, <2>9, <2>10, <3>1, <4>1
    <3>2. CASE other # caller
      <4>1. CalledAt(other)' = CalledAt(other)
        BY <2>2, <2>4, <3>2, CallIsSeen
      <4>2. trackers'[other] = trackers[other]
        BY <2>2, <2>4, <3>2 DEF RateLimitTypeOK
      <4> QED  BY <2>2, <4>1, <4>2 DEF RateLimitInv
    <3> QED  BY <3>1, <3>2
  <2> QED  BY <2>1, <2>2, <2>4, <2>11, <2>12 DEF RateLimitInv, window
<1> QED  BY <1>1, <1>2

LEMMA RateLimitKeepsInv ==
    RateLimitInv /\ [RateLimitNext]_<<now, callerLimitVars>> => RateLimitInv'
PROOF
<1> SUFFICES ASSUME RateLimitInv, [RateLimitNext]_<<now, callerLimitVars>> PROVE RateLimitInv'
  OBVIOUS
<1>1. CASE UNCHANGED <<now, callerLimitVars>>
  BY <1>1 DEF callerLimitVars, RateLimitInv, RateLimitTypeOK, CalledAt
<1>2. CASE Tick /\ UNCHANGED callerLimitVars
  <2>1. now \in Nat /\ now' \in Nat /\ now <= now' /\ now' \in Time
    BY <1>2, MaxTimeAssumption DEF Tick, RateLimitInv, Time
  <2>2. UNCHANGED <<callerLimit, trackers, lastAt, calls>>
    BY <1>2 DEF callerLimitVars
  <2>3. RateLimitTypeOK'
    BY <2>2 DEF RateLimitInv, RateLimitTypeOK
  <2>4. ASSUME NEW caller \in Caller
        PROVE  /\ CalledAt(caller)' = CalledAt(caller)
               /\ WindowsKept(trackers[caller], CalledAt(caller), now', LargestLimit, ShortestLimitWindow)
    BY <2>1, <2>2, WindowsWait, LimitsAreBounded DEF RateLimitInv, CalledAt
  <2> QED  BY <2>1, <2>2, <2>3, <2>4 DEF RateLimitInv
<1>3. ASSUME UNCHANGED <<now, trackers, lastAt, calls>>, callerLimit' \in RateLimitConfig,
             callerLimit'.enabled =>
               \E input \in AcceptedLimits : /\ callerLimit'.max_submissions = input.max_submissions
                                             /\ callerLimit'.window_seconds = input.window_seconds
      PROVE  RateLimitInv'
  BY <1>3 DEF RateLimitInv, RateLimitTypeOK, CalledAt
<1>4. CASE DisableRateLimit
  <2> DEFINE old == IF callerLimit = NoLimit THEN init_rate_limit ELSE callerLimit
  <2>1. old \in RateLimitConfig
    BY DEF RateLimitInv, RateLimitTypeOK, RateLimitConfig, init_rate_limit
  <2>2. callerLimit' = [old EXCEPT !.enabled = FALSE] /\ UNCHANGED <<now, trackers, lastAt, calls>>
    BY <1>4 DEF DisableRateLimit
  <2> HIDE DEF old
  <2>3. callerLimit' \in RateLimitConfig /\ ~callerLimit'.enabled
    BY <2>1, <2>2 DEF RateLimitConfig
  <2> QED  BY <1>3, <2>2, <2>3
<1>5. ASSUME NEW input \in LimitInputs, SetRateLimit(input) PROVE RateLimitInv'
  <2>1. /\ input.max_submissions # 0 /\ input.window_seconds # 0
        /\ callerLimit' = [max_submissions |-> input.max_submissions,
                           window_seconds |-> input.window_seconds, enabled |-> TRUE]
        /\ UNCHANGED <<now, trackers, lastAt, calls>>
    BY <1>5 DEF SetRateLimit
  <2>2. input.max_submissions \in Nat /\ input.window_seconds \in Nat
    BY LimitInputAssumption
  <2>3. input \in AcceptedLimits
    BY <2>1 DEF AcceptedLimits
  <2>4. callerLimit' \in RateLimitConfig
    BY <2>1, <2>2 DEF RateLimitConfig
  <2> QED  BY <1>3, <2>1, <2>3, <2>4
<1>6. ASSUME NEW caller \in Caller, LimitedCall(caller) PROVE RateLimitInv'
  BY <1>6, CallKeepsInv
<1> QED  BY <1>1, <1>2, <1>4, <1>5, <1>6 DEF RateLimitNext

LEMMA CallsAreSeen ==
    ASSUME NEW caller, NEW from, NEW to
    PROVE  LoggedBy(caller, from, to) = Seen(CalledAt(caller), from, to)
PROOF
<1>1. {i \in DOMAIN calls : calls[i].caller = caller /\ calls[i].at \in from..to} =
      {i \in DOMAIN CalledAt(caller) : CalledAt(caller)[i] \in from..to}
  BY DEF CalledAt
<1> QED  BY <1>1 DEF LoggedBy, Seen

LEMMA CallersLimited == RateLimitInv => RateLimitHolds
PROOF
<1> SUFFICES ASSUME RateLimitInv PROVE RateLimitHolds
  OBVIOUS
<1>1. now \in Nat
  BY MaxTimeAssumption DEF RateLimitInv, Time
<1>2. CallerBurstBound
  <2> SUFFICES ASSUME NEW caller \in Caller, NEW from \in Time
               PROVE  LoggedBy(caller, from, from + ShortestLimitWindow - 1) <= 2 * LargestLimit
    BY DEF CallerBurstBound, ShortestLimitWindow, LargestLimit
  <2>1. from \in Int
    BY MaxTimeAssumption DEF Time
  <2> QED
    BY <2>1, CallsAreSeen DEF RateLimitInv, WindowsKept, BurstsBounded
<1>3. ReportForecastsCheck
  <2> SUFFICES ASSUME callerLimit.enabled, NEW caller \in Caller
               PROVE
        /\ (get_submission_count(caller) < callerLimit.max_submissions) <=> CheckRateLimit(caller)
        /\ get_submission_count(caller) <= LoggedBy(caller, now - callerLimit.window_seconds + 1, now)
    BY DEF ReportForecastsCheck
  <2> DEFINE window == callerLimit.window_seconds
             track == trackers[caller]
             at == CalledAt(caller)
             opens == now - window + 1
  <2>1. window \in Nat /\ window > 0
    BY LimitsAreBounded DEF RateLimitInv
  <2>2. track \in Track(Time) \cup {NoTrack}
    BY DEF RateLimitInv, RateLimitTypeOK
  <2>3. IsFiniteSet(DOMAIN at) /\ \A i \in DOMAIN at : at[i] \in 0..now
    BY DEF RateLimitInv, WindowsKept, EventsPast
  <2>4. opens \in Int /\ now \in Int
    BY <1>1, <2>1
  <2>9. Seen(at, opens, now) \in Nat
    <3> HIDE DEF at, opens
    <3> QED  BY <2>3, SeenType, Zenon
  <2>5. InWindow(NoTrack, window) = 0
    BY <1>1, <2>1 DEF InWindow, Over, Stored, NoTrack
  <2>6. get_submission_count(caller) = InWindow(track, window)
    BY <2>5 DEF get_submission_count, NoLimit
  <2>7. CASE track = NoTrack \/ Over(track, window)
    <3>1. InWindow(track, window) = 0
      BY <2>5, <2>7 DEF InWindow, Stored
    <3>2. 0 <= Seen(at, opens, now)
      BY <2>9
    <3>3. LoggedBy(caller, opens, now) = Seen(at, opens, now)
      BY CallsAreSeen
    <3> HIDE DEF at
    <3> QED  BY <2>6, <3>1, <3>2, <3>3 DEF CheckRateLimit
  <2>8. CASE track # NoTrack /\ ~Over(track, window)
    <3>1. InWindow(track, window) = track.count
      BY <2>8 DEF InWindow, Stored
    <3>2. track.start \in 0..now /\ track.count \in Nat /\ track.count <= Seen(at, track.start, now)
      BY <2>2, <2>8 DEF RateLimitInv, WindowsKept, CounterKept, Track
    <3>3. track.start \in Int /\ opens <= track.start
      BY <1>1, <2>1, <2>8, <3>2 DEF Over
    <3> HIDE DEF at, opens, track
    <3>4. Seen(at, track.start, now) <= Seen(at, opens, now)
      BY <1>1, <2>3, <2>4, <3>3, SeenMonotone
    <3>5. Seen(at, track.start, now) \in Nat
      BY <2>3, SeenType
    <3>6. track.count <= Seen(at, opens, now)
      BY <2>9, <3>2, <3>4, <3>5
    <3>7. LoggedBy(caller, opens, now) = Seen(at, opens, now)
      BY CallsAreSeen DEF at
    <3> QED  BY <2>6, <3>1, <3>6, <3>7 DEF CheckRateLimit, opens, track
  <2> QED  BY <2>7, <2>8
<1> QED  BY <1>2, <1>3 DEF RateLimitHolds, RateLimitInv

\* For every set of rates and limits, every cap, target, step and window, the
\* limits on what is submitted, called and paid hold in the composition, and
\* the tuning recommends nothing beyond its target (submission_rate.rs,
\* rate_limit.rs, reward_cap.rs, zero_downtime_bonus.rs, adaptive_tuning.rs).
THEOREM LimitsKept == SatellitesSpec => LimitsHold
PROOF
<1>1. SatellitesInit =>
        /\ About({"submissions"}) => SubmissionInv
        /\ About({"callers"}) => RateLimitInv
        /\ About({"budget"}) => BudgetInv
        /\ About({"tuning"}) => TuningInv
  BY SubmissionBegins, RateLimitBegins, BudgetBegins, TuningBegins, Zenon DEF SatellitesInit
<1>2. ASSUME About({"submissions"}) => SubmissionInv, [SatellitesNext]_satelliteVars
      PROVE  (About({"submissions"}) => SubmissionInv)'
  <2> SUFFICES ASSUME part = "submissions", SubmissionInv PROVE SubmissionInv'
    BY <1>2, StepsAreTheParts DEF About
  <2>1. SubmissionNext \/ UNCHANGED <<now, submissionVars>>
    BY <1>2, StepsAreTheParts
  <2> QED  BY <2>1, SubmissionKeepsInv
<1>3. ASSUME About({"callers"}) => RateLimitInv, [SatellitesNext]_satelliteVars
      PROVE  (About({"callers"}) => RateLimitInv)'
  <2> SUFFICES ASSUME part = "callers", RateLimitInv PROVE RateLimitInv'
    BY <1>3, StepsAreTheParts DEF About
  <2>1. RateLimitNext \/ UNCHANGED <<now, callerLimitVars>>
    BY <1>3, StepsAreTheParts
  <2> QED  BY <2>1, RateLimitKeepsInv
<1>4. ASSUME About({"budget"}) => BudgetInv, [SatellitesNext]_satelliteVars
      PROVE  (About({"budget"}) => BudgetInv)'
  BY <1>4, StepsAreTheParts, BudgetKeepsInv DEF About
<1>5. ASSUME About({"tuning"}) => TuningInv, [SatellitesNext]_satelliteVars
      PROVE  (About({"tuning"}) => TuningInv)'
  BY <1>5, StepsAreTheParts, TuningKeepsInv DEF About
<1>6. [SatellitesNext]_satelliteVars => (About({"tuning"}) <=> About({"tuning"})')
  BY StepsAreTheParts DEF About
<1> QED
  BY <1>1, <1>2, <1>3, <1>4, <1>5, <1>6, SubmissionsLimited, CallersLimited, BudgetInvSuffices,
     RecommendedStep, RecommendationFallsShort, RecommendationLags, PTL
     DEF SatellitesSpec, LimitsHold

-----------------------------------------------------------------------------
(* Locked collateral.                                                      *)

\* What is held for each provider.
HeldBy(locks) == [provider \in Provider |->
                    IF locks[provider].state = "Locked" THEN locks[provider].amount ELSE 0]

\* The balance covers what is locked, and no lock is left with nothing in it.
LocksCovered ==
    /\ CollateralInv /\ balance \in Nat /\ foreign \in Nat /\ rescued \in Nat
    /\ \A provider \in Provider : IsLocked(provider) => records[provider].amount > 0
    /\ SumOver(HeldBy(records), Provider) <= balance

LEMMA LockedIsSummed == total_locked = SumOver(HeldBy(records), Provider)
PROOF
  BY Zenon DEF total_locked, IsLocked, lock_state, HeldBy, SumOver, MapThenSumSet, MapThenFoldSet

LEMMA HeldIsCounted ==
    ASSUME NEW locks, \A provider \in Provider : locks[provider].amount \in Nat
    PROVE  /\ \A provider \in Provider : HeldBy(locks)[provider] \in Nat
           /\ SumOver(HeldBy(locks), Provider) \in Nat
PROOF
<1>1. \A provider \in Provider : HeldBy(locks)[provider] \in Nat
  BY DEF HeldBy
<1> QED  BY <1>1, CollateralAssumption, SumNat

\* Writing one record moves the sum by what it held before and holds after.
LEMMA HeldMoves ==
    ASSUME NEW locks, NEW written, NEW provider \in Provider,
           \A p \in Provider : locks[p].amount \in Nat /\ written[p].amount \in Nat,
           \A p \in Provider \ {provider} : written[p] = locks[p]
    PROVE  SumOver(HeldBy(written), Provider) =
             SumOver(HeldBy(locks), Provider) - HeldBy(locks)[provider] + HeldBy(written)[provider]
PROOF
<1>1. \A p \in Provider : HeldBy(locks)[p] \in Int /\ HeldBy(written)[p] \in Int
  BY HeldIsCounted
<1>2. \A p \in Provider \ {provider} : HeldBy(locks)[p] = HeldBy(written)[p]
  BY DEF HeldBy
<1> QED  BY <1>1, <1>2, CollateralAssumption, SumChange

LEMMA CollateralStarts == CollateralInit => LocksCovered
PROOF
<1> SUFFICES ASSUME CollateralInit PROVE LocksCovered
  OBVIOUS
<1>1. CollateralInv /\ balance = 0 /\ foreign = 0 /\ rescued = 0
  BY CollateralBegins DEF CollateralInit
<1>2. \A provider \in Provider : records[provider].state = "Unlocked" /\ ~IsLocked(provider)
  BY DEF CollateralInit, NoLock, IsLocked, lock_state
<1>3. SumOver(HeldBy(records), Provider) = 0 * Cardinality(Provider)
  <2>1. HeldBy(records) = [provider \in Provider |-> 0]
    BY <1>2 DEF HeldBy
  <2>2. 0 \in Int /\ IsFiniteSet(Provider)
    BY CollateralAssumption
  <2>3. SumOver([provider \in Provider |-> 0], Provider) = 0 * Cardinality(Provider)
    BY <2>2, SumConstant, Zenon
  <2> QED  BY <2>1, <2>3, Zenon
<1>4. 0 * Cardinality(Provider) = 0
  BY CollateralAssumption, FS_CardinalityType
<1> QED  BY <1>1, <1>2, <1>3, <1>4 DEF LocksCovered

LEMMA LocksStayCovered ==
    ASSUME LocksCovered, [CollateralNext]_collateralVars
    PROVE  LocksCovered'
PROOF
<1>1. CollateralInv /\ CollateralInv'
  BY CollateralKeepsInv DEF LocksCovered
<1>2. \A p \in Provider : records[p].amount \in Nat /\ records'[p].amount \in Nat
  BY <1>1 DEF CollateralInv, LockRecord, NoLock
<1> DEFINE before == SumOver(HeldBy(records), Provider)
           after == SumOver(HeldBy(records'), Provider)
<1>3. before \in Nat /\ after \in Nat /\ before <= balance
  BY <1>2, HeldIsCounted DEF LocksCovered
<1>0. foreign' \in Nat
  <2>1. foreign \in Nat /\ LockInputs \subseteq Nat
    BY CollateralAssumption DEF LocksCovered
  <2>2. \/ UNCHANGED foreign
        \/ \E amount \in LockInputs :
             StrayForeign(amount) \/ \E token : RescueTokens(token, amount)
    BY Zenon DEF CollateralNext, LockCollateral, PayoutFromCollateral, ReleaseCollateral,
                 RescueSurplusCollateral, StrayTransfer, collateralVars
  <2>3. ASSUME NEW amount \in LockInputs, StrayForeign(amount) PROVE foreign' \in Nat
    BY <2>1, <2>3 DEF StrayForeign
  <2>4. ASSUME NEW amount \in LockInputs, NEW token, RescueTokens(token, amount) PROVE foreign' \in Nat
    BY <2>1, <2>4 DEF RescueTokens
  <2> QED  BY <2>1, <2>2, <2>3, <2>4
<1>4. SUFFICES /\ balance' \in Int /\ rescued' \in Nat /\ after <= balance'
               /\ \A p \in Provider : IsLocked(p)' => records'[p].amount > 0
  <2> HIDE DEF after
  <2>1. balance' \in Int /\ after <= balance' => balance' \in Nat
    BY <1>3
  <2> QED  BY <1>0, <1>1, <2>1 DEF LocksCovered, after
<1>5. balance \in Nat /\ rescued \in Nat /\ \A p \in Provider : IsLocked(p) => records[p].amount > 0
  BY DEF LocksCovered
<1>6. ASSUME NEW provider \in Provider, NEW moved \in Int, NEW held \in Int,
             balance' = balance + moved, rescued' = rescued,
             \A p \in Provider \ {provider} : records'[p] = records[p],
             HeldBy(records')[provider] = HeldBy(records)[provider] + moved,
             records'[provider].state = "Locked" => records'[provider].amount > 0
      PROVE  /\ balance' \in Int /\ rescued' \in Nat /\ after <= balance'
             /\ \A p \in Provider : IsLocked(p)' => records'[p].amount > 0
  <2>1. after = before - HeldBy(records)[provider] + HeldBy(records')[provider]
    BY <1>2, <1>6, HeldMoves
  <2>2. HeldBy(records)[provider] \in Int
    BY <1>2, HeldIsCounted
  <2> HIDE DEF before, after
  <2>3. after = before + moved
    BY <1>3, <1>6, <2>1, <2>2
  <2>4. after <= balance' /\ balance' \in Int
    BY <1>3, <1>5, <1>6, <2>3
  <2>5. \A p \in Provider : IsLocked(p)' => records'[p].amount > 0
    BY <1>5, <1>6 DEF IsLocked, lock_state
  <2> QED  BY <1>5, <1>6, <2>4, <2>5
<1>7. ASSUME NEW provider \in Provider, NEW amount \in LockInputs, NEW bps \in CoverageInputs,
             LockCollateral(provider, amount, bps)
      PROVE  /\ balance' \in Int /\ rescued' \in Nat /\ after <= balance'
             /\ \A p \in Provider : IsLocked(p)' => records'[p].amount > 0
  <2>1. /\ amount \in Int /\ amount > 0 /\ balance' = balance + amount /\ rescued' = rescued
        /\ records[provider].state # "Locked"
        /\ records' = [records EXCEPT ![provider] =
             [amount |-> amount, coverage_bps |-> bps, state |-> "Locked"]]
    BY <1>7, CollateralAssumption DEF LockCollateral, IsLocked, lock_state
  <2>2. /\ records'[provider].state = "Locked" /\ records'[provider].amount = amount
        /\ \A p \in Provider \ {provider} : records'[p] = records[p]
    BY <2>1 DEF LocksCovered, CollateralInv
  <2>3. HeldBy(records')[provider] = HeldBy(records)[provider] + amount
    BY <2>1, <2>2 DEF HeldBy
  <2> QED  BY <1>6, <2>1, <2>2, <2>3
<1>8. ASSUME NEW provider \in Provider, NEW penalty \in LockInputs,
             PayoutFromCollateral(provider, penalty)
      PROVE  /\ balance' \in Int /\ rescued' \in Nat /\ after <= balance'
             /\ \A p \in Provider : IsLocked(p)' => records'[p].amount > 0
  <2>1. /\ penalty \in Int /\ penalty > 0 /\ balance' = balance - penalty /\ rescued' = rescued
        /\ penalty <= records[provider].amount
        /\ records[provider].state = "Locked"
        /\ records[provider] \in LockRecord
    BY <1>1, <1>8, CollateralAssumption, LockedIsLockRecord
       DEF PayoutFromCollateral, VerifyCoverage, IsLocked, lock_state
  <2>2. /\ records'[provider].state =
             (IF penalty = records[provider].amount THEN "Released" ELSE "Locked")
        /\ records'[provider].amount = records[provider].amount - penalty
        /\ \A p \in Provider \ {provider} : records'[p] = records[p]
    BY <1>8, <2>1 DEF PayoutFromCollateral, LocksCovered, CollateralInv, LockRecord
  <2>3. HeldBy(records')[provider] = HeldBy(records)[provider] + (0 - penalty)
    BY <1>2, <2>1, <2>2 DEF HeldBy
  <2>4. 0 - penalty \in Int /\ balance' = balance + (0 - penalty)
    BY <1>5, <2>1
  <2>5. records'[provider].state = "Locked" => records'[provider].amount > 0
    BY <1>2, <2>1, <2>2
  <2> QED  BY <1>6, <2>1, <2>2, <2>3, <2>4, <2>5
<1>9. ASSUME NEW provider \in Provider, ReleaseCollateral(provider)
      PROVE  /\ balance' \in Int /\ rescued' \in Nat /\ after <= balance'
             /\ \A p \in Provider : IsLocked(p)' => records'[p].amount > 0
  <2>1. /\ balance' = balance - records[provider].amount /\ rescued' = rescued
        /\ records[provider].state = "Locked"
        /\ records[provider] \in LockRecord
    BY <1>1, <1>9, LockedIsLockRecord DEF ReleaseCollateral, IsLocked, lock_state
  <2>2. /\ records'[provider].state = "Released"
        /\ \A p \in Provider \ {provider} : records'[p] = records[p]
    BY <1>9, <2>1 DEF ReleaseCollateral, LocksCovered, CollateralInv, LockRecord
  <2>3. HeldBy(records')[provider] = HeldBy(records)[provider] + (0 - records[provider].amount)
    BY <1>2, <2>1, <2>2 DEF HeldBy
  <2>4. 0 - records[provider].amount \in Int
        /\ balance' = balance + (0 - records[provider].amount)
    BY <1>2, <1>5, <2>1
  <2> QED  BY <1>6, <2>1, <2>2, <2>3, <2>4
<1>10. ASSUME NEW amount \in LockInputs, RescueSurplusCollateral(amount)
       PROVE  /\ balance' \in Int /\ rescued' \in Nat /\ after <= balance'
              /\ \A p \in Provider : IsLocked(p)' => records'[p].amount > 0
  <2>1. /\ amount \in Nat /\ amount <= balance - before /\ balance' = balance - amount
        /\ rescued' = rescued + amount /\ records' = records
    BY <1>10, CollateralAssumption, LockedIsSummed DEF RescueSurplusCollateral
  <2>2. after = before
    BY <2>1
  <2>3. \A p \in Provider : IsLocked(p)' => records'[p].amount > 0
    BY <1>5, <2>1 DEF IsLocked, lock_state
  <2> HIDE DEF before, after
  <2> QED  BY <1>3, <1>5, <2>1, <2>2, <2>3
<1>11. ASSUME NEW amount \in LockInputs, StrayTransfer(amount)
       PROVE  /\ balance' \in Int /\ rescued' \in Nat /\ after <= balance'
              /\ \A p \in Provider : IsLocked(p)' => records'[p].amount > 0
  <2>1. amount \in Nat /\ balance' = balance + amount /\ rescued' = rescued /\ records' = records
    BY <1>11, CollateralAssumption DEF StrayTransfer
  <2>2. after = before
    BY <2>1
  <2>3. \A p \in Provider : IsLocked(p)' => records'[p].amount > 0
    BY <1>5, <2>1 DEF IsLocked, lock_state
  <2> HIDE DEF before, after
  <2> QED  BY <1>3, <1>5, <2>1, <2>2, <2>3
<1>12. ASSUME UNCHANGED <<records, balance, rescued>>
       PROVE  /\ balance' \in Int /\ rescued' \in Nat /\ after <= balance'
              /\ \A p \in Provider : IsLocked(p)' => records'[p].amount > 0
  <2>1. balance' = balance /\ rescued' = rescued /\ records' = records
    BY <1>12
  <2>2. after = before
    BY <2>1
  <2>3. \A p \in Provider : IsLocked(p)' => records'[p].amount > 0
    BY <1>5, <2>1 DEF IsLocked, lock_state
  <2> HIDE DEF before, after
  <2> QED  BY <1>3, <1>5, <2>1, <2>2, <2>3
<1> HIDE DEF before, after
<1> QED
  BY <1>7, <1>8, <1>9, <1>10, <1>11, <1>12
     DEF CollateralNext, StrayForeign, RescueTokens, collateralVars

LEMMA CollateralIsConserved == LocksCovered => CollateralConserved
PROOF
<1> SUFFICES ASSUME LocksCovered PROVE CollateralConserved
  OBVIOUS
<1>1. CollateralTypeOK /\ EveryLockConserved
  BY DEF LocksCovered, CollateralInv, CollateralTypeOK
<1>2. \A p \in Provider : records[p].amount \in Nat
  BY DEF LocksCovered, CollateralInv, LockRecord, NoLock
<1>3. LockedIsHeld
  BY <1>2, HeldIsCounted, LockedIsSummed DEF LocksCovered, LockedIsHeld
<1>4. LockViewsAgree
  <2> DEFINE listed == {p \in Provider : IsLocked(p)}
             amount == [p \in Provider |-> records[p].amount]
             share == [p \in Provider |-> IF p \in listed THEN amount[p] ELSE 0]
  <2>1. DOMAIN locked_amounts_by_site = listed
        /\ \A p \in listed : locked_amounts_by_site[p] = records[p].amount
    BY DEF locked_amounts_by_site
  <2>2. MapThenSumSet(LAMBDA p : locked_amounts_by_site[p], DOMAIN locked_amounts_by_site) =
          SumOver(locked_amounts_by_site, DOMAIN locked_amounts_by_site)
    BY Zenon DEF SumOver
  <2>3. listed \subseteq Provider /\ IsFiniteSet(listed)
    <3>1. listed \subseteq Provider
      OBVIOUS
    <3> QED  BY <3>1, CollateralAssumption, FS_Subset
  <2>4. SumOver(locked_amounts_by_site, listed) = SumOver(amount, listed)
    <3>1. \A p \in listed : locked_amounts_by_site[p] \in Int /\ locked_amounts_by_site[p] = amount[p]
      BY <1>2, <2>1
    <3> HIDE DEF listed, amount
    <3> QED  BY <2>3, <3>1, SumSame
  <2>5. SumOver(share, Provider) = SumOver(amount, listed)
    <3>1. \A p \in listed : amount[p] \in Int
      BY <1>2
    <3> HIDE DEF listed, amount
    <3> QED  BY <2>3, <3>1, CollateralAssumption, SumOfPart
  <2>6. share = HeldBy(records)
    BY DEF HeldBy, IsLocked, lock_state
  <2>7. \A p \in Provider : p \in listed <=> available_collateral(p) > 0
    BY <1>2 DEF LocksCovered, available_collateral
  <2> HIDE DEF listed, amount, share
  <2> QED  BY <2>1, <2>2, <2>4, <2>5, <2>6, <2>7, LockedIsSummed DEF LockViewsAgree
<1> QED  BY <1>1, <1>3, <1>4 DEF CollateralConserved

-----------------------------------------------------------------------------
(* Sequences put one behind the other, and pages.                          *)

\* A sequence of sequences put one behind the other, as far as each of them.
Joins(seqs, joined) ==
    joined = [i \in 1..Len(seqs) |-> IF i = 1 THEN seqs[i] ELSE joined[i - 1] \o seqs[i]]

\* There is one way only to join them, so FlattenSeq is the last of it.
LEMMA JoinedOneWay ==
    ASSUME NEW seqs, Len(seqs) \in Nat, NEW f, NEW g, Joins(seqs, f), Joins(seqs, g)
    PROVE  f = g
PROOF
<1> DEFINE Bad == {i \in 1..Len(seqs) : f[i] # g[i]}
<1>1. Bad = {}
  <2> SUFFICES ASSUME Bad # {} PROVE FALSE
    OBVIOUS
  <2>1. Bad \subseteq Nat
    OBVIOUS
  <2>2. PICK i \in Bad : \A k \in Bad : i <= k
    BY <2>1, LeastNatural
  <2>3. /\ f[i] = IF i = 1 THEN seqs[i] ELSE f[i - 1] \o seqs[i]
        /\ g[i] = IF i = 1 THEN seqs[i] ELSE g[i - 1] \o seqs[i]
    BY Zenon DEF Joins
  <2>4. i # 1 => i - 1 \in 1..Len(seqs) /\ ~(i <= i - 1)
    OBVIOUS
  <2>5. i # 1 => f[i - 1] = g[i - 1]
    BY <2>2, <2>4
  <2> QED  BY <2>3, <2>5
<1>2. f = [i \in 1..Len(seqs) |-> f[i]] /\ g = [i \in 1..Len(seqs) |-> g[i]]
  BY Zenon DEF Joins
<1>3. \A i \in 1..Len(seqs) : f[i] = g[i]
  BY <1>1
<1> QED  BY <1>2, <1>3, Zenon

LEMMA FlattenJoins ==
    ASSUME NEW seqs, Len(seqs) \in Nat \ {0}, NEW joined, Joins(seqs, joined)
    PROVE  FlattenSeq(seqs) = joined[Len(seqs)]
PROOF
<1> DEFINE choice == CHOOSE f : Joins(seqs, f)
<1>1. Joins(seqs, choice)
  OBVIOUS
<1>2. choice = joined
  <2> HIDE DEF choice
  <2> QED  BY <1>1, JoinedOneWay
<1>3. FlattenSeq(seqs) = choice[Len(seqs)]
  <2>1. Len(seqs) # 0
    OBVIOUS
  <2> QED  BY <2>1, Zenon DEF FlattenSeq, Joins
<1> QED  BY <1>2, <1>3

\* The smaller of two numbers.
LEMMA MinOfTwo ==
    ASSUME NEW a \in Int, NEW b \in Int
    PROVE  Min({a, b}) = IF a <= b THEN a ELSE b
PROOF
<1>1. IsFiniteSet({a, b})
  <2>1. IsFiniteSet({a}) /\ {a} \cup {b} = {a, b}
    BY FS_Singleton
  <2> QED  BY <2>1, FS_AddElement
<1>2. Min({a, b}) \in {a, b} /\ \A x \in {a, b} : Min({a, b}) <= x
  BY <1>1, LeastElement
<1> QED  BY <1>2

\* The pages of a sequence joined up to a page are the sequence up to its end.
LEMMA PagesAreCuts ==
    ASSUME NEW T, NEW s \in Seq(T), NEW size \in Nat \ {0}
    PROVE  FlattenSeq([page \in 1..(Len(s) + 1) |->
             SubSeq(s, (page - 1) * size + 1, Min({Len(s), (page - 1) * size + size}))]) = s
PROOF
<1> DEFINE n == Len(s)
           cut == [i \in 0..(n + 1) |-> IF i * size <= n THEN i * size ELSE n]
           pages == [page \in 1..(n + 1) |->
                       SubSeq(s, (page - 1) * size + 1, Min({n, (page - 1) * size + size}))]
           joined == [i \in 1..(n + 1) |-> SubSeq(s, 1, cut[i])]
<1>1. n \in Nat
  BY LenProperties
<1>2. \A i \in 0..(n + 1) : i * size \in Nat /\ cut[i] \in 0..n
  <2> SUFFICES ASSUME NEW i \in 0..(n + 1) PROVE i * size \in Nat /\ cut[i] \in 0..n
    OBVIOUS
  <2>1. i * size \in Nat
    BY <1>1
  <2> QED  BY <1>1, <2>1
<1>3. ASSUME NEW i \in 1..(n + 1)
      PROVE  /\ (i - 1) * size + size = i * size
             /\ pages[i] = SubSeq(s, (i - 1) * size + 1, cut[i])
             /\ cut[i - 1] <= cut[i]
             /\ cut[i - 1] < n => cut[i - 1] = (i - 1) * size
             /\ cut[i - 1] = n => (i - 1) * size >= n
  <2>1. i \in Int /\ i \in 0..(n + 1) /\ i - 1 \in 0..(n + 1)
    BY <1>1
  <2>2. (i - 1) * size + size = i * size /\ (i - 1) * size \in Nat /\ i * size \in Nat
    BY <1>2, <2>1
  <2>3. Min({n, (i - 1) * size + size}) = cut[i]
    BY <1>1, <2>1, <2>2, MinOfTwo
  <2>4. /\ cut[i - 1] = IF (i - 1) * size <= n THEN (i - 1) * size ELSE n
        /\ cut[i] = IF i * size <= n THEN i * size ELSE n
    BY <2>1
  <2>5. pages[i] = SubSeq(s, (i - 1) * size + 1, cut[i])
    BY <2>3
  <2> HIDE DEF cut, pages, n
  <2> QED  BY <1>1, <2>2, <2>4, <2>5
<1>4. cut[0] = 0 /\ cut[n + 1] = n
  <2>1. 0 * size = 0 /\ (n + 1) * size > n
    BY <1>1
  <2>2. 0 \in 0..(n + 1) /\ n + 1 \in 0..(n + 1) /\ (n + 1) * size \in Nat
    BY <1>1
  <2> HIDE DEF n
  <2> QED  BY <1>1, <2>1, <2>2
<1>5. ASSUME NEW i \in 1..(n + 1)
      PROVE  joined[i] = SubSeq(s, 1, cut[i - 1]) \o pages[i]
  <2>1. i \in 0..(n + 1) /\ i - 1 \in 0..(n + 1)
    BY <1>1
  <2>2. cut[i - 1] \in 0..n /\ cut[i] \in 0..n /\ cut[i - 1] <= cut[i]
    BY <1>2, <1>3, <2>1
  <2>3. joined[i] = SubSeq(s, 1, cut[i])
    OBVIOUS
  <2> HIDE DEF cut, pages, joined
  <2>4. SubSeq(s, 1, cut[i - 1]) \o SubSeq(s, cut[i - 1] + 1, cut[i]) = SubSeq(s, 1, cut[i])
    <3>1. 1 \in 1..(Len(s) + 1) /\ cut[i - 1] \in (1 - 1)..Len(s) /\ cut[i] \in cut[i - 1]..Len(s)
      BY <1>1, <2>2
    <3> QED  BY <3>1, ConcatAdjacentSubSeq
  <2>5. CASE cut[i - 1] < n
    <3>1. pages[i] = SubSeq(s, cut[i - 1] + 1, cut[i])
      BY <1>3, <2>5
    <3> QED  BY <2>3, <2>4, <3>1
  <2>6. CASE ~(cut[i - 1] < n)
    <3>1. cut[i - 1] = n /\ cut[i] = n /\ (i - 1) * size >= n
      BY <1>1, <1>3, <2>2, <2>6
    <3>2. (i - 1) * size \in Nat
      BY <1>2, <2>1
    <3>3. /\ (i - 1) * size + 1 \in Int /\ cut[i - 1] + 1 \in Int /\ cut[i] \in Int
          /\ cut[i] < (i - 1) * size + 1 /\ cut[i] < cut[i - 1] + 1
      BY <1>1, <3>1, <3>2
    <3>4. /\ SubSeq(s, (i - 1) * size + 1, cut[i]) = <<>>
          /\ SubSeq(s, cut[i - 1] + 1, cut[i]) = <<>>
      BY <3>3, SubSeqEmpty
    <3> QED  BY <1>3, <2>3, <2>4, <3>4
  <2> QED  BY <2>5, <2>6
<1>6. Joins(pages, joined)
  <2>1. Len(pages) = n + 1
    BY <1>1
  <2>2. ASSUME NEW i \in 1..(n + 1)
        PROVE  joined[i] = IF i = 1 THEN pages[i] ELSE joined[i - 1] \o pages[i]
    <3>1. CASE i = 1
      <4>1. SubSeq(s, 1, cut[i - 1]) = <<>>
        <5>1. cut[i - 1] = 0
          BY <1>4, <3>1
        <5> HIDE DEF cut
        <5>2. 0 \in Int /\ 1 \in Int /\ 0 < 1
          OBVIOUS
        <5> QED  BY <5>1, <5>2, SubSeqEmpty
      <4>2. pages[i] \in Seq(T)
        <5>1. /\ pages[i] = SubSeq(s, (i - 1) * size + 1, cut[i])
              /\ (i - 1) * size + 1 = 1 /\ cut[i] \in 0..n
          <6>1. i \in 1..(n + 1) /\ i \in 0..(n + 1)
            BY <1>1
          <6>2. i - 1 = 0 /\ 0 * size = 0 /\ 0 + 1 = 1
            BY <3>1
          <6>3. (i - 1) * size + 1 = 1
            BY <6>2, Zenon
          <6> HIDE DEF pages, cut
          <6> QED  BY <1>2, <1>3, <6>1, <6>3
        <5> HIDE DEF cut, pages
        <5>2. \A k \in 1..cut[i] : s[k] \in T
          BY <1>1, <5>1, LenProperties
        <5>3. 1 \in Int /\ cut[i] \in Int
          BY <1>1, <5>1
        <5>4. SubSeq(s, 1, cut[i]) \in Seq(T)
          BY <5>2, <5>3, SubSeqProperties
        <5> QED  BY <5>1, <5>4
      <4> HIDE DEF cut, pages, joined
      <4>3. <<>> \o pages[i] = pages[i]
        BY <4>2, ConcatEmptySeq
      <4> QED  BY <1>5, <3>1, <4>1, <4>3
    <3>2. CASE i # 1
      <4>1. i - 1 \in 1..(n + 1)
        BY <1>1, <3>2
      <4>2. joined[i - 1] = SubSeq(s, 1, cut[i - 1])
        BY <4>1
      <4> HIDE DEF cut, pages, joined
      <4> QED  BY <1>5, <3>2, <4>2
    <3> QED  BY <3>1, <3>2
  <2>3. joined = [i \in 1..(n + 1) |-> joined[i]]
    OBVIOUS
  <2> HIDE DEF joined, pages, cut
  <2> QED  BY <2>1, <2>2, <2>3, Zenon DEF Joins
<1>7. Len(pages) = n + 1 /\ n + 1 \in Nat \ {0}
  BY <1>1
<1>8. joined[n + 1] = s
  <2>1. joined[n + 1] = SubSeq(s, 1, n)
    <3>1. n + 1 \in 1..(n + 1)
      BY <1>1
    <3>2. joined[n + 1] = SubSeq(s, 1, cut[n + 1])
      BY <3>1, Zenon
    <3> QED  BY <1>4, <3>2, Zenon
  <2> QED  BY <2>1, SubSeqFull
<1>9. FlattenSeq(pages) = joined[n + 1]
  <2> HIDE DEF pages, joined, n
  <2> QED  BY <1>6, <1>7, FlattenJoins
<1> QED  BY <1>8, <1>9

\* Products of a page and a size stay within a word when the largest does.
LEMMA PageFits ==
    ASSUME NEW n \in Nat, NEW page \in 1..n, NEW size \in 1..n, NEW w \in Nat \ {0}, n * n < w
    PROVE  /\ ((page - 1) * size) % w = (page - 1) * size
           /\ ((page - 1) * size + size) % w = (page - 1) * size + size
PROOF
<1>1. page \in Nat /\ size \in Nat /\ page <= n /\ size <= n
  OBVIOUS
<1>2. /\ page * size \in Nat /\ page * size <= n * size
      /\ n * size \in Nat /\ n * size <= n * n
  <2>1. size * page \in Nat /\ size * page <= size * n /\ n * size <= n * n
    BY <1>1, ProductsGrow
  <2>2. size * page = page * size /\ size * n = n * size
    BY <1>1
  <2> QED  BY <1>1, <2>1, <2>2
<1>3. (page - 1) * size + size = page * size /\ (page - 1) * size \in Nat
  BY <1>1
<1>4. (page - 1) * size <= page * size
  BY <1>1, <1>2, <1>3
<1> DEFINE start == (page - 1) * size
           stop == page * size
           all == n * size
           square == n * n
<1>5. start \in Nat /\ stop \in Nat /\ start < w /\ stop < w
  <2>1. /\ start \in Nat /\ stop \in Nat /\ all \in Nat /\ square \in Nat
        /\ start <= stop /\ stop <= all /\ all <= square /\ square < w
    BY <1>2, <1>3, <1>4
  <2> HIDE DEF start, stop, all, square
  <2> QED  BY <2>1
<1>6. start % w = start /\ stop % w = stop
  <2> HIDE DEF start, stop
  <2> QED  BY <1>5
<1> QED  BY <1>3, <1>6

LEMMA HistoryIsPaged == outcomeList \in Seq(Outcomes) => PagesTileTheHistory
PROOF
<1> DEFINE n == Len(outcomeList)
<1> SUFFICES ASSUME outcomeList \in Seq(Outcomes), NEW size \in 1..(n + 1),
                    (n + 1) * (n + 1) < PageWord
             PROVE  FlattenSeq([page \in 1..(n + 1) |-> get_provider_disputes(page - 1, size)])
                      = outcomeList
  BY DEF PagesTileTheHistory
<1>1. size \in Nat \ {0} /\ n \in Nat /\ n + 1 \in Nat
  OBVIOUS
<1>2. FlattenSeq([page \in 1..(n + 1) |->
        SubSeq(outcomeList, (page - 1) * size + 1, Min({n, (page - 1) * size + size}))]) = outcomeList
  BY <1>1, PagesAreCuts
<1>3. ASSUME NEW page \in 1..(n + 1)
      PROVE  get_provider_disputes(page - 1, size) =
               SubSeq(outcomeList, (page - 1) * size + 1, Min({n, (page - 1) * size + size}))
  <2>1. /\ ((page - 1) * size) % PageWord = (page - 1) * size
        /\ ((page - 1) * size + size) % PageWord = (page - 1) * size + size
    <3> HIDE DEF n
    <3> QED  BY <1>1, PageFits, RecourseAssumption
  <2> QED  BY <2>1, Zenon DEF get_provider_disputes
<1>4. [page \in 1..(n + 1) |-> get_provider_disputes(page - 1, size)] =
      [page \in 1..(n + 1) |->
        SubSeq(outcomeList, (page - 1) * size + 1, Min({n, (page - 1) * size + size}))]
  <2> HIDE DEF n
  <2> QED  BY <1>3, Zenon
<1> QED  BY <1>2, <1>4, Zenon

-----------------------------------------------------------------------------
(* Recourse beside the vote.                                               *)

\* What was announced was in its time.
RecourseInv ==
    /\ now \in Time
    /\ RecourseTypeOK /\ AppealsAreNumbered
    /\ maxAppeals <= highestLimit
    /\ \A event \in recourses :
         /\ event.kind = "withdrawn" => event.at <= event.since + WITHDRAWAL_S
         /\ event.kind = "forced" => event.at >= event.since + INACTIVE_S

LEMMA RecourseBegins == RecourseInit /\ now = 0 => RecourseInv
PROOF
<1> SUFFICES ASSUME RecourseInit, now = 0 PROVE RecourseInv
  OBVIOUS
<1>1. now \in Time
  BY MaxTimeAssumption DEF Time
<1>2. <<>> \in Seq(Nat) /\ <<>> \in Seq(Outcomes) /\ 1 \in 1..MAX_APPEALS_CEILING /\ 0 <= 1
  BY EmptySeq, RecourseAssumption
<1>3. RecourseTypeOK
  BY <1>2 DEF RecourseInit, RecourseTypeOK
<1>4. [n \in 1..0 |-> n] = <<>>
  OBVIOUS
<1>5. AppealsAreNumbered
  BY <1>2, <1>4, Zenon DEF RecourseInit, AppealsAreNumbered
<1> QED  BY <1>1, <1>2, <1>3, <1>5 DEF RecourseInit, RecourseInv

\* An announcement in its time.
LEMMA AnnouncementKeepsInv ==
    ASSUME RecourseInv, NEW kind \in {"withdrawn", "forced", "appealed"},
           NEW dispute \in Contested, NEW since \in Time, Announce(kind, dispute, since),
           kind = "withdrawn" => now <= since + WITHDRAWAL_S,
           kind = "forced" => now >= since + INACTIVE_S
    PROVE  RecourseInv'
PROOF
<1> DEFINE event == [kind |-> kind, dispute_id |-> dispute, since |-> since, at |-> now]
<1>1. /\ recourses' = recourses \cup {event}
      /\ UNCHANGED <<now, appeals, maxAppeals, granted, highestLimit, outcomeList>>
  BY DEF Announce, appealVars
<1>2. event \in RecourseStep /\ event.kind = kind /\ event.since = since /\ event.at = now
  BY DEF RecourseInv, RecourseStep
<1> HIDE DEF event
<1>3. RecourseTypeOK' /\ AppealsAreNumbered'
  BY <1>1, <1>2 DEF RecourseInv, RecourseTypeOK, AppealsAreNumbered
<1> QED  BY <1>1, <1>2, <1>3 DEF RecourseInv

LEMMA RecourseKeepsInv ==
    RecourseInv /\ (RecourseNext \/ UNCHANGED <<now, recourseVars>>) => RecourseInv'
PROOF
<1> SUFFICES ASSUME RecourseInv, RecourseNext \/ UNCHANGED <<now, recourseVars>>
             PROVE  RecourseInv'
  OBVIOUS
<1>1. ASSUME now' \in Time, UNCHANGED recourseVars PROVE RecourseInv'
  BY <1>1 DEF RecourseInv, RecourseTypeOK, AppealsAreNumbered, recourseVars, appealVars
<1>2. CASE Tick /\ UNCHANGED recourseVars
  <2>1. now' \in Time
    BY <1>2, MaxTimeAssumption DEF Tick, RecourseInv, Time
  <2> QED  BY <1>1, <1>2, <2>1
<1>3. CASE UNCHANGED <<now, recourseVars>>
  BY <1>1, <1>3 DEF RecourseInv
<1>4. ASSUME NEW dispute \in Contested, NEW since \in Time,
             \/ \E votes \in 0..1 : WithdrawDispute(dispute, since, votes)
             \/ \E signers \in 2..3 : ForceSettleDispute(dispute, since, signers)
             \/ \E already \in BOOLEAN : FileAppeal(dispute, since, already)
      PROVE  RecourseInv'
  <2>1. ASSUME NEW votes, WithdrawDispute(dispute, since, votes) PROVE RecourseInv'
    BY <2>1, AnnouncementKeepsInv DEF WithdrawDispute
  <2>2. ASSUME NEW signers, ForceSettleDispute(dispute, since, signers) PROVE RecourseInv'
    BY <2>2, AnnouncementKeepsInv DEF ForceSettleDispute
  <2>3. ASSUME NEW already, FileAppeal(dispute, since, already) PROVE RecourseInv'
    BY <2>3, AnnouncementKeepsInv DEF FileAppeal
  <2> QED  BY <1>4, <2>1, <2>2, <2>3
<1> QED  BY <1>2, <1>3, <1>4 DEF RecourseNext

\* One more appeal gets the next number.
LEMMA AppealIsNumbered ==
    ASSUME RecourseInv, NEW dispute \in Contested, RecordAppeal(dispute)
    PROVE  RecourseInv'
PROOF
<1> DEFINE used == appeals[dispute]
           numbers == Append(granted[dispute], used + 1)
<1>1. /\ used \in Nat /\ used < maxAppeals /\ maxAppeals \in Nat /\ highestLimit \in Nat
      /\ maxAppeals <= highestLimit /\ granted[dispute] \in Seq(Nat)
      /\ granted[dispute] = [n \in 1..used |-> n]
      /\ appeals \in [Contested -> Nat] /\ granted \in [Contested -> Seq(Nat)]
      /\ appeals' = [appeals EXCEPT ![dispute] = used + 1]
      /\ granted' = [granted EXCEPT ![dispute] = numbers]
      /\ UNCHANGED <<now, recourses, maxAppeals, highestLimit, outcomeList>>
  BY RecourseAssumption DEF RecourseInv, RecourseTypeOK, AppealsAreNumbered, RecordAppeal
<1>2. numbers \in Seq(Nat) /\ numbers = [n \in 1..(used + 1) |-> n]
  <2>1. /\ numbers \in Seq(Nat) /\ Len(granted[dispute]) = used /\ Len(numbers) = used + 1
        /\ \A n \in 1..used : numbers[n] = n
        /\ numbers[used + 1] = used + 1
    <3>1. used + 1 \in Nat /\ Len(granted[dispute]) = used
      BY <1>1
    <3> HIDE DEF used
    <3> QED  BY <1>1, <3>1
  <2>2. ASSUME NEW n \in 1..(used + 1) PROVE numbers[n] = n
    BY <1>1, <2>1, <2>2
  <2> HIDE DEF numbers, used
  <2>3. numbers = [n \in 1..(used + 1) |-> numbers[n]]
    BY <2>1
  <2> QED  BY <2>1, <2>2, <2>3
<1> HIDE DEF numbers
<1>3. /\ appeals' \in [Contested -> Nat] /\ granted' \in [Contested -> Seq(Nat)]
      /\ appeals'[dispute] = used + 1 /\ granted'[dispute] = numbers
      /\ \A other \in Contested \ {dispute} :
           appeals'[other] = appeals[other] /\ granted'[other] = granted[other]
  BY <1>1, <1>2
<1> HIDE DEF used
<1>4. used + 1 <= highestLimit
  BY <1>1
<1>5. ASSUME NEW other \in Contested
      PROVE  granted'[other] = [n \in 1..appeals'[other] |-> n] /\ appeals'[other] <= highestLimit
  <2>1. CASE other = dispute
    BY <1>2, <1>3, <1>4, <2>1
  <2>2. CASE other # dispute
    BY <1>3, <2>2 DEF RecourseInv, AppealsAreNumbered
  <2> QED  BY <2>1, <2>2
<1>6. AppealsAreNumbered'
  BY <1>1, <1>5 DEF AppealsAreNumbered
<1>7. RecourseTypeOK'
  BY <1>1, <1>3 DEF RecourseInv, RecourseTypeOK
<1> QED  BY <1>1, <1>6, <1>7 DEF RecourseInv

LEMMA AppealsKeepInv ==
    RecourseInv /\ (AppealNext \/ ListingNext \/ UNCHANGED <<now, recourseVars>>) => RecourseInv'
PROOF
<1> SUFFICES ASSUME RecourseInv, AppealNext \/ ListingNext \/ UNCHANGED <<now, recourseVars>>
             PROVE  RecourseInv'
  OBVIOUS
<1>1. ASSUME NEW max \in AppealLimits, SetMaxAppeals(max) PROVE RecourseInv'
  <2>1. /\ max \in 1..MAX_APPEALS_CEILING /\ max \in Nat /\ maxAppeals' = max
        /\ highestLimit' = (IF max > highestLimit THEN max ELSE highestLimit)
        /\ highestLimit \in Nat
        /\ UNCHANGED <<now, recourses, appeals, granted, outcomeList>>
    BY <1>1, RecourseAssumption DEF SetMaxAppeals, RecourseInv, RecourseTypeOK
  <2>2. highestLimit' \in Nat /\ highestLimit <= highestLimit' /\ maxAppeals' <= highestLimit'
    BY <2>1
  <2>3. RecourseTypeOK'
    BY <2>1, <2>2 DEF RecourseInv, RecourseTypeOK
  <2>4. \A dispute \in Contested : appeals[dispute] <= highestLimit'
    BY <2>1, <2>2 DEF RecourseInv, RecourseTypeOK, AppealsAreNumbered
  <2>5. AppealsAreNumbered'
    BY <2>1, <2>4 DEF RecourseInv, AppealsAreNumbered
  <2> QED  BY <2>1, <2>2, <2>3, <2>5 DEF RecourseInv
<1>2. ASSUME NEW outcome \in Outcomes, ListOutcome(outcome) PROVE RecourseInv'
  <2>1. /\ outcomeList' = Append(outcomeList, outcome)
        /\ UNCHANGED <<now, recourses, appeals, maxAppeals, granted, highestLimit>>
    BY <1>2 DEF ListOutcome, appealVars
  <2>2. RecourseTypeOK' /\ AppealsAreNumbered'
    BY <2>1 DEF RecourseInv, RecourseTypeOK, AppealsAreNumbered
  <2> QED  BY <2>1, <2>2 DEF RecourseInv
<1>3. CASE UNCHANGED <<now, recourseVars>>
  BY <1>3, RecourseKeepsInv
<1> QED  BY <1>1, <1>2, <1>3, AppealIsNumbered DEF AppealNext, ListingNext

LEMMA ForcedComesLater == RecourseInv => WithdrawnBeforeForced
PROOF
<1> SUFFICES ASSUME RecourseInv, NEW one \in recourses, NEW other \in recourses,
                    one.kind = "withdrawn", other.kind = "forced", one.since <= other.since
             PROVE  one.at < other.at
  BY DEF WithdrawnBeforeForced
<1>1. /\ one.at <= one.since + WITHDRAWAL_S /\ other.at >= other.since + INACTIVE_S
      /\ one.at \in Time /\ one.since \in Time /\ other.at \in Time /\ other.since \in Time
  BY DEF RecourseInv, RecourseTypeOK, RecourseStep
<1> QED  BY <1>1, MaxTimeAssumption, RecourseAssumption DEF Time

LEMMA RefundShares == RefundLeavesAShare
PROOF
<1> SUFFICES ASSUME NEW bond \in BondInputs
             PROVE  /\ bond > 0 => Refund(bond) >= 0 /\ Refund(bond) < bond /\ Refund(bond) < AppealBond(bond)
                    /\ bond < 0 => Refund(bond) <= 0 /\ Refund(bond) > bond /\ Refund(bond) > AppealBond(bond)
  BY DEF RefundLeavesAShare
<1>1. bond \in Int
  BY RecourseAssumption
<1>2. CASE bond > 0
  <2>1. Refund(bond) = (bond * 95) \div 100
    BY <1>1, <1>2 DEF Refund
  <2>2. (bond * 95) \div 100 >= 0 /\ (bond * 95) \div 100 < bond
    BY <1>1, <1>2
  <2> QED  BY <1>1, <1>2, <2>1, <2>2 DEF AppealBond
<1>3. CASE bond < 0
  <2>1. Refund(bond) = -(((-bond) * 95) \div 100)
    BY <1>1, <1>3 DEF Refund
  <2>2. PICK size \in Nat : size = -bond
    BY <1>1, <1>3
  <2>3. (size * 95) \div 100 >= 0 /\ (size * 95) \div 100 < size
    BY <1>1, <1>3, <2>2
  <2>4. Refund(bond) = -((size * 95) \div 100)
    <3>1. -bond = size
      BY <2>2
    <3> QED  BY <2>1, <3>1, Zenon
  <2> QED  BY <1>1, <1>3, <2>2, <2>3, <2>4 DEF AppealBond
<1> QED  BY <1>1, <1>2, <1>3

-----------------------------------------------------------------------------
(* Payouts.                                                                *)

\* No claim was ever made.
NoClaims ==
    /\ windows = [claim \in Claim |-> NoWindow]
    /\ payouts = [claim \in Claim |-> <<>>]
    /\ openings = [claim \in Claim |-> 0]

\* As long as nothing is claimed the properties of claims hold at any time.
LEMMA NoClaimsNoHarm == NoClaims => ClaimsTypeOK /\ PaidOnceInTime /\ TimeLeftIsTimeToClaim
PROOF
<1> SUFFICES ASSUME NoClaims PROVE ClaimsTypeOK /\ PaidOnceInTime /\ TimeLeftIsTimeToClaim
  OBVIOUS
<1>1. ASSUME NEW claim \in Claim
      PROVE  /\ windows[claim] = NoWindow /\ payouts[claim] = <<>> /\ windows[claim].state = "Absent"
             /\ windows[claim].deadline = 0 /\ windows[claim].opened_at = 0
  BY DEF NoClaims, NoWindow
<1>2. ClaimsTypeOK
  <2>1. <<>> \in Seq(ClaimPayout) /\ 0 \in 0..MaxOpenings
    BY EmptySeq, ClaimsAssumption
  <2> QED  BY <2>1, Zenon DEF NoClaims, ClaimsTypeOK
<1>3. PaidOnceInTime
  <2>1. 0 <= 0 + (1 + MAX_EXTENSIONS) * MAX_WINDOW_S
    <3>1. (1 + MAX_EXTENSIONS) * MAX_WINDOW_S \in Nat
      BY ClaimsAssumption
    <3> QED  BY <3>1
  <2>2. \A claim \in Claim : Len(payouts[claim]) = 0 /\ DOMAIN payouts[claim] = {}
    BY <1>1
  <2> QED  BY <1>1, <2>1, <2>2 DEF PaidOnceInTime
<1>4. TimeLeftIsTimeToClaim
  <2>1. ASSUME NEW claim \in Claim PROVE ~is_claimable(claim) /\ remaining_claim_time(claim) = 0
    BY <1>1 DEF is_claimable, claim_state, remaining_claim_time
  <2> QED  BY <1>1, <2>1 DEF TimeLeftIsTimeToClaim
<1> QED  BY <1>2, <1>3, <1>4

\* Claims are about to be made in the behaviours about them, and never in others.
ClaimsKept == IF part = "claims" THEN ClaimsInv ELSE NoClaims

LEMMA ClaimsStayKept ==
    ASSUME ClaimsKept, [SatellitesNext]_satelliteVars
    PROVE  ClaimsKept' /\ [RevivedOnlyByOpening]_<<now, claimVars>>
PROOF
<1>1. CASE part = "claims"
  <2>1. ClaimsInv /\ [ClaimsNext]_<<now, claimVars>> /\ part' = "claims"
    BY <1>1, StepsAreTheParts DEF ClaimsKept
  <2> QED  BY <2>1, ClaimsKeepInv, RevivalIsOpening DEF ClaimsKept
<1>2. CASE part # "claims"
  <2>1. NoClaims /\ UNCHANGED claimVars /\ part' # "claims"
    BY <1>2, StepsAreTheParts DEF ClaimsKept
  <2>2. NoClaims'
    BY <2>1 DEF NoClaims, claimVars
  <2>3. ASSUME NEW claim \in Claim PROVE ~is_claimable(claim)'
    BY <2>2 DEF NoClaims, is_claimable, claim_state, NoWindow
  <2> QED  BY <2>1, <2>2, <2>3 DEF ClaimsKept, RevivedOnlyByOpening
<1> QED  BY <1>1, <1>2

\* For every set of claims, providers and disputes, for every amount, term and
\* length of time: each claim is paid at most once and in its window, what is
\* locked is held and adds up, a withdrawal is never later than a forced
\* settlement and refunds less than the bond, whatever its size and sign, appeals
\* are numbered within their limits, and the pages of a history within a word
\* are the history (claim_deadline.rs, collateral_lock.rs, token_rescue.rs,
\* dispute_withdrawal.rs, dispute_force_settle.rs, dispute_appeal.rs,
\* provider_dispute_history.rs).
THEOREM PayoutsCovered == SatellitesSpec => PayoutsAreCovered
PROOF
<1>1. SatellitesInit =>
        /\ ClaimsKept
        /\ About({"collateral"}) => LocksCovered
        /\ About({"recourse", "appeals", "listing"}) => RecourseInv
  BY ClaimsBegin, CollateralStarts, RecourseBegins, Zenon DEF SatellitesInit, ClaimsKept, NoClaims, ClaimsInit
<1>2. ASSUME About({"collateral"}) => LocksCovered, [SatellitesNext]_satelliteVars
      PROVE  (About({"collateral"}) => LocksCovered)'
  BY <1>2, StepsAreTheParts, LocksStayCovered DEF About
<1>3. ASSUME About({"recourse", "appeals", "listing"}) => RecourseInv, [SatellitesNext]_satelliteVars
      PROVE  (About({"recourse", "appeals", "listing"}) => RecourseInv)'
  BY <1>3, StepsAreTheParts, RecourseKeepsInv, AppealsKeepInv DEF About
<1>4. ClaimsKept => ClaimsTypeOK /\ PaidOnceInTime /\ TimeLeftIsTimeToClaim
  BY NoClaimsNoHarm, PaymentsAreInTime, TimeLeftIsTold DEF ClaimsKept, ClaimsInv
<1>5. RecourseInv =>
        /\ RecourseTypeOK /\ WithdrawnBeforeForced /\ RefundLeavesAShare
        /\ AppealsAreNumbered /\ PagesTileTheHistory
  BY ForcedComesLater, RefundShares, HistoryIsPaged DEF RecourseInv, RecourseTypeOK
<1> QED
  BY <1>1, <1>2, <1>3, <1>4, <1>5, ClaimsStayKept, CollateralIsConserved, PTL
     DEF SatellitesSpec, PayoutsAreCovered, ClaimsAreHonoured

-----------------------------------------------------------------------------
(* Outage records.                                                         *)

\* A sum by groups: every element is in the group of one label.
LEMMA SumByGroups ==
    ASSUME NEW S, IsFiniteSet(S), NEW G, IsFiniteSet(G), NEW f, NEW label,
           \A x \in S : f[x] \in Int /\ label[x] \in G
    PROVE  SumOver([g \in G |-> SumOver(f, {x \in S : label[x] = g})], G) = SumOver(f, S)
PROOF
<1> DEFINE Group(T, g) == {x \in T : label[x] = g}
           Totals(T) == [g \in G |-> SumOver(f, Group(T, g))]
           Bad == {T \in SUBSET S : SumOver(Totals(T), G) # SumOver(f, T)}
<1>1. SUFFICES ASSUME Bad # {} PROVE FALSE
  OBVIOUS
<1>2. Bad \subseteq SUBSET S
  OBVIOUS
<1>3. PICK T \in Bad : \A x \in T : T \ {x} \notin Bad
  <2> HIDE DEF Bad
  <2> QED  BY <1>1, <1>2, MinimalSubset
<1>4. T \subseteq S /\ SumOver(Totals(T), G) # SumOver(f, T) /\ IsFiniteSet(T)
  BY FS_Subset
<1>5. ASSUME NEW U, U \subseteq S, NEW g \in G
      PROVE  Totals(U)[g] = SumOver(f, Group(U, g)) /\ Totals(U)[g] \in Int
  <2>1. IsFiniteSet(Group(U, g)) /\ \A x \in Group(U, g) : f[x] \in Int
    BY <1>5, FS_Subset
  <2> HIDE DEF Group
  <2> QED  BY <2>1, SumInt
<1>6. CASE T = {}
  <2>1. \A g \in G : Group(T, g) = {}
    BY <1>6
  <2>2. Totals(T) = [g \in G |-> 0]
    <3> HIDE DEF Group
    <3> QED  BY <2>1, SumEmpty
  <2>3. 0 \in Int /\ 0 * Cardinality(G) = 0
    BY FS_CardinalityType
  <2>4. SumOver([g \in G |-> 0], G) = 0 * Cardinality(G)
    BY <2>3, SumConstant, Zenon
  <2>5. SumOver(f, T) = 0
    BY <1>6, SumEmpty
  <2> HIDE DEF Totals
  <2> QED  BY <1>4, <2>2, <2>3, <2>4, <2>5, Zenon
<1>7. CASE T # {}
  <2>1. PICK x \in T : TRUE
    BY <1>7
  <2> DEFINE U == T \ {x}
             here == label[x]
  <2>2. /\ U \subseteq S /\ IsFiniteSet(U) /\ x \notin U /\ U \cup {x} = T /\ here \in G /\ f[x] \in Int
        /\ SumOver(Totals(U), G) = SumOver(f, U)
    <3>1. U \subseteq S /\ x \notin U /\ U \cup {x} = T /\ here \in G /\ f[x] \in Int /\ U \notin Bad
      BY <1>3, <1>4
    <3>2. IsFiniteSet(U)
      BY <3>1, FS_Subset
    <3> QED  BY <3>1, <3>2
  <2>3. \A g \in G \ {here} : Group(T, g) = Group(U, g)
    OBVIOUS
  <2>4. Group(T, here) = Group(U, here) \cup {x} /\ x \notin Group(U, here)
        /\ IsFiniteSet(Group(U, here)) /\ \A y \in Group(U, here) \cup {x} : f[y] \in Int
    <3>1. Group(U, here) \subseteq U
      OBVIOUS
    <3> QED  BY <1>4, <2>2, <3>1, FS_Subset
  <2>5. SumOver(f, T) = f[x] + SumOver(f, U) /\ SumOver(f, U) \in Int
    <3>1. \A y \in U \cup {x} : f[y] \in Int
      BY <2>2
    <3> HIDE DEF U
    <3> QED  BY <2>2, <3>1, SumAdd, SumInt
  <2> HIDE DEF Group, U, here
  <2>6. SumOver(f, Group(T, here)) = f[x] + SumOver(f, Group(U, here))
    BY <2>4, SumAdd
  <2>7. /\ \A g \in G : Totals(T)[g] \in Int /\ Totals(U)[g] \in Int
        /\ \A g \in G \ {here} : Totals(U)[g] = Totals(T)[g]
        /\ Totals(T)[here] = f[x] + Totals(U)[here]
    <3>1. \A g \in G : /\ Totals(T)[g] = SumOver(f, Group(T, g)) /\ Totals(T)[g] \in Int
                       /\ Totals(U)[g] = SumOver(f, Group(U, g)) /\ Totals(U)[g] \in Int
      BY <1>4, <1>5, <2>2
    <3> HIDE DEF Totals
    <3> QED  BY <2>2, <2>3, <2>6, <3>1
  <2> HIDE DEF Totals
  <2>8. SumOver(Totals(T), G) = SumOver(Totals(U), G) - Totals(U)[here] + Totals(T)[here]
    BY <2>2, <2>7, SumChange
  <2>9. Totals(U)[here] \in Int
    BY <2>2, <2>7
  <2> QED  BY <1>4, <2>2, <2>5, <2>7, <2>8, <2>9
<1> QED  BY <1>6, <1>7

-----------------------------------------------------------------------------
(* Correlated outages.                                                     *)

Above(outage) == IF ParentOf(outage) = NoParent THEN outage ELSE ParentOf(outage)

\* f is the walk from an outage, up to a height.
Walk(f, outage, height) ==
    f = [d \in 0..height |->
           IF d = 0 THEN outage
             ELSE LET below == f[d - 1]
                  IN  IF ParentOf(below) = NoParent THEN below ELSE ParentOf(below)]

LEMMA WalkStep ==
    ASSUME NEW f, NEW outage, NEW height \in Nat, Walk(f, outage, height)
    PROVE  /\ f[0] = outage
           /\ \A d \in 1..height : f[d] = Above(f[d - 1])
PROOF
<1>1. \A d \in 0..height : f[d] = IF d = 0 THEN outage ELSE Above(f[d - 1])
  BY Zenon DEF Walk, Above
<1>2. 0 \in 0..height /\ \A d \in 1..height : d \in 0..height /\ d # 0
  OBVIOUS
<1> QED  BY <1>1, <1>2, Zenon

LEMMA WalkExists ==
    ASSUME NEW outage, NEW height \in Nat
    PROVE  \E f : Walk(f, outage, height)
PROOF
<1> DEFINE Bad == {d \in Nat : ~\E f : Walk(f, outage, d)}
<1>1. SUFFICES ASSUME Bad # {} PROVE FALSE
  OBVIOUS
<1>2. PICK n \in Bad : \A k \in Bad : n <= k
  <2>1. Bad \subseteq Nat
    OBVIOUS
  <2> HIDE DEF Bad
  <2> QED  BY <1>1, <2>1, LeastNatural
<1>3. n \in Nat /\ ~\E f : Walk(f, outage, n)
  OBVIOUS
<1>4. CASE n = 0
  <2> DEFINE f == [d \in 0..0 |-> outage]
  <2>1. \A d \in 0..0 : d = 0
    OBVIOUS
  <2>2. Walk(f, outage, 0)
    BY <2>1, Zenon DEF Walk
  <2> QED  BY <1>3, <1>4, <2>2
<1>5. CASE n # 0
  <2>1. n - 1 \in Nat /\ n - 1 \notin Bad
    BY <1>2, <1>3, <1>5
  <2>2. PICK f : Walk(f, outage, n - 1)
    BY <2>1
  <2> DEFINE g == [d \in 0..n |-> IF d = n THEN Above(f[n - 1]) ELSE f[d]]
  <2>3. f[0] = outage /\ \A d \in 1..(n - 1) : f[d] = Above(f[d - 1])
    BY <2>1, <2>2, WalkStep
  <2>4. ASSUME NEW d \in 0..n PROVE g[d] = IF d = 0 THEN outage ELSE Above(g[d - 1])
    <3>1. CASE d = 0
      BY <1>3, <1>5, <2>3, <3>1
    <3>2. CASE d = n
      <4>1. g[n] = Above(f[n - 1]) /\ g[n - 1] = f[n - 1]
        BY <1>3, <1>5
      <4> QED  BY <1>5, <3>2, <4>1
    <3>3. CASE d # 0 /\ d # n
      <4>1. d \in 1..(n - 1) /\ d - 1 \in 0..n /\ d - 1 # n
        BY <1>3, <3>3
      <4>2. g[d] = f[d] /\ g[d - 1] = f[d - 1]
        BY <3>3, <4>1
      <4> QED  BY <2>3, <3>3, <4>1, <4>2
    <3> QED  BY <3>1, <3>2, <3>3
  <2>5. g = [d \in 0..n |-> g[d]]
    OBVIOUS
  <2> HIDE DEF g
  <2>6. g = [d \in 0..n |-> IF d = 0 THEN outage ELSE Above(g[d - 1])]
    BY <2>4, <2>5, Zenon
  <2>7. Walk(g, outage, n)
    BY <2>6, Zenon DEF Walk, Above
  <2> QED  BY <1>3, <2>7
<1> QED  BY <1>4, <1>5

\* Walks from one outage agree as far as both go.
LEMMA WalksAgree ==
    ASSUME NEW f, NEW g, NEW outage, NEW height \in Nat, NEW deeper \in Nat, height <= deeper,
           Walk(f, outage, height), Walk(g, outage, deeper)
    PROVE  \A d \in 0..height : f[d] = g[d]
PROOF
<1> DEFINE Bad == {d \in 0..height : f[d] # g[d]}
<1>1. SUFFICES ASSUME Bad # {} PROVE FALSE
  OBVIOUS
<1>2. PICK n \in Bad : \A k \in Bad : n <= k
  <2>1. Bad \subseteq Nat
    OBVIOUS
  <2> HIDE DEF Bad
  <2> QED  BY <1>1, <2>1, LeastNatural
<1>3. n \in 0..height /\ f[n] # g[n] /\ n \in Nat
  OBVIOUS
<1>4. f[0] = outage /\ g[0] = outage
  BY WalkStep
<1>5. n # 0 /\ n - 1 \in 0..height /\ n \in 1..height /\ n \in 1..deeper
  BY <1>3, <1>4
<1>6. f[n - 1] = g[n - 1]
  BY <1>2, <1>3, <1>5
<1>7. f[n] = Above(f[n - 1]) /\ g[n] = Above(g[n - 1])
  BY <1>5, WalkStep
<1> QED  BY <1>3, <1>6, <1>7

LEMMA ClimbIsWalk ==
    ASSUME NEW f, NEW outage, NEW height \in Nat, Walk(f, outage, height)
    PROVE  Climb(outage, height) = f[height]
PROOF
<1> DEFINE choice == CHOOSE h : Walk(h, outage, height)
<1>1. Walk(choice, outage, height)
  OBVIOUS
<1>2. Climb(outage, height) = choice[height]
  BY Zenon DEF Climb, Walk
<1> HIDE DEF choice
<1>3. height \in 0..height /\ height <= height
  OBVIOUS
<1>4. choice[height] = f[height]
  BY <1>1, <1>3, WalksAgree
<1> QED  BY <1>2, <1>4

\* One step more is a step up from where the climb was.
LEMMA ClimbOneMore ==
    ASSUME NEW outage, NEW height \in Nat
    PROVE  /\ Climb(outage, 0) = outage
           /\ Climb(outage, height + 1) = Above(Climb(outage, height))
PROOF
<1>0. height + 1 \in Nat
  OBVIOUS
<1>1. PICK f : Walk(f, outage, height)
  BY WalkExists
<1>2. PICK g : Walk(g, outage, height + 1)
  BY <1>0, WalkExists
<1>3. PICK h : Walk(h, outage, 0)
  BY WalkExists
<1>4. height + 1 \in Nat /\ height + 1 \in 1..(height + 1) /\ height <= height + 1 /\ (height + 1) - 1 = height
      /\ height \in 0..height
  OBVIOUS
<1>5. g[height + 1] = Above(g[height]) /\ h[0] = outage
  BY <1>2, <1>3, <1>4, WalkStep
<1>6. f[height] = g[height]
  BY <1>1, <1>2, <1>4, WalksAgree
<1>7. Climb(outage, height) = f[height] /\ Climb(outage, height + 1) = g[height + 1] /\ Climb(outage, 0) = h[0]
  BY <1>1, <1>2, <1>3, <1>4, ClimbIsWalk
<1> QED  BY <1>5, <1>6, <1>7

\* A climb begins with its first step.
LEMMA ClimbFromAbove ==
    ASSUME NEW outage, NEW height \in Nat
    PROVE  Climb(outage, height + 1) = Climb(Above(outage), height)
PROOF
<1> DEFINE Bad == {d \in Nat : Climb(outage, d + 1) # Climb(Above(outage), d)}
<1>1. SUFFICES ASSUME Bad # {} PROVE FALSE
  OBVIOUS
<1>2. PICK n \in Bad : \A k \in Bad : n <= k
  <2>1. Bad \subseteq Nat
    OBVIOUS
  <2> HIDE DEF Bad
  <2> QED  BY <1>1, <2>1, LeastNatural
<1>3. n \in Nat /\ Climb(outage, n + 1) # Climb(Above(outage), n)
  OBVIOUS
<1>4. CASE n = 0
  <2>1. Climb(outage, 0 + 1) = Above(outage) /\ Climb(Above(outage), 0) = Above(outage)
    BY ClimbOneMore
  <2> QED  BY <1>3, <1>4, <2>1
<1>5. CASE n # 0
  <2>1. PICK m \in Nat : n = m + 1
    <3>1. n - 1 \in Nat /\ n = (n - 1) + 1
      BY <1>3, <1>5
    <3> QED  BY <3>1
  <2>2. m \notin Bad
    BY <1>2, <2>1
  <2>3. Climb(outage, m + 1) = Climb(Above(outage), m)
    BY <2>1, <2>2
  <2>4. /\ Climb(outage, n + 1) = Above(Climb(outage, n))
        /\ Climb(Above(outage), m + 1) = Above(Climb(Above(outage), m))
    BY <1>3, <2>1, ClimbOneMore
  <2> QED  BY <1>3, <2>1, <2>3, <2>4
<1> QED  BY <1>4, <1>5

\* The parents descend in rank: a child is above its parent.
Ranked(rank) ==
    /\ rank \in [Tagged -> Nat]
    /\ \A outage \in Tagged : ParentOf(outage) # NoParent => rank[ParentOf(outage)] < rank[outage]

LEMMA TagTypes ==
    ASSUME CorrelationTypeOK, NEW outage \in Tagged
    PROVE  /\ ParentOf(outage) \in Tagged \cup {NoParent} /\ Above(outage) \in Tagged
           /\ IsTagged(outage) => tags[outage].downtime_seconds \in Nat
           /\ ParentOf(outage) # NoParent => IsTagged(outage)
PROOF
<1>1. tags[outage] \in OutageTag \cup {Untagged}
  BY DEF CorrelationTypeOK
<1>2. /\ Untagged.parent = NoParent
      /\ tags[outage] \in OutageTag =>
           tags[outage].parent \in Tagged \cup {NoParent} /\ tags[outage].downtime_seconds \in Downtimes
  BY DEF OutageTag, Untagged
<1> QED  BY <1>1, <1>2, CorrelationAssumption DEF ParentOf, Above, IsTagged

\* What a climb has visited.
Visited(outage, height) == {Climb(outage, d) : d \in 0..height}

\* A climb stays among the outages, goes down in rank, and visits another outage
\* with each step until it is at a root.
LEMMA ClimbVisits ==
    ASSUME CorrelationTypeOK, NEW rank, Ranked(rank), NEW outage \in Tagged, NEW height \in Nat
    PROVE  /\ Climb(outage, height) \in Tagged
           /\ Visited(outage, height) \subseteq Tagged
           /\ \A o \in Visited(outage, height) : rank[Climb(outage, height)] <= rank[o]
           /\ ParentOf(Climb(outage, height)) = NoParent \/ Cardinality(Visited(outage, height)) = height + 1
           /\ Cardinality(Visited(outage, height)) <= height + 1
PROOF
<1> DEFINE Fine(d) == /\ Climb(outage, d) \in Tagged
                      /\ Visited(outage, d) \subseteq Tagged
                      /\ \A o \in Visited(outage, d) : rank[Climb(outage, d)] <= rank[o]
                      /\ ParentOf(Climb(outage, d)) = NoParent \/ Cardinality(Visited(outage, d)) = d + 1
                      /\ Cardinality(Visited(outage, d)) <= d + 1
           Bad == {d \in Nat : ~Fine(d)}
<1>1. SUFFICES ASSUME Bad # {} PROVE FALSE
  OBVIOUS
<1>2. PICK n \in Bad : \A k \in Bad : n <= k
  <2>1. Bad \subseteq Nat
    OBVIOUS
  <2> HIDE DEF Bad
  <2> QED  BY <1>1, <2>1, LeastNatural
<1>3. n \in Nat /\ ~Fine(n)
  OBVIOUS
<1>4. \A o \in Tagged : rank[o] \in Nat
  BY DEF Ranked
<1>5. CASE n = 0
  <2>1. Climb(outage, 0) = outage
    BY ClimbOneMore
  <2>2. 0..0 = {0}
    OBVIOUS
  <2>3. Visited(outage, 0) = {outage}
    BY <2>1, <2>2 DEF Visited
  <2>4. Cardinality({outage}) = 0 + 1
    <3>1. 0 + 1 = 1
      OBVIOUS
    <3>2. Cardinality({outage}) = 1
      BY FS_Singleton, Zenon
    <3> QED  BY <3>1, <3>2
  <2> QED  BY <1>3, <1>4, <1>5, <2>1, <2>3, <2>4
<1>6. CASE n # 0
  <2>1. PICK m \in Nat : n = m + 1
    <3>1. n - 1 \in Nat /\ n = (n - 1) + 1
      BY <1>3, <1>6
    <3> QED  BY <3>1
  <2> DEFINE here == Climb(outage, m)
             there == Climb(outage, n)
  <2>2. Fine(m)
    BY <1>2, <2>1
  <2>3. there = Above(here) /\ here \in Tagged /\ there \in Tagged
    <3>1. there = Above(here) /\ here \in Tagged
      BY <2>1, <2>2, ClimbOneMore
    <3> HIDE DEF here, there
    <3> QED  BY <3>1, TagTypes
  <2>4. Visited(outage, n) = Visited(outage, m) \cup {there}
    <3>1. 0..n = 0..m \cup {n}
      BY <2>1
    <3> QED  BY <3>1 DEF Visited
  <2>5. CASE ParentOf(here) = NoParent
    <3>1. there = here
      BY <2>3, <2>5 DEF Above
    <3>2. here \in Visited(outage, m)
      <4>1. m \in 0..m
        OBVIOUS
      <4> QED  BY <4>1 DEF Visited
    <3>3. Visited(outage, n) = Visited(outage, m)
      BY <2>4, <3>1, <3>2
    <3> HIDE DEF here, there
    <3>4. /\ there \in Tagged /\ Visited(outage, m) \subseteq Tagged
          /\ \A o \in Visited(outage, m) : rank[there] <= rank[o]
          /\ ParentOf(there) = NoParent
      BY <2>2, <2>3, <2>5, <3>1 DEF here
    <3>5. Cardinality(Visited(outage, m)) <= n + 1
      <4>1. Cardinality(Visited(outage, m)) \in Nat
        BY <3>4, CorrelationAssumption, FS_Subset, FS_CardinalityType
      <4> QED  BY <2>1, <2>2, <4>1
    <3> QED  BY <1>3, <3>3, <3>4, <3>5 DEF there
  <2>6. CASE ParentOf(here) # NoParent
    <3>1. rank[there] < rank[here]
      BY <2>3, <2>6 DEF Above, Ranked
    <3>2. \A o \in Visited(outage, m) : rank[here] <= rank[o] /\ o \in Tagged
      BY <2>2
    <3>3. Cardinality(Visited(outage, m)) = n
      BY <2>1, <2>2, <2>6
    <3>4. Visited(outage, m) \subseteq Tagged /\ IsFiniteSet(Visited(outage, m))
      BY <3>2, CorrelationAssumption, FS_Subset
    <3> HIDE DEF here, there
    <3>5. \A o \in Visited(outage, m) : rank[there] < rank[o]
      BY <1>4, <2>3, <3>1, <3>2
    <3>6. there \notin Visited(outage, m)
      BY <1>4, <2>3, <3>5
    <3>7. Cardinality(Visited(outage, n)) = n + 1
      BY <2>4, <3>3, <3>4, <3>6, FS_AddElement
    <3>8. \A o \in Visited(outage, n) : rank[there] <= rank[o]
      BY <1>4, <2>3, <2>4, <3>4, <3>5
    <3>9. Visited(outage, n) \subseteq Tagged
      BY <2>3, <2>4, <3>4
    <3>10. Cardinality(Visited(outage, n)) <= n + 1
      BY <1>3, <3>7
    <3> QED  BY <1>3, <2>3, <3>7, <3>8, <3>9, <3>10 DEF there
  <2> QED  BY <2>5, <2>6
<1> QED  BY <1>5, <1>6

\* As there are so many outages only, the climb is at a root after as many steps,
LEMMA RootReached ==
    ASSUME CorrelationTypeOK, NEW rank, Ranked(rank), NEW outage \in Tagged,
           NEW height \in Nat, Cardinality(Tagged) <= height
    PROVE  ParentOf(Climb(outage, height)) = NoParent
PROOF
<1>1. Visited(outage, height) \subseteq Tagged
      /\ (ParentOf(Climb(outage, height)) = NoParent \/ Cardinality(Visited(outage, height)) = height + 1)
  BY ClimbVisits
<1>2. Cardinality(Visited(outage, height)) <= Cardinality(Tagged) /\ Cardinality(Tagged) \in Nat
  BY <1>1, CorrelationAssumption, FS_Subset, FS_CardinalityType
<1> QED  BY <1>1, <1>2

\* and stays there, so that it meets within these steps whatever it meets.
LEMMA MetInTime ==
    ASSUME CorrelationTypeOK, NEW rank, Ranked(rank), NEW outage \in Tagged, NEW height \in Nat
    PROVE  ancestry_contains(outage, Climb(outage, height))
PROOF
<1> DEFINE Bad == {d \in Nat : ~ancestry_contains(outage, Climb(outage, d))}
<1>1. SUFFICES ASSUME Bad # {} PROVE FALSE
  OBVIOUS
<1>2. PICK n \in Bad : \A k \in Bad : n <= k
  <2>1. Bad \subseteq Nat
    OBVIOUS
  <2> HIDE DEF Bad
  <2> QED  BY <1>1, <2>1, LeastNatural
<1>3. n \in Nat /\ ~ancestry_contains(outage, Climb(outage, n)) /\ Cardinality(Tagged) \in Nat
  BY CorrelationAssumption, FS_CardinalityType
<1>4. n \notin 0..Cardinality(Tagged)
  BY <1>3 DEF ancestry_contains
<1>5. PICK m \in Nat : n = m + 1 /\ Cardinality(Tagged) <= m
  <2>1. n - 1 \in Nat /\ n = (n - 1) + 1 /\ Cardinality(Tagged) <= n - 1
    BY <1>3, <1>4
  <2> QED  BY <2>1
<1>6. ParentOf(Climb(outage, m)) = NoParent
  BY <1>5, RootReached
<1>7. Climb(outage, n) = Climb(outage, m)
  BY <1>5, <1>6, ClimbOneMore DEF Above
<1>8. m \in Bad
  BY <1>3, <1>7
<1> QED  BY <1>2, <1>3, <1>5, <1>8

\* Once at a root, a climb goes no further.
LEMMA StaysAtRoot ==
    ASSUME NEW outage, NEW height \in Nat, ParentOf(Climb(outage, height)) = NoParent,
           NEW deeper \in Nat, height <= deeper
    PROVE  Climb(outage, deeper) = Climb(outage, height)
PROOF
<1> DEFINE Bad == {d \in Nat : height <= d /\ Climb(outage, d) # Climb(outage, height)}
<1>1. SUFFICES ASSUME Bad # {} PROVE FALSE
  OBVIOUS
<1>2. PICK n \in Bad : \A k \in Bad : n <= k
  <2>1. Bad \subseteq Nat
    OBVIOUS
  <2> HIDE DEF Bad
  <2> QED  BY <1>1, <2>1, LeastNatural
<1>3. n \in Nat /\ height <= n /\ Climb(outage, n) # Climb(outage, height)
  OBVIOUS
<1>4. n # height
  BY <1>3
<1>5. PICK m \in Nat : n = m + 1 /\ height <= m
  <2>1. n - 1 \in Nat /\ n = (n - 1) + 1 /\ height <= n - 1
    BY <1>3, <1>4
  <2> QED  BY <2>1
<1>6. Climb(outage, m) = Climb(outage, height)
  BY <1>2, <1>5
<1>7. Climb(outage, n) = Climb(outage, m)
  BY <1>5, <1>6, ClimbOneMore DEF Above
<1> QED  BY <1>3, <1>6, <1>7

\* An outage and its ancestors are what its climb visits, however long.
LEMMA AncestorsAreVisited ==
    ASSUME CorrelationTypeOK, NEW rank, Ranked(rank), NEW outage \in Tagged
    PROVE  /\ outage \in Visited(outage, Cardinality(Tagged))
           /\ Ancestors(outage) = Visited(outage, Cardinality(Tagged)) \ {outage}
           /\ \A height \in Nat : Visited(outage, height) \subseteq Visited(outage, Cardinality(Tagged))
PROOF
<1>1. Cardinality(Tagged) \in Nat
  BY CorrelationAssumption, FS_CardinalityType
<1>2. Visited(outage, Cardinality(Tagged)) \subseteq Tagged
  BY <1>1, ClimbVisits
<1>3. \A o : ancestry_contains(outage, o) <=> o \in Visited(outage, Cardinality(Tagged))
  BY Zenon DEF ancestry_contains, Visited
<1>4. outage \in Visited(outage, Cardinality(Tagged))
  <2>1. 0 \in 0..Cardinality(Tagged) /\ Climb(outage, 0) = outage
    BY <1>1, ClimbOneMore
  <2> QED  BY <2>1, Zenon DEF Visited
<1>5. Ancestors(outage) = Visited(outage, Cardinality(Tagged)) \ {outage}
  BY <1>2, <1>3, Zenon DEF Ancestors
<1>6. ASSUME NEW height \in Nat, NEW o \in Visited(outage, height)
      PROVE  o \in Visited(outage, Cardinality(Tagged))
  <2>1. PICK d \in 0..height : Climb(outage, d) = o
    BY <1>6 DEF Visited
  <2>2. d \in Nat
    OBVIOUS
  <2>3. ancestry_contains(outage, Climb(outage, d))
    BY <2>2, MetInTime
  <2> QED  BY <1>3, <2>1, <2>3, Zenon
<1> QED  BY <1>4, <1>5, <1>6

\* The bounded climb ends at a root for exactly the outages with no more ancestors
\* than it has steps: it visits them all, or a new one with each step and there is
\* one above.
LEMMA RootWithinReach ==
    ASSUME CorrelationTypeOK, NEW rank, Ranked(rank), NEW outage \in Tagged, NEW height \in Nat
    PROVE  ParentOf(Climb(outage, height)) = NoParent <=> Cardinality(Ancestors(outage)) <= height
PROOF
<1> DEFINE here == Climb(outage, height)
           near == Visited(outage, height)
           all == Visited(outage, Cardinality(Tagged))
<1>1. Cardinality(Tagged) \in Nat
  BY CorrelationAssumption, FS_CardinalityType
<1>2. /\ outage \in all /\ Ancestors(outage) = all \ {outage} /\ near \subseteq all
      /\ Visited(outage, height + 1) \subseteq all
  <2>1. height + 1 \in Nat
    OBVIOUS
  <2> QED  BY <2>1, AncestorsAreVisited
<1>3. /\ here \in Tagged /\ near \subseteq Tagged /\ all \subseteq Tagged
      /\ \A o \in near : rank[here] <= rank[o]
      /\ ParentOf(here) = NoParent \/ Cardinality(near) = height + 1
      /\ Cardinality(near) <= height + 1
  BY <1>1, ClimbVisits
<1>4. /\ IsFiniteSet(near) /\ IsFiniteSet(all)
      /\ Cardinality(near) \in Nat /\ Cardinality(all) \in Nat
  BY <1>3, CorrelationAssumption, FS_Subset, FS_CardinalityType
<1>5. Cardinality(Ancestors(outage)) = Cardinality(all) - 1
  BY <1>2, <1>4, FS_RemoveElement
<1>6. CASE ParentOf(here) = NoParent
  <2>1. ASSUME NEW o \in all PROVE o \in near
    <3>1. PICK d \in 0..Cardinality(Tagged) : Climb(outage, d) = o
      BY <2>1 DEF Visited
    <3>2. d \in Nat
      BY <1>1
    <3>3. CASE d <= height
      <4>1. d \in 0..height
        BY <3>2, <3>3
      <4> QED  BY <3>1, <4>1 DEF Visited
    <3>4. CASE height <= d
      <4>1. height \in 0..height /\ o = Climb(outage, height)
        BY <1>6, <3>1, <3>2, <3>4, StaysAtRoot
      <4> QED  BY <4>1 DEF Visited
    <3> QED  BY <3>2, <3>3, <3>4
  <2>2. all = near
    BY <1>2, <2>1
  <2>3. Cardinality(Ancestors(outage)) <= height
    <3> HIDE DEF all, near
    <3> QED  BY <1>3, <1>4, <1>5, <2>2
  <2> QED  BY <1>6, <2>3
<1>7. CASE ParentOf(here) # NoParent
  <2> DEFINE there == Climb(outage, height + 1)
             further == near \cup {there}
  <2>1. there = Above(here) /\ there \in all
    <3>1. height + 1 \in 0..(height + 1)
      OBVIOUS
    <3>2. there \in Visited(outage, height + 1)
      BY <3>1, Zenon DEF Visited
    <3> QED  BY <1>2, <3>2, ClimbOneMore
  <2>2. rank[there] < rank[here] /\ there \in Tagged
    <3> HIDE DEF here, there
    <3> QED  BY <1>3, <1>7, <2>1, TagTypes DEF Above, Ranked
  <2>3. there \notin near
    <3> HIDE DEF here, there, near
    <3>1. rank[there] \in Nat /\ rank[here] \in Nat
      BY <1>3, <2>2 DEF Ranked
    <3> QED  BY <1>3, <2>2, <3>1
  <2>4. Cardinality(further) = height + 2
    <3>1. Cardinality(near) = height + 1
      <4> HIDE DEF here, near
      <4> QED  BY <1>3, <1>7
    <3>2. Cardinality(further) = Cardinality(near) + 1
      <4> HIDE DEF here, there, near
      <4> QED  BY <1>4, <2>3, FS_AddElement
    <3> HIDE DEF further, near
    <3> QED  BY <3>1, <3>2
  <2>5. further \subseteq all
    BY <1>2, <2>1
  <2>6. ~(Cardinality(Ancestors(outage)) <= height)
    <3> HIDE DEF all, further
    <3>1. Cardinality(further) <= Cardinality(all)
      BY <1>4, <2>5, FS_Subset
    <3> QED  BY <1>4, <1>5, <2>4, <3>1
  <2> QED  BY <1>7, <2>6
<1> QED  BY <1>6, <1>7

\* A rank for the tags says that they form a forest.
LEMMA RankedIsForest ==
    ASSUME CorrelationTypeOK, NEW rank, Ranked(rank)
    PROVE  TagsFormForest
PROOF
<1> SUFFICES ASSUME NEW outage \in Tagged
             PROVE  /\ ParentOf(outage) # NoParent => ~ancestry_contains(ParentOf(outage), outage)
                    /\ ancestry_contains(outage, resolve_root(outage))
                    /\ ParentOf(resolve_root(outage)) = NoParent <=>
                         Cardinality(Ancestors(outage)) <= MAX_CORRELATION_DEPTH
  BY DEF TagsFormForest
<1>1. /\ ancestry_contains(outage, resolve_root(outage))
      /\ ParentOf(resolve_root(outage)) = NoParent <=>
           Cardinality(Ancestors(outage)) <= MAX_CORRELATION_DEPTH
  BY MetInTime, RootWithinReach, CorrelationAssumption DEF resolve_root
<1>2. ASSUME ParentOf(outage) # NoParent, ancestry_contains(ParentOf(outage), outage) PROVE FALSE
  <2> DEFINE parent == ParentOf(outage)
  <2>1. parent \in Tagged /\ rank[parent] < rank[outage] /\ rank[parent] \in Nat /\ rank[outage] \in Nat
    BY <1>2, TagTypes DEF Ranked
  <2>2. Cardinality(Tagged) \in Nat
    BY CorrelationAssumption, FS_CardinalityType
  <2>3. PICK height \in 0..Cardinality(Tagged) : Climb(parent, height) = outage
    BY <1>2 DEF ancestry_contains
  <2>4. height \in Nat
    BY <2>2
  <2> HIDE DEF parent
  <2>5. \A o \in Visited(parent, height) : rank[Climb(parent, height)] <= rank[o]
    BY <2>1, <2>4, ClimbVisits
  <2>6. parent \in Visited(parent, height)
    <3>1. 0 \in 0..height /\ Climb(parent, 0) = parent
      BY <2>4, ClimbOneMore
    <3> QED  BY <3>1, Zenon DEF Visited
  <2> QED  BY <2>1, <2>3, <2>5, <2>6
<1> QED  BY <1>1, <1>2

\* A tag that closes no cycle leaves the tags ranked: everything below the
\* outage is raised above the parent.
LEMMA RankRaised ==
    ASSUME CorrelationTypeOK, NEW rank, Ranked(rank),
           NEW outage \in Tagged, NEW parent \in Tagged \cup {NoParent}, NEW downtime \in Downtimes,
           TagOutage(outage, parent, downtime)
    PROVE  \E raised : Ranked(raised)'
PROOF
<1> DEFINE Below == {o \in Tagged : \E d \in Nat : Climb(o, d) = outage}
           lift == IF parent = NoParent THEN 0 ELSE rank[parent] + 1
           raised == [o \in Tagged |-> IF o \in Below THEN rank[o] + lift ELSE rank[o]]
<1>1. \A o \in Tagged : rank[o] \in Nat
  BY DEF Ranked
<1>2. lift \in Nat /\ (parent # NoParent => rank[parent] < rank[outage] + lift)
  BY <1>1
<1>3. raised \in [Tagged -> Nat]
  <2> HIDE DEF lift, Below
  <2> QED  BY <1>1, <1>2
<1>4. outage \in Below
  <2>1. 0 \in Nat /\ Climb(outage, 0) = outage
    BY ClimbOneMore
  <2> QED  BY <2>1
<1>5. parent # NoParent => parent \notin Below
  <2> SUFFICES ASSUME parent # NoParent, parent \in Below PROVE FALSE
    OBVIOUS
  <2>1. PICK d \in Nat : Climb(parent, d) = outage
    OBVIOUS
  <2>2. ancestry_contains(parent, outage)
    BY <2>1, MetInTime
  <2> QED  BY <2>2 DEF TagOutage, would_create_cycle
<1>6. /\ \A o \in Tagged \ {outage} : ParentOf(o)' = ParentOf(o)
      /\ ParentOf(outage)' = parent
  BY DEF TagOutage, CorrelationTypeOK, ParentOf
<1>7. ASSUME NEW o \in Tagged \ {outage}, ParentOf(o) # NoParent
      PROVE  o \in Below <=> ParentOf(o) \in Below
  <2>1. Above(o) = ParentOf(o) /\ ParentOf(o) \in Tagged
    BY <1>7, TagTypes DEF Above
  <2>2. ASSUME NEW d \in Nat, Climb(o, d) = outage PROVE ParentOf(o) \in Below
    <3>1. d # 0
      BY <1>7, <2>2, ClimbOneMore
    <3>2. PICK e \in Nat : d = e + 1
      <4>1. d - 1 \in Nat /\ d = (d - 1) + 1
        BY <3>1
      <4> QED  BY <4>1
    <3>3. Climb(ParentOf(o), e) = outage
      BY <2>1, <2>2, <3>2, ClimbFromAbove
    <3> QED  BY <2>1, <3>3
  <2>3. ASSUME NEW d \in Nat, Climb(ParentOf(o), d) = outage PROVE o \in Below
    <3>1. Climb(o, d + 1) = outage /\ d + 1 \in Nat
      BY <2>1, <2>3, ClimbFromAbove
    <3> QED  BY <3>1
  <2> QED  BY <2>2, <2>3
<1>8. ASSUME NEW o \in Tagged, ParentOf(o)' # NoParent
      PROVE  raised[ParentOf(o)'] < raised[o]
  <2>1. CASE o = outage
    <3>1. ParentOf(o)' = parent /\ parent # NoParent /\ parent \in Tagged
      BY <1>6, <1>8, <2>1
    <3>2. raised[parent] = rank[parent] /\ raised[outage] = rank[outage] + lift
      BY <1>4, <1>5, <3>1
    <3> HIDE DEF lift, Below, raised
    <3> QED  BY <1>2, <2>1, <3>1, <3>2
  <2>2. CASE o # outage
    <3> DEFINE p == ParentOf(o)
    <3>1. ParentOf(o)' = p /\ p # NoParent /\ p \in Tagged /\ rank[p] < rank[o]
          /\ (o \in Below <=> p \in Below)
      BY <1>6, <1>7, <1>8, <2>2, TagTypes DEF Ranked
    <3> HIDE DEF lift, Below, p
    <3>2. /\ raised[o] = (IF o \in Below THEN rank[o] + lift ELSE rank[o])
          /\ raised[p] = (IF p \in Below THEN rank[p] + lift ELSE rank[p])
      BY <3>1
    <3> HIDE DEF raised
    <3> QED  BY <1>1, <1>2, <3>1, <3>2
  <2> QED  BY <2>1, <2>2
<1> HIDE DEF raised
<1> QED  BY <1>3, <1>8 DEF Ranked

\* The downtimes of the groups add up to the downtimes tagged, wherever the
\* climbs end.
LEMMA GroupsAddUp ==
    ASSUME CorrelationTypeOK, NEW rank, Ranked(rank)
    PROVE  DowntimeCountedOnce
PROOF
<1> DEFINE label == [o \in Tagged |-> resolve_root(o)]
           some == {o \in Tagged : IsTagged(o)}
           f == [o \in Tagged |-> tags[o].downtime_seconds]
           totals == [root \in Tagged |-> SumOver(f, {o \in some : label[o] = root})]
           booked == [o \in Tagged |-> IF o \in some THEN f[o] ELSE 0]
<1>1. IsFiniteSet(Tagged) /\ some \subseteq Tagged /\ IsFiniteSet(some)
  BY CorrelationAssumption, FS_Subset
<1>2. ASSUME NEW o \in some PROVE f[o] \in Int /\ label[o] \in Tagged
  <2>1. f[o] \in Int
    BY TagTypes
  <2>2. MAX_CORRELATION_DEPTH \in Nat
    BY CorrelationAssumption
  <2> QED  BY <2>1, <2>2, ClimbVisits DEF resolve_root
<1>3. SumOver(totals, Tagged) = SumOver(f, some)
  <2> HIDE DEF label, some, f
  <2> QED  BY <1>1, <1>2, SumByGroups
<1>4. SumOver(booked, Tagged) = SumOver(f, some)
  <2>1. \A o \in some : f[o] \in Int
    BY <1>2
  <2> HIDE DEF f, some
  <2>2. SumOver([o \in Tagged |-> IF o \in some THEN f[o] ELSE 0], Tagged) = SumOver(f, some)
    BY <1>1, <2>1, SumOfPart
  <2> QED  BY <2>2
<1>5. ASSUME NEW root \in Tagged PROVE aggregate_root_downtime(root) = totals[root]
  <2>1. CASE root \in {resolve_root(o) : o \in some}
    <3> DEFINE group == {o \in Tagged : IsTagged(o) /\ resolve_root(o) = root}
    <3>1. aggregate_root_downtime(root) = MapThenSumSet(LAMBDA o : tags[o].downtime_seconds, group)
      BY <2>1 DEF aggregate_root_downtime, group_by_root
    <3>2. {o \in some : label[o] = root} = group
      OBVIOUS
    <3>3. MapThenSumSet(LAMBDA o : tags[o].downtime_seconds, group) =
            SumOver([o \in group |-> tags[o].downtime_seconds], group)
      BY Zenon DEF SumOver, MapThenSumSet, MapThenFoldSet
    <3>4. \A o \in group : f[o] \in Int /\ f[o] = [q \in group |-> tags[q].downtime_seconds][o]
      BY <1>2
    <3>5. IsFiniteSet(group)
      BY <1>1, FS_Subset
    <3>6. SumOver(f, group) = SumOver([o \in group |-> tags[o].downtime_seconds], group)
      <4> HIDE DEF group, f
      <4> QED  BY <3>4, <3>5, SumSame
    <3> HIDE DEF group, f, some, label
    <3> QED  BY <3>1, <3>2, <3>3, <3>6
  <2>2. CASE root \notin {resolve_root(o) : o \in some}
    <3>1. {o \in some : label[o] = root} = {}
      BY <2>2
    <3>2. aggregate_root_downtime(root) = 0
      BY <2>2 DEF aggregate_root_downtime, group_by_root
    <3> HIDE DEF f, some, label
    <3> QED  BY <3>1, <3>2, SumEmpty
  <2> QED  BY <2>1, <2>2
<1>6. MapThenSumSet(aggregate_root_downtime, Tagged) = SumOver([root \in Tagged |-> aggregate_root_downtime(root)], Tagged)
  BY Zenon DEF SumOver, MapThenSumSet, MapThenFoldSet
<1>7. [root \in Tagged |-> aggregate_root_downtime(root)] = totals
  <2> HIDE DEF f, some, label
  <2> QED  BY <1>5
<1>8. MapThenSumSet(LAMBDA o : IF IsTagged(o) THEN tags[o].downtime_seconds ELSE 0, Tagged) =
        SumOver([o \in Tagged |-> IF IsTagged(o) THEN tags[o].downtime_seconds ELSE 0], Tagged)
  BY Zenon DEF SumOver, MapThenSumSet, MapThenFoldSet
<1>9. booked = [o \in Tagged |-> IF IsTagged(o) THEN tags[o].downtime_seconds ELSE 0]
  OBVIOUS
<1> HIDE DEF booked, totals
<1> QED  BY <1>3, <1>4, <1>6, <1>7, <1>8, <1>9 DEF DowntimeCountedOnce

CorrelationInv ==
    CorrelationTypeOK /\ ChildListsComplete /\ \E rank : Ranked(rank)

LEMMA CorrelationBegins == CorrelationInit => CorrelationInv
PROOF
<1> SUFFICES ASSUME CorrelationInit PROVE CorrelationInv
  OBVIOUS
<1>1. \A outage \in Tagged : ParentOf(outage) = NoParent /\ children[outage] = {}
  BY DEF CorrelationInit, ParentOf, Untagged
<1>2. Ranked([outage \in Tagged |-> 0])
  BY <1>1 DEF Ranked
<1> QED  BY <1>1, <1>2 DEF CorrelationInit, CorrelationInv, CorrelationTypeOK, ChildListsComplete, children_of

LEMMA CorrelationKeepsInv == CorrelationInv /\ [CorrelationNext]_correlationVars => CorrelationInv'
PROOF
<1>1. ASSUME CorrelationInv, NEW outage \in Tagged, NEW parent \in Tagged \cup {NoParent},
             NEW downtime \in Downtimes, TagOutage(outage, parent, downtime)
      PROVE  CorrelationInv'
  <2> DEFINE tag == [parent |-> parent, downtime_seconds |-> downtime]
  <2>1. CorrelationTypeOK /\ ChildListsComplete
    BY <1>1 DEF CorrelationInv
  <2>2. \E raised : Ranked(raised)'
    BY <1>1, <2>1, RankRaised DEF CorrelationInv
  <2>3. tag \in OutageTag /\ tag # Untagged /\ tag.parent = parent
    BY CorrelationAssumption DEF OutageTag, Untagged
  <2>4. tags' = [tags EXCEPT ![outage] = tag] /\ parent # outage
    BY <1>1 DEF TagOutage
  <2> HIDE DEF tag
  <2>5. CorrelationTypeOK'
    BY <1>1, <2>1, <2>3, <2>4 DEF TagOutage, CorrelationTypeOK
  <2>6. /\ \A o \in Tagged \ {outage} : tags'[o] = tags[o]
        /\ tags'[outage] = tag
    BY <2>1, <2>4 DEF CorrelationTypeOK
  <2>7. /\ \A o \in Tagged \ {outage} : ParentOf(o)' = ParentOf(o) /\ IsTagged(o)' = IsTagged(o)
        /\ ParentOf(outage)' = parent /\ IsTagged(outage)'
    BY <2>3, <2>6 DEF ParentOf, IsTagged
  <2>8. \A o \in Tagged : children'[o] = IF o = parent THEN children[o] \cup {outage} ELSE children[o]
    BY <1>1, <2>1, CorrelationAssumption DEF TagOutage, CorrelationTypeOK
  <2>9. ChildListsComplete'
    <3> SUFFICES ASSUME NEW o \in Tagged
                 PROVE  /\ ParentOf(o)' # NoParent => o \in children'[ParentOf(o)']
                        /\ o \notin children'[o]
                        /\ \A child \in children'[o] : IsTagged(child)'
      BY DEF ChildListsComplete, children_of
    <3>1. \A q \in Tagged :
            /\ ParentOf(q) # NoParent => ParentOf(q) \in Tagged /\ q \in children[ParentOf(q)]
            /\ q \notin children[q] /\ children[q] \subseteq Tagged
            /\ \A child \in children[q] : IsTagged(child)
      BY <2>1, TagTypes DEF ChildListsComplete, children_of, CorrelationTypeOK
    <3>2. ParentOf(o)' # NoParent => o \in children'[ParentOf(o)']
      BY <2>7, <2>8, <3>1
    <3>3. o \notin children'[o]
      BY <2>4, <2>8, <3>1
    <3>4. \A child \in children'[o] : IsTagged(child)'
      <4>1. \A child \in children[o] : child \in Tagged /\ IsTagged(child)
        BY <3>1
      <4>2. \A child \in children'[o] : child = outage \/ child \in children[o]
        BY <2>8
      <4> QED  BY <2>7, <4>1, <4>2, Zenon
    <3> QED  BY <3>2, <3>3, <3>4
  <2> QED  BY <2>2, <2>5, <2>9 DEF CorrelationInv
<1>2. ASSUME CorrelationInv, UNCHANGED correlationVars PROVE CorrelationInv'
  BY <1>2 DEF CorrelationInv, correlationVars, CorrelationTypeOK, ChildListsComplete, children_of, IsTagged,
              ParentOf, Ranked
<1> QED  BY <1>1, <1>2 DEF CorrelationNext

LEMMA CorrelatedForest ==
    ASSUME CorrelationInv
    PROVE  CorrelationsHold
PROOF
  BY RankedIsForest, GroupsAddUp DEF CorrelationInv, CorrelationsHold

\* A record is of an interval, and is closed as of its end or later if at all.
ExcuseOK(outage) ==
    LET record == excuses[outage]
    IN  IsRecorded(outage) =>
          /\ record \in ForceMajeureRecord
          /\ record.started_at < record.excused_until
          /\ record.closed_at # 0 => record.excused_until <= record.closed_at

ExcuseInv ==
    /\ now \in Time /\ ForceMajeureTypeOK
    /\ \A outage \in Excusable : ExcuseOK(outage)

\* Who governs, or nobody.
Governors == Governor \cup {""}

LEMMA ExcusesBegin == ForceMajeureInit /\ now = 0 => ExcuseInv
PROOF
<1> SUFFICES ASSUME ForceMajeureInit, now = 0 PROVE ExcuseInv
  OBVIOUS
<1>1. now \in Time
  BY MaxTimeAssumption DEF Time
<1>2. ForceMajeureTypeOK
  BY Zenon DEF ForceMajeureInit, ForceMajeureTypeOK
<1>3. ASSUME NEW outage \in Excusable PROVE ~IsRecorded(outage)
  BY Zenon DEF ForceMajeureInit, IsRecorded
<1> QED  BY <1>1, <1>2, <1>3 DEF ExcuseInv, ExcuseOK

LEMMA RecordedTimes ==
    ASSUME NEW record \in ForceMajeureRecord
    PROVE  record.started_at \in Nat /\ record.excused_until \in Nat /\ record.closed_at \in Nat
PROOF
  BY MaxTimeAssumption DEF ForceMajeureRecord, Time

LEMMA ExcusesKeepInv ==
    ASSUME ExcuseInv, ForceMajeureNext \/ UNCHANGED <<now, excuseVars>>
    PROVE  ExcuseInv' /\ ExcuseOutlivesItsInterval
PROOF
<1>1. /\ now \in Nat /\ now \in Time /\ governance \in Governors
      /\ excuses \in [Excusable -> ForceMajeureRecord \cup {NoExcuse}]
      /\ \A t \in Time : t \in Nat
  <2>1. now \in Time /\ \A t \in Time : t \in Nat
    BY MaxTimeAssumption DEF ExcuseInv, Time
  <2>2. governance \in Governors /\ excuses \in [Excusable -> ForceMajeureRecord \cup {NoExcuse}]
    BY Zenon DEF ExcuseInv, ForceMajeureTypeOK, Governors
  <2> QED  BY <2>1, <2>2
<1>2. ASSUME now' \in Time, governance' \in Governors, excuses' = excuses
      PROVE  ExcuseInv' /\ ExcuseOutlivesItsInterval
  <2>2. ASSUME NEW outage \in Excusable PROVE ExcuseOK(outage)'
    <3>1. ExcuseOK(outage) /\ excuses'[outage] = excuses[outage]
      BY <1>2 DEF ExcuseInv
    <3>2. IsRecorded(outage)' = IsRecorded(outage)
      BY <3>1 DEF IsRecorded
    <3> QED  BY <3>1, <3>2 DEF ExcuseOK
  <2>3. ExcuseOutlivesItsInterval
    BY <1>2 DEF ExcuseOutlivesItsInterval, is_excused, IsRecorded
  <2>4. ForceMajeureTypeOK'
    BY <1>1, <1>2, Zenon DEF ForceMajeureTypeOK, Governors
  <2> QED  BY <1>2, <2>2, <2>3, <2>4 DEF ExcuseInv
<1>3. ASSUME NEW outage \in Excusable, NEW record \in ForceMajeureRecord,
             record.started_at < record.excused_until,
             record.closed_at # 0 => record.excused_until <= record.closed_at,
             excuses' = [excuses EXCEPT ![outage] = record], UNCHANGED <<now, governance>>,
             \A at \in Time : is_excused(outage, at) =>
                at <= excuses[outage].closed_at \/ at \in record.started_at..record.excused_until
      PROVE  ExcuseInv' /\ ExcuseOutlivesItsInterval
  <2>1. /\ excuses' \in [Excusable -> ForceMajeureRecord \cup {NoExcuse}]
        /\ excuses'[outage] = record
        /\ \A other \in Excusable \ {outage} : excuses'[other] = excuses[other]
    BY <1>1, <1>3
  <2>2. record.started_at \in Nat /\ record.excused_until \in Nat
    BY <1>3, RecordedTimes
  <2>3. record # NoExcuse
    <3>1. NoExcuse.started_at = 0 /\ NoExcuse.excused_until = 0
      BY DEF NoExcuse
    <3> QED  BY <1>3, <2>2, <3>1
  <2>4. ASSUME NEW other \in Excusable PROVE ExcuseOK(other)'
    <3>1. CASE other = outage
      BY <1>3, <2>1, <3>1 DEF ExcuseOK
    <3>2. CASE other # outage
      BY <1>3, <2>1, <3>2 DEF ExcuseOK, ExcuseInv, IsRecorded
    <3> QED  BY <3>1, <3>2
  <2>5. ASSUME NEW other \in Excusable, NEW at \in Time, is_excused(other, at), ~is_excused(other, at)'
        PROVE  at <= excuses[other].closed_at
    <3>1. CASE other = outage
      BY <1>3, <2>1, <2>3, <2>5, <3>1 DEF is_excused, IsRecorded
    <3>2. CASE other # outage
      BY <1>3, <2>1, <2>5, <3>2 DEF is_excused, IsRecorded
    <3> QED  BY <3>1, <3>2
  <2>6. ForceMajeureTypeOK' /\ now' \in Time
    BY <1>1, <1>3, <2>1, Zenon DEF ForceMajeureTypeOK, Governors
  <2> QED  BY <2>4, <2>5, <2>6 DEF ExcuseInv, ExcuseOutlivesItsInterval
<1>4. ASSUME NEW caller \in Governor, NEW outage \in Excusable, NEW from \in Time, NEW until \in Time,
             RecordForceMajeure(caller, outage, from, until)
      PROVE  ExcuseInv' /\ ExcuseOutlivesItsInterval
  <2> DEFINE record == [started_at |-> from, excused_until |-> until, approved_by |-> caller, closed_at |-> 0]
  <2>1. /\ record \in ForceMajeureRecord /\ record.started_at = from /\ record.excused_until = until
        /\ record.closed_at = 0
    BY MaxTimeAssumption DEF ForceMajeureRecord, Time
  <2>2. /\ from < until /\ ~is_open(outage)
        /\ excuses' = [excuses EXCEPT ![outage] = record] /\ UNCHANGED <<now, governance>>
    BY <1>4 DEF RecordForceMajeure
  <2> HIDE DEF record
  <2>3. ASSUME NEW at \in Time, is_excused(outage, at) PROVE at <= excuses[outage].closed_at
    <3> DEFINE old == excuses[outage]
    <3>1. IsRecorded(outage) /\ at \in old.started_at..old.excused_until /\ old.closed_at # 0
      BY <2>2, <2>3 DEF is_excused, is_open
    <3>2. old \in ForceMajeureRecord /\ old.excused_until <= old.closed_at
      BY <3>1 DEF ExcuseInv, ExcuseOK
    <3>3. old.excused_until \in Nat /\ old.started_at \in Nat /\ old.closed_at \in Nat /\ at \in Nat
      BY <1>1, <3>2, RecordedTimes
    <3>4. at <= old.closed_at
      <4> HIDE DEF old
      <4> QED  BY <3>1, <3>2, <3>3
    <3> QED  BY <3>4
  <2>4. /\ record.started_at < record.excused_until
        /\ record.closed_at # 0 => record.excused_until <= record.closed_at
    BY <1>1, <2>1, <2>2
  <2>5. \A at \in Time : is_excused(outage, at) =>
           at <= excuses[outage].closed_at \/ at \in record.started_at..record.excused_until
    BY <2>3
  <2> QED  BY <1>3, <2>1, <2>2, <2>4, <2>5
<1>5. ASSUME NEW caller \in Governor, NEW outage \in Excusable, NEW closing \in Time,
             CloseForceMajeure(caller, outage, closing)
      PROVE  ExcuseInv' /\ ExcuseOutlivesItsInterval
  <2> DEFINE old == excuses[outage]
             record == [old EXCEPT !.closed_at = closing]
  <2>1. /\ old \in ForceMajeureRecord /\ old.started_at < old.excused_until /\ closing >= old.excused_until
        /\ IsRecorded(outage)
    BY <1>5 DEF CloseForceMajeure, is_open, ExcuseInv, ExcuseOK
  <2>2. excuses' = [excuses EXCEPT ![outage] = record] /\ UNCHANGED <<now, governance>>
    BY <1>1, <1>5 DEF CloseForceMajeure
  <2>3. \A at \in Time : is_excused(outage, at) => at \in old.started_at..old.excused_until
    BY DEF is_excused
  <2> HIDE DEF old
  <2>5. /\ record \in ForceMajeureRecord /\ record.closed_at = closing
        /\ record.started_at = old.started_at /\ record.excused_until = old.excused_until
    BY <2>1 DEF ForceMajeureRecord
  <2>6. old.excused_until \in Nat /\ old.excused_until <= closing
    <3>1. closing \in Nat
      BY <1>1
    <3> QED  BY <2>1, <3>1, RecordedTimes
  <2> HIDE DEF record
  <2>7. /\ record.started_at < record.excused_until
        /\ record.closed_at # 0 => record.excused_until <= record.closed_at
    BY <1>1, <2>1, <2>5, <2>6
  <2>8. \A at \in Time : is_excused(outage, at) =>
           at <= excuses[outage].closed_at \/ at \in record.started_at..record.excused_until
    BY <2>3, <2>5
  <2> QED  BY <1>3, <2>2, <2>5, <2>7, <2>8
<1>6. CASE Tick /\ UNCHANGED excuseVars
  <2>1. now' \in Time
    BY <1>1, <1>6, MaxTimeAssumption DEF Tick, Time
  <2> QED  BY <1>1, <1>2, <1>6, <2>1 DEF excuseVars
<1>7. ASSUME NEW account \in Governor, SetGovernance(account) PROVE ExcuseInv' /\ ExcuseOutlivesItsInterval
  <2>1. account \in Governors
    BY <1>7, Zenon DEF Governors
  <2>2. now' = now /\ excuses' = excuses /\ governance' \in Governors /\ now' \in Time
    BY <1>1, <1>7, <2>1 DEF SetGovernance
  <2> QED  BY <1>2, <2>2
<1>8. CASE UNCHANGED <<now, excuseVars>>
  <2>1. now' = now /\ excuses' = excuses /\ governance' = governance
    BY <1>1, <1>8 DEF excuseVars
  <2> QED  BY <1>1, <1>2, <2>1
<1> QED  BY <1>4, <1>5, <1>6, <1>7, <1>8 DEF ForceMajeureNext

\* The seconds excused up to an instant are counted one by one.
LEMMA ExcusesAreCounted == ExcuseInv => ExcuseViewsAgree
PROOF
<1> SUFFICES ASSUME ExcuseInv, NEW outage \in Excusable, NEW at \in Time
    PROVE  excused_seconds(outage, at) =
             Cardinality({t \in (excuses[outage].started_at + 1)..at : apply_penalty_bps(outage, 1, t) = 0})
  BY DEF ExcuseViewsAgree
<1> DEFINE record == excuses[outage]
           counted == {t \in (record.started_at + 1)..at : apply_penalty_bps(outage, 1, t) = 0}
<1>1. at \in Nat
  BY MaxTimeAssumption DEF Time
<1>2. CASE ~IsRecorded(outage)
  <2>1. counted = {}
    BY <1>2 DEF apply_penalty_bps, is_excused
  <2>2. excused_seconds(outage, at) = 0
    BY <1>2 DEF excused_seconds
  <2> HIDE DEF counted
  <2> QED  BY <2>1, <2>2, FS_EmptySet DEF counted
<1>3. CASE IsRecorded(outage)
  <2> DEFINE from == record.started_at
             until == record.excused_until
             last == IF at <= until THEN at ELSE until
  <2>1. /\ from \in Nat /\ until \in Nat /\ from < until
        /\ ~(record.closed_at # 0 /\ record.closed_at < until)
    <3>1. record \in ForceMajeureRecord /\ from < until
          /\ (record.closed_at # 0 => until <= record.closed_at)
      BY <1>3 DEF ExcuseInv, ExcuseOK
    <3>2. from \in Nat /\ until \in Nat /\ record.closed_at \in Nat
      BY <3>1, MaxTimeAssumption DEF ForceMajeureRecord, Time
    <3> QED  BY <3>1, <3>2
  <2>2. excused_seconds(outage, at) =
          IF at <= from THEN 0 ELSE IF at <= until THEN at - from ELSE until - from
    BY <1>3, <2>1 DEF excused_seconds
  <2>3. counted = {t \in (from + 1)..at : t \in from..until}
    BY <1>3 DEF apply_penalty_bps, is_excused
  <2> HIDE DEF from, until, record, counted
  <2>4. counted = (from + 1)..last
    BY <1>1, <2>1, <2>3
  <2>5. last \in Int /\ from + 1 \in Int
    BY <1>1, <2>1
  <2>6. Cardinality((from + 1)..last) = IF from + 1 > last THEN 0 ELSE last - (from + 1) + 1
    BY <2>5, FS_Interval
  <2>7. excused_seconds(outage, at) = IF from + 1 > last THEN 0 ELSE last - (from + 1) + 1
    BY <1>1, <2>1, <2>2
  <2> QED  BY <2>4, <2>6, <2>7 DEF counted, record
<1> QED  BY <1>2, <1>3

-----------------------------------------------------------------------------
(* Oracle data.                                                            *)

OracleInv ==
    /\ now \in Time
    /\ oracle.max_staleness \in Nat /\ oracle.required_confirmations \in Nat
    /\ confirmed \in [Time -> Nat]

LEMMA OracleBegins == OracleInit /\ now = 0 => OracleInv
PROOF
<1> SUFFICES ASSUME OracleInit, now = 0 PROVE OracleInv
  OBVIOUS
<1>1. now \in Time
  BY MaxTimeAssumption DEF Time
<1>2. oracle.max_staleness \in Nat /\ oracle.required_confirmations \in Nat
  BY DEF OracleInit, NoOracle, init_oracle
<1>3. confirmed \in [Time -> Nat]
  BY DEF OracleInit
<1> QED  BY <1>1, <1>2, <1>3 DEF OracleInv

\* The age of a point, which is none in the future.
LEMMA LargerOfTwo ==
    ASSUME NEW at \in Nat, NEW timestamp \in Nat
    PROVE  Max({at - timestamp, 0}) = IF timestamp <= at THEN at - timestamp ELSE 0
PROOF
<1> DEFINE S == {at - timestamp, 0}
<1>1. S \subseteq Int /\ S # {}
  OBVIOUS
<1>2. IsFiniteSet(S)
  <2>1. IsFiniteSet({0}) /\ S = {0} \cup {at - timestamp}
    BY FS_Singleton
  <2> HIDE DEF S
  <2> QED  BY <2>1, FS_AddElement
<1> HIDE DEF S
<1>3. Max(S) \in S /\ \A x \in S : x <= Max(S)
  BY <1>1, <1>2, LargestElement
<1>4. /\ Max(S) = at - timestamp \/ Max(S) = 0
      /\ at - timestamp <= Max(S) /\ 0 <= Max(S)
  BY <1>3 DEF S
<1>5. Max(S) = IF timestamp <= at THEN at - timestamp ELSE 0
  BY <1>4
<1> QED  BY <1>5 DEF S

LEMMA AgesGrow ==
    ASSUME NEW at \in Nat, NEW later \in Nat, at <= later, NEW timestamp \in Nat,
           NEW age, age = (IF timestamp <= at THEN at - timestamp ELSE 0),
           NEW older, older = (IF timestamp <= later THEN later - timestamp ELSE 0)
    PROVE  age \in Nat /\ older \in Nat /\ age <= older /\ (at = later => age = older)
PROOF
<1>1. CASE timestamp <= at
  <2>1. age = at - timestamp /\ older = later - timestamp
    BY <1>1
  <2> QED  BY <1>1, <2>1
<1>2. CASE ~(timestamp <= at)
  <2>1. age = 0 /\ older \in Nat
    BY <1>2
  <2> QED  BY <1>2, <2>1
<1> QED  BY <1>1, <1>2

LEMMA AgeIsSaturating ==
    ASSUME now \in Nat, NEW timestamp \in Nat
    PROVE  Age(timestamp) = IF timestamp <= now THEN now - timestamp ELSE 0
PROOF
  BY LargerOfTwo DEF Age

LEMMA OracleKeepsInv ==
    ASSUME OracleInv, OracleNext \/ UNCHANGED <<now, oracleVars>>
    PROVE  /\ OracleInv'
           /\ now <= now' /\ \A timestamp \in Time : confirmed[timestamp] <= confirmed'[timestamp]
PROOF
<1>1. now \in Nat /\ now \in Time /\ confirmed \in [Time -> Nat]
      /\ oracle.max_staleness \in Nat /\ oracle.required_confirmations \in Nat
  BY MaxTimeAssumption DEF OracleInv, Time
<1>2. CASE Tick /\ UNCHANGED oracleVars
  BY <1>1, <1>2, MaxTimeAssumption DEF Tick, Time, oracleVars, OracleInv
<1>3. CASE DisableOracle
  BY <1>1, <1>3 DEF DisableOracle, OracleInv
<1>4. ASSUME NEW staleness \in StalenessInputs, NEW confirmations \in ConfirmationInputs,
             SetOracle(staleness, confirmations)
      PROVE  /\ OracleInv'
             /\ now <= now' /\ \A timestamp \in Time : confirmed[timestamp] <= confirmed'[timestamp]
  BY <1>1, <1>4, OracleAssumption DEF SetOracle, OracleInv
<1>5. ASSUME NEW timestamp \in Time, ConfirmPoint(timestamp)
      PROVE  /\ OracleInv'
             /\ now <= now' /\ \A other \in Time : confirmed[other] <= confirmed'[other]
  BY <1>1, <1>5 DEF ConfirmPoint, OracleInv
<1>6. CASE UNCHANGED <<now, oracleVars>>
  BY <1>1, <1>6 DEF oracleVars, OracleInv
<1> QED  BY <1>2, <1>3, <1>4, <1>5, <1>6 DEF OracleNext

LEMMA NewerServes == OracleInv => NewerDataServesAsWell
PROOF
<1> SUFFICES ASSUME OracleInv, NEW early \in Time, NEW late \in Time, early <= late,
                    confirmed[early] <= confirmed[late], Valid(early)
             PROVE  Valid(late)
  BY DEF NewerDataServesAsWell
<1>1. /\ now \in Nat /\ early \in Nat /\ late \in Nat
      /\ confirmed[early] \in Nat /\ confirmed[late] \in Nat
      /\ oracle.max_staleness \in Nat /\ oracle.required_confirmations \in Nat
  BY MaxTimeAssumption DEF OracleInv, Time
<1>2. Age(late) \in Nat /\ Age(early) \in Nat /\ Age(late) <= Age(early)
  BY <1>1, AgeIsSaturating
<1> QED  BY <1>1, <1>2 DEF Valid

LEMMA FreshnessLapses ==
    ASSUME OracleInv, OracleNext \/ UNCHANGED <<now, oracleVars>>
    PROVE  FreshnessOnlyLapses
PROOF
<1> SUFFICES ASSUME UNCHANGED oracle, NEW timestamp \in Time
             PROVE  /\ UNCHANGED confirmed => (Valid(timestamp)' => Valid(timestamp))
                    /\ UNCHANGED now => (Valid(timestamp) => Valid(timestamp)')
  BY DEF FreshnessOnlyLapses
<1>1. /\ now \in Nat /\ now' \in Nat /\ timestamp \in Nat /\ now <= now'
      /\ confirmed[timestamp] \in Nat /\ confirmed'[timestamp] \in Nat
      /\ confirmed[timestamp] <= confirmed'[timestamp]
      /\ oracle.max_staleness \in Nat /\ oracle.required_confirmations \in Nat
  BY OracleKeepsInv, MaxTimeAssumption DEF OracleInv, Time
<1>2. Age(timestamp) = IF timestamp <= now THEN now - timestamp ELSE 0
  BY <1>1, AgeIsSaturating
<1>3. Age(timestamp)' = IF timestamp <= now' THEN now' - timestamp ELSE 0
  <2>1. Age(timestamp)' = Max({now' - timestamp, 0})
    BY DEF Age
  <2> QED  BY <1>1, <2>1, LargerOfTwo
<1>4. Age(timestamp) \in Nat /\ Age(timestamp)' \in Nat /\ Age(timestamp) <= Age(timestamp)'
      /\ (now' = now => Age(timestamp)' = Age(timestamp))
  <2>1. PICK at, later, age, older :
          at = now /\ later = now' /\ age = Age(timestamp) /\ older = Age(timestamp)'
    OBVIOUS
  <2>2. at \in Nat /\ later \in Nat /\ at <= later /\ timestamp \in Nat
    BY <1>1, <2>1
  <2>3. age = (IF timestamp <= at THEN at - timestamp ELSE 0)
    BY <1>2, <2>1, Zenon
  <2>4. older = (IF timestamp <= later THEN later - timestamp ELSE 0)
    BY <1>3, <2>1, Zenon
  <2>5. age \in Nat /\ older \in Nat /\ age <= older /\ (at = later => age = older)
    BY <2>2, <2>3, <2>4, AgesGrow
  <2> QED  BY <2>1, <2>5, Zenon
<1> QED  BY <1>1, <1>4 DEF Valid

-----------------------------------------------------------------------------
(* What is on record about outages.                                        *)

\* For every set of outages and every length of time: first reports and final
\* resolutions stand and the delay told is the delay booked; excuses outlive their
\* interval and are counted as they are applied; tags never close a cycle, count
\* every downtime once, and are resolved to a root exactly within resolve_root's
\* steps; and what an oracle reports only goes stale (resolution_delay.rs,
\* force_majeure.rs, outage_correlation_tag.rs, oracle.rs).
THEOREM OutageRecordsCohere == SatellitesSpec => OutageRecordsHold
PROOF
<1>1. SatellitesInit =>
        /\ About({"resolutions"}) => ReportsInv
        /\ About({"excuses"}) => ExcuseInv
        /\ About({"correlations"}) => CorrelationInv
        /\ About({"oracle"}) => OracleInv
  BY ReportsBegin, ExcusesBegin, CorrelationBegins, OracleBegins, Zenon DEF SatellitesInit
<1>2. ASSUME About({"resolutions"}) => ReportsInv, [SatellitesNext]_satelliteVars
      PROVE  /\ (About({"resolutions"}) => ReportsInv)'
             /\ About({"resolutions"}) => FirstReportsStand
  <2>1. part' = part /\ (part = "resolutions" => [ResolutionNext]_<<now, resolutionVars>>)
    BY <1>2, StepsAreTheParts
  <2> QED  BY <1>2, <2>1, ReportsKeepInv, ReportsStand DEF About
<1>3. ASSUME About({"excuses"}) => ExcuseInv, [SatellitesNext]_satelliteVars
      PROVE  /\ (About({"excuses"}) => ExcuseInv)'
             /\ About({"excuses"}) => ExcuseOutlivesItsInterval
  <2>1. part' = part /\ (part = "excuses" => ForceMajeureNext \/ UNCHANGED <<now, excuseVars>>)
    BY <1>3, StepsAreTheParts
  <2> QED  BY <1>3, <2>1, ExcusesKeepInv DEF About
<1>4. ASSUME About({"correlations"}) => CorrelationInv, [SatellitesNext]_satelliteVars
      PROVE  (About({"correlations"}) => CorrelationInv)'
  BY <1>4, StepsAreTheParts, CorrelationKeepsInv DEF About
<1>5. ASSUME About({"oracle"}) => OracleInv, [SatellitesNext]_satelliteVars
      PROVE  /\ (About({"oracle"}) => OracleInv)'
             /\ About({"oracle"}) => FreshnessOnlyLapses
  <2>1. part' = part /\ (part = "oracle" => OracleNext \/ UNCHANGED <<now, oracleVars>>)
    BY <1>5, StepsAreTheParts
  <2> QED  BY <1>5, <2>1, OracleKeepsInv, FreshnessLapses DEF About
<1>6. CorrelationInv => CorrelationsHold
  BY CorrelatedForest
<1>7. ExcuseInv => ForceMajeureTypeOK
  BY DEF ExcuseInv
<1> QED
  BY <1>1, <1>2, <1>3, <1>4, <1>5, <1>6, <1>7, DelaysAreForecast, ExcusesAreCounted, NewerServes, PTL
     DEF SatellitesSpec, OutageRecordsHold

-----------------------------------------------------------------------------
(* Sites that depend on each other.                                        *)

SiteRanked(rank) ==
    /\ rank \in [Site -> Nat]
    /\ \A site \in Site : siteParent[site] # NoSite => rank[siteParent[site]] < rank[site]

\* The sites of a higher rank.
Higher(rank, site) == {other \in Site : rank[other] > rank[site]}

ParentsOf(sites) == {siteParent[site] : site \in sites \ {NoSite}}

\* f collects parents, beginning with some sites and adding some each time.
Collects(f, first, more, height) ==
    f = [n \in 0..height |-> IF n = 0 THEN first ELSE more \cup ParentsOf(f[n - 1])]

LEMMA CollectsStep ==
    ASSUME NEW f, NEW first, NEW more, NEW height \in Nat, Collects(f, first, more, height)
    PROVE  /\ f[0] = first
           /\ \A n \in 1..height : f[n] = more \cup ParentsOf(f[n - 1])
PROOF
<1>1. \A n \in 0..height : f[n] = IF n = 0 THEN first ELSE more \cup ParentsOf(f[n - 1])
  BY Zenon DEF Collects
<1>2. 0 \in 0..height /\ \A n \in 1..height : n \in 0..height /\ n # 0
  OBVIOUS
<1> QED  BY <1>1, <1>2, Zenon

LEMMA CollectsExists ==
    ASSUME NEW first, NEW more, NEW height \in Nat
    PROVE  \E f : Collects(f, first, more, height)
PROOF
<1> DEFINE Bad == {d \in Nat : ~\E f : Collects(f, first, more, d)}
<1>1. SUFFICES ASSUME Bad # {} PROVE FALSE
  OBVIOUS
<1>2. PICK n \in Bad : \A k \in Bad : n <= k
  <2>1. Bad \subseteq Nat
    OBVIOUS
  <2> HIDE DEF Bad
  <2> QED  BY <1>1, <2>1, LeastNatural
<1>3. n \in Nat /\ ~\E f : Collects(f, first, more, n)
  OBVIOUS
<1>4. CASE n = 0
  <2> DEFINE f == [d \in 0..0 |-> first]
  <2>1. \A d \in 0..0 : d = 0
    OBVIOUS
  <2>2. Collects(f, first, more, 0)
    BY <2>1, Zenon DEF Collects
  <2> QED  BY <1>3, <1>4, <2>2
<1>5. CASE n # 0
  <2>1. n - 1 \in Nat /\ n - 1 \notin Bad
    BY <1>2, <1>3, <1>5
  <2>2. PICK f : Collects(f, first, more, n - 1)
    BY <2>1
  <2> DEFINE g == [d \in 0..n |-> IF d = n THEN more \cup ParentsOf(f[n - 1]) ELSE f[d]]
  <2>3. f[0] = first /\ \A d \in 1..(n - 1) : f[d] = more \cup ParentsOf(f[d - 1])
    BY <2>1, <2>2, CollectsStep
  <2>4. ASSUME NEW d \in 0..n PROVE g[d] = IF d = 0 THEN first ELSE more \cup ParentsOf(g[d - 1])
    <3>1. CASE d = 0
      BY <1>3, <1>5, <2>3, <3>1
    <3>2. CASE d = n
      <4>1. g[n] = more \cup ParentsOf(f[n - 1]) /\ g[n - 1] = f[n - 1]
        BY <1>3, <1>5
      <4> QED  BY <1>5, <3>2, <4>1
    <3>3. CASE d # 0 /\ d # n
      <4>1. d \in 1..(n - 1) /\ d - 1 \in 0..n /\ d - 1 # n
        BY <1>3, <3>3
      <4>2. g[d] = f[d] /\ g[d - 1] = f[d - 1]
        BY <3>3, <4>1
      <4> QED  BY <2>3, <3>3, <4>1, <4>2
    <3> QED  BY <3>1, <3>2, <3>3
  <2>5. g = [d \in 0..n |-> g[d]]
    OBVIOUS
  <2> HIDE DEF g
  <2>6. g = [d \in 0..n |-> IF d = 0 THEN first ELSE more \cup ParentsOf(g[d - 1])]
    BY <2>4, <2>5, Zenon
  <2>7. Collects(g, first, more, n)
    BY <2>6, Zenon DEF Collects
  <2> QED  BY <1>3, <2>7
<1> QED  BY <1>4, <1>5

SitesOK == siteParent \in [Site -> Site \cup {NoSite}]

\* A parent has a higher site more than its child.
LEMMA ParentIsHigher ==
    ASSUME SitesOK, NEW rank, SiteRanked(rank), NEW site \in Site, siteParent[site] # NoSite
    PROVE  /\ siteParent[site] \in Site
           /\ Cardinality(Higher(rank, site)) \in Nat
           /\ Cardinality(Higher(rank, siteParent[site])) >= Cardinality(Higher(rank, site)) + 1
PROOF
<1> DEFINE parent == siteParent[site]
           some == Higher(rank, site)
<1>1. parent \in Site /\ rank[parent] < rank[site] /\ \A o \in Site : rank[o] \in Nat
  BY DEF SitesOK, SiteRanked
<1>2. IsFiniteSet(some) /\ site \notin some /\ IsFiniteSet(Higher(rank, parent))
  <2>1. some \subseteq Site /\ Higher(rank, parent) \subseteq Site /\ site \notin some
    BY <1>1 DEF Higher
  <2> QED  BY <2>1, SiteAssumption, FS_Subset
<1> HIDE DEF parent
<1>3. some \cup {site} \subseteq Higher(rank, parent)
  BY <1>1 DEF Higher
<1> HIDE DEF some
<1>4. Cardinality(some \cup {site}) = Cardinality(some) + 1 /\ Cardinality(some) \in Nat
  BY <1>2, FS_AddElement, FS_CardinalityType
<1>5. Cardinality(some \cup {site}) <= Cardinality(Higher(rank, parent))
  BY <1>2, <1>3, FS_Subset
<1>6. Cardinality(Higher(rank, parent)) \in Nat
  BY <1>2, FS_CardinalityType
<1> QED  BY <1>1, <1>4, <1>5, <1>6 DEF parent, some

\* No site has all the others and itself above it.
LEMMA HigherAreFewer ==
    ASSUME NEW rank, SiteRanked(rank), NEW site \in Site
    PROVE  /\ Cardinality(Higher(rank, site)) \in Nat /\ Cardinality(Site) \in Nat
           /\ Cardinality(Higher(rank, site)) < Cardinality(Site)
PROOF
<1> DEFINE some == Higher(rank, site)
<1>1. some \subseteq Site /\ site \notin some
  BY DEF Higher, SiteRanked
<1>2. IsFiniteSet(some) /\ some \cup {site} \subseteq Site
  BY <1>1, SiteAssumption, FS_Subset
<1> HIDE DEF some
<1>3. Cardinality(some \cup {site}) = Cardinality(some) + 1 /\ Cardinality(some) \in Nat
  BY <1>1, <1>2, FS_AddElement, FS_CardinalityType
<1>4. Cardinality(some \cup {site}) <= Cardinality(Site) /\ Cardinality(Site) \in Nat
  BY <1>2, SiteAssumption, FS_Subset, FS_CardinalityType
<1> QED  BY <1>3, <1>4 DEF some

\* The ancestry has collected everything after as many steps as there are sites:
\* it has a parent of each of its sites.
LEMMA AncestryIsClosed ==
    ASSUME SitesOK, NEW rank, SiteRanked(rank), NEW start \in Site
    PROVE  /\ Ancestry(start) \subseteq Site /\ start \in Ancestry(start)
           /\ \A site \in Ancestry(start) : siteParent[site] # NoSite => siteParent[site] \in Ancestry(start)
PROOF
<1> DEFINE size == Cardinality(Site)
           walked == CHOOSE f : Collects(f, {start}, {start}, size)
           Fine(n) == /\ start \in walked[n] /\ walked[n] \subseteq Site \cup {NoSite}
                      /\ \A site \in walked[n] \ {NoSite} :
                           \/ Cardinality(Higher(rank, site)) >= n
                           \/ siteParent[site] \in walked[n] \cup {NoSite}
           Bad == {n \in 0..size : ~Fine(n)}
<1>1. size \in Nat
  BY SiteAssumption, FS_CardinalityType
<1>2. Collects(walked, {start}, {start}, size)
  BY <1>1, CollectsExists
<1>3. Ancestry(start) = walked[size] \ {NoSite}
  BY Zenon DEF Ancestry, Collects, ParentsOf
<1> HIDE DEF walked, size
<1>4. walked[0] = {start} /\ \A n \in 1..size : walked[n] = {start} \cup ParentsOf(walked[n - 1])
  BY <1>1, <1>2, CollectsStep
<1>5. Bad = {}
  <2>1. SUFFICES ASSUME Bad # {} PROVE FALSE
    OBVIOUS
  <2>2. PICK n \in Bad : \A k \in Bad : n <= k
    <3>1. Bad \subseteq Nat
      BY <1>1
    <3> HIDE DEF Bad
    <3> QED  BY <2>1, <3>1, LeastNatural
  <2>3. n \in 0..size /\ n \in Nat /\ ~Fine(n)
    BY <1>1
  <2>4. CASE n = 0
    <3>1. \A site \in Site : Cardinality(Higher(rank, site)) >= 0
      BY HigherAreFewer
    <3> QED  BY <1>4, <2>3, <2>4, <3>1
  <2>5. CASE n # 0
    <3>1. PICK m \in 0..size : n = m + 1 /\ m \in Nat
      <4>1. n - 1 \in 0..size /\ n = (n - 1) + 1 /\ n - 1 \in Nat
        BY <1>1, <2>3, <2>5
      <4> QED  BY <4>1
    <3>2. Fine(m)
      BY <2>2, <3>1
    <3>3. walked[n] = {start} \cup ParentsOf(walked[m])
      <4>1. n \in 1..size /\ n - 1 = m
        BY <1>1, <2>3, <2>5, <3>1
      <4> QED  BY <1>4, <4>1
    <3>4. \A site \in walked[m] \ {NoSite} : siteParent[site] \in walked[n]
      BY <3>3 DEF ParentsOf
    <3>5. walked[n] \subseteq Site \cup {NoSite}
      BY <3>2, <3>3 DEF ParentsOf, SitesOK
    <3>6. ASSUME NEW site \in walked[n] \ {NoSite}
          PROVE  \/ Cardinality(Higher(rank, site)) >= n
                 \/ siteParent[site] \in walked[n] \cup {NoSite}
      <4>1. CASE site = start
        <5>1. start # NoSite
          BY SiteAssumption
        <5> QED  BY <3>2, <3>4, <4>1, <5>1
      <4>2. CASE site # start
        <5>1. PICK child \in walked[m] \ {NoSite} : site = siteParent[child]
          BY <3>3, <3>6, <4>2 DEF ParentsOf
        <5>2. child \in Site
          BY <3>2, <5>1
        <5>3. CASE Cardinality(Higher(rank, child)) >= m
          BY <3>1, <3>6, <5>1, <5>2, <5>3, ParentIsHigher
        <5>4. CASE siteParent[child] \in walked[m] \cup {NoSite}
          BY <3>4, <3>6, <5>1, <5>4
        <5> QED  BY <3>2, <5>1, <5>3, <5>4
      <4> QED  BY <4>1, <4>2
    <3> QED  BY <2>3, <3>3, <3>5, <3>6
  <2> QED  BY <2>4, <2>5
<1>6. Fine(size)
  <2>1. size \in 0..size
    BY <1>1
  <2> QED  BY <1>5, <2>1
<1>7. ASSUME NEW site \in walked[size] \ {NoSite} PROVE siteParent[site] \in walked[size] \cup {NoSite}
  <2>1. site \in Site
    BY <1>6
  <2>2. Cardinality(Higher(rank, site)) \in Nat /\ Cardinality(Higher(rank, site)) < size
    BY <2>1, HigherAreFewer DEF size
  <2> QED  BY <1>1, <1>6, <2>2
<1> QED  BY <1>3, <1>6, <1>7, SiteAssumption

\* f climbs from all sites to their parents, and to the parents of these.
Climbs(f, height) ==
    f = [n \in 0..height |-> IF n = 0 THEN Site ELSE ParentsOf(f[n - 1])]

LEMMA ClimbsExists ==
    ASSUME NEW height \in Nat
    PROVE  \E f : Climbs(f, height)
PROOF
<1> DEFINE none == {}
<1> HIDE DEF none
<1>1. PICK f : Collects(f, Site, none, height)
  BY CollectsExists
<1>2. f[0] = Site /\ \A n \in 1..height : f[n] = none \cup ParentsOf(f[n - 1])
  BY <1>1, CollectsStep
<1>3. f = [n \in 0..height |-> f[n]]
  <2>1. f = [n \in 0..height |-> IF n = 0 THEN Site ELSE none \cup ParentsOf(f[n - 1])]
    BY <1>1, Zenon DEF Collects
  <2> QED  BY <2>1
<1>4. ASSUME NEW n \in 0..height PROVE f[n] = IF n = 0 THEN Site ELSE ParentsOf(f[n - 1])
  <2>1. CASE n = 0
    BY <1>2, <2>1
  <2>2. CASE n # 0
    <3>1. n \in 1..height
      BY <2>2
    <3>2. f[n] = none \cup ParentsOf(f[n - 1])
      BY <1>2, <3>1
    <3>3. none \cup ParentsOf(f[n - 1]) = ParentsOf(f[n - 1])
      BY DEF none
    <3> QED  BY <2>2, <3>2, <3>3, Zenon
  <2> QED  BY <2>1, <2>2
<1>5. f = [n \in 0..height |-> IF n = 0 THEN Site ELSE ParentsOf(f[n - 1])]
  BY <1>3, <1>4, Zenon
<1> QED  BY <1>5, Zenon DEF Climbs

LEMMA ClimbsStep ==
    ASSUME NEW f, NEW height \in Nat, Climbs(f, height)
    PROVE  f[0] = Site /\ \A n \in 1..height : f[n] = ParentsOf(f[n - 1])
PROOF
<1>1. \A n \in 0..height : f[n] = IF n = 0 THEN Site ELSE ParentsOf(f[n - 1])
  BY Zenon DEF Climbs
<1>2. 0 \in 0..height /\ \A n \in 1..height : n \in 0..height /\ n # 0
  OBVIOUS
<1> QED  BY <1>1, <1>2, Zenon

\* What the climb along some parents ends in.
ClimbEnds(parents) ==
    LET climb[n \in 0..Cardinality(Site)] ==
            IF n = 0 THEN Site ELSE {parents[site] : site \in climb[n - 1] \ {NoSite}}
    IN  climb[Cardinality(Site)] \subseteq {NoSite}

\* Climbing leads out of the sites.
LEMMA RankedEnds ==
    ASSUME SitesOK, NEW rank, SiteRanked(rank)
    PROVE  DependenciesEnd
PROOF
<1> DEFINE size == Cardinality(Site)
           climb == CHOOSE f : Climbs(f, size)
           Fine(n) == /\ climb[n] \subseteq Site \cup {NoSite}
                      /\ \A site \in climb[n] \ {NoSite} : Cardinality(Higher(rank, site)) >= n
           Bad == {n \in 0..size : ~Fine(n)}
<1>1. size \in Nat
  BY SiteAssumption, FS_CardinalityType
<1>2. Climbs(climb, size)
  BY <1>1, ClimbsExists
<1>3. DependenciesEnd <=> climb[size] \subseteq {NoSite}
  <2>1. [site \in Site |-> siteParent[site]] = siteParent
    BY Zenon DEF SitesOK
  <2>2. DependenciesEnd <=> ClimbEnds([site \in Site |-> siteParent[site]])
    BY Zenon DEF DependenciesEnd, ClimbEnds
  <2>3. ClimbEnds(siteParent) <=> climb[size] \subseteq {NoSite}
    BY Zenon DEF ClimbEnds, Climbs, ParentsOf, climb, size
  <2> QED  BY <2>1, <2>2, <2>3, Zenon
<1> HIDE DEF climb, size
<1>4. climb[0] = Site /\ \A n \in 1..size : climb[n] = ParentsOf(climb[n - 1])
  BY <1>1, <1>2, ClimbsStep
<1>5. Bad = {}
  <2>1. SUFFICES ASSUME Bad # {} PROVE FALSE
    OBVIOUS
  <2>2. PICK n \in Bad : \A k \in Bad : n <= k
    <3>1. Bad \subseteq Nat
      BY <1>1
    <3> HIDE DEF Bad
    <3> QED  BY <2>1, <3>1, LeastNatural
  <2>3. n \in 0..size /\ n \in Nat /\ ~Fine(n)
    BY <1>1
  <2>4. CASE n = 0
    <3>1. \A site \in Site : Cardinality(Higher(rank, site)) >= 0
      BY HigherAreFewer
    <3> QED  BY <1>4, <2>3, <2>4, <3>1
  <2>5. CASE n # 0
    <3>1. PICK m \in 0..size : n = m + 1 /\ m \in Nat
      <4>1. n - 1 \in 0..size /\ n = (n - 1) + 1 /\ n - 1 \in Nat
        BY <1>1, <2>3, <2>5
      <4> QED  BY <4>1
    <3>2. Fine(m)
      BY <2>2, <3>1
    <3>3. climb[n] = ParentsOf(climb[m])
      <4>1. n \in 1..size /\ n - 1 = m
        BY <1>1, <2>3, <2>5, <3>1
      <4> QED  BY <1>4, <4>1
    <3>5. climb[n] \subseteq Site \cup {NoSite}
      BY <3>2, <3>3 DEF ParentsOf, SitesOK
    <3>6. ASSUME NEW site \in climb[n] \ {NoSite} PROVE Cardinality(Higher(rank, site)) >= n
      <4>1. PICK child \in climb[m] \ {NoSite} : site = siteParent[child]
        BY <3>3, <3>6 DEF ParentsOf
      <4>2. child \in Site /\ Cardinality(Higher(rank, child)) >= m
        BY <3>2, <4>1
      <4>3. siteParent[child] # NoSite /\ site \in Site
        BY <3>5, <3>6, <4>1
      <4>4. /\ Cardinality(Higher(rank, child)) \in Nat
            /\ Cardinality(Higher(rank, site)) >= Cardinality(Higher(rank, child)) + 1
        BY <4>1, <4>2, <4>3, ParentIsHigher
      <4>5. Cardinality(Higher(rank, site)) \in Nat
        BY <4>3, HigherAreFewer
      <4> QED  BY <3>1, <4>2, <4>4, <4>5
    <3> QED  BY <2>3, <3>5, <3>6
  <2> QED  BY <2>4, <2>5
<1>6. Fine(size)
  <2>1. size \in 0..size
    BY <1>1
  <2> QED  BY <1>5, <2>1
<1>7. climb[size] \subseteq {NoSite}
  <2> SUFFICES ASSUME NEW site \in climb[size], site # NoSite PROVE FALSE
    OBVIOUS
  <2>1. site \in Site /\ Cardinality(Higher(rank, site)) >= size
    BY <1>6
  <2>2. Cardinality(Higher(rank, site)) \in Nat /\ Cardinality(Higher(rank, site)) < size
    BY <2>1, HigherAreFewer DEF size
  <2> QED  BY <1>1, <2>1, <2>2
<1> QED  BY <1>3, <1>7

SiteInv == DependencyTypeOK /\ FlagsCanBeCleared /\ \E rank : SiteRanked(rank)

LEMMA SitesBegin == DependencyInit => SiteInv
PROOF
<1> SUFFICES ASSUME DependencyInit PROVE SiteInv
  OBVIOUS
<1>1. SiteRanked([site \in Site |-> 0])
  BY DEF DependencyInit, SiteRanked
<1>2. DependencyTypeOK /\ FlagsCanBeCleared
  BY SiteAssumption DEF DependencyInit, DependencyTypeOK, FlagsCanBeCleared, STATUS_OPERATIONAL
<1> QED  BY <1>1, <1>2 DEF SiteInv

\* A parent that is not above itself leaves the sites ranked: all sites but
\* those above the child are raised above the parent.
LEMMA SiteRankRaised ==
    ASSUME DependencyTypeOK, NEW rank, SiteRanked(rank),
           NEW parent \in Site, NEW child \in Site, RegisterDependency(parent, child)
    PROVE  \E raised : SiteRanked(raised)'
PROOF
<1> DEFINE above == Ancestry(parent)
           lift == rank[parent] + 1
           raised == [site \in Site |-> IF site \in above THEN rank[site] ELSE rank[site] + lift]
<1>1. above \subseteq Site /\ parent \in above
      /\ \A site \in above : siteParent[site] # NoSite => siteParent[site] \in above
  BY AncestryIsClosed DEF DependencyTypeOK, SitesOK
<1>2. child \notin above
  BY DEF RegisterDependency, would_close_cycle
<1> HIDE DEF above
<1>3. \A site \in Site : rank[site] \in Nat
  BY DEF SiteRanked
<1>4. lift \in Nat /\ rank[parent] < lift
  BY <1>3
<1> HIDE DEF lift
<1>5. raised \in [Site -> Nat]
  BY <1>3, <1>4
<1>6. \A site \in Site : siteParent'[site] = IF site = child THEN parent ELSE siteParent[site]
  BY DEF RegisterDependency, DependencyTypeOK
<1>7. \A site \in Site : raised[site] = IF site \in above THEN rank[site] ELSE rank[site] + lift
  OBVIOUS
<1> HIDE DEF raised
<1>8. ASSUME NEW site \in Site, siteParent'[site] # NoSite
      PROVE  raised[siteParent'[site]] < raised[site]
  <2>1. CASE site = child
    <3>1. raised[parent] = rank[parent] /\ raised[child] = rank[child] + lift
      BY <1>1, <1>2, <1>7
    <3> QED  BY <1>3, <1>4, <1>6, <2>1, <3>1
  <2>2. CASE site # child
    <3>1. siteParent'[site] = siteParent[site] /\ siteParent[site] \in Site
      BY <1>6, <1>8, <2>2 DEF DependencyTypeOK
    <3>2. rank[siteParent[site]] < rank[site]
      BY <1>8, <3>1 DEF SiteRanked
    <3>3. CASE site \in above
      BY <1>1, <1>7, <1>8, <3>1, <3>2, <3>3
    <3>4. CASE site \notin above
      <4>1. raised[site] = rank[site] + lift
        BY <1>7, <3>4
      <4>2. raised[siteParent[site]] \in {rank[siteParent[site]], rank[siteParent[site]] + lift}
        BY <1>7, <3>1
      <4> QED  BY <1>3, <1>4, <3>1, <3>2, <4>1, <4>2
    <3> QED  BY <3>3, <3>4
  <2> QED  BY <2>1, <2>2
<1>9. PICK higher : higher = raised
  OBVIOUS
<1>10. SiteRanked(higher)'
  BY <1>5, <1>8, <1>9 DEF SiteRanked
<1> QED  BY <1>10

LEMMA SitesKeepInv == SiteInv /\ [DependencyNext]_dependencyVars => SiteInv'
PROOF
<1>1. ASSUME SiteInv, NEW parent \in Site, NEW child \in Site, RegisterDependency(parent, child)
      PROVE  SiteInv'
  <2>1. \E raised : SiteRanked(raised)'
    BY <1>1, SiteRankRaised DEF SiteInv
  <2>2. DependencyTypeOK'
    BY <1>1 DEF SiteInv, RegisterDependency, DependencyTypeOK
  <2>3. /\ \A site \in Site : siteParent'[site] = IF site = child THEN parent ELSE siteParent[site]
        /\ \A site \in Site :
             siteChildren'[site] = IF site = parent THEN siteChildren[site] \cup {child} ELSE siteChildren[site]
    BY <1>1 DEF SiteInv, RegisterDependency, DependencyTypeOK
  <2>4. autoDegraded' = autoDegraded
    BY <1>1 DEF RegisterDependency
  <2>5. FlagsCanBeCleared'
    <3> SUFFICES ASSUME NEW site \in Site
                 PROVE  /\ siteParent'[site] # NoSite => site \in siteChildren'[siteParent'[site]]
                        /\ autoDegraded'[site] => \E p \in Site : site \in siteChildren'[p]
      BY DEF FlagsCanBeCleared
    <3>1. siteParent'[site] \in Site \cup {NoSite}
      BY <2>2 DEF DependencyTypeOK
    <3>2. siteParent'[site] # NoSite => site \in siteChildren'[siteParent'[site]]
      BY <1>1, <2>3, <3>1 DEF SiteInv, FlagsCanBeCleared
    <3>3. autoDegraded'[site] => \E p \in Site : site \in siteChildren'[p]
      BY <1>1, <2>3, <2>4 DEF SiteInv, FlagsCanBeCleared
    <3> QED  BY <3>2, <3>3
  <2> QED  BY <2>1, <2>2, <2>5 DEF SiteInv
<1>2. ASSUME SiteInv, NEW site \in Site, NEW status \in Statuses, ReportStatus(site, status)
      PROVE  SiteInv'
  <2>2. UNCHANGED <<siteParent, siteChildren, autoDegraded>>
    BY <1>2 DEF ReportStatus
  <2>3. DependencyTypeOK'
    BY <1>2, <2>2 DEF SiteInv, ReportStatus, DependencyTypeOK
  <2> QED  BY <1>2, <2>2, <2>3 DEF SiteInv, FlagsCanBeCleared, SiteRanked
<1>3. ASSUME SiteInv, NEW parent \in Site, PropagateOutage(parent) \/ ClearOutage(parent) PROVE SiteInv'
  <2>1. UNCHANGED <<siteParent, siteChildren, manualStatus>>
    BY <1>3 DEF PropagateOutage, ClearOutage
  <2>2. autoDegraded' \in [Site -> BOOLEAN]
    <3>1. \A site \in Site : autoDegraded[site] \in BOOLEAN
      BY <1>3 DEF SiteInv, DependencyTypeOK
    <3> QED  BY <1>3, <3>1 DEF PropagateOutage, ClearOutage
  <2>3. DependencyTypeOK'
    BY <1>3, <2>1, <2>2 DEF SiteInv, DependencyTypeOK
  <2>4. \A site \in Site : autoDegraded'[site] => autoDegraded[site] \/ site \in siteChildren[parent]
    BY <1>3 DEF PropagateOutage, ClearOutage
  <2> QED  BY <1>3, <2>1, <2>3, <2>4 DEF SiteInv, FlagsCanBeCleared, SiteRanked
<1>4. ASSUME SiteInv, UNCHANGED dependencyVars PROVE SiteInv'
  BY <1>4 DEF dependencyVars, SiteInv, DependencyTypeOK, FlagsCanBeCleared, SiteRanked
<1> QED  BY <1>1, <1>2, <1>3, <1>4 DEF DependencyNext

LEMMA SitesEnd == SiteInv => DependenciesEnd
PROOF
  BY RankedEnds DEF SiteInv, SitesOK, DependencyTypeOK

LEMMA StatusesFollow ==
    ASSUME SiteInv, [DependencyNext]_dependencyVars
    PROVE  StatusFollowsReports
PROOF
<1> USE DEF STATUS_OPERATIONAL, STATUS_DEGRADED, STATUS_DOWN
<1>1. \A site \in Site : manualStatus[site] \in Nat /\ autoDegraded[site] \in BOOLEAN
  BY SiteAssumption DEF SiteInv, DependencyTypeOK
<1>2. \A site \in Site : manualStatus'[site] \in Nat /\ autoDegraded'[site] \in BOOLEAN
  BY SitesKeepInv, SiteAssumption DEF SiteInv, DependencyTypeOK
<1>3. /\ \A site \in Site : site_status(site) = IF manualStatus[site] = 2 THEN 2
                              ELSE IF autoDegraded[site] THEN 1 ELSE manualStatus[site]
      /\ \A site \in Site : site_status(site)' = IF manualStatus'[site] = 2 THEN 2
                              ELSE IF autoDegraded'[site] THEN 1 ELSE manualStatus'[site]
  BY DEF site_status
<1>4. ASSUME NEW site \in Site, site_status(site)' # site_status(site), site_status(site)' # STATUS_DEGRADED,
             manualStatus' = manualStatus
      PROVE  autoDegraded[site] /\ ~autoDegraded'[site]
  BY <1>1, <1>2, <1>3, <1>4
<1>5. ASSUME NEW site \in Site, autoDegraded[site], ~autoDegraded'[site]
      PROVE  \E parent \in Site : /\ site \in siteChildren[parent]
                                  /\ \A child \in siteChildren[parent] : ~autoDegraded'[child]
  <2>1. PICK parent \in Site : ClearOutage(parent)
    BY <1>5 DEF DependencyNext, dependencyVars, RegisterDependency, ReportStatus, PropagateOutage
  <2>2. siteChildren[parent] \subseteq Site
    BY DEF SiteInv, DependencyTypeOK
  <2> QED  BY <1>5, <2>1, <2>2 DEF ClearOutage
<1> QED  BY <1>3, <1>4, <1>5 DEF StatusFollowsReports

-----------------------------------------------------------------------------
(* Calls into other contracts.                                             *)

CallsInv ==
    /\ CoordinationTypeOK /\ CallsAreTracked
    /\ manager = NoManager => authorized = {}

LEMMA CallsBegin == CoordinationInit => CallsInv
PROOF
  BY DEF CoordinationInit, CallsInv, CoordinationTypeOK, CallsAreTracked

LEMMA CallsKeepInv == CallsInv /\ [CoordinationNext]_coordinationVars => CallsInv'
PROOF
<1> SUFFICES ASSUME CallsInv, [CoordinationNext]_coordinationVars PROVE CallsInv'
  OBVIOUS
<1>1. ASSUME NEW account \in Manager,
             \/ InitializeAdmin(account)
             \/ \E peer \in Peer : AddAuthorizedCaller(account, peer) \/ RemoveAuthorizedCaller(account, peer)
      PROVE  CallsInv'
  <2>1. UNCHANGED trackerVars
    BY <1>1 DEF InitializeAdmin, AddAuthorizedCaller, RemoveAuthorizedCaller
  <2>2. /\ manager' \in Manager \cup {NoManager} /\ authorized' \subseteq Peer
        /\ registrar' \in Manager \cup {NoManager} /\ manager' # NoManager
    BY <1>1, ProtocolAssumption
       DEF InitializeAdmin, AddAuthorizedCaller, RemoveAuthorizedCaller, CallsInv, CoordinationTypeOK
  <2> QED  BY <2>1, <2>2 DEF CallsInv, CoordinationTypeOK, CallsAreTracked, trackerVars
<1>2. CASE NewTracker
  BY <1>2 DEF NewTracker, registryVars, CallsInv, CoordinationTypeOK, CallsAreTracked
<1>3. ASSUME NEW tag \in Tag, NEW status \in safe_invoke_contract, Call(tag, status) PROVE CallsInv'
  <2>1. effects = compensations /\ effects \in Seq(Tag) /\ Append(effects, tag) \in Seq(Tag)
    BY DEF CallsInv, CoordinationTypeOK, CallsAreTracked
  <2>2. status = "Success" \/ status = "FatalError"
    BY DEF safe_invoke_contract
  <2>3. compensations' = effects' /\ effects' \in Seq(Tag) /\ UNCHANGED registryVars
    BY <1>3, <2>1, <2>2 DEF Call
  <2> QED  BY <2>3 DEF registryVars, CallsInv, CoordinationTypeOK, CallsAreTracked
<1>4. CASE UNCHANGED coordinationVars
  BY <1>4 DEF coordinationVars, registryVars, trackerVars, CallsInv, CoordinationTypeOK, CallsAreTracked
<1> QED  BY <1>1, <1>2, <1>3, <1>4 DEF CoordinationNext

LEMMA RegistryKept ==
    ASSUME CallsInv, [CoordinationNext]_coordinationVars
    PROVE  RegistryIsTheAdmins
PROOF
<1>0. manager = NoManager => authorized = {}
  BY DEF CallsInv
<1>1. ASSUME NEW account \in Manager,
             \/ InitializeAdmin(account)
             \/ \E peer \in Peer : AddAuthorizedCaller(account, peer) \/ RemoveAuthorizedCaller(account, peer)
      PROVE  RegistryIsTheAdmins
  BY <1>0, <1>1 DEF InitializeAdmin, AddAuthorizedCaller, RemoveAuthorizedCaller, RegistryIsTheAdmins
<1>2. ASSUME UNCHANGED registryVars PROVE RegistryIsTheAdmins
  BY <1>0, <1>2 DEF registryVars, RegistryIsTheAdmins
<1>3. NewTracker \/ (\E tag \in Tag, status \in safe_invoke_contract : Call(tag, status)) \/ UNCHANGED coordinationVars
        => UNCHANGED registryVars
  BY DEF NewTracker, Call, coordinationVars
<1> QED  BY <1>1, <1>2, <1>3 DEF CoordinationNext

\* One peer is asked alone, or before or after one with the versions of the
\* contract that asks.
LEMMA AgreementIsMutual == NegotiationIsMutual
PROOF
<1> SUFFICES ASSUME NEW theirs \in ProtocolInputs, NEW oldest \in ProtocolInputs
             PROVE  LET ours == build_negotiation_info
                        peer == Info("peer", theirs, oldest)
                        same == Info("same", ours.protocol_version, ours.min_compatible_protocol)
                        verdict == negotiate_contract_versions(ours, <<peer>>)
                    IN  /\ verdict = negotiate_contract_versions(peer, <<ours>>)
                        /\ negotiate_contract_versions(ours, <<same, peer>>) = verdict
                        /\ negotiate_contract_versions(ours, <<peer, same>>) = verdict
  BY Zenon DEF NegotiationIsMutual
<1> DEFINE ours == build_negotiation_info
           peer == Info("peer", theirs, oldest)
           same == Info("same", ours.protocol_version, ours.min_compatible_protocol)
           Judged(bad, differs) ==
             IF bad THEN "Incompatible" ELSE IF differs THEN "Negotiated" ELSE "Compatible"
           fits == theirs >= MIN_COMPATIBLE_PROTOCOL /\ PROTOCOL_VERSION >= oldest
<1>1. /\ PROTOCOL_VERSION \in Nat /\ MIN_COMPATIBLE_PROTOCOL \in Nat /\ theirs \in Nat /\ oldest \in Nat
      /\ MIN_COMPATIBLE_PROTOCOL <= PROTOCOL_VERSION
  BY ProtocolAssumption
<1>2. /\ ours.protocol_version = PROTOCOL_VERSION /\ same.protocol_version = PROTOCOL_VERSION
      /\ peer.protocol_version = theirs
  BY DEF build_negotiation_info, Info
<1>3. /\ Mismatches(ours, peer) = {} <=> fits
      /\ Mismatches(peer, ours) = {} <=> fits
      /\ Mismatches(ours, same) = {}
  BY <1>1 DEF build_negotiation_info, Info, Mismatches
<1> HIDE DEF ours, peer, same, fits
<1>4. ASSUME NEW info, NEW other
      PROVE  negotiate_contract_versions(info, <<other>>) =
               Judged(Mismatches(info, other) # {}, other.protocol_version # info.protocol_version)
  <2>1. DOMAIN <<other>> = {1} /\ <<other>>[1] = other
    OBVIOUS
  <2> QED  BY <2>1, Zenon DEF negotiate_contract_versions
<1>5. ASSUME NEW info, NEW one, NEW other
      PROVE  negotiate_contract_versions(info, <<one, other>>) =
               Judged(Mismatches(info, one) # {} \/ Mismatches(info, other) # {},
                       one.protocol_version # info.protocol_version
                         \/ other.protocol_version # info.protocol_version)
  <2>1. DOMAIN <<one, other>> = {1, 2} /\ <<one, other>>[1] = one /\ <<one, other>>[2] = other
    OBVIOUS
  <2> QED  BY <2>1 DEF negotiate_contract_versions
<1> HIDE DEF Judged
<1>6. /\ negotiate_contract_versions(ours, <<peer>>) = Judged(~fits, theirs # PROTOCOL_VERSION)
      /\ negotiate_contract_versions(peer, <<ours>>) = Judged(~fits, PROTOCOL_VERSION # theirs)
  BY <1>2, <1>3, <1>4
<1>7. /\ negotiate_contract_versions(ours, <<same, peer>>) =
           Judged(~fits, PROTOCOL_VERSION # PROTOCOL_VERSION \/ theirs # PROTOCOL_VERSION)
      /\ negotiate_contract_versions(ours, <<peer, same>>) =
           Judged(~fits, theirs # PROTOCOL_VERSION \/ PROTOCOL_VERSION # PROTOCOL_VERSION)
  BY <1>2, <1>3, <1>5
<1>8. /\ (PROTOCOL_VERSION # PROTOCOL_VERSION \/ theirs # PROTOCOL_VERSION) = (theirs # PROTOCOL_VERSION)
      /\ (theirs # PROTOCOL_VERSION \/ PROTOCOL_VERSION # PROTOCOL_VERSION) = (theirs # PROTOCOL_VERSION)
      /\ (PROTOCOL_VERSION # theirs) = (theirs # PROTOCOL_VERSION)
  OBVIOUS
<1> QED  BY <1>6, <1>7, <1>8 DEF ours, peer, same

-----------------------------------------------------------------------------
(* Other sites and contracts.                                              *)

\* For every set of sites and of peers, and all numbers of versions: sites that
\* depend on each other never close a cycle and their flags can be cleared;
\* statuses follow reports; calls are tracked as they take effect and the registry
\* of callers is its admin's; and the verdict about versions is the same from both
\* sides
\* (dependency_propagation.rs, cross_contract_safety.rs, version_negotiation.rs).
THEOREM PeersCohere == SatellitesSpec => PeersHold
PROOF
<1>1. SatellitesInit =>
        /\ About({"sites"}) => SiteInv
        /\ About({"calls"}) => CallsInv
  BY SitesBegin, CallsBegin, Zenon DEF SatellitesInit
<1>2. ASSUME About({"sites"}) => SiteInv, [SatellitesNext]_satelliteVars
      PROVE  /\ (About({"sites"}) => SiteInv)'
             /\ About({"sites"}) => StatusFollowsReports
  BY <1>2, StepsAreTheParts, SitesKeepInv, StatusesFollow DEF About
<1>3. ASSUME About({"calls"}) => CallsInv, [SatellitesNext]_satelliteVars
      PROVE  /\ (About({"calls"}) => CallsInv)'
             /\ About({"calls"}) => RegistryIsTheAdmins
  BY <1>3, StepsAreTheParts, CallsKeepInv, RegistryKept DEF About
<1>4. SiteInv => DependencyTypeOK /\ DependenciesEnd /\ FlagsCanBeCleared
  BY SitesEnd DEF SiteInv
<1>5. CallsInv => CoordinationTypeOK /\ CallsAreTracked
  BY DEF CallsInv
<1> QED
  BY <1>1, <1>2, <1>3, <1>4, <1>5, AgreementIsMutual, PTL DEF SatellitesSpec, PeersHold
=============================================================================
