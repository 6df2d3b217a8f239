------------------------------ MODULE MCCustody ------------------------------
(* Who may change what, for TLC: guardian rotation, emergency rollback, the   *)
(* table of penalty rates and the escalation of penalties.  Each file acts on  *)
(* keys of its own, so a behaviour exercises one of them, its part, while the   *)
(* others' storage is as deployed.                                           *)
EXTENDS KeyRotation, EmergencyRollback, TierProposals, Escalations

CONSTANTS
    a1, a2,
    MaxRollbackTime   \* bound on the time of a behaviour with rollbacks

VARIABLE part   \* the file this behaviour is about

custodyVars == <<part, govVars, rotationVars, rollbackVars, tierVars, escalationVars>>

CustodyInit ==
    /\ part \in {"rotation", "rollback", "tiers", "breaches", "penalties"}
    /\ RotationInit
    /\ EmergencyInit
    /\ TierInit /\ (part # "tiers" => steward = a1)
    /\ EscalationInit /\ (part # "penalties" => escalation = NoEscalation)

RestOfPenalties == <<part, govVars, rotationVars, rollbackVars, tierVars>>

\* Bound: the migration key is given to one account only.
KeyGoesTo(holder) == migrationKey'.address \in {NoOne, holder}

CustodyNext ==
    \/ part = "rotation" /\ RotationNext /\ KeyGoesTo(a2)
       /\ UNCHANGED <<part, rollbackVars, tierVars, escalationVars>>
    \/ part = "rollback" /\ EmergencyNext /\ now' <= MaxRollbackTime /\ KeyGoesTo(a2)
       /\ UNCHANGED <<part, rotationVars, tierVars, escalationVars>>
    \/ part = "tiers" /\ TierNext
       /\ UNCHANGED <<part, govVars, rotationVars, rollbackVars, escalationVars>>
    \/ part = "breaches" /\ BreachNext /\ UNCHANGED <<penaltyVars, RestOfPenalties>>
    \/ part = "penalties" /\ PenaltyNext /\ UNCHANGED <<breachVars, RestOfPenalties>>

CustodySpec == CustodyInit /\ [][CustodyNext]_custodyVars

\* A list that is exactly a quorum, one that leaves a guardian out, and two that
\* are refused: an empty one and one with a duplicate.
MCGuardianLists == {<<a1, a2>>, <<a2>>, <<>>, <<a1, a1>>}

\* A change that holds against both copies of the defaults, one that holds
\* against the factory defaults only, and one that is always refused.
MCConfigInputs ==
    {[severity |-> "critical", config |-> DefaultConfig(15, 200, 750)],
     [severity |-> "medium",   config |-> DefaultConfig(60, 10, 250)],
     [severity |-> "critical", config |-> DefaultConfig(30, 100, 750)]}

\* Two severities are missing, and the other two are out of order.
MCImportInputs ==
    {[NoConfigs EXCEPT !["critical"] = DefaultConfig(15, 200, 750),
                       !["high"] = DefaultConfig(15, 300, 500)]}

\* Triggers of two violations and more, with the smallest and the largest
\* multiplier accepted, and some inputs that are refused.
MCTriggers ==
    {[trigger |-> t, multiplier |-> m] : t \in {0, 2, 3}, m \in {100, 500}}
      \cup {[trigger |-> 2, multiplier |-> m] : m \in {99, 501}}
=============================================================================
