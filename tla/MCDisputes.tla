----------------------------- MODULE MCDisputes -----------------------------
(* Model checking instance of Disputes. *)
EXTENDS Disputes

CONSTANTS a1, a2, a3

\* Votes with which both decisions can reach a quorum, and all three voters
\* can agree that the dispute was frivolous.
Ballot(arbitrator, decision) ==
    [arbitrator |-> arbitrator, decision |-> decision, frivolous |-> decision = "DismissOutage"]
MCBallots == {Ballot(a, "DismissOutage") : a \in {a1, a2, a3}}
                \cup {Ballot(a, "UpholdOutage") : a \in {a1, a2}}

\* A bond may be negative.
MCBonds == {40, -40}

\* A panel vector that names one of two accounts twice; and one of three.
MCPanels == {{a1, a2}}
MCFullPanels == {{a1, a2, a3}}
=============================================================================
