\* One identifier, which is also filed again over an active, a settled or a
\* dismissed dispute (the cap of two active disputes is then never the limit);
\* three voters are one more than a quorum.  The fee of a bond of 40 is 2: it
\* splits evenly between two voters and is lost between three.  A bond may be
\* negative.
CONSTANTS
    a1 = a1
    a2 = a2
    a3 = a3
    Account = {a1, a2, a3}
    Filers = {a1}
    Admin = admin
    DisputeId = {d1}
    NoDispute = NoDispute
    NoPayout = NoPayout
    Evidence = {e1}
    Bonds <- MCBonds
    Ballots <- MCBallots
    Panels <- MCPanels
    MAX_ACTIVE_DISPUTES = 2
    ArbitrationWindow = 1
    MaxTime = 2
    MaxPosted = 80
    MaxEvidence = 1
SPECIFICATION Spec
INVARIANTS
    TypeOK
    BondsCovered
    QuorumSettlesAtOnce
PROPERTIES
    SettledOnce
    FilerNotStuck
CHECK_DEADLOCK FALSE
