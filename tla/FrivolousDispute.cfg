CONSTANTS
    a1 = a1
    a2 = a2
    a3 = a3
    Account = {a1, a2, a3}
    Filers = {a1}
    Admin = admin
    DisputeId = {d1}
    NoDispute = NoDispute
    NoPayout = NoPayout
    Evidence = {e1}
    Bonds = {40}
    Ballots <- MCBallots
    Panels <- MCFullPanels
    MAX_ACTIVE_DISPUTES = 2
    ArbitrationWindow = 1
    MaxTime = 2
    MaxPosted = 80
    MaxEvidence = 1
SPECIFICATION Spec
PROPERTIES FrivolousDisputeIsSlashed
CHECK_DEADLOCK FALSE
