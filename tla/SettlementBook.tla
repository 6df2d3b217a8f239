--------------------------- MODULE SettlementBook ---------------------------
(***************************************************************************)
(* What the calculator promises to those who settle on its results: an      *)
(* outage it remembers is not booked again, a newly booked one is           *)
(* remembered, and the reported balance moves only when one is booked.      *)
(***************************************************************************)
EXTENDS Integers

CONSTANT Outage

VARIABLES
    booked,        \* how many settlements were booked since the book was opened
    balance,       \* rewards minus penalties over them
    remembered     \* the outages that are not booked again

vars == <<booked, balance, remembered>>

Empty == booked = 0 /\ balance = 0 /\ remembered = {}

Init == Empty

\* A new book is opened.
Open == booked' = 0 /\ balance' = 0 /\ remembered' = {}

\* An outage is booked; to keep the memory bounded others may be forgotten.
Settle(outage) ==
    /\ outage \notin remembered
    /\ booked' = booked + 1
    /\ balance' \in Int
    /\ outage \in remembered'
    /\ remembered' \subseteq remembered \cup {outage}

Forget ==
    /\ remembered' \subseteq remembered
    /\ UNCHANGED <<booked, balance>>

Next == Open \/ Forget \/ \E outage \in Outage : Settle(outage)

Spec == Init /\ [][Next]_vars

=============================================================================
