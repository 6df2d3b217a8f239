---------------------------- MODULE RoleHandoff ----------------------------
(***************************************************************************)
(* What the two-step handoff of a role promises, independently of the      *)
(* role: docs/adr/006-two-phase-admin.md and the README's governance       *)
(* policy.  A role has at most one holder and at most one open offer.  A    *)
(* successor takes over only from an offer made to it, not later than      *)
(* Window after the offer; vacating the role also withdraws the offer, so   *)
(* a vacated role stays vacant until somebody is nominated anew.           *)
(*                                                                         *)
(* SLAGovernance implements this specification twice: for the admin, where *)
(* Appointment is FALSE, and for the operator, whom the admin may also      *)
(* appoint directly.                                                       *)
(***************************************************************************)
EXTENDS Naturals

CONSTANTS
    Party,        \* the addresses that may hold the role
    Nobody,       \* the role is vacant
    NoOffer,      \* no offer is open
    Window,       \* how long an offer can be accepted
    Appointment   \* TRUE if a holder may be put in place without an offer

VARIABLES
    holder,       \* the current holder, or Nobody
    offer,        \* [target, proposed_at], or NoOffer
    clock         \* ledger time

vars == <<holder, offer, clock>>

Init ==
    /\ holder \in Party \cup {Nobody}
    /\ offer = NoOffer
    /\ clock \in Nat

\* Time passes.
Pass ==
    /\ clock' \in Nat
    /\ clock' > clock
    /\ UNCHANGED <<holder, offer>>

\* The role is filled without an offer: always when the contract is set up
\* with the role vacant, later only for a role that allows appointment.
Appoint(p) ==
    /\ holder = Nobody \/ Appointment
    /\ holder' = p
    /\ UNCHANGED <<offer, clock>>

\* An offer is opened, replacing the one that was open.
Propose(p) ==
    /\ offer' = [target |-> p, proposed_at |-> clock]
    /\ UNCHANGED <<holder, clock>>

\* The offer is cancelled, or dropped because it is too old.
Withdraw ==
    /\ offer # NoOffer
    /\ offer' = NoOffer
    /\ UNCHANGED <<holder, clock>>

\* The party the offer was made to takes the role, in time.
Accept(p) ==
    /\ offer # NoOffer
    /\ offer.target = p
    /\ clock <= offer.proposed_at + Window
    /\ holder' = p
    /\ offer' = NoOffer
    /\ UNCHANGED clock

\* The role is given up or revoked, together with the offer.
Vacate ==
    /\ holder' = Nobody
    /\ offer' = NoOffer
    /\ UNCHANGED clock

Next ==
    \/ Pass
    \/ Withdraw
    \/ Vacate
    \/ \E p \in Party : Appoint(p) \/ Propose(p) \/ Accept(p)

Spec == Init /\ [][Next]_vars

=============================================================================
