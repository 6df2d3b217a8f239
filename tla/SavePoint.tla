----------------------------- MODULE SavePoint -----------------------------
(***************************************************************************)
(* What a save point of some data promises: taking one, for the first time   *)
(* or anew, records the data of that moment; what is restored is what was    *)
(* recorded last, whatever happened to the data in between; and a save point *)
(* serves once, for a restoration or for a fall-back.                       *)
(***************************************************************************)

CONSTANTS
    Data,       \* the values the data may have
    Nothing,    \* nothing is recorded
    Fallback,   \* the data put in place when a save point is given up
    Idle        \* no save point is open

VARIABLES
    current,    \* the data in force
    saved,      \* what a restoration brings back, or Nothing
    ticket      \* who opened the save point and when, or Idle

vars == <<current, saved, ticket>>

Init ==
    /\ current \in Data
    /\ saved = Nothing
    /\ ticket = Idle

Change ==
    /\ current' \in Data
    /\ UNCHANGED <<saved, ticket>>

Save ==
    /\ saved' = current
    /\ ticket' # Idle
    /\ UNCHANGED current

Close(data) ==
    /\ ticket # Idle
    /\ current' = data
    /\ saved' = Nothing
    /\ ticket' = Idle

Next == Change \/ Save \/ Close(saved) \/ Close(Fallback)

Spec == Init /\ [][Next]_vars
=============================================================================
