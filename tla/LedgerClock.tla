---------------------------- MODULE LedgerClock ----------------------------
(***************************************************************************)
(* The ledger time the satellite files of the contract read, and the counter *)
(* over fixed windows of it that rate_limit.rs and submission_rate.rs each     *)
(* write out several times.  Calls do not move the time, and several may share *)
(* a timestamp.                                                             *)
(***************************************************************************)
EXTENDS Integers

CONSTANT MaxTime   \* bound on the ledger time

ASSUME MaxTimeAssumption == MaxTime \in Nat

VARIABLE now       \* env.ledger().timestamp()

Time == 0..MaxTime

\* A new ledger closes.
Tick == now < MaxTime /\ now' = now + 1

-----------------------------------------------------------------------------
(* A counter over fixed windows: a window opens with the first event counted *)
(* after the last one has run its length, and only counting moves it.        *)

NoTrack == [count |-> 0, start |-> -1]   \* nothing is stored
Track(time) == [count : Nat, start : time]

\* What a reader takes for the stored value.
Stored(track) == IF track = NoTrack THEN [count |-> 0, start |-> now] ELSE track

Over(track, window) == now - track.start >= window

\* The events of the present window.
InWindow(track, window) == IF Over(Stored(track), window) THEN 0 ELSE track.count

\* The value stored after one more event.
Counted(track, window) ==
    IF Over(Stored(track), window)
      THEN [count |-> 1, start |-> now]
      ELSE [Stored(track) EXCEPT !.count = @ + 1]
=============================================================================
