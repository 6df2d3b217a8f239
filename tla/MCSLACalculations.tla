------------------------- MODULE MCSLACalculations -------------------------
(* Model checking instance of SLACalculations. *)
EXTENDS SLACalculations

\* The defaults; the shortest threshold; thresholds for which the ratings end
\* between two minutes; equal multipliers; and multipliers out of order.
MCConfigChoices ==
    {DefaultConfigs[s] : s \in Severity} \cup
    {DefaultConfig(1, 10000, 1), DefaultConfig(7, 50, 333), DefaultConfig(101, 60, 100000),
     [DefaultConfigs["high"] EXCEPT !.top = 100, !.excel = 100],
     [DefaultConfigs["high"] EXCEPT !.top = 100, !.good = 200]}
=============================================================================
