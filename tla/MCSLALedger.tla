---------------------------- MODULE MCSLALedger ----------------------------
(* Model checking instance of SLALedger and its views. *)
EXTENDS LedgerViews, TLC

\* Outages are only compared for equality.
Interchangeable == Permutations(Outage)

\* Violated with overtime, less of it under a lower cap; and met under any cap.
MCReports == {[severity |-> "critical", mttr |-> 45], [severity |-> "low", mttr |-> 15]}

\* A dearer penalty at the same threshold, and a threshold equal to that of
\* the next severity, which is refused.
Dearer == DefaultConfig(15, 200, 750)
MCConfigInputs ==
    {[severity |-> "critical", config |-> Dearer],
     [severity |-> "critical", config |-> DefaultConfig(30, 100, 750)]}

\* Two severities are missing, and the other two are out of order.
MCImportInputs ==
    {[NoConfigs EXCEPT !["critical"] = Dearer, !["high"] = DefaultConfig(15, 300, 500)]}

\* Bound: what was settled at time 0 is not followed any further, so that two
\* more times are enough for entries that prune_history_by_age parts by their age.
ClockHasStarted == settled # << >> => now > 0
=============================================================================
