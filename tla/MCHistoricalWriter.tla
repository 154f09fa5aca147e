------------------------- MODULE MCHistoricalWriter -------------------------
(* Instances of HistoricalWriter for TLC. *)
EXTENDS HistoricalWriter

EveryOutcome == {"event", "rejected", "malformed"}
OnlyEvents == {"event"}
WithRejected == {"event", "rejected"}
=============================================================================
