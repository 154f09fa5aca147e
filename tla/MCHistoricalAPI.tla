-------------------------- MODULE MCHistoricalAPI --------------------------
(* Instances of HistoricalAPI for TLC. *)
EXTENDS HistoricalAPI

OnlyEvents == {"event"}
WithRejected == {"event", "rejected"}
=============================================================================
