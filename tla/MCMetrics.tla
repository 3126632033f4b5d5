----------------------------- MODULE MCMetrics ------------------------------
(* Instances of Metrics for TLC: three tiers, rows of 1, 2, 4 ticks.        *)
EXTENDS Metrics

MCWidths == <<2, 4>>
MCRetain == <<2, 4, 5>>

=============================================================================
