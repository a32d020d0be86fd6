--------------------------- MODULE MCStatusMetrics ---------------------------
(* Two providers.  A connection is an instance without a phase gauge.     *)
EXTENDS StatusMetrics

TwoKinds == {"inventory", "instance"}
TwoProviders == {"mongodb", "rds"}
=============================================================================
