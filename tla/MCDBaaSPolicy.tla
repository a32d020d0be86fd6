--------------------------- MODULE MCDBaaSPolicy ---------------------------
(***************************************************************************)
(* Model values for DBaaSPolicy.                                           *)
(***************************************************************************)
EXTENDS DBaaSPolicy

CONSTANTS cluster, p2

Two == {cluster, p2}
=============================================================================
