--------------------------- MODULE MCDBaaSAccess ---------------------------
(***************************************************************************)
(* Two namespaces, the inventory's and another; a policy that opens the    *)
(* inventory, one that opens it by label and disables provisions, and one  *)
(* that the webhooks reject.                                               *)
(***************************************************************************)
EXTENDS DBaaSAccess

TwoNamespaces == {"home", "other"}

Open     == [namespaces |-> {"*"}, selector |-> "nil",
             disableProvisions |-> "nil"]
Labelled == [namespaces |-> {}, selector |-> "label",
             disableProvisions |-> "true"]
Rejected == [namespaces |-> {}, selector |-> "invalid",
             disableProvisions |-> "nil"]

ThreePolicies == {Open, Labelled, Rejected}
=============================================================================
