------------------------ MODULE MCProviderResource ------------------------
(***************************************************************************)
(* Model values for ProviderResource.                                      *)
(***************************************************************************)
EXTENDS ProviderResource

AllKinds == {"inventory", "instance", "connection"}
TwoSpecs == {1, 2}
=============================================================================
