----------------------- MODULE MCInventoryAdmission -----------------------
(***************************************************************************)
(* Model values for InventoryAdmission.                                    *)
(***************************************************************************)
EXTENDS InventoryAdmission

TwoNames     == {"one", "two"}
TwoProviders == {"rds", "other"}
TwoClients   == {1, 2}
=============================================================================
