-------------------------- MODULE MCPlatformUpkeep --------------------------
(***************************************************************************)
(* Model values for PlatformUpkeep.                                        *)
(***************************************************************************)
EXTENDS PlatformUpkeep

TwoHooks       == {"inventory", "policy"}
ThreeAuthTypes == {"dex", "redhat-sso", ""}
=============================================================================
