-------------------------- MODULE MCDBaaSPlatform --------------------------
(***************************************************************************)
(* Model values for DBaaSPlatform: two or three platforms, of every kind   *)
(* in turn.                                                                *)
(***************************************************************************)
EXTENDS DBaaSPlatform, TLC

CONSTANTS rds, crunchy, plugin, quickstarts, observability

KindOf == rds :> "operator" @@ crunchy :> "operator" @@ plugin :> "plugin" @@
          quickstarts :> "quickstart" @@ observability :> "observability"

KindOfPlatform == [pf \in Platforms |-> KindOf[pf]]

OperatorsAndStack    == {rds, crunchy, observability}
PluginAndQuickstarts == {plugin, quickstarts}
ThreeKinds           == {rds, plugin, observability}

OneStuck   == {crunchy}
OnePresent == {observability}
None       == {}
=============================================================================
