---------------------------- MODULE MCConversion ----------------------------
(***************************************************************************)
(* Model values for Conversion.                                            *)
(***************************************************************************)
EXTENDS Conversion

AllKinds == ({"policy", "inventory", "connection"} \X {"other"}) \cup
            ({"instance"} \X {"rds"}) \cup
            ({"provider"} \X {"crunchy", "rds"})
AtlasInstance == {<<"instance", "mongodb">>}
TwoValues == {"a", "b"}
=============================================================================
