----------------------------- MODULE Conversion -----------------------------
(***************************************************************************)
(* The two versions of the API.  Objects are stored as v1beta1; a client   *)
(* of v1alpha1 reads and writes them through the conversion webhook, and   *)
(* every write meets the validating webhook in its v1beta1 form.  The      *)
(* module follows one object that clients of both versions create, read,   *)
(* edit and write back, for each of five kinds.                            *)
(*                                                                         *)
(* Abstractions: only specs, and of them what the versions write           *)
(* differently (references and credentials are copied as they are); a      *)
(* status is not written through an update of the spec.  Names and values  *)
(* are members of Values; "" is Go's empty string and Nil its nil.  A list *)
(* of namespaces is one value.                                             *)
(***************************************************************************)
EXTENDS Naturals

CONSTANTS
  Objects,   \* the kinds of objects looked at, each with a provider
  Values,    \* names, parameter values, ...
  Nil,       \* Go's nil
  MaxOps     \* bound: what the clients do

ASSUME ConversionAssumption ==
  /\ Objects \subseteq
       {"policy", "inventory", "connection", "instance", "provider"} \X
       {"crunchy", "mongodb", "rds", "other"}
  /\ "" \notin Values
  /\ MaxOps \in Nat

VARIABLES
  kind,       \* of the object
  provider,   \* its own name, or the one an instance's inventory refers to
  stored,     \* the v1beta1 object in the API server, or Nil
  held,       \* the v1alpha1 form a client has read (and edited), or Nil
  fresh,      \* nobody has written the object since
  last,       \* what that client wrote, if it was the last to write, or Nil
  inventory,  \* the inventory an instance refers to exists
  ops         \* see MaxOps

object == <<kind, provider>>
vars == <<object, stored, held, fresh, last, inventory, ops>>

Optional  == Values \cup {Nil}

(* A reference, by its name, which may be empty.                           *)
Reference == Optional \cup {""}

(* Go's maps: any of the keys, each with a value.                          *)
PartialFn(D, R) == UNION {[d -> R] : d \in SUBSET D}

-----------------------------------------------------------------------------
(* The specs in both versions.                                             *)

Policy == [namespaces : Optional, nsSelector : Optional,
           disableProvisions : Optional]
NoPolicy == [namespaces |-> Nil, nsSelector |-> Nil, disableProvisions |-> Nil]

(* v1beta1's names of the parameters of an instance.                       *)
Parameters == {"name", "cloudProvider", "regions", "teamProject",
               "databaseType", "plan"}

(* v1alpha1's names, which differ from provider to provider.               *)
ProviderFieldsMap ==
  CASE provider = "crunchy" ->
         [f \in {"Name", "Provider"} |->
            IF f = "Name" THEN "name" ELSE "cloudProvider"]
    [] provider = "mongodb" ->
         [f \in {"clusterName", "providerName", "ProjectName"} |->
            CASE f = "clusterName"  -> "name"
              [] f = "providerName" -> "cloudProvider"
              [] f = "ProjectName"  -> "teamProject"]
    [] provider = "rds" -> [f \in {"Engine"} |-> "databaseType"]
    [] provider = "other" -> [f \in {} |-> ""]

(* The other parameters that a v1alpha1 client may hope to keep: the ones  *)
(* its provider knows, as v1alpha1 spells them.  "unknown" is any other.   *)
OtherParams == IF kind = "instance" /\ provider = "mongodb"
               THEN {"clusterName", "providerName", "projectName"}
               ELSE DOMAIN ProviderFieldsMap

(* The values a parameter may get in a conversion besides the client's.    *)
Parameter == Values \cup {"", "FREETRIAL", "us-east-1"}

V1beta1(k) ==
  CASE k = "policy"     -> Policy
    [] k = "inventory"  -> [policy : Policy \cup {Nil}]
    [] k = "connection" -> [serviceID : Values \cup {""},
                            serviceRef : Reference, serviceType : Optional]
    [] k = "instance"   -> [parameters :
                              PartialFn(Parameters, Parameter)]

(* What a client of v1beta1 writes: no parameter of an instance is given   *)
(* as "", and a provider has parameters of each fate in v1alpha1: named,   *)
(* nameless and dropped.                                                   *)
Inputs(k) ==
  CASE k = "instance" -> [parameters : PartialFn(Parameters, Values)]
    [] k = "provider" -> [groupVersion : {"v1beta1"},
                          parameters :
                            PartialFn({"name", "cloudProvider", "regions",
                                       "databaseType"}, Optional)]
    [] OTHER          -> V1beta1(k)

(* What a client of v1alpha1 may read and hold.  (An instance of v1beta1   *)
(* may leave out what v1alpha1 requires, and defaults are none of Values.) *)
AlphaNames == {"Name", "Provider", "clusterName", "providerName",
               "projectName", "Engine", "unknown"}
Readable(k) ==
  CASE k = "policy"     -> Policy
    [] k = "inventory"  -> Policy
    [] k = "connection" -> [instanceID : Values \cup {""},
                            instanceRef : Reference]
    [] k = "instance"   -> [name : Parameter, cloudProvider : Parameter,
                            cloudRegion : Parameter,
                            other : PartialFn(AlphaNames, Parameter)]
    [] k = "provider"   ->
         [parameters :
            SUBSET [name : AlphaNames \cup {"ProjectName", ""},
                    default : Values \cup {"", "AWS", "FREETRIAL"}]]

(* Go's nil is none of the values.                                         *)
ASSUME NilAssumption ==
  /\ Nil \notin Values \cup {"", "AWS", "FREETRIAL"}
  /\ \A k \in {"policy", "inventory", "connection", "instance", "provider"} :
       Nil \notin Readable(k)

(* What it may write: parameters that its provider knows or does not.      *)
V1alpha1(k) ==
  CASE k = "instance" -> [name : Values, cloudProvider : Values \cup {""},
                          cloudRegion : Values \cup {""},
                          other : PartialFn(OtherParams \cup {"unknown"},
                                            Values)]
    [] k = "provider" ->
         {[parameters |-> {[name |-> n, default |-> d[n]] : n \in DOMAIN d}] :
            d \in PartialFn(OtherParams \cup {"unknown"}, Values \cup {""})}
    [] OTHER          -> Readable(k)

-----------------------------------------------------------------------------
(* From v1alpha1 to v1beta1.                                               *)

(* Mutant: the inventory always gets a policy of its own.                  *)
InventoryToAlways(x) == [policy |-> x]

(* An inventory gets a policy of its own when any part of one is set.      *)
InventoryTo(x) == [policy |-> IF x = NoPolicy THEN Nil ELSE x]

ConnectionTo(x) == [serviceID |-> x.instanceID, serviceRef |-> x.instanceRef,
                    serviceType |-> Nil]

(* Mutant: the other parameters keep their names.                          *)
InstanceToSame(x) ==
  LET base == [name |-> x.name, cloudProvider |-> x.cloudProvider,
               regions |-> x.cloudRegion, plan |-> "FREETRIAL"]
  IN [parameters |-> [p \in DOMAIN base \cup DOMAIN x.other |->
                        IF p \in DOMAIN x.other THEN x.other[p] ELSE base[p]]]

(* Three fields become parameters, the other parameters are renamed and    *)
(* may overwrite them, unknown ones are dropped, and the plan is fixed.    *)
InstanceTo(x) ==
  LET known == DOMAIN x.other \cap DOMAIN ProviderFieldsMap
      named == {ProviderFieldsMap[f] : f \in known}
      given == [p \in named |->
                  x.other[CHOOSE f \in known : ProviderFieldsMap[f] = p]]
      base  == [p \in {"name", "cloudProvider", "regions", "plan"} |->
                  CASE p = "name"          -> x.name
                    [] p = "cloudProvider" -> x.cloudProvider
                    [] p = "regions"       -> x.cloudRegion
                    [] p = "plan"          -> "FREETRIAL"]
  IN [parameters |-> [p \in DOMAIN base \cup named |->
                        IF p \in named THEN given[p] ELSE base[p]]]

(* The parameters are renamed, the ones without a name in v1beta1 dropped, *)
(* and with them the defaults of all but the cloud provider.               *)
ProviderTo(x) ==
  LET known == {f \in x.parameters : f.name \in DOMAIN ProviderFieldsMap}
      names == {ProviderFieldsMap[f.name] : f \in known}
      cloud == CHOOSE f \in known : ProviderFieldsMap[f.name] = "cloudProvider"
  IN [groupVersion |-> "v1alpha1",
      parameters |->
        [p \in names \cup {"plan"} |->
           CASE p = "plan" -> "FREETRIAL"
             [] p = "cloudProvider" ->
                  IF cloud.default = "" THEN "AWS" ELSE cloud.default
             [] OTHER -> Nil]]

ConvertTo(x) == CASE kind = "policy"     -> x
                  [] kind = "inventory"  -> InventoryTo(x)
                  [] kind = "connection" -> ConnectionTo(x)
                  [] kind = "instance"   -> InstanceTo(x)
                  [] kind = "provider"   -> ProviderTo(x)

-----------------------------------------------------------------------------
(* From v1beta1 to v1alpha1.                                               *)

(* Mutant: disableProvisions is forgotten.                                 *)
InventoryFromPartly(y) ==
  IF y.policy = Nil THEN NoPolicy
                    ELSE [y.policy EXCEPT !.disableProvisions = Nil]

InventoryFrom(y) == IF y.policy = Nil THEN NoPolicy ELSE y.policy

(* There is no service type in v1alpha1.                                   *)
ConnectionFrom(y) == [instanceID |-> y.serviceID, instanceRef |-> y.serviceRef]

(* The parameters the provider knows under their v1alpha1 names, the name  *)
(* and cloud provider (for some providers) twice.  A Mongo Atlas project   *)
(* and the region of Crunchy Bridge are special cases.                     *)
InstanceFrom(y) ==
  LET params   == y.parameters
      value(p) == IF p \in DOMAIN params THEN params[p] ELSE ""
      spelt(f) == IF f = "ProjectName" THEN "projectName" ELSE f
      fields   == {f \in DOMAIN ProviderFieldsMap :
                     ProviderFieldsMap[f] \in DOMAIN params}
  IN [name |-> value("name"), cloudProvider |-> value("cloudProvider"),
      cloudRegion |-> IF provider = "crunchy" THEN "us-east-1"
                                              ELSE value("regions"),
      other |-> [s \in {spelt(f) : f \in fields} |->
                   params[ProviderFieldsMap[CHOOSE f \in fields :
                                              spelt(f) = s]]]]

(* Mutant: v1alpha1 keeps v1beta1's names.                                 *)
ConvertNameFromSame(p) == p

(* The name of a parameter in v1alpha1, "" if the provider has none.       *)
ConvertNameFrom(p) ==
  LET fields == {f \in DOMAIN ProviderFieldsMap : ProviderFieldsMap[f] = p}
  IN  IF fields = {} THEN "" ELSE CHOOSE f \in fields : TRUE

(* Four parameters are kept, with or without a name.                       *)
ProviderFrom(y) ==
  [parameters |->
     {[name |-> ConvertNameFrom(p),
       default |-> IF y.parameters[p] = Nil THEN "" ELSE y.parameters[p]] :
        p \in DOMAIN y.parameters \cap
               {"name", "cloudProvider", "databaseType", "teamProject"}}]

ConvertFrom(y) == CASE kind = "policy"     -> y
                    [] kind = "inventory"  -> InventoryFrom(y)
                    [] kind = "connection" -> ConnectionFrom(y)
                    [] kind = "instance"   -> InstanceFrom(y)
                    [] kind = "provider"   -> ProviderFrom(y)

(* An instance is converted with the help of its inventory.                *)
Convertible == kind = "instance" => inventory

-----------------------------------------------------------------------------
(* The validating webhook of connections.                                  *)

validateCreate(y) ==
  kind = "connection" =>
    /\ (y.serviceID # "") # (y.serviceRef \notin {Nil, ""})
    /\ y.serviceRef # Nil => y.serviceType = Nil

(* Everything in the spec of a connection is immutable.                    *)
validateUpdate(y, old) == kind = "connection" => y = old

-----------------------------------------------------------------------------
(* The clients.                                                            *)

Init ==
  /\ \E o \in Objects : kind = o[1] /\ provider = o[2]
  /\ stored = Nil
  /\ held = Nil
  /\ fresh = FALSE
  /\ last = Nil
  /\ inventory = TRUE
  /\ ops = 0

Operation == /\ ops < MaxOps
             /\ ops' = ops + 1

(* A client of v1beta1 creates, edits or deletes the object.               *)
CreateBeta(y) ==
  /\ Operation
  /\ stored = Nil /\ validateCreate(y)
  /\ stored' = y
  /\ last' = Nil
  /\ UNCHANGED <<object, held, fresh, inventory>>

EditBeta(y) ==
  /\ Operation
  /\ stored # Nil /\ y # stored /\ validateUpdate(y, stored)
  /\ stored' = y
  /\ fresh' = FALSE
  /\ last' = Nil
  /\ UNCHANGED <<object, held, inventory>>

Delete ==
  /\ Operation
  /\ stored # Nil
  /\ stored' = Nil
  /\ held' = Nil
  /\ fresh' = FALSE
  /\ last' = Nil
  /\ UNCHANGED <<object, inventory>>

(* A client of v1alpha1 creates it ...                                     *)
CreateAlpha(x) ==
  /\ Operation
  /\ stored = Nil /\ Convertible /\ validateCreate(ConvertTo(x))
  /\ stored' = ConvertTo(x)
  /\ last' = x
  /\ UNCHANGED <<object, held, fresh, inventory>>

(* ... reads it ...                                                        *)
ReadAlpha ==
  /\ stored # Nil /\ Convertible
  /\ held' = ConvertFrom(stored)
  /\ fresh' = TRUE
  /\ UNCHANGED <<object, stored, last, inventory, ops>>

(* ... edits what it has read ...                                          *)
EditAlpha(x) ==
  /\ Operation
  /\ held # Nil /\ x # held
  /\ held' = x
  /\ UNCHANGED <<object, stored, fresh, last, inventory>>

(* ... and writes it back, unless the object has changed or a webhook says *)
(* no.                                                                     *)
WriteAlpha ==
  /\ held # Nil
  /\ held' = Nil
  /\ fresh' = FALSE
  /\ IF fresh /\ Convertible /\ validateUpdate(ConvertTo(held), stored)
     THEN stored' = ConvertTo(held) /\ last' = held
     ELSE UNCHANGED <<stored, last>>
  /\ UNCHANGED <<object, inventory, ops>>

(* The inventory is deleted or created again.                              *)
ChangeInventory ==
  /\ Operation
  /\ inventory' = ~inventory
  /\ UNCHANGED <<object, stored, held, fresh, last>>

Next ==
  \/ \E y \in Inputs(kind) : CreateBeta(y) \/ EditBeta(y)
  \/ \E x \in V1alpha1(kind) : CreateAlpha(x) \/ EditAlpha(x)
  \/ Delete \/ ReadAlpha \/ WriteAlpha \/ ChangeInventory

Spec == Init /\ [][Next]_vars

-----------------------------------------------------------------------------
(* Properties.                                                             *)

(* f is a Go map with keys in D and values in R.                           *)
IsMap(f, D, R) == DOMAIN f \subseteq D /\ f \in [DOMAIN f -> R]

TypeOK ==
  /\ object \in Objects
  /\ kind \notin {"instance", "provider"} =>
       stored \in V1beta1(kind) \cup {Nil}
  /\ kind = "instance" /\ stored # Nil =>
       IsMap(stored.parameters, Parameters, Parameter)
  /\ kind = "provider" /\ stored # Nil =>
       /\ stored.groupVersion \in {"v1alpha1", "v1beta1"}
       /\ stored.parameters \in [DOMAIN stored.parameters ->
                                  Optional \cup {"AWS", "FREETRIAL"}]
  /\ kind # "instance" => held \in Readable(kind) \cup {Nil}
  /\ kind = "instance" /\ held # Nil =>
       /\ {held.name, held.cloudProvider, held.cloudRegion} \subseteq Parameter
       /\ IsMap(held.other, AlphaNames, Parameter)
  /\ fresh \in BOOLEAN /\ inventory \in BOOLEAN
  /\ ops \in 0 .. MaxOps

(* What may be left of what a client wrote: parameters that its provider   *)
(* does not know are dropped.                                              *)
Kept(x) ==
  IF kind = "instance"
  THEN [x EXCEPT !.other = [f \in DOMAIN x.other \cap OtherParams |->
                              x.other[f]]]
  ELSE x

(* What a client of v1alpha1 wrote is what clients of v1alpha1 read, as    *)
(* long as nobody else writes, but for parameters its provider does not    *)
(* know: "converts to and from the same object".                           *)
AlphaSeesItsWrite ==
  last # Nil /\ kind # "provider" => ConvertFrom(stored) = Kept(last)

(* What v1alpha1 loses it loses once: an object that a client of v1alpha1  *)
(* has written is not changed when it, or another one, writes back what it *)
(* reads.  Providers, too, whose parameters are renamed, completed and     *)
(* partly dropped on the way.                                              *)
AlphaWriteStable ==
  [][/\ last # Nil /\ fresh /\ held = ConvertFrom(stored) /\ last' = held
     => stored' = stored]_vars

(* A client of v1alpha1 that writes back what it read, unedited, changes   *)
(* nothing, though v1alpha1 cannot express all of v1beta1: the parts it    *)
(* would lose are either kept or make the write fail.  (Instances lose     *)
(* their plan, providers their version and most of their parameters, and   *)
(* an inventory's empty policy turns into none.)                           *)
UneditedWriteKeeps ==
  [][/\ fresh /\ held = ConvertFrom(stored) /\ last' = held
     /\ kind \notin {"instance", "provider"} /\ stored # [policy |-> NoPolicy]
     => stored' = stored]_vars
=============================================================================
