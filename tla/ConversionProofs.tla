-------------------------- MODULE ConversionProofs --------------------------
(***************************************************************************)
(* Proofs about the conversions, for any values and for all kinds of       *)
(* objects and providers: which objects survive the way to v1alpha1 and    *)
(* back, and which of them are changed by it once and then no more.        *)
(***************************************************************************)
EXTENDS Conversion, TLAPS

(* The parameters of an instance as v1alpha1 spells them: no client of     *)
(* v1alpha1 writes v1beta1's spelling of one.                              *)
Spelt(f) == IF f = "ProjectName" THEN "projectName" ELSE f
OfProvider(x) ==
  kind = "instance" => "ProjectName" \notin DOMAIN x.other

(* The types of the variables, written with the sets of objects.           *)
Types ==
  /\ object \in Objects
  /\ kind # "provider" => stored \in V1beta1(kind) \cup {Nil}
  /\ kind = "provider" /\ stored # Nil =>
       /\ stored.groupVersion \in {"v1alpha1", "v1beta1"}
       /\ stored.parameters \in [DOMAIN stored.parameters ->
                                  Optional \cup {"AWS", "FREETRIAL"}]
  /\ held \in Readable(kind) \cup {Nil}
  /\ fresh \in BOOLEAN /\ inventory \in BOOLEAN
  /\ ops \in 0 .. MaxOps

(* A client that has read the object holds something, as long as nobody    *)
(* writes the object and it is there.                                      *)
HeldSound == /\ fresh => stored # Nil /\ held # Nil
             /\ held # Nil => OfProvider(held)

(* What a client of v1alpha1 wrote last is what is stored, converted.      *)
LastSound == last # Nil => /\ last \in Readable(kind) /\ OfProvider(last)
                           /\ stored = ConvertTo(last)

IInv == Types /\ HeldSound /\ LastSound

-----------------------------------------------------------------------------
(* The tables.                                                             *)

Kinds == {"policy", "inventory", "connection", "instance", "provider"}
ProviderNames == {"crunchy", "mongodb", "rds", "other"}
Renamed == {"name", "cloudProvider", "teamProject", "databaseType"}
Base == {"name", "cloudProvider", "regions", "plan"}

(* A provider's parameters have distinct names in v1beta1, none of which   *)
(* is the plan's or the region's.                                          *)
LEMMA FieldsFacts ==
  ASSUME provider \in ProviderNames
  PROVE  /\ DOMAIN ProviderFieldsMap \subseteq AlphaNames \cup {"ProjectName"}
         /\ "projectName" \notin DOMAIN ProviderFieldsMap
         /\ \A f \in DOMAIN ProviderFieldsMap : ProviderFieldsMap[f] \in Renamed
         /\ \A f, g \in DOMAIN ProviderFieldsMap :
              ProviderFieldsMap[f] = ProviderFieldsMap[g] => f = g
<1> DEFINE m == ProviderFieldsMap
<1>1. CASE provider = "crunchy"
  <2>1. m = [f \in {"Name", "Provider"} |->
               IF f = "Name" THEN "name" ELSE "cloudProvider"]
    BY <1>1 DEF ProviderFieldsMap
  <2> HIDE DEF m
  <2>2. /\ DOMAIN m = {"Name", "Provider"}
        /\ m["Name"] = "name" /\ m["Provider"] = "cloudProvider"
    BY <2>1
  <2> QED  BY <2>2 DEF m, AlphaNames, Renamed
<1>2. CASE provider = "mongodb"
  <2>1. m = [f \in {"clusterName", "providerName", "ProjectName"} |->
               CASE f = "clusterName"  -> "name"
                 [] f = "providerName" -> "cloudProvider"
                 [] f = "ProjectName"  -> "teamProject"]
    BY <1>2 DEF ProviderFieldsMap
  <2> HIDE DEF m
  <2>2. /\ DOMAIN m = {"clusterName", "providerName", "ProjectName"}
        /\ m["clusterName"] = "name" /\ m["providerName"] = "cloudProvider"
        /\ m["ProjectName"] = "teamProject"
    BY <2>1
  <2> QED  BY <2>2 DEF m, AlphaNames, Renamed
<1>3. CASE provider = "rds"
  <2>1. DOMAIN m = {"Engine"} /\ m["Engine"] = "databaseType"
    BY <1>3 DEF ProviderFieldsMap
  <2> HIDE DEF m
  <2> QED  BY <2>1 DEF m, AlphaNames, Renamed
<1>4. CASE provider = "other"
  <2>1. DOMAIN m = {}
    BY <1>4 DEF ProviderFieldsMap
  <2> HIDE DEF m
  <2> QED  BY <2>1 DEF m, AlphaNames, Renamed
<1> QED  BY <1>1, <1>2, <1>3, <1>4 DEF ProviderNames

(* A partial function is a function on some of the keys.                   *)
LEMMA PartialFacts ==
  ASSUME NEW D, NEW R, NEW f
  PROVE  f \in PartialFn(D, R) <=> \E d \in SUBSET D : f \in [d -> R]
BY DEF PartialFn

(* The kinds of objects, one by one.                                       *)
LEMMA KindFacts ==
  /\ Readable("policy") = Policy /\ Readable("inventory") = Policy
  /\ Readable("connection") = [instanceID : Values \cup {""},
                               instanceRef : Reference]
  /\ Readable("instance") = [name : Parameter, cloudProvider : Parameter,
                             cloudRegion : Parameter,
                             other : PartialFn(AlphaNames, Parameter)]
  /\ Readable("provider") =
       [parameters : SUBSET [name : AlphaNames \cup {"ProjectName", ""},
                             default : Values \cup {"", "AWS", "FREETRIAL"}]]
  /\ V1beta1("policy") = Policy
  /\ V1beta1("inventory") = [policy : Policy \cup {Nil}]
  /\ V1beta1("connection") = [serviceID : Values \cup {""},
                              serviceRef : Reference, serviceType : Optional]
  /\ V1beta1("instance") = [parameters : PartialFn(Parameters, Parameter)]
BY DEF Readable, V1beta1

(* What may be written can be read.                                        *)
LEMMA WritableReadable ==
  ASSUME provider \in ProviderNames, kind \in Kinds
  PROVE  V1alpha1(kind) \subseteq Readable(kind)
<1>0. DOMAIN ProviderFieldsMap \subseteq AlphaNames \cup {"ProjectName"}
  BY FieldsFacts
<1>1. CASE kind \in {"policy", "inventory", "connection"}
  BY <1>1 DEF V1alpha1
<1>2. CASE kind = "instance"
  <2>1. OtherParams \subseteq AlphaNames
    <3>1. CASE provider = "mongodb"
      BY <1>2, <3>1 DEF OtherParams, AlphaNames
    <3>2. CASE provider # "mongodb"
      <4>1. OtherParams = DOMAIN ProviderFieldsMap
        BY <3>2 DEF OtherParams
      <4>2. "ProjectName" \notin DOMAIN ProviderFieldsMap
        BY <3>2 DEF ProviderFieldsMap, ProviderNames
      <4> QED  BY <1>0, <4>1, <4>2
    <3> QED  BY <3>1, <3>2
  <2>2. ASSUME NEW o \in PartialFn(OtherParams \cup {"unknown"}, Values)
        PROVE  o \in PartialFn(AlphaNames, Parameter)
    <3>1. PICK d \in SUBSET (OtherParams \cup {"unknown"}) : o \in [d -> Values]
      BY PartialFacts
    <3>2. d \in SUBSET AlphaNames /\ o \in [d -> Parameter]
      BY <2>1, <3>1 DEF Parameter, AlphaNames
    <3> QED  BY <3>2, PartialFacts
  <2>3. V1alpha1(kind) = [name : Values, cloudProvider : Values \cup {""},
                          cloudRegion : Values \cup {""},
                          other : PartialFn(OtherParams \cup {"unknown"}, Values)]
    BY <1>2 DEF V1alpha1
  <2>4. Values \subseteq Parameter /\ Values \cup {""} \subseteq Parameter
    BY DEF Parameter
  <2>5. ASSUME NEW x \in V1alpha1(kind) PROVE x \in Readable(kind)
    <3>1. /\ x.other \in PartialFn(OtherParams \cup {"unknown"}, Values)
          /\ x.name \in Parameter /\ x.cloudProvider \in Parameter
          /\ x.cloudRegion \in Parameter
          /\ x = [name |-> x.name, cloudProvider |-> x.cloudProvider,
                  cloudRegion |-> x.cloudRegion, other |-> x.other]
      <4> DEFINE O == PartialFn(OtherParams \cup {"unknown"}, Values)
                 W == Values \cup {""}
      <4>1. x \in [name : Values, cloudProvider : W, cloudRegion : W, other : O]
        BY <2>3
      <4>2. Values \subseteq Parameter /\ W \subseteq Parameter
        BY <2>4
      <4> HIDE DEF O, W
      <4>3. /\ x.other \in O
            /\ x.name \in Parameter /\ x.cloudProvider \in Parameter
            /\ x.cloudRegion \in Parameter
        BY <4>1, <4>2
      <4>4. x = [name |-> x.name, cloudProvider |-> x.cloudProvider,
                 cloudRegion |-> x.cloudRegion, other |-> x.other]
        BY <4>1
      <4> QED  BY <4>3, <4>4 DEF O
    <3>2. x.other \in PartialFn(AlphaNames, Parameter)
      BY <2>2, <3>1
    <3> QED  BY <1>2, <3>1, <3>2, KindFacts
  <2> QED  BY <2>5
<1>3. CASE kind = "provider"
  <2>1. OtherParams = DOMAIN ProviderFieldsMap
    BY <1>3 DEF OtherParams
  <2>2. ASSUME NEW d \in PartialFn(OtherParams \cup {"unknown"}, Values \cup {""}),
               NEW n \in DOMAIN d
        PROVE  [name |-> n, default |-> d[n]] \in
                 [name : AlphaNames \cup {"ProjectName", ""},
                  default : Values \cup {"", "AWS", "FREETRIAL"}]
    <3>1. PICK e \in SUBSET (OtherParams \cup {"unknown"}) :
            d \in [e -> Values \cup {""}]
      BY PartialFacts
    <3> QED  BY <1>0, <2>1, <2>2, <3>1 DEF AlphaNames
  <2>3. V1alpha1(kind) =
          {[parameters |-> {[name |-> n, default |-> d[n]] : n \in DOMAIN d}] :
             d \in PartialFn(OtherParams \cup {"unknown"}, Values \cup {""})}
    BY <1>3 DEF V1alpha1
  <2>4. ASSUME NEW x \in V1alpha1(kind) PROVE x \in Readable(kind)
    <3>1. PICK d \in PartialFn(OtherParams \cup {"unknown"}, Values \cup {""}) :
            x = [parameters |-> {[name |-> n, default |-> d[n]] : n \in DOMAIN d}]
      BY <2>3
    <3> DEFINE ps == {[name |-> n, default |-> d[n]] : n \in DOMAIN d}
    <3>2. ps \in SUBSET [name : AlphaNames \cup {"ProjectName", ""},
                         default : Values \cup {"", "AWS", "FREETRIAL"}]
      <4> DEFINE S == [name : AlphaNames \cup {"ProjectName", ""},
                       default : Values \cup {"", "AWS", "FREETRIAL"}]
      <4>1. \A n \in DOMAIN d : [name |-> n, default |-> d[n]] \in S
        BY <2>2
      <4> HIDE DEF S
      <4>2. ps \in SUBSET S
        BY <4>1
      <4> QED  BY <4>2 DEF S
    <3>3. x = [parameters |-> ps]
      BY <3>1
    <3> HIDE DEF ps
    <3> QED  BY <1>3, <3>2, <3>3, KindFacts
  <2> QED  BY <2>4
<1> QED  BY <1>1, <1>2, <1>3 DEF Kinds

-----------------------------------------------------------------------------
(* Instances.                                                              *)

(* The parameters a provider knows, and their names in v1beta1.            *)
Known(x) == DOMAIN x.other \cap DOMAIN ProviderFieldsMap
Named(x) == {ProviderFieldsMap[f] : f \in Known(x)}

(* What an instance x of v1alpha1 becomes: one with parameters ps.         *)
ToShape(x, ps) ==
  /\ ps = [p \in Base \cup Named(x) |-> ps[p]]
  /\ \A f \in Known(x) : ps[ProviderFieldsMap[f]] = x.other[f]
  /\ "name" \notin Named(x) => ps["name"] = x.name
  /\ "cloudProvider" \notin Named(x) => ps["cloudProvider"] = x.cloudProvider
  /\ ps["regions"] = x.cloudRegion /\ ps["plan"] = "FREETRIAL"

(* No parameter takes the place of another one.                            *)
LEMMA InstanceToFacts ==
  ASSUME provider \in ProviderNames, NEW x
  PROVE  \E ps : InstanceTo(x) = [parameters |-> ps] /\ ToShape(x, ps)
<1> DEFINE m     == ProviderFieldsMap
           given == [p \in Named(x) |->
                       x.other[CHOOSE f \in Known(x) : m[f] = p]]
           base  == [p \in {"name", "cloudProvider", "regions", "plan"} |->
                       CASE p = "name"          -> x.name
                         [] p = "cloudProvider" -> x.cloudProvider
                         [] p = "regions"       -> x.cloudRegion
                         [] p = "plan"          -> "FREETRIAL"]
           all   == [p \in DOMAIN base \cup Named(x) |->
                       IF p \in Named(x) THEN given[p] ELSE base[p]]
<1>1. InstanceTo(x) = [parameters |-> all]
  BY DEF InstanceTo, Named, Known
<1>2. /\ DOMAIN base = Base /\ base["name"] = x.name
      /\ base["cloudProvider"] = x.cloudProvider
      /\ base["regions"] = x.cloudRegion /\ base["plan"] = "FREETRIAL"
  BY DEF Base
<1>3. ASSUME NEW f \in Known(x) PROVE given[m[f]] = x.other[f] /\ m[f] \in Named(x)
  <2>1. m[f] \in Named(x)
    BY DEF Named
  <2>2. PICK g \in Known(x) : g = (CHOOSE h \in Known(x) : m[h] = m[f]) /\ m[g] = m[f]
    OBVIOUS
  <2>3. g = f
    BY <2>2, FieldsFacts DEF Known
  <2> QED  BY <2>1, <2>2, <2>3
<1>4. Named(x) \subseteq Renamed
  BY FieldsFacts DEF Named, Known
<1>5. PICK ps : ps = all
  OBVIOUS
<1> HIDE DEF base, given, m
<1>6. /\ \A p \in Named(x) : all[p] = given[p]
      /\ \A p \in Base \ Named(x) : all[p] = base[p]
      /\ all = [p \in Base \cup Named(x) |-> all[p]]
  BY <1>2
<1> HIDE DEF all
<1>7. \A f \in Known(x) : ps[ProviderFieldsMap[f]] = x.other[f]
  BY <1>3, <1>5, <1>6 DEF m
<1>8. "regions" \notin Named(x) /\ "plan" \notin Named(x)
  BY <1>4 DEF Renamed
<1>9. /\ "name" \notin Named(x) => ps["name"] = x.name
      /\ "cloudProvider" \notin Named(x) => ps["cloudProvider"] = x.cloudProvider
      /\ ps["regions"] = x.cloudRegion /\ ps["plan"] = "FREETRIAL"
  BY <1>2, <1>5, <1>6, <1>8 DEF Base
<1> QED  BY <1>1, <1>5, <1>6, <1>7, <1>9 DEF ToShape

(* What an instance of v1beta1 is read as.                                 *)
Fields(ps) == {f \in DOMAIN ProviderFieldsMap :
                 ProviderFieldsMap[f] \in DOMAIN ps}

FromShape(y, z) ==
  /\ z = [name |-> z.name, cloudProvider |-> z.cloudProvider,
          cloudRegion |-> z.cloudRegion, other |-> z.other]
  /\ z.name = IF "name" \in DOMAIN y.parameters THEN y.parameters["name"] ELSE ""
  /\ z.cloudProvider = IF "cloudProvider" \in DOMAIN y.parameters
                       THEN y.parameters["cloudProvider"] ELSE ""
  /\ z.cloudRegion =
       IF provider = "crunchy" THEN "us-east-1"
       ELSE IF "regions" \in DOMAIN y.parameters THEN y.parameters["regions"] ELSE ""
  /\ z.other = [s \in {Spelt(f) : f \in Fields(y.parameters)} |-> z.other[s]]
  /\ \A f \in Fields(y.parameters) :
       z.other[Spelt(f)] = y.parameters[ProviderFieldsMap[f]]

(* A field is spelt in v1alpha1 as no other one is.                        *)
LEMMA InstanceFromFacts ==
  ASSUME provider \in ProviderNames, NEW y
  PROVE  FromShape(y, InstanceFrom(y))
<1>0. PICK z : z = InstanceFrom(y)
  OBVIOUS
<1> DEFINE m == ProviderFieldsMap
           other == [s \in {Spelt(f) : f \in Fields(y.parameters)} |->
                       y.parameters[m[CHOOSE f \in Fields(y.parameters) : Spelt(f) = s]]]
           named == IF "name" \in DOMAIN y.parameters THEN y.parameters["name"] ELSE ""
           cloud == IF "cloudProvider" \in DOMAIN y.parameters THEN y.parameters["cloudProvider"] ELSE ""
           region == IF provider = "crunchy" THEN "us-east-1"
                     ELSE IF "regions" \in DOMAIN y.parameters THEN y.parameters["regions"] ELSE ""
<1>1. z = [name |-> named, cloudProvider |-> cloud, cloudRegion |-> region,
           other |-> other]
  BY <1>0, Zenon DEF InstanceFrom, Spelt, Fields
<1>2. \A f, g \in DOMAIN m : Spelt(f) = Spelt(g) => f = g
  BY FieldsFacts DEF Spelt
<1>3. ASSUME NEW f \in Fields(y.parameters) PROVE other[Spelt(f)] = y.parameters[m[f]]
  <2>1. PICK g \in Fields(y.parameters) :
          g = (CHOOSE h \in Fields(y.parameters) : Spelt(h) = Spelt(f)) /\ Spelt(g) = Spelt(f)
    OBVIOUS
  <2>2. g = f
    BY <1>2, <2>1 DEF Fields
  <2> QED  BY <2>1, <2>2
<1>4. other = [s \in {Spelt(f) : f \in Fields(y.parameters)} |-> other[s]]
  OBVIOUS
<1>5. named = (IF "name" \in DOMAIN y.parameters THEN y.parameters["name"] ELSE "")
      /\ cloud = (IF "cloudProvider" \in DOMAIN y.parameters THEN y.parameters["cloudProvider"] ELSE "")
      /\ region = (IF provider = "crunchy" THEN "us-east-1"
                   ELSE IF "regions" \in DOMAIN y.parameters THEN y.parameters["regions"] ELSE "")
  OBVIOUS
<1> HIDE DEF other, m, named, cloud, region
<1>6. /\ z.other = other /\ z.name = named /\ z.cloudProvider = cloud
      /\ z.cloudRegion = region
      /\ z = [name |-> z.name, cloudProvider |-> z.cloudProvider,
              cloudRegion |-> z.cloudRegion, other |-> z.other]
  BY <1>1
<1>7. /\ z.other = [s \in {Spelt(f) : f \in Fields(y.parameters)} |-> z.other[s]]
      /\ \A f \in Fields(y.parameters) : z.other[Spelt(f)] = y.parameters[m[f]]
  BY <1>3, <1>4, <1>6
<1>8. FromShape(y, z)
  BY <1>5, <1>6, <1>7 DEF m, FromShape
<1> QED  BY <1>0, <1>8

(* Both ways lead to instances.                                            *)
LEMMA InstanceTyped ==
  ASSUME provider \in ProviderNames
  PROVE  /\ \A x \in Readable("instance") : InstanceTo(x) \in V1beta1("instance")
         /\ \A y \in V1beta1("instance") :
              /\ InstanceFrom(y) \in Readable("instance")
              /\ "ProjectName" \notin DOMAIN InstanceFrom(y).other
<1> DEFINE m == ProviderFieldsMap
<1>1. ASSUME NEW x \in Readable("instance")
      PROVE  InstanceTo(x) \in V1beta1("instance")
  <2>1. PICK ps : InstanceTo(x) = [parameters |-> ps] /\ ToShape(x, ps)
    BY InstanceToFacts
  <2>2. /\ ps = [p \in Base \cup Named(x) |-> ps[p]]
        /\ \A f \in Known(x) : ps[m[f]] = x.other[f]
        /\ "name" \notin Named(x) => ps["name"] = x.name
        /\ "cloudProvider" \notin Named(x) => ps["cloudProvider"] = x.cloudProvider
        /\ ps["regions"] = x.cloudRegion /\ ps["plan"] = "FREETRIAL"
    BY <2>1 DEF ToShape
  <2>3. /\ x.name \in Parameter /\ x.cloudProvider \in Parameter
        /\ x.cloudRegion \in Parameter /\ "FREETRIAL" \in Parameter
        /\ x.other \in PartialFn(AlphaNames, Parameter)
    <3> DEFINE O == PartialFn(AlphaNames, Parameter)
    <3>1. x \in [name : Parameter, cloudProvider : Parameter,
                 cloudRegion : Parameter, other : O]
      BY KindFacts
    <3>2. "FREETRIAL" \in Parameter
      BY DEF Parameter
    <3> HIDE DEF O
    <3>3. /\ x.name \in Parameter /\ x.cloudProvider \in Parameter
          /\ x.cloudRegion \in Parameter /\ x.other \in O
      BY <3>1
    <3> QED  BY <3>2, <3>3 DEF O
  <2>4. \A f \in DOMAIN x.other : x.other[f] \in Parameter
    BY <2>3, PartialFacts
  <2>5. \A p \in Named(x) : ps[p] \in Parameter
    BY <2>2, <2>4 DEF Named, Known
  <2>6. \A p \in Base : ps[p] \in Parameter
    BY <2>2, <2>3, <2>5 DEF Base
  <2>7. Base \cup Named(x) \subseteq Parameters
    BY FieldsFacts DEF Base, Named, Known, Renamed, Parameters
  <2>8. ps \in [Base \cup Named(x) -> Parameter]
    BY <2>2, <2>5, <2>6
  <2>9. ps \in PartialFn(Parameters, Parameter)
    BY <2>7, <2>8, PartialFacts
  <2> QED  BY <2>1, <2>9, KindFacts
<1>2. ASSUME NEW y \in V1beta1("instance")
      PROVE  /\ InstanceFrom(y) \in Readable("instance")
             /\ "ProjectName" \notin DOMAIN InstanceFrom(y).other
  <2> DEFINE ps == y.parameters
  <2>1. ps \in PartialFn(Parameters, Parameter)
    <3> DEFINE P == PartialFn(Parameters, Parameter)
    <3>1. y \in [parameters : P]
      BY KindFacts
    <3> HIDE DEF P
    <3>2. ps \in P
      BY <3>1
    <3> QED  BY <3>2 DEF P
  <2>2. \A p \in DOMAIN ps : ps[p] \in Parameter
    BY <2>1, PartialFacts
  <2>3. PICK z : z = InstanceFrom(y) /\ FromShape(y, z)
    BY InstanceFromFacts
  <2>4. /\ z = [name |-> z.name, cloudProvider |-> z.cloudProvider,
                cloudRegion |-> z.cloudRegion, other |-> z.other]
        /\ z.name = IF "name" \in DOMAIN ps THEN ps["name"] ELSE ""
        /\ z.cloudProvider =
             IF "cloudProvider" \in DOMAIN ps THEN ps["cloudProvider"] ELSE ""
        /\ z.cloudRegion =
             IF provider = "crunchy" THEN "us-east-1"
             ELSE IF "regions" \in DOMAIN ps THEN ps["regions"] ELSE ""
        /\ z.other = [s \in {Spelt(f) : f \in Fields(ps)} |-> z.other[s]]
        /\ \A f \in Fields(ps) : z.other[Spelt(f)] = ps[m[f]]
    BY <2>3 DEF FromShape
  <2>5. "" \in Parameter /\ "us-east-1" \in Parameter
    BY DEF Parameter
  <2> HIDE DEF ps
  <2>6. z.name \in Parameter
    BY <2>2, <2>4, <2>5
  <2>7. z.cloudProvider \in Parameter
    BY <2>2, <2>4, <2>5
  <2>8. z.cloudRegion \in Parameter
    BY <2>2, <2>4, <2>5
  <2>9. \A s \in {Spelt(f) : f \in Fields(ps)} : z.other[s] \in Parameter
    BY <2>2, <2>4 DEF Fields
  <2>10. {Spelt(f) : f \in Fields(ps)} \subseteq AlphaNames
    BY FieldsFacts DEF Fields, Spelt, AlphaNames
  <2>11. z.other \in [{Spelt(f) : f \in Fields(ps)} -> Parameter]
    BY <2>4, <2>9
  <2>12. z.other \in PartialFn(AlphaNames, Parameter)
    BY <2>10, <2>11, PartialFacts
  <2>13. z \in Readable("instance")
    BY <2>4, <2>6, <2>7, <2>8, <2>12, KindFacts
  <2>14. "ProjectName" \notin DOMAIN z.other
    BY <2>10, <2>11 DEF AlphaNames
  <2> QED  BY <2>3, <2>13, <2>14
<1> QED  BY <1>1, <1>2

(* An instance that came from v1alpha1 is written back as it is, except    *)
(* for Crunchy Bridge's, whose region is not read.                         *)
LEMMA InstanceStable ==
  ASSUME provider \in ProviderNames, provider # "crunchy",
         NEW x, "ProjectName" \notin DOMAIN x.other
  PROVE  InstanceTo(InstanceFrom(InstanceTo(x))) = InstanceTo(x)
<1> DEFINE m == ProviderFieldsMap
<1>1. PICK y, ps : /\ y = InstanceTo(x) /\ y = [parameters |-> ps]
                   /\ ToShape(x, ps)
  BY InstanceToFacts
<1>2. PICK z : z = InstanceFrom(y) /\ FromShape(y, z)
  BY InstanceFromFacts
<1>3. PICK qs : InstanceTo(z) = [parameters |-> qs] /\ ToShape(z, qs)
  BY InstanceToFacts
<1>4. /\ y.parameters = ps /\ DOMAIN ps = Base \cup Named(x)
      /\ ps["plan"] = "FREETRIAL"
  BY <1>1 DEF ToShape
<1>5. /\ z.name = ps["name"] /\ z.cloudProvider = ps["cloudProvider"]
      /\ z.cloudRegion = ps["regions"]
      /\ DOMAIN z.other = {Spelt(f) : f \in Fields(ps)}
      /\ \A f \in Fields(ps) : z.other[Spelt(f)] = ps[m[f]]
  <2>1. "name" \in DOMAIN ps /\ "cloudProvider" \in DOMAIN ps /\ "regions" \in DOMAIN ps
    BY <1>4 DEF Base
  <2> QED  BY <1>2, <1>4, <2>1 DEF FromShape
<1>6. /\ DOMAIN m \subseteq AlphaNames \cup {"ProjectName"}
      /\ "projectName" \notin DOMAIN m
      /\ \A f \in DOMAIN m : m[f] \in Renamed
      /\ \A f, g \in DOMAIN m : m[f] = m[g] => f = g
  BY FieldsFacts
<1>7. "ProjectName" \notin DOMAIN x.other /\ "ProjectName" \notin DOMAIN z.other
  BY <1>5 DEF Spelt
<1> HIDE DEF m
<1>8. \A f \in Known(x) : f \in Fields(ps) /\ f \in DOMAIN z.other
  <2>1. \A f \in Known(x) : f \in Fields(ps) /\ Spelt(f) = f
    BY <1>4, <1>7 DEF Known, Named, Fields, Spelt
  <2> QED  BY <1>5, <2>1
<1>9. \A f \in Known(z) : f \in Fields(ps) /\ z.other[f] = ps[m[f]]
  <2>1. ASSUME NEW f \in Known(z) PROVE f \in Fields(ps) /\ z.other[f] = ps[m[f]]
    <3>1. f \in DOMAIN m /\ f \in DOMAIN z.other
      BY DEF Known, m
    <3>2. PICK g \in Fields(ps) : f = Spelt(g)
      BY <1>5, <3>1
    <3>3. f = g
      BY <1>6, <3>1, <3>2 DEF Spelt
    <3> QED  BY <1>5, <3>2, <3>3
  <2> QED  BY <2>1
<1>10. Base \cup Named(z) = Base \cup Named(x)
  <2>1. Named(x) \subseteq Named(z)
    BY <1>8 DEF Named, Known
  <2>2. Named(z) \subseteq Base \cup Named(x)
    BY <1>4, <1>9 DEF Named, Fields, m
  <2> QED  BY <2>1, <2>2
<1>11. ASSUME NEW p \in Named(z) PROVE qs[p] = ps[p]
  <2>1. PICK f \in Known(z) : p = m[f]
    BY DEF Named, m
  <2>2. qs[m[f]] = z.other[f]
    BY <1>3 DEF ToShape, m
  <2> QED  BY <1>9, <2>1, <2>2
<1>12. \A p \in Base : qs[p] = ps[p]
  BY <1>3, <1>4, <1>5, <1>11 DEF ToShape, Base
<1>13. \A p \in Base \cup Named(x) : qs[p] = ps[p]
  BY <1>10, <1>11, <1>12
<1>14. /\ ps = [p \in Base \cup Named(x) |-> ps[p]]
       /\ qs = [p \in Base \cup Named(x) |-> qs[p]]
  <2>1. qs = [p \in Base \cup Named(z) |-> qs[p]]
    BY <1>3 DEF ToShape
  <2> QED  BY <1>1, <1>10, <2>1 DEF ToShape
<1>15. qs = ps
  BY <1>13, <1>14
<1> QED  BY <1>1, <1>2, <1>3, <1>15

(* An instance of a provider whose parameters do not repeat the fields of  *)
(* the spec is read as it was written, but for unknown parameters.         *)
LEMMA InstanceSeen ==
  ASSUME kind = "instance", provider \in {"rds", "other"},
         NEW x \in Readable("instance")
  PROVE  InstanceFrom(InstanceTo(x)) = Kept(x)
<1> DEFINE m == ProviderFieldsMap
           K == Known(x)
<1>0. provider \in ProviderNames /\ provider # "crunchy"
  BY DEF ProviderNames
<1>1. PICK y, ps : /\ y = InstanceTo(x) /\ y = [parameters |-> ps]
                   /\ ToShape(x, ps)
  BY <1>0, InstanceToFacts
<1>2. PICK z : z = InstanceFrom(y) /\ FromShape(y, z)
  BY <1>0, InstanceFromFacts
<1>3. \A f \in DOMAIN m : Spelt(f) = f /\ m[f] \notin Base
  <2>1. CASE provider = "rds"
    <3>1. DOMAIN m = {"Engine"} /\ m["Engine"] = "databaseType"
      BY <2>1 DEF ProviderFieldsMap
    <3> QED  BY <3>1 DEF Spelt, Base
  <2>2. CASE provider = "other"
    <3>1. DOMAIN m = {}
      BY <2>2 DEF ProviderFieldsMap
    <3> QED  BY <3>1
  <2> QED  BY <2>1, <2>2
<1>4. K \subseteq DOMAIN m /\ K = DOMAIN x.other \cap DOMAIN m
  BY DEF Known
<1>5. \A f, g \in DOMAIN m : m[f] = m[g] => f = g
  BY <1>0, FieldsFacts
<1>6. Named(x) = {m[f] : f \in K}
  BY DEF Named
<1> HIDE DEF m, K
<1>7. Named(x) \cap Base = {}
  BY <1>3, <1>4, <1>6
<1>8. /\ y.parameters = ps /\ DOMAIN ps = Base \cup Named(x)
      /\ ps["name"] = x.name /\ ps["cloudProvider"] = x.cloudProvider
      /\ ps["regions"] = x.cloudRegion
      /\ \A f \in K : ps[m[f]] = x.other[f]
  BY <1>1, <1>7 DEF ToShape, Base, m, K
<1>9. /\ z.name = x.name /\ z.cloudProvider = x.cloudProvider
      /\ z.cloudRegion = x.cloudRegion
      /\ z = [name |-> z.name, cloudProvider |-> z.cloudProvider,
              cloudRegion |-> z.cloudRegion, other |-> z.other]
  <2>1. "name" \in DOMAIN ps /\ "cloudProvider" \in DOMAIN ps /\ "regions" \in DOMAIN ps
    BY <1>8 DEF Base
  <2> QED  BY <1>0, <1>2, <1>8, <2>1 DEF FromShape
<1>10. Fields(ps) = K
  <2>1. \A f \in DOMAIN m : m[f] \in DOMAIN ps <=> f \in K
    BY <1>3, <1>4, <1>5, <1>6, <1>8
  <2> QED  BY <1>4, <2>1 DEF Fields, m
<1>11. {Spelt(f) : f \in Fields(ps)} = K /\ \A f \in Fields(ps) : Spelt(f) = f
  <2>1. \A f \in Fields(ps) : Spelt(f) = f
    BY <1>3 DEF Fields, m
  <2> QED  BY <1>10, <2>1
<1>12. /\ z.other = [s \in {Spelt(f) : f \in Fields(ps)} |-> z.other[s]]
       /\ \A f \in Fields(ps) : z.other[Spelt(f)] = ps[m[f]]
  BY <1>2, <1>8 DEF FromShape, m
<1>13. z.other = [f \in K |-> x.other[f]]
  <2>1. \A f \in K : z.other[f] = x.other[f]
    BY <1>8, <1>10, <1>11, <1>12
  <2>2. z.other = [f \in K |-> z.other[f]]
    BY <1>11, <1>12
  <2> QED  BY <2>1, <2>2
<1>14. x = [name |-> x.name, cloudProvider |-> x.cloudProvider,
            cloudRegion |-> x.cloudRegion, other |-> x.other]
  <2> DEFINE O == PartialFn(AlphaNames, Parameter)
  <2>1. x \in [name : Parameter, cloudProvider : Parameter,
               cloudRegion : Parameter, other : O]
    BY KindFacts
  <2> HIDE DEF O
  <2> QED  BY <2>1
<1>15. Kept(x) = [name |-> x.name, cloudProvider |-> x.cloudProvider,
                  cloudRegion |-> x.cloudRegion,
                  other |-> [f \in K |-> x.other[f]]]
  <2>1. K = DOMAIN x.other \cap OtherParams
    BY <1>4 DEF OtherParams, m
  <2>2. Kept(x) = [x EXCEPT !.other = [f \in K |-> x.other[f]]]
    BY <2>1 DEF Kept
  <2>3. PICK o : o = [f \in K |-> x.other[f]]
    OBVIOUS
  <2>4. [x EXCEPT !.other = o] =
          [name |-> x.name, cloudProvider |-> x.cloudProvider,
           cloudRegion |-> x.cloudRegion, other |-> o]
    BY <1>14
  <2> QED  BY <2>2, <2>3, <2>4
<1> QED  BY <1>1, <1>2, <1>9, <1>13, <1>15

-----------------------------------------------------------------------------
(* Providers.                                                              *)

(* The parameters of a provider of v1alpha1 that have a name in v1beta1.   *)
KnownOf(x) == {f \in x.parameters : f.name \in DOMAIN ProviderFieldsMap}
NamesOf(x) == {ProviderFieldsMap[f.name] : f \in KnownOf(x)}

(* What a provider of v1alpha1 becomes: one with parameters ps.            *)
ProviderShape(x, ps) ==
  /\ ps = [p \in NamesOf(x) \cup {"plan"} |-> ps[p]]
  /\ ps["plan"] = "FREETRIAL"
  /\ \A p \in NamesOf(x) \ {"cloudProvider"} : ps[p] = Nil
  /\ "cloudProvider" \in NamesOf(x) =>
       \E c \in KnownOf(x) :
         /\ ProviderFieldsMap[c.name] = "cloudProvider"
         /\ ps["cloudProvider"] = IF c.default = "" THEN "AWS" ELSE c.default

(* Its parameters but the cloud provider lose their defaults.              *)
LEMMA ProviderToFacts ==
  ASSUME provider \in ProviderNames, NEW x
  PROVE  \E ps : /\ ProviderTo(x) = [groupVersion |-> "v1alpha1", parameters |-> ps]
                 /\ ProviderShape(x, ps)
<1> DEFINE cloud == CHOOSE f \in KnownOf(x) :
                      ProviderFieldsMap[f.name] = "cloudProvider"
           all == [p \in NamesOf(x) \cup {"plan"} |->
                     CASE p = "plan" -> "FREETRIAL"
                       [] p = "cloudProvider" ->
                            IF cloud.default = "" THEN "AWS" ELSE cloud.default
                       [] OTHER -> Nil]
<1>1. ProviderTo(x) = [groupVersion |-> "v1alpha1", parameters |-> all]
  BY DEF ProviderTo, NamesOf, KnownOf
<1>2. NamesOf(x) \subseteq Renamed
  BY FieldsFacts DEF NamesOf, KnownOf
<1>3. "plan" \notin NamesOf(x)
  BY <1>2 DEF Renamed
<1>4. "cloudProvider" \in NamesOf(x) =>
        cloud \in KnownOf(x) /\ ProviderFieldsMap[cloud.name] = "cloudProvider"
  BY DEF NamesOf
<1> HIDE DEF cloud
<1>5. all = [p \in NamesOf(x) \cup {"plan"} |-> all[p]]
  OBVIOUS
<1>6. all["plan"] = "FREETRIAL"
  OBVIOUS
<1>7. \A p \in NamesOf(x) \ {"cloudProvider"} : all[p] = Nil
  BY <1>3
<1>8. "cloudProvider" \in NamesOf(x) =>
        all["cloudProvider"] = IF cloud.default = "" THEN "AWS" ELSE cloud.default
  OBVIOUS
<1> HIDE DEF all
<1>9. ProviderShape(x, all)
  BY <1>4, <1>5, <1>6, <1>7, <1>8 DEF ProviderShape
<1> QED  BY <1>1, <1>9

(* A name in v1beta1 that came from v1alpha1 goes back to where it came    *)
(* from.                                                                   *)
LEMMA NameFacts ==
  ASSUME provider \in ProviderNames
  PROVE  /\ \A f \in DOMAIN ProviderFieldsMap :
              ConvertNameFrom(ProviderFieldsMap[f]) = f
         /\ \A p : ConvertNameFrom(p) \in AlphaNames \cup {"ProjectName", ""}
         /\ \A p : ConvertNameFrom(p) \in DOMAIN ProviderFieldsMap =>
                     ProviderFieldsMap[ConvertNameFrom(p)] = p
<1> DEFINE m == ProviderFieldsMap
           fields(p) == {f \in DOMAIN m : m[f] = p}
<1>1. /\ DOMAIN m \subseteq AlphaNames \cup {"ProjectName"}
      /\ "" \notin DOMAIN m
      /\ \A f, g \in DOMAIN m : m[f] = m[g] => f = g
  BY FieldsFacts DEF AlphaNames
<1>2. ASSUME NEW p, fields(p) # {}
      PROVE  ConvertNameFrom(p) \in DOMAIN m /\ m[ConvertNameFrom(p)] = p
  <2>1. ConvertNameFrom(p) = CHOOSE f \in fields(p) : TRUE
    BY <1>2 DEF ConvertNameFrom
  <2>2. (CHOOSE f \in fields(p) : TRUE) \in fields(p)
    BY <1>2
  <2> QED  BY <2>1, <2>2
<1>3. ASSUME NEW p, fields(p) = {} PROVE ConvertNameFrom(p) = ""
  BY <1>3 DEF ConvertNameFrom
<1>4. ASSUME NEW f \in DOMAIN m PROVE ConvertNameFrom(m[f]) = f
  <2>1. fields(m[f]) # {}
    OBVIOUS
  <2>2. ConvertNameFrom(m[f]) \in DOMAIN m /\ m[ConvertNameFrom(m[f])] = m[f]
    BY <1>2, <2>1
  <2> QED  BY <1>1, <2>2
<1> HIDE DEF m
<1>5. ASSUME NEW p
      PROVE  /\ ConvertNameFrom(p) \in AlphaNames \cup {"ProjectName", ""}
             /\ ConvertNameFrom(p) \in DOMAIN m => m[ConvertNameFrom(p)] = p
  <2>1. CASE fields(p) = {}
    BY <1>1, <1>3, <2>1
  <2>2. CASE fields(p) # {}
    BY <1>1, <1>2, <2>2
  <2> QED  BY <2>1, <2>2
<1> QED  BY <1>4, <1>5 DEF m

(* The default of a parameter of a provider of v1alpha1.                   *)
LEMMA DefaultFacts ==
  \A x \in Readable("provider") : \A f \in x.parameters :
    f.default \in Values \cup {"", "AWS", "FREETRIAL"}
<1> DEFINE N == AlphaNames \cup {"ProjectName", ""}
           D == Values \cup {"", "AWS", "FREETRIAL"}
<1>1. Readable("provider") = [parameters : SUBSET [name : N, default : D]]
  BY KindFacts
<1> HIDE DEF N, D
<1>2. ASSUME NEW x \in Readable("provider")
      PROVE  x.parameters \subseteq [name : N, default : D]
  <2> DEFINE S == [name : N, default : D]
  <2>1. x \in [parameters : SUBSET S]
    BY <1>1
  <2> HIDE DEF S
  <2>2. x.parameters \subseteq S
    BY <2>1
  <2> QED  BY <2>2 DEF S
<1>3. \A x \in Readable("provider") : \A f \in x.parameters : f.default \in D
  BY <1>2
<1> QED  BY <1>3 DEF D

(* The parameters a provider of v1beta1 is read with.                      *)
ReadOf(y, p) == [name |-> ConvertNameFrom(p),
                 default |-> IF y.parameters[p] = Nil THEN "" ELSE y.parameters[p]]
ReadsOf(y) == {ReadOf(y, p) : p \in DOMAIN y.parameters \cap
                 {"name", "cloudProvider", "databaseType", "teamProject"}}

(* A provider that came from v1alpha1 is written back as it is: what it    *)
(* loses it has lost by then.                                              *)
LEMMA ProviderStable ==
  ASSUME provider \in ProviderNames, NEW x \in Readable("provider")
  PROVE  ProviderTo(ProviderFrom(ProviderTo(x))) = ProviderTo(x)
<1> DEFINE m == ProviderFieldsMap
<1>1. PICK y, ps : /\ y = ProviderTo(x)
                   /\ y = [groupVersion |-> "v1alpha1", parameters |-> ps]
                   /\ ProviderShape(x, ps)
  BY ProviderToFacts
<1>2. PICK z : z = ProviderFrom(y)
  OBVIOUS
<1>3. PICK qs : /\ ProviderTo(z) = [groupVersion |-> "v1alpha1", parameters |-> qs]
                /\ ProviderShape(z, qs)
  BY ProviderToFacts
<1>4. z.parameters = ReadsOf(y)
  BY <1>2 DEF ProviderFrom, ReadsOf, ReadOf
<1>5. y.parameters = ps /\ DOMAIN ps = NamesOf(x) \cup {"plan"}
  <2>1. y.parameters = ps
    BY <1>1
  <2>2. ps = [p \in NamesOf(x) \cup {"plan"} |-> ps[p]]
    BY <1>1 DEF ProviderShape
  <2>3. DOMAIN [p \in NamesOf(x) \cup {"plan"} |-> ps[p]] = NamesOf(x) \cup {"plan"}
    OBVIOUS
  <2> QED  BY <2>1, <2>2, <2>3
<1>6. NamesOf(x) \subseteq Renamed
  BY FieldsFacts DEF NamesOf, KnownOf
<1>7. DOMAIN y.parameters \cap {"name", "cloudProvider", "databaseType", "teamProject"}
        = NamesOf(x)
  BY <1>5, <1>6 DEF Renamed
<1>8. ReadsOf(y) = {ReadOf(y, p) : p \in NamesOf(x)}
  BY <1>7 DEF ReadsOf
<1>9. /\ \A p : ReadOf(y, p).name = ConvertNameFrom(p)
      /\ \A p : ReadOf(y, p).default = IF ps[p] = Nil THEN "" ELSE ps[p]
  BY <1>5 DEF ReadOf
<1>10. \A p \in NamesOf(x) : ConvertNameFrom(p) \in DOMAIN m
                             /\ m[ConvertNameFrom(p)] = p
  BY NameFacts DEF NamesOf, KnownOf
<1> HIDE DEF m
<1>11. KnownOf(z) = {ReadOf(y, p) : p \in NamesOf(x)}
  <2>1. ASSUME NEW f \in z.parameters PROVE f.name \in DOMAIN m
    <3>1. PICK p \in NamesOf(x) : f = ReadOf(y, p)
      BY <1>4, <1>8
    <3> QED  BY <1>9, <1>10, <3>1
  <2>2. KnownOf(z) = z.parameters
    BY <2>1 DEF KnownOf, m
  <2> QED  BY <1>4, <1>8, <2>2
<1>12. NamesOf(z) = NamesOf(x)
  <2>1. \A p \in NamesOf(x) : m[ReadOf(y, p).name] = p
    BY <1>9, <1>10
  <2>2. NamesOf(z) = {m[f.name] : f \in KnownOf(z)}
    BY DEF NamesOf, m
  <2> QED  BY <1>11, <2>1, <2>2
<1>13. "cloudProvider" \in NamesOf(x) => qs["cloudProvider"] = ps["cloudProvider"]
  <2> SUFFICES ASSUME "cloudProvider" \in NamesOf(x)
               PROVE  qs["cloudProvider"] = ps["cloudProvider"]
    OBVIOUS
  <2>1. PICK c \in KnownOf(z) :
          /\ m[c.name] = "cloudProvider"
          /\ qs["cloudProvider"] = IF c.default = "" THEN "AWS" ELSE c.default
    BY <1>3, <1>12 DEF ProviderShape, m
  <2>2. c.default = IF ps["cloudProvider"] = Nil THEN "" ELSE ps["cloudProvider"]
    <3>1. PICK p \in NamesOf(x) : c = ReadOf(y, p)
      BY <1>11
    <3>2. p = "cloudProvider"
      BY <1>9, <1>10, <2>1, <3>1
    <3> QED  BY <1>9, <3>1, <3>2
  <2>3. PICK d \in KnownOf(x) :
          ps["cloudProvider"] = IF d.default = "" THEN "AWS" ELSE d.default
    BY <1>1 DEF ProviderShape
  <2>4. d.default \in Values \cup {"", "AWS", "FREETRIAL"}
    BY DefaultFacts DEF KnownOf
  <2>5. ps["cloudProvider"] # Nil /\ ps["cloudProvider"] # ""
    BY <2>3, <2>4, NilAssumption
  <2> QED  BY <2>1, <2>2, <2>5
<1>14. \A p \in NamesOf(x) \cup {"plan"} : qs[p] = ps[p]
  <2>1. qs["plan"] = ps["plan"]
    BY <1>1, <1>3 DEF ProviderShape
  <2>2. \A p \in NamesOf(x) \ {"cloudProvider"} : qs[p] = ps[p]
    BY <1>1, <1>3, <1>12 DEF ProviderShape
  <2> QED  BY <1>13, <2>1, <2>2
<1>15. /\ ps = [p \in NamesOf(x) \cup {"plan"} |-> ps[p]]
       /\ qs = [p \in NamesOf(x) \cup {"plan"} |-> qs[p]]
  <2>1. qs = [p \in NamesOf(z) \cup {"plan"} |-> qs[p]]
    BY <1>3 DEF ProviderShape
  <2> QED  BY <1>1, <1>12, <2>1 DEF ProviderShape
<1>16. qs = ps
  BY <1>14, <1>15
<1> QED  BY <1>1, <1>2, <1>3, <1>16

(* A stored provider, in its types.                                        *)
StoredProvider(y) ==
  /\ y.groupVersion \in {"v1alpha1", "v1beta1"}
  /\ y.parameters \in [DOMAIN y.parameters -> Optional \cup {"AWS", "FREETRIAL"}]

(* Both ways lead to providers.                                            *)
LEMMA ProviderTyped ==
  ASSUME provider \in ProviderNames
  PROVE  /\ \A x \in Readable("provider") : StoredProvider(ProviderTo(x))
         /\ \A y : StoredProvider(y) => ProviderFrom(y) \in Readable("provider")
<1>1. ASSUME NEW x \in Readable("provider") PROVE StoredProvider(ProviderTo(x))
  <2>1. PICK ps : /\ ProviderTo(x) = [groupVersion |-> "v1alpha1", parameters |-> ps]
                  /\ ProviderShape(x, ps)
    BY ProviderToFacts
  <2>2. ps["plan"] \in Optional \cup {"AWS", "FREETRIAL"}
    BY <2>1 DEF ProviderShape
  <2>3. \A p \in NamesOf(x) \ {"cloudProvider"} :
          ps[p] \in Optional \cup {"AWS", "FREETRIAL"}
    BY <2>1 DEF ProviderShape, Optional
  <2>4. "cloudProvider" \in NamesOf(x) =>
          ps["cloudProvider"] \in Optional \cup {"AWS", "FREETRIAL"}
    <3> SUFFICES ASSUME "cloudProvider" \in NamesOf(x)
                 PROVE  ps["cloudProvider"] \in Optional \cup {"AWS", "FREETRIAL"}
      OBVIOUS
    <3>1. PICK d \in KnownOf(x) :
            ps["cloudProvider"] = IF d.default = "" THEN "AWS" ELSE d.default
      BY <2>1 DEF ProviderShape
    <3>2. d.default \in Values \cup {"", "AWS", "FREETRIAL"}
      BY DefaultFacts DEF KnownOf
    <3> QED  BY <3>1, <3>2 DEF Optional
  <2>5. ps \in [NamesOf(x) \cup {"plan"} -> Optional \cup {"AWS", "FREETRIAL"}]
    <3>1. ps = [p \in NamesOf(x) \cup {"plan"} |-> ps[p]]
      BY <2>1 DEF ProviderShape
    <3> QED  BY <2>2, <2>3, <2>4, <3>1
  <2>6. ps \in [DOMAIN ps -> Optional \cup {"AWS", "FREETRIAL"}]
    BY <2>5
  <2> QED  BY <2>1, <2>6 DEF StoredProvider
<1>2. ASSUME NEW y, StoredProvider(y) PROVE ProviderFrom(y) \in Readable("provider")
  <2> DEFINE N == AlphaNames \cup {"ProjectName", ""}
             D == Values \cup {"", "AWS", "FREETRIAL"}
             S == [name : N, default : D]
  <2>1. ASSUME NEW p \in DOMAIN y.parameters PROVE ReadOf(y, p) \in S
    <3>1. y.parameters[p] \in Values \cup {Nil, "AWS", "FREETRIAL"}
      BY <1>2 DEF StoredProvider, Optional
    <3>2. PICK v \in D :
            v = IF y.parameters[p] = Nil THEN "" ELSE y.parameters[p]
      BY <3>1
    <3>3. PICK n \in N :
            n = ConvertNameFrom(p)
      BY NameFacts
    <3>4. ReadOf(y, p) = [name |-> n, default |-> v]
      BY <3>2, <3>3 DEF ReadOf
    <3> HIDE DEF N, D
    <3> QED  BY <3>4
  <2> HIDE DEF S
  <2>2. ReadsOf(y) \in SUBSET S
    BY <2>1 DEF ReadsOf
  <2>3. ProviderFrom(y) = [parameters |-> ReadsOf(y)]
    BY DEF ProviderFrom, ReadsOf, ReadOf
  <2>4. Readable("provider") = [parameters : SUBSET S]
    BY KindFacts DEF S
  <2> QED  BY <2>2, <2>3, <2>4
<1> QED  BY <1>1, <1>2

-----------------------------------------------------------------------------
(* All kinds.                                                              *)

(* A stored object of kind k.                                              *)
StoredOK(k, y) == /\ k # "provider" => y \in V1beta1(k) \cup {Nil}
                  /\ k = "provider" /\ y # Nil => StoredProvider(y)

(* What clients of v1beta1 write can be stored.                            *)
LEMMA InputsStored ==
  ASSUME NEW k \in Kinds, NEW y \in Inputs(k)
  PROVE  StoredOK(k, y)
<1>1. CASE k \in {"policy", "inventory", "connection"}
  BY <1>1 DEF Inputs, StoredOK
<1>2. CASE k = "instance"
  <2> DEFINE I == PartialFn(Parameters, Values)
  <2>1. y \in [parameters : I]
    BY <1>2 DEF Inputs
  <2> HIDE DEF I
  <2>2. y.parameters \in I /\ y = [parameters |-> y.parameters]
    BY <2>1
  <2>3. PICK d \in SUBSET Parameters : y.parameters \in [d -> Values]
    BY <2>2, PartialFacts DEF I
  <2>4. y.parameters \in [d -> Parameter]
    BY <2>3 DEF Parameter
  <2>5. y.parameters \in PartialFn(Parameters, Parameter)
    BY <2>4, PartialFacts
  <2>6. y \in V1beta1("instance")
    BY <2>2, <2>5, KindFacts
  <2> QED  BY <1>2, <2>6 DEF StoredOK
<1>3. CASE k = "provider"
  <2> DEFINE D == {"name", "cloudProvider", "regions", "databaseType"}
             P == PartialFn(D, Optional)
  <2>1. y \in [groupVersion : {"v1beta1"}, parameters : P]
    BY <1>3 DEF Inputs
  <2> HIDE DEF P, D
  <2>2. y.parameters \in P /\ y.groupVersion = "v1beta1"
    BY <2>1
  <2>3. PICK d \in SUBSET D : y.parameters \in [d -> Optional]
    BY <2>2, PartialFacts DEF P
  <2>4. y.parameters \in [DOMAIN y.parameters -> Optional \cup {"AWS", "FREETRIAL"}]
    BY <2>3
  <2> QED  BY <1>3, <2>2, <2>4 DEF StoredOK, StoredProvider
<1> QED  BY <1>1, <1>2, <1>3 DEF Kinds

(* What a client of v1alpha1 writes is as v1alpha1 spells it.              *)
LEMMA WritableFacts ==
  ASSUME provider \in ProviderNames, kind \in Kinds, NEW x \in V1alpha1(kind)
  PROVE  x \in Readable(kind) /\ OfProvider(x) /\ x # Nil
<1>1. x \in Readable(kind)
  BY WritableReadable
<1>2. x # Nil
  BY <1>1, NilAssumption DEF Kinds
<1>3. ASSUME kind = "instance" PROVE "ProjectName" \notin DOMAIN x.other
  <2> DEFINE O == PartialFn(AlphaNames, Parameter)
  <2>1. x \in [name : Parameter, cloudProvider : Parameter,
               cloudRegion : Parameter, other : O]
    BY <1>1, <1>3, KindFacts
  <2> HIDE DEF O
  <2>2. x.other \in O
    BY <2>1
  <2>3. PICK d \in SUBSET AlphaNames : x.other \in [d -> Parameter]
    BY <2>2, PartialFacts DEF O
  <2> QED  BY <2>3 DEF AlphaNames
<1> QED  BY <1>1, <1>2, <1>3 DEF OfProvider

(* What is written through v1alpha1 can be stored.                         *)
LEMMA ToTyped ==
  ASSUME provider \in ProviderNames, kind \in Kinds, NEW x \in Readable(kind)
  PROVE  StoredOK(kind, ConvertTo(x))
<1>1. CASE kind = "policy"
  <2>1. x \in V1beta1("policy")
    BY <1>1, KindFacts
  <2> QED  BY <1>1, <2>1 DEF ConvertTo, StoredOK
<1>2. CASE kind = "inventory"
  <2>1. x \in Policy
    BY <1>2, KindFacts
  <2>2. InventoryTo(x) \in [policy : Policy \cup {Nil}]
    BY <2>1 DEF InventoryTo
  <2> QED  BY <1>2, <2>2, KindFacts DEF ConvertTo, StoredOK
<1>3. CASE kind = "connection"
  <2>1. x \in [instanceID : Values \cup {""}, instanceRef : Reference]
    BY <1>3, KindFacts
  <2>2. Nil \in Optional
    BY DEF Optional
  <2>3. ConnectionTo(x) \in V1beta1("connection")
    BY <2>1, <2>2, KindFacts DEF ConnectionTo
  <2> QED  BY <1>3, <2>3 DEF ConvertTo, StoredOK
<1>4. CASE kind = "instance"
  BY <1>4, InstanceTyped DEF ConvertTo, StoredOK
<1>5. CASE kind = "provider"
  BY <1>5, ProviderTyped DEF ConvertTo, StoredOK
<1> QED  BY <1>1, <1>2, <1>3, <1>4, <1>5 DEF Kinds

(* What is stored can be read through v1alpha1.                            *)
LEMMA FromTyped ==
  ASSUME provider \in ProviderNames, kind \in Kinds,
         NEW y, y # Nil, StoredOK(kind, y)
  PROVE  /\ ConvertFrom(y) \in Readable(kind) /\ OfProvider(ConvertFrom(y))
         /\ ConvertFrom(y) # Nil
<1>0. kind # "instance" => OfProvider(ConvertFrom(y))
  BY DEF OfProvider
<1>1. CASE kind = "policy"
  <2>1. y \in Policy
    BY <1>1, KindFacts DEF StoredOK
  <2> QED  BY <1>0, <1>1, <2>1, KindFacts, NilAssumption DEF ConvertFrom, Kinds
<1>2. CASE kind = "inventory"
  <2>1. y \in [policy : Policy \cup {Nil}]
    BY <1>2, KindFacts DEF StoredOK
  <2>2. NoPolicy \in Policy
    BY DEF NoPolicy, Policy, Optional
  <2>3. InventoryFrom(y) \in Policy
    BY <2>1, <2>2 DEF InventoryFrom
  <2> QED  BY <1>0, <1>2, <2>3, KindFacts, NilAssumption DEF ConvertFrom, Kinds
<1>3. CASE kind = "connection"
  <2>1. y \in [serviceID : Values \cup {""}, serviceRef : Reference,
               serviceType : Optional]
    BY <1>3, KindFacts DEF StoredOK
  <2>2. ConnectionFrom(y) \in Readable("connection")
    BY <2>1, KindFacts DEF ConnectionFrom
  <2> QED  BY <1>0, <1>3, <2>2, NilAssumption DEF ConvertFrom, Kinds
<1>4. CASE kind = "instance"
  <2>1. y \in V1beta1("instance")
    BY <1>4 DEF StoredOK
  <2>2. /\ InstanceFrom(y) \in Readable("instance")
        /\ "ProjectName" \notin DOMAIN InstanceFrom(y).other
    BY <2>1, InstanceTyped
  <2>3. ConvertFrom(y) = InstanceFrom(y)
    BY <1>4 DEF ConvertFrom
  <2> QED  BY <1>4, <2>2, <2>3, NilAssumption DEF Kinds, OfProvider
<1>5. CASE kind = "provider"
  <2>1. ProviderFrom(y) \in Readable("provider")
    BY <1>5, ProviderTyped DEF StoredOK
  <2> QED  BY <1>0, <1>5, <2>1, NilAssumption DEF ConvertFrom, Kinds
<1> QED  BY <1>1, <1>2, <1>3, <1>4, <1>5 DEF Kinds

(* What is read back through v1alpha1 is what was written, but for what a  *)
(* provider does not know.                                                 *)
LEMMA RoundTrip ==
  ASSUME provider \in ProviderNames, kind \in Kinds, kind # "provider",
         kind = "instance" => provider \in {"rds", "other"},
         NEW x \in Readable(kind)
  PROVE  /\ ConvertFrom(ConvertTo(x)) = Kept(x)
         /\ kind # "instance" => Kept(x) = x
<1>0. kind # "instance" => Kept(x) = x
  BY DEF Kept
<1>1. CASE kind = "policy"
  BY <1>0, <1>1 DEF ConvertTo, ConvertFrom
<1>2. CASE kind = "inventory"
  <2>1. x # Nil
    BY <1>2, NilAssumption
  <2>2. InventoryFrom(InventoryTo(x)) = x
    BY <2>1 DEF InventoryFrom, InventoryTo
  <2> QED  BY <1>0, <1>2, <2>2 DEF ConvertTo, ConvertFrom
<1>3. CASE kind = "connection"
  <2>1. x \in [instanceID : Values \cup {""}, instanceRef : Reference]
    BY <1>3, KindFacts
  <2>2. ConnectionFrom(ConnectionTo(x)) = x
    BY <2>1 DEF ConnectionFrom, ConnectionTo
  <2> QED  BY <1>0, <1>3, <2>2 DEF ConvertTo, ConvertFrom
<1>4. CASE kind = "instance"
  <2>1. InstanceFrom(InstanceTo(x)) = Kept(x)
    BY <1>4, InstanceSeen
  <2> QED  BY <1>4, <2>1 DEF ConvertTo, ConvertFrom
<1> QED  BY <1>0, <1>1, <1>2, <1>3, <1>4 DEF Kinds

(* What came from v1alpha1 is written back through it as it is.            *)
LEMMA Stable ==
  ASSUME provider \in ProviderNames, kind \in Kinds,
         kind = "instance" => provider # "crunchy",
         NEW x \in Readable(kind), OfProvider(x)
  PROVE  ConvertTo(ConvertFrom(ConvertTo(x))) = ConvertTo(x)
<1>1. CASE kind \in {"policy", "inventory", "connection"}
  <2>1. ConvertFrom(ConvertTo(x)) = x
    BY <1>1, RoundTrip
  <2> QED  BY <2>1
<1>2. CASE kind = "instance"
  <2>1. InstanceTo(InstanceFrom(InstanceTo(x))) = InstanceTo(x)
    BY <1>2, InstanceStable DEF OfProvider
  <2> QED  BY <1>2, <2>1 DEF ConvertTo, ConvertFrom
<1>3. CASE kind = "provider"
  <2>1. ProviderTo(ProviderFrom(ProviderTo(x))) = ProviderTo(x)
    BY <1>3, ProviderStable
  <2> QED  BY <1>3, <2>1 DEF ConvertTo, ConvertFrom
<1> QED  BY <1>1, <1>2, <1>3 DEF Kinds

-----------------------------------------------------------------------------
(* A step leaves kind and provider alone, and so what the conversions do.  *)

(* The fields of a provider are the same after the step.                   *)
LEMMA FieldsFrame ==
  ASSUME provider' = provider
  PROVE  ProviderFieldsMap' = ProviderFieldsMap
BY DEF ProviderFieldsMap

(* What becomes of an instance, in every state ...                         *)
ToAlways ==
  \A z : provider \in ProviderNames =>
           \E ps : InstanceTo(z) = [parameters |-> ps] /\ ToShape(z, ps)

(* ... and so in the next one.                                             *)
LEMMA InstanceToAlways == ToAlways
BY InstanceToFacts DEF ToAlways

(* The parameters are determined by their names and values.                *)
LEMMA ShapeUnique ==
  ASSUME NEW x, NEW ps, NEW qs, ToShape(x, ps), ToShape(x, qs)
  PROVE  ps = qs
<1>1. \A p \in Named(x) : ps[p] = qs[p]
  BY DEF ToShape, Named
<1>2. \A p \in Base : ps[p] = qs[p]
  BY <1>1 DEF ToShape, Base
<1>3. /\ ps = [p \in Base \cup Named(x) |-> ps[p]]
      /\ qs = [p \in Base \cup Named(x) |-> qs[p]]
  BY DEF ToShape
<1>4. \A p \in Base \cup Named(x) : ps[p] = qs[p]
  BY <1>1, <1>2
<1> QED  BY <1>3, <1>4

(* The conversions to v1beta1 are the same after the step.                 *)
LEMMA ToFrame ==
  ASSUME kind' = kind, provider' = provider, provider \in ProviderNames, NEW x
  PROVE  ConvertTo(x)' = ConvertTo(x) /\ (OfProvider(x)' <=> OfProvider(x))
<1>1. InstanceTo(x)' = InstanceTo(x)
  <2>1. ToAlways'
    BY InstanceToAlways, PTL
  <2>2. PICK ps : InstanceTo(x)' = [parameters |-> ps] /\ ToShape(x, ps)'
    BY <2>1 DEF ToAlways
  <2>3. PICK qs : InstanceTo(x) = [parameters |-> qs] /\ ToShape(x, qs)
    BY InstanceToFacts
  <2>4. Known(x)' = Known(x)
    BY FieldsFrame DEF Known
  <2>5. Named(x)' = Named(x)
    BY FieldsFrame, <2>4 DEF Named
  <2>6. ToShape(x, ps)
    BY <2>2, <2>4, <2>5, FieldsFrame DEF ToShape
  <2> QED  BY <2>2, <2>3, <2>6, ShapeUnique
<1>2. ProviderTo(x)' = ProviderTo(x)
  BY FieldsFrame DEF ProviderTo
<1>3. ConvertTo(x)' = ConvertTo(x)
  BY <1>1, <1>2 DEF ConvertTo, InventoryTo, ConnectionTo
<1>4. OfProvider(x)' <=> OfProvider(x)
  BY FieldsFrame DEF OfProvider, Spelt
<1> QED  BY <1>3, <1>4

(* The invariant, of given values of the variables.                        *)
Sound(k, s, h, l, f) ==
  /\ StoredOK(k, s) /\ h \in Readable(k) \cup {Nil}
  /\ f => s # Nil /\ h # Nil
  /\ h # Nil => OfProvider(h)
  /\ l # Nil => l \in Readable(k) /\ OfProvider(l) /\ s = ConvertTo(l)

Bounded == /\ object \in Objects /\ fresh \in BOOLEAN /\ inventory \in BOOLEAN
           /\ ops \in 0 .. MaxOps

Rigid == Bounded /\ \A k, s, h, l, f :
           /\ k = kind /\ s = stored /\ h = held /\ l = last /\ f = fresh
           => Sound(k, s, h, l, f)

(* It is the same.                                                         *)
LEMMA RigidFacts == IInv <=> Rigid
<1>1. IInv <=> Bounded /\ Sound(kind, stored, held, last, fresh)
  BY DEF IInv, Types, HeldSound, LastSound, Bounded, Sound, StoredOK, StoredProvider
<1> QED  BY <1>1 DEF Rigid

(* Kind and provider are among those looked at.                            *)
LEMMA ObjectFacts ==
  ASSUME object \in Objects
  PROVE  kind \in Kinds /\ provider \in ProviderNames
BY ConversionAssumption DEF object, Kinds, ProviderNames

-----------------------------------------------------------------------------
(* The results.                                                            *)

(* There is no object at first.                                            *)
LEMMA InitSafe == Init => IInv
<1> SUFFICES ASSUME Init PROVE IInv
  OBVIOUS
<1>1. object \in Objects
  <2>1. PICK o \in Objects : kind = o[1] /\ provider = o[2]
    BY DEF Init
  <2>2. o \in Kinds \X ProviderNames
    BY ConversionAssumption DEF Kinds, ProviderNames
  <2>3. o = <<o[1], o[2]>>
    BY <2>2
  <2> QED  BY <2>1, <2>3 DEF object
<1>2. /\ stored = Nil /\ held = Nil /\ last = Nil /\ fresh = FALSE
      /\ inventory = TRUE /\ ops = 0
  BY DEF Init
<1>3. ops \in 0 .. MaxOps
  <2>1. MaxOps \in Nat
    BY ConversionAssumption
  <2> QED  BY <1>2, <2>1
<1>4. Types
  BY <1>1, <1>2, <1>3 DEF Types
<1> QED  BY <1>2, <1>4 DEF IInv, HeldSound, LastSound

(* What every step keeps.                                                  *)
LEMMA BoundedStep ==
  ASSUME Bounded, [Next]_vars
  PROVE  Bounded' /\ kind' = kind /\ provider' = provider
<1>1. kind' = kind /\ provider' = provider
  BY DEF Next, CreateBeta, EditBeta, CreateAlpha, EditAlpha, Delete, ReadAlpha,
     WriteAlpha, ChangeInventory, object, vars
<1>2. ops' \in 0 .. MaxOps
  <2>1. Operation \/ ops' = ops
    BY DEF Next, CreateBeta, EditBeta, CreateAlpha, EditAlpha, Delete, ReadAlpha,
       WriteAlpha, ChangeInventory, vars
  <2>2. ops \in 0 .. MaxOps /\ MaxOps \in Nat
    BY ConversionAssumption DEF Bounded
  <2>3. CASE Operation
    BY <2>2, <2>3 DEF Operation
  <2> QED  BY <2>1, <2>2, <2>3
<1>3. fresh' \in BOOLEAN
  <2>1. fresh' = fresh \/ fresh' = FALSE \/ fresh' = TRUE
    BY DEF Next, CreateBeta, EditBeta, CreateAlpha, EditAlpha, Delete, ReadAlpha,
       WriteAlpha, ChangeInventory, vars
  <2> QED  BY <2>1 DEF Bounded
<1>4. inventory' \in BOOLEAN
  <2>1. inventory' = inventory \/ inventory' = ~inventory
    BY DEF Next, CreateBeta, EditBeta, CreateAlpha, EditAlpha, Delete, ReadAlpha,
       WriteAlpha, ChangeInventory, vars
  <2> QED  BY <2>1 DEF Bounded
<1> QED  BY <1>1, <1>2, <1>3, <1>4 DEF Bounded, object

(* Every step keeps the invariant.                                         *)
LEMMA StepSafe == IInv /\ [Next]_vars => IInv'
<1> SUFFICES ASSUME IInv, [Next]_vars PROVE IInv'
  OBVIOUS
<1>1. Bounded /\ Sound(kind, stored, held, last, fresh)
  BY RigidFacts DEF Rigid
<1>2. /\ Bounded' /\ kind' = kind /\ provider' = provider
      /\ kind \in Kinds /\ provider \in ProviderNames
  BY <1>1, BoundedStep, ObjectFacts DEF Bounded
<1>3. /\ StoredOK(kind, stored) /\ held \in Readable(kind) \cup {Nil}
      /\ fresh => stored # Nil /\ held # Nil
      /\ held # Nil => OfProvider(held)
      /\ last # Nil => /\ last \in Readable(kind) /\ OfProvider(last)
                       /\ stored = ConvertTo(last)
  BY <1>1 DEF Sound
<1>4. StoredOK(kind, Nil)
  BY DEF StoredOK
<1>5. PICK s, h, l, f : s = stored' /\ h = held' /\ l = last' /\ f = fresh'
  OBVIOUS
<1> DEFINE Goal == Sound(kind, s, h, l, f)
<1>6. Goal
  <2>1. ASSUME NEW y \in Inputs(kind), CreateBeta(y) PROVE Goal
    <3>1. StoredOK(kind, y)
      BY <1>2, InputsStored
    <3>2. s = y /\ l = Nil /\ h = held /\ f = fresh /\ stored = Nil
      BY <1>5, <2>1 DEF CreateBeta
    <3> QED  BY <1>3, <3>1, <3>2 DEF Sound
  <2>2. ASSUME NEW y \in Inputs(kind), EditBeta(y) PROVE Goal
    <3>1. StoredOK(kind, y)
      BY <1>2, InputsStored
    <3>2. s = y /\ l = Nil /\ h = held /\ f = FALSE
      BY <1>5, <2>2 DEF EditBeta
    <3> QED  BY <1>3, <3>1, <3>2 DEF Sound
  <2>3. ASSUME NEW x \in V1alpha1(kind), CreateAlpha(x) PROVE Goal
    <3>1. x \in Readable(kind) /\ OfProvider(x) /\ x # Nil
      BY <1>2, WritableFacts
    <3>2. StoredOK(kind, ConvertTo(x))
      BY <1>2, <3>1, ToTyped
    <3>3. s = ConvertTo(x) /\ l = x /\ h = held /\ f = fresh /\ stored = Nil
      BY <1>5, <2>3 DEF CreateAlpha
    <3> QED  BY <1>3, <3>1, <3>2, <3>3 DEF Sound
  <2>4. ASSUME NEW x \in V1alpha1(kind), EditAlpha(x) PROVE Goal
    <3>1. x \in Readable(kind) /\ OfProvider(x) /\ x # Nil
      BY <1>2, WritableFacts
    <3>2. s = stored /\ l = last /\ h = x /\ f = fresh
      BY <1>5, <2>4 DEF EditAlpha
    <3> QED  BY <1>3, <3>1, <3>2 DEF Sound
  <2>5. CASE Delete
    <3>1. s = Nil /\ l = Nil /\ h = Nil /\ f = FALSE
      BY <1>5, <2>5 DEF Delete
    <3> QED  BY <1>4, <3>1 DEF Sound
  <2>6. CASE ReadAlpha
    <3>1. PICK x : x = ConvertFrom(stored)
      OBVIOUS
    <3>2. s = stored /\ s # Nil /\ l = last /\ h = x /\ f = TRUE
      BY <1>5, <2>6, <3>1 DEF ReadAlpha
    <3>3. x \in Readable(kind) /\ OfProvider(x) /\ x # Nil
      <4>1. PICK y : y = stored
        OBVIOUS
      <4>2. /\ ConvertFrom(y) \in Readable(kind) /\ OfProvider(ConvertFrom(y))
            /\ ConvertFrom(y) # Nil
        BY <1>2, <1>3, <3>2, <4>1, FromTyped
      <4> QED  BY <3>1, <4>1, <4>2
    <3> QED  BY <1>3, <3>2, <3>3 DEF Sound
  <2>7. CASE WriteAlpha
    <3>1. held # Nil /\ h = Nil /\ f = FALSE
          /\ \/ s = stored /\ l = last
             \/ s = ConvertTo(held) /\ l = held
      BY <1>5, <2>7 DEF WriteAlpha
    <3>2. PICK x : x = held
      OBVIOUS
    <3>3. x \in Readable(kind) /\ OfProvider(x)
      BY <1>3, <3>1, <3>2
    <3>4. StoredOK(kind, ConvertTo(x))
      BY <1>2, <3>3, ToTyped
    <3> QED  BY <1>3, <3>1, <3>2, <3>3, <3>4 DEF Sound
  <2>8. CASE ChangeInventory \/ UNCHANGED vars
    <3>1. s = stored /\ l = last /\ h = held /\ f = fresh
      BY <1>5, <2>8 DEF ChangeInventory, vars
    <3> QED  BY <1>3, <3>1 DEF Sound
  <2> HIDE DEF Goal
  <2> QED  BY <2>1, <2>2, <2>3, <2>4, <2>5, <2>6, <2>7, <2>8 DEF Next
<1>7. PICK k : k = kind
  OBVIOUS
<1>8. Sound(k, s, h, l, f)'
  <2>1. Sound(k, s, h, l, f)
    BY <1>6, <1>7
  <2>2. \A x : ConvertTo(x)' = ConvertTo(x) /\ (OfProvider(x)' <=> OfProvider(x))
    BY <1>2, ToFrame
  <2> QED  BY <2>1, <2>2 DEF Sound
<1>9. Rigid'
  BY <1>2, <1>5, <1>7, <1>8 DEF Rigid
<1>10. (IInv <=> Rigid)'
  BY RigidFacts, PTL
<1> QED  BY <1>9, <1>10

(* The invariant holds always.                                             *)
THEOREM Invariance == Spec => []IInv
<1>1. Init => IInv
  BY InitSafe
<1>2. IInv /\ [Next]_vars => IInv'
  BY StepSafe
<1> QED  BY <1>1, <1>2, PTL DEF Spec

(* What is stored is an object of v1beta1, and what clients of v1alpha1    *)
(* hold is one of v1alpha1, for all values, kinds and providers.           *)
THEOREM TypeCorrect == Spec => []TypeOK
<1>1. IInv => TypeOK
  <2> SUFFICES ASSUME Types PROVE TypeOK
    BY DEF IInv
  <2>1. CASE kind = "instance"
    <3> DEFINE P == PartialFn(Parameters, Parameter)
               O == PartialFn(AlphaNames, Parameter)
    <3>1. /\ stored # Nil => stored \in [parameters : P]
          /\ held # Nil => held \in [name : Parameter, cloudProvider : Parameter,
                                     cloudRegion : Parameter, other : O]
      BY <2>1, KindFacts DEF Types
    <3> HIDE DEF P, O
    <3>2. /\ stored # Nil => stored.parameters \in P
          /\ held # Nil =>
               /\ {held.name, held.cloudProvider, held.cloudRegion} \subseteq Parameter
               /\ held.other \in O
      BY <3>1
    <3>3. ASSUME NEW D, NEW f \in PartialFn(D, Parameter)
          PROVE  IsMap(f, D, Parameter)
      <4>1. PICK d \in SUBSET D : f \in [d -> Parameter]
        BY <3>3, PartialFacts
      <4> QED  BY <4>1 DEF IsMap
    <3>4. stored # Nil => IsMap(stored.parameters, Parameters, Parameter)
      BY <3>2, <3>3 DEF P
    <3>5. held # Nil => IsMap(held.other, AlphaNames, Parameter)
      BY <3>2, <3>3 DEF O
    <3> QED  BY <2>1, <3>2, <3>4, <3>5 DEF Types, TypeOK
  <2>2. CASE kind # "instance"
    BY <2>2 DEF Types, TypeOK
  <2> QED  BY <2>1, <2>2
<1> QED  BY <1>1, Invariance, PTL

(* A client of v1alpha1 reads what was last written through v1alpha1, for  *)
(* all objects but the instances of providers with parameters that repeat  *)
(* a field (Crunchy Bridge and Mongo Atlas: conversion_instance), and but  *)
(* for parameters that an instance's provider does not know.               *)
THEOREM AlphaReadsBack ==
  Spec => []((kind = "instance" => provider \in {"rds", "other"})
               => AlphaSeesItsWrite)
<1>1. IInv => ((kind = "instance" => provider \in {"rds", "other"})
                 => AlphaSeesItsWrite)
  <2> SUFFICES ASSUME IInv, kind = "instance" => provider \in {"rds", "other"},
                      last # Nil, kind # "provider"
               PROVE  ConvertFrom(stored) = Kept(last)
    BY DEF AlphaSeesItsWrite
  <2>1. kind \in Kinds /\ provider \in ProviderNames
    BY ObjectFacts DEF IInv, Types
  <2>2. PICK x : x = last
    OBVIOUS
  <2>3. x \in Readable(kind) /\ OfProvider(x) /\ stored = ConvertTo(x)
    BY <2>2 DEF IInv, LastSound
  <2>4. ConvertFrom(ConvertTo(x)) = Kept(x)
    BY <2>1, <2>3, RoundTrip
  <2> QED  BY <2>2, <2>3, <2>4
<1> QED  BY <1>1, Invariance, PTL

(* Only a write-back makes what a client holds the last thing written,     *)
(* while the object is as it was read.                                     *)
LEMMA WriteBackFacts ==
  ASSUME IInv, Next, fresh, last' = held
  PROVE  \/ stored' = stored
         \/ stored' = ConvertTo(held) /\ validateUpdate(ConvertTo(held), stored)
<1>1. stored # Nil /\ held # Nil
  BY DEF IInv, HeldSound
<1>2. CASE \/ \E y \in Inputs(kind) : CreateBeta(y) \/ EditBeta(y)
           \/ \E x \in V1alpha1(kind) : CreateAlpha(x)
           \/ Delete
  BY <1>1, <1>2 DEF CreateBeta, EditBeta, CreateAlpha, Delete
<1>3. CASE \/ \E x \in V1alpha1(kind) : EditAlpha(x)
           \/ ReadAlpha \/ ChangeInventory
  BY <1>3 DEF EditAlpha, ReadAlpha, ChangeInventory
<1>4. CASE WriteAlpha
  BY <1>4 DEF WriteAlpha
<1> QED  BY <1>2, <1>3, <1>4 DEF Next

(* What v1alpha1 loses it loses once: writing back what was read changes   *)
(* nothing once an object was written through v1alpha1, for all providers  *)
(* and all kinds.  (The region of a Crunchy Bridge instance is not read.)  *)
THEOREM AlphaStable ==
  Spec /\ [](object # <<"instance", "crunchy">>) => AlphaWriteStable
<1>1. IInv /\ object # <<"instance", "crunchy">> /\ [Next]_vars
        => [/\ last # Nil /\ fresh /\ held = ConvertFrom(stored) /\ last' = held
            => stored' = stored]_vars
  <2> SUFFICES ASSUME IInv, object # <<"instance", "crunchy">>, Next,
                      last # Nil, fresh, held = ConvertFrom(stored), last' = held
               PROVE  stored' = stored
    OBVIOUS
  <2>1. /\ kind \in Kinds /\ provider \in ProviderNames
        /\ kind = "instance" => provider # "crunchy"
    BY ObjectFacts DEF IInv, Types, object
  <2>2. PICK x : x = last
    OBVIOUS
  <2>3. x \in Readable(kind) /\ OfProvider(x) /\ stored = ConvertTo(x)
    BY <2>2 DEF IInv, LastSound
  <2>4. ConvertTo(ConvertFrom(ConvertTo(x))) = ConvertTo(x)
    BY <2>1, <2>3, Stable
  <2>5. ConvertTo(held) = stored
    BY <2>3, <2>4
  <2> QED  BY <2>5, WriteBackFacts
<1> QED  BY <1>1, Invariance, PTL DEF Spec, AlphaWriteStable

(* A client of v1alpha1 that writes back what it read, unedited, changes   *)
(* no policy, no inventory (but for an empty policy) and no connection,    *)
(* however much of them v1alpha1 does not show.                            *)
THEOREM UneditedKept == Spec => UneditedWriteKeeps
<1>1. IInv /\ [Next]_vars
        => [/\ fresh /\ held = ConvertFrom(stored) /\ last' = held
            /\ kind \notin {"instance", "provider"}
            /\ stored # [policy |-> NoPolicy]
            => stored' = stored]_vars
  <2> SUFFICES ASSUME IInv, Next, fresh, held = ConvertFrom(stored), last' = held,
                      kind \notin {"instance", "provider"},
                      stored # [policy |-> NoPolicy]
               PROVE  stored' = stored
    OBVIOUS
  <2>1. kind \in Kinds /\ provider \in ProviderNames
    BY ObjectFacts DEF IInv, Types
  <2>2. stored \in V1beta1(kind) /\ stored # Nil
    BY DEF IInv, Types, HeldSound
  <2>3. CASE kind = "policy"
    <3>1. ConvertTo(held) = stored
      BY <2>3 DEF ConvertTo, ConvertFrom
    <3> QED  BY <3>1, WriteBackFacts
  <2>4. CASE kind = "inventory"
    <3>1. PICK y : y = stored
      OBVIOUS
    <3>2. y \in [policy : Policy \cup {Nil}] /\ y # [policy |-> NoPolicy]
      BY <2>2, <2>4, <3>1, KindFacts
    <3>3. y = [policy |-> y.policy]
      BY <3>2
    <3>4. InventoryTo(InventoryFrom(y)) = y
      BY <3>2, <3>3 DEF InventoryTo, InventoryFrom
    <3>5. ConvertTo(held) = stored
      BY <2>4, <3>1, <3>4 DEF ConvertTo, ConvertFrom
    <3> QED  BY <3>5, WriteBackFacts
  <2>5. CASE kind = "connection"
    BY <2>5, WriteBackFacts DEF validateUpdate
  <2> QED  BY <2>1, <2>3, <2>4, <2>5 DEF Kinds
<1> QED  BY <1>1, Invariance, PTL DEF Spec, UneditedWriteKeeps
=============================================================================
