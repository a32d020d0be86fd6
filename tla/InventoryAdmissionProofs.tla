---------------------- MODULE InventoryAdmissionProofs ----------------------
(***************************************************************************)
(* Proofs about the admission of inventories, for any number of clients,   *)
(* names and providers: an inventory keeps its provider, a second RDS      *)
(* inventory can only get past the check by a request that overlaps, and   *)
(* credentials that are admitted are the ones required.                    *)
(***************************************************************************)
EXTENDS InventoryAdmission, SequenceTheorems, TLAPS

(* Inventory b is a, or has come after it under the same name.             *)
Before(a, b) ==
  \/ a.uid < b.uid
  \/ a.uid = b.uid /\ (a.provider = b.provider \/ b.provider = "absent")

(* v is the RDS inventory with uid u, or has come after it.                *)
Since(u, v) ==
  \/ u < v.uid
  \/ u = v.uid /\ v.provider \in {RDS, "absent"}

(* As long as the webhook has never been away, no request is unchecked,    *)
NoneUnchecked ==
  webhooks = "kept" => \A c \in Clients : request[c].step # "unchecked"

(* and inventories reach the cache in the order in which they were written *)
(* and without a change of provider.                                       *)
CacheOrdered ==
  webhooks = "kept" =>
  /\ \A i \in Inventories : Before(inventoryCache[i], inventory[i])
  /\ \A m \in DOMAIN inventoryWatch :
       LET i == inventoryWatch[m][1] IN
       /\ Before(inventoryCache[i], inventoryWatch[m][2])
       /\ Before(inventoryWatch[m][2], inventory[i])
  /\ \A m, n \in DOMAIN inventoryWatch :
       m <= n /\ inventoryWatch[m][1] = inventoryWatch[n][1] =>
         Before(inventoryWatch[m][2], inventoryWatch[n][2])

(* An update past the first check keeps the provider of the inventory it   *)
(* was validated against.                                                  *)
ProviderSound ==
  \A c \in Clients :
    LET r == request[c] IN
    r.op = "update" /\ r.step \in {"provider", "check", "store"} =>
      r.provider = r.old.provider

(* The RDS inventories that were known when a request began are in the     *)
(* cache, or have left it for good; past the list, they are gone.          *)
KnownSound ==
  webhooks = "kept" =>
  \A c \in Clients : \A k \in request[c].known :
    /\ Since(k[2], inventoryCache[k[1]])
    /\ /\ request[c].step = "store" /\ request[c].op = "create"
       /\ request[c].provider = RDS
       => ~(inventory[k[1]].uid = k[2] /\ inventory[k[1]].provider = RDS)

(* The provider in the cache is current, or an event says what is.         *)
ProviderCoherent ==
  IF providerWatch = <<>> THEN providerCache = provider
                          ELSE providerWatch[Len(providerWatch)] = provider

(* What an undisturbed request has read is still the case.                 *)
ReadSound ==
  \A c \in Clients :
    LET r == request[c] IN
    r.step # "idle" /\ ~r.disturbed =>
      /\ providerWatch = <<>>
      /\ r.step \in {"provider", "check"} => r.secret = secret
      /\ r.step = "check" => r.field = provider /\ provider # "absent"
      /\ r.step = "store" =>
           provider # "absent" /\ (provider = "required" => secret = "set")

IInv == /\ TypeOK /\ NoneUnchecked /\ CacheOrdered /\ ProviderSound
        /\ KnownSound
        /\ ProviderCoherent /\ ReadSound

-----------------------------------------------------------------------------
(* The order of inventories, and what happens to a queue of events.        *)

(* One after another is one after the other.                               *)
LEMMA BeforeFacts ==
  ASSUME NEW a \in Inventory, NEW b \in Inventory
  PROVE  /\ Before(a, a)
         /\ \A d \in Inventory : Before(a, b) /\ Before(b, d) => Before(a, d)
         /\ \A u \in Nat : Since(u, a) /\ Before(a, b) => Since(u, b)
         /\ \A u \in Nat : /\ Since(u, a) /\ Before(a, b)
                           /\ b.uid = u /\ b.provider = RDS
                           => a.uid = u /\ a.provider = RDS
<1>1. /\ a.uid \in Nat /\ b.uid \in Nat
      /\ \A d \in Inventory : d.uid \in Nat
      /\ RDS # "absent"
  BY AdmissionAssumption DEF Inventory
<1>2. Before(a, a)
  BY <1>1 DEF Before
<1>3. ASSUME NEW d \in Inventory, Before(a, b), Before(b, d) PROVE Before(a, d)
  BY <1>1, <1>3 DEF Before
<1>4. ASSUME NEW u \in Nat, Since(u, a), Before(a, b) PROVE Since(u, b)
  BY <1>1, <1>4 DEF Before, Since
<1>5. ASSUME NEW u \in Nat, Since(u, a), Before(a, b), b.uid = u,
             b.provider = RDS
      PROVE  a.uid = u /\ a.provider = RDS
  BY <1>1, <1>5 DEF Before, Since
<1> QED  BY <1>2, <1>3, <1>4, <1>5

(* A queue, its first element taken, or one more put at its end.           *)
LEMMA QueueFacts ==
  ASSUME NEW S, NEW q \in Seq(S)
  PROVE  /\ Len(q) \in Nat /\ DOMAIN q = 1 .. Len(q)
         /\ \A n \in 1 .. Len(q) : q[n] \in S
         /\ q # <<>> =>
              /\ Len(q) > 0 /\ Head(q) = q[1] /\ Head(q) \in S
              /\ Tail(q) \in Seq(S) /\ Len(Tail(q)) = Len(q) - 1
              /\ \A n \in 1 .. Len(q) - 1 : Tail(q)[n] = q[n + 1]
         /\ q = <<>> => Len(q) = 0
         /\ \A e \in S :
              /\ Append(q, e) \in Seq(S) /\ Append(q, e) # <<>>
              /\ Len(Append(q, e)) = Len(q) + 1
              /\ Append(q, e)[Len(q) + 1] = e
              /\ \A n \in 1 .. Len(q) : Append(q, e)[n] = q[n]
<1>1. Len(q) \in Nat /\ DOMAIN q = 1 .. Len(q)
  BY LenProperties
<1>2. \A n \in 1 .. Len(q) : q[n] \in S
  BY ElementOfSeq
<1>3. q = <<>> => Len(q) = 0
  OBVIOUS
<1>4. q # <<>> =>
        /\ Len(q) > 0 /\ Head(q) = q[1] /\ Head(q) \in S
        /\ Tail(q) \in Seq(S) /\ Len(Tail(q)) = Len(q) - 1
        /\ \A n \in 1 .. Len(q) - 1 : Tail(q)[n] = q[n + 1]
  BY <1>1, EmptySeq, HeadTailProperties
<1>5. ASSUME NEW e \in S
      PROVE  /\ Append(q, e) \in Seq(S) /\ Append(q, e) # <<>>
             /\ Len(Append(q, e)) = Len(q) + 1
             /\ Append(q, e)[Len(q) + 1] = e
             /\ \A n \in 1 .. Len(q) : Append(q, e)[n] = q[n]
  BY <1>1, AppendProperties
<1> QED  BY <1>1, <1>2, <1>3, <1>4, <1>5

-----------------------------------------------------------------------------
(* What a step does, client by client and kind by kind.                    *)

(* The requests, as they begin ...                                         *)
Begins(c) ==
  /\ request[c].step = "idle"
  /\ request'[c].step \in {"secret", "old"}
  /\ request'[c].known \subseteq
       {<<j, inventoryCache[j].uid>> : j \in ListedRDS}
  /\ request'[c].disturbed = (providerWatch # <<>>)
  /\ UNCHANGED <<inventoryVars, providerVars, secret>>

(* ... as they go on ...                                                   *)
Same(c) ==
  /\ request'[c].op = request[c].op /\ request'[c].name = request[c].name
  /\ request'[c].provider = request[c].provider
  /\ request'[c].known = request[c].known

GoesOn(c) ==
  /\ Same(c) /\ request'[c].disturbed = request[c].disturbed
  /\ UNCHANGED <<inventoryVars, providerVars, secret>>
  /\ \/ request[c].step = "old" /\ request'[c].step = "secret"
     \/ request[c].step \in {"store", "unchecked"} /\ request'[c].step = "old"
     \/ /\ request[c].step = "secret" /\ request'[c].step = "unchecked"
        /\ webhooks' = "away"
     \/ /\ request[c].step = "secret" /\ request'[c].step = "provider"
        /\ request'[c].old = request[c].old
        /\ request'[c].secret = secret /\ ProviderKept(request[c])
     \/ /\ request[c].step = "provider" /\ request'[c].step = "check"
        /\ request'[c].old = request[c].old
        /\ request'[c].secret = request[c].secret
        /\ request'[c].field = providerCache /\ providerCache # "absent"
     \/ /\ request[c].step = "check" /\ request'[c].step = "store"
        /\ request'[c].old = request[c].old
        /\ request[c].op = "create" /\ request[c].provider = RDS => validateRDS
        /\ validateInventoryMandatoryFields(request[c])

(* ... and as secret or provider change under them.                        *)
Suffers(c) ==
  /\ Same(c) /\ request'[c].disturbed = (request[c].step # "idle")
  /\ request'[c].step = request[c].step /\ request'[c].old = request[c].old

RequestMove(c) ==
  \/ request'[c] = request[c] \/ request'[c] = NoRequest
  \/ Begins(c) \/ GoesOn(c) \/ Suffers(c)

(* An unchecked request for inventory i is stored.                         *)
Unchecked(i) ==
  \E c \in Clients : /\ request[c].step = "unchecked" /\ request[c].name = i
                     /\ request'[c].step = "idle"

(* An inventory is created or deleted; none is ever changed by a request   *)
(* that was checked.                                                       *)
Writes(i, v) ==
  /\ WriteInventory(i, v)
  /\ \/ v.uid = inventory[i].uid + 1
     \/ v.uid = inventory[i].uid /\ (v.provider = "absent" \/ Unchecked(i))

InventoryMove ==
  \/ UNCHANGED inventoryVars
  \/ \E i \in Inventories, v \in Inventory : Writes(i, v)
  \/ DeliverInventory \/ Restart

(* The provider changes, and with it every request under way; or the       *)
(* secret does; or neither.                                                *)
ProviderMove ==
  \/ UNCHANGED <<providerVars, secret>>
  \/ (\E v \in ProviderState : ChangeProvider(v))
  \/ (\E v \in SecretState : ChangeSecret(v))
  \/ DeliverProvider \/ Restart

(* The requests of all clients but c are left alone.                       *)
LEMMA SetFacts ==
  ASSUME TypeOK, NEW c \in Clients, NEW r, Set(c, r)
  PROVE  /\ request'[c] = r
         /\ \A d \in Clients \ {c} : request'[d] = request[d]
         /\ r \in Request => request' \in [Clients -> Request]
BY DEF TypeOK, Set

(* No request is one.                                                      *)
LEMMA NoRequestFacts ==
  /\ NoRequest \in Request /\ NoRequest.step = "idle" /\ NoRequest.known = {}
<1>1. (CHOOSE i \in Inventories : TRUE) \in Inventories
  BY AdmissionAssumption
<1>2. [uid |-> 0, provider |-> "absent"] \in Inventory
  BY DEF Inventory
<1> QED  BY <1>1, <1>2, AdmissionAssumption
         DEF NoRequest, Request, SecretState, ProviderState

(* Every step moves every request in one of these ways.                    *)
LEMMA RequestStep ==
  ASSUME IInv, [Next]_vars
  PROVE  request' \in [Clients -> Request] /\ \A c \in Clients : RequestMove(c)
<1>0. TypeOK /\ request \in [Clients -> Request]
  BY DEF IInv, TypeOK
<1> DEFINE Goal == /\ request' \in [Clients -> Request]
                   /\ \A c \in Clients : RequestMove(c)
<1> SUFFICES Goal
  OBVIOUS
<1>a. ASSUME NEW c \in Clients, NEW r \in Request, Set(c, r),
             r = NoRequest \/ Begins(c) \/ GoesOn(c)
      PROVE  Goal
  BY <1>0, <1>a, SetFacts DEF RequestMove
<1>b. UNCHANGED request => Goal
  BY <1>0 DEF RequestMove
<1>c. ASSUME Disturb PROVE Goal
  <2>1. ASSUME NEW c \in Clients
        PROVE  request'[c] \in Request /\ Suffers(c)
    <3> DEFINE b == request[c].step # "idle"
    <3>1. request'[c] = [request[c] EXCEPT !.disturbed = b] /\ b \in BOOLEAN
      BY <1>c DEF Disturb
    <3> HIDE DEF b
    <3>2. /\ request'[c] \in Request /\ Same(c) /\ request'[c].disturbed = b
          /\ request'[c].step = request[c].step
          /\ request'[c].old = request[c].old
      BY <1>0, <3>1 DEF Request, Same
    <3> QED  BY <3>2 DEF Suffers, b
  <2>2. request' = [c \in Clients |-> request'[c]]
    BY <1>c DEF Disturb
  <2> QED  BY <2>1, <2>2 DEF RequestMove
<1>1. ASSUME NEW c \in Clients, NEW i \in Inventories, NEW p \in Providers,
             NEW op \in {"create", "update"}, Begin(c, op, i, p)
      PROVE  Goal
  <2> DEFINE s == IF op = "create" THEN "secret" ELSE "old"
             k == IF op = "create" /\ p = RDS
                  THEN {<<j, inventoryCache[j].uid>> : j \in ListedRDS} ELSE {}
             b == providerWatch # <<>>
             r == [NoRequest EXCEPT !.step = s, !.op = op, !.name = i,
                                    !.provider = p, !.known = k,
                                    !.disturbed = b]
  <2>1. /\ s \in {"secret", "old"} /\ b \in BOOLEAN
        /\ k \subseteq {<<j, inventoryCache[j].uid>> : j \in ListedRDS}
    OBVIOUS
  <2>2. k \in SUBSET (Inventories \X Nat)
    <3>1. \A j \in Inventories : inventoryCache[j].uid \in Nat
      BY <1>0 DEF TypeOK, Inventory
    <3> QED  BY <2>1, <3>1 DEF ListedRDS
  <2>3. /\ Set(c, r) /\ request[c].step = "idle"
        /\ UNCHANGED <<inventoryVars, providerVars, secret>>
    BY <1>1 DEF Begin
  <2> HIDE DEF s, k, b
  <2>4. /\ r \in Request /\ r.step = s /\ r.known = k /\ r.disturbed = b
    BY <2>1, <2>2, NoRequestFacts DEF Request
  <2> HIDE DEF r
  <2>5. Begins(c)
    BY <1>0, <2>1, <2>3, <2>4, SetFacts DEF Begins, b
  <2> QED  BY <1>a, <2>3, <2>4, <2>5
<1>d. \A c \in Clients : Refuse(c) => Goal
  BY <1>a, NoRequestFacts DEF Refuse
<1>e. ASSUME NEW c \in Clients, NEW r \in Request, Set(c, r),
             r.op = request[c].op, r.name = request[c].name,
             r.provider = request[c].provider, r.known = request[c].known,
             r.disturbed = request[c].disturbed
      PROVE  Same(c) /\ request'[c].disturbed = request[c].disturbed
             /\ request'[c] = r
  BY <1>0, <1>e, SetFacts DEF Same
<1>2. ASSUME NEW c \in Clients, ReadOld(c) PROVE Goal
  <2>1. CASE ~Absent(request[c].name)
    <3> DEFINE o == inventory[request[c].name]
               r == [request[c] EXCEPT !.step = "secret", !.old = o]
    <3>1. o \in Inventory
      BY <1>0 DEF TypeOK, Request
    <3> HIDE DEF o
    <3>2. /\ r \in Request /\ r.step = "secret" /\ r.op = request[c].op
          /\ r.name = request[c].name /\ r.provider = request[c].provider
          /\ r.known = request[c].known /\ r.disturbed = request[c].disturbed
      BY <1>0, <3>1 DEF Request
    <3>3. /\ Set(c, r) /\ request[c].step = "old"
          /\ UNCHANGED <<inventoryVars, providerVars, secret>>
      BY <1>2, <2>1 DEF ReadOld, o
    <3> HIDE DEF r
    <3>4. GoesOn(c)
      BY <1>e, <3>2, <3>3 DEF GoesOn
    <3> QED  BY <1>a, <3>2, <3>3, <3>4
  <2>2. CASE Absent(request[c].name)
    BY <1>2, <1>d, <2>2 DEF ReadOld
  <2> QED  BY <2>1, <2>2
<1>3. ASSUME NEW c \in Clients, GetSecret(c) PROVE Goal
  <2>1. CASE ProviderKept(request[c]) /\ secret # "absent"
    <3> DEFINE r == [request[c] EXCEPT !.step = "provider", !.secret = secret]
    <3>1. secret \in SecretState
      BY <1>0 DEF TypeOK
    <3>2. /\ r \in Request /\ r.step = "provider" /\ r.op = request[c].op
          /\ r.name = request[c].name /\ r.provider = request[c].provider
          /\ r.known = request[c].known /\ r.disturbed = request[c].disturbed
          /\ r.old = request[c].old /\ r.secret = secret
      BY <1>0, <3>1 DEF Request
    <3>3. /\ Set(c, r) /\ request[c].step = "secret"
          /\ UNCHANGED <<inventoryVars, providerVars, secret>>
      BY <1>3, <2>1 DEF GetSecret
    <3> HIDE DEF r
    <3>4. GoesOn(c)
      BY <1>e, <2>1, <3>2, <3>3 DEF GoesOn
    <3> QED  BY <1>a, <3>2, <3>3, <3>4
  <2>2. CASE ~(ProviderKept(request[c]) /\ secret # "absent")
    BY <1>3, <1>d, <2>2 DEF GetSecret
  <2> QED  BY <2>1, <2>2
<1>4. ASSUME NEW c \in Clients, GetProvider(c) PROVE Goal
  <2>1. CASE providerCache # "absent"
    <3> DEFINE r == [request[c] EXCEPT !.step = "check", !.field = providerCache]
    <3>1. providerCache \in ProviderState
      BY <1>0 DEF TypeOK
    <3>2. /\ r \in Request /\ r.step = "check" /\ r.op = request[c].op
          /\ r.name = request[c].name /\ r.provider = request[c].provider
          /\ r.known = request[c].known /\ r.disturbed = request[c].disturbed
          /\ r.old = request[c].old /\ r.secret = request[c].secret
          /\ r.field = providerCache
      BY <1>0, <3>1 DEF Request
    <3>3. /\ Set(c, r) /\ request[c].step = "provider"
          /\ UNCHANGED <<inventoryVars, providerVars, secret>>
      BY <1>4, <2>1 DEF GetProvider
    <3> HIDE DEF r
    <3>4. GoesOn(c)
      BY <1>e, <2>1, <3>2, <3>3 DEF GoesOn
    <3> QED  BY <1>a, <3>2, <3>3, <3>4
  <2>2. CASE providerCache = "absent"
    BY <1>4, <1>d, <2>2 DEF GetProvider
  <2> QED  BY <2>1, <2>2
<1>5. ASSUME NEW c \in Clients, NEW b \in BOOLEAN, Check(c, b) PROVE Goal
  <2> DEFINE ok == /\ request[c].op = "create" /\ request[c].provider = RDS =>
                        validateRDS
                   /\ b
                   /\ validateInventoryMandatoryFields(request[c])
  <2>1. CASE ok
    <3> DEFINE r == [request[c] EXCEPT !.step = "store", !.secret = "absent",
                                       !.field = "absent"]
    <3>2. /\ r \in Request /\ r.step = "store" /\ r.op = request[c].op
          /\ r.name = request[c].name /\ r.provider = request[c].provider
          /\ r.known = request[c].known /\ r.disturbed = request[c].disturbed
          /\ r.old = request[c].old
      <4>1. "absent" \in SecretState /\ "absent" \in ProviderState
        BY DEF SecretState, ProviderState
      <4> QED  BY <1>0, <4>1 DEF Request
    <3>3. /\ Set(c, r) /\ request[c].step = "check"
          /\ UNCHANGED <<inventoryVars, providerVars, secret>>
      BY <1>5, <2>1 DEF Check
    <3> HIDE DEF r
    <3>4. GoesOn(c)
      BY <1>e, <2>1, <3>2, <3>3 DEF GoesOn
    <3> QED  BY <1>a, <3>2, <3>3, <3>4
  <2>2. CASE ~ok
    BY <1>5, <1>d, <2>2 DEF Check
  <2> QED  BY <2>1, <2>2
<1>f. ASSUME NEW c \in Clients, SkipWebhook(c) PROVE Goal
  <2> DEFINE r == [request[c] EXCEPT !.step = "unchecked"]
  <2>1. /\ r \in Request /\ r.step = "unchecked" /\ r.op = request[c].op
        /\ r.name = request[c].name /\ r.provider = request[c].provider
        /\ r.known = request[c].known /\ r.disturbed = request[c].disturbed
    BY <1>0 DEF Request
  <2>2. /\ Set(c, r) /\ request[c].step = "secret" /\ webhooks' = "away"
        /\ UNCHANGED <<inventoryVars, providerVars, secret>>
    BY <1>f DEF SkipWebhook
  <2> HIDE DEF r
  <2>3. GoesOn(c)
    BY <1>e, <2>1, <2>2 DEF GoesOn
  <2> QED  BY <1>a, <2>1, <2>2, <2>3
<1>6. ASSUME NEW c \in Clients, Store(c) PROVE Goal
  <2>1. CASE Refuse(c)
    BY <1>d, <2>1
  <2>2. CASE /\ Set(c, [request[c] EXCEPT !.step = "old"])
             /\ UNCHANGED inventoryVars
    <3> DEFINE r == [request[c] EXCEPT !.step = "old"]
    <3>2. /\ r \in Request /\ r.step = "old" /\ r.op = request[c].op
          /\ r.name = request[c].name /\ r.provider = request[c].provider
          /\ r.known = request[c].known /\ r.disturbed = request[c].disturbed
      BY <1>0 DEF Request
    <3>3. /\ Set(c, r) /\ request[c].step \in {"store", "unchecked"}
          /\ UNCHANGED <<inventoryVars, providerVars, secret>>
      BY <1>6, <2>2 DEF Store
    <3> HIDE DEF r
    <3>4. GoesOn(c)
      BY <1>e, <3>2, <3>3 DEF GoesOn
    <3> QED  BY <1>a, <3>2, <3>3, <3>4
  <2> QED  BY <1>6, <2>1, <2>2 DEF Store
<1>7. CASE Restart
  <2>1. \A c \in Clients : request'[c] = request[c] \/ request'[c] = NoRequest
    BY <1>7 DEF Restart
  <2>2. request' = [c \in Clients |-> request'[c]]
    BY <1>7 DEF Restart
  <2>3. \A c \in Clients : request'[c] \in Request
    BY <1>0, <2>1, NoRequestFacts
  <2> QED  BY <2>1, <2>2, <2>3 DEF RequestMove
<1>8. CASE \/ \E i \in Inventories : DeleteInventory(i)
           \/ DeleteWebhooks \/ RestoreWebhooks
           \/ DeliverInventory \/ DeliverProvider \/ UNCHANGED vars
  BY <1>8, <1>b DEF DeleteInventory, DeleteWebhooks, RestoreWebhooks,
                    DeliverInventory, DeliverProvider, vars
<1>9. CASE \/ \E v \in SecretState : ChangeSecret(v)
           \/ \E v \in ProviderState : ChangeProvider(v)
  BY <1>9, <1>c DEF ChangeSecret, ChangeProvider
<1> HIDE DEF Goal
<1>10. ASSUME NEW c \in Clients, NEW i \in Inventories, NEW p \in Providers,
              BeginCreate(c, i, p) \/ BeginUpdate(c, i, p)
       PROVE  Goal
  BY <1>1, <1>10 DEF BeginCreate, BeginUpdate
<1>11. ASSUME NEW c \in Clients, Serve(c) PROVE Goal
  BY <1>2, <1>3, <1>4, <1>5, <1>6, <1>11, <1>f DEF Serve
<1> QED  BY <1>7, <1>8, <1>9, <1>10, <1>11 DEF Next

(* Every step moves the inventories in one of these ways.  An update that  *)
(* is admitted would write the provider the inventory has.                 *)
LEMMA InventoryStep ==
  ASSUME IInv, [Next]_vars
  PROVE  InventoryMove
<1>0. TypeOK /\ ProviderSound
  BY DEF IInv
<1>1. ASSUME NEW i \in Inventories, DeleteInventory(i) PROVE InventoryMove
  <2> DEFINE v == [inventory[i] EXCEPT !.provider = "absent"]
  <2>1. v \in Inventory /\ v.uid = inventory[i].uid /\ v.provider = "absent"
    BY <1>0 DEF TypeOK, Inventory
  <2>2. WriteInventory(i, v)
    BY <1>1 DEF DeleteInventory
  <2> HIDE DEF v
  <2> QED  BY <2>1, <2>2 DEF InventoryMove, Writes
<1>2. ASSUME NEW c \in Clients, Store(c) PROVE InventoryMove
  <2> DEFINE n == request[c].name
             v == [uid |-> inventory[n].uid + 1, provider |-> request[c].provider]
  <2>1. /\ n \in Inventories /\ inventory[n].uid \in Nat
        /\ request[c].provider \in Providers
    BY <1>0 DEF TypeOK, Request, Inventory
  <2>2. v \in Inventory /\ v.uid = inventory[n].uid + 1
    BY <2>1 DEF Inventory
  <2>3. CASE WriteInventory(n, v)
    <3> HIDE DEF v, n
    <3> QED  BY <2>1, <2>2, <2>3 DEF InventoryMove, Writes
  <2>4. CASE /\ request[c].op = "update" /\ inventory[n] = request[c].old
             /\ request[c].step = "store"
    <3>1. request[c].provider = inventory[n].provider
      BY <1>0, <1>2, <2>4 DEF Store, ProviderSound
    <3> QED  BY <1>2, <2>4, <3>1 DEF Store, InventoryMove
  <2>5. CASE UNCHANGED inventoryVars
    BY <2>5 DEF InventoryMove
  <2>6. CASE request[c].step = "unchecked" /\ Refuse(c)
    <3> DEFINE x == [inventory[n] EXCEPT !.provider = request[c].provider]
    <3>1. x \in Inventory /\ x.uid = inventory[n].uid
      BY <1>0, <2>1 DEF TypeOK, Inventory
    <3>2. Unchecked(n)
      BY <1>0, <2>6, SetFacts, NoRequestFacts DEF Refuse, Unchecked
    <3>3. CASE WriteInventory(n, x)
      <4> HIDE DEF x, n
      <4> QED  BY <2>1, <3>1, <3>2, <3>3 DEF InventoryMove, Writes
    <3> QED  BY <1>2, <2>3, <2>5, <3>3 DEF Store
  <2> QED  BY <1>2, <2>3, <2>4, <2>5, <2>6 DEF Store
<1>3. CASE DeliverInventory \/ Restart
  BY <1>3 DEF InventoryMove
<1>4. CASE DeleteWebhooks \/ RestoreWebhooks \/ DeliverProvider \/ UNCHANGED vars
  BY <1>4 DEF DeleteWebhooks, RestoreWebhooks, DeliverProvider, vars,
              InventoryMove
<1>5. CASE \/ \E v \in SecretState : ChangeSecret(v)
           \/ \E v \in ProviderState : ChangeProvider(v)
  BY <1>5 DEF ChangeSecret, ChangeProvider, InventoryMove
<1>6. ASSUME NEW c \in Clients,
             \/ ReadOld(c) \/ SkipWebhook(c) \/ GetSecret(c) \/ GetProvider(c)
             \/ \E b \in BOOLEAN : Check(c, b)
             \/ \E i \in Inventories, p \in Providers :
                  BeginCreate(c, i, p) \/ BeginUpdate(c, i, p)
      PROVE  InventoryMove
  <2>1. UNCHANGED inventoryVars
    BY <1>6 DEF ReadOld, SkipWebhook, GetSecret, GetProvider, Check, BeginCreate,
                BeginUpdate, Begin
  <2> QED  BY <2>1 DEF InventoryMove
<1> QED  BY <1>1, <1>2, <1>3, <1>4, <1>5, <1>6 DEF Next, Serve

(* Every step moves provider and secret in one of these ways.              *)
LEMMA ProviderStep ==
  ASSUME [Next]_vars
  PROVE  ProviderMove
<1>1. ASSUME NEW c \in Clients,
             \/ Serve(c)
             \/ \E i \in Inventories, p \in Providers :
                  BeginCreate(c, i, p) \/ BeginUpdate(c, i, p)
      PROVE  UNCHANGED <<providerVars, secret>>
  BY <1>1 DEF Serve, ReadOld, SkipWebhook, GetSecret, GetProvider, Check,
              Store, BeginCreate, BeginUpdate, Begin
<1>2. CASE \/ \E i \in Inventories : DeleteInventory(i)
           \/ DeleteWebhooks \/ RestoreWebhooks
           \/ DeliverInventory \/ UNCHANGED vars
  BY <1>2 DEF DeleteInventory, DeleteWebhooks, RestoreWebhooks,
              DeliverInventory, vars, ProviderMove
<1> QED  BY <1>1, <1>2 DEF Next, ProviderMove

(* A webhook that has never been away had not before the step either.      *)
LEMMA WebhookStep ==
  ASSUME TypeOK, [Next]_vars
  PROVE  /\ webhooks' \in {"kept", "away", "back"}
         /\ webhooks' = "kept" => webhooks = "kept"
<1>1. ASSUME NEW c \in Clients,
             \/ Serve(c)
             \/ \E i \in Inventories, p \in Providers :
                  BeginCreate(c, i, p) \/ BeginUpdate(c, i, p)
      PROVE  UNCHANGED webhooks
  BY <1>1 DEF Serve, ReadOld, SkipWebhook, GetSecret, GetProvider, Check,
              Store, BeginCreate, BeginUpdate, Begin
<1>2. CASE DeleteWebhooks \/ RestoreWebhooks
  BY <1>2 DEF DeleteWebhooks, RestoreWebhooks
<1>3. ASSUME \/ \E i \in Inventories : DeleteInventory(i)
             \/ \E v \in SecretState : ChangeSecret(v)
             \/ \E v \in ProviderState : ChangeProvider(v)
             \/ DeliverInventory \/ DeliverProvider \/ Restart \/ UNCHANGED vars
      PROVE  UNCHANGED webhooks
  BY <1>3 DEF DeleteInventory, ChangeSecret, ChangeProvider, DeliverInventory,
              DeliverProvider, Restart, vars
<1>4. UNCHANGED webhooks \/ DeleteWebhooks \/ RestoreWebhooks
  BY <1>1, <1>3 DEF Next
<1> QED  BY <1>2, <1>4 DEF TypeOK

-----------------------------------------------------------------------------
(* The invariant is kept.                                                  *)

(* Every variable keeps its type.                                          *)
LEMMA TypeStep == IInv /\ [Next]_vars => TypeOK'
<1> SUFFICES ASSUME IInv, [Next]_vars PROVE TypeOK'
  OBVIOUS
<1>0. TypeOK
  BY DEF IInv
<1>1. request' \in [Clients -> Request]
  BY RequestStep
<1>2. /\ inventory' \in [Inventories -> Inventory]
      /\ inventoryCache' \in [Inventories -> Inventory]
      /\ inventoryWatch' \in Seq(Inventories \X Inventory)
  <2>1. CASE UNCHANGED inventoryVars
    BY <1>0, <2>1 DEF inventoryVars, TypeOK
  <2>2. ASSUME NEW i \in Inventories, NEW v \in Inventory, Writes(i, v)
        PROVE  <<i, v>> \in Inventories \X Inventory
               /\ inventory' \in [Inventories -> Inventory]
               /\ inventoryCache' = inventoryCache
               /\ inventoryWatch' = Append(inventoryWatch, <<i, v>>)
    BY <1>0, <2>2 DEF Writes, WriteInventory, TypeOK
  <2>3. CASE \E i \in Inventories, v \in Inventory : Writes(i, v)
    <3> DEFINE S == Inventories \X Inventory
    <3>1. PICK i \in Inventories, v \in Inventory : Writes(i, v)
      BY <2>3
    <3>2. inventoryWatch \in Seq(S) /\ <<i, v>> \in S
      BY <1>0 DEF TypeOK
    <3> HIDE DEF S
    <3>3. Append(inventoryWatch, <<i, v>>) \in Seq(S)
      BY <3>2, AppendProperties
    <3> QED  BY <1>0, <2>2, <3>1, <3>3 DEF TypeOK, S
  <2>4. CASE DeliverInventory
    <3>1. /\ Head(inventoryWatch) \in Inventories \X Inventory
          /\ Tail(inventoryWatch) \in Seq(Inventories \X Inventory)
      BY <1>0, <2>4, HeadTailProperties DEF DeliverInventory, TypeOK
    <3> QED  BY <1>0, <2>4, <3>1 DEF DeliverInventory, TypeOK
  <2>5. CASE Restart
    <3>1. inventory' = inventory /\ inventoryCache' = inventory
          /\ inventoryWatch' = <<>>
      BY <2>5 DEF Restart
    <3> QED  BY <1>0, <3>1 DEF TypeOK
  <2> QED  BY <2>1, <2>3, <2>4, <2>5, InventoryStep DEF InventoryMove
<1>3. /\ provider' \in ProviderState /\ providerCache' \in ProviderState
      /\ providerWatch' \in Seq(ProviderState) /\ secret' \in SecretState
  <2>1. CASE UNCHANGED <<providerVars, secret>>
    BY <1>0, <2>1 DEF providerVars, TypeOK
  <2>2. CASE \E v \in ProviderState : ChangeProvider(v)
    BY <1>0, <2>2, AppendProperties DEF ChangeProvider, TypeOK
  <2>3. CASE \E v \in SecretState : ChangeSecret(v)
    BY <1>0, <2>3 DEF ChangeSecret, providerVars, TypeOK
  <2>4. CASE DeliverProvider
    BY <1>0, <2>4, HeadTailProperties DEF DeliverProvider, TypeOK
  <2>5. CASE Restart
    <3>1. /\ provider' = provider /\ providerCache' = provider
          /\ providerWatch' = <<>> /\ secret' = secret
      BY <2>5 DEF Restart
    <3> QED  BY <1>0, <3>1 DEF TypeOK
  <2> QED  BY <2>1, <2>2, <2>3, <2>4, <2>5, ProviderStep DEF ProviderMove
<1>4. ops' \in 0 .. MaxOps /\ skips' \in 0 .. MaxSkips
  <2> DEFINE Skip == skips < MaxSkips /\ skips' = skips + 1 /\ UNCHANGED ops
  <2>1. Operation \/ Skip \/ UNCHANGED bounds
    <3>1. ASSUME NEW c \in Clients,
                 \/ Serve(c)
                 \/ \E i \in Inventories, p \in Providers :
                      BeginCreate(c, i, p) \/ BeginUpdate(c, i, p)
          PROVE  Skip \/ UNCHANGED bounds
      BY <3>1 DEF Serve, ReadOld, SkipWebhook, GetSecret, GetProvider, Check,
                  Store, BeginCreate, BeginUpdate, Begin
    <3> QED  BY <3>1 DEF Next, DeleteInventory, ChangeSecret, ChangeProvider,
                         DeleteWebhooks, RestoreWebhooks, DeliverInventory,
                         DeliverProvider, Restart, vars
  <2>2. /\ ops \in 0 .. MaxOps /\ MaxOps \in Nat
        /\ skips \in 0 .. MaxSkips /\ MaxSkips \in Nat
    BY <1>0, AdmissionAssumption DEF TypeOK
  <2>3. CASE Operation
    BY <2>2, <2>3 DEF Operation
  <2>4. CASE Skip
    BY <2>2, <2>4
  <2>5. CASE UNCHANGED bounds
    BY <2>2, <2>5 DEF bounds
  <2> QED  BY <2>1, <2>3, <2>4, <2>5
<1> QED  BY <1>0, <1>1, <1>2, <1>3, <1>4, WebhookStep DEF TypeOK

(* A request only escapes the check while the webhook is away.             *)
LEMMA UncheckedStep == IInv /\ [Next]_vars => NoneUnchecked'
<1> SUFFICES ASSUME IInv, [Next]_vars, webhooks' = "kept", NEW c \in Clients
             PROVE  request'[c].step # "unchecked"
  BY DEF NoneUnchecked
<1>1. request[c].step # "unchecked"
  BY WebhookStep DEF IInv, NoneUnchecked
<1>2. RequestMove(c)
  BY RequestStep
<1> QED  BY <1>1, <1>2, NoRequestFacts DEF RequestMove, Begins, GoesOn, Suffers

(* A step never lets an older inventory follow a newer one to the cache.   *)
LEMMA CacheStep == IInv /\ [Next]_vars => CacheOrdered'
<1> SUFFICES ASSUME IInv, [Next]_vars, webhooks' = "kept" PROVE CacheOrdered'
  BY DEF CacheOrdered
<1>k. webhooks = "kept" /\ NoneUnchecked
  BY WebhookStep DEF IInv
<1>0. /\ webhooks = "kept" /\ CacheOrdered
      /\ inventory \in [Inventories -> Inventory]
      /\ inventoryCache \in [Inventories -> Inventory]
      /\ inventoryWatch \in Seq(Inventories \X Inventory)
  BY <1>k DEF IInv, TypeOK
<1> DEFINE w == inventoryWatch
<1>a. /\ Len(w) \in Nat /\ DOMAIN w = 1 .. Len(w)
      /\ \A n \in DOMAIN w : w[n] \in Inventories \X Inventory
  BY <1>0, QueueFacts
<1>b. \A n \in DOMAIN w : w[n][1] \in Inventories /\ w[n][2] \in Inventory
  BY <1>a
<1>1. CASE UNCHANGED inventoryVars
  BY <1>0, <1>1 DEF inventoryVars, CacheOrdered, Before
<1>2. ASSUME NEW i \in Inventories, NEW v \in Inventory, Writes(i, v)
      PROVE  CacheOrdered'
  <2> DEFINE l == Len(w)
             x == inventoryWatch'
  <2>1. Before(inventory[i], v)
    <3>1. inventory[i].uid \in Nat
      BY <1>0 DEF Inventory
    <3> QED  BY <1>2, <1>k, <3>1 DEF Writes, Before, NoneUnchecked, Unchecked
  <2>2. /\ inventoryCache' = inventoryCache
        /\ inventory'[i] = v
        /\ \A j \in Inventories \ {i} : inventory'[j] = inventory[j]
    BY <1>0, <1>2 DEF Writes, WriteInventory
  <2>3. /\ x = Append(w, <<i, v>>) /\ <<i, v>> \in Inventories \X Inventory
    BY <1>2 DEF Writes, WriteInventory
  <2>4. /\ DOMAIN x = 1 .. l + 1 /\ x[l + 1] = <<i, v>>
        /\ \A n \in 1 .. l : x[n] = w[n]
    BY <1>0, <2>3, QueueFacts, AppendProperties
  <2>5. \A j \in Inventories : /\ Before(inventory[j], inventory'[j])
                               /\ inventory'[j] \in Inventory
    BY <1>0, <2>1, <2>2, BeforeFacts
  <2>6. \A j \in Inventories : Before(inventoryCache[j], inventory'[j])
    BY <1>0, <2>5, BeforeFacts DEF CacheOrdered
  <2>7. \A n \in 1 .. l : /\ Before(inventoryCache[w[n][1]], w[n][2])
                         /\ Before(w[n][2], inventory'[w[n][1]])
    <3> SUFFICES ASSUME NEW n \in 1 .. l
                 PROVE  /\ Before(inventoryCache[w[n][1]], w[n][2])
                        /\ Before(w[n][2], inventory'[w[n][1]])
      OBVIOUS
    <3>1. /\ Before(inventoryCache[w[n][1]], w[n][2])
          /\ Before(w[n][2], inventory[w[n][1]])
      BY <1>0, <1>a DEF CacheOrdered
    <3>2. PICK j \in Inventories : j = w[n][1]
      BY <1>a, <1>b
    <3>3. PICK a \in Inventory : a = w[n][2]
      BY <1>a, <1>b
    <3>4. Before(a, inventory[j]) /\ Before(inventory[j], inventory'[j])
      BY <2>5, <3>1, <3>2, <3>3
    <3>5. inventory[j] \in Inventory /\ inventory'[j] \in Inventory
      BY <1>0, <2>5
    <3>6. Before(a, inventory'[j])
      BY <3>4, <3>5, BeforeFacts
    <3> QED  BY <3>1, <3>2, <3>3, <3>6
  <2>8. ASSUME NEW n \in DOMAIN x
        PROVE  /\ Before(inventoryCache[x[n][1]], x[n][2])
               /\ Before(x[n][2], inventory'[x[n][1]])
    <3>1. CASE n \in 1 .. l
      BY <2>4, <2>7, <3>1
    <3>2. CASE n = l + 1
      BY <2>2, <2>4, <2>6, <3>2, BeforeFacts
    <3> QED  BY <1>a, <2>4, <3>1, <3>2
  <2>9. ASSUME NEW m \in DOMAIN x, NEW n \in DOMAIN x, m <= n,
               x[m][1] = x[n][1]
        PROVE  Before(x[m][2], x[n][2])
    <3>1. CASE n \in 1 .. l
      <4>1. m \in 1 .. l
        BY <1>a, <2>4, <2>9, <3>1
      <4> QED  BY <1>0, <1>a, <2>4, <2>9, <3>1, <4>1 DEF CacheOrdered
    <3>2. CASE n = l + 1
      <4>1. x[m][1] = i /\ x[n][2] = inventory'[i]
        BY <2>2, <2>4, <2>9, <3>2
      <4> QED  BY <2>8, <4>1
    <3> QED  BY <1>a, <2>4, <3>1, <3>2
  <2> QED  BY <2>2, <2>6, <2>8, <2>9 DEF CacheOrdered, Before
<1>3. CASE DeliverInventory
  <2> DEFINE l == Len(w)
             x == inventoryWatch'
             i == w[1][1]
  <2>1. /\ w # <<>> /\ x = Tail(w) /\ inventory' = inventory
        /\ inventoryCache' =
             [inventoryCache EXCEPT ![Head(w)[1]] = Head(w)[2]]
    BY <1>3 DEF DeliverInventory
  <2>2. /\ l > 0 /\ Head(w) = w[1] /\ DOMAIN x = 1 .. l - 1
        /\ \A n \in 1 .. l - 1 : x[n] = w[n + 1]
    BY <1>0, <2>1, QueueFacts, HeadTailProperties
  <2>3. /\ 1 \in DOMAIN w /\ i \in Inventories
        /\ inventoryCache'[i] = w[1][2]
        /\ \A j \in Inventories \ {i} : inventoryCache'[j] = inventoryCache[j]
    BY <1>0, <1>a, <1>b, <2>1, <2>2
  <2>4. \A n \in DOMAIN x : n + 1 \in DOMAIN w /\ 1 <= n + 1
    BY <1>a, <2>2
  <2>5. \A j \in Inventories : Before(inventoryCache'[j], inventory[j])
    BY <1>0, <2>3 DEF CacheOrdered
  <2>6. ASSUME NEW n \in DOMAIN x
        PROVE  /\ Before(inventoryCache'[x[n][1]], x[n][2])
               /\ Before(x[n][2], inventory[x[n][1]])
    <3>1. x[n] = w[n + 1] /\ n + 1 \in DOMAIN w /\ 1 <= n + 1
      BY <2>2, <2>4
    <3>2. w[n + 1][1] \in Inventories
      BY <1>b, <3>1
    <3> HIDE DEF w, x
    <3>3. CASE x[n][1] = i
      BY <1>0, <2>3, <3>1, <3>3 DEF CacheOrdered, w
    <3>4. CASE x[n][1] # i
      BY <1>0, <2>3, <3>1, <3>2, <3>4 DEF CacheOrdered, w
    <3>5. Before(x[n][2], inventory[x[n][1]])
      BY <1>0, <3>1 DEF CacheOrdered, w
    <3> QED  BY <3>3, <3>4, <3>5
  <2>7. ASSUME NEW m \in DOMAIN x, NEW n \in DOMAIN x, m <= n,
               x[m][1] = x[n][1]
        PROVE  Before(x[m][2], x[n][2])
    <3>1. /\ x[n] = w[n + 1] /\ n + 1 \in DOMAIN w
          /\ x[m] = w[m + 1] /\ m + 1 \in DOMAIN w
      BY <2>2, <2>4
    <3>2. m + 1 <= n + 1
      BY <2>2, <2>7
    <3> QED  BY <1>0, <2>7, <3>1, <3>2 DEF CacheOrdered
  <2> QED  BY <2>1, <2>5, <2>6, <2>7 DEF CacheOrdered, Before
<1>4. CASE Restart
  <2>1. /\ inventory' = inventory /\ inventoryCache' = inventory
        /\ DOMAIN inventoryWatch' = {}
    BY <1>4 DEF Restart
  <2>2. \A i \in Inventories : Before(inventory[i], inventory[i])
    BY <1>0, BeforeFacts
  <2> QED  BY <2>1, <2>2 DEF CacheOrdered, Before
<1> QED  BY <1>1, <1>2, <1>3, <1>4, InventoryStep DEF InventoryMove

(* A step keeps an update that was compared with the old object equal to   *)
(* it in its provider.                                                     *)
LEMMA KeptStep == IInv /\ [Next]_vars => ProviderSound'
<1> SUFFICES ASSUME IInv, [Next]_vars, NEW c \in Clients,
                    request'[c].op = "update",
                    request'[c].step \in {"provider", "check", "store"}
             PROVE  request'[c].provider = request'[c].old.provider
  BY DEF ProviderSound
<1>1. ProviderSound /\ RequestMove(c)
  BY RequestStep DEF IInv
<1>2. CASE request'[c] = request[c] \/ request'[c] = NoRequest
  BY <1>1, <1>2, NoRequestFacts DEF ProviderSound
<1>3. CASE Begins(c)
  BY <1>3 DEF Begins
<1>4. CASE GoesOn(c)
  BY <1>1, <1>4 DEF GoesOn, Same, ProviderSound, ProviderKept
<1>5. CASE Suffers(c)
  BY <1>1, <1>5 DEF Suffers, Same, ProviderSound
<1> QED  BY <1>1, <1>2, <1>3, <1>4, <1>5 DEF RequestMove

(* A step only takes the cache, and the API server, away from the RDS      *)
(* inventories that a request knew of.                                     *)
LEMMA KnownStep == IInv /\ [Next]_vars => KnownSound'
<1> SUFFICES ASSUME IInv, [Next]_vars, webhooks' = "kept", NEW c \in Clients,
                    NEW k \in request'[c].known
             PROVE  /\ Since(k[2], inventoryCache'[k[1]])
                    /\ /\ request'[c].step = "store" /\ request'[c].op = "create"
                       /\ request'[c].provider = RDS
                       => ~(/\ inventory'[k[1]].uid = k[2]
                            /\ inventory'[k[1]].provider = RDS)
  BY DEF KnownSound, Since
<1>0. /\ webhooks = "kept" /\ NoneUnchecked
      /\ TypeOK /\ CacheOrdered /\ KnownSound /\ RequestMove(c)
      /\ request'[c] \in Request /\ TypeOK' /\ CacheOrdered'
  BY RequestStep, TypeStep, CacheStep, WebhookStep DEF IInv
<1>1. k \in Inventories \X Nat /\ request[c].known \subseteq Inventories \X Nat
  BY <1>0 DEF Request, TypeOK
<1>2. PICK i \in Inventories, u \in Nat : k[1] = i /\ k[2] = u
  BY <1>1
<1>t. /\ inventory[i] \in Inventory /\ inventory'[i] \in Inventory
      /\ inventoryCache[i] \in Inventory /\ inventoryCache'[i] \in Inventory
  BY <1>0 DEF TypeOK
<1>3. Before(inventoryCache[i], inventoryCache'[i])
  <2>1. CASE UNCHANGED inventoryVars \/ (\E j \in Inventories, v \in Inventory : Writes(j, v))
    <3>1. inventoryCache' = inventoryCache
      BY <2>1 DEF Writes, WriteInventory, inventoryVars
    <3> QED  BY <1>t, <3>1, BeforeFacts
  <2>2. CASE DeliverInventory
    <3> DEFINE w == inventoryWatch
    <3>1. /\ w # <<>> /\ w \in Seq(Inventories \X Inventory)
          /\ inventoryCache' =
               [inventoryCache EXCEPT ![Head(w)[1]] = Head(w)[2]]
      BY <1>0, <2>2 DEF DeliverInventory, TypeOK
    <3>2. /\ Head(w) = w[1] /\ 1 \in DOMAIN w
      BY <3>1, QueueFacts
    <3>3. /\ Before(inventoryCache[w[1][1]], w[1][2])
      BY <1>0, <3>2 DEF CacheOrdered
    <3>4. CASE i = w[1][1]
      BY <1>0, <3>1, <3>2, <3>3, <3>4 DEF TypeOK
    <3>5. CASE i # w[1][1]
      <4>1. inventoryCache'[i] = inventoryCache[i]
        BY <1>0, <3>1, <3>2, <3>5 DEF TypeOK
      <4> QED  BY <1>t, <4>1, BeforeFacts
    <3> QED  BY <3>4, <3>5
  <2>3. CASE Restart
    BY <1>0, <2>3 DEF Restart, CacheOrdered
  <2> QED  BY <2>1, <2>2, <2>3, InventoryStep DEF InventoryMove
<1>4. Before(inventory[i], inventory'[i])
  <2>1. CASE inventory'[i] = inventory[i]
    BY <1>t, <2>1, BeforeFacts
  <2>2. ASSUME NEW j \in Inventories, NEW v \in Inventory, Writes(j, v)
        PROVE  Before(inventory[i], inventory'[i])
    <3>1. inventory' = [inventory EXCEPT ![j] = v]
      BY <2>2 DEF Writes, WriteInventory
    <3>2. CASE i = j
      <4>1. inventory'[i] = v /\ inventory[i].uid \in Nat
        BY <1>0, <1>t, <3>1, <3>2 DEF TypeOK, Inventory
      <4> QED  BY <1>0, <2>2, <3>2, <4>1
               DEF Writes, Before, NoneUnchecked, Unchecked
    <3>3. CASE i # j
      BY <1>0, <2>1, <3>1, <3>3 DEF TypeOK
    <3> QED  BY <3>2, <3>3
  <2>3. CASE UNCHANGED inventoryVars \/ DeliverInventory \/ Restart
    BY <2>1, <2>3 DEF inventoryVars, DeliverInventory, Restart
  <2> QED  BY <2>2, <2>3, InventoryStep DEF InventoryMove
<1>5. Before(inventoryCache[i], inventory[i])
  BY <1>0 DEF CacheOrdered
<1>6. ASSUME k \in request[c].known
      PROVE  /\ Since(u, inventoryCache[i]) /\ Since(u, inventoryCache'[i])
             /\ Since(u, inventory[i])
  BY <1>0, <1>2, <1>3, <1>5, <1>6, <1>t, BeforeFacts DEF KnownSound
<1>7. ASSUME k \in request[c].known, request'[c].op = request[c].op,
             request'[c].provider = request[c].provider,
             request'[c].step = "store" => request[c].step = "store"
      PROVE  /\ Since(u, inventoryCache'[i])
             /\ /\ request'[c].step = "store" /\ request'[c].op = "create"
                /\ request'[c].provider = RDS
                => ~(inventory'[i].uid = u /\ inventory'[i].provider = RDS)
  <2>1. /\ request'[c].step = "store" /\ request'[c].op = "create"
        /\ request'[c].provider = RDS
        => ~(inventory[i].uid = u /\ inventory[i].provider = RDS)
    BY <1>0, <1>2, <1>7 DEF KnownSound
  <2> QED  BY <1>4, <1>6, <1>7, <1>t, <2>1, BeforeFacts
<1>8. CASE request'[c] = request[c] \/ Suffers(c)
  BY <1>2, <1>7, <1>8 DEF Suffers, Same
<1>9. CASE request'[c] = NoRequest
  BY <1>9, NoRequestFacts
<1>10. CASE Begins(c)
  <2>1. PICK j \in ListedRDS : k = <<j, inventoryCache[j].uid>>
    BY <1>10 DEF Begins
  <2>2. /\ inventoryCache[i].uid = u /\ inventoryCache[i].provider = RDS
        /\ inventoryCache' = inventoryCache /\ request'[c].step # "store"
    BY <1>2, <1>10, <2>1 DEF ListedRDS, Begins, inventoryVars
  <2> QED  BY <1>2, <2>2 DEF Since
<1>11. CASE GoesOn(c)
  <2>1. /\ request'[c].op = request[c].op
        /\ request'[c].provider = request[c].provider
        /\ k \in request[c].known /\ UNCHANGED inventoryVars
    BY <1>11 DEF GoesOn, Same
  <2>2. CASE request'[c].step # "store"
    BY <1>2, <1>7, <2>1, <2>2
  <2>3. CASE request'[c].step = "store"
    <3>1. \/ request'[c].op # "create" \/ request'[c].provider # RDS
          \/ ListedRDS = {}
      BY <1>11, <2>1, <2>3 DEF GoesOn, validateRDS
    <3>2. CASE ListedRDS = {}
      <4>1. inventoryCache[i].provider # RDS
        BY <3>2 DEF ListedRDS
      <4>2. ~(inventory[i].uid = u /\ inventory[i].provider = RDS)
        BY <1>5, <1>6, <1>t, <2>1, <4>1, BeforeFacts
      <4> QED  BY <1>2, <1>6, <2>1, <4>2 DEF inventoryVars
    <3>3. CASE request'[c].op # "create" \/ request'[c].provider # RDS
      BY <1>2, <1>6, <2>1, <3>3
    <3> QED  BY <3>1, <3>2, <3>3
  <2> QED  BY <2>2, <2>3
<1> QED  BY <1>0, <1>8, <1>9, <1>10, <1>11 DEF RequestMove

(* A step keeps the last event about the providers the truth about them.   *)
LEMMA CoherentStep == IInv /\ [Next]_vars => ProviderCoherent'
<1> SUFFICES ASSUME IInv, [Next]_vars PROVE ProviderCoherent'
  OBVIOUS
<1> DEFINE w == providerWatch
<1>0. ProviderCoherent /\ w \in Seq(ProviderState)
  BY DEF IInv, TypeOK
<1>1. CASE UNCHANGED providerVars
  BY <1>0, <1>1 DEF providerVars, ProviderCoherent
<1>2. ASSUME NEW v \in ProviderState, ChangeProvider(v) PROVE ProviderCoherent'
  <2>1. provider' = v /\ providerWatch' = Append(w, v)
    BY <1>2 DEF ChangeProvider
  <2>2. providerWatch' # <<>> /\ providerWatch'[Len(providerWatch')] = v
    BY <1>0, <2>1, QueueFacts
  <2> QED  BY <2>1, <2>2 DEF ProviderCoherent
<1>3. CASE \E v \in SecretState : ChangeSecret(v)
  BY <1>1, <1>3 DEF ChangeSecret
<1>4. CASE DeliverProvider
  <2>1. /\ w # <<>> /\ providerCache' = Head(w) /\ providerWatch' = Tail(w)
        /\ provider' = provider
    BY <1>4 DEF DeliverProvider
  <2>2. /\ Len(w) \in Nat /\ Len(w) > 0 /\ Head(w) = w[1]
        /\ Tail(w) \in Seq(ProviderState) /\ Len(Tail(w)) = Len(w) - 1
        /\ \A n \in 1 .. Len(w) - 1 : Tail(w)[n] = w[n + 1]
        /\ w[Len(w)] = provider
    BY <1>0, <2>1, QueueFacts DEF ProviderCoherent
  <2>e. Tail(w) = <<>> <=> Len(Tail(w)) = 0
    <3> DEFINE t == Tail(w)
    <3>1. t \in Seq(ProviderState)
      BY <2>2
    <3> HIDE DEF t
    <3>2. t = <<>> <=> Len(t) = 0
      BY <3>1, EmptySeq
    <3> QED  BY <3>2 DEF t
  <2>3. CASE Len(w) = 1
    <3>1. Tail(w) = <<>>
      BY <2>2, <2>3, <2>e
    <3> QED  BY <2>1, <2>2, <2>3, <3>1 DEF ProviderCoherent
  <2>4. CASE Len(w) # 1
    <3>1. /\ Len(w) - 1 \in 1 .. Len(w) - 1 /\ (Len(w) - 1) + 1 = Len(w)
      BY <2>2, <2>4
    <3>2. Tail(w)[Len(Tail(w))] = provider
      BY <2>2, <3>1
    <3>3. Tail(w) # <<>>
      BY <2>2, <2>4, <2>e
    <3> QED  BY <2>1, <3>2, <3>3 DEF ProviderCoherent
  <2> QED  BY <2>3, <2>4
<1>5. CASE Restart
  BY <1>5 DEF Restart, ProviderCoherent
<1> QED  BY <1>1, <1>2, <1>3, <1>4, <1>5, ProviderStep DEF ProviderMove

(* A step that changes what a request has read disturbs the request.       *)
LEMMA ReadStep == IInv /\ [Next]_vars => ReadSound'
<1> SUFFICES ASSUME IInv, [Next]_vars, NEW c \in Clients,
                    request'[c].step # "idle", ~request'[c].disturbed
             PROVE  /\ providerWatch' = <<>>
                    /\ request'[c].step \in {"provider", "check"} =>
                         request'[c].secret = secret'
                    /\ request'[c].step = "check" =>
                         /\ request'[c].field = provider'
                         /\ provider' # "absent"
                    /\ request'[c].step = "store" =>
                         /\ provider' # "absent"
                         /\ provider' = "required" => secret' = "set"
  BY DEF ReadSound
<1>0. ReadSound /\ ProviderCoherent /\ RequestMove(c) /\ request[c] \in Request
  BY RequestStep DEF IInv, TypeOK
<1>1. CASE Begins(c)
  BY <1>1 DEF Begins, providerVars
<1>2. CASE GoesOn(c)
  <2>1. /\ request[c].step # "idle" /\ ~request[c].disturbed
        /\ UNCHANGED <<providerVars, secret>>
    BY <1>2 DEF GoesOn
  <2>2. providerWatch = <<>> /\ providerCache = provider
    BY <1>0, <2>1 DEF ReadSound, ProviderCoherent
  <2>3. UNCHANGED <<provider, providerWatch, secret>>
    BY <2>1 DEF providerVars
  <2> QED  BY <1>0, <1>2, <2>1, <2>2, <2>3
           DEF GoesOn, ReadSound, validateInventoryMandatoryFields
<1>3. CASE Suffers(c)
  BY <1>3 DEF Suffers
<1>4. CASE request'[c] = NoRequest
  BY <1>4, NoRequestFacts
<1>5. CASE request'[c] = request[c]
  <2>1. /\ request[c].step # "idle" /\ ~request[c].disturbed
        /\ providerWatch = <<>>
    BY <1>0, <1>5 DEF ReadSound
  <2>2. CASE UNCHANGED <<providerVars, secret>>
    BY <1>0, <1>5, <2>1, <2>2 DEF ReadSound, providerVars
  <2>3. CASE \/ \E v \in ProviderState : ChangeProvider(v)
             \/ \E v \in SecretState : ChangeSecret(v)
    <3>1. Disturb
      BY <2>3 DEF ChangeProvider, ChangeSecret
    <3>2. request'[c].disturbed = (request[c].step # "idle")
      BY <1>0, <3>1 DEF Disturb, Request
    <3> QED  BY <1>5, <2>1, <3>2
  <2>4. CASE DeliverProvider
    BY <2>1, <2>4 DEF DeliverProvider
  <2>5. CASE Restart
    BY <1>0, <1>5, <2>1, <2>5 DEF Restart, ReadSound
  <2> QED  BY <2>2, <2>3, <2>4, <2>5, ProviderStep DEF ProviderMove
<1> QED  BY <1>0, <1>1, <1>2, <1>3, <1>4, <1>5 DEF RequestMove

-----------------------------------------------------------------------------
(* The theorems.                                                           *)

(* Nothing is requested, and nothing there, to begin with.                 *)
LEMMA InitSafe == Init => IInv
<1> SUFFICES ASSUME Init PROVE IInv
  OBVIOUS
<1> DEFINE none == [uid |-> 0, provider |-> "absent"]
<1>1. none \in Inventory
  BY DEF Inventory
<1>2. /\ inventory = [i \in Inventories |-> none] /\ inventoryCache = inventory
      /\ inventoryWatch = <<>> /\ providerWatch = <<>>
      /\ provider = "required" /\ providerCache = "required"
      /\ secret = "set" /\ webhooks = "kept" /\ ops = 0 /\ skips = 0
      /\ request = [c \in Clients |-> NoRequest]
  BY DEF Init
<1> HIDE DEF none
<1>3. TypeOK
  <2>1. ops \in 0 .. MaxOps /\ skips \in 0 .. MaxSkips
    BY <1>2, AdmissionAssumption
  <2>2. /\ inventoryWatch \in Seq(Inventories \X Inventory)
        /\ providerWatch \in Seq(ProviderState)
    BY <1>2
  <2>3. /\ inventory \in [Inventories -> Inventory]
        /\ inventoryCache \in [Inventories -> Inventory]
        /\ request \in [Clients -> Request]
    BY <1>1, <1>2, NoRequestFacts
  <2>4. /\ provider \in ProviderState /\ providerCache \in ProviderState
        /\ secret \in SecretState
    BY <1>2 DEF ProviderState, SecretState
  <2> QED  BY <1>2, <2>1, <2>2, <2>3, <2>4 DEF TypeOK
<1>4. CacheOrdered
  <2>1. DOMAIN inventoryWatch = {}
    BY <1>2
  <2>2. \A i \in Inventories : Before(inventoryCache[i], inventory[i])
    BY <1>1, <1>2, BeforeFacts
  <2> QED  BY <2>1, <2>2 DEF CacheOrdered
<1>5. \A c \in Clients : request[c].step = "idle" /\ request[c].known = {}
  BY <1>2, NoRequestFacts
<1>6. NoneUnchecked /\ ProviderSound /\ KnownSound /\ ReadSound
  BY <1>5 DEF NoneUnchecked, ProviderSound, KnownSound, ReadSound
<1>7. ProviderCoherent
  BY <1>2 DEF ProviderCoherent
<1> QED  BY <1>3, <1>4, <1>6, <1>7 DEF IInv

(* The inductive invariant holds of the admission.                         *)
THEOREM Invariance == Spec => []IInv
<1>1. IInv /\ [Next]_vars => IInv'
  BY TypeStep, UncheckedStep, CacheStep, KeptStep, KnownStep, CoherentStep,
     ReadStep DEF IInv
<1> QED  BY <1>1, InitSafe, PTL DEF Spec

(* Every variable keeps its type.                                          *)
THEOREM TypeCorrect == Spec => []TypeOK
<1>1. IInv => TypeOK
  BY DEF IInv
<1> QED  BY <1>1, Invariance, PTL

(* An inventory has one provider from its creation to its deletion, under  *)
(* any number of concurrent updates, deletions and re-creations, unless an *)
(* update escapes the check while the webhook is away: validateInventory   *)
(* compares with the object that is then replaced.                         *)
THEOREM ProviderImmutable == Spec => ProviderFixed
<1>1. IInv /\ [Next]_vars =>
        [\A i \in Inventories :
           inventory[i].uid = inventory'[i].uid /\ inventory'[i].provider # "absent"
             => \/ inventory'[i].provider = inventory[i].provider
                \/ \E c \in Clients :
                     /\ request[c].step = "unchecked" /\ request[c].name = i
                     /\ request'[c].step = "idle"]_vars
  <2> SUFFICES ASSUME IInv, [Next]_vars, NEW i \in Inventories,
                      inventory[i].uid = inventory'[i].uid,
                      inventory'[i].provider # "absent"
               PROVE  inventory'[i].provider = inventory[i].provider \/ Unchecked(i)
    BY DEF Unchecked
  <2>0. inventory \in [Inventories -> Inventory] /\ inventory[i].uid \in Nat
    BY DEF IInv, TypeOK, Inventory
  <2>1. ASSUME NEW j \in Inventories, NEW v \in Inventory, Writes(j, v)
        PROVE  inventory'[i].provider = inventory[i].provider \/ Unchecked(i)
    <3>1. /\ i # j => inventory'[i] = inventory[i]
          /\ i = j => inventory'[i] = v
      BY <2>0, <2>1 DEF Writes, WriteInventory
    <3> QED  BY <2>0, <2>1, <3>1 DEF Writes
  <2>2. CASE UNCHANGED inventoryVars \/ DeliverInventory \/ Restart
    BY <2>2 DEF inventoryVars, DeliverInventory, Restart
  <2> QED  BY <2>1, <2>2, InventoryStep DEF InventoryMove
<1> QED  BY <1>1, Invariance, PTL DEF Spec, ProviderFixed

(* A request that validateRDS has let through does not stand beside an RDS *)
(* inventory that was in the operator's cache when the request began, as   *)
(* long as the webhook has never been away.                                *)
THEOREM RDSRespected == Spec => []KnownRDSRespected
<1>1. IInv => KnownRDSRespected
  <2> SUFFICES ASSUME IInv, NEW c \in Clients, NEW i \in Inventories,
                      request[c].step = "store", request[c].op = "create",
                      request[c].provider = RDS, inventory[i].provider = RDS,
                      webhooks = "kept"
               PROVE  <<i, inventory[i].uid>> \notin request[c].known
    BY DEF KnownRDSRespected
  <2> QED  BY DEF IInv, KnownSound
<1> QED  BY <1>1, Invariance, PTL

(* The webhook's three reads belong together: what it admits has the       *)
(* credentials its provider requires, unless one of them changed since.    *)
THEOREM CredentialsSound == Spec => []CredentialsChecked
<1>1. IInv => CredentialsChecked
  BY DEF IInv, ReadSound, CredentialsChecked
<1> QED  BY <1>1, Invariance, PTL
=============================================================================
