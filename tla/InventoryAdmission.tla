------------------------ MODULE InventoryAdmission ------------------------
(***************************************************************************)
(* The admission of provider accounts (DBaaSInventory): clients create and *)
(* update inventories, and the API server asks the operator's validating   *)
(* webhook before it stores one.  The webhook answers from several reads:  *)
(* the secret with the credentials comes from the API server, the provider *)
(* and the list of RDS inventories from caches that lag behind it.  Any    *)
(* number of requests are under way at once.                               *)
(*                                                                         *)
(* Of the API server: an update is validated against the stored object and *)
(* replaces that very object, or is validated anew; a create fails if the  *)
(* name is taken by then; a request whose webhook does not answer fails    *)
(* (failurePolicy=fail).  While the webhook's configuration is missing,    *)
(* because the operator deletes it to have it renewed (PlatformUpkeep),    *)
(* nothing is validated at all.                                            *)
(*                                                                         *)
(* Abstractions: all inventories are in one namespace and name one secret, *)
(* with one credential field that a provider may require (a key without a  *)
(* value stands for a missing one too); the providers come, go and change  *)
(* their credential fields together; whether the label selector in an      *)
(* inventory is valid is chosen where it is looked at.                     *)
(***************************************************************************)
EXTENDS Naturals, Sequences, FiniteSets

CONSTANTS
  Inventories,  \* names of inventories
  Providers,    \* names of providers
  RDS,          \* the one of which there may be a single inventory
  Clients,      \* each has at most one request under way
  MaxOps,       \* bound: deletions, changes of secret or provider, restarts
  MaxSkips      \* bound: requests that nobody validates

ASSUME AdmissionAssumption ==
  /\ Inventories # {}
  /\ RDS \in Providers
  /\ "absent" \notin Providers
  /\ MaxOps \in Nat
  /\ MaxSkips \in Nat

VARIABLES
  inventory,       \* inventory[i] in the API server
  inventoryCache,  \* as the operator sees it, indexed by provider
  inventoryWatch,  \* the events between, in order
  provider,        \* the providers: absent, or do they require the field?
  providerCache,   \* as the operator sees it
  providerWatch,   \* the events between, in order
  secret,          \* the field's value in the secret
  webhooks,        \* "kept": always installed so far; "away", or "back"
  request,         \* request[c]: the request of client c
  ops, skips       \* see MaxOps, MaxSkips

inventoryVars == <<inventory, inventoryCache, inventoryWatch>>
providerVars  == <<provider, providerCache, providerWatch>>
bounds        == <<ops, skips>>
vars == <<inventoryVars, providerVars, secret, webhooks, request, bounds>>

(* An inventory: its incarnation, and its provider ("absent": no object).  *)
Inventory == [uid : Nat, provider : Providers \cup {"absent"}]
Absent(i) == inventory[i].provider = "absent"

ProviderState == {"absent", "optional", "required"}
SecretState   == {"absent", "empty", "set"}

(* What a request holds: the inventory it is to store, the one that is to  *)
(* be replaced, and what the webhook has read.  known and disturbed are    *)
(* history: the RDS inventories in the cache when a create began, and      *)
(* whether secret or provider changed since.                               *)
Request == [step : {"idle", "old", "secret", "provider", "check", "store",
                    "unchecked"},
            op : {"create", "update"}, name : Inventories,
            provider : Providers, old : Inventory, secret : SecretState,
            field : ProviderState, known : SUBSET (Inventories \X Nat),
            disturbed : BOOLEAN]

NoRequest == [step |-> "idle", op |-> "create",
              name |-> CHOOSE i \in Inventories : TRUE, provider |-> RDS,
              old |-> [uid |-> 0, provider |-> "absent"],
              secret |-> "absent", field |-> "absent",
              known |-> {}, disturbed |-> FALSE]

(* The inventories the index spec.providerRef.name lists for RDS.          *)
ListedRDS == {i \in Inventories : inventoryCache[i].provider = RDS}

(* No inventory is there yet; the providers and the secret are in order.    *)
Init ==
  /\ inventory = [i \in Inventories |-> [uid |-> 0, provider |-> "absent"]]
  /\ inventoryCache = inventory
  /\ inventoryWatch = <<>>
  /\ provider = "required"
  /\ providerCache = provider
  /\ providerWatch = <<>>
  /\ secret = "set"
  /\ webhooks = "kept"
  /\ request = [c \in Clients |-> NoRequest]
  /\ ops = 0
  /\ skips = 0

Operation == /\ ops < MaxOps
             /\ ops' = ops + 1
             /\ UNCHANGED skips

-----------------------------------------------------------------------------
(* The cluster around the webhook.                                         *)

WriteInventory(i, v) ==
  /\ inventory' = [inventory EXCEPT ![i] = v]
  /\ inventoryWatch' = Append(inventoryWatch, <<i, v>>)
  /\ UNCHANGED inventoryCache

(* A deletion passes without a question: ValidateDelete returns nil.       *)
DeleteInventory(i) ==
  /\ Operation
  /\ ~Absent(i)
  /\ WriteInventory(i, [inventory[i] EXCEPT !.provider = "absent"])
  /\ UNCHANGED <<providerVars, secret, webhooks, request>>

Disturb == request' = [c \in Clients |->
                         [request[c] EXCEPT
                            !.disturbed = request[c].step # "idle"]]

ChangeSecret(v) ==
  /\ Operation
  /\ v # secret
  /\ secret' = v
  /\ Disturb
  /\ UNCHANGED <<inventoryVars, providerVars, webhooks>>

ChangeProvider(v) ==
  /\ Operation
  /\ v # provider
  /\ provider' = v
  /\ providerWatch' = Append(providerWatch, v)
  /\ Disturb
  /\ UNCHANGED <<inventoryVars, providerCache, secret, webhooks>>

(* fixConversionWebhooks deletes the webhook's configuration ...           *)
DeleteWebhooks ==
  /\ Operation
  /\ webhooks # "away"
  /\ webhooks' = "away"
  /\ UNCHANGED <<inventoryVars, providerVars, secret, request>>

(* ... and OLM creates it again.                                           *)
RestoreWebhooks ==
  /\ webhooks = "away"
  /\ webhooks' = "back"
  /\ UNCHANGED <<inventoryVars, providerVars, secret, request, bounds>>

(* The informers of the two kinds.                                         *)
DeliverInventory ==
  /\ inventoryWatch # <<>>
  /\ LET e == Head(inventoryWatch) IN
       inventoryCache' = [inventoryCache EXCEPT ![e[1]] = e[2]]
  /\ inventoryWatch' = Tail(inventoryWatch)
  /\ UNCHANGED <<inventory, providerVars, secret, webhooks, request, bounds>>

DeliverProvider ==
  /\ providerWatch # <<>>
  /\ providerCache' = Head(providerWatch)
  /\ providerWatch' = Tail(providerWatch)
  /\ UNCHANGED <<inventoryVars, provider, secret, webhooks, request, bounds>>

(* A new process: what the old one was validating is refused.              *)
Restart ==
  /\ Operation
  /\ inventoryCache' = inventory /\ inventoryWatch' = <<>>
  /\ providerCache' = provider /\ providerWatch' = <<>>
  /\ request' = [c \in Clients |->
                   IF request[c].step \in {"secret", "provider", "check"}
                   THEN NoRequest ELSE request[c]]
  /\ UNCHANGED <<inventory, provider, secret, webhooks>>

-----------------------------------------------------------------------------
(* A request, up to the webhook.                                           *)

Set(c, r) == request' = [request EXCEPT ![c] = r]
Refuse(c) == Set(c, NoRequest)

Begin(c, op, i, p) ==
  /\ request[c].step = "idle"
  /\ Set(c, [NoRequest EXCEPT
               !.step = IF op = "create" THEN "secret" ELSE "old",
               !.op = op, !.name = i, !.provider = p,
               !.known = IF op = "create" /\ p = RDS
                         THEN {<<j, inventoryCache[j].uid>> : j \in ListedRDS}
                         ELSE {},
               !.disturbed = providerWatch # <<>>])
  /\ UNCHANGED <<inventoryVars, providerVars, secret, webhooks, bounds>>

BeginCreate(c, i, p) == Absent(i) /\ Begin(c, "create", i, p)
BeginUpdate(c, i, p) == ~Absent(i) /\ Begin(c, "update", i, p)

(* The API server reads the object that an update is to replace.           *)
ReadOld(c) ==
  LET r == request[c] IN
  /\ r.step = "old"
  /\ IF Absent(r.name) THEN Refuse(c)
     ELSE Set(c, [r EXCEPT !.step = "secret", !.old = inventory[r.name]])
  /\ UNCHANGED <<inventoryVars, providerVars, secret, webhooks, bounds>>

(* There is no webhook to ask: the object is stored as it came, though the *)
(* webhook may be back by then.                                            *)
SkipWebhook(c) ==
  /\ webhooks = "away"
  /\ request[c].step = "secret"
  /\ Set(c, [request[c] EXCEPT !.step = "unchecked"])
  /\ skips < MaxSkips /\ skips' = skips + 1
  /\ UNCHANGED <<inventoryVars, providerVars, secret, webhooks, ops>>

-----------------------------------------------------------------------------
(* validateInventory.                                                      *)

(* Mutant: the new object is compared with the cached one.                 *)
ProviderKeptCached(r) ==
  r.op = "update" => r.provider = inventoryCache[r.name].provider

(* The provider's name is immutable.                                       *)
ProviderKept(r) == r.op = "update" => r.provider = r.old.provider

GetSecret(c) ==
  LET r == request[c] IN
  /\ r.step = "secret"
  /\ IF ProviderKept(r) /\ secret # "absent"
     THEN Set(c, [r EXCEPT !.step = "provider", !.secret = secret])
     ELSE Refuse(c)
  /\ UNCHANGED <<inventoryVars, providerVars, secret, webhooks, bounds>>

(* Mutant: the field is what the secret holds, not what is required.       *)
GetProviderMixed(c) ==
  LET r == request[c] IN
  /\ r.step = "provider"
  /\ IF providerCache # "absent"
     THEN Set(c, [r EXCEPT !.step = "check", !.field = r.secret])
     ELSE Refuse(c)
  /\ UNCHANGED <<inventoryVars, providerVars, secret, webhooks, bounds>>

GetProvider(c) ==
  LET r == request[c] IN
  /\ r.step = "provider"
  /\ IF providerCache # "absent"
     THEN Set(c, [r EXCEPT !.step = "check", !.field = providerCache])
     ELSE Refuse(c)
  /\ UNCHANGED <<inventoryVars, providerVars, secret, webhooks, bounds>>

(* Mutant: the list is not restricted to RDS.                              *)
validateRDSAll == \A i \in Inventories : inventoryCache[i].provider = "absent"

(* Mutant: an RDS inventory of the webhook's own is taken for granted.     *)
validateRDSOne == Cardinality(ListedRDS) <= 1

(* No RDS inventory is listed.                                             *)
validateRDS == ListedRDS = {}

(* Mutant: a key without a value will do.                                  *)
validateInventoryMandatoryFieldsLax(r) ==
  r.field = "required" => r.secret # "absent"

(* A required field has a value in the secret.                             *)
validateInventoryMandatoryFields(r) == r.field = "required" => r.secret = "set"

(* The list is the last call; the rest is decided on what was read.        *)
Check(c, validSelector) ==
  LET r == request[c] IN
  /\ r.step = "check"
  /\ IF /\ r.op = "create" /\ r.provider = RDS => validateRDS
        /\ validSelector
        /\ validateInventoryMandatoryFields(r)
     THEN Set(c, [r EXCEPT !.step = "store", !.secret = "absent",
                           !.field = "absent"])
     ELSE Refuse(c)
  /\ UNCHANGED <<inventoryVars, providerVars, secret, webhooks, bounds>>

-----------------------------------------------------------------------------
(* The object, admitted or unchecked, is stored.  An update whose object   *)
(* was replaced in the meantime starts over.                               *)
Store(c) ==
  LET r   == request[c]
      now == inventory[r.name] IN
  /\ r.step \in {"store", "unchecked"}
  /\ \/ /\ r.op = "create" /\ Absent(r.name)
        /\ WriteInventory(r.name, [uid |-> now.uid + 1,
                                   provider |-> r.provider])
        /\ Refuse(c)
     \/ /\ r.op = "create" /\ ~Absent(r.name)
        /\ Refuse(c)
        /\ UNCHANGED inventoryVars
     \/ /\ r.op = "update" /\ now = r.old
        /\ IF now.provider = r.provider THEN UNCHANGED inventoryVars
           ELSE WriteInventory(r.name, [now EXCEPT !.provider = r.provider])
        /\ Refuse(c)
     \/ /\ r.op = "update" /\ now # r.old
        /\ Set(c, [r EXCEPT !.step = "old"])
        /\ UNCHANGED inventoryVars
  /\ UNCHANGED <<providerVars, secret, webhooks, bounds>>

Serve(c) ==
  \/ ReadOld(c) \/ SkipWebhook(c) \/ GetSecret(c) \/ GetProvider(c)
  \/ Store(c)
  \/ \E validSelector \in BOOLEAN : Check(c, validSelector)

Next ==
  \/ \E c \in Clients :
       \/ Serve(c)
       \/ \E i \in Inventories, p \in Providers :
            BeginCreate(c, i, p) \/ BeginUpdate(c, i, p)
  \/ \E i \in Inventories : DeleteInventory(i)
  \/ \E v \in SecretState : ChangeSecret(v)
  \/ \E v \in ProviderState : ChangeProvider(v)
  \/ DeleteWebhooks \/ RestoreWebhooks
  \/ DeliverInventory \/ DeliverProvider \/ Restart

Spec == Init /\ [][Next]_vars

(* An RDS inventory with a valid selector comes before the last check.     *)
CheckRDS(c) ==
  /\ request[c].op = "create" /\ request[c].provider = RDS
  /\ Check(c, TRUE)

(* Requests are answered and events delivered; some client never gives up  *)
(* on an RDS inventory, and does not send wrong selectors for ever.        *)
Fairness ==
  /\ \A c \in Clients : WF_vars(Serve(c))
  /\ SF_vars(\E c \in Clients : CheckRDS(c))
  /\ WF_vars(DeliverInventory) /\ WF_vars(DeliverProvider)
  /\ SF_vars(\E c \in Clients, i \in Inventories :
               BeginCreate(c, i, RDS))

FairSpec == Spec /\ Fairness

-----------------------------------------------------------------------------
(* Properties.                                                             *)

TypeOK ==
  /\ inventory \in [Inventories -> Inventory]
  /\ inventoryCache \in [Inventories -> Inventory]
  /\ inventoryWatch \in Seq(Inventories \X Inventory)
  /\ provider \in ProviderState /\ providerCache \in ProviderState
  /\ providerWatch \in Seq(ProviderState)
  /\ secret \in SecretState
  /\ webhooks \in {"kept", "away", "back"}
  /\ request \in [Clients -> Request]
  /\ ops \in 0 .. MaxOps /\ skips \in 0 .. MaxSkips

(* "Provider name is immutable for provider accounts": an inventory has    *)
(* one provider from its creation to its deletion, also when it is deleted *)
(* and created again, for another provider, while an update of the former  *)
(* one is being validated.  Only an update of its own that came while the  *)
(* webhook was away can change it.                                         *)
ProviderFixed ==
  [][\A i \in Inventories :
       inventory[i].uid = inventory'[i].uid /\ inventory'[i].provider # "absent"
         => \/ inventory'[i].provider = inventory[i].provider
            \/ \E c \in Clients :
                 /\ request[c].step = "unchecked" /\ request[c].name = i
                 /\ request'[c].step = "idle"]_vars

(* A request for an RDS inventory that the webhook has let through will    *)
(* not stand beside one that the operator knew of when the request began:  *)
(* the check can only be passed by requests that overlap.  (Not so once    *)
(* the webhook has been away: an inventory that left RDS by an unchecked   *)
(* update could come back to it.)                                          *)
KnownRDSRespected ==
  webhooks = "kept" =>
  \A c \in Clients :
    LET r == request[c] IN
    r.step = "store" /\ r.op = "create" /\ r.provider = RDS =>
      \A i \in Inventories :
        inventory[i].provider = RDS => <<i, inventory[i].uid>> \notin r.known

(* An inventory that the webhook has let through has a provider, and the   *)
(* credentials this provider requires, unless secret or provider changed   *)
(* while the request was under way: the webhook's three reads belong       *)
(* together, also when it has been away in between.                        *)
CredentialsChecked ==
  \A c \in Clients :
    LET r == request[c] IN
    r.step = "store" /\ ~r.disturbed =>
      provider # "absent" /\ (provider = "required" => secret = "set")

(* A client that keeps asking for an RDS inventory gets one (or somebody   *)
(* else has it), as soon as provider and credentials stay in order and a   *)
(* name is free: a deleted one does not block its successor for good.      *)
RDSAdmitted ==
  <>[](secret = "set" /\ provider # "absent") =>
    []<>(\E i \in Inventories : inventory[i].provider = RDS) \/
    <>[](\A i \in Inventories : ~Absent(i))
=============================================================================
