---------------------------- MODULE DBaaSAccess ----------------------------
(***************************************************************************)
(* Who may use an inventory: the check that the connection and instance    *)
(* controllers make before they hand an object over to its provider        *)
(* (checkInventory, isValidConnectionNS, canProvision), and the admission  *)
(* webhooks that keep unusable label selectors away from it.               *)
(*                                                                         *)
(* The check reads the inventory, then the policies of the inventory's     *)
(* namespace, then the labelled namespaces, each from a cache that lags on *)
(* its own; meanwhile administrators change all three.  Nothing watches    *)
(* them on behalf of the object: a verdict is revised because it is        *)
(* retried, or by the periodic resync.  Nor are the webhooks always there: *)
(* the operator itself deletes their configurations to have them renewed   *)
(* (PlatformUpkeep), and what is written meanwhile nobody checks.          *)
(*                                                                         *)
(* Abstractions: one DBaaSConnection or DBaaSInstance (a controller never  *)
(* runs two reconciles of one object at once); a policy is what the check  *)
(* reads of it, and of the policies only the active one counts             *)
(* (DBaaSPolicy says which that is); a selector is missing, selects one    *)
(* label, or is none that Kubernetes accepts; whether the inventory is     *)
(* ready is somebody else's business, and what becomes of an object that   *)
(* passes too (ProviderResource).                                          *)
(***************************************************************************)
EXTENDS Naturals, Sequences

CONSTANTS
  Kind,         \* "instance" or "connection"
  Namespaces,   \* the cluster's namespaces
  Home,         \* the inventory's
  PolicySpecs,  \* what an administrator may try as a policy
  Nil,          \* Go's nil
  MaxOps,       \* bound: what users and administrators do, and restarts
  MaxFaults     \* bound: API calls that fail

PolicySpec == [namespaces : SUBSET (Namespaces \cup {"*"}),
               selector : {"nil", "label", "invalid"},
               disableProvisions : {"nil", "true", "false"}]

ASSUME AccessAssumption ==
  /\ Kind \in {"instance", "connection"}
  /\ Home \in Namespaces
  /\ PolicySpecs \subseteq PolicySpec
  /\ Nil \notin PolicySpec
  /\ MaxOps \in Nat
  /\ MaxFaults \in Nat

VARIABLES
  namespace,  \* the object's
  api,        \* what the check depends on, as the API server has it:
              \*   inventory, policy (the active one) and labelled namespaces
  cache,      \* the same as the operator sees it
  watch,      \* watch[x]: the events between the two
  webhooks,   \* "kept": always installed so far; "away", or "back" again
  reason,     \* of the object's Ready condition
  events,     \* the object's own events on their way to the controller
  queued,     \* the object's key is in the work queue
  worker,     \* the reconcile in flight
  dropped,    \* the last refusal could not be reported, and nobody retries
  ops, faults \* see MaxOps, MaxFaults

configVars == <<api, watch, webhooks>>
bounds     == <<ops, faults>>
vars == <<namespace, configVars, cache, reason, events, queued, worker,
          dropped, bounds>>

(* Home may use the inventory with or without a label.                     *)
Others == Namespaces \ {Home}

Inventory == [ready : BOOLEAN, policy : PolicySpecs \cup {Nil}]
Config == [inventory : Inventory \cup {Nil}, policy : PolicySpecs \cup {Nil},
           labelled : SUBSET Others]

(* The answers of the check.  "passed" stands for what the provider's      *)
(* resource then makes of the condition.                                   *)
Waiting == {"not found", "not ready", "not provisionable"}
Reasons == {"passed", "refused"} \cup Waiting

Worker == [step : {"idle", "inventory", "policy", "namespace", "status"},
           inventory : Inventory \cup {Nil}, policy : PolicySpecs \cup {Nil},
           reason : Reasons \cup {"none"}, fresh : BOOLEAN]
IdleWorker == [step |-> "idle", inventory |-> Nil, policy |-> Nil,
               reason |-> "none", fresh |-> FALSE]

(* The admission webhooks.                                                 *)

(* Mutant: a policy's selector is not looked at.                           *)
validatePolicyAny(s) == TRUE

(* The policy webhook: the selector must be one Kubernetes accepts.        *)
validatePolicy(s) == s.selector # "invalid"

(* The inventory webhook asks the same of a policy in the inventory.       *)
validateInventory(p) == p # Nil => p.selector # "invalid"

-----------------------------------------------------------------------------
(* The operator starts on a cluster in any state the webhooks let it get   *)
(* into, with a new object.                                                *)
Init ==
  /\ namespace \in Namespaces
  /\ api \in Config
  /\ api.policy # Nil => validatePolicy(api.policy)
  /\ api.inventory # Nil => validateInventory(api.inventory.policy)
  /\ cache = api
  /\ watch = [x \in DOMAIN api |-> <<>>]
  /\ webhooks = "kept"
  /\ reason = "none"
  /\ events = 0
  /\ queued = TRUE
  /\ worker = IdleWorker
  /\ dropped = FALSE
  /\ ops = 0
  /\ faults = 0

Operation == /\ ops < MaxOps
             /\ ops' = ops + 1
             /\ UNCHANGED faults

Fault == /\ faults < MaxFaults
         /\ faults' = faults + 1
         /\ UNCHANGED ops

-----------------------------------------------------------------------------
(* Administrators.                                                         *)

Write(x, v) ==
  /\ Operation
  /\ v # api[x]
  /\ api' = [api EXCEPT ![x] = v]
  /\ watch' = [watch EXCEPT ![x] = Append(@, v)]
  /\ UNCHANGED <<namespace, cache, webhooks, reason, events, queued, worker,
                 dropped>>

(* fixConversionWebhooks deletes the webhooks' configurations, after which *)
(* the API server asks nobody ...                                          *)
DeleteWebhooks ==
  /\ Operation
  /\ webhooks # "away"
  /\ webhooks' = "away"
  /\ UNCHANGED <<namespace, api, watch, cache, reason, events, queued, worker,
                 dropped>>

(* ... until OLM has created them again.                                   *)
RestoreWebhooks ==
  /\ webhooks = "away"
  /\ webhooks' = "back"
  /\ UNCHANGED <<namespace, api, watch, cache, reason, events, queued, worker,
                 dropped, bounds>>

(* A policy becomes the active one, is edited, or ceases to be active.     *)
SetPolicy(s) ==
  /\ webhooks = "away" \/ validatePolicy(s)
  /\ Write("policy", s)

DropPolicy == Write("policy", Nil)

(* An inventory is created or edited ...                                   *)
SetInventory(p) ==
  /\ webhooks = "away" \/ validateInventory(p)
  /\ Write("inventory",
           IF api.inventory = Nil THEN [ready |-> FALSE, policy |-> p]
                                  ELSE [api.inventory EXCEPT !.policy = p])

(* ... becomes ready or not (its own controller) ...                       *)
InventoryReady ==
  /\ api.inventory # Nil
  /\ Write("inventory", [api.inventory EXCEPT !.ready = ~@])

(* ... or is deleted.                                                      *)
DropInventory == Write("inventory", Nil)

(* A namespace gets or loses the label.                                    *)
Label(ns) ==
  Write("labelled", IF ns \in api.labelled THEN api.labelled \ {ns}
                                           ELSE api.labelled \cup {ns})

(* A user edits the object.                                                *)
EditObject ==
  /\ Operation
  /\ events' = events + 1
  /\ worker' = [worker EXCEPT !.fresh = FALSE]
  /\ UNCHANGED <<namespace, configVars, cache, reason, queued, dropped>>

-----------------------------------------------------------------------------
(* The informers.                                                          *)

Deliver(x) ==
  /\ watch[x] # <<>>
  /\ cache' = [cache EXCEPT ![x] = Head(watch[x])]
  /\ watch' = [watch EXCEPT ![x] = Tail(@)]
  /\ UNCHANGED <<namespace, api, webhooks, reason, events, queued, worker,
                 dropped, bounds>>

DeliverObject ==
  /\ events > 0
  /\ events' = events - 1
  /\ queued' = TRUE
  /\ UNCHANGED <<namespace, configVars, cache, reason, worker, dropped, bounds>>

Resync ==
  /\ queued' = TRUE
  /\ UNCHANGED <<namespace, configVars, cache, reason, events, worker, dropped,
                 bounds>>

-----------------------------------------------------------------------------
(* The check.                                                              *)

(* The policy in force: the inventory's own, all of it, or the active one. *)
Limits(inventory, policy) ==
  IF inventory.policy # Nil THEN inventory.policy ELSE policy

(* Mutant: the active policy applies even if the inventory has its own.    *)
isValidConnectionNSActive(ns, inventory, policy, labelled) ==
  \/ ns = Home
  \/ /\ policy # Nil
     /\ \/ policy.namespaces \cap {"*", ns} # {}
        \/ policy.selector = "label" /\ ns \in labelled

(* The inventory's namespace always; others by name, by "*" or by label.   *)
isValidConnectionNS(ns, inventory, policy, labelled) ==
  LET limits == Limits(inventory, policy) IN
  \/ ns = Home
  \/ /\ limits # Nil
     /\ \/ limits.namespaces \cap {"*", ns} # {}
        \/ limits.selector = "label" /\ ns \in labelled

(* No provisioning without an active policy, even where the inventory has  *)
(* a policy of its own.                                                    *)
canProvision(inventory, policy) ==
  policy # Nil /\ Limits(inventory, policy).disableProvisions # "true"

(* Return, with an error or Requeue if again holds.                        *)
Return(again) == /\ worker' = IdleWorker
                 /\ queued' = (queued \/ again)

GetObject ==
  /\ worker.step = "idle" /\ queued
  /\ queued' = FALSE
  /\ dropped' = FALSE
  /\ worker' = [IdleWorker EXCEPT !.step = "inventory", !.fresh = events = 0]
  /\ UNCHANGED <<namespace, configVars, cache, reason, events, bounds>>

GetInventory ==
  /\ worker.step = "inventory"
  /\ worker' = IF cache.inventory = Nil
               THEN [worker EXCEPT !.step = "status", !.reason = "not found"]
               ELSE [worker EXCEPT !.step = "policy",
                                   !.inventory = cache.inventory]
  /\ UNCHANGED <<namespace, configVars, cache, reason, events, queued, dropped,
                 bounds>>

policyListByNS ==
  /\ worker.step = "policy"
  /\ worker' = [worker EXCEPT !.step = "namespace", !.policy = cache.policy]
  /\ UNCHANGED <<namespace, configVars, cache, reason, events, queued, dropped,
                 bounds>>

(* Mutant: a forgotten reason.                                             *)
AnswerUnset(labelled) == IF worker.inventory.ready THEN "passed" ELSE ""

(* The verdict on an object of the worker's, with the namespaces labelled. *)
Answer(labelled) ==
  CASE ~isValidConnectionNS(namespace, worker.inventory, worker.policy,
                            labelled) -> "refused"
    [] OTHER ->
         IF ~worker.inventory.ready THEN "not ready"
         ELSE IF ~canProvision(worker.inventory, worker.policy)
                   /\ Kind = "instance" THEN "not provisionable"
         ELSE "passed"

(* The list of the labelled namespaces is only made when nothing else      *)
(* admits the object, and fails on an invalid selector.                    *)
ListFails ==
  LET limits == Limits(worker.inventory, worker.policy) IN
  /\ ~isValidConnectionNS(namespace, worker.inventory, worker.policy, {})
  /\ limits # Nil /\ limits.selector = "invalid"

(* List the labelled namespaces and decide.                                *)
CheckNamespace ==
  /\ worker.step = "namespace"
  /\ IF ListFails
     THEN Return(TRUE)
     ELSE /\ worker' = [worker EXCEPT !.step = "status",
                                      !.reason = Answer(cache.labelled)]
          /\ UNCHANGED queued
  /\ UNCHANGED <<namespace, configVars, cache, reason, events, dropped, bounds>>

(* One of the reads fails: an error, and no word in the status.            *)
CallFails ==
  /\ Fault
  /\ worker.step \in {"inventory", "policy", "namespace"}
  /\ Return(TRUE)
  /\ UNCHANGED <<namespace, configVars, cache, reason, events, dropped>>

(* Mutant: only what the provider has to do is retried.                    *)
RetriedNever(r, written) == r = "passed" /\ ~written

(* What is to be waited for comes with an error, whatever became of the    *)
(* status; a refusal is final; an object that passed is retried when its   *)
(* status was not written.                                                 *)
Retried(r, written) == r \in Waiting \/ (r = "passed" /\ ~written)

(* The status write: done, or refused because the object changed.          *)
UpdateStatus ==
  /\ worker.step = "status"
  /\ reason' = IF worker.fresh THEN worker.reason ELSE reason
  /\ events' = IF reason' # reason THEN events + 1 ELSE events
  /\ Return(Retried(worker.reason, worker.fresh))
  /\ UNCHANGED <<namespace, configVars, cache, dropped, bounds>>

(* Any other failure of the write is treated as a conflict is.             *)
UpdateStatusFails ==
  /\ Fault
  /\ worker.step = "status"
  /\ Return(Retried(worker.reason, FALSE))
  /\ dropped' = (worker.reason = "refused")
  /\ UNCHANGED <<namespace, configVars, cache, reason, events>>

Reconcile == \/ GetObject \/ GetInventory \/ policyListByNS \/ CheckNamespace
             \/ UpdateStatus

Restart ==
  /\ Operation
  /\ cache' = api
  /\ watch' = [x \in DOMAIN api |-> <<>>]
  /\ events' = 0
  /\ queued' = TRUE
  /\ worker' = IdleWorker
  /\ dropped' = FALSE
  /\ UNCHANGED <<namespace, api, webhooks, reason>>

Next ==
  \/ DeleteWebhooks \/ RestoreWebhooks
  \/ \E s \in PolicySpecs : SetPolicy(s)
  \/ \E p \in PolicySpecs \cup {Nil} : SetInventory(p)
  \/ DropPolicy \/ DropInventory \/ InventoryReady
  \/ \E ns \in Others : Label(ns)
  \/ EditObject
  \/ \E x \in DOMAIN api : Deliver(x)
  \/ DeliverObject \/ Resync
  \/ Reconcile \/ CallFails \/ UpdateStatusFails
  \/ Restart

Spec == Init /\ [][Next]_vars

(* The informers deliver, the worker runs, and the resync comes.           *)
Fairness ==
  /\ \A x \in {"inventory", "policy", "labelled"} : WF_vars(Deliver(x))
  /\ WF_vars(DeliverObject) /\ WF_vars(Resync) /\ WF_vars(Reconcile)

FairSpec == Spec /\ Fairness

-----------------------------------------------------------------------------
(* Properties.                                                             *)

TypeOK ==
  /\ namespace \in Namespaces
  /\ api \in Config /\ cache \in Config
  /\ watch \in [inventory : Seq(Inventory \cup {Nil}),
                policy : Seq(PolicySpecs \cup {Nil}),
                labelled : Seq(SUBSET Others)]
  /\ webhooks \in {"kept", "away", "back"}
  /\ reason \in Reasons \cup {"none"}
  /\ events \in Nat
  /\ queued \in BOOLEAN
  /\ worker \in Worker /\ dropped \in BOOLEAN
  /\ ops \in 0 .. MaxOps /\ faults \in 0 .. MaxFaults

(* The verdict on the cluster as it is now, written from the comments of   *)
(* the API (dbaaspolicy_types.go) and not from the check: an inventory is  *)
(* open to its own namespace and to the ones its policy names or selects,  *)
(* instances need a policy that is active and does not disable provisions. *)
(* "A policy's default values can be overridden on a per-inventory basis"  *)
(* (main.adoc) leaves open whether field by field; the code's reading, an  *)
(* inventory's policy in place of the active one as a whole, is taken.  Of *)
(* a selector that Kubernetes rejects the documentation says nothing.      *)
Verdict ==
  LET inventory == api.inventory
      policy    == IF inventory.policy = Nil THEN api.policy
                                             ELSE inventory.policy
      listed    == IF policy = Nil THEN {}
                   ELSE IF "*" \in policy.namespaces THEN Namespaces
                   ELSE policy.namespaces
      selected  == IF policy # Nil /\ policy.selector = "label"
                   THEN api.labelled ELSE {}
      open      == {Home} \cup listed \cup selected
      unusable  == policy # Nil /\ policy.selector = "invalid"
      enabled   == api.policy # Nil /\ policy.disableProvisions \in {"nil", "false"}
  IN
  IF inventory = Nil           THEN "not found"
  ELSE IF namespace \notin open THEN IF unusable THEN "unusable" ELSE "refused"
  ELSE IF ~inventory.ready     THEN "not ready"
  ELSE IF Kind = "instance" /\ ~enabled THEN "not provisionable"
  ELSE "passed"

(* Once nobody changes inventory, policy and labels any more, the object's *)
(* condition comes to say what they say, and keeps saying it: though the   *)
(* check mixes three caches of different ages, a verdict may be based on a *)
(* mix that never was, and nothing but retries and the resync revises it.  *)
(* (On an unusable selector the check fails without a word.)               *)
VerdictSettles ==
  \A v \in Reasons : <>[](Verdict = v) => <>[](reason = v)

(* An object that is told to wait for its inventory is never left alone:   *)
(* whenever the controller rests, the object is in the queue again or has  *)
(* an event coming.  (The exception is a refusal whose status write fails, *)
(* which leaves the previous condition behind: see dropped.)               *)
WaitingIsRetried ==
  reason \in Waiting /\ worker.step = "idle" /\ ~dropped =>
    queued \/ events > 0

(* As long as the webhooks have never been away, a selector that reaches   *)
(* the list of namespaces is one Kubernetes accepts: the two webhooks are  *)
(* all that keeps the check from failing, again and again, on a policy of  *)
(* either origin.                                                          *)
SelectorUsable ==
  webhooks = "kept" /\ worker.step = "namespace" =>
    LET limits == Limits(worker.inventory, worker.policy) IN
    limits = Nil \/ limits.selector # "invalid"
=============================================================================
