--------------------------- MODULE PlatformUpkeep ---------------------------
(***************************************************************************)
(* What the DBaaSPlatform controller keeps in order around the operator,   *)
(* besides the installations of module DBaaSPlatform:                      *)
(*  - at start-up, the user objects of the RDS controller, which must be   *)
(*    there before that operator can be installed;                         *)
(*  - at the head of every pass, the conversion webhooks, which OLM only   *)
(*    puts back together with a missing webhook configuration, and the     *)
(*    deployment that is in the way of an upgrade of the RDS controller;   *)
(*  - in every pass, the MonitoringStack of the observability operator,    *)
(*    rebuilt from the environment, the cluster version and a secret.      *)
(*                                                                         *)
(* A pass is a sequence of calls with the cluster moving in between; CSVs  *)
(* and secrets are read from the API server, everything else from caches.  *)
(* Passes follow one another, each asks for the next.  OLM is external.    *)
(*                                                                         *)
(* Abstractions: the CRDs with conversion webhooks break and heal together *)
(* (TRUE: with a CA bundle); OLM creates all missing webhooks in one step; *)
(* times are relative: the last update of the operator's CSV is at Now, a  *)
(* later one moves everything else back by one, as far as 1; the other     *)
(* platforms are complete, or end the pass (PassFails).                    *)
(***************************************************************************)
EXTENDS Naturals, Sequences, FiniteSets

CONSTANTS
  Hooks,     \* the operator's ValidatingWebhookConfigurations
  AuthTypes, \* values of RHOBS_AUTH_TYPE to look at
  MaxOps,    \* bound: faults, restarts, and what users do to the cluster
  MaxLag     \* bound: passes begun while an event of CRDs or hooks is under way

Known == {"dex", "redhat-sso"}
Now   == 3

ASSUME UpkeepAssumption ==
  /\ AuthTypes \subseteq Known \cup {"", "unknown"}
  /\ MaxOps \in Nat /\ MaxLag \in Nat

VARIABLES
  userObject,   \* ack-rds-user-secrets and ack-rds-user-config
  rds,          \* CSV ack-rds-controller.v0.1.3 and the deployment
  csv,          \* the phase of the operator's own CSV
  crd, crdCache, crdWatch,     \* do the CRDs convert? cached; events
  hook, hookCache, hookWatch,  \* creation time of each hook, 0: none
  auth,         \* RHOBS_AUTH_TYPE, "" if the environment is incomplete, and
                \* "unknown" also for redhat-sso without URL or secret name
  telemetry,    \* the keys in the remote write secret (none: no secret)
  subscriptions,     \* of the observability operator: old ones, present one
  stack, stackCache, stackWatch,  \* the MonitoringStack
  worker,       \* the start-up or pass in progress
  lag, ops      \* see MaxLag, MaxOps

hookVars  == <<csv, crd, crdCache, crdWatch, hook, hookCache, hookWatch, lag>>
stackVars == <<stack, stackCache, stackWatch>>
obsVars   == <<auth, telemetry, subscriptions, stackVars>>
vars == <<userObject, rds, hookVars, obsVars, worker, ops>>

UserObjects == {"secret", "config"}
Keys == {"rhobs-token", "config-id", "config-secret", "rhobs-audience"}
StackSpec == {"none", "bare", "empty", "full"}

(* seen: the CSV as read; hooks: those left to delete; read, next, fresh:  *)
(* the stack as read, as wanted, and whether it is still the latest.       *)
Worker == [step : {"get", "create", "idle", "crd", "delete", "rds", "deployment",
                   "clean", "stack", "build", "write"},
           object : UserObjects, seen : 0 .. Now, hooks : SUBSET Hooks,
           read : StackSpec \cup {"absent"}, next : StackSpec, fresh : BOOLEAN]
Idle  == [step |-> "idle", object |-> "secret", seen |-> 0, hooks |-> {},
          read |-> "absent", next |-> "none", fresh |-> FALSE]
Setup == [Idle EXCEPT !.step = "get"]

(* What an earlier version subscribed to and installed, and what an        *)
(* administrator subscribes to now.                                        *)
Old     == <<"observability", "subscription">>
OldCSV  == <<"observability-operator.v0.0.13", "csv">>
Present == <<"observability-operator", "">>

(* A cluster in order, the remote write secret there or not as yet, with   *)
(* the observability operator of an earlier version in it; the process is  *)
(* about to start.                                                         *)
Init ==
  /\ userObject = [o \in UserObjects |-> "absent"]
  /\ rds = [csv |-> "none", deployment |-> "old", retried |-> FALSE]
  /\ csv = "Succeeded"
  /\ crd = TRUE /\ crdCache = crd /\ crdWatch = <<>>
  /\ hook = [h \in Hooks |-> 1] /\ hookCache = hook /\ hookWatch = <<>>
  /\ auth \in AuthTypes
  /\ telemetry \in {{}, Keys}
  /\ subscriptions = {Old, OldCSV, Present}
  /\ stack = "absent" /\ stackCache = stack /\ stackWatch = <<>>
  /\ worker = Setup
  /\ lag = 0 /\ ops = 0

Operation == /\ ops < MaxOps
             /\ ops' = ops + 1

Step(s) == worker' = [worker EXCEPT !.step = s]

-----------------------------------------------------------------------------
(* prepareRDSController, in SetupWithManager; a failure ends the process,  *)
(* which is started again.                                                 *)

GetUserObject ==
  /\ worker.step = "get"
  /\ worker' = IF userObject[worker.object] = "absent"
               THEN [worker EXCEPT !.step = "create"]
               ELSE IF worker.object = "secret"
                    THEN [worker EXCEPT !.object = "config"] ELSE Idle
  /\ UNCHANGED <<userObject, rds, hookVars, obsVars, ops>>

(* Mutant: the dummy values are applied, not created.                      *)
CreateUserObjectForced ==
  /\ worker.step = "create"
  /\ userObject' = [userObject EXCEPT ![worker.object] = "dummy"]
  /\ worker' = IF worker.object = "secret"
               THEN [worker EXCEPT !.step = "get", !.object = "config"]
               ELSE Idle
  /\ UNCHANGED <<rds, hookVars, obsVars, ops>>

(* Created with dummy values; if there is one by now, Create fails.        *)
CreateUserObject ==
  /\ worker.step = "create"
  /\ IF userObject[worker.object] = "absent"
     THEN /\ userObject' = [userObject EXCEPT ![worker.object] = "dummy"]
          /\ worker' = IF worker.object = "secret"
                       THEN [worker EXCEPT !.step = "get", !.object = "config"]
                       ELSE Idle
     ELSE worker' = Setup /\ UNCHANGED userObject
  /\ UNCHANGED <<rds, hookVars, obsVars, ops>>

-----------------------------------------------------------------------------
(* fixConversionWebhooks.  Its errors are logged, the pass goes on.        *)

(* Get the CSV.                                                            *)
BeginPass ==
  /\ worker.step = "idle"
  /\ lag' = IF crdWatch = <<>> /\ hookWatch = <<>> THEN 0 ELSE lag + 1
  /\ lag' <= MaxLag
  /\ worker' = IF csv \in {"Succeeded", "Installing"}
               THEN [Idle EXCEPT !.step = "crd", !.seen = Now]
               ELSE [Idle EXCEPT !.step = "rds"]
  /\ UNCHANGED <<userObject, rds, csv, crd, crdCache, crdWatch, hook,
                 hookCache, hookWatch, obsVars, ops>>

(* Mutant: the webhooks are renewed whatever the CRDs look like.           *)
checkConversionWebhookHealthSkipped == FALSE

(* Each CRD has a conversion webhook with a CA bundle.                     *)
checkConversionWebhookHealth == crdCache

(* Mutant: hooks younger than the CSV's last update are looked for.        *)
OutdatedSwapped(h) == hookCache[h] # 0 /\ worker.seen < hookCache[h]

(* A listed hook was created before the CSV was last updated.              *)
Outdated(h) == hookCache[h] # 0 /\ hookCache[h] < worker.seen

(* The CRDs and the list of hooks come from caches.                        *)
ListHooks ==
  /\ worker.step = "crd"
  /\ LET hooks == {h \in Hooks : ~checkConversionWebhookHealth /\ Outdated(h)}
     IN  worker' = [Idle EXCEPT !.hooks = hooks,
                                !.step = IF hooks = {} THEN "rds" ELSE "delete"]
  /\ UNCHANGED <<userObject, rds, hookVars, obsVars, ops>>

WriteHook(h, v) == /\ hook' = [hook EXCEPT ![h] = v]
                   /\ hookWatch' = Append(hookWatch, hook')

(* Delete by name; one that is gone ends the loop.                         *)
DeleteHook(h) ==
  /\ worker.step = "delete" /\ h \in worker.hooks
  /\ IF hook[h] = 0
     THEN /\ worker' = [worker EXCEPT !.step = "rds", !.hooks = {}]
          /\ UNCHANGED <<hook, hookWatch>>
     ELSE /\ worker' = [worker EXCEPT
                          !.hooks = @ \ {h},
                          !.step = IF worker.hooks = {h} THEN "rds" ELSE @]
          /\ WriteHook(h, 0)
  /\ UNCHANGED <<userObject, rds, csv, crd, crdCache, crdWatch, hookCache,
                 lag, obsVars, ops>>

-----------------------------------------------------------------------------
(* fixRDSControllerUpgrade: likewise.                                      *)

(* Mutant: the failure is not recognised.                                  *)
ImmutableSelectorMissed == FALSE

(* The CSV failed because the deployment's selector cannot be changed.     *)
ImmutableSelector == rds.csv = "conflict"

GetRDSCSV ==
  /\ worker.step = "rds"
  /\ Step(IF ImmutableSelector THEN "deployment" ELSE "clean")
  /\ UNCHANGED <<userObject, rds, hookVars, obsVars, ops>>

DeleteDeployment ==
  /\ worker.step = "deployment"
  /\ rds' = [rds EXCEPT !.deployment = "none"]
  /\ Step("clean")
  /\ UNCHANGED <<userObject, hookVars, obsVars, ops>>

(* A call of either fix fails: the rest of that fix is left out.           *)
FixFails ==
  /\ Operation
  /\ \/ /\ worker.step \in {"crd", "delete"}
        /\ worker' = [Idle EXCEPT !.step = "rds"]
     \/ /\ worker.step \in {"rds", "deployment"}
        /\ worker' = [Idle EXCEPT !.step = "clean"]
  /\ UNCHANGED <<userObject, rds, hookVars, obsVars>>

-----------------------------------------------------------------------------
(* The observability platform.                                             *)

(* NewReconciler sets no config: the field r.config is a zero value.       *)
ConfigName == ""

cleanObsOldSubscription ==
  /\ worker.step = "clean"
  /\ subscriptions' = subscriptions \ {<<ConfigName, "subscription">>, OldCSV}
  /\ Step("stack")
  /\ UNCHANGED <<userObject, rds, hookVars, auth, telemetry, stackVars, ops>>

(* Without the observability operator's subscription nothing is done.      *)
(* Else CreateOrUpdate: Get, here, then mutate, then Create or Update.     *)
GetStack ==
  /\ worker.step = "stack"
  /\ worker' = IF Present \notin subscriptions THEN Idle
               ELSE [Idle EXCEPT !.step = "build", !.read = stackCache,
                                 !.fresh = stackWatch = <<>>]
  /\ UNCHANGED <<userObject, rds, hookVars, obsVars, ops>>

(* The keys that each type of authentication needs in the secret.          *)
RequiredKeys(a) == IF a = "dex" THEN {"rhobs-token"}
                   ELSE {"config-id", "config-secret", "rhobs-audience"}

(* Mutant: a remote write is configured once, and then left alone.         *)
configureRemoteWriteOnce ==
  IF worker.read = "empty" THEN "empty"
  ELSE IF auth \in Known /\ RequiredKeys(auth) \subseteq telemetry
  THEN "full" ELSE "empty"

(* Mutant: the error ends up in the spec.                                  *)
configureRemoteWriteError ==
  IF auth \in Known /\ RequiredKeys(auth) \subseteq telemetry
  THEN "full" ELSE "error"

(* The spec of the remote write; an error leaves it empty.                 *)
configureRemoteWrite ==
  IF auth \in Known /\ RequiredKeys(auth) \subseteq telemetry
  THEN "full" ELSE "empty"

(* The whole spec is built anew.  If the cluster version cannot be read,   *)
(* there is no remote write in it; this error is dropped too.              *)
setPrometheusConfig ==
  /\ worker.step = "build"
  /\ \/ /\ worker' = [worker EXCEPT !.step = "write",
                                    !.next = IF auth = "" THEN "none"
                                             ELSE configureRemoteWrite]
        /\ UNCHANGED ops
     \/ /\ Operation
        /\ auth # ""
        /\ worker' = [worker EXCEPT !.step = "write", !.next = "bare"]
  /\ UNCHANGED <<userObject, rds, hookVars, obsVars>>

WriteStack(v) == /\ stack' = v
                 /\ stackWatch' = Append(stackWatch, v)
                 /\ UNCHANGED stackCache

(* Written if it changed; a conflict, or one that was created or deleted   *)
(* in the meantime, ends the pass.                                         *)
createUpdateObservabilityMonitoringStackCR ==
  /\ worker.step = "write"
  /\ IF worker.fresh /\ worker.next # worker.read
     THEN WriteStack(worker.next) ELSE UNCHANGED stackVars
  /\ worker' = Idle
  /\ UNCHANGED <<userObject, rds, hookVars, auth, telemetry, subscriptions,
                 ops>>

(* Another platform is not complete, or a call of this one fails.          *)
PassFails ==
  /\ Operation
  /\ worker.step \in {"clean", "stack", "write"}
  /\ worker' = Idle
  /\ UNCHANGED <<userObject, rds, hookVars, obsVars>>

-----------------------------------------------------------------------------
(* OLM, external.                                                          *)

(* A webhook is missing: the CSV has to be installed again.                *)
MissHook ==
  /\ csv # "Failed"
  /\ \E h \in Hooks : hook[h] = 0
  /\ csv' = "Failed"
  /\ UNCHANGED <<userObject, rds, crd, crdCache, crdWatch, hook, hookCache,
                 hookWatch, lag, obsVars, worker, ops>>

CreateHooks ==
  /\ csv = "Failed"
  /\ \E h \in Hooks : hook[h] = 0
  /\ hook' = [h \in Hooks |-> IF hook[h] = 0 THEN Now ELSE hook[h]]
  /\ hookWatch' = Append(hookWatch, hook')
  /\ UNCHANGED <<userObject, rds, csv, crd, crdCache, crdWatch, hookCache,
                 lag, obsVars, worker, ops>>

(* With its webhooks in place, the CRDs are written, then the CSV: in the  *)
(* second in which the webhooks were created, or later.                    *)
Earlier(t)  == IF t > 1 THEN t - 1 ELSE t
MoveBack(f) == [h \in Hooks |-> Earlier(f[h])]

InstallConversion ==
  /\ csv = "Failed"
  /\ \A h \in Hooks : hook[h] # 0
  /\ csv' = "Installing"
  /\ crd' = TRUE
  /\ crdWatch' = IF crd THEN crdWatch ELSE Append(crdWatch, TRUE)
  /\ \/ UNCHANGED <<hook, hookCache, hookWatch, worker>>
     \/ /\ hook' = MoveBack(hook)
        /\ hookCache' = MoveBack(hookCache)
        /\ hookWatch' = [i \in DOMAIN hookWatch |-> MoveBack(hookWatch[i])]
        /\ worker' = [worker EXCEPT !.seen = Earlier(@)]
  /\ UNCHANGED <<userObject, rds, crdCache, lag, obsVars, ops>>

FinishInstall ==
  /\ csv = "Installing"
  /\ csv' = "Succeeded"
  /\ UNCHANGED <<userObject, rds, crd, crdCache, crdWatch, hook, hookCache,
                 hookWatch, lag, obsVars, worker, ops>>

(* The RDS controller: its deployment is created when there is none; the   *)
(* outcome is reported later.                                              *)
DeployRDS ==
  /\ rds.csv \in {"conflict", "installing"} /\ rds.deployment = "none"
  /\ rds' = [rds EXCEPT !.deployment = "new", !.retried = TRUE]
  /\ UNCHANGED <<userObject, hookVars, obsVars, worker, ops>>

ReportRDS ==
  /\ \/ /\ rds.csv = "conflict" /\ rds.retried
        /\ rds' = [rds EXCEPT !.csv = "installing", !.retried = FALSE]
     \/ /\ rds.csv = "installing" /\ rds.deployment = "new"
        /\ rds' = [rds EXCEPT !.csv = "succeeded", !.retried = FALSE]
     \/ /\ rds.csv = "succeeded" /\ rds.deployment = "none"
        /\ rds' = [rds EXCEPT !.csv = "installing"]
  /\ UNCHANGED <<userObject, hookVars, obsVars, worker, ops>>

OLM == MissHook \/ CreateHooks \/ InstallConversion \/ FinishInstall

(* The informers.                                                          *)
DeliverCRD ==
  /\ crdWatch # <<>>
  /\ crdCache' = Head(crdWatch) /\ crdWatch' = Tail(crdWatch)
  /\ UNCHANGED <<userObject, rds, csv, crd, hook, hookCache, hookWatch, lag,
                 obsVars, worker, ops>>

DeliverHook ==
  /\ hookWatch # <<>>
  /\ hookCache' = Head(hookWatch) /\ hookWatch' = Tail(hookWatch)
  /\ UNCHANGED <<userObject, rds, csv, crd, crdCache, crdWatch, hook, lag,
                 obsVars, worker, ops>>

DeliverStack ==
  /\ stackWatch # <<>>
  /\ stackCache' = Head(stackWatch) /\ stackWatch' = Tail(stackWatch)
  /\ UNCHANGED <<userObject, rds, hookVars, auth, telemetry, subscriptions,
                 stack, worker, ops>>

-----------------------------------------------------------------------------
(* Users, administrators and failures.                                     *)

(* The user enters credentials for the RDS controller.                     *)
EditUserObject(o) ==
  /\ Operation
  /\ userObject' = [userObject EXCEPT ![o] = "user"]
  /\ UNCHANGED <<rds, hookVars, obsVars, worker>>

UpgradeRDS ==
  /\ Operation
  /\ rds.csv = "none"
  /\ rds' = [rds EXCEPT !.csv = "conflict"]
  /\ UNCHANGED <<userObject, hookVars, obsVars, worker>>

(* The CRDs are applied again, without the CA bundle.                      *)
BreakCRD ==
  /\ Operation
  /\ crd
  /\ crd' = FALSE /\ crdWatch' = Append(crdWatch, FALSE)
  /\ UNCHANGED <<userObject, rds, csv, crdCache, hook, hookCache, hookWatch,
                 lag, obsVars, worker>>

LoseHook(h) ==
  /\ Operation
  /\ hook[h] # 0
  /\ WriteHook(h, 0)
  /\ UNCHANGED <<userObject, rds, csv, crd, crdCache, crdWatch, hookCache,
                 lag, obsVars, worker>>

EditTelemetry(keys) ==
  /\ Operation
  /\ telemetry' = keys
  /\ UNCHANGED <<userObject, rds, hookVars, auth, subscriptions, stackVars,
                 worker>>

Subscribe ==
  /\ Operation
  /\ subscriptions' = IF Present \in subscriptions
                      THEN subscriptions \ {Present}
                      ELSE subscriptions \cup {Present}
  /\ UNCHANGED <<userObject, rds, hookVars, auth, telemetry, stackVars,
                 worker>>

EditStack(v) ==
  /\ Operation
  /\ v # stack
  /\ WriteStack(v)
  /\ worker' = [worker EXCEPT !.fresh = FALSE]
  /\ UNCHANGED <<userObject, rds, hookVars, auth, telemetry, subscriptions>>

(* A new process, with caches as the API server is.                        *)
Restart ==
  /\ Operation
  /\ crdCache' = crd /\ crdWatch' = <<>>
  /\ hookCache' = hook /\ hookWatch' = <<>>
  /\ stackCache' = stack /\ stackWatch' = <<>>
  /\ worker' = Setup
  /\ lag' = 0
  /\ UNCHANGED <<userObject, rds, csv, crd, hook, auth, telemetry,
                 subscriptions, stack>>

Pass ==
  \/ GetUserObject \/ CreateUserObject
  \/ BeginPass \/ ListHooks
  \/ \E h \in Hooks : DeleteHook(h)
  \/ GetRDSCSV \/ DeleteDeployment
  \/ cleanObsOldSubscription \/ GetStack
  \/ setPrometheusConfig \/ createUpdateObservabilityMonitoringStackCR

Next ==
  \/ Pass \/ FixFails \/ PassFails \/ Restart
  \/ OLM \/ DeployRDS \/ ReportRDS
  \/ DeliverCRD \/ DeliverHook \/ DeliverStack
  \/ \E o \in UserObjects : EditUserObject(o)
  \/ UpgradeRDS \/ BreakCRD \/ Subscribe
  \/ \E h \in Hooks : LoseHook(h)
  \/ \E keys \in {{}, Keys} \cup {Keys \ {k} : k \in Keys} : EditTelemetry(keys)
  \/ \E v \in {"absent", "none"} : EditStack(v)

(* Passes follow one another; OLM works, and events arrive.                *)
Fairness == /\ WF_vars(Pass)
            /\ WF_vars(OLM) /\ WF_vars(DeployRDS) /\ WF_vars(ReportRDS)
            /\ WF_vars(DeliverCRD) /\ WF_vars(DeliverHook)
            /\ WF_vars(DeliverStack)

Spec == Init /\ [][Next]_vars /\ Fairness

-----------------------------------------------------------------------------
(* Properties.                                                             *)

TypeOK ==
  /\ userObject \in [UserObjects -> {"absent", "dummy", "user"}]
  /\ rds \in [csv : {"none", "conflict", "installing", "succeeded"},
              deployment : {"none", "old", "new"}, retried : BOOLEAN]
  /\ csv \in {"Succeeded", "Installing", "Failed"}
  /\ crd \in BOOLEAN /\ crdCache \in BOOLEAN /\ crdWatch \in Seq(BOOLEAN)
  /\ hook \in [Hooks -> 0 .. Now] /\ hookCache \in [Hooks -> 0 .. Now]
  /\ hookWatch \in Seq([Hooks -> 0 .. Now])
  /\ auth \in AuthTypes /\ telemetry \subseteq Keys
  /\ subscriptions \subseteq {Old, OldCSV, Present}
  /\ {stack, stackCache} \subseteq StackSpec \cup {"absent"}
  /\ stackWatch \in Seq(StackSpec \cup {"absent"})
  /\ worker \in Worker
  /\ lag \in 0 .. MaxLag /\ ops \in 0 .. MaxOps

(* The dummy values of prepareRDSController never replace what the user    *)
(* entered, also when that happens between its Get and its Create, and at  *)
(* a later start.                                                          *)
UserObjectsKept ==
  [][\A o \in UserObjects :
       userObject[o] = "user" => userObject'[o] = "user"]_userObject

(* The deletions of fixConversionWebhooks and OLM's re-creations come to   *)
(* an end, however late the caches are: the operator's webhooks are in     *)
(* place for good.                                                         *)
WebhooksSettle == <>[](\A h \in Hooks : hook[h] # 0)

(* Conversion webhooks that were lost are put back, unless the webhook     *)
(* configurations are as young as the last update of the CSV: these are    *)
(* never deleted.                                                          *)
ConversionRestored ==
  <>[]crd \/ <>[](\A h \in Hooks : hook[h] = Now)

(* The upgrade of the RDS controller gets done, and no later pass takes    *)
(* the new deployment away for good.                                       *)
RDSUpgraded ==
  (rds.csv # "none") ~> [](rds.csv = "succeeded" /\ rds.deployment = "new")

(* Once the secret holds what RHOBS_AUTH_TYPE needs, metrics are written   *)
(* to the remote site again, whatever an earlier pass made of a missing    *)
(* key or a failed look-up.                                                *)
RemoteWriteRestored ==
  <>[](/\ auth \in Known /\ RequiredKeys(auth) \subseteq telemetry
       /\ Present \in subscriptions)
    => <>[](stack = "full")
=============================================================================
