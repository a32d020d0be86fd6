--------------------------- MODULE DBaaSPlatform ---------------------------
(***************************************************************************)
(* The DBaaSPlatform controller: it installs the operator's dependencies,  *)
(* one platform after the other, and reports the result in the status of   *)
(* the one DBaaSPlatform resource.                                         *)
(*                                                                         *)
(* A pass of Reconcile visits the platforms in the random order of a Go    *)
(* map and stops at the first that is not complete.  Each platform's own   *)
(* reconciler works through a fixed list of objects: some it creates or    *)
(* updates, some it waits for, some it takes over and looks at again in    *)
(* the next pass.  The pass is read and written in steps: the cluster may  *)
(* change between any two, and the status write is an optimistic one.      *)
(*                                                                         *)
(* Abstractions: an object is there in its desired form or not, and a look *)
(* at it sees it as it is; the events that keep the pass from its work     *)
(* (refused writes, edits of the resource, restarts) and those that undo   *)
(* it (losses, removals) are counted and bounded; LastMessage is left out, *)
(* it is "" in every status written.                                       *)
(***************************************************************************)
EXTENDS Naturals, Sequences

CONSTANTS
  Platforms,   \* the keys of reconcilers.InstallationPlatforms
  Kind,        \* Kind[pf]: the reconciler getReconcilerForPlatform picks
  Stuck,       \* platforms whose external parts never come up
  Present,     \* platforms whose operator others have installed before
  NoPlatform,  \* no platform is being reconciled
  MaxMishaps   \* bound: faults and losses, together

Kinds == {"operator", "plugin", "quickstart", "observability"}

ASSUME PlatformAssumption ==
  /\ Kind \in [Platforms -> Kinds]
  /\ Stuck \subseteq Platforms
  /\ Present \subseteq Platforms
  /\ NoPlatform \notin Platforms
  /\ MaxMishaps \in Nat

VARIABLES
  made,       \* objects in the cluster, in their desired form
  spoilt,     \* objects that are there, but not as desired, and are left so
  rollout,    \* rollout[pf]: the plugin deployment's replicas
  cr,         \* the DBaaSPlatform resource in the API server
  crCache,    \* the operator's cached copy
  crWatch,    \* the events between the two
  installComplete,  \* the reconciler's field of that name
  worker,     \* the pass in progress
  faults,     \* refused writes, edits of the resource, restarts so far
  losses      \* objects lost, the resource removed, new dependencies so far

clusterVars == <<made, spoilt, rollout>>
crVars      == <<cr, crCache, crWatch>>
bounds      == <<faults, losses>>
vars == <<clusterVars, crVars, installComplete, worker, bounds>>

-----------------------------------------------------------------------------
(* What the four kinds of reconciler do, in order.                         *)

OperatorSteps ==
  <<"catalogsource", "subscription", "operatorgroup", "operator", "csv",
    "csv-owner">>
PluginSteps ==
  <<"service", "deployment", "rollout", "consoleplugin", "console-config",
    "console">>
QuickstartSteps == <<"quickstarts">>
ObservabilitySteps ==
  <<"observability-operator", "monitoringstack", "servicemonitor">>

(* getReconcilerForPlatform.                                               *)
Steps(pf) == CASE Kind[pf] = "operator"      -> OperatorSteps
               [] Kind[pf] = "plugin"        -> PluginSteps
               [] Kind[pf] = "quickstart"    -> QuickstartSteps
               [] Kind[pf] = "observability" -> ObservabilitySteps

(* CreateOrUpdate with a function that sets all that is wanted, so that    *)
(* the object is as wanted afterwards; but see CreatedOnly.                *)
Ensured == {"catalogsource", "subscription", "operatorgroup", "service",
            "deployment", "consoleplugin", "quickstarts", "monitoringstack",
            "servicemonitor"}

(* The function sets no more than the owner: what was edited stays so.     *)
CreatedOnly == {"servicemonitor"}

(* Provided by others (OLM, the kubelet, the console operator).            *)
Awaited == {"operator", "csv", "rollout", "console"}

(* Set on somebody else's object when missing, and looked at again later.  *)
Claimed == {"csv-owner", "console-config"}

(* The operator group is one object for all operator platforms.            *)
Object(pf, s) == IF s = "operatorgroup" THEN <<"global", s>> ELSE <<pf, s>>

(* For the owner of the CSV this is CheckOwnerReferenceSet.                *)
Has(pf, s) == Object(pf, s) \in made

(* The plugin's deployment counts as rolled out when its ready replicas    *)
(* equal its replicas, which holds of a new deployment with 0 of each.     *)
Satisfied(pf, s) ==
  IF s = "rollout"
  THEN Has(pf, "deployment") /\ rollout[pf] \in {"none", "ready"}
  ELSE Has(pf, s)

(* A platform is complete when each of its steps finds what it wants;      *)
(* without the observability operator there is nothing to install for it.  *)
Complete(pf) ==
  \/ Kind[pf] = "observability" /\ ~Has(pf, "observability-operator")
  \/ \A i \in DOMAIN Steps(pf) :
       Steps(pf)[i] = "rollout" \/ Has(pf, Steps(pf)[i])

Installed(pf) == Complete(pf) /\ (Kind[pf] = "plugin" => rollout[pf] = "ready")

-----------------------------------------------------------------------------
(* A resource: its life-cycle phase ("deleting" while a deletion timestamp *)
(* is set), its PlatformReady condition and its PlatformsStatus.           *)

Result == {"none", "in progress", "success"}
Status == [ready : {"none", "True", "False"}, platform : [Platforms -> Result]]
NewStatus == [ready |-> "none", platform |-> [pf \in Platforms |-> "none"]]
Resource == [phase : {"absent", "present", "deleting"}, status : Status]

Worker == [step : {"idle", "pick", "stage", "update"},
           todo : SUBSET Platforms, cur : Platforms \cup {NoPlatform},
           stage : 0 .. 6, read : Resource, next : Status, fresh : BOOLEAN]
IdleWorker == [step |-> "idle", todo |-> {}, cur |-> NoPlatform, stage |-> 0,
               read |-> [phase |-> "absent", status |-> NewStatus],
               next |-> NewStatus, fresh |-> FALSE]

(* SetupWithManager has made sure that the resource exists.  Only the      *)
(* observability operator is somebody else's to install.                   *)
Init ==
  /\ made = {<<pf, "observability-operator">> :
               pf \in {q \in Present : Kind[q] = "observability"}}
  /\ spoilt = {}
  /\ rollout = [pf \in Platforms |-> "none"]
  /\ cr = [phase |-> "present", status |-> NewStatus]
  /\ crCache = cr
  /\ crWatch = <<>>
  /\ installComplete = FALSE
  /\ worker = IdleWorker
  /\ faults = 0
  /\ losses = 0

Fault == /\ faults + losses < MaxMishaps
         /\ faults' = faults + 1
         /\ UNCHANGED losses

Loss == /\ faults + losses < MaxMishaps
        /\ losses' = losses + 1
        /\ UNCHANGED faults

WriteCR(v) == /\ cr' = v
              /\ crWatch' = Append(crWatch, v)
              /\ UNCHANGED crCache

-----------------------------------------------------------------------------
(* Reconcile.  Every pass asks to be called again, after 10 or 5 seconds,  *)
(* so that a new one may begin whenever none is running.                   *)

(* Get the resource; a deleted one needs nothing.  For one that is being   *)
(* deleted the map of platforms stays nil.                                 *)
BeginPass ==
  /\ worker.step = "idle"
  /\ crCache.phase # "absent"
  /\ worker' = [IdleWorker EXCEPT
                  !.step = "pick",
                  !.todo = IF crCache.phase = "present" THEN Platforms ELSE {},
                  !.read = crCache, !.next = crCache.status,
                  !.fresh = crWatch = <<>>]
  /\ UNCHANGED <<clusterVars, crVars, installComplete, bounds>>

(* Mutant: the platform that was in progress is taken up first.            *)
PickPlatformResumed(pf) ==
  LET begun == {q \in worker.todo : worker.next.platform[q] = "in progress"} IN
  /\ worker.step = "pick"
  /\ pf \in worker.todo
  /\ begun # {} => pf \in begun
  /\ worker' = [worker EXCEPT !.step = "stage", !.cur = pf, !.stage = 1,
                              !.todo = @ \ {pf}]
  /\ UNCHANGED <<clusterVars, crVars, installComplete, bounds>>

(* The next key of the map.                                                *)
PickPlatform(pf) ==
  /\ worker.step = "pick"
  /\ pf \in worker.todo
  /\ worker' = [worker EXCEPT !.step = "stage", !.cur = pf, !.stage = 1,
                              !.todo = @ \ {pf}]
  /\ UNCHANGED <<clusterVars, crVars, installComplete, bounds>>

(* Mutant: the status recorded is the zero value of its Go type.           *)
setStatusPlatformUnset(status, pf, r) == [status EXCEPT !.platform[pf] = ""]

(* The platform's entry of PlatformsStatus is set, or added.               *)
setStatusPlatform(status, pf, r) == [status EXCEPT !.platform[pf] = r]

(* The platform's reconciler returns ResultSuccess: on to the next one.    *)
Succeed(w) == [w EXCEPT !.step = "pick", !.stage = 0, !.cur = NoPlatform,
                        !.next = setStatusPlatform(@, w.cur, "success")]

(* Mutant: a platform in progress leaves the condition alone.              *)
InProgressSilent(w) ==
  [w EXCEPT !.step = "update",
            !.next = setStatusPlatform(@, w.cur, "in progress")]

(* It returns ResultInProgress: the pass ends with the condition False.    *)
InProgress(w) ==
  [w EXCEPT !.step = "update",
            !.next = [setStatusPlatform(@, w.cur, "in progress") EXCEPT
                        !.ready = "False"]]

(* One step of the reconciler went through.                                *)
Advance(w) == IF w.stage = Len(Steps(w.cur)) THEN Succeed(w)
                                             ELSE [w EXCEPT !.stage = @ + 1]

Current == Steps(worker.cur)[worker.stage]

(* CreateOrUpdate.                                                         *)
EnsureObject ==
  /\ worker.step = "stage" /\ Current \in Ensured
  /\ made' = made \cup ({Object(worker.cur, Current)} \ spoilt)
  /\ worker' = Advance(worker)
  /\ UNCHANGED <<spoilt, rollout, crVars, installComplete, bounds>>

(* Look at what others provide.                                            *)
AwaitObject ==
  /\ worker.step = "stage" /\ Current \in Awaited
  /\ worker' = IF Satisfied(worker.cur, Current) THEN Advance(worker)
                                                 ELSE InProgress(worker)
  /\ UNCHANGED <<clusterVars, crVars, installComplete, bounds>>

(* Mutant: a refused update of somebody else's object counts as done.      *)
ClaimObjectOnce ==
  /\ worker.step = "stage" /\ Current \in Claimed
  /\ \E done \in {{}, {Object(worker.cur, Current)}} : made' = made \cup done
  /\ worker' = Advance(worker)
  /\ UNCHANGED <<spoilt, rollout, crVars, installComplete, bounds>>

(* Set the owner of the CSV, or enable the plugin in the console's config. *)
ClaimObject ==
  /\ worker.step = "stage" /\ Current \in Claimed
  /\ made' = made \cup {Object(worker.cur, Current)}
  /\ worker' = IF Has(worker.cur, Current) THEN Advance(worker)
                                           ELSE InProgress(worker)
  /\ UNCHANGED <<spoilt, rollout, crVars, installComplete, bounds>>

(* Without the observability operator's subscription there is nothing to   *)
(* do for that platform.                                                   *)
CheckObservability ==
  /\ worker.step = "stage" /\ Current = "observability-operator"
  /\ worker' = IF Has(worker.cur, Current) THEN Advance(worker)
                                           ELSE Succeed(worker)
  /\ UNCHANGED <<clusterVars, crVars, installComplete, bounds>>

(* The API server refuses a call.  A failure returns before the status is  *)
(* written; but a write's conflict counts as progress with all reconcilers *)
(* except the one for operators.                                           *)
CallFails ==
  /\ Fault
  /\ worker.step = "stage"
  /\ \/ worker' = IdleWorker
     \/ /\ Kind[worker.cur] # "operator" /\ Current \in Ensured \cup Claimed
        /\ worker' = InProgress(worker)
  /\ UNCHANGED <<clusterVars, crVars, installComplete>>

(* Every platform was complete: the first time, the condition becomes True *)
(* (and never again while this process runs).                              *)
FinishPass ==
  LET first == worker.read.phase = "present" /\ ~installComplete IN
  /\ worker.step = "pick" /\ worker.todo = {}
  /\ installComplete' = (installComplete \/ first)
  /\ worker' = [worker EXCEPT !.step = "update",
                              !.next.ready = IF first THEN "True" ELSE @]
  /\ UNCHANGED <<clusterVars, crVars, bounds>>

(* Write the status if it changed; a conflict or a deleted resource makes  *)
(* the pass fail.                                                          *)
updateStatus ==
  /\ worker.step = "update"
  /\ worker' = IdleWorker
  /\ \/ /\ worker.next # worker.read.status
        /\ worker.fresh
        /\ WriteCR([worker.read EXCEPT !.status = worker.next])
     \/ /\ worker.next = worker.read.status \/ ~worker.fresh
        /\ UNCHANGED crVars
  /\ UNCHANGED <<clusterVars, installComplete, bounds>>

Reconcile ==
  \/ BeginPass
  \/ EnsureObject \/ AwaitObject \/ ClaimObject \/ CheckObservability
  \/ FinishPass \/ updateStatus

DeliverCR ==
  /\ crWatch # <<>>
  /\ crCache' = Head(crWatch)
  /\ crWatch' = Tail(crWatch)
  /\ UNCHANGED <<clusterVars, cr, installComplete, worker, bounds>>

-----------------------------------------------------------------------------
(* The cluster around the operator.                                        *)

(* OLM installs the subscribed operator: its CSV, then its deployment.     *)
InstallCSV(pf) ==
  /\ Kind[pf] = "operator" /\ pf \notin Stuck
  /\ \A s \in {"catalogsource", "subscription", "operatorgroup"} : Has(pf, s)
  /\ ~Has(pf, "csv")
  /\ made' = made \cup {<<pf, "csv">>}
  /\ UNCHANGED <<spoilt, rollout, crVars, installComplete, worker, bounds>>

OperatorUp(pf) ==
  /\ Kind[pf] = "operator"
  /\ Has(pf, "csv") /\ ~Has(pf, "operator")
  /\ made' = made \cup {<<pf, "operator">>}
  /\ UNCHANGED <<spoilt, rollout, crVars, installComplete, worker, bounds>>

(* The plugin's deployment gets its replicas, and they become ready.       *)
Rollout(pf) ==
  /\ Kind[pf] = "plugin" /\ pf \notin Stuck
  /\ Has(pf, "deployment") /\ rollout[pf] # "ready"
  /\ rollout' = [rollout EXCEPT ![pf] =
                   IF @ = "none" THEN "rolling" ELSE "ready"]
  /\ UNCHANGED <<made, spoilt, crVars, installComplete, worker, bounds>>

ConsoleUp(pf) ==
  /\ Kind[pf] = "plugin" /\ ~Has(pf, "console")
  /\ made' = made \cup {<<pf, "console">>}
  /\ UNCHANGED <<spoilt, rollout, crVars, installComplete, worker, bounds>>

(* Somebody installs the observability operator.                           *)
InstallObservability(pf) ==
  /\ Kind[pf] = "observability"
  /\ ~Has(pf, "observability-operator")
  /\ Loss
  /\ made' = made \cup {<<pf, "observability-operator">>}
  /\ UNCHANGED <<spoilt, rollout, crVars, installComplete, worker>>

(* An object is deleted, or edited so that the next CreateOrUpdate undoes  *)
(* it, or its pods fail.  The CSV takes its owner reference along.         *)
Lose(o) ==
  /\ Loss
  /\ o \in made \cup spoilt
  /\ made' = made \ (IF o[2] = "csv" THEN {o, <<o[1], "csv-owner">>} ELSE {o})
  /\ spoilt' = spoilt \ {o}
  /\ rollout' = IF o[2] = "deployment"
                THEN [rollout EXCEPT ![o[1]] = "none"] ELSE rollout
  /\ UNCHANGED <<crVars, installComplete, worker>>

(* An object is edited for good.                                           *)
Spoil(o) ==
  /\ Loss
  /\ o \in made /\ o[2] \in CreatedOnly
  /\ made' = made \ {o}
  /\ spoilt' = spoilt \cup {o}
  /\ UNCHANGED <<rollout, crVars, installComplete, worker>>

Outdated(w) == [w EXCEPT !.fresh = FALSE]

(* A user edits the resource's spec or starts its deletion.                *)
EditCR ==
  /\ Fault
  /\ cr.phase = "present"
  /\ \/ WriteCR(cr)
     \/ WriteCR([cr EXCEPT !.phase = "deleting"])
  /\ worker' = Outdated(worker)
  /\ UNCHANGED <<clusterVars, installComplete>>

(* What the platforms' reconcilers create with the resource as controller. *)
Owned == {"subscription", "csv", "csv-owner", "operator", "service",
          "deployment", "monitoringstack", "servicemonitor"}

(* The resource goes, and with it what it owns.                            *)
RemoveCR ==
  /\ Loss
  /\ cr.phase # "absent"
  /\ WriteCR([phase |-> "absent", status |-> NewStatus])
  /\ made' = {o \in made : o[2] \notin Owned}
  /\ spoilt' = {o \in spoilt : o[2] \notin Owned}
  /\ rollout' = [pf \in Platforms |-> "none"]
  /\ worker' = Outdated(worker)
  /\ UNCHANGED installComplete

(* A new process: SetupWithManager creates the resource if there is none.  *)
Restart ==
  /\ Fault
  /\ cr' = IF cr.phase = "absent" THEN [cr EXCEPT !.phase = "present"] ELSE cr
  /\ crCache' = cr'
  /\ crWatch' = <<>>
  /\ installComplete' = FALSE
  /\ worker' = IdleWorker
  /\ UNCHANGED clusterVars

Next ==
  \/ Reconcile
  \/ \E pf \in Platforms : PickPlatform(pf)
  \/ CallFails
  \/ DeliverCR
  \/ \E pf \in Platforms : \/ InstallCSV(pf) \/ OperatorUp(pf) \/ Rollout(pf)
                           \/ ConsoleUp(pf) \/ InstallObservability(pf)
  \/ \E o \in made \cup spoilt : Lose(o) \/ Spoil(o)
  \/ EditCR \/ RemoveCR \/ Restart

Spec == Init /\ [][Next]_vars

(* The controller and the informer run; what OLM and the cluster provide   *)
(* for the platforms that are not stuck comes up; and the random order of  *)
(* the map gives every platform its turn.                                  *)
Fairness ==
  /\ WF_vars(Reconcile)
  /\ WF_vars(DeliverCR)
  /\ \A pf \in Platforms :
       /\ SF_vars(PickPlatform(pf))
       /\ WF_vars(InstallCSV(pf)) /\ WF_vars(OperatorUp(pf))
       /\ WF_vars(Rollout(pf)) /\ WF_vars(ConsoleUp(pf))

FairSpec == Spec /\ Fairness

-----------------------------------------------------------------------------
(* Properties.                                                             *)

TypeOK ==
  /\ made \subseteq (Platforms \cup {"global"}) \X
       (Ensured \cup Awaited \cup Claimed \cup {"observability-operator"})
  /\ spoilt \subseteq (Platforms \cup {"global"}) \X CreatedOnly
  /\ rollout \in [Platforms -> {"none", "rolling", "ready"}]
  /\ cr \in Resource /\ crCache \in Resource /\ crWatch \in Seq(Resource)
  /\ installComplete \in BOOLEAN
  /\ worker \in Worker
  /\ faults \in 0 .. MaxMishaps
  /\ losses \in 0 .. MaxMishaps

(* A status whose PlatformReady condition is True reports every platform   *)
(* as successful: the two parts of the status are written by different     *)
(* branches of Reconcile, over several passes, from cached copies.         *)
ReadyMeansSuccess ==
  cr.status.ready = "True" =>
    \A pf \in Platforms : cr.status.platform[pf] = "success"

(* As long as nothing was lost, a status with PlatformReady = True means   *)
(* that every step of every platform found what it wanted: conflicts that  *)
(* count as progress, errors and restarts in the middle of a pass never    *)
(* make it skip one, nor one of the observability platform if its operator *)
(* was there from the start.  (What the rollout step wants: see Satisfied; *)
(* an operator that comes later counts as a loss, as it undoes the         *)
(* completeness.)                                                          *)
ReadyMeansComplete ==
  cr.status.ready = "True" /\ losses = 0 => \A pf \in Platforms : Complete(pf)

(* One platform that never comes up delays the others but does not block   *)
(* them: all platforms but the stuck ones are installed in the end, though *)
(* every pass stops at the first platform that is not complete.  (But for  *)
(* what was edited for good.)                                              *)
OthersInstalled ==
  cr.phase = "present" ~>
    \/ cr.phase # "present"
    \/ \A pf \in Platforms \ Stuck : Installed(pf) \/ \E o \in spoilt : o[1] = pf

(* A platform stack that is and stays installed is reported as such:       *)
(* "DBaaS platform stack install in progress" does not stay in the status. *)
ReadyReported ==
  <>[](\A pf \in Platforms : Installed(pf)) => <>[](cr.status.ready = "True")
=============================================================================
