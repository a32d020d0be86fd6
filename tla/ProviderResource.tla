-------------------------- MODULE ProviderResource --------------------------
(***************************************************************************)
(* How a DBaaSInventory, DBaaSInstance or DBaaSConnection is carried over  *)
(* to the provider: the operator checks that it may be served, creates or  *)
(* updates the provider's object of the same name with its spec, and       *)
(* copies that object's status back.  The three controllers differ in      *)
(* their checks and share reconcileProviderResource; kind says which one   *)
(* this is.  A controller never runs two reconciles of one object at once, *)
(* so that one object and one worker are enough.                           *)
(*                                                                         *)
(* The DBaaS object is read from a cache that may lag; the provider's      *)
(* object is an unstructured one, which the client reads from the API      *)
(* server, and its events only arrive once the DBaaSProvider controller    *)
(* has started a watch on its kind.                                        *)
(*                                                                         *)
(* Abstractions: a spec is a member of Specs; a provider's status is the   *)
(* value of its SpecSynced condition and the spec it was computed for; the *)
(* outcome of the checks that read other objects (policy, inventory,       *)
(* namespaces, instance) is the variable gate, which its owners change     *)
(* without telling this controller, and what such objects add to the spec  *)
(* is extra.                                                               *)
(***************************************************************************)
EXTENDS Naturals, Sequences

CONSTANTS
  Kinds,     \* the kinds of objects, of which this is one
  Specs,     \* specs of the DBaaS object
  MaxOps,    \* bound: what users and administrators do, and restarts
  MaxFaults  \* bound: API calls that fail for no reason the model shows

ASSUME ProviderResourceAssumption ==
  /\ Kinds \subseteq {"inventory", "instance", "connection"} /\ Kinds # {}
  /\ Specs # {}
  /\ MaxOps \in Nat
  /\ MaxFaults \in Nat

VARIABLES
  kind,           \* the object's kind
  object,         \* the DBaaS object in the API server
  objectCache,    \* the operator's cached copy of it
  objectWatch,    \* the events between the two
  resource,       \* the provider's object
  resourceEvent,  \* an event of it is on its way to the controller
  watching,       \* the provider's kind is being watched
  provider,       \* the DBaaSProvider exists
  gate,           \* what the checks would say now
  extra,          \* what other objects would add to the spec now
  queued,         \* the object's key is in the work queue
  worker,         \* the reconcile in flight
  dropped,        \* the last refusal could not be reported, and nobody retries
  history,        \* auxiliary: every uid and spec the object has had
  pushed,         \* auxiliary: the last of them given to the provider
  ops, faults     \* see MaxOps, MaxFaults

objectVars   == <<object, objectCache, objectWatch>>
resourceVars == <<resource, resourceEvent>>
envVars      == <<kind, watching, provider, gate, extra>>
ghosts       == <<history, pushed>>
bounds       == <<ops, faults>>
vars == <<objectVars, resourceVars, envVars, queued, worker, dropped, ghosts,
          bounds>>

(* What the provider gets besides the object's own spec: the ID of the     *)
(* instance a connection refers to (another one if the instance is         *)
(* replaced); for an instance, v1alpha1's names of its parameters, which   *)
(* its inventory's provider has, or nothing ("lost") if the inventory      *)
(* cannot be read.  An inventory's spec is complete.                       *)
Extras == {"first", "second", "lost"}

(* The status the provider's operator writes: SpecSynced, and for which    *)
(* spec.                                                                   *)
NoStatus == [synced |-> "none"]
Status == {NoStatus} \cup
          [synced : {"True", "False"}, of : Specs, extra : Extras]

(* The reason of the Ready condition; "absent": no object, "none": no      *)
(* condition.  Ready is True with the reason "ready" only.  version is the *)
(* object's place in history (metadata.generation, counted across its      *)
(* incarnations).                                                          *)
Reasons == {"absent", "none", "ready", "in progress", "refused", "not ready",
            "no service", "provider not found", "provider error"}
Object == [uid : Nat, version : Nat, spec : Specs, reason : Reasons,
           merged : Status]

Exists == object.reason # "absent"

(* The provider's object: the uid of its controller (0: no such object).   *)
Resource == [owner : Nat, spec : Specs, extra : Extras, status : Status]
Gone == [owner |-> 0, spec |-> CHOOSE s \in Specs : TRUE, extra |-> "first",
         status |-> NoStatus]

(* What the checks can say: go ahead; no (no active policy, or a namespace *)
(* that may not use the inventory); not now (inventory not found, not      *)
(* ready, or closed to provisioning); no database service to connect to.   *)
Gates == CASE kind = "inventory"  -> {"open", "refused"}
           [] kind = "instance"   -> {"open", "refused", "not ready"}
           [] kind = "connection" -> {"open", "refused", "not ready",
                                      "no service"}

(* The worker holds its copy of the object with the status to write, what  *)
(* is to be added to its spec, the provider's object as it read it, and    *)
(* whether both objects are still current.                                 *)
(* What follows the status write: "done", "retry", or "quiet" (done, even  *)
(* if the write fails).                                                    *)
Worker == [step : {"idle", "topology", "check", "spec", "label", "lookup",
                   "read", "write", "status"},
           object : Object, fresh : BOOLEAN, extra : Extras,
           resource : Resource, current : BOOLEAN,
           after : {"done", "retry", "quiet"}]
NoObject == [uid |-> 0, version |-> 0, spec |-> CHOOSE s \in Specs : TRUE,
             reason |-> "absent", merged |-> NoStatus]
IdleWorker == [step |-> "idle", object |-> NoObject, fresh |-> FALSE,
               extra |-> "first", resource |-> Gone, current |-> FALSE,
               after |-> "done"]

(* The operator comes up before the object is created, or finds one that   *)
(* an earlier process has settled.                                         *)
Settled == [uid |-> 1, version |-> 1, spec |-> CHOOSE s \in Specs : TRUE,
            reason |-> "ready",
            merged |-> [synced |-> "True", of |-> CHOOSE s \in Specs : TRUE,
                        extra |-> "first"]]

Init ==
  /\ kind \in Kinds
  /\ gate \in Gates
  /\ \/ object = NoObject /\ resource = Gone /\ history = <<>>
     \/ /\ object = Settled
        /\ resource = [owner |-> 1, spec |-> object.spec, extra |-> "first",
                       status |-> object.merged]
        /\ history = <<[uid |-> 1, spec |-> object.spec]>>
  /\ pushed = Len(history)
  /\ objectCache = object
  /\ objectWatch = <<>>
  /\ resourceEvent = FALSE
  /\ watching = FALSE
  /\ provider = TRUE
  /\ extra = "first"
  /\ queued = Exists
  /\ worker = IdleWorker
  /\ dropped = FALSE
  /\ ops = 0
  /\ faults = 0

-----------------------------------------------------------------------------
(* The API server.                                                         *)

WriteObject(v) ==
  /\ object' = v
  /\ objectWatch' = Append(objectWatch, v)
  /\ UNCHANGED objectCache

WriteResource(v) ==
  /\ resource' = v
  /\ resourceEvent' = (resourceEvent \/ watching)

ObjectChanged   == worker' = [worker EXCEPT !.fresh = FALSE]
ResourceChanged == worker' = [worker EXCEPT !.current = FALSE]

Operation == /\ ops < MaxOps
             /\ ops' = ops + 1
             /\ UNCHANGED faults

Fault == /\ faults < MaxFaults
         /\ faults' = faults + 1
         /\ UNCHANGED ops

(* The user's operations.  A new object has a new uid and no status.       *)
CreateObject(s) ==
  /\ Operation
  /\ ~Exists
  /\ WriteObject([uid |-> object.uid + 1, version |-> object.version + 1,
                  spec |-> s, reason |-> "none", merged |-> NoStatus])
  /\ history' = Append(history, [uid |-> object.uid + 1, spec |-> s])
  /\ ObjectChanged
  /\ UNCHANGED <<resourceVars, envVars, queued, dropped, pushed>>

DeleteObject ==
  /\ Operation
  /\ Exists
  /\ WriteObject([object EXCEPT !.reason = "absent", !.merged = NoStatus])
  /\ ObjectChanged
  /\ UNCHANGED <<resourceVars, envVars, queued, dropped, ghosts>>

EditObject(s) ==
  /\ Operation
  /\ Exists /\ s # object.spec
  /\ WriteObject([object EXCEPT !.spec = s, !.version = @ + 1])
  /\ history' = Append(history, [uid |-> object.uid, spec |-> s])
  /\ ObjectChanged
  /\ UNCHANGED <<resourceVars, envVars, queued, dropped, pushed>>

DeleteResource ==
  /\ Operation
  /\ resource.owner # 0
  /\ WriteResource(Gone)
  /\ ResourceChanged
  /\ UNCHANGED <<objectVars, envVars, queued, dropped, ghosts>>

(* The garbage collector: the owner is gone, or is another incarnation.    *)
CollectResource ==
  /\ resource.owner # 0
  /\ Exists => object.uid # resource.owner
  /\ WriteResource(Gone)
  /\ ResourceChanged
  /\ UNCHANGED <<objectVars, envVars, queued, dropped, ghosts,
                 bounds>>

(* The provider's operator serves the spec it finds ...                    *)
StatusNow(synced) ==
  [synced |-> synced, of |-> resource.spec, extra |-> resource.extra]

ProviderSyncs ==
  /\ resource.owner # 0
  /\ resource.status # StatusNow("True")
  /\ WriteResource([resource EXCEPT !.status = StatusNow("True")])
  /\ ResourceChanged
  /\ UNCHANGED <<objectVars, envVars, queued, dropped, ghosts,
                 bounds>>

(* ... or fails to.                                                        *)
ProviderFails ==
  /\ Fault
  /\ resource.owner # 0
  /\ WriteResource([resource EXCEPT !.status = StatusNow("False")])
  /\ ResourceChanged
  /\ UNCHANGED <<objectVars, envVars, queued, dropped, ghosts>>

(* A policy is activated, a namespace labelled, an inventory becomes ready *)
(* or not: no controller of this object watches those.                     *)
ChangeGate(g) ==
  /\ Operation
  /\ g # gate
  /\ gate' = g
  /\ UNCHANGED <<objectVars, resourceVars, kind, watching, provider, extra,
                 queued, worker, dropped, ghosts>>

ChangeProvider ==
  /\ Operation
  /\ provider' = ~provider
  /\ UNCHANGED <<objectVars, resourceVars, kind, watching, gate, extra, queued,
                 worker, dropped, ghosts>>

(* The instance a connection refers to is deleted and created again: it    *)
(* has another ID, and the connection is not told.  (Once is enough.)      *)
ReplaceInstance ==
  /\ Operation
  /\ kind = "connection" /\ extra = "first"
  /\ extra' = "second"
  /\ UNCHANGED <<objectVars, resourceVars, kind, watching, provider, gate,
                 queued, worker, dropped, ghosts>>

-----------------------------------------------------------------------------
(* Mutant: the new watch starts with the next change.                      *)
WatchProviderNoList ==
  /\ provider /\ ~watching
  /\ watching' = TRUE
  /\ UNCHANGED <<kind, objectVars, resourceVars, provider, gate, extra, queued,
                 worker, dropped, ghosts, bounds>>

(* The DBaaSProvider controller: a new watch lists the kind's objects.     *)
WatchProvider ==
  /\ provider /\ ~watching
  /\ watching' = TRUE
  /\ resourceEvent' = (resource.owner # 0)
  /\ UNCHANGED <<kind, objectVars, resource, provider, gate, extra, queued,
                 worker, dropped, ghosts, bounds>>

(* The informers enqueue the object's key, as does the periodic resync.    *)
DeliverObject ==
  /\ objectWatch # <<>>
  /\ objectCache' = Head(objectWatch)
  /\ objectWatch' = Tail(objectWatch)
  /\ queued' = TRUE
  /\ UNCHANGED <<object, resourceVars, envVars, worker, dropped, ghosts,
                 bounds>>

DeliverResource ==
  /\ resourceEvent
  /\ resourceEvent' = FALSE
  /\ queued' = TRUE
  /\ UNCHANGED <<objectVars, resource, envVars, worker, dropped, ghosts,
                 bounds>>

Resync ==
  /\ objectCache.reason # "absent"
  /\ queued' = TRUE
  /\ UNCHANGED <<objectVars, resourceVars, envVars, worker, dropped, ghosts,
                 bounds>>

-----------------------------------------------------------------------------
(* Reconcile.                                                              *)

(* Return, with an error or Requeue if again holds.                        *)
Return(again) == /\ worker' = IdleWorker
                 /\ queued' = (queued \/ again)

(* End with a status write that sets reason r.                             *)
Report(r, then) ==
  worker' = [worker EXCEPT !.step = "status", !.object.reason = r,
                           !.after = then]

(* Take the request and get the object; a deleted one needs nothing.       *)
GetObject ==
  /\ worker.step = "idle" /\ queued
  /\ queued' = FALSE
  /\ dropped' = FALSE
  /\ worker' =
       IF objectCache.reason = "absent" THEN IdleWorker
       ELSE [IdleWorker EXCEPT
               !.step = IF kind = "connection" THEN "topology" ELSE "check",
               !.object = objectCache, !.fresh = objectWatch = <<>>]
  /\ UNCHANGED <<objectVars, resourceVars, envVars, ghosts, bounds>>

(* A connection first gets its Deployment for the topology view.           *)
reconcileDevTopologyResource ==
  /\ worker.step = "topology"
  /\ worker' = [worker EXCEPT !.step = "check"]
  /\ UNCHANGED <<objectVars, resourceVars, envVars, queued, dropped, ghosts,
                 bounds>>

(* An inventory needs an active policy in its namespace.                   *)
CheckPolicy ==
  /\ worker.step = "check" /\ kind = "inventory"
  /\ \/ /\ gate = "open"
        /\ worker' = [worker EXCEPT !.step = "label"]
     \/ /\ gate = "refused"
        /\ Report("refused", "done")
  /\ UNCHANGED <<objectVars, resourceVars, envVars, queued, dropped, ghosts,
                 bounds>>

(* The others need an inventory they may use, and that is ready.  A status *)
(* write that fails is forgotten: with an error to return the request is   *)
(* retried anyway, but a namespace that is refused is none.                *)
checkInventory ==
  /\ worker.step = "check" /\ kind # "inventory"
  /\ \/ /\ gate \in {"open", "no service"}
        /\ worker' = [worker EXCEPT
                        !.step = IF kind = "connection" THEN "spec"
                                                        ELSE "lookup"]
     \/ /\ gate = "refused"
        /\ Report("refused", "quiet")
     \/ /\ gate = "not ready"
        /\ Report("not ready", "retry")
  /\ UNCHANGED <<objectVars, resourceVars, envVars, queued, dropped, ghosts,
                 bounds>>

(* A connection names a database service, or an instance that has one,     *)
(* whose ID is then part of what the provider gets.                        *)
getConnectionSpec ==
  /\ worker.step = "spec"
  /\ \/ /\ gate # "no service"
        /\ worker' = [worker EXCEPT !.step = "lookup", !.extra = extra]
     \/ /\ gate = "no service"
        /\ Report("no service", "retry")
  /\ UNCHANGED <<objectVars, resourceVars, envVars, queued, dropped, ghosts,
                 bounds>>

(* An inventory's secret gets its label.                                   *)
checkCredsRefLabel ==
  /\ worker.step = "label"
  /\ worker' = [worker EXCEPT !.step = "lookup"]
  /\ UNCHANGED <<objectVars, resourceVars, envVars, queued, dropped, ghosts,
                 bounds>>

(* The reconcilers look the provider up before reconcileProviderResource   *)
(* does, and return its absence as an error.                               *)
getDBaaSProvider ==
  /\ worker.step = "lookup"
  /\ \/ /\ provider
        /\ worker' = [worker EXCEPT !.step = "read"]
        /\ UNCHANGED queued
     \/ /\ ~provider
        /\ Return(TRUE)
  /\ UNCHANGED <<objectVars, resourceVars, envVars, dropped, ghosts,
                 bounds>>

(* A call that fails before reconcileProviderResource ends the reconcile   *)
(* without a word in the status.                                           *)
CallFails ==
  /\ Fault
  /\ worker.step \in {"topology", "check", "label", "lookup"}
  /\ Return(TRUE)
  /\ UNCHANGED <<objectVars, resourceVars, envVars, dropped, ghosts>>

(* reconcileProviderResource starts from the condition the object has, or  *)
(* from its first one.                                                     *)
InitialReason == IF worker.object.reason = "none" THEN "in progress"
                                                  ELSE worker.object.reason

(* It looks the provider up again and gets its object.                     *)
ReadResource ==
  /\ worker.step = "read"
  /\ \/ /\ provider
        /\ worker' = [worker EXCEPT !.step = "write", !.resource = resource,
                                    !.current = TRUE]
     \/ /\ ~provider
        /\ Report("provider not found", "retry")
  /\ UNCHANGED <<objectVars, resourceVars, envVars, queued, dropped, ghosts,
                 bounds>>

(* An instance's spec is converted for a provider of v1alpha1 once more,   *)
(* for which its inventory is read again.  A failure is logged, and what   *)
(* was converted till then goes to the provider.                           *)
ConversionFails ==
  /\ Fault
  /\ worker.step = "read" /\ kind = "instance" /\ provider
  /\ worker' = [worker EXCEPT !.step = "write", !.extra = "lost",
                              !.resource = resource, !.current = TRUE]
  /\ UNCHANGED <<objectVars, resourceVars, envVars, queued, dropped, ghosts>>

(* Mutant: an object that has an owner keeps it.                           *)
DesiredKeepsOwner ==
  [worker.resource EXCEPT !.owner = IF @ = 0 THEN worker.object.uid ELSE @,
                          !.spec = worker.object.spec, !.extra = worker.extra]

(* providerObjectMutateFn: the object's spec, and the object alone as its  *)
(* owner.                                                                  *)
Desired == [worker.resource EXCEPT !.owner = worker.object.uid,
                                   !.spec = worker.object.spec,
                                   !.extra = worker.extra]

(* The write, which is always sent (the new spec, a Go struct, is never    *)
(* equal to the old one, a map).  One that changes nothing is no event.    *)
WriteDesired == IF worker.resource = Desired THEN UNCHANGED resourceVars
                                             ELSE WriteResource(Desired)

(* Mutant: the condition carries the provider's value as its reason.       *)
MergedReasonRaw(status) == status.synced

(* mergeInventoryStatus and its siblings: the provider's status replaces   *)
(* the object's, and its SpecSynced condition decides on Ready.            *)
MergedReason(status) == IF status.synced = "True" THEN "ready" ELSE "in progress"

Merge(w, status) ==
  [w EXCEPT !.step = "status", !.after = "done",
            !.object.merged = status, !.object.reason = MergedReason(status)]

(* Mutant: an object that exists is not updated.                           *)
CreateOnly ==
  /\ worker.step = "write"
  /\ \/ /\ worker.current
        /\ IF worker.resource.owner = 0 THEN WriteResource(Desired)
                                        ELSE UNCHANGED resourceVars
        /\ worker' = Merge(worker, Desired.status)
        /\ pushed' = worker.object.version
     \/ /\ ~worker.current
        /\ Report(InitialReason, "retry")
        /\ UNCHANGED <<resourceVars, pushed>>
  /\ UNCHANGED <<objectVars, envVars, queued, dropped, history, bounds>>

(* The second half of CreateOrUpdate.  An object that changed since it was *)
(* read is a conflict, which leaves the condition as it was; one that is   *)
(* gone, or any other failure, is an error to report.                      *)
CreateOrUpdate ==
  /\ worker.step = "write"
  /\ \/ /\ worker.current
        /\ WriteDesired
        /\ worker' = Merge(worker, Desired.status)
        /\ pushed' = worker.object.version
     \/ /\ ~worker.current
        /\ Report(IF resource.owner # 0 THEN InitialReason ELSE "provider error",
                  "retry")
        /\ UNCHANGED <<resourceVars, pushed>>
  /\ UNCHANGED <<objectVars, envVars, queued, dropped, history, bounds>>

(* Any other failure: of the second look-up, of the two API calls, or in   *)
(* parsing what the write returned.                                        *)
ResourceFails ==
  /\ Fault
  /\ \/ /\ worker.step = "read"
        /\ Report(InitialReason, "retry")
        /\ UNCHANGED <<resourceVars, pushed>>
     \/ /\ worker.step \in {"read", "write"}
        /\ Report("provider error", "retry")
        /\ UNCHANGED <<resourceVars, pushed>>
     \/ /\ worker.step = "write" /\ worker.current
        /\ WriteDesired
        /\ Report("provider error", "retry")
        /\ pushed' = worker.object.version
  /\ UNCHANGED <<objectVars, envVars, queued, dropped, history>>

(* Mutant: the status is written without looking at the version.           *)
UpdateStatusBlind ==
  LET next == [object EXCEPT !.reason = worker.object.reason,
                             !.merged = worker.object.merged] IN
  /\ worker.step = "status"
  /\ Exists
  /\ IF next = object THEN UNCHANGED objectVars ELSE WriteObject(next)
  /\ Return(worker.after = "retry")
  /\ UNCHANGED <<resourceVars, envVars, dropped, ghosts,
                 bounds>>

(* The status write every path but the early returns ends with: done, or   *)
(* refused because the object changed.                                     *)
UpdateStatus ==
  /\ worker.step = "status"
  /\ \/ /\ worker.fresh
        /\ IF worker.object = object THEN UNCHANGED objectVars
                                     ELSE WriteObject(worker.object)
        /\ Return(worker.after = "retry")
     \/ /\ ~worker.fresh
        /\ UNCHANGED objectVars
        /\ Return(worker.after # "quiet")
  /\ UNCHANGED <<resourceVars, envVars, dropped, ghosts,
                 bounds>>

UpdateStatusFails ==
  /\ Fault
  /\ worker.step = "status"
  /\ Return(worker.after # "quiet")
  /\ dropped' = (worker.after = "quiet")
  /\ UNCHANGED <<objectVars, resourceVars, envVars, ghosts>>

Reconcile ==
  \/ GetObject
  \/ reconcileDevTopologyResource \/ CheckPolicy \/ checkInventory
  \/ getConnectionSpec \/ checkCredsRefLabel
  \/ getDBaaSProvider \/ ReadResource \/ CreateOrUpdate \/ UpdateStatus

(* A new process: nothing is watched yet, and the object is new to it.     *)
Restart ==
  /\ Operation
  /\ worker' = IdleWorker
  /\ objectCache' = object
  /\ objectWatch' = <<>>
  /\ queued' = Exists
  /\ dropped' = FALSE
  /\ watching' = FALSE
  /\ resourceEvent' = FALSE
  /\ UNCHANGED <<kind, object, resource, provider, gate, extra, ghosts>>

Next ==
  \/ \E s \in Specs : CreateObject(s) \/ EditObject(s)
  \/ DeleteObject \/ DeleteResource \/ CollectResource
  \/ ProviderSyncs \/ ProviderFails
  \/ \E g \in Gates : ChangeGate(g)
  \/ ChangeProvider \/ ReplaceInstance
  \/ WatchProvider \/ DeliverObject \/ DeliverResource \/ Resync
  \/ Reconcile \/ CallFails \/ ConversionFails \/ ResourceFails \/ UpdateStatusFails
  \/ Restart

Spec == Init /\ [][Next]_vars

(* The controllers and informers run, the garbage collector too, and the   *)
(* provider's operator serves what it is given.                            *)
Fairness ==
  /\ WF_vars(Reconcile)
  /\ WF_vars(WatchProvider) /\ WF_vars(DeliverObject)
  /\ WF_vars(DeliverResource) /\ WF_vars(Resync)
  /\ WF_vars(CollectResource) /\ WF_vars(ProviderSyncs)

FairSpec == Spec /\ Fairness

-----------------------------------------------------------------------------
(* Properties.                                                             *)

TypeOK ==
  /\ object \in Object /\ objectCache \in Object
  /\ objectWatch \in Seq(Object)
  /\ resource \in Resource /\ resourceEvent \in BOOLEAN
  /\ watching \in BOOLEAN /\ provider \in BOOLEAN /\ gate \in Gates
  /\ extra \in Extras
  /\ queued \in BOOLEAN /\ worker \in Worker /\ dropped \in BOOLEAN
  /\ history \in Seq([uid : Nat, spec : Specs]) /\ pushed \in 0 .. Len(history)
  /\ ops \in 0 .. MaxOps /\ faults \in 0 .. MaxFaults

Idle == /\ objectWatch = <<>> /\ ~resourceEvent /\ ~queued
        /\ worker.step = "idle"

(* Once the controller is idle, an object it did not refuse is mirrored by *)
(* the provider's object: same spec, owned by this incarnation, whatever   *)
(* was deleted, re-created, edited or restarted on the way.  (A provider's *)
(* object deleted while its kind is not watched is missed until a resync,  *)
(* and so is what other objects add to the spec: see EventuallyReady.)     *)
SpecMirroredWhenIdle ==
  Idle /\ Exists /\ ~dropped /\ object.reason # "refused"
       /\ resource.owner # 0
    => resource.owner = object.uid /\ resource.spec = object.spec

(* ... and, while the kind is watched, its status is the provider's last   *)
(* word.                                                                   *)
StatusMirroredWhenIdle ==
  Idle /\ Exists /\ ~dropped /\ object.reason # "refused"
       /\ resource.owner # 0 /\ watching
    => /\ object.merged = resource.status
       /\ object.reason = "ready" <=> resource.status.synced = "True"

(* A status write makes an object ready only while the provider's object,  *)
(* if still there, carries the spec the object has at that moment: a spec  *)
(* edited during the reconcile is never reported ready by it.              *)
ReadyForOwnSpec ==
  [][object.reason # "ready" /\ object'.reason = "ready" =>
       resource.owner = 0 \/ resource.spec = object'.spec]_vars

(* The provider's object, as Mirror knows it.                              *)
Carried == IF resource.owner = 0 THEN <<>>
           ELSE <<[uid |-> resource.owner, spec |-> resource.spec]>>

M == INSTANCE Mirror WITH alive <- Exists, ready <- object.reason = "ready",
                          carried <- Carried

(* The controllers implement Mirror: what the provider is given is always  *)
(* uid and spec of one version of the object (whatever other objects add   *)
(* to it), never an older one than it was given before, and an object      *)
(* turns ready only for its latest version.                                *)
ImplementsMirror == M!Spec

(* An object that exists, passes the checks and has a provider, all for    *)
(* good, becomes ready for good, with the status computed for its spec,    *)
(* and for what other objects add to it: an instance's spec that was lost  *)
(* in part and a connection's instance that was replaced are noticed by    *)
(* the resync at last.                                                     *)
EventuallyReady ==
  <>[](Exists /\ gate = "open" /\ provider) =>
    <>[](/\ object.reason = "ready"
         /\ object.merged.of = object.spec /\ object.merged.extra = extra)
=============================================================================
