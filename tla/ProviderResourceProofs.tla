----------------------- MODULE ProviderResourceProofs -----------------------
(***************************************************************************)
(* Proofs about the controllers of inventories, instances and connections, *)
(* for every set of specs and any number of operations and failures: that  *)
(* they implement Mirror, that an object turns ready only for the spec it  *)
(* has, and that a controller at rest leaves both objects in agreement.    *)
(***************************************************************************)
EXTENDS ProviderResource, SequenceTheorems, TLAPS

(* A copy of the object: one version of it, its uid and spec together.     *)
IsVersion(o) ==
  /\ o.version \in 0 .. Len(history)
  /\ o.reason # "absent" => o.version > 0
  /\ o.version > 0 => /\ o.uid = history[o.version].uid
                      /\ o.spec = history[o.version].spec

(* The API server has the latest version, and every copy is a version.     *)
HistorySound ==
  /\ object.version = Len(history)
  /\ object.version = 0 => object.uid = 0
  /\ \A i \in DOMAIN history : history[i].uid > 0
  /\ IsVersion(object) /\ IsVersion(objectCache) /\ IsVersion(worker.object)
  /\ \A i \in DOMAIN objectWatch : IsVersion(objectWatch[i])

(* A cache without pending events shows the truth, and the last pending    *)
(* event carries it.                                                       *)
CacheCoherent ==
  IF objectWatch = <<>> THEN objectCache = object
                        ELSE objectWatch[Len(objectWatch)] = object

(* Versions only get newer on their way from the API server to the cache;  *)
(* the worker's is between the last one pushed and the cache's.            *)
Ordered ==
  /\ pushed <= objectCache.version
  /\ objectCache.version <= object.version
  /\ \A i \in DOMAIN objectWatch :
       objectCache.version <= objectWatch[i].version
  /\ \A i, j \in DOMAIN objectWatch :
       i <= j => objectWatch[i].version <= objectWatch[j].version
  /\ worker.step # "idle" => /\ pushed <= worker.object.version
                             /\ worker.object.version <= objectCache.version

(* What the worker believes to be current is, and what it holds of an      *)
(* object that has changed since will be looked at again.                  *)
WorkerFresh ==
  /\ worker.step # "idle" => worker.object.reason # "absent"
  /\ worker.fresh => /\ worker.step # "idle"
                     /\ objectWatch = <<>>
                     /\ Exists
                     /\ worker.object.version = object.version
  /\ worker.fresh /\ worker.step # "status" => worker.object = object
  /\ worker.step # "idle" /\ ~worker.fresh => objectWatch # <<>> \/ queued

(* The provider's object carries the version last pushed, and the worker   *)
(* that is about to update it knows that much of it.                       *)
ResourceSound ==
  /\ resource.owner # 0 => /\ pushed > 0
                           /\ resource.owner = history[pushed].uid
                           /\ resource.spec = history[pushed].spec
  /\ worker.step = "write" =>
       /\ resource.owner # 0 => /\ worker.resource.owner = resource.owner
                                /\ worker.resource.spec = resource.spec
       /\ worker.current => worker.resource = resource
       /\ ~worker.current => \/ resource.owner = 0
                             \/ ~watching \/ resourceEvent \/ queued

(* o shows the provider's last word, unless an event says otherwise.       *)
ShowsStatus(o) ==
  resource.owner # 0 /\ watching /\ ~resourceEvent /\ ~queued =>
    /\ o.merged = resource.status
    /\ o.reason = "ready" <=> resource.status.synced = "True"

(* What a status write is based on.                                        *)
ReportSound ==
  worker.step = "status" =>
    /\ worker.after = "quiet" => worker.object.reason = "refused"
    /\ worker.fresh /\ worker.object.reason = "ready" =>
         object.reason = "ready" \/ pushed = worker.object.version
    /\ worker.fresh /\ worker.after = "done"
         /\ worker.object.reason # "refused" =>
         pushed = worker.object.version /\ ShowsStatus(worker.object)

(* With nothing left to do, the latest version has been pushed.            *)
IdleSound ==
  /\ worker.step = "idle" /\ ~queued /\ objectWatch = <<>>
  /\ Exists /\ ~dropped /\ object.reason # "refused"
  => pushed = object.version /\ ShowsStatus(object)

Safe == /\ HistorySound /\ CacheCoherent /\ Ordered /\ WorkerFresh
        /\ ResourceSound /\ ReportSound /\ IdleSound

IInv == TypeOK /\ kind \in Kinds /\ Safe

-----------------------------------------------------------------------------
(* Types.                                                                  *)

(* The records that stand for nothing are what they stand for.             *)
LEMMA EmptyTypes ==
  /\ NoObject \in Object /\ Settled \in Object
  /\ Gone \in Resource
  /\ IdleWorker \in Worker
<1>1. (CHOOSE s \in Specs : TRUE) \in Specs
  BY ProviderResourceAssumption
<1>2. NoStatus \in Status /\ [synced |-> "True", of |-> CHOOSE s \in Specs : TRUE, extra |-> "first"] \in Status
  BY <1>1 DEF Status, Extras
<1>3. NoObject \in Object /\ Settled \in Object
  BY <1>1, <1>2 DEF NoObject, Settled, Object, Reasons
<1>4. Gone \in Resource
  BY <1>1, <1>2 DEF Gone, Resource, Extras
<1>5. IdleWorker \in Worker
  BY <1>3, <1>4 DEF IdleWorker, Worker, Extras
<1> QED  BY <1>3, <1>4, <1>5

(* What happens to a worker leaves a worker.                               *)
LEMMA WorkerTypes ==
  ASSUME NEW w \in Worker
  PROVE  /\ [w EXCEPT !.fresh = FALSE] \in Worker
         /\ [w EXCEPT !.current = FALSE] \in Worker
         /\ \A s \in {"check", "label", "spec", "lookup", "read"} :
              [w EXCEPT !.step = s] \in Worker
         /\ \A e \in Extras :
              [w EXCEPT !.step = "lookup", !.extra = e] \in Worker
         /\ \A st \in Status : Merge(w, st) \in Worker
<1>1. ASSUME NEW st \in Status
      PROVE  [[w.object EXCEPT !.merged = st] EXCEPT !.reason = MergedReason(st)] \in Object
  BY DEF Worker, Object, MergedReason, Reasons
<1>2. ASSUME NEW st \in Status PROVE Merge(w, st) \in Worker
  BY <1>1 DEF Merge, Worker
<1> QED  BY <1>2 DEF Worker

(* A report leaves a worker.                                               *)
LEMMA ReportType ==
  ASSUME worker \in Worker, NEW r \in Reasons,
         NEW a \in {"done", "retry", "quiet"}, Report(r, a)
  PROVE  worker' \in Worker
<1>1. [worker.object EXCEPT !.reason = r] \in Object
  BY DEF Worker, Object
<1> QED  BY <1>1 DEF Worker, Report

(* Writes to the API server keep the types of what they write.             *)
LEMMA WriteObjectType ==
  ASSUME TypeOK, NEW v \in Object, WriteObject(v)
  PROVE  /\ object' \in Object /\ objectCache' \in Object
         /\ objectWatch' \in Seq(Object)
<1>1. Append(objectWatch, v) \in Seq(Object)
  BY DEF TypeOK
<1> QED  BY <1>1 DEF TypeOK, WriteObject

(* A write of the provider's object leaves one.                            *)
LEMMA WriteResourceType ==
  ASSUME TypeOK, NEW v \in Resource, WriteResource(v)
  PROVE  resource' \in Resource /\ resourceEvent' \in BOOLEAN
  BY DEF TypeOK, WriteResource

(* The user's operations keep the types of object and history.             *)
LEMMA UserTypes ==
  ASSUME TypeOK, NEW s \in Specs,
         CreateObject(s) \/ EditObject(s) \/ DeleteObject
  PROVE  /\ object' \in Object /\ objectCache' \in Object
         /\ objectWatch' \in Seq(Object)
         /\ history' \in Seq([uid : Nat, spec : Specs])
         /\ pushed' \in 0 .. Len(history')
<1> USE DEF ghosts
<1>0. object \in Object
  BY DEF TypeOK
<1>1. object.uid \in Nat /\ object.version \in Nat
  BY DEF TypeOK, Object
<1>2. NoStatus \in Status
  BY DEF Status
<1>3. ASSUME NEW e \in [uid : Nat, spec : Specs], history' = Append(history, e),
             pushed' = pushed
      PROVE  /\ history' \in Seq([uid : Nat, spec : Specs])
             /\ pushed' \in 0 .. Len(history')
  <2>1. history \in Seq([uid : Nat, spec : Specs])
    BY DEF TypeOK
  <2>2. /\ Append(history, e) \in Seq([uid : Nat, spec : Specs])
        /\ Len(Append(history, e)) = Len(history) + 1
    BY <2>1, AppendProperties
  <2>3. pushed \in Nat /\ Len(history) \in Nat /\ pushed <= Len(history)
    BY DEF TypeOK
  <2> QED  BY <1>3, <2>2, <2>3
<1>5. CASE CreateObject(s)
  <2> DEFINE v == [uid |-> object.uid + 1, version |-> object.version + 1,
                   spec |-> s, reason |-> "none", merged |-> NoStatus]
             e == [uid |-> object.uid + 1, spec |-> s]
  <2>1. v \in Object
    BY <1>1, <1>2 DEF Object, Reasons
  <2>2. e \in [uid : Nat, spec : Specs]
    BY <1>1
  <2>3. WriteObject(v) /\ history' = Append(history, e) /\ pushed' = pushed
    BY <1>5 DEF CreateObject
  <2> HIDE DEF v, e
  <2> QED  BY <1>3, <2>1, <2>2, <2>3, WriteObjectType
<1>6. CASE EditObject(s)
  <2> DEFINE v == [object EXCEPT !.spec = s, !.version = @ + 1]
             e == [uid |-> object.uid, spec |-> s]
  <2>1. PICK n \in Nat : n = object.version + 1
    BY <1>1
  <2>2. v \in Object
    <3>1. v = [object EXCEPT !.spec = s, !.version = n]
      BY <1>0, <2>1 DEF Object
    <3> QED  BY <1>0, <3>1 DEF Object
  <2>3. e \in [uid : Nat, spec : Specs]
    BY <1>1
  <2>4. WriteObject(v) /\ history' = Append(history, e) /\ pushed' = pushed
    BY <1>6 DEF EditObject
  <2> HIDE DEF v, e
  <2> QED  BY <1>3, <2>2, <2>3, <2>4, WriteObjectType
<1>7. CASE DeleteObject
  <2> DEFINE v == [object EXCEPT !.reason = "absent", !.merged = NoStatus]
  <2>1. v \in Object
    BY <1>0, <1>2 DEF Object, Reasons
  <2>2. WriteObject(v)
    BY <1>7 DEF DeleteObject
  <2> HIDE DEF v
  <2>3. UNCHANGED ghosts
    BY <1>7 DEF DeleteObject
  <2> QED  BY <2>1, <2>2, <2>3, WriteObjectType DEF TypeOK
<1> QED  BY <1>5, <1>6, <1>7

(* Every step keeps the state well typed; that what is pushed is a version *)
(* of the history takes the rest of the invariant.                         *)
LEMMA TypeStep == IInv /\ [Next]_vars => TypeOK' /\ kind' = kind
<1> SUFFICES ASSUME IInv, [Next]_vars PROVE TypeOK' /\ kind' = kind
  OBVIOUS
<1> USE DEF objectVars, resourceVars, envVars, ghosts, bounds
<1>0. TypeOK
  BY DEF IInv
<1>a. /\ ops \in Nat /\ ops <= MaxOps /\ MaxOps \in Nat
      /\ faults \in Nat /\ faults <= MaxFaults /\ MaxFaults \in Nat
  BY <1>0, ProviderResourceAssumption DEF TypeOK
<1>b. /\ Operation => ops' \in 0 .. MaxOps /\ faults' \in 0 .. MaxFaults
      /\ Fault => ops' \in 0 .. MaxOps /\ faults' \in 0 .. MaxFaults
  BY <1>a DEF Operation, Fault
<1>c. kind' = kind => Gates' = Gates
  BY DEF Gates
<1>d. /\ worker \in Worker /\ worker.object \in Object
      /\ worker.object.reason \in Reasons /\ worker.object.version \in Nat
      /\ worker.object.uid \in Nat /\ worker.object.spec \in Specs
      /\ worker.resource \in Resource /\ worker.extra \in Extras
  BY <1>0 DEF TypeOK, Worker, Object
<1>e. InitialReason \in Reasons
  BY <1>d DEF InitialReason, Reasons
<1>f. Desired \in Resource /\ Desired.status \in Status
  BY <1>d DEF Desired, Resource
<1>g. worker.object.version \in 0 .. Len(history)
  BY DEF IInv, Safe, HistorySound, IsVersion
<1>h. \A r \in Reasons, a \in {"done", "retry", "quiet"} :
        Report(r, a) => worker' \in Worker
  BY <1>d, ReportType
<1>i. /\ "refused" \in Reasons /\ "not ready" \in Reasons
      /\ "no service" \in Reasons /\ "provider error" \in Reasons
      /\ "provider not found" \in Reasons
  BY DEF Reasons
<1>1. ASSUME NEW s \in Specs, CreateObject(s) \/ EditObject(s) \/ DeleteObject
      PROVE  TypeOK' /\ kind' = kind
  <2>1. worker' \in Worker
    BY <1>1, <1>d, WorkerTypes DEF CreateObject, EditObject, DeleteObject,
                                   ObjectChanged
  <2> QED  BY <1>0, <1>b, <1>c, <1>1, <2>1, UserTypes
           DEF TypeOK, CreateObject, EditObject, DeleteObject
<1>2. CASE DeleteResource \/ CollectResource \/ ProviderSyncs \/ ProviderFails
  <2>1. worker' \in Worker
    BY <1>2, <1>d, WorkerTypes
    DEF DeleteResource, CollectResource, ProviderSyncs, ProviderFails,
        ResourceChanged
  <2>2. /\ [resource EXCEPT !.status = StatusNow("True")] \in Resource
        /\ [resource EXCEPT !.status = StatusNow("False")] \in Resource
    BY <1>0 DEF TypeOK, Resource, Status, StatusNow
  <2>3. resource' \in Resource /\ resourceEvent' \in BOOLEAN
    BY <1>0, <1>2, <2>2, WriteResourceType, EmptyTypes
    DEF DeleteResource, CollectResource, ProviderSyncs, ProviderFails
  <2> QED  BY <1>0, <1>b, <1>c, <1>2, <2>1, <2>3
           DEF TypeOK, DeleteResource, CollectResource, ProviderSyncs,
               ProviderFails
<1>3. ASSUME NEW g \in Gates, ChangeGate(g) PROVE TypeOK' /\ kind' = kind
  BY <1>0, <1>b, <1>c, <1>3 DEF TypeOK, ChangeGate
<1>4. CASE ChangeProvider \/ ReplaceInstance
  BY <1>0, <1>b, <1>c, <1>4 DEF TypeOK, ChangeProvider, ReplaceInstance, Extras
<1>5. CASE WatchProvider \/ DeliverResource \/ Resync
  BY <1>0, <1>c, <1>5 DEF TypeOK, WatchProvider, DeliverResource, Resync
<1>6. CASE DeliverObject
  <2>1. Head(objectWatch) \in Object /\ Tail(objectWatch) \in Seq(Object)
    BY <1>0, <1>6 DEF TypeOK, DeliverObject
  <2> QED  BY <1>0, <1>c, <1>6, <2>1 DEF TypeOK, DeliverObject
<1>7. CASE GetObject
  <2>1. worker' \in Worker
    BY <1>0, <1>7, EmptyTypes DEF TypeOK, GetObject, Worker
  <2> QED  BY <1>0, <1>c, <1>7, <2>1 DEF TypeOK, GetObject
<1>8. CASE \/ reconcileDevTopologyResource \/ CheckPolicy \/ checkInventory
           \/ getConnectionSpec \/ checkCredsRefLabel
  <2>a. \A s \in {"check", "label", "spec", "lookup"} :
          [worker EXCEPT !.step = s] \in Worker
    BY <1>d, WorkerTypes
  <2>b. [worker EXCEPT !.step = "lookup", !.extra = extra] \in Worker
    BY <1>0, <1>d, WorkerTypes DEF TypeOK
  <2>1. worker' \in Worker
    <3>1. CASE getConnectionSpec
      BY <1>h, <1>i, <2>b, <3>1 DEF getConnectionSpec
    <3>2. CASE ~getConnectionSpec
      BY <1>8, <1>h, <1>i, <2>a, <3>2
      DEF reconcileDevTopologyResource, CheckPolicy, checkInventory,
          checkCredsRefLabel
    <3> QED  BY <3>1, <3>2
  <2> QED  BY <1>0, <1>c, <1>8, <2>1
           DEF TypeOK, reconcileDevTopologyResource, CheckPolicy,
               checkInventory, getConnectionSpec, checkCredsRefLabel
<1>9. CASE getDBaaSProvider
  <2>1. worker' \in Worker /\ queued' \in BOOLEAN
    BY <1>0, <1>9, <1>d, WorkerTypes, EmptyTypes
    DEF getDBaaSProvider, Return, TypeOK
  <2> QED  BY <1>0, <1>c, <1>9, <2>1 DEF TypeOK, getDBaaSProvider
<1>10. CASE ReadResource \/ ConversionFails
  <2>1. worker' \in Worker
    BY <1>0, <1>10, <1>h, <1>i
    DEF ReadResource, ConversionFails, TypeOK, Worker, Extras
  <2> QED  BY <1>0, <1>b, <1>c, <1>10, <2>1
           DEF TypeOK, ReadResource, ConversionFails
<1>11. CASE CreateOrUpdate
  <2>1. worker' \in Worker
    <3>1. Merge(worker, Desired.status) \in Worker
      BY <1>d, <1>f, WorkerTypes
    <3> QED  BY <1>11, <1>e, <1>h, <1>i, <3>1 DEF CreateOrUpdate
  <2>2. /\ resource' \in Resource /\ resourceEvent' \in BOOLEAN
        /\ pushed' \in 0 .. Len(history)
    BY <1>0, <1>11, <1>f, <1>g, WriteResourceType
    DEF CreateOrUpdate, WriteDesired, TypeOK
  <2> QED  BY <1>0, <1>c, <1>11, <2>1, <2>2 DEF TypeOK, CreateOrUpdate
<1>12. CASE ResourceFails
  <2>1. worker' \in Worker
    BY <1>12, <1>e, <1>h, <1>i DEF ResourceFails
  <2>2. /\ resource' \in Resource /\ resourceEvent' \in BOOLEAN
        /\ pushed' \in 0 .. Len(history)
    BY <1>0, <1>12, <1>f, <1>g, WriteResourceType
    DEF ResourceFails, WriteDesired, TypeOK
  <2> QED  BY <1>0, <1>b, <1>c, <1>12, <2>1, <2>2 DEF TypeOK, ResourceFails
<1>13. CASE UpdateStatus
  <2>1. /\ object' \in Object /\ objectCache' \in Object
        /\ objectWatch' \in Seq(Object)
    BY <1>0, <1>13, <1>d, WriteObjectType DEF UpdateStatus, TypeOK
  <2>2. worker' \in Worker /\ queued' \in BOOLEAN
    BY <1>0, <1>13, EmptyTypes DEF UpdateStatus, Return, TypeOK
  <2> QED  BY <1>0, <1>c, <1>13, <2>1, <2>2 DEF TypeOK, UpdateStatus
<1>14. CASE CallFails \/ UpdateStatusFails
  <2>1. worker' \in Worker /\ queued' \in BOOLEAN /\ dropped' \in BOOLEAN
    BY <1>0, <1>14, EmptyTypes
    DEF CallFails, UpdateStatusFails, Return, TypeOK
  <2> QED  BY <1>0, <1>b, <1>c, <1>14, <2>1
           DEF TypeOK, CallFails, UpdateStatusFails
<1>15. CASE Restart
  <2>1. worker' \in Worker /\ queued' \in BOOLEAN /\ objectWatch' \in Seq(Object)
    BY <1>15, EmptyTypes DEF Restart, Exists
  <2> QED  BY <1>0, <1>b, <1>c, <1>15, <2>1 DEF TypeOK, Restart
<1>16. CASE UNCHANGED vars
  BY <1>0, <1>c, <1>16 DEF TypeOK, vars
<1> QED
  BY <1>1, <1>2, <1>3, <1>4, <1>5, <1>6, <1>7, <1>8, <1>9, <1>10, <1>11,
     <1>12, <1>13, <1>14, <1>15, <1>16, ProviderResourceAssumption
  DEF Next, Reconcile

-----------------------------------------------------------------------------
(* What the actions do to the state that Safe is about, in a dozen moves.  *)

Early == {"topology", "check", "spec", "label", "lookup", "read"}

Unmoved == UNCHANGED <<objectVars, resourceVars, watching, queued, dropped,
                       ghosts>>

(* The worker's copy of the object but for the reason and merged status.   *)
SameVersion ==
  /\ worker'.object.version = worker.object.version
  /\ worker'.object.uid = worker.object.uid
  /\ worker'.object.spec = worker.object.spec
  /\ worker'.fresh = worker.fresh

(* Nothing, or what only the checks look at.                               *)
Stutter == Unmoved /\ UNCHANGED worker

(* The reconcile goes on.                                                  *)
Advance ==
  /\ worker.step \in Early /\ worker'.step \in Early
  /\ worker'.object = worker.object /\ worker'.fresh = worker.fresh
  /\ Unmoved

(* It is about to report something and to try again ...                    *)
Objects ==
  /\ worker.step \notin {"idle", "status"}
  /\ worker'.step = "status" /\ worker'.after = "retry" /\ SameVersion
  /\ worker'.object.reason # "absent"
  /\ worker'.object.reason = "ready" => worker.object.reason = "ready"
  /\ Unmoved

(* ... or that the object is refused.                                      *)
Refuses ==
  /\ worker.step \notin {"idle", "status"}
  /\ worker'.step = "status" /\ SameVersion
  /\ worker'.object.reason = "refused"
  /\ Unmoved

(* It ends with an error.                                                  *)
GivesUp ==
  /\ worker.step # "idle"
  /\ worker' = IdleWorker /\ queued'
  /\ UNCHANGED <<objectVars, resourceVars, watching, dropped, ghosts>>

(* It reads the provider's object ...                                      *)
Reads ==
  /\ worker.step = "read" /\ worker'.step = "write"
  /\ worker'.object = worker.object /\ worker'.fresh = worker.fresh
  /\ worker'.resource = resource /\ worker'.current
  /\ Unmoved

(* ... and makes it carry the object's version, or finds that it does.     *)
Carries ==
  /\ resource'.owner = worker.object.uid
  /\ resource'.spec = worker.object.spec
  /\ resource'.status = worker.resource.status
  /\ worker.current

Pushes ==
  /\ worker.step = "write"
  /\ \/ Carries
     \/ /\ worker.resource.owner = worker.object.uid
        /\ worker.resource.spec = worker.object.spec
        /\ UNCHANGED resourceVars
  /\ worker'.step = "status" /\ SameVersion
  /\ \/ /\ worker'.after = "retry"
        /\ worker'.object.reason = "provider error"
     \/ /\ worker'.after = "done"
        /\ worker'.object.merged = worker.resource.status
        /\ worker'.object.reason = MergedReason(worker.resource.status)
  /\ pushed' = worker.object.version
  /\ UNCHANGED <<objectVars, watching, queued, dropped, history>>

(* Others change the provider's object, but never whose or what it is.     *)
Disturbs ==
  /\ resource'.owner # 0 => /\ resource'.owner = resource.owner
                            /\ resource'.spec = resource.spec
  /\ resourceEvent' = (resourceEvent \/ watching)
  /\ worker'.step = worker.step /\ worker'.object = worker.object
  /\ worker'.fresh = worker.fresh /\ worker'.resource = worker.resource
  /\ worker'.after = worker.after /\ ~worker'.current
  /\ UNCHANGED <<objectVars, watching, queued, dropped, ghosts>>

(* The user writes v.                                                      *)
UserWrites(v) ==
  /\ object' = v
  /\ objectWatch' = Append(objectWatch, v)
  /\ worker'.step = worker.step /\ worker'.object = worker.object
  /\ worker'.resource = worker.resource /\ worker'.current = worker.current
  /\ worker'.after = worker.after /\ ~worker'.fresh
  /\ UNCHANGED <<objectCache, resourceVars, watching, queued, dropped, pushed>>

(* A new version of the object ...                                         *)
Creates ==
  \E v \in Object :
    /\ UserWrites(v)
    /\ v.version = object.version + 1 /\ v.uid \in Nat \ {0}
    /\ \/ ~Exists /\ v.uid = object.uid + 1 /\ v.reason = "none"
       \/ Exists /\ v.uid = object.uid /\ v.reason = object.reason
    /\ history' = Append(history, [uid |-> v.uid, spec |-> v.spec])

(* ... or the end of the last one.                                         *)
Deletes ==
  \E v \in Object :
    /\ Exists /\ UserWrites(v)
    /\ v.version = object.version /\ v.uid = object.uid
    /\ v.spec = object.spec /\ v.reason = "absent"
    /\ UNCHANGED history

(* Every step is one of the moves, or one of the actions named here.       *)
LEMMA Moves ==
  ASSUME IInv, [Next]_vars
  PROVE  \/ Stutter \/ Advance \/ Objects \/ Refuses \/ GivesUp \/ Reads
         \/ Pushes \/ Disturbs \/ Creates \/ Deletes
         \/ WatchProvider \/ DeliverObject \/ DeliverResource \/ Resync
         \/ GetObject \/ UpdateStatus \/ UpdateStatusFails \/ Restart
<1> USE DEF objectVars, resourceVars, envVars, ghosts, bounds, Unmoved
<1>0. /\ TypeOK /\ worker \in Worker /\ worker.object \in Object
      /\ worker.resource \in Resource /\ resource \in Resource
      /\ object \in Object
  BY DEF IInv, TypeOK, Worker
<1>a. worker.step # "idle" => worker.object.reason # "absent"
  BY DEF IInv, Safe, WorkerFresh
<1>b. ASSUME NEW r, NEW a, Report(r, a)
      PROVE  /\ worker'.step = "status" /\ worker'.after = a /\ SameVersion
             /\ worker'.object.reason = r
  BY <1>0, <1>b DEF Worker, Object, Report, SameVersion
<1>c. ASSUME NEW s, worker' = [worker EXCEPT !.step = s]
      PROVE  /\ worker'.step = s /\ worker'.object = worker.object
             /\ worker'.fresh = worker.fresh
  BY <1>0, <1>c DEF Worker
<1>d. ResourceChanged =>
        /\ worker'.step = worker.step /\ worker'.object = worker.object
        /\ worker'.fresh = worker.fresh /\ worker'.resource = worker.resource
        /\ worker'.after = worker.after /\ ~worker'.current
  BY <1>0 DEF Worker, ResourceChanged
<1>e. ObjectChanged =>
        /\ worker'.step = worker.step /\ worker'.object = worker.object
        /\ worker'.resource = worker.resource
        /\ worker'.current = worker.current
        /\ worker'.after = worker.after /\ ~worker'.fresh
  BY <1>0 DEF Worker, ObjectChanged
<1>f. /\ Desired.owner = worker.object.uid
      /\ Desired.spec = worker.object.spec
      /\ Desired.status = worker.resource.status
  BY <1>0 DEF Desired, Resource
<1>g. worker' = Merge(worker, Desired.status) =>
        /\ worker'.step = "status" /\ worker'.after = "done" /\ SameVersion
        /\ worker'.object.merged = worker.resource.status
        /\ worker'.object.reason = MergedReason(worker.resource.status)
  <2> DEFINE st == Desired.status
             o  == [[worker.object EXCEPT !.merged = st] EXCEPT
                      !.reason = MergedReason(st)]
  <2>1. /\ o.version = worker.object.version /\ o.uid = worker.object.uid
        /\ o.spec = worker.object.spec /\ o.merged = st
        /\ o.reason = MergedReason(st)
    BY <1>0 DEF Object
  <2>2. worker' = Merge(worker, st) =>
          /\ worker'.step = "status" /\ worker'.after = "done"
          /\ worker'.object = o /\ worker'.fresh = worker.fresh
    BY <1>0 DEF Merge, Worker
  <2> HIDE DEF st, o
  <2>3. worker' = Merge(worker, st) =>
          /\ worker'.step = "status" /\ worker'.after = "done" /\ SameVersion
          /\ worker'.object.merged = st
          /\ worker'.object.reason = MergedReason(st)
    BY <2>1, <2>2 DEF SameVersion
  <2> QED  BY <1>f, <2>3 DEF st
<1>h. /\ InitialReason = "ready" => worker.object.reason = "ready"
      /\ worker.step # "idle" => InitialReason # "absent"
  BY <1>a DEF InitialReason
<1>1. ASSUME NEW s \in Specs, CreateObject(s) PROVE Creates
  <2> DEFINE v == [uid |-> object.uid + 1, version |-> object.version + 1,
                   spec |-> s, reason |-> "none", merged |-> NoStatus]
  <2>0. object.uid \in Nat /\ object.version \in Nat
    BY <1>0 DEF Object
  <2>1. v \in Object
    BY <2>0 DEF Object, Reasons, Status
  <2>2. /\ v.version = object.version + 1 /\ v.uid = object.uid + 1
        /\ v.uid \in Nat \ {0} /\ v.spec = s /\ v.reason = "none"
    BY <2>0
  <2>3. /\ WriteObject(v) /\ ~Exists
        /\ history' = Append(history, [uid |-> v.uid, spec |-> v.spec])
    BY <1>1 DEF CreateObject
  <2>4. UserWrites(v)
    BY <1>1, <1>e, <2>3 DEF CreateObject, UserWrites, WriteObject
  <2> HIDE DEF v
  <2> QED  BY <2>1, <2>2, <2>3, <2>4 DEF Creates
<1>2. ASSUME NEW s \in Specs, EditObject(s) PROVE Creates
  <2> DEFINE v == [object EXCEPT !.spec = s, !.version = @ + 1]
  <2>0. object.uid \in Nat /\ object.version \in Nat /\ object.uid # 0
    BY <1>0, <1>2 DEF Object, IInv, Safe, HistorySound, IsVersion, EditObject,
                      Exists
  <2>1. PICK n \in Nat : n = object.version + 1
    BY <2>0
  <2>2. /\ v \in Object
        /\ v.version = n /\ v.uid = object.uid /\ v.spec = s
        /\ v.reason = object.reason
    <3>1. v = [object EXCEPT !.spec = s, !.version = n]
      BY <1>0, <2>1 DEF Object
    <3> QED  BY <1>0, <3>1 DEF Object
  <2>3. /\ WriteObject(v) /\ Exists
        /\ history' = Append(history, [uid |-> object.uid, spec |-> s])
    BY <1>2 DEF EditObject
  <2>4. UserWrites(v)
    BY <1>2, <1>e, <2>3 DEF EditObject, UserWrites, WriteObject
  <2> HIDE DEF v
  <2> QED  BY <2>0, <2>1, <2>2, <2>3, <2>4 DEF Creates
<1>3. ASSUME DeleteObject PROVE Deletes
  <2> DEFINE v == [object EXCEPT !.reason = "absent", !.merged = NoStatus]
  <2>1. /\ v \in Object
        /\ v.version = object.version /\ v.uid = object.uid
        /\ v.spec = object.spec /\ v.reason = "absent"
    BY <1>0 DEF Object, Reasons, Status
  <2>2. WriteObject(v) /\ Exists
    BY <1>3 DEF DeleteObject
  <2>3. UserWrites(v) /\ UNCHANGED history
    BY <1>3, <1>e, <2>2 DEF DeleteObject, UserWrites, WriteObject
  <2> HIDE DEF v
  <2> QED  BY <2>1, <2>2, <2>3 DEF Deletes
<1>4. CASE DeleteResource \/ CollectResource \/ ProviderSyncs \/ ProviderFails
  <2>1. /\ Gone.owner = 0
        /\ \A st : LET v == [resource EXCEPT !.status = st] IN
                   v.owner = resource.owner /\ v.spec = resource.spec
    BY <1>0 DEF Gone, Resource
  <2> QED  BY <1>4, <1>d, <2>1
           DEF DeleteResource, CollectResource, ProviderSyncs, ProviderFails,
               WriteResource, Disturbs
<1>5. ASSUME \/ ChangeProvider \/ ReplaceInstance
             \/ (\E g \in Gates : ChangeGate(g)) \/ UNCHANGED vars
      PROVE  Stutter
  BY <1>5 DEF ChangeGate, ChangeProvider, ReplaceInstance, Stutter, vars
<1>6. ASSUME \/ reconcileDevTopologyResource \/ checkCredsRefLabel
             \/ getDBaaSProvider \/ CallFails
      PROVE  Advance \/ GivesUp
  BY <1>6, <1>c DEF reconcileDevTopologyResource, checkCredsRefLabel,
     getDBaaSProvider, CallFails, Return, Advance, GivesUp, Early
<1>7. ASSUME CheckPolicy \/ checkInventory \/ getConnectionSpec
      PROVE  Advance \/ Refuses \/ Objects
  <2>1. CASE CheckPolicy
    BY <1>b, <1>c, <2>1 DEF CheckPolicy, Advance, Refuses, Early
  <2>2. CASE checkInventory
    BY <1>b, <1>c, <2>2 DEF checkInventory, Advance, Refuses, Objects, Early
  <2>3. CASE getConnectionSpec
    <3>1. worker' = [worker EXCEPT !.step = "lookup", !.extra = extra] =>
            /\ worker'.step = "lookup" /\ worker'.object = worker.object
            /\ worker'.fresh = worker.fresh
      BY <1>0 DEF Worker
    <3> QED  BY <1>b, <2>3, <3>1 DEF getConnectionSpec, Advance, Objects, Early
  <2> QED  BY <1>7, <2>1, <2>2, <2>3
<1>8. CASE ReadResource
  <2>1. CASE worker' = [worker EXCEPT !.step = "write", !.resource = resource,
                                      !.current = TRUE]
    <3>1. /\ worker'.step = "write" /\ worker'.object = worker.object
          /\ worker'.fresh = worker.fresh
          /\ worker'.resource = resource /\ worker'.current
      BY <1>0, <2>1 DEF Worker
    <3> QED  BY <1>8, <3>1 DEF ReadResource, Reads
  <2>2. CASE Report("provider not found", "retry")
    <3>1. worker.step = "read" /\ Unmoved
      BY <1>8 DEF ReadResource
    <3>2. /\ worker'.step = "status" /\ worker'.after = "retry" /\ SameVersion
          /\ worker'.object.reason = "provider not found"
      BY <1>b, <2>2
    <3> QED  BY <3>1, <3>2 DEF Objects
  <2> QED  BY <1>8, <2>1, <2>2 DEF ReadResource
<1>11. ASSUME ConversionFails PROVE Reads
  <2>1. /\ worker'.step = "write" /\ worker'.object = worker.object
        /\ worker'.fresh = worker.fresh
        /\ worker'.resource = resource /\ worker'.current
    BY <1>0, <1>11 DEF Worker, ConversionFails
  <2> QED  BY <1>11, <2>1 DEF ConversionFails, Reads
<1>9. CASE CreateOrUpdate
  <2>1. CASE /\ worker.current /\ WriteDesired
             /\ worker' = Merge(worker, Desired.status)
             /\ pushed' = worker.object.version
    <3>1. CASE worker.resource = Desired
      BY <1>9, <1>f, <1>g, <2>1, <3>1 DEF CreateOrUpdate, Pushes, WriteDesired
    <3>2. CASE WriteResource(Desired) /\ worker.current
      BY <1>9, <1>f, <1>g, <2>1, <3>2
      DEF CreateOrUpdate, Pushes, Carries, WriteResource
    <3> QED  BY <2>1, <3>1, <3>2 DEF WriteDesired
  <2>2. CASE \E r \in {InitialReason, "provider error"} :
               Report(r, "retry") /\ UNCHANGED <<resourceVars, pushed>>
    BY <1>9, <1>b, <1>h, <2>2 DEF CreateOrUpdate, Objects
  <2> QED  BY <1>9, <2>1, <2>2 DEF CreateOrUpdate
<1>10. CASE ResourceFails
  <2>1. CASE \E r \in {InitialReason, "provider error"} :
               Report(r, "retry") /\ UNCHANGED <<resourceVars, pushed>>
    <3>1. worker.step \in {"read", "write"} /\ Unmoved
      BY <1>10, <2>1 DEF ResourceFails
    <3>2. PICK r \in {InitialReason, "provider error"} : Report(r, "retry")
      BY <2>1
    <3>3. /\ worker'.step = "status" /\ worker'.after = "retry" /\ SameVersion
          /\ worker'.object.reason = r
      BY <1>b, <3>2
    <3> QED  BY <1>h, <3>1, <3>2, <3>3 DEF Objects
  <2>2. CASE /\ WriteDesired /\ worker.current
             /\ worker.step = "write"
             /\ Report("provider error", "retry")
             /\ pushed' = worker.object.version
    <3>1. CASE worker.resource = Desired
      BY <1>10, <1>b, <1>f, <2>2, <3>1 DEF ResourceFails, Pushes, WriteDesired
    <3>2. CASE WriteResource(Desired)
      BY <1>10, <1>b, <1>f, <2>2, <3>2
      DEF ResourceFails, Pushes, Carries, WriteResource
    <3> QED  BY <2>2, <3>1, <3>2 DEF WriteDesired
  <2> QED  BY <1>10, <2>1, <2>2 DEF ResourceFails
<1> QED
  BY <1>1, <1>2, <1>3, <1>4, <1>5, <1>6, <1>7, <1>8, <1>9, <1>10,
     <1>11
  DEF Next, Reconcile

-----------------------------------------------------------------------------
(* The invariant is kept.                                                  *)

(* The events of the object, with one more or one less.                    *)
LEMMA WatchFacts ==
  ASSUME TypeOK
  PROVE  /\ \A v \in Object :
              LET w == Append(objectWatch, v) IN
              /\ w # <<>> /\ DOMAIN w = 1 .. Len(objectWatch) + 1
              /\ Len(w) = Len(objectWatch) + 1 /\ w[Len(objectWatch) + 1] = v
              /\ \A i \in 1 .. Len(objectWatch) : w[i] = objectWatch[i]
         /\ objectWatch # <<>> =>
              LET w == Tail(objectWatch) IN
              /\ Len(objectWatch) > 0 /\ Head(objectWatch) = objectWatch[1]
              /\ Len(w) = Len(objectWatch) - 1 /\ DOMAIN w = 1 .. Len(w)
              /\ \A i \in 1 .. Len(w) : w[i] = objectWatch[i + 1]
              /\ w = <<>> <=> Len(objectWatch) = 1
         /\ DOMAIN objectWatch = 1 .. Len(objectWatch)
         /\ Len(objectWatch) \in Nat
<1>1. objectWatch \in Seq(Object)
  BY DEF TypeOK
<1>2. ASSUME NEW v \in Object
      PROVE  LET w == Append(objectWatch, v) IN
             /\ w # <<>> /\ DOMAIN w = 1 .. Len(objectWatch) + 1
             /\ Len(w) = Len(objectWatch) + 1 /\ w[Len(objectWatch) + 1] = v
             /\ \A i \in 1 .. Len(objectWatch) : w[i] = objectWatch[i]
  BY <1>1
<1>3. ASSUME objectWatch # <<>>
      PROVE  LET w == Tail(objectWatch) IN
             /\ Len(objectWatch) > 0 /\ Head(objectWatch) = objectWatch[1]
             /\ Len(w) = Len(objectWatch) - 1 /\ DOMAIN w = 1 .. Len(w)
             /\ \A i \in 1 .. Len(w) : w[i] = objectWatch[i + 1]
             /\ w = <<>> <=> Len(objectWatch) = 1
  <2> DEFINE w == Tail(objectWatch)
  <2>1. /\ Len(objectWatch) \in Nat \ {0} /\ Head(objectWatch) = objectWatch[1]
        /\ w \in Seq(Object) /\ Len(w) = Len(objectWatch) - 1
        /\ \A i \in 1 .. Len(w) : w[i] = objectWatch[i + 1]
    BY <1>1, <1>3, HeadTailProperties, EmptySeq
  <2>2. DOMAIN w = 1 .. Len(w) /\ Len(w) \in Nat
    BY <2>1, LenProperties
  <2>3. w = <<>> <=> Len(w) = 0
    BY <2>1, EmptySeq
  <2> HIDE DEF w
  <2>4. w = <<>> <=> Len(objectWatch) = 1
    BY <2>1, <2>2, <2>3
  <2> QED  BY <2>1, <2>2, <2>4 DEF w
<1> QED  BY <1>1, <1>2, <1>3

(* What a new version does to the history.                                 *)
LEMMA HistoryFacts ==
  ASSUME TypeOK, NEW e \in [uid : Nat, spec : Specs],
         history' = Append(history, e)
  PROVE  /\ Len(history) \in Nat /\ Len(history') = Len(history) + 1
         /\ DOMAIN history = 1 .. Len(history)
         /\ DOMAIN history' = 1 .. Len(history) + 1
         /\ history'[Len(history) + 1] = e
         /\ \A i \in 1 .. Len(history) : history'[i] = history[i]
<1>1. history \in Seq([uid : Nat, spec : Specs])
  BY DEF TypeOK
<1> QED  BY <1>1, AppendProperties

(* A step keeps every copy of the object a version of it: WriteObject and  *)
(* the informers pass on whole objects.                                    *)
LEMMA HistoryStep == IInv /\ [Next]_vars => HistorySound'
<1> SUFFICES ASSUME IInv, [Next]_vars PROVE HistorySound'
  OBVIOUS
<1>0. TypeOK /\ HistorySound /\ WorkerFresh
  BY DEF IInv, Safe
<1> USE DEF objectVars, resourceVars, envVars, ghosts, bounds
<1>a. ASSUME UNCHANGED <<objectVars, history>>, IsVersion(worker'.object)
      PROVE  HistorySound'
  BY <1>0, <1>a DEF HistorySound, IsVersion
<1>b. ASSUME UNCHANGED <<objectVars, history>>, worker' = IdleWorker
      PROVE  HistorySound'
  <2>1. Len(history) \in Nat
    BY <1>0 DEF TypeOK
  <2> QED  BY <1>0, <1>b, <2>1 DEF HistorySound, IsVersion, IdleWorker, NoObject
<1>c. ASSUME UNCHANGED <<objectVars, history>>,
             SameVersion \/ UNCHANGED worker \/ worker'.object = worker.object,
             worker.step # "idle" \/ worker'.object = worker.object
      PROVE  HistorySound'
  <2>1. worker.step # "idle" => worker.object.version > 0
    BY <1>0 DEF HistorySound, IsVersion, WorkerFresh
  <2> QED  BY <1>0, <1>c, <2>1 DEF HistorySound, IsVersion, SameVersion
<1>1. CASE Stutter \/ Advance \/ Objects \/ Refuses \/ Reads \/ Pushes \/ Disturbs
  BY <1>1, <1>c DEF Stutter, Advance, Objects, Refuses, Reads, Pushes, Disturbs,
                    Unmoved, Early
<1>2. CASE GivesUp \/ UpdateStatusFails
  BY <1>2, <1>b DEF GivesUp, UpdateStatusFails, Return
<1>3. CASE Creates
  <2>1. PICK v \in Object :
          /\ UserWrites(v)
          /\ v.version = object.version + 1 /\ v.uid \in Nat \ {0}
          /\ history' = Append(history, [uid |-> v.uid, spec |-> v.spec])
    BY <1>3 DEF Creates
  <2>2. [uid |-> v.uid, spec |-> v.spec] \in [uid : Nat, spec : Specs]
    BY <2>1 DEF Object
  <2>3. /\ Len(history) \in Nat /\ Len(history') = Len(history) + 1
        /\ DOMAIN history = 1 .. Len(history)
        /\ DOMAIN history' = 1 .. Len(history) + 1
        /\ history'[Len(history) + 1].uid = v.uid
        /\ history'[Len(history) + 1].spec = v.spec
        /\ \A i \in 1 .. Len(history) : history'[i] = history[i]
    BY <1>0, <2>1, <2>2, HistoryFacts
  <2> DEFINE NewVersion(o) ==
        /\ o.version \in 0 .. Len(history')
        /\ o.reason # "absent" => o.version > 0
        /\ o.version > 0 => /\ o.uid = history'[o.version].uid
                            /\ o.spec = history'[o.version].spec
  <2>4. ASSUME NEW o, IsVersion(o) PROVE NewVersion(o)
    BY <2>3, <2>4 DEF IsVersion
  <2>5. NewVersion(v)
    BY <1>0, <2>1, <2>3 DEF HistorySound
  <2>6. \A i \in DOMAIN objectWatch' : NewVersion(objectWatch'[i])
    <3>1. \A i \in 1 .. Len(objectWatch) : NewVersion(objectWatch[i])
      BY <1>0, <2>4, WatchFacts DEF HistorySound
    <3> HIDE DEF NewVersion
    <3> QED  BY <1>0, <2>1, <2>5, <3>1, WatchFacts DEF UserWrites
  <2>7. /\ NewVersion(object') /\ NewVersion(objectCache')
        /\ NewVersion(worker'.object)
    BY <1>0, <2>1, <2>4, <2>5 DEF UserWrites, HistorySound
  <2>8. object'.version = Len(history') /\ object'.version # 0
    BY <1>0, <2>1, <2>3 DEF UserWrites, HistorySound
  <2>9. \A i \in DOMAIN history' : history'[i].uid > 0
    BY <1>0, <2>1, <2>3 DEF HistorySound
  <2> QED  BY <2>6, <2>7, <2>8, <2>9 DEF HistorySound, IsVersion
<1>4. CASE Deletes
  <2>1. PICK v \in Object :
          /\ UserWrites(v)
          /\ v.version = object.version /\ v.uid = object.uid
          /\ v.spec = object.spec /\ v.reason = "absent"
          /\ UNCHANGED history
    BY <1>4 DEF Deletes
  <2>2. IsVersion(v)
    BY <1>0, <2>1 DEF HistorySound, IsVersion
  <2>3. \A i \in DOMAIN objectWatch' : IsVersion(objectWatch'[i])
    BY <1>0, <2>1, <2>2, WatchFacts DEF UserWrites, HistorySound
  <2> QED  BY <1>0, <2>1, <2>2, <2>3 DEF UserWrites, HistorySound, IsVersion
<1>5. CASE WatchProvider \/ DeliverResource \/ Resync
  BY <1>5, <1>c DEF WatchProvider, DeliverResource, Resync
<1>6. CASE DeliverObject
  <2>1. \A i \in DOMAIN objectWatch' : IsVersion(objectWatch'[i])
    BY <1>0, <1>6, WatchFacts DEF DeliverObject, HistorySound
  <2>2. IsVersion(objectCache')
    BY <1>0, <1>6, WatchFacts DEF DeliverObject, HistorySound
  <2> QED  BY <1>0, <1>6, <2>1, <2>2 DEF DeliverObject, HistorySound, IsVersion
<1>7. CASE GetObject
  <2>1. CASE worker' = IdleWorker
    BY <1>7, <2>1, <1>b DEF GetObject
  <2>2. CASE worker'.object = objectCache
    BY <1>0, <1>7, <2>2, <1>a DEF GetObject, HistorySound
  <2> QED  BY <1>7, <2>1, <2>2 DEF GetObject, IdleWorker
<1>8. CASE UpdateStatus
  <2>1. CASE UNCHANGED objectVars
    BY <1>8, <2>1, <1>b DEF UpdateStatus, Return
  <2>2. CASE WriteObject(worker.object) /\ worker.fresh
    <3>1. worker.object \in Object
      BY <1>0 DEF TypeOK, Worker
    <3>2. worker.object.version = object.version
      BY <1>0, <2>2 DEF WorkerFresh
    <3>3. object' = worker.object /\ objectCache' = objectCache
          /\ objectWatch' = Append(objectWatch, worker.object)
          /\ worker' = IdleWorker /\ history' = history
      BY <1>8, <2>2 DEF WriteObject, UpdateStatus, Return
    <3>4. \A i \in DOMAIN objectWatch' : IsVersion(objectWatch'[i])
      BY <1>0, <3>1, <3>3, WatchFacts DEF HistorySound
    <3>5. object.version = 0 => FALSE
      BY <1>0, <2>2 DEF HistorySound, WorkerFresh, IsVersion, Exists
    <3>6. Len(history) \in Nat
      BY <1>0 DEF TypeOK
    <3> QED  BY <1>0, <3>2, <3>3, <3>4, <3>5, <3>6
             DEF HistorySound, IsVersion, IdleWorker, NoObject
  <2> QED  BY <1>8, <2>1, <2>2 DEF UpdateStatus
<1>9. CASE Restart
  <2>1. Len(history) \in Nat
    BY <1>0 DEF TypeOK
  <2> QED  BY <1>0, <1>9, <2>1 DEF Restart, HistorySound, IsVersion, IdleWorker,
                                   NoObject
<1> QED  BY <1>1, <1>2, <1>3, <1>4, <1>5, <1>6, <1>7, <1>8, <1>9, Moves

(* A step keeps the last pending event equal to the object.                *)
LEMMA CacheStep == IInv /\ [Next]_vars => CacheCoherent'
<1> SUFFICES ASSUME IInv, [Next]_vars PROVE CacheCoherent'
  OBVIOUS
<1>0. TypeOK /\ CacheCoherent
  BY DEF IInv, Safe
<1> USE DEF objectVars, resourceVars, envVars, ghosts, bounds
<1>a. ASSUME UNCHANGED objectVars PROVE CacheCoherent'
  BY <1>0, <1>a DEF CacheCoherent
<1>b. ASSUME NEW v \in Object, object' = v, objectWatch' = Append(objectWatch, v)
      PROVE  CacheCoherent'
  BY <1>0, <1>b, WatchFacts DEF CacheCoherent
<1>1. CASE \/ Stutter \/ Advance \/ Objects \/ Refuses \/ GivesUp \/ Reads
           \/ Pushes \/ Disturbs
           \/ WatchProvider \/ DeliverResource \/ Resync \/ GetObject
           \/ UpdateStatusFails
  BY <1>1, <1>a DEF Stutter, Advance, Objects, Refuses, GivesUp, Reads, Pushes,
     Disturbs, Unmoved, WatchProvider, DeliverResource, Resync, GetObject,
     UpdateStatusFails
<1>2. CASE Creates \/ Deletes
  BY <1>2, <1>b DEF Creates, Deletes, UserWrites
<1>3. CASE DeliverObject
  BY <1>0, <1>3, WatchFacts DEF DeliverObject, CacheCoherent
<1>4. CASE UpdateStatus
  <2>1. worker.object \in Object
    BY <1>0 DEF TypeOK, Worker
  <2> QED  BY <1>4, <1>a, <1>b, <2>1 DEF UpdateStatus, WriteObject
<1>5. CASE Restart
  BY <1>5 DEF Restart, CacheCoherent
<1> QED  BY <1>1, <1>2, <1>3, <1>4, <1>5, Moves

(* A step never lets an older version follow a newer one, neither in the   *)
(* events nor from the worker to the provider.                             *)
LEMMA OrderStep == IInv /\ [Next]_vars => Ordered'
<1> SUFFICES ASSUME IInv, [Next]_vars PROVE Ordered'
  OBVIOUS
<1>0. TypeOK /\ Ordered /\ HistorySound /\ WorkerFresh /\ CacheCoherent
  BY DEF IInv, Safe
<1> USE DEF objectVars, resourceVars, envVars, ghosts, bounds
<1>v. /\ object.version \in Nat /\ objectCache.version \in Nat
      /\ worker.object.version \in Nat /\ pushed \in Nat
      /\ \A i \in 1 .. Len(objectWatch) : objectWatch[i].version \in Nat
      /\ \A i \in 1 .. Len(objectWatch) : objectWatch[i].version <= object.version
      /\ DOMAIN objectWatch = 1 .. Len(objectWatch) /\ Len(objectWatch) \in Nat
  <2>1. /\ object.version \in Nat /\ objectCache.version \in Nat
        /\ worker.object.version \in Nat /\ pushed \in Nat
    BY <1>0 DEF TypeOK, Object, Worker
  <2>2. \A i \in DOMAIN objectWatch : /\ objectWatch[i].version \in Nat
                                      /\ objectWatch[i].version <= object.version
    BY <1>0 DEF HistorySound, IsVersion
  <2> QED  BY <1>0, <2>1, <2>2, WatchFacts
<1>a. ASSUME UNCHANGED <<objectVars, pushed>>,
             worker'.step # "idle" =>
               /\ worker.step # "idle"
               /\ worker'.object.version = worker.object.version
      PROVE  Ordered'
  BY <1>0, <1>a DEF Ordered
<1>b. ASSUME NEW v \in Object, object' = v, v.version >= object.version,
             objectWatch' = Append(objectWatch, v), objectCache' = objectCache,
             pushed' = pushed,
             worker'.step # "idle" =>
               /\ worker.step # "idle"
               /\ worker'.object.version = worker.object.version
      PROVE  Ordered'
  <2>0. v.version \in Nat
    BY DEF Object
  <2>1. \A i \in DOMAIN objectWatch' : objectCache.version <= objectWatch'[i].version
    BY <1>0, <1>b, <1>v, <2>0, WatchFacts DEF Ordered
  <2>2. \A i, j \in DOMAIN objectWatch' :
          i <= j => objectWatch'[i].version <= objectWatch'[j].version
    BY <1>0, <1>b, <1>v, <2>0, WatchFacts DEF Ordered
  <2> QED  BY <1>0, <1>b, <1>v, <2>0, <2>1, <2>2 DEF Ordered
<1>1. CASE Stutter \/ Advance \/ Objects \/ Refuses \/ Reads \/ Disturbs
  BY <1>1, <1>a DEF Stutter, Advance, Objects, Refuses, Reads, Disturbs,
                    Unmoved, Early, SameVersion
<1>2. CASE GivesUp \/ UpdateStatusFails
  BY <1>2, <1>a DEF GivesUp, UpdateStatusFails, Return, IdleWorker
<1>3. CASE WatchProvider \/ DeliverResource \/ Resync
  BY <1>3, <1>a DEF WatchProvider, DeliverResource, Resync
<1>4. CASE Pushes
  <2>1. /\ UNCHANGED objectVars /\ pushed' = worker.object.version
        /\ worker'.object.version = worker.object.version
        /\ worker.step # "idle"
    BY <1>4 DEF Pushes, SameVersion
  <2>2. worker.object.version <= objectCache.version
    BY <1>0, <2>1 DEF Ordered
  <2> QED  BY <1>0, <1>v, <2>1, <2>2 DEF Ordered
<1>5. CASE Creates \/ Deletes
  <2>1. PICK v \in Object :
          /\ UserWrites(v)
          /\ v.version = object.version \/ v.version = object.version + 1
    BY <1>5 DEF Creates, Deletes
  <2>2. v.version >= object.version
    BY <1>v, <2>1
  <2> QED  BY <1>b, <2>1, <2>2 DEF UserWrites
<1>6. CASE DeliverObject
  <2>1. /\ objectCache' = objectWatch[1] /\ Len(objectWatch) > 0
        /\ DOMAIN objectWatch' = 1 .. Len(objectWatch) - 1
        /\ \A i \in 1 .. Len(objectWatch) - 1 : objectWatch'[i] = objectWatch[i + 1]
    BY <1>0, <1>6, WatchFacts DEF DeliverObject
  <2>2. \A i \in DOMAIN objectWatch' :
          objectCache'.version <= objectWatch'[i].version
    <3> TAKE i \in DOMAIN objectWatch'
    <3>1. /\ 1 \in DOMAIN objectWatch /\ i + 1 \in DOMAIN objectWatch
          /\ 1 <= i + 1
      BY <1>v, <2>1
    <3>2. objectWatch[1].version <= objectWatch[i + 1].version
      BY <1>0, <3>1 DEF Ordered
    <3> QED  BY <2>1, <3>2
  <2>3. \A i, j \in DOMAIN objectWatch' :
          i <= j => objectWatch'[i].version <= objectWatch'[j].version
    <3> TAKE i, j \in DOMAIN objectWatch'
    <3>1. /\ i + 1 \in DOMAIN objectWatch /\ j + 1 \in DOMAIN objectWatch
          /\ i <= j => i + 1 <= j + 1
      BY <1>v, <2>1
    <3>2. i <= j => objectWatch[i + 1].version <= objectWatch[j + 1].version
      BY <1>0, <3>1 DEF Ordered
    <3> QED  BY <2>1, <3>2
  <2>4. /\ objectCache.version <= objectCache'.version
        /\ objectCache'.version <= object.version
        /\ objectCache'.version \in Nat
    BY <1>0, <1>v, <2>1 DEF Ordered
  <2> QED  BY <1>0, <1>6, <1>v, <2>2, <2>3, <2>4 DEF Ordered, DeliverObject
<1>7. CASE GetObject
  <2>1. worker'.step # "idle" => worker'.object = objectCache
    BY <1>7 DEF GetObject, IdleWorker
  <2> QED  BY <1>0, <1>7, <1>v, <2>1 DEF GetObject, Ordered
<1>8. CASE UpdateStatus
  <2>1. worker.object \in Object
    BY <1>0 DEF TypeOK, Worker
  <2>2. worker.fresh => worker.object.version = object.version
    BY <1>0 DEF WorkerFresh
  <2>3. worker'.step = "idle"
    BY <1>8 DEF UpdateStatus, Return, IdleWorker
  <2>4. CASE UNCHANGED objectVars
    BY <1>8, <1>a, <2>3, <2>4 DEF UpdateStatus
  <2>5. CASE WriteObject(worker.object) /\ worker.fresh
    <3>1. /\ object' = worker.object /\ objectCache' = objectCache
          /\ objectWatch' = Append(objectWatch, worker.object)
          /\ pushed' = pushed
      BY <1>8, <2>5 DEF UpdateStatus, WriteObject
    <3>2. worker.object.version >= object.version
      BY <1>v, <2>2, <2>5
    <3> QED  BY <1>b, <2>1, <2>3, <3>1, <3>2
  <2> QED  BY <1>8, <2>4, <2>5 DEF UpdateStatus
<1>9. CASE Restart
  BY <1>0, <1>9, <1>v DEF Restart, Ordered, IdleWorker
<1> QED  BY <1>1, <1>2, <1>3, <1>4, <1>5, <1>6, <1>7, <1>8, <1>9, Moves

(* A step that outdates the worker's copy leaves an event behind.          *)
LEMMA FreshStep == IInv /\ [Next]_vars => WorkerFresh'
<1> SUFFICES ASSUME IInv, [Next]_vars PROVE WorkerFresh'
  OBVIOUS
<1>0. TypeOK /\ HistorySound /\ WorkerFresh /\ CacheCoherent
  BY DEF IInv, Safe
<1> USE DEF objectVars, resourceVars, envVars, ghosts, bounds
<1>a. ASSUME worker' = IdleWorker PROVE WorkerFresh'
  BY <1>a DEF IdleWorker, WorkerFresh
<1>1. CASE Stutter \/ Advance \/ Reads \/ Disturbs
  BY <1>0, <1>1 DEF WorkerFresh, Exists, Stutter, Advance, Reads, Disturbs,
                    Unmoved, Early
<1>2. CASE Objects \/ Refuses
  BY <1>0, <1>2 DEF WorkerFresh, Exists, Objects, Refuses, Unmoved, SameVersion
<1>3. CASE Pushes
  <2>1. worker'.object.reason # "absent"
    BY <1>3 DEF Pushes, MergedReason
  <2> QED  BY <1>0, <1>3, <2>1 DEF WorkerFresh, Exists, Pushes, SameVersion
<1>4. CASE GivesUp \/ UpdateStatus \/ UpdateStatusFails \/ Restart
  BY <1>4, <1>a DEF GivesUp, UpdateStatus, UpdateStatusFails, Restart, Return
<1>5. CASE Creates \/ Deletes
  <2>1. PICK v \in Object : UserWrites(v)
    BY <1>5 DEF Creates, Deletes
  <2> QED  BY <1>0, <2>1, WatchFacts DEF WorkerFresh, UserWrites
<1>6. CASE WatchProvider
  BY <1>0, <1>6 DEF WorkerFresh, Exists, WatchProvider
<1>7. CASE DeliverResource \/ Resync
  BY <1>0, <1>7 DEF WorkerFresh, Exists, DeliverResource, Resync
<1>8. CASE DeliverObject
  BY <1>0, <1>8 DEF WorkerFresh, Exists, DeliverObject
<1>9. CASE GetObject
  <2>1. CASE worker' = IdleWorker
    BY <1>a, <2>1
  <2>2. CASE objectCache.reason # "absent"
    <3>1. /\ worker'.object = objectCache
          /\ worker'.step \in {"topology", "check"}
          /\ worker'.fresh = (objectWatch = <<>>)
      BY <1>9, <2>2 DEF GetObject, IdleWorker
    <3> QED  BY <1>0, <1>9, <2>2, <3>1
             DEF GetObject, WorkerFresh, CacheCoherent, Exists
  <2> QED  BY <1>9, <2>1, <2>2 DEF GetObject
<1> QED  BY <1>1, <1>2, <1>3, <1>4, <1>5, <1>6, <1>7, <1>8, <1>9, Moves

(* A step keeps the provider's object at the version last pushed: Disturbs *)
(* never changes it, and Pushes moves both.                                *)
LEMMA ResourceStep == IInv /\ [Next]_vars => ResourceSound'
<1> SUFFICES ASSUME IInv, [Next]_vars PROVE ResourceSound'
  OBVIOUS
<1>0. TypeOK /\ HistorySound /\ WorkerFresh /\ Ordered /\ ResourceSound
  BY DEF IInv, Safe
<1> USE DEF objectVars, resourceVars, envVars, ghosts, bounds
<1>a. ASSUME UNCHANGED <<resource, ghosts>>, worker'.step # "write"
      PROVE  ResourceSound'
  BY <1>0, <1>a DEF ResourceSound
<1>b. ASSUME UNCHANGED <<resource, ghosts>>, worker'.step = worker.step,
             worker'.resource = worker.resource,
             worker'.current = worker.current,
             ~watching \/ resourceEvent \/ queued =>
               \/ ~watching' \/ resourceEvent' \/ queued'
               \/ resource.owner = 0
      PROVE  ResourceSound'
  BY <1>0, <1>b DEF ResourceSound
<1>1. CASE Advance \/ Objects \/ Refuses
  BY <1>1, <1>a DEF Advance, Objects, Refuses, Unmoved, Early
<1>2. CASE GivesUp \/ UpdateStatus \/ UpdateStatusFails \/ Restart
  BY <1>2, <1>a DEF GivesUp, UpdateStatus, UpdateStatusFails, Restart, Return,
                    IdleWorker
<1>3. CASE Stutter \/ WatchProvider \/ DeliverObject \/ DeliverResource \/ Resync
  BY <1>0, <1>3, <1>b DEF Stutter, Unmoved, WatchProvider, DeliverObject,
                          DeliverResource, Resync, TypeOK
<1>4. CASE GetObject
  BY <1>4, <1>a DEF GetObject, IdleWorker
<1>5. CASE Reads
  BY <1>0, <1>5 DEF Reads, Unmoved, ResourceSound
<1>6. CASE Pushes
  <2>1. /\ worker.object.version > 0
        /\ worker.object.uid = history[worker.object.version].uid
        /\ worker.object.spec = history[worker.object.version].spec
    BY <1>0, <1>6 DEF Pushes, HistorySound, IsVersion, WorkerFresh
  <2>2. /\ pushed' = worker.object.version /\ history' = history
        /\ worker'.step = "status" /\ worker.step = "write"
    BY <1>6 DEF Pushes
  <2>3. resource'.owner # 0 => /\ resource'.owner = worker.object.uid
                               /\ resource'.spec = worker.object.spec
    <3>1. CASE Carries
      BY <3>1 DEF Carries
    <3>2. CASE /\ worker.resource.owner = worker.object.uid
               /\ worker.resource.spec = worker.object.spec
               /\ resource' = resource
      BY <1>0, <2>2, <3>2 DEF ResourceSound
    <3> QED  BY <1>6, <3>1, <3>2 DEF Pushes
  <2> QED  BY <2>1, <2>2, <2>3 DEF ResourceSound
<1>7. CASE Disturbs
  BY <1>0, <1>7 DEF Disturbs, ResourceSound, TypeOK
<1>8. CASE Creates \/ Deletes
  <2>1. PICK v \in Object : UserWrites(v)
    BY <1>8 DEF Creates, Deletes
  <2>2. pushed > 0 => history'[pushed] = history[pushed]
    <3>1. CASE Deletes
      BY <3>1 DEF Deletes
    <3>2. CASE Creates
      <4>1. PICK u \in Object :
              history' = Append(history, [uid |-> u.uid, spec |-> u.spec])
        BY <3>2 DEF Creates
      <4>2. [uid |-> u.uid, spec |-> u.spec] \in [uid : Nat, spec : Specs]
        BY DEF Object
      <4>3. \A i \in 1 .. Len(history) : history'[i] = history[i]
        BY <1>0, <4>1, <4>2, HistoryFacts
      <4> QED  BY <1>0, <4>3 DEF TypeOK
    <3> QED  BY <1>8, <3>1, <3>2
  <2> QED  BY <1>0, <2>1, <2>2 DEF UserWrites, ResourceSound
<1> QED  BY <1>1, <1>2, <1>3, <1>4, <1>5, <1>6, <1>7, <1>8, Moves

(* A step keeps what the worker is about to report true of the version it  *)
(* holds.                                                                  *)
LEMMA ReportStep == IInv /\ [Next]_vars => ReportSound'
<1> SUFFICES ASSUME IInv, [Next]_vars PROVE ReportSound'
  OBVIOUS
<1>0. TypeOK /\ HistorySound /\ WorkerFresh /\ Ordered /\ ResourceSound /\ ReportSound
  BY DEF IInv, Safe
<1> USE DEF objectVars, resourceVars, envVars, ghosts, bounds
<1>a. ASSUME worker'.step # "status" PROVE ReportSound'
  BY <1>a DEF ReportSound
<1>b. ASSUME UNCHANGED <<object, pushed>>, worker'.step = worker.step,
             worker'.object = worker.object, worker'.fresh = worker.fresh,
             worker'.after = worker.after,
             ShowsStatus(worker.object) => ShowsStatus(worker.object)'
      PROVE  ReportSound'
  BY <1>0, <1>b DEF ReportSound, ShowsStatus
<1>1. CASE Advance \/ Reads
  BY <1>1, <1>a DEF Advance, Reads, Early
<1>2. CASE GivesUp \/ UpdateStatus \/ UpdateStatusFails \/ Restart
  <2>1. worker' = IdleWorker
    BY <1>2 DEF GivesUp, UpdateStatus, UpdateStatusFails, Restart, Return
  <2> QED  BY <1>a, <2>1 DEF IdleWorker
<1>9. CASE GetObject
  <2>1. CASE objectCache.reason = "absent"
    BY <1>a, <1>9, <2>1 DEF GetObject, IdleWorker
  <2>2. CASE objectCache.reason # "absent"
    BY <1>a, <1>9, <2>2 DEF GetObject, IdleWorker
  <2> QED  BY <2>1, <2>2
<1>3. CASE Stutter \/ WatchProvider \/ DeliverObject \/ DeliverResource \/ Resync
  BY <1>0, <1>3, <1>b DEF Stutter, Unmoved, WatchProvider, DeliverObject,
                          DeliverResource, Resync, ShowsStatus, TypeOK
<1>4. CASE Disturbs
  BY <1>0, <1>4, <1>b DEF Disturbs, ShowsStatus, TypeOK
<1>5. CASE Objects
  <2>1. worker.fresh => worker.object = object
    BY <1>0, <1>5 DEF Objects, WorkerFresh
  <2> QED  BY <1>5, <2>1 DEF Objects, SameVersion, Unmoved, ReportSound
<1>6. CASE Refuses
  BY <1>6 DEF Refuses, ReportSound
<1>7. CASE Pushes
  <2>1. /\ pushed' = worker'.object.version /\ worker'.after # "quiet"
        /\ watching' = watching /\ queued' = queued
    BY <1>7 DEF Pushes, SameVersion
  <2>2. ASSUME worker'.after = "done" PROVE ShowsStatus(worker.object)'
    <3>1. /\ worker'.object.merged = worker.resource.status
          /\ worker'.object.reason = MergedReason(worker.resource.status)
      BY <1>7, <2>2 DEF Pushes
    <3>2. resource'.owner # 0 /\ watching /\ ~resourceEvent' /\ ~queued =>
            resource'.status = worker.resource.status
      <4>1. CASE Carries
        BY <4>1 DEF Carries
      <4>2. CASE UNCHANGED resourceVars
        BY <1>0, <1>7, <4>2 DEF Pushes, ResourceSound
      <4> QED  BY <1>7, <4>1, <4>2 DEF Pushes
    <3> QED  BY <2>1, <3>1, <3>2 DEF ShowsStatus, MergedReason
  <2> QED  BY <2>1, <2>2 DEF ReportSound
<1>8. CASE Creates \/ Deletes
  <2>1. PICK v \in Object : UserWrites(v)
    BY <1>8 DEF Creates, Deletes
  <2> QED  BY <1>0, <2>1 DEF UserWrites, ReportSound
<1> QED  BY <1>1, <1>2, <1>3, <1>4, <1>5, <1>6, <1>7, <1>8, <1>9, Moves

(* A step that leaves nothing to do leaves the latest version pushed.      *)
LEMMA IdleStep == IInv /\ [Next]_vars => IdleSound'
<1> SUFFICES ASSUME IInv, [Next]_vars PROVE IdleSound'
  OBVIOUS
<1>0. /\ TypeOK /\ HistorySound /\ CacheCoherent /\ WorkerFresh
      /\ ResourceSound /\ ReportSound /\ IdleSound
  BY DEF IInv, Safe
<1> USE DEF objectVars, resourceVars, envVars, ghosts, bounds
<1>a. ASSUME \/ worker'.step # "idle" \/ queued' \/ objectWatch' # <<>>
             \/ dropped' \/ ~Exists'
      PROVE  IdleSound'
  BY <1>a DEF IdleSound
<1>b. ASSUME UNCHANGED <<objectVars, pushed, queued, dropped>>,
             worker'.step = worker.step,
             ShowsStatus(object) => ShowsStatus(object)'
      PROVE  IdleSound'
  BY <1>0, <1>b DEF IdleSound, Exists
<1>1. CASE Advance \/ Objects \/ Refuses \/ GivesUp \/ Reads \/ Pushes
  BY <1>1, <1>a DEF Advance, Objects, Refuses, GivesUp, Reads, Pushes, Early
<1>2. CASE Creates \/ Deletes
  <2>1. PICK v \in Object : UserWrites(v)
    BY <1>2 DEF Creates, Deletes
  <2> QED  BY <1>0, <1>a, <2>1, WatchFacts DEF UserWrites
<1>3. CASE DeliverObject \/ DeliverResource \/ Resync
  BY <1>3, <1>a DEF DeliverObject, DeliverResource, Resync
<1>4. CASE Stutter \/ Disturbs
  BY <1>0, <1>4, <1>b DEF Stutter, Disturbs, Unmoved, ShowsStatus, TypeOK
<1>5. CASE WatchProvider
  BY <1>0, <1>5, <1>b DEF WatchProvider, ShowsStatus, TypeOK
<1>6. CASE GetObject
  <2>1. CASE objectCache.reason = "absent"
    BY <1>0, <1>6, <1>a, <2>1 DEF GetObject, CacheCoherent, Exists
  <2>2. CASE objectCache.reason # "absent"
    BY <1>6, <1>a, <2>2 DEF GetObject, IdleWorker
  <2> QED  BY <2>1, <2>2
<1>7. CASE UpdateStatus
  <2>1. CASE ~worker.fresh
    <3>1. objectWatch # <<>> \/ queued
      BY <1>0, <1>7, <2>1 DEF UpdateStatus, WorkerFresh
    <3> QED  BY <1>7, <1>a, <2>1, <3>1 DEF UpdateStatus, Return
  <2>2. CASE worker.fresh /\ worker.after = "retry"
    BY <1>7, <1>a, <2>2 DEF UpdateStatus, Return
  <2>3. CASE worker.fresh /\ worker.object # object
    <3>1. objectWatch' = Append(objectWatch, worker.object)
      BY <1>7, <2>3 DEF UpdateStatus, WriteObject
    <3>2. worker.object \in Object
      BY <1>0 DEF TypeOK, Worker
    <3> QED  BY <1>0, <1>a, <3>1, <3>2, WatchFacts
  <2>4. CASE worker.fresh /\ worker.after # "retry" /\ worker.object = object
    <3>1. /\ UNCHANGED <<objectVars, resourceVars, watching, pushed, dropped>>
          /\ queued' = queued
      BY <1>0, <1>7, <2>4 DEF UpdateStatus, Return, TypeOK
    <3>2. worker.object.reason # "refused" => worker.after = "done"
      BY <1>0, <1>7, <2>4 DEF UpdateStatus, ReportSound, TypeOK, Worker
    <3>3. object.reason # "refused" => /\ pushed = object.version
                                       /\ ShowsStatus(object)
      BY <1>0, <1>7, <2>4, <3>2 DEF UpdateStatus, ReportSound
    <3> QED  BY <3>1, <3>3 DEF IdleSound, ShowsStatus
  <2> QED  BY <2>1, <2>2, <2>3, <2>4
<1>8. CASE UpdateStatusFails
  BY <1>8, <1>a DEF UpdateStatusFails, Return
<1>9. CASE Restart
  <2>1. queued' = Exists /\ Exists' = Exists
    BY <1>9 DEF Restart, Exists
  <2> QED  BY <1>a, <2>1
<1> QED  BY <1>1, <1>2, <1>3, <1>4, <1>5, <1>6, <1>7, <1>8, <1>9, Moves

-----------------------------------------------------------------------------
(* The theorems.                                                           *)

(* A process that comes up finds nothing, or one version that is served.   *)
LEMMA InitSafe == Init => IInv
<1> SUFFICES ASSUME Init PROVE IInv
  OBVIOUS
<1> USE DEF Init
<1>1. /\ NoObject \in Object /\ Settled \in Object /\ Gone \in Resource
      /\ IdleWorker \in Worker
  BY EmptyTypes
<1>2. /\ worker.step = "idle" /\ ~worker.fresh /\ worker.object.version = 0
      /\ worker.object.reason = "absent"
  BY DEF IdleWorker, NoObject
<1>a. /\ objectCache = object /\ objectWatch \in Seq(Object)
      /\ resourceEvent \in BOOLEAN /\ watching \in BOOLEAN
      /\ provider \in BOOLEAN /\ gate \in Gates /\ queued \in BOOLEAN
      /\ worker \in Worker /\ dropped \in BOOLEAN /\ extra \in Extras
      /\ ops \in 0 .. MaxOps /\ faults \in 0 .. MaxFaults
  <2>1. MaxOps \in Nat /\ MaxFaults \in Nat
    BY ProviderResourceAssumption
  <2>2. ops \in 0 .. MaxOps /\ faults \in 0 .. MaxFaults
    BY <2>1
  <2>3. /\ objectCache = object /\ objectWatch \in Seq(Object)
        /\ gate \in Gates /\ worker \in Worker
    BY <1>1
  <2>4. queued \in BOOLEAN
    BY DEF Exists
  <2>5. extra \in Extras
    BY DEF Extras
  <2> QED  BY <2>2, <2>3, <2>4, <2>5
<1>3. CASE object = NoObject /\ resource = Gone /\ history = <<>>
  <2>1. /\ object.version = 0 /\ object.uid = 0 /\ object.reason = "absent"
        /\ resource.owner = 0 /\ Len(history) = 0 /\ DOMAIN history = {}
    BY <1>3 DEF NoObject, Gone
  <2>2. TypeOK
    <3>1. history \in Seq([uid : Nat, spec : Specs])
      BY <1>3
    <3> HIDE DEF Init
    <3>2. object \in Object /\ resource \in Resource
      BY <1>1, <1>3
    <3>3. pushed = 0
      BY <2>1 DEF Init
    <3> QED  BY <1>a, <2>1, <3>1, <3>2, <3>3 DEF TypeOK
  <2>3. IsVersion(object) /\ IsVersion(objectCache) /\ IsVersion(worker.object)
    BY <1>2, <2>1 DEF IsVersion
  <2>4. HistorySound /\ CacheCoherent /\ Ordered
    BY <1>2, <2>1, <2>3 DEF HistorySound, CacheCoherent, Ordered
  <2>5. WorkerFresh /\ ResourceSound /\ ReportSound /\ IdleSound
    BY <1>2, <2>1 DEF WorkerFresh, ResourceSound, ReportSound, IdleSound, Exists
  <2> QED  BY <2>2, <2>4, <2>5 DEF IInv, Safe
<1>4. CASE /\ object = Settled
           /\ resource = [owner |-> 1, spec |-> object.spec, extra |-> "first",
                           status |-> object.merged]
           /\ history = <<[uid |-> 1, spec |-> object.spec]>>
  <2>1. /\ object.version = 1 /\ object.uid = 1 /\ object.reason = "ready"
        /\ object.spec \in Specs /\ object.merged \in Status
    BY <1>1, <1>4 DEF Settled, Object
  <2>2. /\ resource.owner = 1 /\ resource.spec = object.spec
        /\ resource \in Resource
    BY <1>4, <2>1 DEF Resource, Extras
  <2>3. /\ Len(history) = 1 /\ DOMAIN history = {1}
        /\ history[1].uid = 1 /\ history[1].spec = object.spec
        /\ history \in Seq([uid : Nat, spec : Specs])
    BY <1>4, <2>1
  <2>4. TypeOK
    <3>1. object \in Object /\ pushed = 1
      BY <1>1, <1>4, <2>3
    <3> HIDE DEF Init
    <3> QED  BY <1>a, <2>2, <2>3, <3>1 DEF TypeOK
  <2>5. IsVersion(object) /\ IsVersion(objectCache) /\ IsVersion(worker.object)
    BY <1>2, <2>1, <2>3 DEF IsVersion
  <2>6. HistorySound /\ CacheCoherent /\ Ordered
    BY <1>2, <2>1, <2>3, <2>5 DEF HistorySound, CacheCoherent, Ordered
  <2>7. WorkerFresh /\ ResourceSound /\ ReportSound /\ IdleSound
    <3>1. /\ pushed = 1 /\ ~watching /\ queued
      BY <2>1, <2>3 DEF Exists
    <3> HIDE DEF Init
    <3> QED  BY <1>2, <2>1, <2>2, <2>3, <3>1
             DEF WorkerFresh, ResourceSound, ReportSound, IdleSound
  <2> QED  BY <2>4, <2>6, <2>7 DEF IInv, Safe
<1> QED  BY <1>3, <1>4

(* The inductive invariant holds of the controllers.                       *)
THEOREM Invariance == Spec => []IInv
<1>1. IInv /\ [Next]_vars => IInv'
  BY TypeStep, HistoryStep, CacheStep, OrderStep, FreshStep, ResourceStep,
     ReportStep, IdleStep DEF IInv, Safe
<1> QED  BY <1>1, InitSafe, PTL DEF Spec

(* Every variable keeps its type.                                          *)
THEOREM TypeCorrect == Spec => []TypeOK
<1>1. IInv => TypeOK
  BY DEF IInv
<1> QED  BY <1>1, Invariance, PTL

(* A controller at rest has given the provider the spec the object has,    *)
(* and made this incarnation of the object its owner: CreateOrUpdate with  *)
(* providerObjectMutateFn, whatever happened on the way.                   *)
THEOREM SpecMirrored == Spec => []SpecMirroredWhenIdle
<1>1. IInv => SpecMirroredWhenIdle
  <2> SUFFICES ASSUME IInv, Idle, Exists, ~dropped, object.reason # "refused",
                      resource.owner # 0
               PROVE  resource.owner = object.uid /\ resource.spec = object.spec
    BY DEF SpecMirroredWhenIdle
  <2>1. pushed = object.version
    BY DEF IInv, Safe, IdleSound, Idle
  <2> QED  BY <2>1 DEF IInv, Safe, ResourceSound, HistorySound, IsVersion
<1> QED  BY <1>1, Invariance, PTL

(* ... and, while it watches the provider's kind, it shows the provider's  *)
(* last status: no event is lost between a status and its merge.           *)
THEOREM StatusMirrored == Spec => []StatusMirroredWhenIdle
<1>1. IInv => StatusMirroredWhenIdle
  BY DEF IInv, Safe, IdleSound, Idle, ShowsStatus, StatusMirroredWhenIdle
<1> QED  BY <1>1, Invariance, PTL

(* Only a status write of the worker can make an object ready, and it is   *)
(* one for the version last given to the provider.                         *)
LEMMA ReadyStep ==
  ASSUME IInv, [Next]_vars, object.reason # "ready", object'.reason = "ready"
  PROVE  /\ UpdateStatus /\ object' = worker.object
         /\ worker.object.version = Len(history) /\ pushed = Len(history)
<1> USE DEF objectVars, resourceVars, envVars, ghosts, bounds
<1>1. UpdateStatus
  <2>1. CASE \/ Stutter \/ Advance \/ Objects \/ Refuses \/ GivesUp \/ Reads
             \/ Pushes \/ Disturbs \/ UpdateStatusFails \/ Restart
    BY <2>1 DEF Stutter, Advance, Objects, Refuses, GivesUp, Reads, Pushes,
                Disturbs, UpdateStatusFails, Restart, Unmoved
  <2>2. CASE \/ WatchProvider \/ DeliverObject \/ DeliverResource \/ Resync
             \/ GetObject
    BY <2>2 DEF WatchProvider, DeliverObject, DeliverResource, Resync, GetObject
  <2>3. CASE Creates
    BY <2>3 DEF Creates, UserWrites
  <2>4. CASE Deletes
    BY <2>4 DEF Deletes, UserWrites
  <2> QED  BY <2>1, <2>2, <2>3, <2>4, Moves
<1>2. worker.step = "status" /\ worker.fresh /\ object' = worker.object
  BY <1>1 DEF UpdateStatus, WriteObject
<1> QED
  BY <1>1, <1>2
  DEF IInv, Safe, HistorySound, WorkerFresh, ReportSound

(* A status write makes an object ready only while the provider's object,  *)
(* if still there, carries the spec the object has at that moment.         *)
THEOREM ReadyCorrect == Spec => ReadyForOwnSpec
<1>1. IInv /\ [Next]_vars =>
        [object.reason # "ready" /\ object'.reason = "ready" =>
           resource.owner = 0 \/ resource.spec = object'.spec]_vars
  <2> SUFFICES ASSUME IInv, [Next]_vars, object.reason # "ready",
                      object'.reason = "ready", resource.owner # 0
               PROVE  resource.spec = object'.spec
    OBVIOUS
  <2>1. object' = worker.object /\ pushed = worker.object.version
    BY ReadyStep
  <2> QED  BY <2>1 DEF IInv, Safe, ResourceSound, HistorySound, IsVersion
<1> QED  BY <1>1, Invariance, PTL DEF Spec, ReadyForOwnSpec

-----------------------------------------------------------------------------
(* The refinement.                                                         *)

(* Every version in the history has a uid and a spec.                      *)
LEMMA VersionType ==
  ASSUME history \in Seq([uid : Nat, spec : Specs]), NEW i \in DOMAIN history
  PROVE  history[i] \in [uid : Nat, spec : Specs]
<1> DEFINE V == [uid : Nat, spec : Specs]
<1>1. history \in Seq(V) /\ i \in 1 .. Len(history)
  OBVIOUS
<1> HIDE DEF V
<1>2. history[i] \in V
  BY <1>1, ElementOfSeq
<1> QED  BY <1>2 DEF V

(* What Mirror sees of the state, in terms of IInv.                        *)
LEMMA MirrorState ==
  ASSUME IInv
  PROVE  /\ history \in Seq([uid : Nat, spec : Specs])
         /\ pushed \in 0 .. Len(history)
         /\ history = <<>> => object.uid = 0
         /\ history # <<>> => history[Len(history)].uid = object.uid
         /\ Exists => history # <<>>
<1>1. /\ TypeOK /\ object.version = Len(history)
      /\ object.version = 0 => object.uid = 0
      /\ IsVersion(object)
  BY DEF IInv, Safe, HistorySound
<1>2. history \in Seq([uid : Nat, spec : Specs]) /\ pushed \in 0 .. Len(history)
  BY <1>1 DEF TypeOK
<1>3. Len(history) = 0 <=> history = <<>>
  BY <1>2, EmptySeq
<1>4. Len(history) \in Nat
  BY <1>2
<1>5. /\ history # <<>> => history[Len(history)].uid = object.uid
      /\ Exists => history # <<>>
  BY <1>1, <1>3, <1>4 DEF IsVersion, Exists
<1> QED  BY <1>1, <1>2, <1>3, <1>5

(* The user's new version is one that Mirror creates or edits.             *)
LEMMA MirrorCreates == IInv /\ Creates => M!Next
<1> SUFFICES ASSUME IInv, Creates PROVE M!Next
  OBVIOUS
<1>0. /\ history \in Seq([uid : Nat, spec : Specs])
      /\ history = <<>> => object.uid = 0
      /\ history # <<>> => history[Len(history)].uid = object.uid
      /\ Exists => history # <<>>
  BY MirrorState
<1>1. PICK v \in Object :
        /\ UserWrites(v)
        /\ \/ ~Exists /\ v.uid = object.uid + 1 /\ v.reason = "none"
           \/ Exists /\ v.uid = object.uid /\ v.reason = object.reason
        /\ history' = Append(history, [uid |-> v.uid, spec |-> v.spec])
  BY DEF Creates
<1>2. v.spec \in Specs /\ object' = v /\ Carried' = Carried /\ pushed' = pushed
  BY <1>1 DEF UserWrites, Object, Carried, resourceVars
<1>3. CASE ~Exists /\ v.uid = object.uid + 1 /\ v.reason = "none"
  <2>1. /\ object.reason = "absent" /\ Exists'
        /\ (object.reason = "ready")' = (object.reason = "ready")
    BY <1>2, <1>3 DEF Exists
  <2>2. v.uid = IF history = <<>> THEN 1 ELSE history[Len(history)].uid + 1
    BY <1>0, <1>3
  <2>3. M!Create(v.spec)
    BY <1>1, <1>2, <1>3, <2>1, <2>2 DEF M!Create
  <2> QED  BY <1>2, <2>3 DEF M!Next
<1>4. CASE Exists /\ v.uid = object.uid /\ v.reason = object.reason
  <2>1. /\ Exists' = Exists
        /\ (object.reason = "ready")' = (object.reason = "ready")
    BY <1>2, <1>4 DEF Exists
  <2>2. [history[Len(history)] EXCEPT !.spec = v.spec]
          = [uid |-> v.uid, spec |-> v.spec]
    <3>1. history[Len(history)] \in [uid : Nat, spec : Specs]
      <4>1. history # <<>>
        BY <1>0, <1>4
      <4>2. Len(history) \in DOMAIN history
        BY <1>0, <4>1
      <4> QED  BY <1>0, <4>2, VersionType
    <3> QED  BY <1>0, <1>4, <3>1
  <2>3. M!Edit(v.spec)
    BY <1>1, <1>2, <1>4, <2>1, <2>2 DEF M!Edit
  <2> QED  BY <1>2, <2>3 DEF M!Next
<1> QED  BY <1>1, <1>3, <1>4

(* What the worker writes is a version no older than the one before, and   *)
(* what it finds in place is that version or nothing.                      *)
LEMMA MirrorPushes == IInv /\ Pushes => M!Next
<1> SUFFICES ASSUME IInv, Pushes PROVE M!Next
  OBVIOUS
<1> DEFINE v == worker.object.version
<1>0. /\ TypeOK /\ HistorySound /\ Ordered /\ WorkerFresh /\ ResourceSound
  BY DEF IInv, Safe
<1>1. /\ worker.step = "write" /\ pushed' = v /\ UNCHANGED <<object, history>>
  BY DEF Pushes, objectVars
<1>2. /\ v \in pushed .. Len(history) /\ v > 0 /\ v \in DOMAIN history
      /\ worker.object.uid = history[v].uid
      /\ worker.object.spec = history[v].spec
      /\ history[v].uid > 0
      /\ history[v] \in [uid : Nat, spec : Specs]
  <2>1. /\ IsVersion(worker.object) /\ worker.object.reason # "absent"
        /\ pushed <= v /\ v \in 0 .. Len(history) /\ v > 0
    BY <1>0, <1>1 DEF HistorySound, Ordered, WorkerFresh, IsVersion
  <2>2. /\ history \in Seq([uid : Nat, spec : Specs])
        /\ pushed \in 0 .. Len(history)
    BY <1>0 DEF TypeOK
  <2>3. v \in pushed .. Len(history) /\ v \in DOMAIN history
    BY <2>1, <2>2
  <2>4. history[v] \in [uid : Nat, spec : Specs]
    BY <2>2, <2>3, VersionType
  <2>5. history[v].uid > 0
    BY <1>0, <2>3 DEF HistorySound
  <2> QED  BY <2>1, <2>3, <2>4, <2>5 DEF IsVersion
<1>3. history[v] = [uid |-> worker.object.uid, spec |-> worker.object.spec]
  BY <1>2
<1>4. /\ Exists' = Exists
      /\ (object.reason = "ready")' = (object.reason = "ready")
  BY <1>1 DEF Exists
<1> HIDE DEF v
<1>5. CASE Carries
  <2>1. Carried' = <<history[v]>>
    BY <1>2, <1>3, <1>5 DEF Carries, Carried
  <2>2. M!Push(v)
    BY <1>1, <1>2, <1>4, <2>1 DEF M!Push
  <2> QED  BY <1>2, <2>2 DEF M!Next
<1>6. CASE /\ worker.resource.owner = worker.object.uid
           /\ worker.resource.spec = worker.object.spec
           /\ UNCHANGED resourceVars
  <2>1. Carried \in {<<>>, <<history[v]>>} /\ Carried' = Carried
    BY <1>0, <1>1, <1>3, <1>6 DEF Carried, ResourceSound, resourceVars
  <2>2. M!Confirm(v)
    BY <1>1, <1>2, <1>4, <2>1 DEF M!Confirm
  <2> QED  BY <1>2, <2>2 DEF M!Next
<1> QED  BY <1>5, <1>6 DEF Pushes

(* A status write reports that the latest version is served, or that       *)
(* something else is the case, or changes nothing.                         *)
LEMMA MirrorReports == IInv /\ UpdateStatus => [M!Next]_M!vars
<1> SUFFICES ASSUME IInv, UpdateStatus PROVE [M!Next]_M!vars
  OBVIOUS
<1> USE DEF objectVars, resourceVars, envVars, ghosts
<1>0. /\ HistorySound /\ WorkerFresh /\ ReportSound
  BY DEF IInv, Safe
<1>1. UNCHANGED <<history, pushed, Carried>> /\ worker.step = "status"
  BY DEF UpdateStatus, Carried
<1>2. CASE UNCHANGED object
  BY <1>1, <1>2 DEF M!vars, Exists
<1>3. CASE object' = worker.object /\ worker.fresh
  <2> DEFINE b == worker.object.reason = "ready"
  <2>1. /\ Exists /\ Exists' /\ (object.reason = "ready")' = b
    BY <1>0, <1>1, <1>3 DEF WorkerFresh, Exists
  <2>2. b => object.reason = "ready" \/ pushed = Len(history)
    BY <1>0, <1>1, <1>3 DEF ReportSound, HistorySound, WorkerFresh
  <2>3. CASE b => pushed = Len(history)
    <3>1. M!Report(b)
      BY <1>1, <2>1, <2>3 DEF M!Report
    <3>2. b \in BOOLEAN
      OBVIOUS
    <3> QED  BY <3>1, <3>2 DEF M!Next
  <2>4. CASE b /\ object.reason = "ready"
    BY <1>1, <2>1, <2>4 DEF M!vars
  <2> QED  BY <2>2, <2>3, <2>4
<1> QED  BY <1>2, <1>3 DEF UpdateStatus, WriteObject

(* The controllers implement Mirror: what reconcileProviderResource gives  *)
(* the provider is uid and spec of one version of the object, never of an  *)
(* older one than before, and an object turns ready for its latest version *)
(* only.                                                                   *)
THEOREM Refinement == Spec => ImplementsMirror
<1>1. Init => M!Init
  <2> SUFFICES ASSUME Init PROVE M!Init
    OBVIOUS
  <2>1. CASE object = NoObject /\ resource = Gone /\ history = <<>>
    BY <2>1 DEF Init, M!Init, NoObject, Gone, Carried, Exists
  <2>2. CASE /\ object = Settled
             /\ resource = [owner |-> 1, spec |-> object.spec, extra |-> "first",
                           status |-> object.merged]
             /\ history = <<[uid |-> 1, spec |-> object.spec]>>
    <3>1. /\ object.reason = "ready" /\ object.spec \in Specs
          /\ resource.owner = 1 /\ resource.spec = object.spec
      BY <2>2, EmptyTypes DEF Settled, Object
    <3>2. history # <<>> /\ Carried = history
      BY <2>2, <3>1 DEF Carried
    <3> QED  BY <2>2, <3>1, <3>2 DEF Init, M!Init, Exists
  <2> QED  BY <2>1, <2>2 DEF Init
<1>2. IInv /\ [Next]_vars => [M!Next]_M!vars
  <2> SUFFICES ASSUME IInv, [Next]_vars PROVE [M!Next]_M!vars
    OBVIOUS
  <2> USE DEF objectVars, resourceVars, envVars, ghosts, bounds
  <2>1. ASSUME UNCHANGED <<object, resource, history, pushed>>
        PROVE  UNCHANGED M!vars
    BY <2>1 DEF M!vars, Exists, Carried
  <2>2. CASE \/ Stutter \/ Advance \/ Objects \/ Refuses \/ GivesUp \/ Reads
             \/ UpdateStatusFails \/ Restart
    BY <2>1, <2>2 DEF Stutter, Advance, Objects, Refuses, GivesUp, Reads,
                      UpdateStatusFails, Restart, Unmoved
  <2>3. CASE \/ WatchProvider \/ DeliverObject \/ DeliverResource \/ Resync
             \/ GetObject
    BY <2>1, <2>3 DEF WatchProvider, DeliverObject, DeliverResource, Resync,
                      GetObject
  <2>4. CASE Disturbs
    <3>1. UNCHANGED <<object, history, pushed>>
      BY <2>4 DEF Disturbs
    <3>2. Carried' = Carried \/ Carried' = <<>>
      BY <2>4 DEF Disturbs, Carried
    <3> QED  BY <3>1, <3>2 DEF M!vars, M!Next, M!Remove, Exists
  <2>5. CASE Deletes
    <3>1. /\ Exists /\ ~Exists' /\ ~(object.reason = "ready")'
          /\ UNCHANGED <<history, pushed, Carried>>
      BY <2>5 DEF Deletes, UserWrites, Exists, Carried
    <3> QED  BY <3>1 DEF M!Next, M!Delete
  <2> QED  BY <2>2, <2>3, <2>4, <2>5, MirrorCreates, MirrorPushes,
              MirrorReports, Moves
<1> QED  BY <1>1, <1>2, Invariance, PTL DEF Spec, M!Spec, ImplementsMirror
=============================================================================
