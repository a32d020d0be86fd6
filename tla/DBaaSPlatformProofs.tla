------------------------- MODULE DBaaSPlatformProofs -------------------------
(***************************************************************************)
(* Proofs about the DBaaSPlatform controller, for any set of platforms of  *)
(* the four kinds and any number of faults and losses: a status that says  *)
(* PlatformReady reports every platform as successful, and is right to as  *)
(* long as nothing was lost.                                               *)
(***************************************************************************)
EXTENDS DBaaSPlatform, SequenceTheorems, TLAPS

(* A status that claims to be ready reports, and has been right to report  *)
(* as long as nothing was lost, that every platform is complete.           *)
Honest(status) ==
  status.ready = "True" =>
    /\ \A pf \in Platforms : status.platform[pf] = "success"
    /\ losses = 0 => \A pf \in Platforms : Complete(pf)

(* Every copy of the status is honest, the one being prepared included.    *)
CopiesHonest ==
  /\ Honest(cr.status) /\ Honest(crCache.status) /\ Honest(worker.next)
  /\ \A i \in DOMAIN crWatch : Honest(crWatch[i].status)

(* The platforms a pass has been through are recorded as successes, and    *)
(* are complete; of the one it is at, the steps it has been through are.   *)
Visited == Platforms \ (worker.todo \cup {worker.cur})

PassSound ==
  worker.step \in {"pick", "stage"} /\ worker.read.phase = "present" =>
    \A pf \in Visited : /\ worker.next.platform[pf] = "success"
                        /\ losses = 0 => Complete(pf)

Passed(pf, s) == s = "rollout" \/ Has(pf, s)

StageSound ==
  /\ worker.step = "pick" => worker.cur = NoPlatform
  /\ worker.step = "stage" =>
       /\ worker.cur \in Platforms
       /\ worker.stage \in 1 .. Len(Steps(worker.cur))
       /\ losses = 0 => \A i \in 1 .. worker.stage - 1 :
                          Passed(worker.cur, Steps(worker.cur)[i])

(* Nothing has been edited for good.                                       *)
NothingSpoilt == losses = 0 => spoilt = {}

IInv == TypeOK /\ CopiesHonest /\ PassSound /\ StageSound /\ NothingSpoilt

-----------------------------------------------------------------------------
(* The parts the model is built from.                                      *)

AllSteps == Ensured \cup Awaited \cup Claimed \cup {"observability-operator"}

(* Every platform's reconciler has between one and six steps, and only     *)
(* that of the observability stack looks for the observability operator.   *)
LEMMA StepsFacts ==
  ASSUME NEW pf \in Platforms
  PROVE  /\ Len(Steps(pf)) \in 1 .. 6
         /\ DOMAIN Steps(pf) = 1 .. Len(Steps(pf))
         /\ \A i \in 1 .. Len(Steps(pf)) :
              /\ Steps(pf)[i] \in AllSteps
              /\ Steps(pf)[i] = "observability-operator" =>
                   Kind[pf] = "observability"
<1>0. Kind[pf] \in Kinds
  BY PlatformAssumption
<1> USE DEF AllSteps, Ensured, Awaited, Claimed
<1>1. CASE Kind[pf] = "operator"
  <2>1. Steps(pf) = OperatorSteps
    BY <1>1 DEF Steps
  <2> QED  BY <2>1 DEF OperatorSteps
<1>2. CASE Kind[pf] = "plugin"
  <2>1. Steps(pf) = PluginSteps
    BY <1>2 DEF Steps
  <2> QED  BY <2>1 DEF PluginSteps
<1>3. CASE Kind[pf] = "quickstart"
  <2>1. Steps(pf) = QuickstartSteps
    BY <1>3 DEF Steps
  <2> QED  BY <2>1 DEF QuickstartSteps
<1>4. CASE Kind[pf] = "observability"
  <2>1. Steps(pf) = ObservabilitySteps
    BY <1>4 DEF Steps
  <2> QED  BY <1>4, <2>1 DEF ObservabilitySteps
<1> QED  BY <1>0, <1>1, <1>2, <1>3, <1>4 DEF Kinds

(* The empty status, and the worker that does nothing.                     *)
LEMMA EmptyTypes ==
  /\ NewStatus \in Status /\ NewStatus.ready = "none"
  /\ [phase |-> "absent", status |-> NewStatus] \in Resource
  /\ IdleWorker \in Worker /\ IdleWorker.step = "idle"
  /\ IdleWorker.next = NewStatus
<1>1. NewStatus \in Status /\ NewStatus.ready = "none"
  BY DEF NewStatus, Status, Result
<1>2. [phase |-> "absent", status |-> NewStatus] \in Resource
  BY <1>1 DEF Resource
<1> QED  BY <1>1, <1>2 DEF IdleWorker, Worker

(* setStatusPlatform changes one platform's entry.                         *)
LEMMA SetStatus ==
  ASSUME NEW st \in Status, NEW pf \in Platforms, NEW r \in Result
  PROVE  LET v == setStatusPlatform(st, pf, r) IN
         /\ v \in Status /\ v.ready = st.ready
         /\ v.platform[pf] = r
         /\ \A q \in Platforms \ {pf} : v.platform[q] = st.platform[q]
<1>1. st.platform \in [Platforms -> Result]
  BY DEF Status
<1> DEFINE p == [st.platform EXCEPT ![pf] = r]
<1>2. p \in [Platforms -> Result] /\ p[pf] = r
      /\ \A q \in Platforms \ {pf} : p[q] = st.platform[q]
  BY <1>1
<1>3. setStatusPlatform(st, pf, r) = [st EXCEPT !.platform = p]
  BY DEF setStatusPlatform
<1> HIDE DEF p
<1> QED  BY <1>2, <1>3 DEF Status

(* What a platform's reconciler does to the worker when it succeeds ...    *)
LEMMA SucceedFacts ==
  ASSUME NEW w \in Worker, w.cur \in Platforms
  PROVE  LET v == Succeed(w) IN
         /\ v \in Worker
         /\ v.step = "pick" /\ v.cur = NoPlatform /\ v.todo = w.todo
         /\ v.read = w.read
         /\ v.next.ready = w.next.ready
         /\ v.next.platform[w.cur] = "success"
         /\ \A q \in Platforms \ {w.cur} :
              v.next.platform[q] = w.next.platform[q]
<1> DEFINE st == setStatusPlatform(w.next, w.cur, "success")
<1>1. /\ st \in Status /\ st.ready = w.next.ready
      /\ st.platform[w.cur] = "success"
      /\ \A q \in Platforms \ {w.cur} : st.platform[q] = w.next.platform[q]
  BY SetStatus DEF Worker, Result
<1>2. Succeed(w) = [w EXCEPT !.step = "pick", !.stage = 0, !.cur = NoPlatform,
                             !.next = st]
  BY DEF Succeed, Worker
<1> HIDE DEF st
<1>3. /\ Succeed(w).step = "pick"
      /\ Succeed(w).cur = NoPlatform /\ Succeed(w).todo = w.todo
      /\ Succeed(w).read = w.read /\ Succeed(w).next = st
  BY <1>2 DEF Worker
<1>4. Succeed(w) \in Worker
  <2>1. 0 \in 0 .. 6
    OBVIOUS
  <2> QED  BY <1>1, <1>2, <2>1 DEF Worker
<1> QED  BY <1>1, <1>3, <1>4

(* ... when it does not ...                                                *)
LEMMA InProgressFacts ==
  ASSUME NEW w \in Worker, w.cur \in Platforms
  PROVE  LET v == InProgress(w) IN
         v \in Worker /\ v.step = "update" /\ v.next.ready = "False"
<1> DEFINE st == setStatusPlatform(w.next, w.cur, "in progress")
           nx == [st EXCEPT !.ready = "False"]
<1>1. st \in Status
  BY SetStatus DEF Worker, Result
<1>2. nx \in Status /\ nx.ready = "False"
  BY <1>1 DEF Status
<1>3. InProgress(w) = [w EXCEPT !.step = "update", !.next = nx]
  BY DEF InProgress, Worker
<1> HIDE DEF st, nx
<1> QED  BY <1>2, <1>3 DEF Worker

(* ... and when one of its steps went through.                             *)
LEMMA NextStageFacts ==
  ASSUME NEW w \in Worker, w.cur \in Platforms, w.stage # Len(Steps(w.cur)),
         w.stage \in 1 .. Len(Steps(w.cur))
  PROVE  /\ Advance(w) \in Worker /\ Advance(w).stage = w.stage + 1
         /\ Advance(w).stage \in 1 .. Len(Steps(w.cur))
         /\ Advance(w).step = w.step /\ Advance(w).cur = w.cur
         /\ Advance(w).todo = w.todo /\ Advance(w).read = w.read
         /\ Advance(w).next = w.next
<1>1. Len(Steps(w.cur)) \in 1 .. 6
  BY StepsFacts
<1> DEFINE k == w.stage
           l == Len(Steps(w.cur))
<1>a. \A i, j : /\ j \in 1 .. 6 /\ i \in 1 .. j /\ i # j
               => i + 1 \in 1 .. 6 /\ i + 1 \in 1 .. j
  OBVIOUS
<1>b. k + 1 \in 1 .. 6 /\ k + 1 \in 1 .. l
  BY <1>1, <1>a
<1>2. PICK n \in 1 .. 6 : n = w.stage + 1 /\ n \in 1 .. Len(Steps(w.cur))
  BY <1>b
<1>3. Advance(w) = [w EXCEPT !.stage = n]
  BY <1>2 DEF Advance, Worker
<1>4. n \in 0 .. 6
  BY <1>2
<1>5. /\ Advance(w) \in Worker /\ Advance(w).stage = n
      /\ Advance(w).step = w.step /\ Advance(w).cur = w.cur
      /\ Advance(w).todo = w.todo /\ Advance(w).read = w.read
      /\ Advance(w).next = w.next
  BY <1>3, <1>4 DEF Worker
<1> QED  BY <1>2, <1>5

(* Where a step of a platform's reconciler stands.                         *)
LEMMA CurrentFacts ==
  ASSUME IInv, worker.step = "stage"
  PROVE  /\ worker \in Worker /\ worker.cur \in Platforms
         /\ worker.stage \in 1 .. Len(Steps(worker.cur))
         /\ Current \in AllSteps
         /\ Current = "observability-operator" =>
              Kind[worker.cur] = "observability"
         /\ Object(worker.cur, Current) \in (Platforms \cup {"global"}) \X AllSteps
         /\ Advance(worker) \in Worker
<1>1. /\ worker \in Worker /\ worker.cur \in Platforms
      /\ worker.stage \in 1 .. Len(Steps(worker.cur))
  BY DEF IInv, TypeOK, StageSound
<1>2. /\ Current \in AllSteps
      /\ Current = "observability-operator" =>
           Kind[worker.cur] = "observability"
  BY <1>1, StepsFacts DEF Current
<1>3. Object(worker.cur, Current) \in (Platforms \cup {"global"}) \X AllSteps
  BY <1>1, <1>2 DEF Object
<1>4. Advance(worker) \in Worker
  <2>1. CASE worker.stage = Len(Steps(worker.cur))
    BY <1>1, <2>1, SucceedFacts DEF Advance
  <2>2. CASE worker.stage # Len(Steps(worker.cur))
    BY <1>1, <2>2, NextStageFacts
  <2> QED  BY <2>1, <2>2
<1> QED  BY <1>1, <1>2, <1>3, <1>4

-----------------------------------------------------------------------------
(* Types.                                                                  *)

(* A write to the API server leaves a resource, and an event for it.       *)
LEMMA WriteType ==
  ASSUME TypeOK, NEW v \in Resource, WriteCR(v)
  PROVE  cr' \in Resource /\ crCache' \in Resource /\ crWatch' \in Seq(Resource)
BY AppendProperties DEF TypeOK, WriteCR

(* The operations on a resource that are not writes of a whole one.        *)
LEMMA ResourceTypes ==
  ASSUME NEW r \in Resource, NEW st \in Status
  PROVE  /\ [r EXCEPT !.status = st] \in Resource
         /\ [r EXCEPT !.status = st].status = st
         /\ \A p \in {"absent", "present", "deleting"} :
              /\ [r EXCEPT !.phase = p] \in Resource
              /\ [r EXCEPT !.phase = p].status = r.status
BY DEF Resource

(* The bounded counters stay within their bound.                           *)
LEMMA BoundTypes ==
  ASSUME TypeOK, Fault \/ Loss \/ UNCHANGED bounds
  PROVE  faults' \in 0 .. MaxMishaps /\ losses' \in 0 .. MaxMishaps
<1>1. /\ MaxMishaps \in Nat /\ faults \in Nat /\ losses \in Nat
      /\ faults \in 0 .. MaxMishaps /\ losses \in 0 .. MaxMishaps
  BY PlatformAssumption DEF TypeOK
<1>2. CASE Fault
  <2>1. /\ faults + losses < MaxMishaps /\ faults' = faults + 1
        /\ losses' = losses
    BY <1>2 DEF Fault
  <2> QED  BY <1>1, <2>1
<1>3. CASE Loss
  <2>1. /\ faults + losses < MaxMishaps /\ losses' = losses + 1
        /\ faults' = faults
    BY <1>3 DEF Loss
  <2> QED  BY <1>1, <2>1
<1>4. CASE UNCHANGED bounds
  BY <1>1, <1>4 DEF bounds
<1> QED  BY <1>2, <1>3, <1>4

(* Every step of a pass keeps the types.                                   *)
LEMMA TypeReconcile ==
  ASSUME IInv, Reconcile \/ (\E pf \in Platforms : PickPlatform(pf)) \/ CallFails
  PROVE  TypeOK'
<1>0. TypeOK /\ worker \in Worker
  BY DEF IInv, TypeOK
<1> USE DEF clusterVars, crVars
<1>a. faults' \in 0 .. MaxMishaps /\ losses' \in 0 .. MaxMishaps
  <2>1. Fault \/ UNCHANGED bounds
    BY DEF Reconcile, BeginPass, EnsureObject, AwaitObject, ClaimObject,
           CheckObservability, FinishPass, updateStatus, PickPlatform, CallFails
  <2> QED  BY <1>0, <2>1, BoundTypes
<1>b. ASSUME UNCHANGED <<spoilt, rollout, cr, crCache, crWatch, installComplete>>,
             worker' \in Worker,
             \/ made' = made
             \/ /\ worker.step = "stage"
                /\ made' \subseteq made \cup {Object(worker.cur, Current)}
      PROVE  TypeOK'
  <2>1. worker.step = "stage" =>
          Object(worker.cur, Current) \in (Platforms \cup {"global"}) \X AllSteps
    BY CurrentFacts
  <2>2. made' \subseteq (Platforms \cup {"global"}) \X AllSteps
    BY <1>0, <1>b, <2>1 DEF TypeOK, AllSteps
  <2> QED  BY <1>0, <1>a, <1>b, <2>2 DEF TypeOK, AllSteps
<1>c. worker.step = "stage" => /\ Advance(worker) \in Worker
                               /\ Succeed(worker) \in Worker
                               /\ InProgress(worker) \in Worker
  BY CurrentFacts, SucceedFacts, InProgressFacts
<1>1. CASE BeginPass
  <2> DEFINE t == IF crCache.phase = "present" THEN Platforms ELSE {}
             f == crWatch = <<>>
  <2>1. t \in SUBSET Platforms /\ crCache \in Resource /\ crCache.status \in Status
        /\ f \in BOOLEAN
    BY <1>0 DEF TypeOK, Resource
  <2>2. worker' = [IdleWorker EXCEPT !.step = "pick", !.todo = t,
                     !.read = crCache, !.next = crCache.status, !.fresh = f]
    BY <1>1 DEF BeginPass
  <2> HIDE DEF t, f
  <2>3. worker' \in Worker
    BY <2>1, <2>2, EmptyTypes DEF Worker
  <2> QED  BY <1>1, <1>b, <2>3 DEF BeginPass
<1>2. ASSUME NEW pf \in Platforms, PickPlatform(pf) PROVE TypeOK'
  <2> DEFINE t == worker.todo \ {pf}
  <2>1. t \in SUBSET Platforms /\ 1 \in 0 .. 6
    BY <1>0 DEF Worker
  <2>2. worker' = [worker EXCEPT !.step = "stage", !.cur = pf, !.stage = 1,
                                 !.todo = t]
    BY <1>0, <1>2 DEF PickPlatform, Worker
  <2> HIDE DEF t
  <2>3. worker' \in Worker
    BY <1>0, <2>1, <2>2 DEF Worker
  <2> QED  BY <1>2, <1>b, <2>3 DEF PickPlatform
<1>3. CASE EnsureObject \/ AwaitObject \/ ClaimObject \/ CheckObservability
  BY <1>3, <1>b, <1>c DEF EnsureObject, AwaitObject, ClaimObject, CheckObservability
<1>4. CASE CallFails
  BY <1>4, <1>b, <1>c, EmptyTypes DEF CallFails
<1>5. CASE FinishPass
  <2>1. PICK r \in {"none", "True", "False"} :
          worker' = [worker EXCEPT !.step = "update", !.next.ready = r]
    BY <1>0, <1>5 DEF FinishPass, Worker, Status
  <2>2. [worker.next EXCEPT !.ready = r] \in Status
    BY <1>0 DEF Worker, Status
  <2>3. worker' \in Worker
    BY <1>0, <2>1, <2>2 DEF Worker
  <2>4. UNCHANGED <<made, spoilt, rollout, crVars>> /\ installComplete' \in BOOLEAN
    BY <1>0, <1>5 DEF FinishPass, TypeOK
  <2> QED  BY <1>0, <1>a, <2>3, <2>4 DEF TypeOK
<1>6. CASE updateStatus
  <2>1. worker' \in Worker /\ UNCHANGED <<made, spoilt, rollout, installComplete>>
    BY <1>6, EmptyTypes DEF updateStatus
  <2>2. cr' \in Resource /\ crCache' \in Resource /\ crWatch' \in Seq(Resource)
    <3>1. worker.read \in Resource /\ worker.next \in Status
      BY <1>0 DEF Worker
    <3>2. [worker.read EXCEPT !.status = worker.next] \in Resource
      BY <3>1, ResourceTypes
    <3>3. \/ WriteCR([worker.read EXCEPT !.status = worker.next])
          \/ UNCHANGED crVars
      BY <1>6 DEF updateStatus
    <3> QED  BY <1>0, <3>2, <3>3, WriteType DEF TypeOK
  <2> QED  BY <1>0, <1>a, <2>1, <2>2 DEF TypeOK
<1> QED  BY <1>1, <1>2, <1>3, <1>4, <1>5, <1>6 DEF Reconcile

(* A worker whose copy of the resource is outdated is a worker.            *)
LEMMA OutdatedFacts ==
  ASSUME NEW w \in Worker
  PROVE  /\ Outdated(w) \in Worker
         /\ Outdated(w).step = w.step /\ Outdated(w).todo = w.todo
         /\ Outdated(w).cur = w.cur /\ Outdated(w).stage = w.stage
         /\ Outdated(w).read = w.read /\ Outdated(w).next = w.next
BY DEF Outdated, Worker

(* So does everything else.                                                *)
LEMMA TypeStep == IInv /\ [Next]_vars => TypeOK'
<1> SUFFICES ASSUME IInv, [Next]_vars PROVE TypeOK'
  OBVIOUS
<1>0. TypeOK /\ worker \in Worker
  BY DEF IInv, TypeOK
<1> USE DEF clusterVars, crVars
<1>a. ASSUME Fault \/ Loss \/ UNCHANGED bounds,
             made' \subseteq (Platforms \cup {"global"}) \X AllSteps,
             spoilt' \subseteq (Platforms \cup {"global"}) \X CreatedOnly,
             rollout' \in [Platforms -> {"none", "rolling", "ready"}],
             UNCHANGED <<cr, crCache, crWatch, installComplete, worker>>
      PROVE  TypeOK'
  <2>1. faults' \in 0 .. MaxMishaps /\ losses' \in 0 .. MaxMishaps
    BY <1>0, <1>a, BoundTypes
  <2> QED  BY <1>0, <1>a, <2>1 DEF TypeOK, AllSteps
<1>b. /\ made \subseteq (Platforms \cup {"global"}) \X AllSteps
      /\ spoilt \subseteq (Platforms \cup {"global"}) \X CreatedOnly
      /\ rollout \in [Platforms -> {"none", "rolling", "ready"}]
  BY <1>0 DEF TypeOK, AllSteps
<1>1. CASE DeliverCR
  <2>1. crCache' \in Resource /\ crWatch' \in Seq(Resource)
    BY <1>0, <1>1, HeadTailProperties DEF TypeOK, DeliverCR
  <2> QED  BY <1>0, <1>1, <2>1 DEF TypeOK, DeliverCR, bounds
<1>2. ASSUME NEW pf \in Platforms,
             \/ InstallCSV(pf) \/ OperatorUp(pf) \/ ConsoleUp(pf)
             \/ InstallObservability(pf)
      PROVE  TypeOK'
  <2>1. \A s \in {"csv", "operator", "console", "observability-operator"} :
          <<pf, s>> \in (Platforms \cup {"global"}) \X AllSteps
    BY DEF AllSteps, Awaited
  <2>2. made' \subseteq (Platforms \cup {"global"}) \X AllSteps
    BY <1>2, <1>b, <2>1 DEF InstallCSV, OperatorUp, ConsoleUp, InstallObservability
  <2> QED  BY <1>2, <1>a, <1>b, <2>2
           DEF InstallCSV, OperatorUp, ConsoleUp, InstallObservability
<1>3. ASSUME NEW pf \in Platforms, Rollout(pf) PROVE TypeOK'
  <2>1. rollout' \in [Platforms -> {"none", "rolling", "ready"}]
    BY <1>3, <1>b DEF Rollout
  <2> QED  BY <1>3, <1>a, <1>b, <2>1 DEF Rollout
<1>4. ASSUME NEW o \in made \cup spoilt, Lose(o) \/ Spoil(o) PROVE TypeOK'
  <2>1. CASE Lose(o)
    <3>1. rollout' \in [Platforms -> {"none", "rolling", "ready"}]
      BY <1>b, <2>1 DEF Lose
    <3> QED  BY <1>a, <1>b, <2>1, <3>1 DEF Lose
  <2>2. CASE Spoil(o)
    <3>1. o \in (Platforms \cup {"global"}) \X CreatedOnly
      <4>1. o \in made /\ o[2] = "servicemonitor"
        BY <2>2 DEF Spoil, CreatedOnly
      <4> QED  BY <1>b, <4>1 DEF CreatedOnly
    <3> QED  BY <1>a, <1>b, <2>2, <3>1 DEF Spoil
  <2> QED  BY <1>4, <2>1, <2>2
<1>5. CASE EditCR \/ RemoveCR
  <2>1. faults' \in 0 .. MaxMishaps /\ losses' \in 0 .. MaxMishaps
    BY <1>0, <1>5, BoundTypes DEF EditCR, RemoveCR
  <2>2. PICK v \in Resource : WriteCR(v)
    <3>1. CASE EditCR
      BY <1>0, <3>1, ResourceTypes DEF EditCR, TypeOK, Resource
    <3>2. CASE RemoveCR
      BY <3>2, EmptyTypes DEF RemoveCR
    <3> QED  BY <1>5, <3>1, <3>2
  <2>3. /\ made' \subseteq (Platforms \cup {"global"}) \X AllSteps
        /\ spoilt' \subseteq (Platforms \cup {"global"}) \X CreatedOnly
        /\ rollout' \in [Platforms -> {"none", "rolling", "ready"}]
    BY <1>5, <1>b DEF EditCR, RemoveCR
  <2>4. installComplete' = installComplete /\ worker' \in Worker
    BY <1>0, <1>5, OutdatedFacts DEF EditCR, RemoveCR
  <2>5. cr' \in Resource /\ crCache' \in Resource /\ crWatch' \in Seq(Resource)
    BY <1>0, <2>2, WriteType
  <2> QED  BY <1>0, <2>1, <2>3, <2>4, <2>5 DEF TypeOK, AllSteps
<1>6. CASE Restart
  <2>1. faults' \in 0 .. MaxMishaps /\ losses' \in 0 .. MaxMishaps
    BY <1>0, <1>6, BoundTypes DEF Restart
  <2>2. cr' \in Resource /\ crCache' = cr' /\ crWatch' \in Seq(Resource)
    BY <1>0, <1>6, ResourceTypes DEF Restart, TypeOK, Resource
  <2>3. worker' \in Worker /\ UNCHANGED clusterVars /\ installComplete' = FALSE
    BY <1>6, EmptyTypes DEF Restart
  <2> QED  BY <1>b, <2>1, <2>2, <2>3 DEF TypeOK, AllSteps
<1>7. CASE UNCHANGED vars
  BY <1>0, <1>7 DEF TypeOK, vars, bounds
<1> QED  BY <1>1, <1>2, <1>3, <1>4, <1>5, <1>6, <1>7, TypeReconcile DEF Next

-----------------------------------------------------------------------------
(* The invariant is kept.                                                  *)

(* Until something is lost, what is made stays, and nobody installs an     *)
(* observability operator.                                                 *)
Persists ==
  losses' = 0 =>
    /\ losses = 0 /\ made \subseteq made'
    /\ \A pf \in Platforms : Has(pf, "observability-operator")' =>
                             Has(pf, "observability-operator")

(* Every step either counts as a loss or keeps what is made.               *)
LEMMA PersistStep == IInv /\ [Next]_vars => Persists
<1> SUFFICES ASSUME IInv, [Next]_vars PROVE Persists
  OBVIOUS
<1> USE DEF clusterVars, crVars, bounds
<1>a. losses \in Nat
  BY PlatformAssumption DEF IInv, TypeOK
<1>b. ASSUME losses' = losses, made' = made PROVE Persists
  BY <1>b DEF Persists, Has
<1>c. ASSUME losses' = losses, NEW pf \in Platforms, NEW s \in AllSteps,
             s # "observability-operator",
             made \subseteq made', made' \subseteq made \cup {Object(pf, s)}
      PROVE  Persists
  <2>1. \A q \in Platforms : Object(q, "observability-operator") # Object(pf, s)
    BY <1>c DEF Object
  <2>2. Has(pf, s)' <=> Object(pf, s) \in made'
    BY DEF Has, Object
  <2> QED  BY <1>c, <2>1, <2>2 DEF Persists, Has, Object
<1>d. Loss => Persists
  <2>1. Loss => losses' = losses + 1
    BY DEF Loss
  <2> QED  BY <1>a, <2>1 DEF Persists
<1>1. CASE EnsureObject \/ ClaimObject
  <2>1. /\ worker.step = "stage" /\ Current \in Ensured \cup Claimed
        /\ made \subseteq made' /\ losses' = losses
        /\ made' \subseteq made \cup {Object(worker.cur, Current)}
    BY <1>1 DEF EnsureObject, ClaimObject
  <2>2. Current # "observability-operator"
    BY <2>1 DEF Ensured, Claimed
  <2>3. worker.cur \in Platforms /\ Current \in AllSteps
    BY <2>1, CurrentFacts
  <2> QED  BY <1>c, <2>1, <2>2, <2>3
<1>2. CASE \/ BeginPass \/ AwaitObject \/ CheckObservability \/ FinishPass
           \/ updateStatus \/ CallFails \/ DeliverCR \/ EditCR \/ Restart
           \/ (\E pf \in Platforms : PickPlatform(pf) \/ Rollout(pf))
           \/ UNCHANGED vars
  BY <1>2, <1>b DEF BeginPass, AwaitObject, CheckObservability, FinishPass,
     updateStatus, CallFails, DeliverCR, EditCR, Restart, PickPlatform,
     Rollout, Fault, vars
<1>3. ASSUME NEW pf \in Platforms,
             InstallCSV(pf) \/ OperatorUp(pf) \/ ConsoleUp(pf)
      PROVE  Persists
  <2>1. PICK s \in {"csv", "operator", "console"} : made' = made \cup {<<pf, s>>}
    BY <1>3 DEF InstallCSV, OperatorUp, ConsoleUp
  <2>2. s \in AllSteps /\ s # "observability-operator" /\ Object(pf, s) = <<pf, s>>
    BY DEF AllSteps, Awaited, Object
  <2> QED  BY <1>3, <1>c, <2>1, <2>2 DEF InstallCSV, OperatorUp, ConsoleUp
<1>4. ASSUME NEW pf \in Platforms, InstallObservability(pf) PROVE Persists
  BY <1>4, <1>d DEF InstallObservability
<1>5. ASSUME NEW o \in made \cup spoilt, Lose(o) \/ Spoil(o) PROVE Persists
  BY <1>5, <1>d DEF Lose, Spoil
<1>6. CASE RemoveCR
  BY <1>6, <1>d DEF RemoveCR
<1> QED  BY <1>1, <1>2, <1>3, <1>4, <1>5, <1>6 DEF Next, Reconcile

(* Complete, of the state after a step and the platform before it.         *)
CompleteAfter(pf) ==
  \/ /\ Kind[pf] = "observability"
     /\ Object(pf, "observability-operator") \notin made'
  \/ \A i \in DOMAIN Steps(pf) :
       Steps(pf)[i] = "rollout" \/ Object(pf, Steps(pf)[i]) \in made'

(* It is Complete in the next state.                                       *)
LEMMA AfterFacts == \A pf \in Platforms : Complete(pf)' <=> CompleteAfter(pf)
<1> SUFFICES ASSUME NEW pf \in Platforms
             PROVE  Complete(pf)' <=> CompleteAfter(pf)
  OBVIOUS
<1> QED  BY DEF Complete, CompleteAfter, Has, Steps, Object

(* Until something is lost, complete platforms stay complete, and steps    *)
(* that went through stay so.                                              *)
LEMMA CompleteKept ==
  ASSUME Persists, losses' = 0, NEW pf \in Platforms
  PROVE  /\ Complete(pf) => CompleteAfter(pf)
         /\ \A s : Passed(pf, s) => s = "rollout" \/ Object(pf, s) \in made'
<1>1. \A s : Has(pf, s) => Object(pf, s) \in made'
  BY DEF Persists, Has
<1>2. ASSUME Complete(pf) PROVE CompleteAfter(pf)
  <2>1. CASE Kind[pf] = "observability" /\ ~Has(pf, "observability-operator")
    BY <2>1 DEF Persists, CompleteAfter, Has, Object
  <2>2. CASE \A i \in DOMAIN Steps(pf) :
               Steps(pf)[i] = "rollout" \/ Has(pf, Steps(pf)[i])
    BY <1>1, <2>2 DEF CompleteAfter
  <2> QED  BY <1>2, <2>1, <2>2 DEF Complete
<1> QED  BY <1>1, <1>2 DEF Passed

(* What it takes for a status to be honest in the next state.              *)
StaysHonest(status) ==
  status.ready = "True" =>
    /\ \A pf \in Platforms : status.platform[pf] = "success"
    /\ losses' = 0 => \A pf \in Platforms : Complete(pf)'

(* A status that is honest stays so.                                       *)
LEMMA HonestKept ==
  ASSUME Persists PROVE \A st : Honest(st) => StaysHonest(st)
<1>1. losses' = 0 => /\ losses = 0
                     /\ \A pf \in Platforms : Complete(pf) => Complete(pf)'
  BY CompleteKept, AfterFacts DEF Persists
<1> QED  BY <1>1 DEF Honest, StaysHonest

(* How a step of a platform's reconciler ends: the platform is in          *)
(* progress; it succeeds, and is complete; or its next step is due.        *)
StageEnds ==
  \/ worker' = InProgress(worker)
  \/ worker' = Succeed(worker) /\ (losses' = 0 => CompleteAfter(worker.cur))
  \/ /\ worker' = Advance(worker)
     /\ worker.stage # Len(Steps(worker.cur))
     /\ losses' = 0 =>
          \A i \in 1 .. worker.stage :
            \/ Steps(worker.cur)[i] = "rollout"
            \/ Object(worker.cur, Steps(worker.cur)[i]) \in made'

(* They are the ways in which the four actions end.                        *)
LEMMA StageFacts ==
  ASSUME IInv, Persists,
         EnsureObject \/ AwaitObject \/ ClaimObject \/ CheckObservability
  PROVE  StageEnds
<1>0. /\ worker.step = "stage" /\ worker.cur \in Platforms
      /\ worker.stage \in 1 .. Len(Steps(worker.cur))
      /\ Current = "observability-operator" =>
           Kind[worker.cur] = "observability"
  BY CurrentFacts DEF EnsureObject, AwaitObject, ClaimObject, CheckObservability
<1>1. ASSUME worker' = Advance(worker),
             losses' = 0 =>
               Current = "rollout" \/ Object(worker.cur, Current) \in made'
      PROVE  StageEnds
  <2>1. ASSUME losses' = 0, NEW i \in 1 .. worker.stage
        PROVE  \/ Steps(worker.cur)[i] = "rollout"
               \/ Object(worker.cur, Steps(worker.cur)[i]) \in made'
    <3>1. CASE i = worker.stage
      BY <1>1, <2>1, <3>1 DEF Current
    <3>2. CASE i # worker.stage
      <4>1. losses = 0
        BY <2>1 DEF Persists
      <4>2. i \in 1 .. worker.stage - 1
        BY <1>0, <3>2
      <4>3. Passed(worker.cur, Steps(worker.cur)[i])
        BY <1>0, <4>1, <4>2 DEF IInv, StageSound
      <4> QED  BY <1>0, <2>1, <4>3, CompleteKept
    <3> QED  BY <3>1, <3>2
  <2>2. CASE worker.stage # Len(Steps(worker.cur))
    BY <1>1, <2>1, <2>2 DEF StageEnds
  <2>3. CASE worker.stage = Len(Steps(worker.cur))
    <3>1. worker' = Succeed(worker)
      BY <1>1, <2>3 DEF Advance
    <3> DEFINE pf == worker.cur
    <3>2. ASSUME losses' = 0 PROVE CompleteAfter(worker.cur)
      <4>1. \A i \in DOMAIN Steps(pf) :
              Steps(pf)[i] = "rollout" \/ Object(pf, Steps(pf)[i]) \in made'
        BY <1>0, <2>1, <2>3, <3>2, StepsFacts
      <4> QED  BY <4>1 DEF CompleteAfter
    <3> QED  BY <3>1, <3>2 DEF StageEnds
  <2> QED  BY <2>2, <2>3
<1>2. CASE EnsureObject
  <2>1. losses' = 0 => spoilt = {}
    BY DEF Persists, IInv, NothingSpoilt
  <2> QED  BY <1>1, <1>2, <2>1 DEF EnsureObject
<1>3. CASE AwaitObject
  <2>1. CASE Satisfied(worker.cur, Current)
    <3>1. Current = "rollout" \/ Object(worker.cur, Current) \in made'
      BY <1>3, <2>1 DEF AwaitObject, Satisfied, Has, clusterVars
    <3> QED  BY <1>1, <1>3, <2>1, <3>1 DEF AwaitObject
  <2>2. CASE ~Satisfied(worker.cur, Current)
    BY <1>3, <2>2 DEF AwaitObject, StageEnds
  <2> QED  BY <2>1, <2>2
<1>4. CASE ClaimObject
  BY <1>1, <1>4 DEF ClaimObject, StageEnds
<1>5. CASE CheckObservability
  <2>1. CASE Has(worker.cur, Current)
    <3>1. Object(worker.cur, Current) \in made'
      BY <1>5, <2>1 DEF CheckObservability, Has, clusterVars
    <3> QED  BY <1>1, <1>5, <2>1, <3>1 DEF CheckObservability
  <2>2. CASE ~Has(worker.cur, Current)
    <3>1. /\ worker' = Succeed(worker) /\ Current = "observability-operator"
          /\ UNCHANGED made
      BY <1>5, <2>2 DEF CheckObservability, clusterVars
    <3>2. Complete(worker.cur)
      BY <1>0, <2>2, <3>1 DEF Complete
    <3> QED  BY <1>0, <3>1, <3>2, CompleteKept DEF StageEnds
  <2> QED  BY <2>1, <2>2
<1> QED  BY <1>2, <1>3, <1>4, <1>5

(* What a step does to the pass: nothing (but that the resource may have   *)
(* changed), abandon it, begin one, or one of its steps.                   *)
LEMMA PassMoves ==
  ASSUME IInv, [Next]_vars
  PROVE  \/ worker' = worker \/ worker' = Outdated(worker)
         \/ worker' = IdleWorker
         \/ worker.step = "stage" /\ worker' = InProgress(worker)
         \/ BeginPass \/ FinishPass
         \/ (\E pf \in Platforms : PickPlatform(pf))
         \/ worker.step = "stage" /\ StageEnds
<1>1. Persists
  BY PersistStep
<1>2. CASE EnsureObject \/ AwaitObject \/ ClaimObject \/ CheckObservability
  BY <1>1, <1>2, StageFacts
  DEF EnsureObject, AwaitObject, ClaimObject, CheckObservability
<1>3. CASE CallFails \/ updateStatus \/ Restart \/ EditCR \/ RemoveCR
  BY <1>3 DEF CallFails, updateStatus, Restart, EditCR, RemoveCR
<1>4. CASE DeliverCR \/ UNCHANGED vars
           \/ (\E o \in made \cup spoilt : Lose(o) \/ Spoil(o))
  BY <1>4 DEF DeliverCR, Lose, Spoil, vars
<1>5. ASSUME NEW pf \in Platforms,
             \/ InstallCSV(pf) \/ OperatorUp(pf) \/ Rollout(pf)
             \/ ConsoleUp(pf) \/ InstallObservability(pf)
      PROVE  worker' = worker
  BY <1>5 DEF InstallCSV, OperatorUp, Rollout, ConsoleUp, InstallObservability
<1> QED  BY <1>2, <1>3, <1>4, <1>5 DEF Next, Reconcile

(* A step keeps the worker's place in a platform's steps, and what it has  *)
(* seen of them.                                                           *)
LEMMA StageStep == IInv /\ [Next]_vars => StageSound'
<1> SUFFICES ASSUME IInv, [Next]_vars PROVE StageSound'
  OBVIOUS
<1>0. Persists /\ worker \in Worker /\ StageSound
  BY PersistStep DEF IInv, TypeOK
<1>a. ASSUME worker'.step \notin {"pick", "stage"} PROVE StageSound'
  BY <1>a DEF StageSound
<1>b. ASSUME worker'.step = "stage", NEW pf \in Platforms, worker'.cur = pf,
             worker'.stage \in 1 .. Len(Steps(pf)),
             losses' = 0 => \A i \in 1 .. worker'.stage - 1 :
               Steps(pf)[i] = "rollout" \/ Object(pf, Steps(pf)[i]) \in made'
      PROVE  StageSound'
  BY <1>b DEF StageSound, Passed, Has, Steps, Object
<1>1. ASSUME worker'.step = worker.step, worker'.cur = worker.cur,
             worker'.stage = worker.stage
      PROVE  StageSound'
  <2>1. CASE worker.step = "stage"
    <3>1. ASSUME losses' = 0, NEW i \in 1 .. worker.stage - 1
          PROVE  \/ Steps(worker.cur)[i] = "rollout"
                 \/ Object(worker.cur, Steps(worker.cur)[i]) \in made'
      <4>1. Passed(worker.cur, Steps(worker.cur)[i]) /\ worker.cur \in Platforms
        BY <1>0, <2>1, <3>1 DEF StageSound, Persists
      <4> QED  BY <1>0, <3>1, <4>1, CompleteKept
    <3> QED  BY <1>0, <1>1, <1>b, <2>1, <3>1 DEF StageSound
  <2>2. CASE worker.step # "stage"
    BY <1>0, <1>1, <2>2 DEF StageSound
  <2> QED  BY <2>1, <2>2
<1>2. CASE worker' = worker \/ worker' = Outdated(worker)
  BY <1>0, <1>1, <1>2, OutdatedFacts
<1>3. CASE worker' = IdleWorker \/ FinishPass
  <2>1. FinishPass => worker'.step = "update"
    BY <1>0 DEF FinishPass, Worker
  <2> QED  BY <1>3, <1>a, <2>1, EmptyTypes
<1>4. CASE worker.step = "stage" /\ worker' = InProgress(worker)
  BY <1>4, <1>a, CurrentFacts, InProgressFacts
<1>5. CASE BeginPass
  <2>1. worker'.step = "pick" /\ worker'.cur = NoPlatform
    BY <1>5 DEF BeginPass, IdleWorker
  <2> QED  BY <2>1 DEF StageSound
<1>6. ASSUME NEW pf \in Platforms, PickPlatform(pf) PROVE StageSound'
  <2>1. worker'.step = "stage" /\ worker'.cur = pf /\ worker'.stage = 1
    BY <1>0, <1>6 DEF PickPlatform, Worker
  <2>2. 1 \in 1 .. Len(Steps(pf)) /\ 1 .. 1 - 1 = {}
    BY StepsFacts
  <2> QED  BY <1>b, <2>1, <2>2
<1>7. CASE worker.step = "stage" /\ StageEnds
  <2>0. /\ worker.cur \in Platforms
        /\ worker.stage \in 1 .. Len(Steps(worker.cur))
    BY <1>7, CurrentFacts
  <2>1. CASE worker' = Succeed(worker)
    <3>1. worker'.step = "pick" /\ worker'.cur = NoPlatform
      BY <1>0, <2>0, <2>1, SucceedFacts
    <3> QED  BY <3>1 DEF StageSound
  <2>2. CASE /\ worker' = Advance(worker)
             /\ worker.stage # Len(Steps(worker.cur))
             /\ losses' = 0 =>
                  \A i \in 1 .. worker.stage :
                    \/ Steps(worker.cur)[i] = "rollout"
                    \/ Object(worker.cur, Steps(worker.cur)[i]) \in made'
    <3>1. /\ worker'.stage = worker.stage + 1 /\ worker'.cur = worker.cur
          /\ worker'.stage \in 1 .. Len(Steps(worker.cur))
          /\ worker'.step = "stage"
      BY <1>0, <1>7, <2>0, <2>2, NextStageFacts
    <3>2. worker'.stage - 1 = worker.stage
      BY <2>0, <3>1
    <3> QED  BY <1>b, <2>0, <2>2, <3>1, <3>2
  <2>3. CASE worker' = InProgress(worker)
    BY <1>4, <1>7, <2>3
  <2> QED  BY <1>7, <2>1, <2>2, <2>3 DEF StageEnds
<1> QED  BY <1>2, <1>3, <1>4, <1>5, <1>6, <1>7, PassMoves

(* A step keeps the record of the platforms a pass has been through.       *)
LEMMA PassStep == IInv /\ [Next]_vars => PassSound'
<1> SUFFICES ASSUME IInv, [Next]_vars PROVE PassSound'
  OBVIOUS
<1>0. Persists /\ worker \in Worker /\ StageSound /\ PassSound
  BY PersistStep DEF IInv, TypeOK
<1>a. ASSUME worker'.step \notin {"pick", "stage"} PROVE PassSound'
  BY <1>a DEF PassSound
<1>b. ASSUME worker'.read.phase = "present" =>
               \A pf \in Platforms \ (worker'.todo \cup {worker'.cur}) :
                 /\ worker'.next.platform[pf] = "success"
                 /\ losses' = 0 => CompleteAfter(pf)
      PROVE  PassSound'
  BY <1>b, AfterFacts DEF PassSound, Visited
<1>c. ASSUME worker.step \in {"pick", "stage"}, worker.read.phase = "present",
             NEW pf \in Visited
      PROVE  /\ worker.next.platform[pf] = "success"
             /\ losses' = 0 => CompleteAfter(pf)
  BY <1>0, <1>c, CompleteKept DEF PassSound, Visited, Persists
<1>1. ASSUME worker'.step = worker.step, worker'.cur = worker.cur,
             worker'.todo = worker.todo, worker'.read = worker.read,
             worker'.next = worker.next
      PROVE  PassSound'
  <2>1. CASE worker.step \in {"pick", "stage"}
    BY <1>1, <1>b, <1>c, <2>1 DEF Visited
  <2>2. CASE worker.step \notin {"pick", "stage"}
    BY <1>1, <1>a, <2>2
  <2> QED  BY <2>1, <2>2
<1>2. CASE worker' = worker \/ worker' = Outdated(worker)
  BY <1>0, <1>1, <1>2, OutdatedFacts
<1>3. CASE worker' = IdleWorker \/ FinishPass
  <2>1. FinishPass => worker'.step = "update"
    BY <1>0 DEF FinishPass, Worker
  <2> QED  BY <1>3, <1>a, <2>1, EmptyTypes
<1>4. CASE worker.step = "stage" /\ worker' = InProgress(worker)
  BY <1>4, <1>a, CurrentFacts, InProgressFacts
<1>5. CASE BeginPass
  <2>1. /\ worker'.read = crCache
        /\ worker'.todo = IF crCache.phase = "present" THEN Platforms ELSE {}
    BY <1>5 DEF BeginPass, IdleWorker
  <2> QED  BY <1>b, <2>1
<1>6. ASSUME NEW pf \in Platforms, PickPlatform(pf) PROVE PassSound'
  <2>1. /\ worker'.cur = pf /\ worker'.todo = worker.todo \ {pf}
        /\ worker'.read = worker.read /\ worker'.next = worker.next
        /\ worker.step = "pick" /\ worker.cur = NoPlatform
    BY <1>0, <1>6 DEF PickPlatform, Worker, StageSound
  <2>2. Platforms \ (worker'.todo \cup {worker'.cur}) \subseteq Visited
    BY <2>1, PlatformAssumption DEF Visited
  <2> QED  BY <1>b, <1>c, <2>1, <2>2
<1>7. CASE worker.step = "stage" /\ StageEnds
  <2>0. /\ worker.cur \in Platforms
        /\ worker.stage \in 1 .. Len(Steps(worker.cur))
    BY <1>7, CurrentFacts
  <2>1. CASE worker' = Succeed(worker) /\ (losses' = 0 => CompleteAfter(worker.cur))
    <3>1. /\ worker'.cur = NoPlatform /\ worker'.todo = worker.todo
          /\ worker'.read = worker.read
          /\ worker'.next.platform[worker.cur] = "success"
          /\ \A q \in Platforms \ {worker.cur} :
               worker'.next.platform[q] = worker.next.platform[q]
      BY <1>0, <2>0, <2>1, SucceedFacts
    <3> QED  BY <1>b, <1>c, <1>7, <2>1, <3>1 DEF Visited
  <2>2. CASE /\ worker' = Advance(worker)
             /\ worker.stage # Len(Steps(worker.cur))
    <3>1. /\ worker'.cur = worker.cur /\ worker'.step = worker.step
          /\ worker'.todo = worker.todo /\ worker'.read = worker.read
          /\ worker'.next = worker.next
      BY <1>0, <2>0, <2>2, NextStageFacts
    <3> QED  BY <1>1, <3>1
  <2>3. CASE worker' = InProgress(worker)
    BY <1>4, <1>7, <2>3
  <2> QED  BY <1>7, <2>1, <2>2, <2>3 DEF StageEnds
<1> QED  BY <1>2, <1>3, <1>4, <1>5, <1>6, <1>7, PassMoves

(* A step keeps every copy of the status honest: only FinishPass sets the  *)
(* condition, after a pass through every platform.                         *)
LEMMA CopiesStep == IInv /\ [Next]_vars => CopiesHonest'
<1> SUFFICES ASSUME IInv, [Next]_vars PROVE CopiesHonest'
  OBVIOUS
<1>0. /\ TypeOK /\ worker \in Worker /\ StageSound /\ PassSound /\ CopiesHonest
      /\ crWatch \in Seq(Resource)
  BY DEF IInv, TypeOK
<1>p. Persists
  BY PersistStep
<1>a. \A st : Honest(st) => StaysHonest(st)
  BY <1>p, HonestKept
<1>b. StaysHonest(NewStatus)
  BY EmptyTypes DEF StaysHonest
<1>1. StaysHonest(worker'.next)
  <2>0. StaysHonest(worker.next)
    BY <1>0, <1>a DEF CopiesHonest
  <2>1. CASE worker' = worker \/ worker' = Outdated(worker) \/ worker' = IdleWorker
    BY <1>0, <1>b, <2>0, <2>1, OutdatedFacts, EmptyTypes
  <2>2. CASE worker.step = "stage" /\ worker' = InProgress(worker)
    BY <2>2, CurrentFacts, InProgressFacts DEF StaysHonest
  <2>3. CASE BeginPass
    <3>1. worker'.next = crCache.status
      BY <2>3 DEF BeginPass, IdleWorker
    <3> QED  BY <1>0, <1>a, <3>1 DEF CopiesHonest
  <2>4. CASE FinishPass
    <3>1. CASE worker.read.phase = "present" /\ ~installComplete
      <4>1. worker.step = "pick" /\ worker.todo = {} /\ worker.cur = NoPlatform
        BY <1>0, <2>4 DEF FinishPass, StageSound
      <4>2. Visited = Platforms
        BY <4>1, PlatformAssumption DEF Visited
      <4>3. \A pf \in Platforms : /\ worker.next.platform[pf] = "success"
                                  /\ losses = 0 => Complete(pf)
        BY <1>0, <3>1, <4>1, <4>2 DEF PassSound
      <4>4. worker'.next.platform = worker.next.platform
        BY <1>0, <2>4 DEF FinishPass, Worker, Status
      <4>5. losses' = 0 => \A pf \in Platforms : Complete(pf)'
        BY <1>p, <4>3, CompleteKept, AfterFacts DEF Persists
      <4> QED  BY <4>3, <4>4, <4>5 DEF StaysHonest
    <3>2. CASE ~(worker.read.phase = "present" /\ ~installComplete)
      <4>1. worker'.next = worker.next
        BY <1>0, <2>4, <3>2 DEF FinishPass, Worker, Status
      <4> QED  BY <2>0, <4>1
    <3> QED  BY <3>1, <3>2
  <2>5. ASSUME NEW pf \in Platforms, PickPlatform(pf)
        PROVE  StaysHonest(worker'.next)
    <3>1. worker'.next = worker.next
      BY <1>0, <2>5 DEF PickPlatform, Worker
    <3> QED  BY <2>0, <3>1
  <2>6. CASE worker.step = "stage" /\ StageEnds
    <3>0. /\ worker.cur \in Platforms
          /\ worker.stage \in 1 .. Len(Steps(worker.cur))
      BY <2>6, CurrentFacts
    <3>1. CASE worker' = Succeed(worker)
      <4>1. /\ worker'.next.ready = worker.next.ready
            /\ worker'.next.platform[worker.cur] = "success"
            /\ \A q \in Platforms \ {worker.cur} :
                 worker'.next.platform[q] = worker.next.platform[q]
        BY <1>0, <3>0, <3>1, SucceedFacts
      <4> QED  BY <2>0, <4>1 DEF StaysHonest
    <3>2. CASE worker' = Advance(worker) /\ worker.stage # Len(Steps(worker.cur))
      BY <1>0, <2>0, <3>0, <3>2, NextStageFacts
    <3>3. CASE worker' = InProgress(worker)
      BY <2>2, <2>6, <3>3
    <3> QED  BY <2>6, <3>1, <3>2, <3>3 DEF StageEnds
  <2> QED  BY <2>1, <2>2, <2>3, <2>4, <2>5, <2>6, PassMoves
<1> DEFINE StoredHonest ==
             /\ StaysHonest(cr'.status) /\ StaysHonest(crCache'.status)
             /\ \A i \in DOMAIN crWatch' : StaysHonest(crWatch'[i].status)
<1>2. StoredHonest
  <2>0. /\ StaysHonest(cr.status) /\ StaysHonest(crCache.status)
        /\ StaysHonest(worker.next)
        /\ \A i \in DOMAIN crWatch : StaysHonest(crWatch[i].status)
    BY <1>0, <1>a DEF CopiesHonest
  <2>a. ASSUME NEW v \in Resource, WriteCR(v), StaysHonest(v.status)
        PROVE  StoredHonest
    <3>1. /\ DOMAIN crWatch' = DOMAIN crWatch \cup {Len(crWatch) + 1}
          /\ crWatch'[Len(crWatch) + 1] = v
          /\ \A i \in DOMAIN crWatch : crWatch'[i] = crWatch[i]
      BY <1>0, <2>a, AppendProperties DEF WriteCR
    <3> QED  BY <2>0, <2>a, <3>1 DEF WriteCR
  <2>1. CASE updateStatus
    <3> DEFINE v == [worker.read EXCEPT !.status = worker.next]
    <3>1. v \in Resource /\ v.status = worker.next
      BY <1>0, ResourceTypes DEF Worker
    <3>2. WriteCR(v) \/ UNCHANGED crVars
      BY <2>1 DEF updateStatus
    <3> HIDE DEF v
    <3> QED  BY <2>0, <2>a, <3>1, <3>2 DEF crVars
  <2>2. CASE EditCR
    <3>1. PICK v \in Resource : WriteCR(v) /\ v.status = cr.status
      BY <1>0, <2>2, ResourceTypes DEF EditCR, TypeOK, Resource
    <3> QED  BY <2>0, <2>a, <3>1
  <2>3. CASE RemoveCR
    <3>1. [phase |-> "absent", status |-> NewStatus].status = NewStatus
      OBVIOUS
    <3> QED  BY <1>b, <2>3, <2>a, <3>1, EmptyTypes DEF RemoveCR
  <2>4. CASE DeliverCR
    <3>1. /\ cr' = cr /\ crWatch # <<>> /\ crCache' = Head(crWatch)
          /\ crWatch' = Tail(crWatch)
      BY <2>4 DEF DeliverCR
    <3>2. /\ Len(crWatch) \in Nat /\ Len(crWatch) > 0
          /\ DOMAIN crWatch = 1 .. Len(crWatch)
          /\ crCache' = crWatch[1]
          /\ DOMAIN crWatch' = 1 .. Len(crWatch) - 1
          /\ \A i \in 1 .. Len(crWatch) - 1 : crWatch'[i] = crWatch[i + 1]
      BY <1>0, <3>1, HeadTailProperties, EmptySeq, LenProperties
    <3>3. StaysHonest(crCache'.status)
      BY <2>0, <3>2
    <3>4. \A i \in 1 .. Len(crWatch) - 1 : i + 1 \in DOMAIN crWatch
      BY <3>2
    <3>5. \A i \in DOMAIN crWatch' : StaysHonest(crWatch'[i].status)
      BY <2>0, <3>2, <3>4
    <3> QED  BY <2>0, <3>1, <3>3, <3>5
  <2>5. CASE Restart
    <3>1. cr'.status = cr.status /\ crCache' = cr' /\ crWatch' = <<>>
      BY <1>0, <2>5, ResourceTypes DEF Restart, TypeOK, Resource
    <3>2. DOMAIN crWatch' = {}
      BY <3>1
    <3> QED  BY <2>0, <3>1, <3>2
  <2>6. CASE UNCHANGED crVars
    BY <2>0, <2>6 DEF crVars
  <2>7. \/ updateStatus \/ EditCR \/ RemoveCR \/ DeliverCR \/ Restart
        \/ UNCHANGED crVars
    BY DEF Next, Reconcile, BeginPass, EnsureObject, AwaitObject, ClaimObject,
       CheckObservability, FinishPass, PickPlatform, CallFails, InstallCSV,
       OperatorUp, Rollout, ConsoleUp, InstallObservability, Lose, Spoil, vars
  <2> QED  BY <2>1, <2>2, <2>3, <2>4, <2>5, <2>6, <2>7
<1> QED  BY <1>1, <1>2 DEF CopiesHonest, Honest, StaysHonest

-----------------------------------------------------------------------------
(* The theorems.                                                           *)

(* A new platform stack has nothing to be proud of.                        *)
LEMMA InitSafe == Init => IInv
<1> SUFFICES ASSUME Init PROVE IInv
  OBVIOUS
<1>1. TypeOK
  <2>1. cr \in Resource /\ crCache \in Resource /\ worker \in Worker
    BY EmptyTypes DEF Init, Resource
  <2>2. faults \in 0 .. MaxMishaps /\ losses \in 0 .. MaxMishaps
    BY PlatformAssumption DEF Init
  <2>3. /\ spoilt = {} /\ rollout \in [Platforms -> {"none", "rolling", "ready"}]
        /\ crWatch = <<>> /\ installComplete = FALSE
    BY DEF Init
  <2>4. crWatch \in Seq(Resource)
    BY <2>3, EmptySeq
  <2>5. made \subseteq (Platforms \cup {"global"}) \X
          (Ensured \cup Awaited \cup Claimed \cup {"observability-operator"})
    BY PlatformAssumption DEF Init
  <2> QED  BY <2>1, <2>2, <2>3, <2>4, <2>5 DEF TypeOK
<1>2. CopiesHonest
  <2>1. /\ cr.status = NewStatus /\ crCache.status = NewStatus
        /\ worker.next = NewStatus /\ DOMAIN crWatch = {}
    BY EmptyTypes DEF Init
  <2> QED  BY <2>1, EmptyTypes DEF CopiesHonest, Honest
<1>3. PassSound /\ StageSound /\ NothingSpoilt
  BY EmptyTypes DEF Init, PassSound, StageSound, NothingSpoilt
<1> QED  BY <1>1, <1>2, <1>3 DEF IInv

(* To edit something for good is a loss.                                   *)
LEMMA SpoiltStep == IInv /\ [Next]_vars => NothingSpoilt'
<1> SUFFICES ASSUME IInv, [Next]_vars PROVE NothingSpoilt'
  OBVIOUS
<1>1. losses' = 0 => losses = 0
  BY PersistStep DEF Persists
<1>2. losses \in Nat
  BY PlatformAssumption DEF IInv, TypeOK
<1>3. Loss => losses' # 0
  BY <1>2 DEF Loss
<1>4. UNCHANGED spoilt \/ Loss
  BY DEF Next, Reconcile, BeginPass, EnsureObject, AwaitObject, ClaimObject,
     CheckObservability, FinishPass, updateStatus, PickPlatform, CallFails,
     DeliverCR, InstallCSV, OperatorUp, Rollout, ConsoleUp,
     InstallObservability, Lose, Spoil, EditCR, RemoveCR, Restart, vars,
     clusterVars
<1> QED  BY <1>1, <1>3, <1>4 DEF IInv, NothingSpoilt

(* The inductive invariant holds of the controller.                        *)
THEOREM Invariance == Spec => []IInv
<1>1. IInv /\ [Next]_vars => IInv'
  BY TypeStep, CopiesStep, PassStep, StageStep, SpoiltStep DEF IInv
<1> QED  BY <1>1, InitSafe, PTL DEF Spec

(* Every variable keeps its type.                                          *)
THEOREM TypeCorrect == Spec => []TypeOK
<1>1. IInv => TypeOK
  BY DEF IInv
<1> QED  BY <1>1, Invariance, PTL

(* A status whose PlatformReady condition is True reports every platform   *)
(* as successful, though Reconcile writes the two in different branches.   *)
THEOREM SuccessReported == Spec => []ReadyMeansSuccess
<1>1. IInv => ReadyMeansSuccess
  BY DEF IInv, CopiesHonest, Honest, ReadyMeansSuccess
<1> QED  BY <1>1, Invariance, PTL

(* Until something is lost, PlatformReady = True means that every step of  *)
(* every platform's reconciler has found what it wanted.                   *)
THEOREM CompleteReported == Spec => []ReadyMeansComplete
<1>1. IInv => ReadyMeansComplete
  BY DEF IInv, CopiesHonest, Honest, ReadyMeansComplete
<1> QED  BY <1>1, Invariance, PTL
=============================================================================
