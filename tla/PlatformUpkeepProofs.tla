------------------------ MODULE PlatformUpkeepProofs ------------------------
(***************************************************************************)
(* Proofs about the upkeep of the platform, for any set of webhooks and    *)
(* any authentication types: every variable keeps its type, and the dummy  *)
(* values for the RDS controller never replace a user's.  (The rest of     *)
(* what PlatformUpkeep states is about what happens in the end.)           *)
(***************************************************************************)
EXTENDS PlatformUpkeep, SequenceTheorems, TLAPS

Times == [Hooks -> 0 .. Now]
Stacks == StackSpec \cup {"absent"}

(* The types, by part of the state.                                        *)
HookTypes == /\ csv \in {"Succeeded", "Installing", "Failed"}
             /\ crd \in BOOLEAN /\ crdCache \in BOOLEAN
             /\ crdWatch \in Seq(BOOLEAN)
             /\ hook \in Times /\ hookCache \in Times
             /\ hookWatch \in Seq(Times)
             /\ lag \in 0 .. MaxLag
StackTypes == /\ stack \in Stacks /\ stackCache \in Stacks
              /\ stackWatch \in Seq(Stacks)
RestTypes == /\ userObject \in [UserObjects -> {"absent", "dummy", "user"}]
             /\ rds \in [csv : {"none", "conflict", "installing", "succeeded"},
                         deployment : {"none", "old", "new"}, retried : BOOLEAN]
             /\ auth \in AuthTypes /\ telemetry \subseteq Keys
             /\ subscriptions \subseteq {Old, OldCSV, Present}
             /\ ops \in 0 .. MaxOps

(* These are the types.                                                    *)
LEMMA TypeParts ==
  TypeOK <=> HookTypes /\ StackTypes /\ RestTypes /\ worker \in Worker
<1>1. {stack, stackCache} \subseteq Stacks <=> stack \in Stacks /\ stackCache \in Stacks
  OBVIOUS
<1> QED  BY <1>1 DEF TypeOK, HookTypes, StackTypes, RestTypes, Times, Stacks

(* The worker of a process that rests or starts.                           *)
LEMMA IdleTyped == Idle \in Worker /\ Setup \in Worker
<1>1. Idle \in Worker
  BY DEF Idle, Worker, UserObjects, Now, StackSpec
<1>2. Setup \in Worker
  BY <1>1 DEF Setup, Idle, Worker, UserObjects, Now, StackSpec
<1> QED  BY <1>1, <1>2

(* Times are moved back within their range.                                *)
LEMMA EarlierTyped == \A t \in 0 .. Now : Earlier(t) \in 0 .. Now
BY DEF Earlier, Now

(* So are all times.                                                       *)
LEMMA MoveBackTyped == \A f \in Times : MoveBack(f) \in Times
BY EarlierTyped DEF MoveBack, Times

(* A typed sequence stays one when an element is added or taken away, or   *)
(* all of them are replaced.                                               *)
LEMMA SeqTyped ==
  ASSUME NEW S, NEW q \in Seq(S)
  PROVE  /\ <<>> \in Seq(S)
         /\ \A v \in S : Append(q, v) \in Seq(S)
         /\ q # <<>> => Head(q) \in S /\ Tail(q) \in Seq(S)
BY EmptySeq, AppendProperties, HeadTailProperties

(* ... or all of them are replaced.                                        *)
LEMMA MapTyped ==
  ASSUME NEW q \in Seq(Times)
  PROVE  [i \in DOMAIN q |-> MoveBack(q[i])] \in Seq(Times)
<1>1. Len(q) \in Nat /\ DOMAIN q = 1 .. Len(q) /\ q \in [1 .. Len(q) -> Times]
  BY LenProperties
<1>2. \A i \in DOMAIN q : MoveBack(q[i]) \in Times
  BY <1>1, MoveBackTyped
<1>3. [i \in DOMAIN q |-> MoveBack(q[i])] \in [1 .. Len(q) -> Times]
  BY <1>1, <1>2
<1>4. Seq(Times) = UNION {[1 .. n -> Times] : n \in Nat}
  BY SeqDef
<1> QED  BY <1>1, <1>3, <1>4

-----------------------------------------------------------------------------
(* The webhooks and the CRDs.                                              *)

(* A webhook is written.                                                   *)
LEMMA WriteHookTyped ==
  ASSUME HookTypes, NEW h \in Hooks, NEW v \in 0 .. Now, WriteHook(h, v)
  PROVE  hook' \in Times /\ hookWatch' \in Seq(Times)
<1>1. hook' \in Times
  BY DEF WriteHook, HookTypes, Times
<1>2. hookWatch' = Append(hookWatch, hook') /\ hookWatch \in Seq(Times)
  BY DEF WriteHook, HookTypes
<1> QED  BY <1>1, <1>2, SeqTyped

(* The conversion webhooks are put back; times may move back.              *)
LEMMA InstallTyped ==
  ASSUME HookTypes, InstallConversion PROVE HookTypes'
<1>1. /\ csv' = "Installing" /\ crd' = TRUE /\ crdCache' = crdCache /\ lag' = lag
      /\ crdWatch' = crdWatch \/ crdWatch' = Append(crdWatch, TRUE)
  BY DEF InstallConversion
<1>2. crdWatch' \in Seq(BOOLEAN)
  BY <1>1, SeqTyped DEF HookTypes
<1>3. hook' \in Times /\ hookCache' \in Times /\ hookWatch' \in Seq(Times)
  <2>1. CASE UNCHANGED <<hook, hookCache, hookWatch>>
    BY <2>1 DEF HookTypes
  <2>2. CASE /\ hook' = MoveBack(hook) /\ hookCache' = MoveBack(hookCache)
             /\ hookWatch' = [i \in DOMAIN hookWatch |-> MoveBack(hookWatch[i])]
    <3>1. hook' \in Times /\ hookCache' \in Times
      BY <2>2, MoveBackTyped DEF HookTypes
    <3>2. hookWatch' \in Seq(Times)
      BY <2>2, MapTyped DEF HookTypes
    <3> QED  BY <3>1, <3>2
  <2> QED  BY <2>1, <2>2 DEF InstallConversion
<1> QED  BY <1>1, <1>2, <1>3 DEF HookTypes

(* Every step keeps the types of webhooks and CRDs.                        *)
LEMMA HookStep == ASSUME HookTypes, [Next]_vars PROVE HookTypes'
<1>0. MaxLag \in Nat
  BY UpkeepAssumption
<1> USE DEF HookTypes
<1>1. CASE UNCHANGED hookVars
  BY <1>1 DEF hookVars
<1>2. CASE BeginPass
  <2>1. lag' \in 0 .. MaxLag
    <3>1. (lag' = 0 \/ lag' = lag + 1) /\ lag' <= MaxLag
      BY <1>2 DEF BeginPass
    <3>2. lag \in 0 .. MaxLag
      OBVIOUS
    <3> QED  BY <1>0, <3>1, <3>2
  <2> QED  BY <1>2, <2>1 DEF BeginPass
<1>3. ASSUME NEW h \in Hooks, DeleteHook(h) \/ LoseHook(h) PROVE HookTypes'
  <2>1. UNCHANGED <<hook, hookWatch>> \/ WriteHook(h, 0)
    BY <1>3 DEF DeleteHook, LoseHook
  <2>2. UNCHANGED <<csv, crd, crdCache, crdWatch, hookCache, lag>>
    BY <1>3 DEF DeleteHook, LoseHook
  <2>3. 0 \in 0 .. Now
    BY DEF Now
  <2>4. hook' \in Times /\ hookWatch' \in Seq(Times)
    BY <2>1, <2>3, WriteHookTyped
  <2> QED  BY <2>2, <2>4
<1>4. CASE MissHook \/ FinishInstall
  BY <1>4 DEF MissHook, FinishInstall
<1>5. CASE CreateHooks
  <2>1. hook' \in Times
    <3>1. Now \in 0 .. Now
      BY DEF Now
    <3>2. hook' = [h \in Hooks |-> IF hook[h] = 0 THEN Now ELSE hook[h]]
      BY <1>5 DEF CreateHooks
    <3>3. \A h \in Hooks : hook[h] \in 0 .. Now
      BY DEF Times
    <3> QED  BY <3>1, <3>2, <3>3 DEF Times
  <2>2. hookWatch' = Append(hookWatch, hook')
    BY <1>5 DEF CreateHooks
  <2>3. hookWatch' \in Seq(Times)
    BY <2>1, <2>2, SeqTyped
  <2> QED  BY <1>5, <2>1, <2>3 DEF CreateHooks
<1>6. CASE InstallConversion
  BY <1>6, InstallTyped
<1>7. CASE DeliverCRD
  <2>1. crdCache' \in BOOLEAN /\ crdWatch' \in Seq(BOOLEAN)
    BY <1>7, SeqTyped DEF DeliverCRD
  <2> QED  BY <1>7, <2>1 DEF DeliverCRD
<1>8. CASE DeliverHook
  <2>1. hookCache' \in Times /\ hookWatch' \in Seq(Times)
    BY <1>8, SeqTyped DEF DeliverHook
  <2> QED  BY <1>8, <2>1 DEF DeliverHook
<1>9. CASE BreakCRD
  <2>1. crdWatch' \in Seq(BOOLEAN)
    BY <1>9, SeqTyped DEF BreakCRD
  <2> QED  BY <1>9, <2>1 DEF BreakCRD
<1>10. CASE Restart
  <2>1. lag' \in 0 .. MaxLag
    <3>1. lag' = 0
      BY <1>10 DEF Restart
    <3> QED  BY <1>0, <3>1
  <2>2. crdWatch' \in Seq(BOOLEAN) /\ hookWatch' \in Seq(Times)
    BY <1>10, SeqTyped DEF Restart
  <2> QED  BY <1>10, <2>1, <2>2 DEF Restart
<1> HIDE DEF HookTypes
<1>11. \/ UNCHANGED hookVars \/ BeginPass
       \/ \E h \in Hooks : DeleteHook(h) \/ LoseHook(h)
       \/ MissHook \/ FinishInstall \/ CreateHooks \/ InstallConversion
       \/ DeliverCRD \/ DeliverHook \/ BreakCRD \/ Restart
  BY DEF Next, Pass, OLM, GetUserObject, CreateUserObject, ListHooks,
     GetRDSCSV, DeleteDeployment, cleanObsOldSubscription, GetStack,
     setPrometheusConfig, createUpdateObservabilityMonitoringStackCR, FixFails,
     PassFails, DeployRDS, ReportRDS, DeliverStack, EditUserObject, UpgradeRDS,
     Subscribe, EditTelemetry, EditStack, vars
<1> QED  BY <1>1, <1>2, <1>3, <1>4, <1>5, <1>6, <1>7, <1>8, <1>9, <1>10, <1>11

-----------------------------------------------------------------------------
(* The rest.                                                               *)

(* Every step keeps the types of the stack and its copies.                 *)
LEMMA StackStep ==
  ASSUME StackTypes, worker \in Worker, [Next]_vars PROVE StackTypes'
<1> USE DEF StackTypes
<1>1. CASE UNCHANGED stackVars
  BY <1>1 DEF stackVars
<1>2. ASSUME NEW v \in Stacks, WriteStack(v) PROVE StackTypes'
  <2>1. stackWatch' \in Seq(Stacks)
    BY <1>2, SeqTyped DEF WriteStack
  <2> QED  BY <1>2, <2>1 DEF WriteStack
<1>3. CASE createUpdateObservabilityMonitoringStackCR
  <2>1. worker.next \in Stacks
    BY DEF Worker, Stacks
  <2>2. WriteStack(worker.next) \/ UNCHANGED stackVars
    BY <1>3 DEF createUpdateObservabilityMonitoringStackCR
  <2>3. PICK v \in Stacks : WriteStack(v) \/ UNCHANGED stackVars
    BY <2>1, <2>2
  <2> QED  BY <1>1, <1>2, <2>3
<1>4. ASSUME NEW v \in {"absent", "none"}, EditStack(v) PROVE StackTypes'
  <2>1. v \in Stacks
    BY DEF Stacks, StackSpec
  <2> QED  BY <1>2, <1>4, <2>1 DEF EditStack
<1>5. CASE DeliverStack
  <2>1. stackCache' \in Stacks /\ stackWatch' \in Seq(Stacks)
    BY <1>5, SeqTyped DEF DeliverStack
  <2> QED  BY <1>5, <2>1 DEF DeliverStack
<1>6. CASE Restart
  <2>1. stackWatch' \in Seq(Stacks)
    BY <1>6, SeqTyped DEF Restart
  <2> QED  BY <1>6, <2>1 DEF Restart
<1> HIDE DEF StackTypes
<1>7. \/ UNCHANGED stackVars \/ createUpdateObservabilityMonitoringStackCR
      \/ \E v \in {"absent", "none"} : EditStack(v)
      \/ DeliverStack \/ Restart
  BY DEF Next, Pass, OLM, GetUserObject, CreateUserObject, BeginPass,
     ListHooks, DeleteHook, GetRDSCSV, DeleteDeployment,
     cleanObsOldSubscription, GetStack, setPrometheusConfig, FixFails,
     PassFails, MissHook, CreateHooks, InstallConversion, FinishInstall,
     DeployRDS, ReportRDS, DeliverCRD, DeliverHook, EditUserObject, UpgradeRDS,
     BreakCRD, Subscribe, LoseHook, EditTelemetry, obsVars, vars
<1> QED  BY <1>1, <1>3, <1>4, <1>5, <1>6, <1>7

(* What an operator may put into its record of a pass.                     *)
LEMMA WorkerExcept ==
  ASSUME NEW w \in Worker
  PROVE  /\ \A s \in {"get", "create", "idle", "crd", "delete", "rds", "deployment",
                      "clean", "stack", "build", "write"} :
              [w EXCEPT !.step = s] \in Worker
         /\ \A o \in UserObjects : [w EXCEPT !.object = o] \in Worker
         /\ \A n \in 0 .. Now : [w EXCEPT !.seen = n] \in Worker
         /\ \A g \in SUBSET Hooks : [w EXCEPT !.hooks = g] \in Worker
         /\ \A v \in Stacks : [w EXCEPT !.read = v] \in Worker
         /\ \A v \in StackSpec : [w EXCEPT !.next = v] \in Worker
         /\ \A b \in BOOLEAN : [w EXCEPT !.fresh = b] \in Worker
<1>1. \A s \in {"get", "create", "idle", "crd", "delete", "rds", "deployment",
                "clean", "stack", "build", "write"} :
        [w EXCEPT !.step = s] \in Worker
  BY DEF Worker
<1>2. \A o \in UserObjects : [w EXCEPT !.object = o] \in Worker
  BY DEF Worker
<1>3. \A n \in 0 .. Now : [w EXCEPT !.seen = n] \in Worker
  BY DEF Worker
<1>4. \A g \in SUBSET Hooks : [w EXCEPT !.hooks = g] \in Worker
  BY DEF Worker
<1>5. \A v \in Stacks : [w EXCEPT !.read = v] \in Worker
  BY DEF Worker, Stacks
<1>6. \A v \in StackSpec : [w EXCEPT !.next = v] \in Worker
  BY DEF Worker
<1>7. \A b \in BOOLEAN : [w EXCEPT !.fresh = b] \in Worker
  BY DEF Worker
<1> QED  BY <1>1, <1>2, <1>3, <1>4, <1>5, <1>6, <1>7

(* Every step keeps the type of the worker.                                *)
LEMMA WorkerStep ==
  ASSUME worker \in Worker, StackTypes, [Next]_vars PROVE worker' \in Worker
<1>0. Idle \in Worker /\ Setup \in Worker
  BY IdleTyped
<1>1. CASE GetUserObject \/ CreateUserObject
  <2>1. \/ worker' = Idle \/ worker' = Setup
        \/ worker' = [worker EXCEPT !.step = "create"]
        \/ worker' = [worker EXCEPT !.object = "config"]
        \/ worker' = [worker EXCEPT !.step = "get", !.object = "config"]
    BY <1>1 DEF GetUserObject, CreateUserObject
  <2>2. [worker EXCEPT !.step = "get", !.object = "config"] \in Worker
    BY DEF Worker, UserObjects
  <2>3. [worker EXCEPT !.step = "create"] \in Worker
    BY DEF Worker
  <2>4. [worker EXCEPT !.object = "config"] \in Worker
    BY DEF Worker, UserObjects
  <2> QED  BY <1>0, <2>1, <2>2, <2>3, <2>4
<1>2. CASE BeginPass
  <2>1. \/ worker' = [Idle EXCEPT !.step = "crd", !.seen = Now]
        \/ worker' = [Idle EXCEPT !.step = "rds"]
    BY <1>2 DEF BeginPass
  <2>2. Now \in 0 .. Now
    BY DEF Now
  <2>3. [Idle EXCEPT !.step = "crd", !.seen = Now] \in Worker
    BY <1>0, <2>2 DEF Worker
  <2> QED  BY <1>0, <2>1, <2>3, WorkerExcept
<1>3. CASE ListHooks
  <2> DEFINE hooks == {h \in Hooks : ~checkConversionWebhookHealth /\ Outdated(h)}
  <2>1. hooks \in SUBSET Hooks
    OBVIOUS
  <2>2. PICK s \in {"rds", "delete"} :
          worker' = [Idle EXCEPT !.hooks = hooks, !.step = s]
    BY <1>3 DEF ListHooks
  <2> HIDE DEF hooks
  <2>3. [Idle EXCEPT !.hooks = hooks, !.step = s] \in Worker
    BY <1>0, <2>1 DEF Worker
  <2> QED  BY <2>2, <2>3
<1>4. ASSUME NEW h \in Hooks, DeleteHook(h) PROVE worker' \in Worker
  <2>1. worker.hooks \in SUBSET Hooks
    BY DEF Worker
  <2>2. CASE worker' = [worker EXCEPT !.step = "rds", !.hooks = {}]
    <3>1. [worker EXCEPT !.step = "rds", !.hooks = {}] \in Worker
      BY DEF Worker
    <3> QED  BY <2>2, <3>1
  <2>3. CASE worker' = [worker EXCEPT
                          !.hooks = @ \ {h},
                          !.step = IF worker.hooks = {h} THEN "rds" ELSE @]
    <3>1. PICK g \in SUBSET Hooks : g = worker.hooks \ {h}
      BY <2>1
    <3>2. PICK s \in {"get", "create", "idle", "crd", "delete", "rds",
                      "deployment", "clean", "stack", "build", "write"} :
            s = IF worker.hooks = {h} THEN "rds" ELSE worker.step
      BY DEF Worker
    <3>3. worker' = [worker EXCEPT !.hooks = g, !.step = s]
      BY <2>3, <3>1, <3>2
    <3> QED  BY <3>3 DEF Worker
  <2> QED  BY <1>4, <2>2, <2>3 DEF DeleteHook
<1>5. CASE \/ GetRDSCSV \/ DeleteDeployment \/ cleanObsOldSubscription
  <2>1. PICK s \in {"deployment", "clean", "stack"} :
          worker' = [worker EXCEPT !.step = s]
    BY <1>5 DEF GetRDSCSV, DeleteDeployment, cleanObsOldSubscription, Step
  <2> QED  BY <2>1, WorkerExcept
<1>6. CASE GetStack
  <2>1. PICK b \in BOOLEAN : b = (stackWatch = <<>>)
    OBVIOUS
  <2>2. worker' = Idle \/ worker' = [Idle EXCEPT !.step = "build",
                                       !.read = stackCache, !.fresh = b]
    BY <1>6, <2>1 DEF GetStack
  <2>3. PICK v \in Stacks : v = stackCache
    BY DEF StackTypes
  <2>4. [Idle EXCEPT !.step = "build", !.read = v, !.fresh = b] \in Worker
    BY <1>0 DEF Worker, Stacks
  <2> QED  BY <1>0, <2>2, <2>3, <2>4
<1>7. CASE setPrometheusConfig
  <2>1. configureRemoteWrite \in StackSpec
    BY DEF configureRemoteWrite, StackSpec
  <2>2. "none" \in StackSpec /\ "bare" \in StackSpec
    BY DEF StackSpec
  <2>3. PICK v \in StackSpec : worker' = [worker EXCEPT !.step = "write", !.next = v]
    <3>1. CASE worker' = [worker EXCEPT !.step = "write", !.next = "bare"]
      BY <2>2, <3>1
    <3>2. CASE worker' = [worker EXCEPT !.step = "write",
                                        !.next = IF auth = "" THEN "none"
                                                 ELSE configureRemoteWrite]
      BY <2>1, <2>2, <3>2
    <3> QED  BY <1>7, <3>1, <3>2 DEF setPrometheusConfig
  <2>4. [worker EXCEPT !.step = "write", !.next = v] \in Worker
    BY DEF Worker
  <2> QED  BY <2>3, <2>4
<1>8. CASE \/ createUpdateObservabilityMonitoringStackCR \/ PassFails \/ Restart
           \/ FixFails
  <2>1. \/ worker' = Idle \/ worker' = Setup
        \/ worker' = [Idle EXCEPT !.step = "rds"]
        \/ worker' = [Idle EXCEPT !.step = "clean"]
    BY <1>8 DEF createUpdateObservabilityMonitoringStackCR, PassFails, Restart,
       FixFails
  <2> QED  BY <1>0, <2>1, WorkerExcept
<1>9. CASE InstallConversion
  <2>1. PICK n \in 0 .. Now : n = Earlier(worker.seen)
    BY EarlierTyped DEF Worker
  <2>2. worker' = worker \/ worker' = [worker EXCEPT !.seen = n]
    BY <1>9, <2>1 DEF InstallConversion
  <2> QED  BY <2>2, WorkerExcept
<1>10. ASSUME NEW v \in {"absent", "none"}, EditStack(v) PROVE worker' \in Worker
  <2>1. worker' = [worker EXCEPT !.fresh = FALSE]
    BY <1>10 DEF EditStack
  <2> QED  BY <2>1, WorkerExcept
<1>11. CASE worker' = worker
  BY <1>11
<1>12. \/ GetUserObject \/ CreateUserObject \/ BeginPass \/ ListHooks
       \/ \E h \in Hooks : DeleteHook(h)
       \/ GetRDSCSV \/ DeleteDeployment \/ cleanObsOldSubscription \/ GetStack
       \/ setPrometheusConfig \/ createUpdateObservabilityMonitoringStackCR
       \/ PassFails \/ Restart \/ FixFails \/ InstallConversion
       \/ \E v \in {"absent", "none"} : EditStack(v)
       \/ worker' = worker
  BY DEF Next, Pass, OLM, MissHook, CreateHooks, FinishInstall, DeployRDS,
     ReportRDS, DeliverCRD, DeliverHook, DeliverStack, EditUserObject,
     UpgradeRDS, BreakCRD, Subscribe, LoseHook, EditTelemetry, vars
<1> QED  BY <1>1, <1>2, <1>3, <1>4, <1>5, <1>6, <1>7, <1>8, <1>9, <1>10, <1>11,
            <1>12

(* What a step may make of the user's objects: the worker creates one that *)
(* is not there, users edit them.                                          *)
LEMMA UserObjectStep ==
  ASSUME worker \in Worker, [Next]_vars
  PROVE  \/ userObject' = userObject
         \/ \E o \in UserObjects :
              \/ /\ userObject[o] = "absent"
                 /\ userObject' = [userObject EXCEPT ![o] = "dummy"]
              \/ userObject' = [userObject EXCEPT ![o] = "user"]
<1>1. CASE CreateUserObject
  <2>1. worker.object \in UserObjects
    BY DEF Worker
  <2> QED  BY <1>1, <2>1 DEF CreateUserObject
<1>2. CASE \E o \in UserObjects : EditUserObject(o)
  BY <1>2 DEF EditUserObject
<1>3. CASE ~CreateUserObject /\ ~\E o \in UserObjects : EditUserObject(o)
  BY <1>3 DEF Next, Pass, OLM, GetUserObject, BeginPass, ListHooks, DeleteHook,
     GetRDSCSV, DeleteDeployment, cleanObsOldSubscription, GetStack,
     setPrometheusConfig, createUpdateObservabilityMonitoringStackCR, FixFails,
     PassFails, Restart, MissHook, CreateHooks, InstallConversion,
     FinishInstall, DeployRDS, ReportRDS, DeliverCRD, DeliverHook,
     DeliverStack, UpgradeRDS, BreakCRD, Subscribe, LoseHook, EditTelemetry,
     EditStack, vars
<1> QED  BY <1>1, <1>2, <1>3

(* Every step keeps the remaining types.                                   *)
LEMMA RestStep ==
  ASSUME worker \in Worker, RestTypes, [Next]_vars PROVE RestTypes'
<1>1. userObject' \in [UserObjects -> {"absent", "dummy", "user"}]
  BY UserObjectStep DEF RestTypes
<1>2. rds' \in [csv : {"none", "conflict", "installing", "succeeded"},
                deployment : {"none", "old", "new"}, retried : BOOLEAN]
  <2>1. CASE \/ DeleteDeployment \/ DeployRDS \/ ReportRDS \/ UpgradeRDS
    BY <2>1 DEF DeleteDeployment, DeployRDS, ReportRDS, UpgradeRDS, RestTypes
  <2>2. CASE ~(DeleteDeployment \/ DeployRDS \/ ReportRDS \/ UpgradeRDS)
    <3>1. rds' = rds
      BY <2>2 DEF Next, Pass, OLM, GetUserObject, CreateUserObject, BeginPass,
         ListHooks, DeleteHook, GetRDSCSV, cleanObsOldSubscription, GetStack,
         setPrometheusConfig, createUpdateObservabilityMonitoringStackCR,
         FixFails, PassFails, Restart, MissHook, CreateHooks,
         InstallConversion, FinishInstall, DeliverCRD, DeliverHook,
         DeliverStack, EditUserObject, BreakCRD, Subscribe, LoseHook,
         EditTelemetry, EditStack, vars
    <3> QED  BY <3>1 DEF RestTypes
  <2> QED  BY <2>1, <2>2
<1>3. auth' = auth
  BY DEF Next, Pass, OLM, GetUserObject, CreateUserObject, BeginPass,
     ListHooks, DeleteHook, GetRDSCSV, DeleteDeployment,
     cleanObsOldSubscription, GetStack, setPrometheusConfig,
     createUpdateObservabilityMonitoringStackCR, FixFails, PassFails, Restart,
     MissHook, CreateHooks, InstallConversion, FinishInstall, DeployRDS,
     ReportRDS, DeliverCRD, DeliverHook, DeliverStack, EditUserObject,
     UpgradeRDS, BreakCRD, Subscribe, LoseHook, EditTelemetry, EditStack,
     obsVars, vars
<1>4. telemetry' \subseteq Keys
  <2>1. telemetry' = telemetry \/ telemetry' \in {{}, Keys} \cup {Keys \ {k} : k \in Keys}
    BY DEF Next, Pass, OLM, GetUserObject, CreateUserObject, BeginPass,
       ListHooks, DeleteHook, GetRDSCSV, DeleteDeployment,
       cleanObsOldSubscription, GetStack, setPrometheusConfig,
       createUpdateObservabilityMonitoringStackCR, FixFails, PassFails,
       Restart, MissHook, CreateHooks, InstallConversion, FinishInstall,
       DeployRDS, ReportRDS, DeliverCRD, DeliverHook, DeliverStack,
       EditUserObject, UpgradeRDS, BreakCRD, Subscribe, LoseHook,
       EditTelemetry, EditStack, obsVars, vars
  <2> QED  BY <2>1 DEF RestTypes
<1>5. subscriptions' \subseteq {Old, OldCSV, Present}
  <2>1. \/ subscriptions' = subscriptions
        \/ subscriptions' = subscriptions \ {<<ConfigName, "subscription">>, OldCSV}
        \/ subscriptions' = subscriptions \ {Present}
        \/ subscriptions' = subscriptions \cup {Present}
    BY DEF Next, Pass, OLM, GetUserObject, CreateUserObject, BeginPass,
       ListHooks, DeleteHook, GetRDSCSV, DeleteDeployment,
       cleanObsOldSubscription, GetStack, setPrometheusConfig,
       createUpdateObservabilityMonitoringStackCR, FixFails, PassFails,
       Restart, MissHook, CreateHooks, InstallConversion, FinishInstall,
       DeployRDS, ReportRDS, DeliverCRD, DeliverHook, DeliverStack,
       EditUserObject, UpgradeRDS, BreakCRD, Subscribe, LoseHook,
       EditTelemetry, EditStack, obsVars, vars
  <2> QED  BY <2>1 DEF RestTypes
<1>6. ops' \in 0 .. MaxOps
  <2>1. Operation \/ ops' = ops
    BY DEF Next, Pass, OLM, GetUserObject, CreateUserObject, BeginPass,
       ListHooks, DeleteHook, GetRDSCSV, DeleteDeployment,
       cleanObsOldSubscription, GetStack, setPrometheusConfig,
       createUpdateObservabilityMonitoringStackCR, FixFails, PassFails,
       Restart, MissHook, CreateHooks, InstallConversion, FinishInstall,
       DeployRDS, ReportRDS, DeliverCRD, DeliverHook, DeliverStack,
       EditUserObject, UpgradeRDS, BreakCRD, Subscribe, LoseHook,
       EditTelemetry, EditStack, vars
  <2>2. ops \in 0 .. MaxOps /\ MaxOps \in Nat
    BY UpkeepAssumption DEF RestTypes
  <2>3. CASE Operation
    BY <2>2, <2>3 DEF Operation
  <2> QED  BY <2>1, <2>2, <2>3
<1> QED  BY <1>1, <1>2, <1>3, <1>4, <1>5, <1>6 DEF RestTypes

-----------------------------------------------------------------------------
(* The results.                                                            *)

(* The cluster in order has the types.                                     *)
LEMMA InitTyped == Init => TypeOK
<1> SUFFICES ASSUME Init PROVE TypeOK
  OBVIOUS
<1>1. HookTypes
  <2>1. hook \in Times /\ hookCache \in Times
    BY DEF Init, Times, Now
  <2>2. lag \in 0 .. MaxLag
    <3>1. MaxLag \in Nat /\ lag = 0
      BY UpkeepAssumption DEF Init
    <3> QED  BY <3>1
  <2>3. crdWatch \in Seq(BOOLEAN) /\ hookWatch \in Seq(Times)
    BY EmptySeq DEF Init
  <2> QED  BY <2>1, <2>2, <2>3 DEF Init, HookTypes
<1>2. StackTypes
  <2>1. stackWatch \in Seq(Stacks)
    BY EmptySeq DEF Init
  <2> QED  BY <2>1 DEF Init, StackTypes, Stacks
<1>3. RestTypes
  <2>1. ops \in 0 .. MaxOps
    <3>1. MaxOps \in Nat /\ ops = 0
      BY UpkeepAssumption DEF Init
    <3> QED  BY <3>1
  <2>2. userObject \in [UserObjects -> {"absent", "dummy", "user"}]
    BY DEF Init
  <2>3. rds \in [csv : {"none", "conflict", "installing", "succeeded"},
                 deployment : {"none", "old", "new"}, retried : BOOLEAN]
    BY DEF Init
  <2>4. /\ auth \in AuthTypes /\ telemetry \subseteq Keys
        /\ subscriptions \subseteq {Old, OldCSV, Present}
    BY DEF Init
  <2> QED  BY <2>1, <2>2, <2>3, <2>4 DEF RestTypes
<1>4. worker \in Worker
  BY IdleTyped DEF Init
<1> QED  BY <1>1, <1>2, <1>3, <1>4, TypeParts

(* Every step keeps the types.                                             *)
LEMMA TypeStep == TypeOK /\ [Next]_vars => TypeOK'
<1> SUFFICES ASSUME TypeOK, [Next]_vars PROVE TypeOK'
  OBVIOUS
<1>1. HookTypes /\ StackTypes /\ RestTypes /\ worker \in Worker
  BY TypeParts
<1>2. HookTypes' /\ StackTypes' /\ RestTypes' /\ worker' \in Worker
  BY <1>1, HookStep, StackStep, RestStep, WorkerStep
<1>3. (TypeOK <=> HookTypes /\ StackTypes /\ RestTypes /\ worker \in Worker)'
  BY TypeParts, PTL
<1> QED  BY <1>2, <1>3

(* Every variable keeps its type: also the creation times, however often   *)
(* OLM moves them back, and the events that are under way meanwhile.       *)
THEOREM TypeCorrect == Spec => []TypeOK
<1>1. Init => TypeOK
  BY InitTyped
<1>2. TypeOK /\ [Next]_vars => TypeOK'
  BY TypeStep
<1> QED  BY <1>1, <1>2, PTL DEF Spec

(* At whatever moment the user enters credentials, and however often the   *)
(* process starts: the dummy values never replace them.                    *)
THEOREM UserValuesKept == Spec => UserObjectsKept
<1>1. TypeOK /\ [Next]_vars =>
        [\A o \in UserObjects :
           userObject[o] = "user" => userObject'[o] = "user"]_userObject
  <2> SUFFICES ASSUME TypeOK, [Next]_vars, NEW o \in UserObjects,
                      userObject[o] = "user"
               PROVE  userObject'[o] = "user"
    OBVIOUS
  <2>1. userObject \in [UserObjects -> {"absent", "dummy", "user"}]
        /\ worker \in Worker
    BY DEF TypeOK
  <2> QED  BY <2>1, UserObjectStep
<1> QED  BY <1>1, TypeCorrect, PTL DEF Spec, UserObjectsKept
=============================================================================
