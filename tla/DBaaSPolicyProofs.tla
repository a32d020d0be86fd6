------------------------- MODULE DBaaSPolicyProofs -------------------------
(***************************************************************************)
(* Proofs about the policy reconciler, for every set of policy names.      *)
(***************************************************************************)
EXTENDS DBaaSPolicy, SequenceTheorems, TLAPS

(* Writing the Ready condition of an object gives an object.               *)
LEMMA ReadyType ==
  ASSUME NEW o \in Object, NEW r \in Ready
  PROVE  [o EXCEPT !.ready = r] \in Object
  BY DEF Object

(* The idle worker and a worker whose version is outdated are workers.     *)
LEMMA WorkerTypes ==
  /\ IdleWorker \in Worker
  /\ \A w \in Worker, p \in Policies : Outdated(w, p) \in Worker
  BY PoliciesAssumption DEF IdleWorker, Worker, Outdated

(* What ListPolicies puts into the worker is a worker.                     *)
LEMMA NewWorkerType ==
  ASSUME NEW k \in Policies, NEW a \in Policies \cup {Nobody},
         NEW i \in Policies \cup {Nobody}, NEW u \in Nat, NEW f \in BOOLEAN
  PROVE  [step |-> "get", key |-> k, active |-> a, policy |-> i,
          uid |-> u, fresh |-> f] \in Worker
  BY DEF Worker

(* A policy write keeps the API server's objects and events well typed.    *)
LEMMA WritePolicyType ==
  ASSUME TypeOK, NEW p \in Policies, NEW v \in Object, WritePolicy(p, v)
  PROVE  /\ policy' \in [Policies -> Object]
         /\ policyWatch' \in [Policies -> Seq(Object)]
<1>1. policyWatch[p] \in Seq(Object)  BY DEF TypeOK
<1>2. Append(policyWatch[p], v) \in Seq(Object)  BY <1>1
<1>3. QED  BY <1>2 DEF TypeOK, WritePolicy

(* A quota write keeps the quotas and their events well typed.             *)
LEMMA WriteQuotaType ==
  ASSUME TypeOK, NEW p \in Policies, NEW u \in Nat, WriteQuota(p, u)
  PROVE  /\ quota' \in [Policies -> Nat]
         /\ quotaWatch' \in [Policies -> Seq(Nat)]
<1>1. Append(quotaWatch[p], u) \in Seq(Nat)  BY DEF TypeOK
<1>2. QED  BY <1>1 DEF TypeOK, WriteQuota

(* Creating a policy, by a user or as the default, keeps the types.        *)
LEMMA CreateObjectType ==
  ASSUME TypeOK, NEW p \in Policies, CreateObject(p)
  PROVE  /\ policy' \in [Policies -> Object]
         /\ policyWatch' \in [Policies -> Seq(Object)]
         /\ worker' \in Worker
<1>1. [uid |-> policy[p].uid + 1, ready |-> "new"] \in Object
  BY DEF TypeOK, Object, Ready
<1>2. QED  BY <1>1, WritePolicyType, WorkerTypes DEF CreateObject, TypeOK

(* Every step keeps the state well typed: in particular the NotReady       *)
(* condition always names a policy, never nil.                             *)
LEMMA TypeStep == TypeOK /\ WorkerSound /\ [Next]_vars => TypeOK'
<1> SUFFICES ASSUME TypeOK, WorkerSound, [Next]_vars PROVE TypeOK'
  OBVIOUS
<1> USE DEF apiVars, quotaVars, cacheVars
<1>1. ASSUME NEW p \in Policies, CreatePolicy(p) PROVE TypeOK'
  BY <1>1, CreateObjectType DEF CreatePolicy, Operation, TypeOK
<1>2. ASSUME NEW p \in Policies, DeletePolicy(p) PROVE TypeOK'
  <2>1. [policy[p] EXCEPT !.ready = "absent"] \in Object
    BY ReadyType DEF TypeOK, Ready
  <2>2. QED  BY <1>2, <2>1, WritePolicyType, WorkerTypes
             DEF DeletePolicy, Operation, TypeOK
<1>3. ASSUME NEW p \in Policies, EditPolicy(p) PROVE TypeOK'
  <2>1. policy[p] \in Object  BY DEF TypeOK
  <2>2. QED  BY <1>3, <2>1, WritePolicyType, WorkerTypes
             DEF EditPolicy, Operation, TypeOK
<1>4. ASSUME NEW p \in Policies,
             DeleteQuota(p) \/ QuotaUsage(p) \/ CollectQuota(p)
      PROVE TypeOK'
  <2>1. quota[p] \in Nat  BY DEF TypeOK
  <2>2. QED  BY <1>4, <2>1, WriteQuotaType
             DEF DeleteQuota, QuotaUsage, CollectQuota, Operation, TypeOK
<1>5. ASSUME NEW p \in Policies, DeliverPolicy(p) PROVE TypeOK'
  <2>1. /\ Head(policyWatch[p]) \in Object
        /\ Tail(policyWatch[p]) \in Seq(Object)
    BY <1>5 DEF DeliverPolicy, TypeOK
  <2>2. QED  BY <1>5, <2>1 DEF DeliverPolicy, TypeOK
<1>6. ASSUME NEW p \in Policies, DeliverQuota(p) PROVE TypeOK'
  <2>1. /\ Head(quotaWatch[p]) \in Nat
        /\ Tail(quotaWatch[p]) \in Seq(Nat)
    BY <1>6 DEF DeliverQuota, TypeOK
  <2>2. QED  BY <1>6, <2>1 DEF DeliverQuota, TypeOK
<1>7. ASSUME NEW k \in Policies, ListPolicies(k) PROVE TypeOK'
  <2>1. PICK a \in getActivePolicy, i \in FirstItem :
          worker' = [step |-> "get", key |-> k, active |-> a, policy |-> i,
                     uid |-> CachedUid(i), fresh |-> CachedFresh(i)]
    BY <1>7 DEF ListPolicies
  <2>2. a \in Policies \cup {Nobody} /\ i \in Policies \cup {Nobody}
    BY DEF getActivePolicy, ListedActive, FirstItem, Listed
  <2>3. CachedUid(i) \in Nat
    BY <2>2 DEF CachedUid, TypeOK, Object
  <2>4. CachedFresh(i) \in BOOLEAN
    BY DEF CachedFresh
  <2>5. worker' \in Worker
    BY <2>1, <2>2, <2>3, <2>4, NewWorkerType
  <2>6. QED  BY <1>7, <2>5 DEF ListPolicies, TypeOK
<1>8. CASE GetPolicy
  <2> DEFINE k == worker.key
  <2>1. CASE k \in Listed
    <3>1. k \in Policies
      BY <2>1 DEF Listed
    <3>2. CachedUid(k) \in Nat /\ CachedFresh(k) \in BOOLEAN
      BY <3>1 DEF CachedUid, CachedFresh, TypeOK, Object
    <3>3. StepFor(k, worker.active) \in {"quota", "status"}
      BY DEF StepFor
    <3>4. worker' \in Worker
      BY <1>8, <2>1, <3>1, <3>2, <3>3 DEF GetPolicy, Worker, TypeOK
    <3>5. QED  BY <1>8, <3>4 DEF GetPolicy, TypeOK
  <2>2. CASE k \notin Listed
    <3>1. worker' \in Worker
      BY <1>8, <2>2, WorkerTypes DEF GetPolicy, Worker, TypeOK
    <3>2. QED  BY <1>8, <3>1 DEF GetPolicy, TypeOK
  <2>3. QED  BY <2>1, <2>2
<1>9. CASE EnsureQuota
  <2> DEFINE p == worker.policy
  <2>1. p \in Policies /\ worker.key \in Policies /\ worker.uid \in Nat
    BY <1>9 DEF EnsureQuota, WorkerSound, TypeOK, Worker
  <2>2. /\ [worker EXCEPT !.step = "status"] \in Worker
        /\ queue \cup {worker.key} \in SUBSET Policies
    BY <2>1 DEF TypeOK, Worker
  <2>3. CASE WriteQuota(p, worker.uid) /\ CreateQuota(p)
    BY <1>9, <2>1, <2>2, <2>3, WriteQuotaType, WorkerTypes
    DEF EnsureQuota, CreateQuota, Requeue, TypeOK
  <2>4. CASE WriteQuota(p, worker.uid) /\ UpdateQuota(p)
    BY <1>9, <2>1, <2>2, <2>4, WriteQuotaType, WorkerTypes
    DEF EnsureQuota, UpdateQuota, Requeue, TypeOK
  <2>5. CASE UNCHANGED quotaVars
    BY <1>9, <2>1, <2>2, <2>5, WorkerTypes
    DEF EnsureQuota, CreateQuota, UpdateQuota, KeepQuota, Requeue, TypeOK
  <2>6. QED
    BY <1>9, <2>3, <2>4, <2>5 DEF EnsureQuota, CreateQuota, UpdateQuota, KeepQuota
<1>10. CASE updateStatusCondition
  <2> DEFINE p == worker.policy
             v == [policy[p] EXCEPT !.ready = Condition(p, worker.active)]
  <2>1. p \in Policies /\ worker.key \in Policies
    BY <1>10 DEF updateStatusCondition, WorkerSound, TypeOK, Worker
  <2>2. Condition(p, worker.active) \in Ready
    BY DEF Condition, TypeOK, Worker, Ready
  <2>3. v \in Object
    BY <2>1, <2>2, ReadyType DEF TypeOK
  <2>4. CASE WritePolicy(p, v)
    BY <1>10, <2>1, <2>3, <2>4, WritePolicyType, WorkerTypes
    DEF updateStatusCondition, Requeue, TypeOK
  <2>5. CASE UNCHANGED apiVars
    BY <1>10, <2>1, <2>5, WorkerTypes
    DEF updateStatusCondition, Requeue, TypeOK
  <2>6. QED  BY <1>10, <2>4, <2>5 DEF updateStatusCondition
<1>11. CASE DeploymentCreated \/ CheckDefaultPolicy
  BY <1>11 DEF DeploymentCreated, CheckDefaultPolicy, Operation, TypeOK
<1>12. CASE CreateDefaultPolicy
  BY <1>12, CreateObjectType, PoliciesAssumption DEF CreateDefaultPolicy, TypeOK
<1>13. CASE Restart
  BY <1>13, WorkerTypes DEF Restart, Operation, TypeOK
<1>14. CASE UNCHANGED vars
  BY <1>14 DEF vars, TypeOK
<1>15. QED
  BY <1>1, <1>2, <1>3, <1>4, <1>5, <1>6, <1>7, <1>8, <1>9, <1>10, <1>11,
     <1>12, <1>13, <1>14 DEF Next, Reconcile

-----------------------------------------------------------------------------
(* What the steps do to the set of pending keys.                           *)

(* An appended event is the last one, and the first if it is alone.        *)
LEMMA AppendFacts ==
  ASSUME NEW S, NEW s \in Seq(S), NEW x \in S
  PROVE  /\ Append(s, x) # <<>>
         /\ Append(s, x)[Len(Append(s, x))] = x
  OBVIOUS

(* Taking the first event leaves the last one in place, or none.           *)
LEMMA TailFacts ==
  ASSUME NEW S, NEW s \in Seq(S), s # <<>>
  PROVE  /\ Tail(s) = <<>> => Head(s) = s[Len(s)]
         /\ Tail(s) # <<>> => Tail(s)[Len(Tail(s))] = s[Len(s)]
<1>1. /\ Tail(s) \in Seq(S)
      /\ Len(Tail(s)) = Len(s) - 1
      /\ \A i \in 1 .. Len(Tail(s)) : Tail(s)[i] = s[i + 1]
  BY HeadTailProperties
<1>2. Len(s) \in Nat /\ Len(Tail(s)) \in Nat
  BY <1>1
<1>3. ASSUME Tail(s) = <<>> PROVE Head(s) = s[Len(s)]
  <2>1. Len(s) = 1
    <3>1. Len(Tail(s)) = 0  BY <1>1, <1>3, EmptySeq
    <3>2. \A m, n \in Nat : m = n - 1 /\ m = 0 => n = 1
      OBVIOUS
    <3>3. QED  BY <1>1, <1>2, <3>1, <3>2, Zenon
  <2>2. Head(s) = s[1]
    OBVIOUS
  <2>3. QED  BY <2>1, <2>2
<1>4. ASSUME Tail(s) # <<>> PROVE Tail(s)[Len(Tail(s))] = s[Len(s)]
  <2>1. Len(Tail(s)) # 0
    BY <1>1, <1>4
  <2>2. QED  BY <1>1, <1>2, <2>1
<1>5. QED  BY <1>3, <1>4

(* A policy write makes that policy pending and no other less so.          *)
LEMMA WritePolicyPending ==
  ASSUME TypeOK, NEW p \in Policies, NEW v \in Object, WritePolicy(p, v),
         UNCHANGED <<quotaWatch, queue>>
  PROVE  /\ Pending' = Pending \cup {p}
         /\ policy' = [policy EXCEPT ![p] = v]
         /\ policyWatch'[p] # <<>>
         /\ policyWatch'[p][Len(policyWatch'[p])] = v
         /\ \A q \in Policies \ {p} : policyWatch'[q] = policyWatch[q]
<1>1. policyWatch[p] \in Seq(Object)
  BY DEF TypeOK
<1>2. policyWatch'[p] = Append(policyWatch[p], v)
  BY DEF TypeOK, WritePolicy
<1>3. \A q \in Policies \ {p} : policyWatch'[q] = policyWatch[q]
  BY DEF TypeOK, WritePolicy
<1>4. /\ policyWatch'[p] # <<>>
      /\ policyWatch'[p][Len(policyWatch'[p])] = v
  BY <1>1, <1>2, AppendFacts
<1>5. QED  BY <1>3, <1>4 DEF WritePolicy, Pending

(* So does a quota write.                                                  *)
LEMMA WriteQuotaPending ==
  ASSUME TypeOK, NEW p \in Policies, NEW u \in Nat, WriteQuota(p, u),
         UNCHANGED <<policyWatch, queue>>
  PROVE  /\ Pending' = Pending \cup {p}
         /\ quota' = [quota EXCEPT ![p] = u]
         /\ quotaWatch'[p] # <<>>
         /\ quotaWatch'[p][Len(quotaWatch'[p])] = u
         /\ \A q \in Policies \ {p} : quotaWatch'[q] = quotaWatch[q]
<1>1. quotaWatch[p] \in Seq(Nat)
  BY DEF TypeOK
<1>2. quotaWatch'[p] = Append(quotaWatch[p], u)
  BY DEF TypeOK, WriteQuota
<1>3. \A q \in Policies \ {p} : quotaWatch'[q] = quotaWatch[q]
  BY DEF TypeOK, WriteQuota
<1>4. /\ quotaWatch'[p] # <<>>
      /\ quotaWatch'[p][Len(quotaWatch'[p])] = u
  BY <1>1, <1>2, AppendFacts
<1>5. QED  BY <1>3, <1>4 DEF WriteQuota, Pending

(* An outdated worker differs in its freshness only.                       *)
LEMMA OutdatedFields ==
  ASSUME TypeOK, NEW p \in Policies, worker' = Outdated(worker, p)
  PROVE  /\ worker'.step = worker.step /\ worker'.key = worker.key
         /\ worker'.active = worker.active /\ worker'.policy = worker.policy
         /\ worker'.uid = worker.uid
         /\ worker'.fresh <=> worker.fresh /\ worker.policy # p
  BY DEF TypeOK, Worker, Outdated

-----------------------------------------------------------------------------
(* The four parts of the inductive invariant that are not typing.          *)
Sound == CacheCoherent /\ WorkerSound /\ NoneForgotten /\ ElectionPending

(* A write to a policy by anyone but the reconciler keeps the invariant:   *)
(* the policy becomes pending, and the version in hand outdated.           *)
LEMMA OthersWritePolicy ==
  ASSUME TypeOK, Sound, NEW p \in Policies, NEW v \in Object,
         WritePolicy(p, v), worker' = Outdated(worker, p),
         UNCHANGED <<quotaVars, cacheVars, queue>>
  PROVE  Sound'
<1> USE DEF quotaVars, cacheVars
<1>1. /\ Pending' = Pending \cup {p}
      /\ policy' = [policy EXCEPT ![p] = v]
      /\ policyWatch'[p] # <<>>
      /\ policyWatch'[p][Len(policyWatch'[p])] = v
      /\ \A q \in Policies \ {p} : policyWatch'[q] = policyWatch[q]
  BY WritePolicyPending
<1>2. /\ worker'.step = worker.step /\ worker'.key = worker.key
      /\ worker'.active = worker.active /\ worker'.policy = worker.policy
      /\ worker'.uid = worker.uid
      /\ worker'.fresh <=> worker.fresh /\ worker.policy # p
  BY OutdatedFields
<1>3. /\ policy'[p] = v
      /\ \A q \in Policies \ {p} : policy'[q] = policy[q]
  BY <1>1 DEF TypeOK
<1>4. CacheCoherent'
  BY <1>1, <1>3 DEF Sound, CacheCoherent
<1>5. WorkerSound'
  <2> SUFFICES ASSUME worker.step # "idle" PROVE WorkerSound'
    BY <1>2 DEF WorkerSound
  <2>1. worker.policy \in Policies \cup {Nobody} /\ worker.active \in Policies \cup {Nobody}
    BY DEF TypeOK, Worker
  <2>2. WorkerSound
    BY DEF Sound
  <2>3. QED
    BY <1>1, <1>2, <1>3, <2>1, <2>2 DEF WorkerSound, Exists, IsActive, Condition
<1>6. NoneForgotten'
  BY <1>1, <1>2, <1>3 DEF Sound, NoneForgotten, Attended, IsActive
<1>7. ElectionPending'
  BY <1>1 DEF ElectionPending
<1>8. QED  BY <1>4, <1>5, <1>6, <1>7 DEF Sound

(* So does a write to a quota.                                             *)
LEMMA OthersWriteQuota ==
  ASSUME TypeOK, Sound, NEW p \in Policies, NEW u \in Nat,
         WriteQuota(p, u), UNCHANGED <<apiVars, cacheVars, queue, worker>>
  PROVE  Sound'
<1> USE DEF apiVars, cacheVars
<1>1. /\ Pending' = Pending \cup {p}
      /\ quota' = [quota EXCEPT ![p] = u]
      /\ quotaWatch'[p] # <<>>
      /\ quotaWatch'[p][Len(quotaWatch'[p])] = u
      /\ \A q \in Policies \ {p} : quotaWatch'[q] = quotaWatch[q]
  BY WriteQuotaPending
<1>2. /\ quota'[p] = u
      /\ \A q \in Policies \ {p} : quota'[q] = quota[q]
  BY <1>1 DEF TypeOK
<1>3. CacheCoherent'
  BY <1>1, <1>2 DEF Sound, CacheCoherent
<1>4. WorkerSound'
  <2>1. worker.policy \in Policies \cup {Nobody}
    BY DEF TypeOK, Worker
  <2>2. QED
    BY <1>1, <1>2, <2>1 DEF Sound, WorkerSound, Exists, IsActive, Condition
<1>5. NoneForgotten'
  BY <1>1, <1>2 DEF Sound, NoneForgotten, Attended, IsActive
<1>6. ElectionPending'
  BY <1>1 DEF ElectionPending
<1>7. QED  BY <1>3, <1>4, <1>5, <1>6 DEF Sound

(* Delivering an event moves its key from the watch to the queue.          *)
LEMMA DeliverPolicySound ==
  ASSUME TypeOK, Sound, NEW p \in Policies, DeliverPolicy(p)
  PROVE  Sound'
<1> USE DEF quotaVars
<1>1. policyWatch[p] \in Seq(Object) /\ policyWatch[p] # <<>>
  BY DEF TypeOK, DeliverPolicy
<1>2. /\ policyWatch'[p] = Tail(policyWatch[p])
      /\ policyCache'[p] = Head(policyWatch[p])
      /\ \A q \in Policies \ {p} : /\ policyWatch'[q] = policyWatch[q]
                                   /\ policyCache'[q] = policyCache[q]
  BY DEF TypeOK, DeliverPolicy
<1>3. Pending' = Pending
  BY <1>1, <1>2 DEF DeliverPolicy, Pending
<1>4. CacheCoherent'
  <2>1. /\ policyWatch'[p] = <<>> => policyCache'[p] = policy[p]
        /\ policyWatch'[p] # <<>> =>
             policyWatch'[p][Len(policyWatch'[p])] = policy[p]
    BY <1>1, <1>2, TailFacts DEF Sound, CacheCoherent
  <2>2. QED  BY <1>2, <2>1 DEF Sound, CacheCoherent, DeliverPolicy
<1>5. WorkerSound' /\ NoneForgotten' /\ ElectionPending'
  BY <1>3 DEF Sound, WorkerSound, NoneForgotten, ElectionPending, Attended,
              Exists, IsActive, Condition, DeliverPolicy
<1>6. QED  BY <1>4, <1>5 DEF Sound

(* The same for the events of the quotas.                                  *)
LEMMA DeliverQuotaSound ==
  ASSUME TypeOK, Sound, NEW p \in Policies, DeliverQuota(p)
  PROVE  Sound'
<1> USE DEF apiVars
<1>1. quotaWatch[p] \in Seq(Nat) /\ quotaWatch[p] # <<>>
  BY DEF TypeOK, DeliverQuota
<1>2. /\ quotaWatch'[p] = Tail(quotaWatch[p])
      /\ quotaCache'[p] = Head(quotaWatch[p])
      /\ \A q \in Policies \ {p} : /\ quotaWatch'[q] = quotaWatch[q]
                                   /\ quotaCache'[q] = quotaCache[q]
  BY DEF TypeOK, DeliverQuota
<1>3. Pending' = Pending
  BY <1>1, <1>2 DEF DeliverQuota, Pending
<1>4. CacheCoherent'
  <2>1. /\ quotaWatch'[p] = <<>> => quotaCache'[p] = quota[p]
        /\ quotaWatch'[p] # <<>> => quotaWatch'[p][Len(quotaWatch'[p])] = quota[p]
    BY <1>1, <1>2, TailFacts DEF Sound, CacheCoherent
  <2>2. QED  BY <1>2, <2>1 DEF Sound, CacheCoherent, DeliverQuota
<1>5. WorkerSound' /\ NoneForgotten' /\ ElectionPending'
  BY <1>3 DEF Sound, WorkerSound, NoneForgotten, ElectionPending, Attended,
              Exists, IsActive, Condition, DeliverQuota
<1>6. QED  BY <1>4, <1>5 DEF Sound

(* What a list of the cache says is true of the API server, or pending.    *)
LEMMA ListSound ==
  ASSUME TypeOK, Sound, NEW k \in Policies, ListPolicies(k)
  PROVE  Sound'
<1> USE DEF apiVars, quotaVars, cacheVars
<1>1. PICK a \in getActivePolicy, i \in FirstItem :
        worker' = [step |-> "get", key |-> k, active |-> a, policy |-> i,
                   uid |-> CachedUid(i), fresh |-> CachedFresh(i)]
  BY DEF ListPolicies
<1>2. /\ worker'.step = "get" /\ worker'.key = k /\ worker'.active = a
      /\ worker'.policy = i /\ worker'.uid = CachedUid(i)
      /\ worker'.fresh <=> CachedFresh(i)
  BY <1>1
<1>3. /\ Pending \ {k} \subseteq Pending'
      /\ \A p \in Policies : policyWatch[p] # <<>> => p \in Pending'
  BY DEF ListPolicies, Pending
<1>4. CacheCoherent'
  BY DEF Sound, CacheCoherent, ListPolicies
<1>5. WorkerSound'
  <2>1. i # Nobody => IF worker'.fresh
                      THEN Exists(i) /\ worker'.uid = policy[i].uid
                      ELSE i \in Pending'
    BY <1>2, <1>3 DEF FirstItem, Listed, CachedUid, CachedFresh, Exists, Sound,
                      CacheCoherent
  <2>2. a # Nobody => IsActive(a) \/ a \in Pending'
    BY <1>3 DEF getActivePolicy, ListedActive, Listed, IsActive, Sound, CacheCoherent
  <2>3. i # Nobody => a = Nobody
    BY DEF FirstItem, getActivePolicy
  <2>4. i = Nobody /\ a = Nobody =>
          \A p \in Policies : Exists(p) => p \in Pending'
    BY <1>3, PoliciesAssumption
    DEF FirstItem, getActivePolicy, ListedActive, Listed, Exists, Sound, CacheCoherent
  <2>5. UNCHANGED <<policy, quota>>
    BY DEF ListPolicies
  <2>6. QED
    BY <1>2, <2>1, <2>2, <2>3, <2>4, <2>5 DEF WorkerSound, Exists, IsActive
<1>6. NoneForgotten'
  BY <1>2, <1>3 DEF Sound, NoneForgotten, Attended, IsActive, ListPolicies
<1>7. ElectionPending'
  BY <1>2 DEF ElectionPending
<1>8. QED  BY <1>4, <1>5, <1>6, <1>7 DEF Sound

(* Going on with the policy found, or with the first listed one, or with   *)
(* none when another policy is active or nothing was listed.               *)
LEMMA GetSound ==
  ASSUME TypeOK, Sound, GetPolicy
  PROVE  Sound'
<1> USE DEF apiVars, quotaVars, cacheVars
<1> DEFINE k == worker.key
<1>1. /\ worker.step = "get" /\ k \in Policies
      /\ worker.policy \in Policies \cup {Nobody}
      /\ worker.active \in Policies \cup {Nobody}
  BY DEF GetPolicy, Sound, WorkerSound, TypeOK, Worker
<1>2. /\ Pending' = Pending
      /\ UNCHANGED <<policy, quota>>
      /\ \A p \in Policies : policyWatch[p] # <<>> => p \in Pending
  BY DEF GetPolicy, Pending
<1>3. CacheCoherent'
  BY DEF Sound, CacheCoherent, GetPolicy
<1>4. CASE k \in Listed
  <2>1. /\ worker'.step = StepFor(k, worker.active) /\ worker'.key = k
        /\ worker'.active = worker.active /\ worker'.policy = k
        /\ worker'.uid = CachedUid(k)
        /\ worker'.fresh <=> CachedFresh(k)
    BY <1>1, <1>4 DEF GetPolicy, TypeOK, Worker
  <2>2. IF worker'.fresh THEN Exists(k) /\ worker'.uid = policy[k].uid
                         ELSE k \in Pending
    BY <1>1, <1>2, <1>4, <2>1, PoliciesAssumption
    DEF Listed, CachedUid, CachedFresh, Exists, Sound, CacheCoherent
  <2>3. WorkerSound'
    <3>1. /\ worker'.step \in {"quota", "status"}
          /\ worker'.step = "quota" <=> Condition(k, worker.active) = "active"
      BY <2>1 DEF StepFor
    <3>2. worker.active # Nobody =>
            IsActive(worker.active) \/ worker.active \in Pending
      BY <1>1 DEF Sound, WorkerSound
    <3>3. QED
      BY <1>1, <1>2, <2>1, <2>2, <3>1, <3>2, PoliciesAssumption
      DEF WorkerSound, Exists, IsActive
  <2>4. NoneForgotten'
    BY <1>1, <1>2, <2>1 DEF StepFor, Sound, NoneForgotten, Attended, IsActive
  <2>5. ElectionPending'
    BY <2>1 DEF StepFor, ElectionPending
  <2>6. QED  BY <1>3, <2>3, <2>4, <2>5 DEF Sound
<1>5. CASE k \notin Listed /\ worker.policy # Nobody
  <2>1. /\ worker'.step = "quota" /\ worker'.key = k
        /\ worker'.active = worker.active /\ worker'.policy = worker.policy
        /\ worker'.uid = worker.uid /\ worker'.fresh = worker.fresh
    BY <1>5 DEF GetPolicy, TypeOK, Worker
  <2>2. Exists(k) => k \in Pending
    BY <1>1, <1>2, <1>5 DEF Listed, Exists, Sound, CacheCoherent
  <2>3. WorkerSound'
    BY <1>1, <1>2, <1>5, <2>1 DEF Sound, WorkerSound, Exists, IsActive, Condition
  <2>4. NoneForgotten'
    BY <1>1, <1>2, <2>1, <2>2, PoliciesAssumption
    DEF Sound, NoneForgotten, Attended, IsActive, Exists
  <2>5. ElectionPending'
    BY <2>1 DEF ElectionPending
  <2>6. QED  BY <1>3, <2>3, <2>4, <2>5 DEF Sound
<1>6. CASE k \notin Listed /\ worker.policy = Nobody
  <2>1. worker' = IdleWorker /\ worker'.step = "idle"
    BY <1>6 DEF GetPolicy, IdleWorker
  <2>2. Exists(k) => k \in Pending
    BY <1>1, <1>2, <1>6 DEF Listed, Exists, Sound, CacheCoherent
  <2>3. WorkerSound'
    BY <2>1 DEF WorkerSound
  <2>4. NoneForgotten'
    BY <1>1, <1>2, <1>6, <2>1, <2>2 DEF Sound, NoneForgotten, Attended, IsActive, Exists
  <2>5. ElectionPending'
    BY <1>1, <1>2, <1>6 DEF Sound, WorkerSound, ElectionPending, Exists, IsActive
  <2>6. QED  BY <1>3, <2>3, <2>4, <2>5 DEF Sound
<1>7. QED  BY <1>4, <1>5, <1>6

(* A failed step queues the request again.                                 *)
LEMMA RequeueSound ==
  ASSUME TypeOK, Sound, Requeue, worker.step # "idle",
         worker.step # "get", worker.policy \in Pending,
         UNCHANGED <<apiVars, quotaVars, cacheVars>>
  PROVE  Sound'
<1> USE DEF apiVars, quotaVars, cacheVars
<1>1. worker.key \in Policies
  BY DEF Sound, WorkerSound
<1>2. Pending' = Pending \cup {worker.key}
  BY <1>1 DEF Requeue, Pending
<1>3. worker'.step = "idle"
  BY DEF Requeue, IdleWorker
<1>4. CacheCoherent'
  BY DEF Sound, CacheCoherent
<1>5. WorkerSound'
  BY <1>3 DEF WorkerSound
<1>6. NoneForgotten'
  BY <1>2 DEF Sound, NoneForgotten, Attended, IsActive
<1>7. ElectionPending'
  BY <1>2 DEF ElectionPending
<1>8. QED  BY <1>4, <1>5, <1>6, <1>7 DEF Sound

(* After the quota step the policy's quota is there, or its loss pending.  *)
LEMMA EnsureQuotaSound ==
  ASSUME TypeOK, Sound, EnsureQuota
  PROVE  Sound'
<1> USE DEF apiVars, quotaVars, cacheVars
<1> DEFINE p == worker.policy
<1>1. /\ worker.step = "quota" /\ p \in Policies /\ worker.uid \in Nat
      /\ Condition(p, worker.active) = "active"
      /\ worker.active \in Policies \cup {Nobody}
  BY DEF EnsureQuota, Sound, WorkerSound, TypeOK, Worker
<1>2. quotaWatch[p] # <<>> => p \in Pending
  BY <1>1 DEF Pending
<1>3. ASSUME Requeue, UNCHANGED quotaVars, quotaWatch[p] # <<>> PROVE Sound'
  BY <1>1, <1>2, <1>3, RequeueSound DEF EnsureQuota
<1>4. ASSUME worker' = [worker EXCEPT !.step = "status"]
      PROVE  /\ worker'.step = "status" /\ worker'.key = worker.key
             /\ worker'.active = worker.active /\ worker'.policy = p
             /\ worker'.uid = worker.uid /\ worker'.fresh = worker.fresh
  BY <1>4 DEF TypeOK, Worker
<1>5. ASSUME WriteQuota(p, worker.uid), UNCHANGED queue,
             worker' = [worker EXCEPT !.step = "status"]
      PROVE  Sound'
  <2>1. /\ Pending' = Pending \cup {p}
        /\ quota' = [quota EXCEPT ![p] = worker.uid]
        /\ quotaWatch'[p] # <<>>
        /\ quotaWatch'[p][Len(quotaWatch'[p])] = worker.uid
        /\ \A q \in Policies \ {p} : quotaWatch'[q] = quotaWatch[q]
    BY <1>1, <1>5, WriteQuotaPending DEF EnsureQuota
  <2>2. /\ quota'[p] = worker.uid
        /\ \A q \in Policies \ {p} : quota'[q] = quota[q]
    BY <1>1, <2>1 DEF TypeOK
  <2>3. UNCHANGED <<policy, policyWatch, policyCache, quotaCache>>
    BY DEF EnsureQuota
  <2>4. CacheCoherent'
    BY <2>1, <2>2, <2>3 DEF Sound, CacheCoherent
  <2>5. WorkerSound'
    BY <1>1, <1>4, <1>5, <2>1, <2>2, <2>3
    DEF Sound, WorkerSound, Exists, IsActive, Condition
  <2>6. NoneForgotten'
    BY <1>1, <1>4, <1>5, <2>1, <2>2, <2>3 DEF Sound, NoneForgotten, Attended, IsActive
  <2>7. ElectionPending'
    BY <1>4, <1>5 DEF ElectionPending
  <2>8. QED  BY <2>4, <2>5, <2>6, <2>7 DEF Sound
<1>6. ASSUME KeepQuota(p) PROVE Sound'
  <2>1. /\ Pending' = Pending
        /\ UNCHANGED <<policy, quota, policyWatch, quotaWatch, policyCache, quotaCache>>
    BY <1>6 DEF KeepQuota, EnsureQuota, Pending
  <2>2. quota[p] = worker.uid \/ p \in Pending
    BY <1>1, <1>2, <1>6 DEF KeepQuota, Sound, CacheCoherent
  <2>3. worker' = [worker EXCEPT !.step = "status"]
    BY <1>6 DEF KeepQuota
  <2>4. CacheCoherent'
    BY <2>1 DEF Sound, CacheCoherent
  <2>5. WorkerSound'
    BY <1>1, <1>4, <2>1, <2>2, <2>3 DEF Sound, WorkerSound, Exists, IsActive, Condition
  <2>6. NoneForgotten'
    BY <1>1, <1>4, <2>1, <2>3 DEF Sound, NoneForgotten, Attended, IsActive
  <2>7. ElectionPending'
    BY <1>4, <2>3 DEF ElectionPending
  <2>8. QED  BY <2>4, <2>5, <2>6, <2>7 DEF Sound
<1>7. ASSUME CreateQuota(p) PROVE Sound'
  <2>1. quota[p] # 0 => quotaWatch[p] # <<>>
    BY <1>1, <1>7 DEF CreateQuota, Sound, CacheCoherent
  <2>2. QED  BY <1>3, <1>5, <1>7, <2>1 DEF CreateQuota
<1>8. ASSUME UpdateQuota(p) PROVE Sound'
  BY <1>3, <1>5, <1>8 DEF UpdateQuota
<1>9. QED  BY <1>6, <1>7, <1>8 DEF EnsureQuota

(* Facts of a reconcile that is about to write the status.                 *)
LEMMA StatusFacts ==
  ASSUME TypeOK, Sound, updateStatusCondition
  PROVE  /\ worker.step = "status" /\ worker.policy \in Policies
         /\ worker.active \in Policies \cup {Nobody}
         /\ Condition(worker.policy, worker.active) \in Ready \ {"new", "absent"}
         /\ [policy[worker.policy] EXCEPT
               !.ready = Condition(worker.policy, worker.active)] \in Object
<1>1. /\ worker.step = "status" /\ worker.policy \in Policies
      /\ worker.active \in Policies \cup {Nobody}
  BY DEF updateStatusCondition, Sound, WorkerSound, TypeOK, Worker
<1>2. Condition(worker.policy, worker.active) \in Ready \ {"new", "absent"}
  BY <1>1, PoliciesAssumption DEF Condition, Ready
<1>3. QED  BY <1>1, <1>2, ReadyType DEF TypeOK

(* The status write of the reconciler keeps the invariant: it is made      *)
(* with a current version, or the change that outdated it is pending.      *)
LEMMA UpdateStatusSound ==
  ASSUME TypeOK, Sound, updateStatusCondition
  PROVE  Sound'
<1> USE DEF apiVars, quotaVars, cacheVars
<1> DEFINE p == worker.policy
           c == Condition(p, worker.active)
           v == [policy[p] EXCEPT !.ready = c]
<1>1. /\ worker.step = "status" /\ p \in Policies
      /\ worker.active \in Policies \cup {Nobody}
      /\ c \in Ready \ {"new", "absent"} /\ v \in Object
  BY StatusFacts
<1>2. CASE ~worker.fresh
  <2>1. p \in Pending
    BY <1>1, <1>2, PoliciesAssumption DEF Sound, WorkerSound
  <2>2. QED  BY <1>1, <1>2, <2>1, RequeueSound DEF updateStatusCondition
<1>3. CASE worker.fresh /\ v # policy[p]
  <2>1. /\ worker' = IdleWorker /\ WritePolicy(p, v)
        /\ UNCHANGED <<quota, quotaWatch, policyCache, quotaCache, queue>>
    BY <1>3 DEF updateStatusCondition
  <2>2. /\ Pending' = Pending \cup {p}
        /\ policy' = [policy EXCEPT ![p] = v]
        /\ policyWatch'[p] # <<>>
        /\ policyWatch'[p][Len(policyWatch'[p])] = v
        /\ \A q \in Policies \ {p} : policyWatch'[q] = policyWatch[q]
    BY <1>1, <2>1, WritePolicyPending
  <2>3. /\ policy'[p] = v
        /\ \A q \in Policies \ {p} : policy'[q] = policy[q]
    BY <1>1, <2>2 DEF TypeOK
  <2>4. worker'.step = "idle"
    BY <2>1 DEF IdleWorker
  <2>5. CacheCoherent'
    BY <2>1, <2>2, <2>3 DEF Sound, CacheCoherent
  <2>6. WorkerSound'
    BY <2>4 DEF WorkerSound
  <2>7. NoneForgotten'
    BY <1>1, <2>1, <2>2, <2>3 DEF Sound, NoneForgotten, Attended, IsActive
  <2>8. ElectionPending'
    BY <2>2 DEF ElectionPending
  <2>9. QED  BY <2>5, <2>6, <2>7, <2>8 DEF Sound
<1>4. CASE worker.fresh /\ v = policy[p]
  <2>1. /\ worker' = IdleWorker
        /\ UNCHANGED <<policy, policyWatch, quota, quotaWatch, policyCache,
                       quotaCache, queue>>
    BY <1>4 DEF updateStatusCondition
  <2>2. Pending' = Pending
    BY <2>1 DEF Pending
  <2>3. worker'.step = "idle"
    BY <2>1 DEF IdleWorker
  <2>4. policy[p].ready = c
    BY <1>1, <1>4 DEF TypeOK, Object
  <2>5. c = "active" => quota[p] = policy[p].uid \/ p \in Pending
    BY <1>1, <1>4, PoliciesAssumption DEF Sound, WorkerSound
  <2>6. CacheCoherent'
    BY <2>1 DEF Sound, CacheCoherent
  <2>7. WorkerSound'
    BY <2>3 DEF WorkerSound
  <2>8. NoneForgotten'
    BY <1>1, <2>1, <2>2, <2>4, <2>5 DEF Sound, NoneForgotten, Attended, IsActive
  <2>9. ElectionPending'
    <3>1. c # "active" => /\ worker.active \in Policies
                          /\ IsActive(worker.active) \/ worker.active \in Pending
      BY <1>1, PoliciesAssumption DEF Condition, Sound, WorkerSound
    <3>2. QED
      BY <1>1, <2>1, <2>2, <2>4, <3>1 DEF ElectionPending, IsActive, Exists
  <2>10. QED  BY <2>6, <2>7, <2>8, <2>9 DEF Sound
<1>5. QED  BY <1>2, <1>3, <1>4

(* A restart queues every policy there is, so that nothing is forgotten.   *)
LEMMA RestartSound ==
  ASSUME TypeOK, Sound, Restart
  PROVE  Sound'
<1>1. /\ \A p \in Policies : Exists(p) => p \in Pending'
      /\ worker'.step = "idle"
      /\ UNCHANGED <<policy, quota>>
  BY DEF Restart, Pending, IdleWorker
<1>2. CacheCoherent'
  BY DEF Restart, CacheCoherent
<1>3. WorkerSound' /\ NoneForgotten' /\ ElectionPending'
  BY <1>1 DEF WorkerSound, NoneForgotten, ElectionPending, Attended, Exists, IsActive
<1>4. QED  BY <1>2, <1>3 DEF Sound

-----------------------------------------------------------------------------
(* The invariant is inductive.                                             *)
LEMMA InitIInv == Init => IInv
<1> SUFFICES ASSUME Init PROVE IInv
  OBVIOUS
<1>1. PICK S \in SUBSET Policies :
        /\ policy = [p \in Policies |->
                       IF p \in S THEN [uid |-> 1, ready |-> "new"]
                                  ELSE [uid |-> 0, ready |-> "absent"]]
        /\ queue = S
  BY DEF Init
<1>2. policy \in [Policies -> Object]
  BY <1>1 DEF Object, Ready
<1>3. TypeOK
  BY <1>1, <1>2, WorkerTypes DEF Init, TypeOK
<1>4. CacheCoherent
  BY DEF Init, CacheCoherent
<1>5. worker.step = "idle"
  BY DEF Init, IdleWorker
<1>6. \A p \in Policies : Exists(p) => p \in Pending
  BY <1>1 DEF Exists, Pending
<1>7. WorkerSound /\ NoneForgotten /\ ElectionPending
  BY <1>5, <1>6 DEF WorkerSound, NoneForgotten, ElectionPending, Attended, Exists,
                    IsActive
<1>8. QED  BY <1>3, <1>4, <1>7 DEF IInv

(* Creating a policy keeps the invariant: the policy is pending.           *)
LEMMA CreateObjectSound ==
  ASSUME TypeOK, Sound, NEW p \in Policies, CreateObject(p),
         UNCHANGED <<quotaVars, cacheVars, queue>>
  PROVE  Sound'
<1>1. [uid |-> policy[p].uid + 1, ready |-> "new"] \in Object
  BY DEF TypeOK, Object, Ready
<1>2. QED  BY <1>1, OthersWritePolicy DEF CreateObject

(* Every step of the policy controller and its environment keeps the       *)
(* invariant.                                                              *)
LEMMA NextIInv == IInv /\ [Next]_vars => IInv'
<1> SUFFICES ASSUME IInv, [Next]_vars PROVE IInv'
  OBVIOUS
<1> USE DEF apiVars, quotaVars, cacheVars
<1>1. TypeOK /\ Sound
  BY DEF IInv, Sound
<1>2. TypeOK'
  BY <1>1, TypeStep DEF Sound
<1> SUFFICES Sound'
  BY <1>2 DEF IInv, Sound
<1>3. ASSUME NEW p \in Policies, CreatePolicy(p) PROVE Sound'
  BY <1>1, <1>3, CreateObjectSound DEF CreatePolicy
<1>4. ASSUME NEW p \in Policies, DeletePolicy(p) PROVE Sound'
  <2>1. [policy[p] EXCEPT !.ready = "absent"] \in Object
    BY <1>1, ReadyType DEF TypeOK, Ready
  <2>2. QED  BY <1>1, <1>4, <2>1, OthersWritePolicy DEF DeletePolicy
<1>5. ASSUME NEW p \in Policies, EditPolicy(p) PROVE Sound'
  <2>1. policy[p] \in Object
    BY <1>1 DEF TypeOK
  <2>2. QED  BY <1>1, <1>5, <2>1, OthersWritePolicy DEF EditPolicy
<1>6. ASSUME NEW p \in Policies,
             DeleteQuota(p) \/ QuotaUsage(p) \/ CollectQuota(p)
      PROVE  Sound'
  <2>1. quota[p] \in Nat
    BY <1>1 DEF TypeOK
  <2>2. QED
    BY <1>1, <1>6, <2>1, OthersWriteQuota DEF DeleteQuota, QuotaUsage, CollectQuota
<1>7. ASSUME NEW p \in Policies, DeliverPolicy(p) \/ DeliverQuota(p) PROVE Sound'
  BY <1>1, <1>7, DeliverPolicySound, DeliverQuotaSound
<1>8. ASSUME NEW k \in Policies, ListPolicies(k) PROVE Sound'
  BY <1>1, <1>8, ListSound
<1>9. CASE Reconcile
  BY <1>1, <1>9, GetSound, EnsureQuotaSound, UpdateStatusSound DEF Reconcile
<1>10. CASE UNCHANGED <<apiVars, quotaVars, cacheVars, queue, worker>>
  BY <1>1, <1>10 DEF Sound, CacheCoherent, WorkerSound, NoneForgotten,
     ElectionPending, Attended, Pending, Exists, IsActive, Condition
<1>11. CASE CreateDefaultPolicy
  BY <1>1, <1>10, <1>11, CreateObjectSound, PoliciesAssumption DEF CreateDefaultPolicy
<1>12. CASE Restart
  BY <1>1, <1>12, RestartSound
<1>13. QED
  BY <1>3, <1>4, <1>5, <1>6, <1>7, <1>8, <1>9, <1>10, <1>11, <1>12
  DEF Next, DeploymentCreated, CheckDefaultPolicy, vars

(* The invariant holds of the policy controller in every environment.      *)
THEOREM Invariance == Spec => []IInv
  BY InitIInv, NextIInv, PTL DEF Spec

(* Every state of the policy controller is well typed.                     *)
THEOREM TypeCorrect == Spec => []TypeOK
<1>1. IInv => TypeOK
  BY DEF IInv
<1>2. QED  BY <1>1, Invariance, PTL

(* No interleaving loses the request that elects the next active policy.   *)
THEOREM ElectionCorrect == Spec => []SomeActiveWhenIdle
<1>1. IInv => SomeActiveWhenIdle
  BY DEF IInv, ElectionPending, SomeActiveWhenIdle, Idle
<1>2. QED  BY <1>1, Invariance, PTL

(* Once the controller is idle, every policy has a condition and every     *)
(* active one its quota.                                                   *)
THEOREM ReconcileCorrect == Spec => []ReconciledWhenIdle
<1>1. IInv => ReconciledWhenIdle
  BY DEF IInv, NoneForgotten, Attended, ReconciledWhenIdle, Idle
<1>2. QED  BY <1>1, Invariance, PTL

(* Only the reconciler replaces an active condition by a policy's name.    *)
LEMMA OnlyReconcilerDemotes ==
  ASSUME IInv, [Next]_vars, NEW p \in Policies, NEW q \in Policies,
         IsActive(p), policy'[p].ready = q
  PROVE  IsActive(q)' \/ q \in Pending'
<1> USE DEF apiVars, quotaVars, cacheVars
<1>1. TypeOK /\ Sound
  BY DEF IInv, Sound
<1>2. policy'[p] # policy[p] /\ q \notin {"absent", "new", "active"}
  BY PoliciesAssumption DEF IsActive
<1>3. updateStatusCondition
  <2>1. ASSUME NEW r \in Policies, CreateObject(r) PROVE FALSE
    BY <1>1, <1>2, <2>1 DEF CreateObject, WritePolicy, TypeOK
  <2>2. ASSUME NEW r \in Policies, DeletePolicy(r) \/ EditPolicy(r) PROVE FALSE
    <3>1. r = p
      BY <1>1, <1>2, <2>2 DEF DeletePolicy, EditPolicy, WritePolicy, TypeOK
    <3>2. policy'[p] = [policy[p] EXCEPT !.ready = "absent"] \/ policy'[p] = policy[p]
      BY <1>1, <2>2, <3>1 DEF DeletePolicy, EditPolicy, WritePolicy, TypeOK
    <3>3. [policy[p] EXCEPT !.ready = "absent"].ready = "absent"
      BY <1>1 DEF TypeOK, Object
    <3>4. QED  BY <1>2, <3>2, <3>3
  <2>3. UNCHANGED policy => FALSE
    BY <1>2
  <2>4. QED
    BY <2>1, <2>2, <2>3, PoliciesAssumption
    DEF Next, Reconcile, CreatePolicy, DeleteQuota, QuotaUsage, CollectQuota,
        DeliverPolicy, DeliverQuota, ListPolicies, GetPolicy, EnsureQuota,
        DeploymentCreated, CheckDefaultPolicy, CreateDefaultPolicy, Restart, vars
<1> DEFINE a == worker.active
           v == [policy[worker.policy] EXCEPT !.ready = Condition(worker.policy, a)]
<1>4. /\ worker.step = "status" /\ worker.policy \in Policies
      /\ a \in Policies \cup {Nobody} /\ v \in Object
  BY <1>1, <1>3, StatusFacts
<1>5. WritePolicy(worker.policy, v) /\ UNCHANGED <<quotaWatch, queue>>
  BY <1>2, <1>3 DEF updateStatusCondition
<1>6. policy' = [policy EXCEPT ![worker.policy] = v] /\ Pending \subseteq Pending'
  BY <1>1, <1>4, <1>5, WritePolicyPending
<1>7. worker.policy = p /\ policy'[p] = v
  BY <1>1, <1>2, <1>4, <1>6 DEF TypeOK
<1>8. v.ready = Condition(p, a)
  BY <1>1, <1>4, <1>7 DEF TypeOK, Object
<1>9. q = a /\ a # Nobody /\ a # p
  BY <1>2, <1>7, <1>8 DEF Condition
<1>10. IsActive(a) \/ a \in Pending
  BY <1>1, <1>4, <1>9 DEF Sound, WorkerSound
<1>11. policy'[q] = policy[q]
  BY <1>1, <1>4, <1>6, <1>7, <1>9 DEF TypeOK
<1>12. QED  BY <1>6, <1>9, <1>10, <1>11 DEF IsActive

(* The reconciler demotes an active policy only for another one that is    *)
(* active, or whose change will make the controller elect again.           *)
THEOREM DemotionCorrect == Spec => DemotedOnlyForAnother
<1> DEFINE A == \A p, q \in Policies :
                  IsActive(p) /\ policy'[p].ready = q =>
                    IsActive(q)' \/ q \in Pending'
<1>1. IInv /\ [Next]_vars => [A]_vars
  BY OnlyReconcilerDemotes
<1>2. QED  BY <1>1, Invariance, PTL DEF Spec, DemotedOnlyForAnother
=============================================================================
