---------------------------- MODULE DBaaSPolicy ----------------------------
(***************************************************************************)
(* The DBaaSPolicy controller of the operator and its default-policy       *)
(* controller, for the policies of one namespace (the reconcilers list,    *)
(* compare and create only within the request's namespace).                *)
(*                                                                         *)
(* The policy reconciler elects one active policy: it lists the policies   *)
(* from its informer cache, activates the reconciled one unless the list   *)
(* holds another active policy, creates the ResourceQuota that stops a     *)
(* second policy from being created, and writes the Ready condition.       *)
(* Every read is a cache read that may lag behind the API server; every    *)
(* write is an optimistic API write.  The reconcile therefore runs in      *)
(* steps between which users, the garbage collector, the cache and a       *)
(* crash of the operator may act.                                          *)
(*                                                                         *)
(* Abstractions:                                                           *)
(*  - a policy is its incarnation (uid) and its Ready condition: "absent"  *)
(*    (no such object), "new" (no condition yet), "active" (True), or the  *)
(*    name q of the policy that the NotReady message names;                *)
(*  - a ResourceQuota is the uid of its controller reference, 0 = absent;  *)
(*  - the resource version a reconcile holds is the flag "fresh": no write *)
(*    has reached the object since the version the reconcile read;         *)
(*  - watch events are FIFO per object and unordered across objects, as    *)
(*    the informer's queue delivers them.                                  *)
(***************************************************************************)
EXTENDS Naturals, Sequences

CONSTANTS
  Policies,       \* the names a DBaaSPolicy of the namespace can have
  DefaultPolicy,  \* the one createDefaultPolicy uses ("cluster")
  Nobody,         \* Go's nil *DBaaSPolicy
  MaxOps,         \* bound: user operations, quota deletions and restarts
  MaxLag          \* bound: quota events not yet delivered when one is collected

ASSUME PoliciesAssumption ==
  /\ Policies \cap {"absent", "new", "active"} = {}
  /\ Nobody \notin Policies
  /\ Nobody \notin {"absent", "new", "active"}
  /\ DefaultPolicy \in Policies
  /\ MaxOps \in Nat
  /\ MaxLag \in Nat

VARIABLES
  policy,         \* policy[p]: the object in the API server
  policyCache,    \* the informer cache the operator reads
  policyWatch,    \* the events between the two
  quota,          \* quota[p]: the ResourceQuota "dbaas-p" in the API server
  quotaCache,
  quotaWatch,
  queue,          \* the controller's work queue (a set: keys are deduplicated)
  worker,         \* the one reconcile in flight
  default,        \* the default-policy controller: "idle", "queued", "create"
  ops             \* operations used up, see MaxOps

apiVars   == <<policy, policyWatch>>
quotaVars == <<quota, quotaWatch>>
cacheVars == <<policyCache, quotaCache>>
vars == <<apiVars, quotaVars, cacheVars, queue, worker, default, ops>>

Ready  == {"absent", "new", "active"} \cup Policies
Object == [uid : Nat, ready : Ready]

Exists(p)   == policy[p].ready # "absent"
IsActive(p) == policy[p].ready = "active"

(* The worker holds: the request's key, the active policy getActivePolicy  *)
(* returned, and the policy it works on with that object's version.        *)
IdleWorker == [step |-> "idle", key |-> Nobody, active |-> Nobody,
               policy |-> Nobody, uid |-> 0, fresh |-> FALSE]
Worker == [step : {"idle", "get", "quota", "status"},
           key : Policies \cup {Nobody}, active : Policies \cup {Nobody},
           policy : Policies \cup {Nobody}, uid : Nat, fresh : BOOLEAN]

(* Keys for which an event or a request is outstanding.                    *)
Pending == queue \cup {p \in Policies : \/ policyWatch[p] # <<>>
                                        \/ quotaWatch[p] # <<>>}

(* No namespace starts with an active policy: the operator comes up on     *)
(* policies that carry no condition yet, with synced caches and every      *)
(* object's initial add event in the queue.                                *)
Init ==
  /\ \E S \in SUBSET Policies :
       /\ policy = [p \in Policies |->
                      IF p \in S THEN [uid |-> 1, ready |-> "new"]
                                 ELSE [uid |-> 0, ready |-> "absent"]]
       /\ queue = S
  /\ policyCache = policy
  /\ policyWatch = [p \in Policies |-> <<>>]
  /\ quota = [p \in Policies |-> 0]
  /\ quotaCache = quota
  /\ quotaWatch = [p \in Policies |-> <<>>]
  /\ worker = IdleWorker
  /\ default = "queued"
  /\ ops = 0

-----------------------------------------------------------------------------
(* The API server.                                                         *)

(* A write to policy p sends a watch event; a reconcile that holds an      *)
(* older version of p will meet a conflict.                                *)
WritePolicy(p, v) ==
  /\ policy' = [policy EXCEPT ![p] = v]
  /\ policyWatch' = [policyWatch EXCEPT ![p] = Append(@, v)]

Outdated(w, p) == [w EXCEPT !.fresh = @ /\ w.policy # p]

WriteQuota(p, u) ==
  /\ quota' = [quota EXCEPT ![p] = u]
  /\ quotaWatch' = [quotaWatch EXCEPT ![p] = Append(@, u)]

(* Every ResourceQuota the operator creates allows one policy in the       *)
(* namespace: a create is admitted when there is no quota, or no policy.   *)
Admitted == \/ \A q \in Policies : quota[q] = 0
            \/ \A q \in Policies : ~Exists(q)

(* A policy is created without a status; a new incarnation has a new uid.  *)
CreateObject(p) ==
  /\ ~Exists(p)
  /\ Admitted
  /\ WritePolicy(p, [uid |-> policy[p].uid + 1, ready |-> "new"])
  /\ worker' = Outdated(worker, p)

Operation == /\ ops < MaxOps
             /\ ops' = ops + 1

CreatePolicy(p) ==
  /\ Operation
  /\ CreateObject(p)
  /\ UNCHANGED <<quotaVars, cacheVars, queue, default>>

DeletePolicy(p) ==
  /\ Operation
  /\ Exists(p)
  /\ WritePolicy(p, [policy[p] EXCEPT !.ready = "absent"])
  /\ worker' = Outdated(worker, p)
  /\ UNCHANGED <<quotaVars, cacheVars, queue, default>>

(* A user edits the spec: the status stays, the version moves on.          *)
EditPolicy(p) ==
  /\ Operation
  /\ Exists(p)
  /\ WritePolicy(p, policy[p])
  /\ worker' = Outdated(worker, p)
  /\ UNCHANGED <<quotaVars, cacheVars, queue, default>>

(* A user deletes the quota, or the garbage collector does, acting on an   *)
(* owner it looked up earlier.                                             *)
DeleteQuota(p) ==
  /\ Operation
  /\ quota[p] # 0
  /\ WriteQuota(p, 0)
  /\ UNCHANGED <<apiVars, cacheVars, queue, worker, default>>

(* The quota controller writes the quota's status.used.                    *)
QuotaUsage(p) ==
  /\ Operation
  /\ quota[p] # 0
  /\ WriteQuota(p, quota[p])
  /\ UNCHANGED <<apiVars, cacheVars, queue, worker, default>>

(* The garbage collector removes a quota whose owner is gone.  A reconcile *)
(* that acts on a policy deleted long ago may create it again and again:   *)
(* the collector is bounded, by the events a cache can lag behind.         *)
CollectQuota(p) ==
  /\ Len(quotaWatch[p]) < MaxLag
  /\ quota[p] # 0
  /\ Exists(p) => policy[p].uid # quota[p]
  /\ WriteQuota(p, 0)
  /\ UNCHANGED <<apiVars, cacheVars, queue, worker, default, ops>>

-----------------------------------------------------------------------------
(* The informers: SetupWithManager watches the policies and, through their *)
(* controller reference, the quotas.  Every event, deletions included,     *)
(* updates the cache and enqueues the policy's key.                        *)

DeliverPolicy(p) ==
  /\ policyWatch[p] # <<>>
  /\ policyCache' = [policyCache EXCEPT ![p] = Head(policyWatch[p])]
  /\ policyWatch' = [policyWatch EXCEPT ![p] = Tail(@)]
  /\ queue' = queue \cup {p}
  /\ UNCHANGED <<policy, quotaVars, quotaCache, worker, default, ops>>

DeliverQuota(p) ==
  /\ quotaWatch[p] # <<>>
  /\ quotaCache' = [quotaCache EXCEPT ![p] = Head(quotaWatch[p])]
  /\ quotaWatch' = [quotaWatch EXCEPT ![p] = Tail(@)]
  /\ queue' = queue \cup {p}
  /\ UNCHANGED <<apiVars, quota, policyCache, worker, default, ops>>

-----------------------------------------------------------------------------
(* The policy reconciler.                                                  *)

Listed       == {p \in Policies : policyCache[p].ready # "absent"}
ListedActive == {p \in Listed : policyCache[p].ready = "active"}

(* Mutant: the Ready condition is not looked at.                           *)
getActivePolicyAny == IF Listed = {} THEN {Nobody} ELSE Listed

(* The first active policy of the list, or nil.  The cache lists a         *)
(* namespace in no particular order, so "first" is any of them.            *)
getActivePolicy == IF ListedActive = {} THEN {Nobody} ELSE ListedActive

(* policyList.Items[0]: used only when no listed policy is active.         *)
FirstItem == IF Listed = {} \/ ListedActive # {} THEN {Nobody} ELSE Listed

(* The object p as the cache holds it: its uid, and whether its version is *)
(* still the API server's.                                                 *)
CachedUid(p)   == IF p = Nobody THEN 0 ELSE policyCache[p].uid
CachedFresh(p) == p # Nobody /\ policyWatch[p] = <<>>

(* Take key k from the queue and list the policies.                        *)
ListPolicies(k) ==
  /\ worker.step = "idle"
  /\ k \in queue
  /\ queue' = queue \ {k}
  /\ \E a \in getActivePolicy, i \in FirstItem :
       worker' = [step |-> "get", key |-> k, active |-> a, policy |-> i,
                  uid |-> CachedUid(i), fresh |-> CachedFresh(i)]
  /\ UNCHANGED <<apiVars, quotaVars, cacheVars, default, ops>>

(* Mutant: the nil check is dropped.                                       *)
ConditionNoNilCheck(p, a) == IF a # p THEN a ELSE "active"

(* The condition for policy p when the list's active policy is a.          *)
Condition(p, a) == IF a # Nobody /\ a # p THEN a ELSE "active"

(* Only a policy that becomes active needs its quota first.                *)
StepFor(p, a) == IF Condition(p, a) = "active" THEN "quota" ELSE "status"

(* Mutant: a request for a deleted policy always returns.                  *)
GetPolicyNoOther ==
  LET k == worker.key IN
  /\ worker.step = "get"
  /\ worker' =
       IF k \in Listed
       THEN [worker EXCEPT !.step = StepFor(k, worker.active), !.policy = k,
                           !.uid = CachedUid(k), !.fresh = CachedFresh(k)]
       ELSE IdleWorker
  /\ UNCHANGED <<apiVars, quotaVars, cacheVars, queue, default, ops>>

(* Get the requested policy; if it was deleted, carry on with the first    *)
(* listed one when no listed policy is active, or return.                  *)
GetPolicy ==
  LET k == worker.key IN
  /\ worker.step = "get"
  /\ worker' =
       IF k \in Listed
       THEN [worker EXCEPT !.step = StepFor(k, worker.active), !.policy = k,
                           !.uid = CachedUid(k), !.fresh = CachedFresh(k)]
       ELSE IF worker.policy # Nobody
            THEN [worker EXCEPT !.step = "quota"]
            ELSE IdleWorker
  /\ UNCHANGED <<apiVars, quotaVars, cacheVars, queue, default, ops>>

(* Return with an error or Requeue: the request's key is queued again.     *)
Requeue == /\ worker' = IdleWorker
           /\ queue' = queue \cup {worker.key}

(* CreateOrUpdate of the quota with policy p as its controller: create     *)
(* what the cache lacks, take over a quota of an earlier incarnation, and  *)
(* leave an equal one alone.  A stale cache makes the write fail.          *)
CreateQuota(p) ==
  /\ quotaCache[p] = 0
  /\ \/ /\ quota[p] = 0
        /\ WriteQuota(p, worker.uid)
        /\ worker' = [worker EXCEPT !.step = "status"]
        /\ UNCHANGED queue
     \/ /\ quota[p] # 0                                \* AlreadyExists
        /\ Requeue
        /\ UNCHANGED quotaVars

(* Mutant: a quota of an earlier incarnation is left alone.                *)
UpdateQuotaKept(p) ==
  /\ quotaCache[p] \notin {0, worker.uid}
  /\ worker' = [worker EXCEPT !.step = "status"]
  /\ UNCHANGED <<quotaVars, queue>>

UpdateQuota(p) ==
  /\ quotaCache[p] \notin {0, worker.uid}
  /\ \/ /\ quotaWatch[p] = <<>>
        /\ WriteQuota(p, worker.uid)
        /\ worker' = [worker EXCEPT !.step = "status"]
        /\ UNCHANGED queue
     \/ /\ quotaWatch[p] # <<>>                        \* Conflict or NotFound
        /\ Requeue
        /\ UNCHANGED quotaVars

KeepQuota(p) ==
  /\ quotaCache[p] = worker.uid
  /\ quotaCache[p] # 0
  /\ worker' = [worker EXCEPT !.step = "status"]
  /\ UNCHANGED <<quotaVars, queue>>

EnsureQuota ==
  LET p == worker.policy IN
  /\ worker.step = "quota"
  /\ CreateQuota(p) \/ UpdateQuota(p) \/ KeepQuota(p)
  /\ UNCHANGED <<apiVars, cacheVars, default, ops>>

(* Write the Ready condition.  An unchanged object causes no event; a      *)
(* conflict, or a policy deleted meanwhile, queues the request again.      *)
updateStatusCondition ==
  LET p == worker.policy
      v == [policy[p] EXCEPT !.ready = Condition(p, worker.active)]
  IN
  /\ worker.step = "status"
  /\ \/ /\ worker.fresh
        /\ worker' = IdleWorker
        /\ \/ v # policy[p] /\ WritePolicy(p, v)
           \/ v = policy[p] /\ UNCHANGED apiVars
        /\ UNCHANGED queue
     \/ /\ ~worker.fresh
        /\ Requeue
        /\ UNCHANGED apiVars
  /\ UNCHANGED <<quotaVars, cacheVars, default, ops>>

-----------------------------------------------------------------------------
(* The default-policy controller.                                          *)

(* Its requests come from the creation of any Deployment in the operator's *)
(* namespace.                                                              *)
DeploymentCreated ==
  /\ Operation
  /\ default = "idle"
  /\ default' = "queued"
  /\ UNCHANGED <<apiVars, quotaVars, cacheVars, queue, worker>>

(* No cached policy (hence none named DefaultPolicy): create the default.  *)
CheckDefaultPolicy ==
  /\ default = "queued"
  /\ default' = IF Listed = {} THEN "create" ELSE "idle"
  /\ UNCHANGED <<apiVars, quotaVars, cacheVars, queue, worker, ops>>

CreateDefaultPolicy ==
  /\ default = "create"
  /\ \/ /\ CreateObject(DefaultPolicy)
        /\ default' = "idle"
     \/ /\ Exists(DefaultPolicy) \/ ~Admitted          \* retried
        /\ default' = "queued"
        /\ UNCHANGED <<apiVars, worker>>
  /\ UNCHANGED <<quotaVars, cacheVars, queue, ops>>

-----------------------------------------------------------------------------
(* The operator stops and starts again: the reconcile in flight is lost,   *)
(* the caches are listed anew and every object gives an add event.         *)
Restart ==
  /\ Operation
  /\ worker' = IdleWorker
  /\ policyCache' = policy
  /\ policyWatch' = [p \in Policies |-> <<>>]
  /\ quotaCache' = quota
  /\ quotaWatch' = [p \in Policies |-> <<>>]
  /\ queue' = {p \in Policies : Exists(p) \/ quota[p] # 0}
  /\ default' = "queued"
  /\ UNCHANGED <<policy, quota>>

Reconcile ==
  \/ GetPolicy
  \/ EnsureQuota
  \/ updateStatusCondition

Next ==
  \/ \E p \in Policies :
       \/ CreatePolicy(p) \/ DeletePolicy(p) \/ EditPolicy(p)
       \/ DeleteQuota(p) \/ QuotaUsage(p) \/ CollectQuota(p)
       \/ DeliverPolicy(p) \/ DeliverQuota(p)
       \/ ListPolicies(p)
  \/ Reconcile
  \/ DeploymentCreated \/ CheckDefaultPolicy \/ CreateDefaultPolicy
  \/ Restart

Spec == Init /\ [][Next]_vars

(* The informers deliver, the worker runs, and the queue, which is FIFO up *)
(* to retry delays, starves no key.  Nothing is assumed of the users.      *)
Fairness ==
  /\ \A p \in Policies : /\ WF_vars(DeliverPolicy(p))
                         /\ WF_vars(DeliverQuota(p))
                         /\ SF_vars(ListPolicies(p))
  /\ WF_vars(Reconcile)

FairSpec == Spec /\ Fairness

-----------------------------------------------------------------------------
(* Properties.                                                             *)

TypeOK ==
  /\ policy \in [Policies -> Object]
  /\ policyCache \in [Policies -> Object]
  /\ policyWatch \in [Policies -> Seq(Object)]
  /\ quota \in [Policies -> Nat]
  /\ quotaCache \in [Policies -> Nat]
  /\ quotaWatch \in [Policies -> Seq(Nat)]
  /\ queue \in SUBSET Policies
  /\ worker \in Worker
  /\ default \in {"idle", "queued", "create"}
  /\ ops \in Nat

(* The controller has nothing left to do: no event on its way, no request  *)
(* queued, no reconcile in flight.                                         *)
Idle == Pending = {} /\ worker.step = "idle"

(* Whenever the controller is idle and the namespace has a policy, one of  *)
(* its policies is active: no order of stale lists, conflicts, deletions   *)
(* of the active policy and restarts loses the request that would elect    *)
(* the next one ("reconcile another policy to ensure one is active").      *)
SomeActiveWhenIdle ==
  Idle /\ (\E p \in Policies : Exists(p)) => \E p \in Policies : IsActive(p)

(* Whenever the controller is idle, every policy has a Ready condition and *)
(* every active policy owns its ResourceQuota, though the quota may have   *)
(* been deleted, or left behind by an earlier policy of the same name,     *)
(* around any step of the reconcile that activated the policy.             *)
ReconciledWhenIdle ==
  Idle => \A p \in Policies :
            /\ policy[p].ready # "new"
            /\ IsActive(p) => quota[p] = policy[p].uid

(* The reconciler takes the Ready condition from an active policy only in  *)
(* favour of one that is active itself or whose change is still on its way *)
(* to the controller, which will then elect again.                         *)
DemotedOnlyForAnother ==
  [][\A p, q \in Policies :
       IsActive(p) /\ policy'[p].ready = q => IsActive(q)' \/ q \in Pending']_vars

(* What makes the idle properties inductive.  A cache with no event on its *)
(* way shows the API server's object.                                      *)
CacheCoherent ==
  \A p \in Policies :
    /\ policyWatch[p] = <<>> => policyCache[p] = policy[p]
    /\ quotaWatch[p] = <<>> => quotaCache[p] = quota[p]
    /\ policyWatch[p] # <<>> =>
         policyWatch[p][Len(policyWatch[p])] = policy[p]
    /\ quotaWatch[p] # <<>> => quotaWatch[p][Len(quotaWatch[p])] = quota[p]

(* The version in hand is current, or the change that outdated it is       *)
(* pending; the listed active policy is active, or its change is pending;  *)
(* and a list that was empty misses only pending policies.                 *)
WorkerSound ==
  worker.step # "idle" =>
    /\ worker.key \in Policies
    /\ worker.policy # Nobody =>
         IF worker.fresh
         THEN Exists(worker.policy) /\ worker.uid = policy[worker.policy].uid
         ELSE worker.policy \in Pending
    /\ worker.active # Nobody =>
         IsActive(worker.active) \/ worker.active \in Pending
    /\ worker.step = "get" =>
         /\ worker.policy # Nobody => worker.active = Nobody
         /\ worker.policy = Nobody /\ worker.active = Nobody =>
              \A p \in Policies : Exists(p) => p \in Pending
    /\ worker.step # "get" => worker.policy # Nobody
    /\ worker.step = "quota" =>
         Condition(worker.policy, worker.active) = "active"
    /\ /\ worker.step = "status"
       /\ worker.fresh
       /\ Condition(worker.policy, worker.active) = "active"
       => quota[worker.policy] = worker.uid \/ worker.policy \in Pending

(* The controller will still look at policy p.                             *)
Attended(p) == \/ p \in Pending
               \/ worker.key = p /\ worker.step = "get"
               \/ worker.policy = p /\ worker.step \in {"quota", "status"}

NoneForgotten ==
  \A p \in Policies :
    \/ policy[p].ready = "new"
    \/ IsActive(p) /\ quota[p] # policy[p].uid
    => Attended(p)

ElectionPending ==
  (\E p \in Policies : Exists(p)) /\ (\A p \in Policies : ~IsActive(p))
    => Pending # {} \/ worker.step # "idle"

(* The inductive invariant behind the two idle properties of the policy    *)
(* reconciler.                                                             *)
IInv == TypeOK /\ CacheCoherent /\ WorkerSound /\ NoneForgotten
               /\ ElectionPending

(* At most one policy of the namespace is active once the controller is    *)
(* idle ("Another active Policy already exists").                          *)
AtMostOneActiveWhenIdle ==
  Idle => \A p, q \in Policies : IsActive(p) /\ IsActive(q) => p = q

(* A namespace with policies keeps coming back to having an active one.    *)
EventuallyActive ==
  (\E p \in Policies : Exists(p)) ~>
    (\E p \in Policies : IsActive(p)) \/ (\A p \in Policies : ~Exists(p))
=============================================================================
