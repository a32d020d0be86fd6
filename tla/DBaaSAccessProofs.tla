-------------------------- MODULE DBaaSAccessProofs --------------------------
(***************************************************************************)
(* Proofs about the check of who may use an inventory, for any cluster and *)
(* any policies: a selector that reaches the check is one that Kubernetes  *)
(* accepts, unless the webhooks have been away, and an object that is told *)
(* to wait is never left alone.                                            *)
(***************************************************************************)
EXTENDS DBaaSAccess, SequenceTheorems, TLAPS

(* Policies and inventories whose selector the webhooks have let through.  *)
ValidPolicy(p) == p = Nil \/ p.selector # "invalid"
ValidInventory(v) == v = Nil \/ ValidPolicy(v.policy)

(* Unless the webhooks have been away, every copy is a valid one.          *)
SelectorsValid ==
  webhooks = "kept" =>
    /\ ValidPolicy(api.policy) /\ ValidInventory(api.inventory)
    /\ ValidPolicy(cache.policy) /\ ValidInventory(cache.inventory)
    /\ \A n \in DOMAIN watch.policy : ValidPolicy(watch.policy[n])
    /\ \A n \in DOMAIN watch.inventory : ValidInventory(watch.inventory[n])
    /\ ValidPolicy(worker.policy) /\ ValidInventory(worker.inventory)

(* Past its look-up there is an inventory.                                 *)
InventoryFound == worker.step \in {"policy", "namespace"} => worker.inventory # Nil

(* A worker whose copy of the object is old has a successor, and one that  *)
(* is about to write a status has something to say.                        *)
WorkerSound ==
  /\ worker.step # "idle" /\ ~worker.fresh => events > 0 \/ queued
  /\ worker.step = "status" => worker.reason \in Reasons

IInv == /\ TypeOK /\ SelectorsValid /\ InventoryFound /\ WorkerSound
        /\ WaitingIsRetried

-----------------------------------------------------------------------------
(* The parts of the configuration, and their queues of events.             *)

Parts == {"inventory", "policy", "labelled"}

(* What is stored of part x ...                                            *)
Values(x) == CASE x = "inventory" -> Inventory \cup {Nil}
               [] x = "policy"    -> PolicySpecs \cup {Nil}
               [] x = "labelled"  -> SUBSET Others

(* ... and which of it the webhooks let through.                           *)
Valid(x, v) == CASE x = "inventory" -> ValidInventory(v)
                 [] x = "policy"    -> ValidPolicy(v)
                 [] x = "labelled"  -> TRUE

(* A configuration, and the events of one, part by part.                   *)
LEMMA ConfigFacts ==
  /\ Config = [inventory : Values("inventory"), policy : Values("policy"),
               labelled : Values("labelled")]
  /\ \A f \in Config : /\ DOMAIN f = Parts
                       /\ \A x \in Parts : f[x] \in Values(x)
  /\ \A f \in Config, x \in Parts : \A v \in Values(x) :
       /\ [f EXCEPT ![x] = v] \in Config
       /\ [f EXCEPT ![x] = v][x] = v
       /\ \A y \in Parts \ {x} : [f EXCEPT ![x] = v][y] = f[y]
<1>1. /\ Values("inventory") = Inventory \cup {Nil}
      /\ Values("policy") = PolicySpecs \cup {Nil}
      /\ Values("labelled") = SUBSET Others
  BY DEF Values
<1>2. Config = [inventory : Values("inventory"), policy : Values("policy"),
                labelled : Values("labelled")]
  BY <1>1 DEF Config
<1>3. ASSUME NEW f \in Config
      PROVE  /\ DOMAIN f = Parts
             /\ \A x \in Parts : f[x] \in Values(x)
  BY <1>2 DEF Parts
<1>4. ASSUME NEW f \in Config, NEW x \in Parts, NEW v \in Values(x)
      PROVE  /\ [f EXCEPT ![x] = v] \in Config
             /\ [f EXCEPT ![x] = v][x] = v
             /\ \A y \in Parts \ {x} : [f EXCEPT ![x] = v][y] = f[y]
  <2>1. CASE x = "inventory"
    BY <1>2, <2>1 DEF Parts
  <2>2. CASE x = "policy"
    BY <1>2, <2>2 DEF Parts
  <2>3. CASE x = "labelled"
    BY <1>2, <2>3 DEF Parts
  <2> QED  BY <2>1, <2>2, <2>3 DEF Parts
<1> QED  BY <1>2, <1>3, <1>4

Watches == [inventory : Seq(Inventory \cup {Nil}),
            policy : Seq(PolicySpecs \cup {Nil}),
            labelled : Seq(SUBSET Others)]

(* The same of the events.                                                 *)
LEMMA WatchFacts ==
  /\ \A f \in Watches, x \in Parts : f[x] \in Seq(Values(x))
  /\ [x \in Parts |-> <<>>] \in Watches
<1>1. /\ Values("inventory") = Inventory \cup {Nil}
      /\ Values("policy") = PolicySpecs \cup {Nil}
      /\ Values("labelled") = SUBSET Others
  BY DEF Values
<1>2. Watches = [inventory : Seq(Values("inventory")),
                 policy : Seq(Values("policy")),
                 labelled : Seq(Values("labelled"))]
  BY <1>1 DEF Watches
<1>3. ASSUME NEW f \in Watches, NEW x \in Parts PROVE f[x] \in Seq(Values(x))
  BY <1>2 DEF Parts
<1>4. [x \in Parts |-> <<>>] \in Watches
  <2>1. [x \in Parts |-> <<>>] = [inventory |-> <<>>, policy |-> <<>>,
                                  labelled |-> <<>>]
    BY DEF Parts
  <2>2. /\ <<>> \in Seq(Inventory \cup {Nil}) /\ <<>> \in Seq(PolicySpecs \cup {Nil})
        /\ <<>> \in Seq(SUBSET Others)
    OBVIOUS
  <2> QED  BY <2>1, <2>2 DEF Watches
<1> QED  BY <1>3, <1>4

(* One queue of events is replaced.                                        *)
Queues(x) == Seq(Values(x))
Replaced(f, g, x, q) == g = [f EXCEPT ![x] = q]

(* The result is a record of queues too, and the others are left alone.    *)
LEMMA WatchExcept ==
  ASSUME NEW f, NEW g, NEW x, NEW q, f \in Watches, x \in Parts,
         q \in Queues(x), Replaced(f, g, x, q)
  PROVE  /\ g \in Watches
         /\ g[x] = q
         /\ \A y \in Parts \ {x} : g[y] = f[y]
<1>1. /\ Values("inventory") = Inventory \cup {Nil}
      /\ Values("policy") = PolicySpecs \cup {Nil}
      /\ Values("labelled") = SUBSET Others
  BY DEF Values
<1>2. Watches = [inventory : Seq(Values("inventory")),
                 policy : Seq(Values("policy")),
                 labelled : Seq(Values("labelled"))]
  BY <1>1 DEF Watches
<1>3. CASE x = "inventory"
  BY <1>2, <1>3 DEF Parts, Queues, Replaced
<1>4. CASE x = "policy"
  BY <1>2, <1>4 DEF Parts, Queues, Replaced
<1>5. CASE x = "labelled"
  BY <1>2, <1>5 DEF Parts, Queues, Replaced
<1> QED  BY <1>3, <1>4, <1>5 DEF Parts

(* SelectorsValid, part by part.                                           *)
PartsValid ==
  /\ \A x \in Parts : Valid(x, api[x]) /\ Valid(x, cache[x])
  /\ \A x \in Parts : \A n \in DOMAIN watch[x] : Valid(x, watch[x][n])

WorkerValid == ValidPolicy(worker.policy) /\ ValidInventory(worker.inventory)

(* It is the same.                                                         *)
LEMMA ValidFacts ==
  SelectorsValid <=> (webhooks = "kept" => PartsValid /\ WorkerValid)
<1>1. /\ \A v : Valid("inventory", v) <=> ValidInventory(v)
      /\ \A v : Valid("policy", v) <=> ValidPolicy(v)
      /\ \A v : Valid("labelled", v)
  BY DEF Valid
<1>2. PartsValid <=>
        /\ ValidPolicy(api.policy) /\ ValidInventory(api.inventory)
        /\ ValidPolicy(cache.policy) /\ ValidInventory(cache.inventory)
        /\ \A n \in DOMAIN watch.policy : ValidPolicy(watch.policy[n])
        /\ \A n \in DOMAIN watch.inventory : ValidInventory(watch.inventory[n])
  BY <1>1 DEF PartsValid, Parts
<1> QED  BY <1>2 DEF SelectorsValid, WorkerValid

-----------------------------------------------------------------------------
(* What a step does.                                                       *)

(* An administrator's write, and what it means that its value is valid.    *)
LEMMA WriteFacts ==
  ASSUME TypeOK, NEW x \in Parts, NEW v \in Values(x), Write(x, v)
  PROVE  /\ api' \in Config /\ watch' \in Watches
         /\ cache' = cache /\ webhooks' = webhooks
         /\ PartsValid /\ Valid(x, v) => PartsValid'
<1> DEFINE q == watch[x]
<1>1. api \in Config /\ watch \in Watches /\ q \in Seq(Values(x))
  BY WatchFacts DEF TypeOK, Watches
<1>2. /\ api' = [api EXCEPT ![x] = v] /\ watch' = [watch EXCEPT ![x] = Append(q, v)]
      /\ cache' = cache /\ webhooks' = webhooks
  BY DEF Write
<1>3. /\ Append(q, v) \in Seq(Values(x))
      /\ DOMAIN Append(q, v) = DOMAIN q \cup {Len(q) + 1}
      /\ Append(q, v)[Len(q) + 1] = v
      /\ \A n \in DOMAIN q : Append(q, v)[n] = q[n]
  BY <1>1, AppendProperties
<1>4. /\ api' \in Config /\ api'[x] = v
      /\ \A y \in Parts \ {x} : api'[y] = api[y]
  BY <1>1, <1>2, ConfigFacts
<1>5. /\ watch' \in Watches /\ watch'[x] = Append(q, v)
      /\ \A y \in Parts \ {x} : watch'[y] = watch[y]
  <2> DEFINE t == Append(q, v)
  <2>1. t \in Seq(Values(x)) /\ watch' = [watch EXCEPT ![x] = t]
    BY <1>2, <1>3
  <2> HIDE DEF t, q
  <2>a. Replaced(watch, watch', x, t) /\ t \in Queues(x)
    BY <2>1 DEF Replaced, Queues
  <2>b. watch \in Watches
    BY <1>1
  <2>2. /\ watch' \in Watches /\ watch'[x] = t
        /\ \A y \in Parts \ {x} : watch'[y] = watch[y]
    BY <2>a, <2>b, WatchExcept
  <2> QED  BY <2>2 DEF t
<1>6. ASSUME PartsValid, Valid(x, v) PROVE PartsValid'
  <2>1. \A n \in DOMAIN watch'[x] : Valid(x, watch'[x][n])
    BY <1>3, <1>5, <1>6 DEF PartsValid
  <2>2. /\ \A y \in Parts : Valid(y, api'[y]) /\ Valid(y, cache'[y])
        /\ \A y \in Parts : \A n \in DOMAIN watch'[y] : Valid(y, watch'[y][n])
    BY <1>2, <1>4, <1>5, <1>6, <2>1 DEF PartsValid
  <2> QED  BY <2>2 DEF PartsValid, Valid, ValidInventory, ValidPolicy
<1> QED  BY <1>2, <1>4, <1>5, <1>6

(* A delivery takes a value to the cache, a valid one if all are.          *)
LEMMA DeliverFacts ==
  ASSUME TypeOK, NEW x \in Parts, Deliver(x)
  PROVE  /\ cache' \in Config /\ watch' \in Watches
         /\ api' = api /\ webhooks' = webhooks
         /\ PartsValid => PartsValid'
<1> DEFINE q == watch[x]
<1>1. cache \in Config /\ watch \in Watches /\ q \in Seq(Values(x))
  BY WatchFacts DEF TypeOK, Watches
<1>2. /\ q # <<>> /\ cache' = [cache EXCEPT ![x] = Head(q)]
      /\ watch' = [watch EXCEPT ![x] = Tail(q)] /\ api' = api
      /\ webhooks' = webhooks
  BY DEF Deliver
<1>3. /\ Len(q) \in Nat /\ Len(q) # 0 /\ DOMAIN q = 1 .. Len(q)
      /\ Head(q) = q[1] /\ Head(q) \in Values(x)
      /\ Tail(q) \in Seq(Values(x)) /\ DOMAIN Tail(q) = 1 .. Len(q) - 1
      /\ \A n \in 1 .. Len(q) - 1 : Tail(q)[n] = q[n + 1]
  BY <1>1, <1>2, HeadTailProperties, EmptySeq, LenProperties
<1>4. /\ 1 \in DOMAIN q
      /\ \A n \in DOMAIN Tail(q) : Tail(q)[n] = q[n + 1] /\ n + 1 \in DOMAIN q
  BY <1>3
<1>5. /\ cache' \in Config /\ cache'[x] = q[1]
      /\ \A y \in Parts \ {x} : cache'[y] = cache[y]
  BY <1>1, <1>2, <1>3, ConfigFacts
<1>6. /\ watch' \in Watches /\ watch'[x] = Tail(q)
      /\ \A y \in Parts \ {x} : watch'[y] = watch[y]
  <2> DEFINE t == Tail(q)
  <2>1. t \in Seq(Values(x)) /\ watch' = [watch EXCEPT ![x] = t]
    BY <1>2, <1>3
  <2> HIDE DEF t, q
  <2>a. Replaced(watch, watch', x, t) /\ t \in Queues(x)
    BY <2>1 DEF Replaced, Queues
  <2>b. watch \in Watches
    BY <1>1
  <2>2. /\ watch' \in Watches /\ watch'[x] = t
        /\ \A y \in Parts \ {x} : watch'[y] = watch[y]
    BY <2>a, <2>b, WatchExcept
  <2> QED  BY <2>2 DEF t
<1>7. ASSUME PartsValid PROVE PartsValid'
  <2>1. \A n \in DOMAIN watch'[x] : Valid(x, watch'[x][n])
    BY <1>4, <1>6, <1>7 DEF PartsValid
  <2>2. /\ \A y \in Parts : Valid(y, api'[y]) /\ Valid(y, cache'[y])
        /\ \A y \in Parts : \A n \in DOMAIN watch'[y] : Valid(y, watch'[y][n])
    BY <1>2, <1>4, <1>5, <1>6, <1>7, <2>1 DEF PartsValid
  <2> QED  BY <2>2 DEF PartsValid, Valid, ValidInventory, ValidPolicy
<1> QED  BY <1>2, <1>5, <1>6, <1>7

(* The values administrators write are of the right kind, and valid unless *)
(* the webhooks are, or have been, away.                                   *)
LEMMA ConfigStep ==
  ASSUME TypeOK, [Next]_vars
  PROVE  /\ api' \in Config /\ cache' \in Config /\ watch' \in Watches
         /\ webhooks' \in {"kept", "away", "back"}
         /\ webhooks' = "kept" => /\ webhooks = "kept"
                                  /\ PartsValid => PartsValid'
<1>0. /\ api \in Config /\ cache \in Config /\ watch \in Watches
      /\ DOMAIN api = Parts /\ webhooks \in {"kept", "away", "back"}
  BY ConfigFacts DEF TypeOK, Watches
<1> DEFINE Goal == /\ api' \in Config /\ cache' \in Config /\ watch' \in Watches
                   /\ webhooks' \in {"kept", "away", "back"}
                   /\ webhooks' = "kept" => /\ webhooks = "kept"
                                            /\ PartsValid => PartsValid'
<1> SUFFICES Goal
  OBVIOUS
<1>a. ASSUME NEW x \in Parts, NEW v \in Values(x), Write(x, v),
             webhooks = "kept" /\ PartsValid => Valid(x, v)
      PROVE  Goal
  BY <1>0, <1>a, WriteFacts
<1>b. UNCHANGED <<api, cache, watch>> /\ webhooks' \in {webhooks, "away", "back"}
        => Goal
  BY <1>0 DEF PartsValid
<1>c. /\ \A v \in PolicySpecs \cup {Nil} : v \in Values("policy")
      /\ \A v \in Inventory \cup {Nil} : v \in Values("inventory")
      /\ \A v \in SUBSET Others : v \in Values("labelled")
      /\ \A v : Valid("inventory", v) <=> ValidInventory(v)
      /\ \A v : Valid("policy", v) <=> ValidPolicy(v)
      /\ \A v : Valid("labelled", v)
      /\ Parts = {"inventory", "policy", "labelled"}
  BY DEF Values, Valid, Parts
<1>d. /\ api.inventory \in Inventory \cup {Nil}
      /\ PartsValid => ValidInventory(api.inventory)
      /\ api.labelled \in SUBSET Others
  BY <1>0, <1>c DEF Config, PartsValid
<1>1. ASSUME NEW s \in PolicySpecs, SetPolicy(s) PROVE Goal
  <2>1. (webhooks = "kept" => ValidPolicy(s)) /\ Write("policy", s)
    BY <1>1 DEF SetPolicy, validatePolicy, ValidPolicy
  <2> QED  BY <1>a, <1>c, <2>1
<1>2. ASSUME NEW p \in PolicySpecs \cup {Nil}, SetInventory(p) PROVE Goal
  <2> DEFINE v == IF api.inventory = Nil THEN [ready |-> FALSE, policy |-> p]
                  ELSE [api.inventory EXCEPT !.policy = p]
  <2>1. Write("inventory", v) /\ (webhooks = "kept" => validateInventory(p))
    BY <1>2 DEF SetInventory
  <2>2. webhooks = "kept" => ValidPolicy(p)
    BY <2>1 DEF validateInventory, ValidPolicy
  <2>3. v \in Inventory /\ v.policy = p
    BY <1>d DEF Inventory
  <2> HIDE DEF v
  <2>4. webhooks = "kept" => ValidInventory(v)
    BY <2>2, <2>3 DEF ValidInventory
  <2> QED  BY <1>a, <1>c, <2>1, <2>3, <2>4
<1>3. CASE DropPolicy \/ DropInventory
  <2>1. ValidPolicy(Nil) /\ ValidInventory(Nil)
    BY DEF ValidPolicy, ValidInventory
  <2> QED  BY <1>3, <1>a, <1>c, <2>1 DEF DropPolicy, DropInventory
<1>4. CASE InventoryReady
  <2> DEFINE v == [api.inventory EXCEPT !.ready = ~@]
  <2>1. Write("inventory", v) /\ api.inventory \in Inventory /\ api.inventory # Nil
    BY <1>4, <1>d DEF InventoryReady
  <2>2. PICK b \in BOOLEAN : b = ~api.inventory.ready
    BY <2>1 DEF Inventory
  <2>3. v = [api.inventory EXCEPT !.ready = b]
    BY <2>1, <2>2 DEF Inventory
  <2>4. v \in Inventory /\ v.policy = api.inventory.policy
    BY <2>1, <2>3 DEF Inventory
  <2> HIDE DEF v
  <2>5. PartsValid => ValidInventory(v)
    BY <1>d, <2>1, <2>4 DEF ValidInventory
  <2> QED  BY <1>a, <1>c, <2>1, <2>4, <2>5
<1>5. ASSUME NEW ns \in Others, Label(ns) PROVE Goal
  <2> DEFINE v == IF ns \in api.labelled THEN api.labelled \ {ns}
                                         ELSE api.labelled \cup {ns}
  <2>1. Write("labelled", v)
    BY <1>5 DEF Label
  <2>2. v \in SUBSET Others
    BY <1>d
  <2> HIDE DEF v
  <2> QED  BY <1>a, <1>c, <2>1, <2>2
<1>6. ASSUME NEW x \in DOMAIN api, Deliver(x) PROVE Goal
  BY <1>0, <1>6, DeliverFacts
<1>7. CASE Restart
  <2>1. /\ api' = api /\ cache' = api /\ watch' = [x \in Parts |-> <<>>]
        /\ webhooks' = webhooks
    BY <1>0, <1>7 DEF Restart
  <2>2. \A x \in Parts : watch'[x] = <<>> /\ DOMAIN watch'[x] = {}
    BY <2>1
  <2>3. watch' \in Watches
    BY <2>1, WatchFacts
  <2> QED  BY <1>0, <2>1, <2>2, <2>3
           DEF PartsValid, Valid, ValidInventory, ValidPolicy
<1>8. CASE \/ EditObject \/ DeliverObject \/ Resync \/ Reconcile \/ CallFails
           \/ UpdateStatusFails \/ DeleteWebhooks \/ RestoreWebhooks
           \/ UNCHANGED vars
  <2>1. /\ UNCHANGED <<api, cache, watch>>
        /\ webhooks' \in {webhooks, "away", "back"}
    BY <1>8 DEF EditObject, DeliverObject, Resync, Reconcile, CallFails,
       UpdateStatusFails, GetObject, GetInventory, policyListByNS,
       CheckNamespace, UpdateStatus, DeleteWebhooks, RestoreWebhooks,
       configVars, vars
  <2> QED  BY <1>b, <2>1
<1> HIDE DEF Goal
<1> QED  BY <1>1, <1>2, <1>3, <1>4, <1>5, <1>6, <1>7, <1>8 DEF Next

(* The rest of the state changes only in steps of the controller, in edits *)
(* of the object, in its events and resyncs, and when the process starts.  *)
LEMMA ControlFacts ==
  ASSUME TypeOK, [Next]_vars
  PROVE  \/ EditObject \/ DeliverObject \/ Resync \/ Restart
         \/ GetObject \/ GetInventory \/ policyListByNS \/ CheckNamespace
         \/ UpdateStatus \/ CallFails \/ UpdateStatusFails
         \/ UNCHANGED <<reason, events, queued, worker, dropped>>
<1>1. ASSUME NEW x, NEW v, Write(x, v)
      PROVE  UNCHANGED <<reason, events, queued, worker, dropped>>
  BY <1>1 DEF Write
<1>2. ASSUME NEW x, Deliver(x)
      PROVE  UNCHANGED <<reason, events, queued, worker, dropped>>
  BY <1>2 DEF Deliver
<1>3. CASE \/ \E s \in PolicySpecs : SetPolicy(s)
           \/ \E p \in PolicySpecs \cup {Nil} : SetInventory(p)
           \/ DropPolicy \/ DropInventory \/ InventoryReady
           \/ \E ns \in Others : Label(ns)
  BY <1>1, <1>3 DEF SetPolicy, SetInventory, DropPolicy, DropInventory,
                    InventoryReady, Label
<1>4. CASE DeleteWebhooks \/ RestoreWebhooks \/ UNCHANGED vars
  BY <1>4 DEF DeleteWebhooks, RestoreWebhooks, vars
<1> QED  BY <1>2, <1>3, <1>4 DEF Next, Reconcile

(* The check always has an answer.                                         *)
LEMMA AnswerFacts == \A l : Answer(l) \in Reasons
<1> TAKE l
<1>1. CASE ~isValidConnectionNS(namespace, worker.inventory, worker.policy, l)
  BY <1>1 DEF Answer, Reasons
<1>2. CASE isValidConnectionNS(namespace, worker.inventory, worker.policy, l)
  <2>1. Answer(l) = IF ~worker.inventory.ready THEN "not ready"
                    ELSE IF ~canProvision(worker.inventory, worker.policy)
                              /\ Kind = "instance" THEN "not provisionable"
                    ELSE "passed"
    BY <1>2 DEF Answer
  <2>2. Answer(l) \in {"not ready", "not provisionable", "passed"}
    BY <2>1
  <2> QED  BY <2>2 DEF Reasons, Waiting
<1> QED  BY <1>1, <1>2

(* The worker at rest.                                                     *)
LEMMA IdleFacts ==
  /\ IdleWorker \in Worker /\ IdleWorker.step = "idle"
  /\ IdleWorker.policy = Nil /\ IdleWorker.inventory = Nil
BY DEF IdleWorker, Worker

(* What the worker carries from one step to the next is of its type, and   *)
(* valid, if what it reads is.                                             *)
LEMMA WorkerStep ==
  ASSUME TypeOK, InventoryFound, WorkerSound, [Next]_vars
  PROVE  /\ worker' \in Worker /\ InventoryFound'
         /\ PartsValid /\ WorkerValid => WorkerValid'
         /\ worker'.step = "status" => worker'.reason \in Reasons
<1> DEFINE Goal == /\ worker' \in Worker /\ InventoryFound'
                   /\ PartsValid /\ WorkerValid => WorkerValid'
                   /\ worker'.step = "status" => worker'.reason \in Reasons
<1> SUFFICES Goal
  OBVIOUS
<1>0. /\ worker \in Worker
      /\ cache.inventory \in Inventory \cup {Nil}
      /\ cache.policy \in PolicySpecs \cup {Nil}
      /\ ValidPolicy(Nil) /\ ValidInventory(Nil)
      /\ worker.step = "status" => worker.reason \in Reasons
  BY DEF TypeOK, Config, WorkerSound, ValidPolicy, ValidInventory
<1>1. PartsValid => ValidInventory(cache.inventory) /\ ValidPolicy(cache.policy)
  BY DEF PartsValid, Parts, Valid
<1>2. worker' = IdleWorker => Goal
  BY <1>0, IdleFacts DEF WorkerValid, ValidPolicy, ValidInventory, InventoryFound
<1>3. worker' = worker => Goal
  BY <1>0 DEF WorkerValid, ValidPolicy, ValidInventory, InventoryFound
<1>4. CASE EditObject
  <2>1. worker' = [worker EXCEPT !.fresh = FALSE]
    BY <1>4 DEF EditObject
  <2>2. /\ worker' \in Worker /\ worker'.step = worker.step
        /\ worker'.reason = worker.reason
        /\ worker'.policy = worker.policy /\ worker'.inventory = worker.inventory
    BY <1>0, <2>1 DEF Worker
  <2> QED  BY <1>0, <2>2 DEF WorkerValid, ValidPolicy, ValidInventory, InventoryFound
<1>5. CASE GetObject
  <2>1. PICK b \in BOOLEAN :
          worker' = [IdleWorker EXCEPT !.step = "inventory", !.fresh = b]
    BY <1>5 DEF GetObject
  <2>2. /\ worker' \in Worker /\ worker'.step = "inventory"
        /\ worker'.policy = Nil /\ worker'.inventory = Nil
    BY <2>1 DEF IdleWorker, Worker
  <2> QED  BY <1>0, <2>2 DEF WorkerValid, ValidPolicy, ValidInventory, InventoryFound
<1>6. CASE GetInventory
  <2>1. CASE cache.inventory = Nil
    <3>1. worker' = [worker EXCEPT !.step = "status", !.reason = "not found"]
      BY <1>6, <2>1 DEF GetInventory
    <3>2. /\ worker' \in Worker /\ worker'.step = "status"
          /\ worker'.reason \in Reasons
          /\ worker'.policy = worker.policy /\ worker'.inventory = worker.inventory
      BY <1>0, <3>1 DEF Worker, Reasons, Waiting
    <3> QED  BY <1>0, <3>2 DEF WorkerValid, ValidPolicy, ValidInventory, InventoryFound
  <2>2. CASE cache.inventory # Nil
    <3>1. worker' = [worker EXCEPT !.step = "policy",
                                   !.inventory = cache.inventory]
      BY <1>6, <2>2 DEF GetInventory
    <3>2. /\ worker' \in Worker /\ worker'.step = "policy"
          /\ worker'.policy = worker.policy /\ worker'.inventory = cache.inventory
      BY <1>0, <3>1 DEF Worker
    <3> QED  BY <1>0, <1>1, <2>2, <3>2 DEF WorkerValid, ValidPolicy, ValidInventory, InventoryFound
  <2> QED  BY <2>1, <2>2
<1>7. CASE policyListByNS
  <2>1. /\ worker.step = "policy"
        /\ worker' = [worker EXCEPT !.step = "namespace", !.policy = cache.policy]
    BY <1>7 DEF policyListByNS
  <2>2. /\ worker' \in Worker /\ worker'.step = "namespace"
        /\ worker'.policy = cache.policy /\ worker'.inventory = worker.inventory
    BY <1>0, <2>1 DEF Worker
  <2> QED  BY <1>0, <1>1, <2>1, <2>2 DEF WorkerValid, ValidPolicy, ValidInventory, InventoryFound
<1>8. CASE CheckNamespace
  <2>1. CASE worker' = IdleWorker
    BY <1>2, <2>1
  <2>2. CASE worker' # IdleWorker
    <3>1. worker' = [worker EXCEPT !.step = "status",
                                   !.reason = Answer(cache.labelled)]
      BY <1>8, <2>2 DEF CheckNamespace, Return
    <3>2. PICK r \in Reasons : r = Answer(cache.labelled)
      BY AnswerFacts
    <3>3. /\ worker' \in Worker /\ worker'.step = "status" /\ worker'.reason = r
          /\ worker'.policy = worker.policy /\ worker'.inventory = worker.inventory
      BY <1>0, <3>1, <3>2 DEF Worker
    <3> QED  BY <1>0, <3>3 DEF WorkerValid, ValidPolicy, ValidInventory, InventoryFound
  <2> QED  BY <2>1, <2>2
<1>9. CASE Restart \/ CallFails \/ UpdateStatus \/ UpdateStatusFails
  BY <1>2, <1>9 DEF Restart, CallFails, UpdateStatus, UpdateStatusFails, Return
<1>10. CASE \/ DeliverObject \/ Resync
            \/ UNCHANGED <<reason, events, queued, worker, dropped>>
  BY <1>3, <1>10 DEF DeliverObject, Resync
<1> HIDE DEF Goal
<1> QED  BY <1>4, <1>5, <1>6, <1>7, <1>8, <1>9, <1>10, ControlFacts

(* The remaining variables stay within their types and bounds.             *)
LEMMA RestStep ==
  ASSUME TypeOK, WorkerSound, [Next]_vars
  PROVE  /\ namespace' \in Namespaces /\ reason' \in Reasons \cup {"none"}
         /\ events' \in Nat /\ queued' \in BOOLEAN /\ dropped' \in BOOLEAN
         /\ ops' \in 0 .. MaxOps /\ faults' \in 0 .. MaxFaults
<1>0. /\ namespace \in Namespaces /\ reason \in Reasons \cup {"none"}
      /\ events \in Nat /\ queued \in BOOLEAN /\ dropped \in BOOLEAN
      /\ ops \in 0 .. MaxOps /\ faults \in 0 .. MaxFaults
      /\ MaxOps \in Nat /\ MaxFaults \in Nat
      /\ worker.step = "status" => worker.reason \in Reasons
  BY AccessAssumption DEF TypeOK, WorkerSound
<1>1. ops' \in 0 .. MaxOps /\ faults' \in 0 .. MaxFaults
  <2>1. Operation \/ Fault \/ UNCHANGED bounds
    BY DEF Next, SetPolicy, SetInventory, DropPolicy, DropInventory,
       InventoryReady, Label, Write, EditObject, Deliver, DeliverObject,
       Resync, Reconcile, GetObject, GetInventory, policyListByNS,
       CheckNamespace, UpdateStatus, CallFails, UpdateStatusFails, Restart,
       DeleteWebhooks, RestoreWebhooks, vars
  <2>2. CASE Operation
    BY <1>0, <2>2 DEF Operation
  <2>3. CASE Fault
    BY <1>0, <2>3 DEF Fault
  <2>4. CASE UNCHANGED bounds
    BY <1>0, <2>4 DEF bounds
  <2> QED  BY <2>1, <2>2, <2>3, <2>4
<1>2. namespace' = namespace
  BY DEF Next, SetPolicy, SetInventory, DropPolicy, DropInventory,
     InventoryReady, Label, Write, EditObject, Deliver, DeliverObject,
     Resync, Reconcile, GetObject, GetInventory, policyListByNS,
     CheckNamespace, UpdateStatus, CallFails, UpdateStatusFails, Restart,
     DeleteWebhooks, RestoreWebhooks, vars
<1>3. reason' \in Reasons \cup {"none"}
  <2>1. reason' = reason \/ (worker.step = "status" /\ reason' = worker.reason)
    BY ControlFacts DEF EditObject, DeliverObject, Resync, Restart, GetObject,
       GetInventory, policyListByNS, CheckNamespace, UpdateStatus, CallFails,
       UpdateStatusFails
  <2> QED  BY <1>0, <2>1
<1>4. events' \in Nat
  <2>1. CASE UpdateStatus
    BY <1>0, <2>1 DEF UpdateStatus
  <2>2. CASE EditObject \/ DeliverObject
    BY <1>0, <2>2 DEF EditObject, DeliverObject
  <2>3. CASE ~UpdateStatus /\ ~EditObject /\ ~DeliverObject
    <3>1. events' = events \/ events' = 0
      BY <2>3, ControlFacts DEF Resync, Restart, GetObject, GetInventory,
         policyListByNS, CheckNamespace, CallFails, UpdateStatusFails
    <3> QED  BY <1>0, <3>1
  <2> QED  BY <2>1, <2>2, <2>3
<1>5. queued' \in BOOLEAN
  <2>1. \/ queued' = queued \/ queued' = TRUE \/ queued' = FALSE
        \/ \E b : queued' = (queued \/ b)
    BY ControlFacts DEF EditObject, DeliverObject, Resync, Restart, GetObject,
       GetInventory, policyListByNS, CheckNamespace, UpdateStatus, CallFails,
       UpdateStatusFails, Return
  <2> QED  BY <1>0, <2>1
<1>6. dropped' \in BOOLEAN
  <2>1. \/ dropped' = dropped \/ dropped' = FALSE
        \/ dropped' = (worker.reason = "refused")
    BY ControlFacts DEF EditObject, DeliverObject, Resync, Restart, GetObject,
       GetInventory, policyListByNS, CheckNamespace, UpdateStatus, CallFails,
       UpdateStatusFails
  <2> QED  BY <1>0, <2>1
<1> QED  BY <1>0, <1>1, <1>2, <1>3, <1>4, <1>5, <1>6

(* A worker whose copy of the object is old has a successor.               *)
Succeeded == worker.step # "idle" /\ ~worker.fresh => events > 0 \/ queued

(* Only an edit makes a copy old, and it leaves an event; an event becomes *)
(* a queued key before it is gone.                                         *)
LEMMA SuccessorStep ==
  ASSUME TypeOK, Succeeded, [Next]_vars
  PROVE  Succeeded'
<1>0. events \in Nat /\ queued \in BOOLEAN /\ worker \in Worker
  BY DEF TypeOK
<1>1. worker' = IdleWorker => Succeeded'
  BY IdleFacts DEF Succeeded
<1>2. CASE EditObject
  BY <1>0, <1>2 DEF EditObject, Succeeded
<1>3. CASE DeliverObject \/ Resync
  BY <1>3 DEF DeliverObject, Resync, Succeeded
<1>4. CASE GetObject
  <2>1. events' = events /\ (events = 0 => worker'.fresh)
    BY <1>4 DEF GetObject, IdleWorker
  <2>2. events = 0 \/ events' > 0
    BY <1>0, <2>1
  <2> QED  BY <2>1, <2>2 DEF Succeeded
<1>5. CASE GetInventory
  <2>1. /\ worker.step = "inventory" /\ worker'.fresh = worker.fresh
        /\ events' = events /\ queued' = queued
    BY <1>0, <1>5 DEF GetInventory, Worker
  <2> QED  BY <2>1 DEF Succeeded
<1>6. CASE policyListByNS
  <2>1. /\ worker.step = "policy" /\ worker'.fresh = worker.fresh
        /\ events' = events /\ queued' = queued
    BY <1>0, <1>6 DEF policyListByNS, Worker
  <2> QED  BY <2>1 DEF Succeeded
<1>7. CASE CheckNamespace
  <2>1. \/ worker' = IdleWorker
        \/ /\ worker' = [worker EXCEPT !.step = "status",
                                       !.reason = Answer(cache.labelled)]
           /\ worker.step = "namespace" /\ events' = events /\ queued' = queued
    BY <1>7 DEF CheckNamespace, Return
  <2>2. CASE worker' # IdleWorker
    <3>1. worker'.fresh = worker.fresh
      BY <1>0, <2>1, <2>2 DEF Worker
    <3> QED  BY <2>1, <2>2, <3>1 DEF Succeeded
  <2> QED  BY <1>1, <2>2
<1>8. CASE Restart \/ CallFails \/ UpdateStatus \/ UpdateStatusFails
  BY <1>1, <1>8 DEF Restart, CallFails, UpdateStatus, UpdateStatusFails, Return
<1>9. CASE UNCHANGED <<reason, events, queued, worker, dropped>>
  BY <1>9 DEF Succeeded
<1> QED  BY <1>2, <1>3, <1>4, <1>5, <1>6, <1>7, <1>8, <1>9, ControlFacts

(* A verdict to wait for comes with an error, so the key goes back into    *)
(* the queue; a verdict that replaces one, or cannot because the object    *)
(* has changed, has an event coming or the key already queued.             *)
LEMMA WaitingStep ==
  ASSUME TypeOK, WorkerSound, WaitingIsRetried, [Next]_vars
  PROVE  WaitingIsRetried'
<1>0. /\ events \in Nat /\ queued \in BOOLEAN /\ worker \in Worker
      /\ dropped \in BOOLEAN
      /\ worker.step = "status" => worker.reason \in Reasons
  BY DEF TypeOK, WorkerSound
<1>1. (queued' = TRUE \/ worker'.step # "idle") => WaitingIsRetried'
  BY DEF WaitingIsRetried
<1>2. CASE EditObject
  <2>1. events' = events + 1
    BY <1>2 DEF EditObject
  <2> QED  BY <1>0, <2>1 DEF WaitingIsRetried
<1>3. CASE DeliverObject \/ Resync \/ Restart
  BY <1>1, <1>3 DEF DeliverObject, Resync, Restart
<1>4. CASE GetObject
  <2>1. worker'.step = "inventory"
    BY <1>4 DEF GetObject, IdleWorker
  <2> QED  BY <1>1, <2>1
<1>5. CASE GetInventory
  <2>1. worker'.step \in {"status", "policy"}
    BY <1>0, <1>5 DEF GetInventory, Worker
  <2> QED  BY <1>1, <2>1
<1>6. CASE policyListByNS
  <2>1. worker'.step = "namespace"
    BY <1>0, <1>6 DEF policyListByNS, Worker
  <2> QED  BY <1>1, <2>1
<1>7. CASE CheckNamespace
  <2>1. \/ queued' = TRUE
        \/ worker' = [worker EXCEPT !.step = "status",
                                    !.reason = Answer(cache.labelled)]
    BY <1>0, <1>7 DEF CheckNamespace, Return
  <2>2. CASE queued' # TRUE
    <3>1. worker'.step = "status"
      BY <1>0, <2>1, <2>2 DEF Worker
    <3> QED  BY <1>1, <3>1
  <2> QED  BY <1>1, <2>2
<1>8. CASE CallFails
  BY <1>0, <1>1, <1>8 DEF CallFails, Return
<1>9. CASE UpdateStatus
  <2>1. /\ worker.step = "status" /\ dropped' = dropped
        /\ reason' = IF worker.fresh THEN worker.reason ELSE reason
        /\ events' = IF reason' # reason THEN events + 1 ELSE events
        /\ queued' = (queued \/ Retried(worker.reason, worker.fresh))
    BY <1>9 DEF UpdateStatus, Return
  <2>2. CASE worker.fresh
    <3>1. reason' = worker.reason
      BY <2>1, <2>2
    <3>2. reason' \in Waiting => queued' = TRUE
      BY <1>0, <2>1, <3>1 DEF Retried
    <3> QED  BY <3>2 DEF WaitingIsRetried
  <2>3. CASE ~worker.fresh
    <3>1. events' = events /\ (queued => queued')
      BY <1>0, <2>1, <2>3
    <3>2. events > 0 \/ queued
      BY <2>1, <2>3 DEF WorkerSound
    <3> QED  BY <3>1, <3>2 DEF WaitingIsRetried
  <2> QED  BY <2>2, <2>3
<1>10. CASE UpdateStatusFails
  <2>1. /\ worker.step = "status" /\ dropped' = (worker.reason = "refused")
        /\ queued' = (queued \/ Retried(worker.reason, FALSE))
    BY <1>10 DEF UpdateStatusFails, Return
  <2>2. dropped' = TRUE \/ queued' = TRUE
    BY <1>0, <2>1 DEF Retried, Reasons
  <2> QED  BY <2>2 DEF WaitingIsRetried
<1>11. CASE UNCHANGED <<reason, events, queued, worker, dropped>>
  BY <1>11 DEF WaitingIsRetried
<1> QED  BY <1>2, <1>3, <1>4, <1>5, <1>6, <1>7, <1>8, <1>9, <1>10, <1>11,
            ControlFacts

-----------------------------------------------------------------------------
(* The results.                                                            *)

(* The cluster the operator starts on is one the webhooks have let through.*)
LEMMA InitSafe == Init => IInv
<1> SUFFICES ASSUME Init PROVE IInv
  OBVIOUS
<1>1. /\ api \in Config /\ cache = api /\ watch = [x \in DOMAIN api |-> <<>>]
      /\ DOMAIN api = Parts
  BY ConfigFacts DEF Init
<1>2. watch \in Watches
  BY <1>1, WatchFacts
<1>3. TypeOK
  <2>1. /\ namespace \in Namespaces /\ reason \in Reasons \cup {"none"}
        /\ events \in Nat /\ queued \in BOOLEAN /\ dropped \in BOOLEAN
        /\ worker \in Worker /\ webhooks \in {"kept", "away", "back"}
    BY IdleFacts DEF Init
  <2>2. ops \in 0 .. MaxOps /\ faults \in 0 .. MaxFaults
    BY AccessAssumption DEF Init
  <2> QED  BY <1>1, <1>2, <2>1, <2>2 DEF TypeOK, Watches
<1>4. ValidPolicy(api.policy) /\ ValidInventory(api.inventory)
  BY DEF Init, validatePolicy, validateInventory, ValidPolicy, ValidInventory
<1>5. DOMAIN watch.policy = {} /\ DOMAIN watch.inventory = {}
  BY <1>1 DEF Parts
<1>6. SelectorsValid
  BY <1>1, <1>4, <1>5, IdleFacts DEF Init, SelectorsValid, ValidPolicy, ValidInventory
<1>7. WorkerSound /\ WaitingIsRetried /\ InventoryFound
  BY IdleFacts DEF Init, WorkerSound, WaitingIsRetried, InventoryFound
<1> QED  BY <1>3, <1>6, <1>7 DEF IInv

(* Every step keeps the invariant.                                         *)
LEMMA StepSafe == IInv /\ [Next]_vars => IInv'
<1> SUFFICES ASSUME IInv, [Next]_vars PROVE IInv'
  OBVIOUS
<1>1. /\ TypeOK /\ WorkerSound /\ WaitingIsRetried /\ InventoryFound
      /\ Succeeded /\ (webhooks = "kept" => PartsValid /\ WorkerValid)
  BY ValidFacts DEF IInv, WorkerSound, Succeeded
<1>2. /\ api' \in Config /\ cache' \in Config /\ watch' \in Watches
      /\ webhooks' \in {"kept", "away", "back"}
      /\ webhooks' = "kept" => /\ webhooks = "kept"
                               /\ PartsValid => PartsValid'
  BY <1>1, ConfigStep
<1>3. /\ worker' \in Worker /\ InventoryFound'
      /\ PartsValid /\ WorkerValid => WorkerValid'
      /\ worker'.step = "status" => worker'.reason \in Reasons
  BY <1>1, WorkerStep
<1>4. TypeOK'
  BY <1>1, <1>2, <1>3, RestStep DEF TypeOK, Watches
<1>5. SelectorsValid'
  <2>1. (SelectorsValid <=> (webhooks = "kept" => PartsValid /\ WorkerValid))'
    BY ValidFacts, PTL
  <2> QED  BY <1>1, <1>2, <1>3, <2>1
<1>6. WorkerSound'
  BY <1>1, <1>3, SuccessorStep DEF WorkerSound, Succeeded
<1>7. WaitingIsRetried'
  BY <1>1, WaitingStep
<1> QED  BY <1>3, <1>4, <1>5, <1>6, <1>7 DEF IInv

(* The invariant holds always.                                             *)
THEOREM Invariance == Spec => []IInv
<1>1. Init => IInv
  BY InitSafe
<1>2. IInv /\ [Next]_vars => IInv'
  BY StepSafe
<1> QED  BY <1>1, <1>2, PTL DEF Spec

(* Every variable keeps its type, whatever the policies and namespaces.    *)
THEOREM TypeCorrect == Spec => []TypeOK
<1>1. IInv => TypeOK
  BY DEF IInv
<1> QED  BY <1>1, Invariance, PTL

(* However many namespaces and policies there are, and whatever the worker *)
(* has in hand when something changes or fails, an object that is told to  *)
(* wait for its inventory is in the queue or has an event coming.          *)
THEOREM WaitingRetried == Spec => []WaitingIsRetried
<1>1. IInv => WaitingIsRetried
  BY DEF IInv
<1> QED  BY <1>1, Invariance, PTL

(* Whichever policies administrators try while the webhooks are kept, the  *)
(* selector that reaches the list of namespaces is one Kubernetes accepts: *)
(* it comes from a copy, of some age, of a policy or an inventory that its *)
(* webhook has checked.                                                    *)
THEOREM SelectorSound == Spec => []SelectorUsable
<1>1. IInv => SelectorUsable
  <2> SUFFICES ASSUME IInv, webhooks = "kept", worker.step = "namespace"
               PROVE  ValidPolicy(Limits(worker.inventory, worker.policy))
    BY DEF SelectorUsable, ValidPolicy
  <2>1. /\ ValidPolicy(worker.policy) /\ ValidInventory(worker.inventory)
        /\ worker.inventory # Nil
    BY DEF IInv, SelectorsValid, InventoryFound
  <2>2. ValidPolicy(worker.inventory.policy)
    BY <2>1 DEF ValidInventory
  <2> QED  BY <2>1, <2>2 DEF Limits
<1> QED  BY <1>1, Invariance, PTL

(* When nothing it has read has changed since, the check gives the verdict *)
(* on the cluster, and fails where the selector is unusable.               *)
CheckIsVerdict ==
  /\ worker.step = "namespace"
  /\ worker.inventory = api.inventory /\ worker.policy = api.policy
  => Verdict = IF ListFails THEN "unusable" ELSE Answer(api.labelled)

(* It always does.  That the copies are up to date in the end is the       *)
(* informers' business, and that the check is made again the queue's.      *)
THEOREM CheckSound == Spec => []CheckIsVerdict
<1>1. IInv => CheckIsVerdict
  <2> SUFFICES ASSUME IInv, worker.step = "namespace",
                      worker.inventory = api.inventory, worker.policy = api.policy
               PROVE  Verdict = IF ListFails THEN "unusable" ELSE Answer(api.labelled)
    BY DEF CheckIsVerdict
  <2> DEFINE inv    == api.inventory
             policy == IF inv.policy = Nil THEN api.policy ELSE inv.policy
             listed == IF policy = Nil THEN {}
                       ELSE IF "*" \in policy.namespaces THEN Namespaces
                       ELSE policy.namespaces
             selected == IF policy # Nil /\ policy.selector = "label"
                         THEN api.labelled ELSE {}
             open   == {Home} \cup listed \cup selected
             unusable == policy # Nil /\ policy.selector = "invalid"
             enabled == /\ api.policy # Nil
                        /\ policy.disableProvisions \in {"nil", "false"}
             ValidWith(l) == isValidConnectionNS(namespace, inv, api.policy, l)
             valid  == ValidWith(api.labelled)
  <2>1. /\ inv # Nil /\ inv \in Inventory /\ namespace \in Namespaces
        /\ api.policy \in PolicySpecs \cup {Nil}
        /\ inv.policy \in PolicySpecs \cup {Nil}
    BY DEF IInv, InventoryFound, TypeOK, Config, Inventory
  <2>2. /\ Limits(inv, api.policy) = policy
        /\ policy \in PolicySpecs \cup {Nil}
        /\ api.policy # Nil => policy # Nil
    BY <2>1 DEF Limits
  <2>3. policy # Nil => policy.disableProvisions \in {"nil", "true", "false"}
    BY <2>2, AccessAssumption DEF PolicySpec
  <2>4. \A l : ValidWith(l) <=>
          \/ namespace = Home
          \/ /\ policy # Nil
             /\ \/ policy.namespaces \cap {"*", namespace} # {}
                \/ policy.selector = "label" /\ namespace \in l
    BY <2>2 DEF isValidConnectionNS
  <2>5. policy # Nil =>
          (policy.namespaces \cap {"*", namespace} # {} <=> namespace \in listed)
    BY <2>1
  <2>6. /\ valid <=> namespace \in open
        /\ ValidWith({}) <=> namespace \in {Home} \cup listed
    BY <2>4, <2>5
  <2>7. ListFails <=> namespace \notin open /\ unusable
    <3>1. ListFails <=> ~ValidWith({}) /\ unusable
      BY <2>2 DEF ListFails
    <3>2. unusable => open = {Home} \cup listed
      OBVIOUS
    <3> HIDE DEF open, listed, unusable, ValidWith
    <3> QED  BY <2>6, <3>1, <3>2
  <2>8. canProvision(inv, api.policy) <=> enabled
    BY <2>2, <2>3 DEF canProvision
  <2>9. Verdict = IF namespace \notin open
                  THEN IF unusable THEN "unusable" ELSE "refused"
                  ELSE IF ~inv.ready THEN "not ready"
                  ELSE IF Kind = "instance" /\ ~enabled THEN "not provisionable"
                  ELSE "passed"
    BY <2>1 DEF Verdict
  <2>10. Answer(api.labelled) = IF ~valid THEN "refused"
                                ELSE IF ~inv.ready THEN "not ready"
                                ELSE IF ~canProvision(inv, api.policy)
                                          /\ Kind = "instance"
                                     THEN "not provisionable"
                                ELSE "passed"
    <3>1. CASE valid
      BY <3>1 DEF Answer
    <3>2. CASE ~valid
      BY <3>2 DEF Answer
    <3> QED  BY <3>1, <3>2
  <2> HIDE DEF valid, open, enabled, inv, unusable, ValidWith
  <2> QED  BY <2>6, <2>7, <2>8, <2>9, <2>10
<1> QED  BY <1>1, Invariance, PTL
=============================================================================
