---------------------------- MODULE StatusMetrics ----------------------------
(***************************************************************************)
(* The gauges of an inventory, instance or connection: the ready gauge,    *)
(* one series per status, reason and creation time, and the phase gauge of *)
(* instances.  They live in the operator's memory and have two writers:    *)
(* the reconcile's worker, which publishes its own copy of the object as   *)
(* it returns, and the Delete handler, which publishes the deleted object  *)
(* from an informer's goroutine.  Neither locks the other out, and a       *)
(* writer clears the object's series and sets the new one in two calls.    *)
(*                                                                         *)
(* Each controller registers two handlers for its objects: For's, which    *)
(* only enqueues, and EventHandlerWithDelete.  An informer feeds each of   *)
(* them in order, from a goroutine of its own, so that one may be ahead of *)
(* the other.                                                              *)
(*                                                                         *)
(* Abstractions: one object, that may be created again under its name; its *)
(* status is the reason of the Ready condition, which decides the series   *)
(* and stands for the phase; ProviderResource has the reconcile in full.   *)
(* The periodic resync is left out: nothing here may depend on it.         *)
(***************************************************************************)
EXTENDS Naturals, Sequences

CONSTANTS
  Kinds,      \* the kinds of objects, of which this is one
  Providers,  \* names of providers
  MaxOps,     \* bound: what users, administrators and providers do, restarts
  MaxFaults   \* bound: API calls that fail for no reason the model shows

ASSUME StatusMetricsAssumption ==
  /\ Kinds \subseteq {"inventory", "instance", "connection"} /\ Kinds # {}
  /\ Providers # {}
  /\ MaxOps \in Nat
  /\ MaxFaults \in Nat

VARIABLES
  kind,      \* the object's kind
  object,    \* the object in the API server, or as it was when deleted
  watch,     \* the events on their way to the informer
  cache,     \* the informer's copy
  enqueue,   \* For's handler has an event to handle
  events,    \* the events EventHandlerWithDelete has to handle
  queued,    \* the object's key is in the work queue
  worker,    \* the reconcile in flight
  dropped,   \* the last refusal could not be written, and nobody retries
  writing,   \* what each writer of the gauges has left to do
  ready,     \* the series of the ready gauge
  phase,     \* the series of the phase gauge: its provider label and value
  account,   \* the provider of the inventory the object names ("": no such)
  gate,      \* what the checks of policies and namespaces come to
  synced,    \* the provider's object is synced
  ops, faults

objectVars == <<object, watch>>
informerVars == <<cache, enqueue, events>>
gauges == <<ready, phase>>
envVars == <<account, gate, synced>>
bounds == <<ops, faults>>
vars == <<kind, objectVars, informerVars, queued, worker, dropped, writing,
          gauges, envVars, bounds>>

Reasons == {"none", "ready", "in progress", "waiting", "refused",
            "provider error"}
Gates == {"open", "waiting", "closed"}
Label == Providers \cup {""}

(* An inventory names its provider; the others have that of an inventory.  *)
Object == [uid : Nat, alive : BOOLEAN, provider : Label, reason : Reasons]
ProviderRefs == IF kind = "inventory" THEN Providers ELSE {""}

(* A series: its provider label, the creation time, status and reason.     *)
Series == [provider : Label, uid : Nat, reason : Reasons]

Worker == [step : {"idle", "check", "sync", "status"},
           object : Object, provider : Label, fresh : BOOLEAN,
           measured : BOOLEAN, again : BOOLEAN]
Writer == {"worker", "handler"}
Writing == [step : {"idle", "clear", "set", "phase"}, object : Object,
            provider : Label]

NoObject == [uid |-> 0, alive |-> FALSE, provider |-> "", reason |-> "none"]
IdleWorker == [step |-> "idle", object |-> NoObject, provider |-> "",
               fresh |-> FALSE, measured |-> FALSE, again |-> FALSE]
IdleWriter == [step |-> "idle", object |-> NoObject, provider |-> ""]

Init ==
  /\ kind \in Kinds
  /\ object = NoObject
  /\ watch = <<>>
  /\ cache = object
  /\ enqueue = FALSE
  /\ events = <<>>
  /\ queued = FALSE
  /\ worker = IdleWorker
  /\ dropped = FALSE
  /\ writing = [w \in Writer |-> IdleWriter]
  /\ ready = {}
  /\ phase = {}
  /\ account \in IF kind = "inventory" THEN {""} ELSE Providers
  /\ gate = "open"
  /\ synced = FALSE
  /\ ops = 0
  /\ faults = 0

-----------------------------------------------------------------------------
(* The environment.                                                        *)

Operation == /\ ops < MaxOps
             /\ ops' = ops + 1
             /\ UNCHANGED faults

Fault == /\ faults < MaxFaults
         /\ faults' = faults + 1
         /\ UNCHANGED ops

WriteObject(o) == /\ object' = o
                  /\ watch' = Append(watch, o)

Stale == worker' = [worker EXCEPT !.fresh = FALSE]

CreateObject(p) ==
  /\ Operation
  /\ ~object.alive
  /\ p \in ProviderRefs
  /\ WriteObject([uid |-> object.uid + 1, alive |-> TRUE, provider |-> p,
                  reason |-> "none"])
  /\ Stale
  /\ UNCHANGED <<kind, informerVars, queued, dropped, writing, gauges, envVars>>

DeleteObject ==
  /\ Operation
  /\ object.alive
  /\ WriteObject([object EXCEPT !.alive = FALSE])
  /\ Stale
  /\ UNCHANGED <<kind, informerVars, queued, dropped, writing, gauges, envVars>>

(* An edit that the gauges do not tell.                                    *)
EditObject ==
  /\ Operation
  /\ object.alive
  /\ WriteObject(object)
  /\ Stale
  /\ UNCHANGED <<kind, informerVars, queued, dropped, writing, gauges, envVars>>

(* The provider's object changes, and its watch enqueues the key.          *)
ProviderChanges ==
  /\ Operation
  /\ synced' = ~synced
  /\ queued' = TRUE
  /\ UNCHANGED <<kind, objectVars, informerVars, worker, dropped, writing, gauges,
                 account, gate>>

(* Policies and namespaces change, the inventory becomes ready or not, and *)
(* comes and goes: no controller of the object hears of it.                *)
ChangeGate(g) ==
  /\ Operation
  /\ g # gate /\ (kind = "inventory" => g # "waiting")
  /\ gate' = g
  /\ UNCHANGED <<kind, objectVars, informerVars, queued, worker, dropped, writing,
                 gauges, account, synced>>

ChangeAccount(l) ==
  /\ Operation
  /\ kind # "inventory" /\ l # account
  /\ account' = l
  /\ UNCHANGED <<kind, objectVars, informerVars, queued, worker, dropped, writing,
                 gauges, gate, synced>>

(* The gauges are memory: a restart loses them, and lists the object.      *)
Restart ==
  /\ Operation
  /\ watch' = <<>>
  /\ cache' = object
  /\ enqueue' = object.alive
  /\ events' = IF object.alive THEN <<object>> ELSE <<>>
  /\ queued' = FALSE
  /\ worker' = IdleWorker
  /\ dropped' = FALSE
  /\ writing' = [w \in Writer |-> IdleWriter]
  /\ ready' = {}
  /\ phase' = {}
  /\ UNCHANGED <<kind, object, envVars>>

-----------------------------------------------------------------------------
(* The informer and its two handlers.                                      *)

Deliver ==
  /\ watch # <<>>
  /\ cache' = Head(watch)
  /\ watch' = Tail(watch)
  /\ enqueue' = TRUE
  /\ events' = Append(events, Head(watch))
  /\ UNCHANGED <<kind, object, queued, worker, dropped, writing, gauges, envVars, bounds>>

EnqueueRequestForObject ==
  /\ enqueue
  /\ enqueue' = FALSE
  /\ queued' = TRUE
  /\ UNCHANGED <<kind, objectVars, cache, events, worker, dropped, writing, gauges,
                 envVars, bounds>>

Publish(w, o, label) ==
  writing' = [writing EXCEPT
                ![w] = [step |-> "clear", object |-> o, provider |-> label]]

(* The provider label: an inventory names its provider, an instance or a   *)
(* connection is labelled with what its inventory, when it is read, names; *)
(* the Delete handler takes one that is gone for one without a provider.   *)
ProviderOf(o) == IF kind = "inventory" THEN o.provider ELSE account

(* Mutant: the handler is there for deletions and enqueues nothing.        *)
EventHandlerOnlyDelete ==
  /\ events # <<>> /\ writing["handler"].step = "idle"
  /\ events' = Tail(events)
  /\ IF Head(events).alive
     THEN UNCHANGED writing
     ELSE Publish("handler", Head(events), ProviderOf(Head(events)))
  /\ UNCHANGED <<kind, objectVars, cache, enqueue, queued, worker, dropped, gauges,
                 envVars, bounds>>

(* EventHandlerWithDelete: anything but a deletion enqueues the key; a     *)
(* deletion publishes the deleted object.                                  *)
EventHandlerWithDelete ==
  /\ events # <<>> /\ writing["handler"].step = "idle"
  /\ events' = Tail(events)
  /\ \/ /\ Head(events).alive
        /\ queued' = TRUE
        /\ UNCHANGED writing
     \/ /\ ~Head(events).alive
        /\ Publish("handler", Head(events), ProviderOf(Head(events)))
        /\ UNCHANGED queued
  /\ UNCHANGED <<kind, objectVars, cache, enqueue, worker, dropped, gauges, envVars, bounds>>

-----------------------------------------------------------------------------
(* Reconcile, as far as the gauges go.                                     *)

GetObject ==
  /\ worker.step = "idle" /\ writing["worker"].step = "idle" /\ queued
  /\ queued' = FALSE
  /\ worker' = IF ~cache.alive THEN IdleWorker
               ELSE [IdleWorker EXCEPT !.step = "check", !.object = cache,
                                       !.fresh = watch = <<>>]
  /\ dropped' = FALSE
  /\ UNCHANGED <<kind, objectVars, informerVars, writing, gauges, envVars, bounds>>

(* Set the reason, to be written to the status.                            *)
Report(r, measured, again) ==
  worker' = [worker EXCEPT !.step = "status", !.object.reason = r,
                           !.measured = measured, !.again = again]

(* checkInventory, and an inventory's look for the active policy.  What    *)
(* passes keeps the inventory that was read.  What does not is written to  *)
(* the status and not to the gauges; the error that the inventory is not   *)
(* there, not ready or not to be provisioned from has the key retried, and *)
(* a refused namespace, or no policy, has not.                             *)
InventoryGone == kind # "inventory" /\ account = ""

Check ==
  /\ worker.step = "check"
  /\ \/ /\ ~InventoryGone /\ gate = "open"
        /\ worker' = [worker EXCEPT !.step = "sync",
                                    !.provider = ProviderOf(worker.object)]
     \/ /\ InventoryGone \/ gate = "waiting"
        /\ Report("waiting", FALSE, TRUE)
     \/ /\ ~InventoryGone /\ gate = "closed"
        /\ Report("refused", FALSE, FALSE)
  /\ UNCHANGED <<kind, objectVars, informerVars, queued, dropped, writing,
                 gauges, envVars, bounds>>

(* A read of the checks fails: an error and no status.                     *)
CheckFails ==
  /\ Fault
  /\ worker.step = "check"
  /\ worker' = IdleWorker
  /\ queued' = TRUE
  /\ UNCHANGED <<kind, objectVars, informerVars, dropped, writing, gauges,
                 envVars>>

(* The provider is looked up.  Only an inventory has deferred its metrics  *)
(* by then, and publishes the status it came with if that fails.           *)
LookupFails ==
  /\ Fault
  /\ worker.step = "sync"
  /\ worker' = IdleWorker
  /\ queued' = TRUE
  /\ IF kind = "inventory"
     THEN Publish("worker", worker.object, worker.provider)
     ELSE UNCHANGED writing
  /\ UNCHANGED <<kind, objectVars, informerVars, dropped, gauges, envVars>>

(* Mutant: the provider's own condition is passed on as the reason.        *)
SyncRaw ==
  /\ worker.step = "sync"
  /\ Report(IF synced THEN "ready" ELSE "spec not synced", TRUE, FALSE)
  /\ UNCHANGED <<kind, objectVars, informerVars, queued, dropped, writing,
                 gauges, envVars, bounds>>

(* reconcileProviderResource, up to its status write.                      *)
Sync ==
  /\ worker.step = "sync"
  /\ Report(IF synced THEN "ready" ELSE "in progress", TRUE, FALSE)
  /\ UNCHANGED <<kind, objectVars, informerVars, queued, dropped, writing,
                 gauges, envVars, bounds>>

(* A conflict, or a look-up that fails, leaves the condition as it was.    *)
SyncFails ==
  /\ Fault
  /\ worker.step = "sync"
  /\ \/ Report("provider error", TRUE, TRUE)
     \/ Report(IF worker.object.reason = "none" THEN "in progress"
               ELSE worker.object.reason, TRUE, TRUE)
  /\ UNCHANGED <<kind, objectVars, informerVars, queued, dropped, writing,
                 gauges, envVars>>

(* The reconcile returns, and the deferred call publishes its copy under   *)
(* the provider that its check read.                                       *)
Return(again) ==
  /\ worker' = IdleWorker
  /\ queued' = (queued \/ again)
  /\ \/ /\ worker.measured
        /\ Publish("worker", worker.object, worker.provider)
     \/ /\ ~worker.measured
        /\ UNCHANGED writing

UpdateStatus ==
  /\ worker.step = "status" /\ worker.fresh
  /\ IF worker.object = object THEN UNCHANGED objectVars
                               ELSE WriteObject(worker.object)
  /\ Return(worker.again)
  /\ UNCHANGED <<kind, informerVars, dropped, gauges, envVars, bounds>>

(* A write that fails is retried, unless checkInventory made it for a      *)
(* namespace it refuses: it logs the failure and returns no error.         *)
RetriedWrite == worker.measured \/ worker.again \/ kind = "inventory"

StatusConflict ==
  /\ worker.step = "status" /\ ~worker.fresh
  /\ Return(RetriedWrite)
  /\ dropped' = ~RetriedWrite
  /\ UNCHANGED <<kind, objectVars, informerVars, gauges, envVars, bounds>>

StatusFails ==
  /\ Fault
  /\ worker.step = "status" /\ worker.fresh
  /\ Return(RetriedWrite)
  /\ dropped' = ~RetriedWrite
  /\ UNCHANGED <<kind, objectVars, informerVars, gauges, envVars>>

-----------------------------------------------------------------------------
(* The gauges.                                                             *)

(* Mutant: the series of the object's earlier status stay.                 *)
ClearedNone(o) == {}

(* DeletePartialMatch: an inventory's series of its provider, all series   *)
(* of an instance or connection.                                           *)
Cleared(o) == {s \in ready : kind = "inventory" => s.provider = o.provider}

(* setInventoryStatusMetrics and its siblings do nothing without a Ready   *)
(* condition.                                                              *)
ClearSeries(w) ==
  /\ writing[w].step = "clear"
  /\ \/ /\ writing[w].object.reason # "none"
        /\ ready' = ready \ Cleared(writing[w].object)
        /\ writing' = [writing EXCEPT ![w].step = "set"]
     \/ /\ writing[w].object.reason = "none"
        /\ writing' = [writing EXCEPT ![w].step = "phase"]
        /\ UNCHANGED ready
  /\ UNCHANGED <<kind, objectVars, informerVars, queued, worker, dropped, phase, envVars,
                 bounds>>

SeriesOf(o, label) == [provider |-> label, uid |-> o.uid, reason |-> o.reason]

SetSeries(w) ==
  /\ writing[w].step = "set"
  /\ ready' = ready \cup {SeriesOf(writing[w].object, writing[w].provider)}
  /\ writing' = [writing EXCEPT ![w].step = "phase"]
  /\ UNCHANGED <<kind, objectVars, informerVars, queued, worker, dropped, phase, envVars,
                 bounds>>

(* Mutant: the phase of an instance that is ready is not worth setting.    *)
setInstancePhaseMetricsSome(w) ==
  /\ writing[w].step = "phase"
  /\ phase' = IF kind = "instance" /\ writing[w].object.reason # "ready"
              THEN {s \in phase : s.provider # writing[w].provider}
                     \cup {[provider |-> writing[w].provider,
                            reason |-> writing[w].object.reason]}
              ELSE phase
  /\ writing' = [writing EXCEPT ![w] = IdleWriter]
  /\ UNCHANGED <<kind, objectVars, informerVars, queued, worker, dropped, ready, envVars,
                 bounds>>

(* The phase gauge: the series of the instance's provider takes the value. *)
(* No series of it is ever deleted.                                        *)
setInstancePhaseMetrics(w) ==
  /\ writing[w].step = "phase"
  /\ phase' = IF kind = "instance"
              THEN {s \in phase : s.provider # writing[w].provider}
                     \cup {[provider |-> writing[w].provider,
                            reason |-> writing[w].object.reason]}
              ELSE phase
  /\ writing' = [writing EXCEPT ![w] = IdleWriter]
  /\ UNCHANGED <<kind, objectVars, informerVars, queued, worker, dropped, ready, envVars,
                 bounds>>

-----------------------------------------------------------------------------
Reconcile == \/ GetObject \/ Check \/ CheckFails \/ LookupFails \/ Sync
             \/ SyncFails \/ UpdateStatus \/ StatusConflict \/ StatusFails
SetMetrics(w) == ClearSeries(w) \/ SetSeries(w) \/ setInstancePhaseMetrics(w)

Next ==
  \/ \E p \in Label : CreateObject(p)
  \/ DeleteObject
  \/ EditObject
  \/ ProviderChanges
  \/ \E g \in Gates : ChangeGate(g)
  \/ \E l \in Label : ChangeAccount(l)
  \/ Restart
  \/ Deliver
  \/ EnqueueRequestForObject
  \/ EventHandlerWithDelete
  \/ Reconcile
  \/ \E w \in Writer : SetMetrics(w)

(* Informers, handlers and workers keep running.                           *)
Fairness ==
  /\ WF_vars(Deliver)
  /\ WF_vars(EnqueueRequestForObject)
  /\ WF_vars(EventHandlerWithDelete)
  /\ WF_vars(Reconcile)
  /\ \A w \in Writer : WF_vars(SetMetrics(w))

Spec == Init /\ [][Next]_vars /\ Fairness

-----------------------------------------------------------------------------
(* Properties.                                                             *)

(* Type correctness.  The phase series are records of a label and a value. *)
TypeOK ==
  /\ kind \in Kinds
  /\ object \in Object /\ cache \in Object
  /\ watch \in Seq(Object) /\ events \in Seq(Object)
  /\ enqueue \in BOOLEAN /\ queued \in BOOLEAN
  /\ worker \in Worker /\ dropped \in BOOLEAN
  /\ writing \in [Writer -> Writing]
  /\ ready \subseteq Series
  /\ phase \subseteq [provider : Label, reason : Reasons]
  /\ account \in Label /\ gate \in Gates /\ synced \in BOOLEAN
  /\ ops \in 0..MaxOps /\ faults \in 0..MaxFaults

(* The status was reported by a reconcile that publishes, and is not out   *)
(* of date because a refusal got lost.                                     *)
Published == /\ object.alive /\ ~dropped
             /\ object.reason \notin {"none", "waiting", "refused"}

(* The object's series, up to the provider label where the gauge is        *)
(* cleared of all of them.                                                 *)
Shown == {[uid |-> s.uid, reason |-> s.reason] :
            s \in {t \in ready : kind = "inventory" => t.provider = object.provider}}

Current == {[uid |-> object.uid, reason |-> object.reason]}

(* The phase gauge has the phase under the ready gauge's provider.         *)
PhaseShown ==
  \E s \in ready : [provider |-> s.provider, reason |-> object.reason] \in phase

(* Nothing is under way: no event, no key, no reconcile, no write.         *)
Coming == \/ watch # <<>> \/ enqueue \/ events # <<>> \/ queued
          \/ worker.step # "idle"
AtRest == ~Coming /\ \A w \in Writer : writing[w].step = "idle"

(* Whenever the operator has nothing left to do, the ready gauge shows the *)
(* one series of the object's status, and none of an earlier object of its *)
(* name or of an earlier status; and an instance's phase gauge shows its   *)
(* phase.  Nobody would come back to mend a series left by the Delete      *)
(* handler or by a worker whose status was not accepted.                   *)
GaugesAtRest ==
  AtRest /\ Published =>
    /\ Shown = Current
    /\ kind = "instance" => PhaseShown

(* The ready gauge ends up with the one series of the object's status,     *)
(* whatever order the worker and the Delete handler of an earlier object   *)
(* of the name write in: the second handler enqueues what follows the      *)
(* deletion only after it has published it, so that the worker writes last.*)
GaugeSettles ==
  <>[]Published =>
    <>[](Shown = Current)

(* An instance's phase gauge ends up with the phase of the instance under  *)
(* the provider that the ready gauge names.                                *)
PhaseSettles ==
  <>[](Published /\ kind = "instance") =>
    <>[]PhaseShown
=============================================================================
