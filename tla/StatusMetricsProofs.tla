------------------------- MODULE StatusMetricsProofs -------------------------
(***************************************************************************)
(* Proofs about the gauges, for any kinds of objects, any providers and    *)
(* any number of operations and faults: whenever nothing is under way, the *)
(* gauges show the object that is there, with the status it has.           *)
(***************************************************************************)
EXTENDS StatusMetrics, SequenceTheorems, TLAPS

(* The informer lags behind by the events under way and only by these, and *)
(* its second handler by those it has yet to handle.                       *)
Lag ==
  /\ IF watch = <<>> THEN cache = object ELSE watch[Len(watch)] = object
  /\ events # <<>> => events[Len(events)] = cache

(* A handler that publishes a deleted object while there is another one    *)
(* has yet to hear of that.                                                *)
HandlerBehind ==
  object.alive /\ writing["handler"].step # "idle" =>
    watch # <<>> \/ events # <<>>

(* A status that the worker will not publish is none of those published;   *)
(* what it will publish of an inventory is under the inventory's provider; *)
(* and it takes no key before it is done with the gauges.                  *)
Measuring == \/ worker.step = "sync"
             \/ worker.step = "status" /\ worker.measured
InHand ==
  /\ worker.step = "status" /\ ~worker.measured =>
       worker.object.reason \in {"waiting", "refused"}
  /\ Measuring /\ kind = "inventory" => worker.provider = worker.object.provider
  /\ writing["worker"].step # "idle" => worker.step = "idle"

Labelled ==
  \A w \in Writer : kind = "inventory" =>
     writing[w].provider = writing[w].object.provider

(* Once nothing is coming, what the worker still has to write is of the    *)
(* object that is there, and the gauges show what it has written of that.  *)
WriterDone(x) ==
  /\ x.step # "idle" => x.object = object
  /\ x.step = "set" => Shown = {}
  /\ x.step \in {"idle", "phase"} => Shown = Current
  /\ x.step = "phase" /\ kind = "instance" =>
       \A s \in ready : s.provider = x.provider
  /\ x.step = "idle" /\ kind = "instance" => PhaseShown
Settled == ~Coming /\ Published => WriterDone(writing["worker"])

(* The inductive invariant.                                                *)
IInv == TypeOK /\ Lag /\ HandlerBehind /\ InHand /\ Labelled /\ Settled

-----------------------------------------------------------------------------
(* The parts the model is built from.                                      *)

(* Nothing, the worker that does nothing and the idle writer have their    *)
(* types.                                                                  *)
LEMMA NothingTypes ==
  /\ NoObject \in Object /\ NoObject.alive = FALSE
  /\ IdleWorker \in Worker /\ IdleWorker.step = "idle"
  /\ IdleWriter \in Writing /\ IdleWriter.step = "idle"
  /\ IdleWriter.provider = IdleWriter.object.provider
<1>1. NoObject \in Object /\ NoObject.alive = FALSE /\ NoObject.provider = ""
  BY DEF NoObject, Object, Label, Reasons
<1> HIDE DEF NoObject
<1>2. "" \in Label
  BY DEF Label
<1>3. IdleWorker \in Worker /\ IdleWorker.step = "idle"
  BY <1>1, <1>2 DEF IdleWorker, Worker
<1>4. IdleWriter \in Writing /\ IdleWriter.step = "idle"
      /\ IdleWriter.object = NoObject /\ IdleWriter.provider = ""
  BY <1>1, <1>2 DEF IdleWriter, Writing
<1> QED  BY <1>1, <1>3, <1>4

(* Appending to a sequence, and taking its first element.                  *)
LEMMA SequenceFacts ==
  ASSUME NEW S, NEW s \in Seq(S), NEW e \in S
  PROVE  /\ Append(s, e) \in Seq(S) /\ Append(s, e) # <<>>
         /\ Append(s, e)[Len(Append(s, e))] = e
         /\ s # <<>> => /\ Head(s) \in S /\ Tail(s) \in Seq(S)
                        /\ Tail(s) = <<>> => Head(s) = s[Len(s)]
                        /\ Tail(s) # <<>> => Tail(s)[Len(Tail(s))] = s[Len(s)]
<1>1. Append(s, e) \in Seq(S) /\ Append(s, e)[Len(Append(s, e))] = e
  OBVIOUS
<1>2. Append(s, e) # <<>>
  <2>1. Len(Append(s, e)) # 0
    OBVIOUS
  <2> QED  BY <2>1, EmptySeq
<1>3. ASSUME s # <<>>
      PROVE  /\ Head(s) \in S /\ Tail(s) \in Seq(S)
             /\ Len(Tail(s)) = Len(s) - 1 /\ Len(s) \in Nat \ {0}
             /\ Head(s) = s[1]
             /\ \A i \in 1 .. Len(s) - 1 : Tail(s)[i] = s[i + 1]
  BY <1>3
<1>4. ASSUME s # <<>>, Tail(s) = <<>>
      PROVE  Head(s) = s[Len(s)]
  <2>1. Len(Tail(s)) = 0
    BY <1>4, EmptySeq
  <2>2. Len(s) = 1
    BY <1>3, <1>4, <2>1
  <2> QED  BY <1>3, <1>4, <2>2
<1>5. ASSUME s # <<>>, Tail(s) # <<>>
      PROVE  Tail(s)[Len(Tail(s))] = s[Len(s)]
  <2>1. Len(Tail(s)) \in Nat \ {0}
    BY <1>3, <1>5, EmptySeq
  <2>2. Len(s) - 1 \in 1 .. Len(s) - 1
    BY <1>3, <1>5, <2>1
  <2> QED  BY <1>3, <1>5, <2>2
<1> QED  BY <1>1, <1>2, <1>3, <1>4, <1>5

(* What Publish leaves the writers with.                                   *)
LEMMA PublishTypes ==
  ASSUME TypeOK, NEW w \in Writer, NEW o \in Object, NEW label \in Label,
         Publish(w, o, label)
  PROVE  /\ writing' \in [Writer -> Writing]
         /\ writing'[w].step = "clear" /\ writing'[w].object = o
         /\ writing'[w].provider = label
         /\ \A v \in Writer : v # w => writing'[v] = writing[v]
<1> DEFINE x == [step |-> "clear", object |-> o, provider |-> label]
<1>1. /\ x \in Writing /\ x.step = "clear" /\ x.object = o
      /\ x.provider = label
  BY DEF Writing
<1>2. writing' = [writing EXCEPT ![w] = x] /\ writing \in [Writer -> Writing]
  BY DEF Publish, TypeOK
<1> HIDE DEF x
<1> QED  BY <1>1, <1>2

(* What the worker has once it reports a reason.                           *)
LEMMA ReportTypes ==
  ASSUME TypeOK, NEW r \in Reasons, NEW measured \in BOOLEAN,
         NEW again \in BOOLEAN, Report(r, measured, again)
  PROVE  /\ worker' \in Worker /\ worker'.step = "status"
         /\ worker'.object.reason = r /\ worker'.measured = measured
         /\ worker'.object.provider = worker.object.provider
         /\ worker'.provider = worker.provider
<1> DEFINE o == [worker.object EXCEPT !.reason = r]
<1>1. worker \in Worker /\ worker.object \in Object
  BY DEF TypeOK, Worker
<1>2. o \in Object /\ o.reason = r /\ o.provider = worker.object.provider
  BY <1>1 DEF Object
<1>3. worker' = [worker EXCEPT !.step = "status", !.object = o,
                               !.measured = measured, !.again = again]
  BY <1>1 DEF Report, Worker, o
<1> HIDE DEF o
<1> QED  BY <1>1, <1>2, <1>3 DEF Worker

(* The provider label is one.                                              *)
LEMMA LabelTypes ==
  ASSUME TypeOK, NEW o \in Object
  PROVE  ProviderOf(o) \in Label
BY DEF ProviderOf, TypeOK, Object

(* A write of the object reaches the informer as an event.                 *)
LEMMA WriteTypes ==
  ASSUME TypeOK, NEW o \in Object, WriteObject(o)
  PROVE  /\ object' \in Object /\ watch' \in Seq(Object)
         /\ watch' # <<>> /\ watch'[Len(watch')] = object'
<1>1. watch \in Seq(Object) /\ watch' = Append(watch, o) /\ object' = o
  BY DEF TypeOK, WriteObject
<1> QED  BY <1>1, SequenceFacts

(* The bounds stay bounds.                                                 *)
LEMMA BoundTypes ==
  ASSUME TypeOK, Operation \/ Fault \/ UNCHANGED bounds
  PROVE  ops' \in 0 .. MaxOps /\ faults' \in 0 .. MaxFaults
<1>1. MaxOps \in Nat /\ MaxFaults \in Nat
  BY StatusMetricsAssumption
<1> QED  BY <1>1 DEF TypeOK, Operation, Fault, bounds

-----------------------------------------------------------------------------
(* The types.                                                              *)

(* What the environment does keeps the types.                              *)
LEMMA EnvTypes ==
  ASSUME TypeOK,
         \/ \E p \in Label : CreateObject(p)
         \/ DeleteObject \/ EditObject \/ ProviderChanges
         \/ \E g \in Gates : ChangeGate(g)
         \/ \E l \in Label : ChangeAccount(l)
  PROVE  TypeOK'
<1>1. ops' \in 0 .. MaxOps /\ faults' \in 0 .. MaxFaults
  BY BoundTypes DEF CreateObject, DeleteObject, EditObject, ProviderChanges,
                    ChangeGate, ChangeAccount
<1>2. CASE ProviderChanges \/ (\E g \in Gates : ChangeGate(g))
           \/ \E l \in Label : ChangeAccount(l)
  BY <1>1, <1>2 DEF ProviderChanges, ChangeGate, ChangeAccount, TypeOK,
                    objectVars, informerVars, gauges
<1>3. ASSUME NEW o \in Object, WriteObject(o), Stale,
             UNCHANGED <<kind, informerVars, queued, dropped, writing, gauges,
                         envVars>>
      PROVE  TypeOK'
  <2>1. object' \in Object /\ watch' \in Seq(Object)
    BY <1>3, WriteTypes
  <2>2. worker' \in Worker
    BY <1>3 DEF TypeOK, Stale, Worker
  <2> QED  BY <1>1, <1>3, <2>1, <2>2
           DEF TypeOK, informerVars, gauges, envVars
<1>4. object \in Object
  BY DEF TypeOK
<1>5. CASE \E p \in Label : CreateObject(p)
  <2>1. PICK p \in Label : CreateObject(p)
    BY <1>5
  <2> DEFINE o == [uid |-> object.uid + 1, alive |-> TRUE, provider |-> p,
                   reason |-> "none"]
  <2>2. object.uid + 1 \in Nat /\ "none" \in Reasons
    <3>1. object.uid \in Nat
      BY <1>4 DEF Object
    <3>2. object.uid + 1 \in Nat
      BY <3>1
    <3> QED  BY <3>2 DEF Reasons
  <2>3. o \in Object
    BY <2>2 DEF Object
  <2> QED  BY <1>3, <2>1, <2>3 DEF CreateObject
<1>6. CASE DeleteObject
  <2>1. [object EXCEPT !.alive = FALSE] \in Object
    BY <1>4 DEF Object
  <2> QED  BY <1>3, <1>6, <2>1 DEF DeleteObject
<1>7. CASE EditObject
  BY <1>3, <1>4, <1>7 DEF EditObject
<1> QED  BY <1>2, <1>5, <1>6, <1>7

(* A restart, the informer and its handlers keep the types.                *)
LEMMA InformerTypes ==
  ASSUME TypeOK,
         Restart \/ Deliver \/ EnqueueRequestForObject \/ EventHandlerWithDelete
  PROVE  TypeOK'
<1>1. ops' \in 0 .. MaxOps /\ faults' \in 0 .. MaxFaults
  BY BoundTypes DEF Restart, Deliver, EnqueueRequestForObject,
                    EventHandlerWithDelete
<1>2. CASE Restart
  <2>1. object \in Object /\ object.alive \in BOOLEAN
    BY DEF TypeOK, Object
  <2>2. events' \in Seq(Object)
    BY <1>2, <2>1 DEF Restart
  <2>3. worker' \in Worker /\ writing' \in [Writer -> Writing]
    BY <1>2, NothingTypes DEF Restart
  <2>4. watch' \in Seq(Object)
    BY <1>2 DEF Restart
  <2> QED  BY <1>1, <1>2, <2>1, <2>2, <2>3, <2>4 DEF Restart, TypeOK, envVars
<1>3. CASE Deliver
  <2>1. watch \in Seq(Object) /\ watch # <<>> /\ events \in Seq(Object)
    BY <1>3 DEF Deliver, TypeOK
  <2>2. Head(watch) \in Object /\ Tail(watch) \in Seq(Object)
    BY <2>1
  <2>3. Append(events, Head(watch)) \in Seq(Object)
    BY <2>1, <2>2
  <2> QED  BY <1>1, <1>3, <2>2, <2>3 DEF Deliver, TypeOK, gauges, envVars
<1>4. CASE EnqueueRequestForObject
  BY <1>1, <1>4 DEF EnqueueRequestForObject, TypeOK, objectVars, gauges, envVars
<1>5. CASE EventHandlerWithDelete
  <2>1. events \in Seq(Object) /\ events # <<>> /\ events' = Tail(events)
    BY <1>5 DEF EventHandlerWithDelete, TypeOK
  <2>2. Head(events) \in Object /\ events' \in Seq(Object)
    BY <2>1
  <2>3. writing' \in [Writer -> Writing]
    <3>1. CASE UNCHANGED writing
      BY <3>1 DEF TypeOK
    <3>2. CASE Publish("handler", Head(events), ProviderOf(Head(events)))
      <4>1. "handler" \in Writer
        BY DEF Writer
      <4>2. ProviderOf(Head(events)) \in Label
        BY <2>2, LabelTypes
      <4> QED  BY <2>2, <3>2, <4>1, <4>2, PublishTypes
    <3> QED  BY <1>5, <3>1, <3>2 DEF EventHandlerWithDelete
  <2> QED  BY <1>1, <1>5, <2>2, <2>3
           DEF EventHandlerWithDelete, TypeOK, objectVars, gauges, envVars
<1> QED  BY <1>2, <1>3, <1>4, <1>5

(* A copy that the worker publishes has its types.                         *)
LEMMA WorkerPublishes ==
  ASSUME TypeOK,
         UNCHANGED writing \/ Publish("worker", worker.object, worker.provider)
  PROVE  writing' \in [Writer -> Writing]
<1>1. CASE UNCHANGED writing
  BY <1>1 DEF TypeOK
<1>2. CASE Publish("worker", worker.object, worker.provider)
  <2>1. "worker" \in Writer
    BY DEF Writer
  <2>2. worker.object \in Object /\ worker.provider \in Label
    BY DEF TypeOK, Worker
  <2> QED  BY <1>2, <2>1, <2>2, PublishTypes
<1> QED  BY <1>1, <1>2

(* The reconcile keeps the types.                                          *)
LEMMA ReconcileTypes ==
  ASSUME TypeOK, Reconcile
  PROVE  TypeOK'
<1>1. ops' \in 0 .. MaxOps /\ faults' \in 0 .. MaxFaults
  BY BoundTypes DEF Reconcile, GetObject, Check, CheckFails, LookupFails,
       Sync, SyncFails, UpdateStatus, StatusConflict, StatusFails
<1>2. worker \in Worker /\ worker.object \in Object
      /\ worker.object.reason \in Reasons
  BY DEF TypeOK, Worker, Object
<1>3. ASSUME worker' \in Worker,
             UNCHANGED <<kind, objectVars, informerVars, queued, dropped,
                         writing, gauges, envVars>>
      PROVE  TypeOK'
  BY <1>1, <1>3 DEF TypeOK, objectVars, informerVars, gauges, envVars
<1>4. CASE GetObject
  <2>1. cache \in Object /\ (watch = <<>>) \in BOOLEAN
    BY DEF TypeOK
  <2>2. PICK c \in Object, b \in BOOLEAN : c = cache /\ b = (watch = <<>>)
    BY <2>1
  <2>3. [IdleWorker EXCEPT !.step = "check", !.object = c, !.fresh = b]
          \in Worker
    BY NothingTypes DEF Worker
  <2>4. worker' \in Worker
    BY <1>4, <2>2, <2>3, NothingTypes DEF GetObject
  <2> QED  BY <1>1, <1>4, <2>4
           DEF GetObject, TypeOK, objectVars, informerVars, gauges, envVars
<1>5. CASE Check
  <2>1. worker' \in Worker
    <3>1. ProviderOf(worker.object) \in Label
      BY <1>2, LabelTypes
    <3>2. PICK l \in Label : l = ProviderOf(worker.object)
      BY <3>1
    <3>3. CASE worker' = [worker EXCEPT !.step = "sync", !.provider = l]
      BY <1>2, <3>3 DEF Worker
    <3>4. CASE Report("waiting", FALSE, TRUE) \/ Report("refused", FALSE, FALSE)
      <4>1. "waiting" \in Reasons /\ "refused" \in Reasons
        BY DEF Reasons
      <4> QED  BY <3>4, <4>1, ReportTypes
    <3> QED  BY <1>5, <3>2, <3>3, <3>4 DEF Check
  <2> QED  BY <1>3, <1>5, <2>1 DEF Check
<1>6. CASE CheckFails
  <2>1. worker' \in Worker
    BY <1>6, NothingTypes DEF CheckFails
  <2> QED  BY <1>1, <1>6, <2>1
           DEF CheckFails, TypeOK, objectVars, informerVars, gauges, envVars
<1>7. CASE LookupFails
  <2>1. worker' \in Worker
    BY <1>7, NothingTypes DEF LookupFails
  <2>2. writing' \in [Writer -> Writing]
    BY <1>7, WorkerPublishes DEF LookupFails
  <2> QED  BY <1>1, <1>7, <2>1, <2>2
           DEF LookupFails, TypeOK, objectVars, informerVars, gauges, envVars
<1>8. CASE Sync \/ SyncFails
  <2>1. PICK r \in Reasons, again \in BOOLEAN : Report(r, TRUE, again)
    BY <1>2, <1>8 DEF Sync, SyncFails, Reasons
  <2>2. worker' \in Worker
    BY <2>1, ReportTypes
  <2> QED  BY <1>3, <1>8, <2>2 DEF Sync, SyncFails
<1>9. CASE UpdateStatus \/ StatusConflict \/ StatusFails
  <2>1. RetriedWrite \in BOOLEAN /\ worker.again \in BOOLEAN
    BY <1>2 DEF RetriedWrite, Worker
  <2>2. PICK again \in BOOLEAN : Return(again)
    BY <1>9, <2>1 DEF UpdateStatus, StatusConflict, StatusFails
  <2>3. writing' \in [Writer -> Writing]
    BY <2>2, WorkerPublishes DEF Return
  <2>4. worker' \in Worker /\ queued' \in BOOLEAN
    BY <2>2, NothingTypes DEF Return, TypeOK
  <2>5. object' \in Object /\ watch' \in Seq(Object)
    <3>1. CASE UNCHANGED objectVars
      BY <3>1 DEF TypeOK, objectVars
    <3>2. CASE WriteObject(worker.object)
      BY <1>2, <3>2, WriteTypes
    <3> QED  BY <1>9, <3>1, <3>2 DEF UpdateStatus, StatusConflict, StatusFails
  <2>6. dropped' \in BOOLEAN
    BY <1>9, <2>1 DEF UpdateStatus, StatusConflict, StatusFails, TypeOK
  <2>7. UNCHANGED <<kind, informerVars, gauges, envVars>>
    BY <1>9 DEF UpdateStatus, StatusConflict, StatusFails
  <2> QED  BY <1>1, <2>3, <2>4, <2>5, <2>6, <2>7
           DEF TypeOK, informerVars, gauges, envVars
<1> QED  BY <1>4, <1>5, <1>6, <1>7, <1>8, <1>9 DEF Reconcile

(* A writer of the gauges moves on with the copy it has.                   *)
LEMMA WriterMoves ==
  ASSUME TypeOK, NEW w \in Writer, NEW s \in {"idle", "clear", "set", "phase"},
         writing' = [writing EXCEPT ![w].step = s]
  PROVE  /\ writing' \in [Writer -> Writing]
         /\ writing'[w].step = s
         /\ \A v \in Writer : /\ writing'[v].object = writing[v].object
                              /\ writing'[v].provider = writing[v].provider
                              /\ v # w => writing'[v] = writing[v]
<1>1. PICK x \in Writing : x = writing[w]
  BY DEF TypeOK
<1> DEFINE y == [x EXCEPT !.step = s]
<1>2. y \in Writing /\ y.object = x.object /\ y.provider = x.provider
      /\ y.step = s
  BY DEF Writing
<1>3. writing' = [writing EXCEPT ![w] = y] /\ writing \in [Writer -> Writing]
  BY <1>1 DEF TypeOK
<1> HIDE DEF y
<1> QED  BY <1>1, <1>2, <1>3

(* The writers of the gauges keep the types.                               *)
LEMMA WriterTypes ==
  ASSUME TypeOK, NEW w \in Writer, SetMetrics(w)
  PROVE  TypeOK'
<1>1. UNCHANGED <<kind, objectVars, informerVars, queued, worker, dropped,
                  envVars, bounds>>
  BY DEF SetMetrics, ClearSeries, SetSeries, setInstancePhaseMetrics
<1>2. PICK x \in Writing : x = writing[w]
  BY DEF TypeOK
<1>3. x.object \in Object /\ x.provider \in Label
      /\ x.object.reason \in Reasons /\ x.object.uid \in Nat
  BY DEF Writing, Object
<1>4. writing' \in [Writer -> Writing]
  <2>1. CASE ClearSeries(w) \/ SetSeries(w)
    <3>1. PICK s \in {"set", "phase"} : writing' = [writing EXCEPT ![w].step = s]
      BY <2>1 DEF ClearSeries, SetSeries
    <3> QED  BY <3>1, WriterMoves
  <2>2. CASE setInstancePhaseMetrics(w)
    BY <2>2, NothingTypes DEF setInstancePhaseMetrics, TypeOK
  <2> QED  BY <2>1, <2>2 DEF SetMetrics
<1>5. ready' \subseteq Series
  <2>1. SeriesOf(x.object, x.provider) \in Series
    <3>1. PICK u \in Nat, r \in Reasons : u = x.object.uid /\ r = x.object.reason
      BY <1>3
    <3> QED  BY <1>3, <3>1 DEF SeriesOf, Series
  <2>2. ready' \subseteq ready \cup {SeriesOf(x.object, x.provider)}
    BY <1>2 DEF SetMetrics, ClearSeries, SetSeries, setInstancePhaseMetrics
  <2> QED  BY <2>1, <2>2 DEF TypeOK
<1>6. phase' \subseteq [provider : Label, reason : Reasons]
  <2> DEFINE e == [provider |-> x.provider, reason |-> x.object.reason]
  <2>1. e \in [provider : Label, reason : Reasons]
    BY <1>3
  <2>2. phase' \subseteq phase \cup {e}
    BY <1>2 DEF SetMetrics, ClearSeries, SetSeries, setInstancePhaseMetrics
  <2> HIDE DEF e
  <2> QED  BY <2>1, <2>2 DEF TypeOK
<1> QED  BY <1>1, <1>4, <1>5, <1>6
         DEF TypeOK, objectVars, informerVars, envVars, bounds

(* Every step keeps the types.                                             *)
LEMMA TypeStep ==
  ASSUME TypeOK, [Next]_vars
  PROVE  TypeOK'
<1>1. CASE UNCHANGED vars
  BY <1>1 DEF vars, objectVars, informerVars, gauges, envVars, bounds, TypeOK
<1>2. CASE Next
  BY <1>2, EnvTypes, InformerTypes, ReconcileTypes, WriterTypes DEF Next
<1> QED  BY <1>1, <1>2

-----------------------------------------------------------------------------
(* The lag of the informer and of its handlers.                            *)

(* Every step keeps the lag.                                               *)
LEMMA LagStep ==
  ASSUME TypeOK, Lag, Next
  PROVE  Lag'
<1>1. CASE UNCHANGED <<objectVars, cache, events>>
  BY <1>1 DEF Lag, objectVars
<1>2. ASSUME NEW o \in Object, WriteObject(o), UNCHANGED <<cache, events>>
      PROVE  Lag'
  BY <1>2, WriteTypes DEF Lag
<1>3. object \in Object /\ worker.object \in Object
  BY DEF TypeOK, Worker
<1>4. CASE \E p \in Label : CreateObject(p)
  <2>1. PICK p \in Label : CreateObject(p)
    BY <1>4
  <2>2. object.uid \in Nat
    BY <1>3 DEF Object
  <2>3. object.uid + 1 \in Nat /\ "none" \in Reasons
    BY <2>2 DEF Reasons
  <2>4. [uid |-> object.uid + 1, alive |-> TRUE, provider |-> p,
         reason |-> "none"] \in Object
    BY <2>3 DEF Object
  <2> QED  BY <1>2, <2>1, <2>4 DEF CreateObject, informerVars
<1>5. CASE DeleteObject
  <2>1. [object EXCEPT !.alive = FALSE] \in Object
    BY <1>3 DEF Object
  <2> QED  BY <1>2, <1>5, <2>1 DEF DeleteObject, informerVars
<1>6. CASE EditObject
  BY <1>2, <1>3, <1>6 DEF EditObject, informerVars
<1>7. CASE Restart
  <2>1. watch' = <<>> /\ cache' = object'
    BY <1>7 DEF Restart
  <2>2. events' # <<>> => events' = <<object>>
    BY <1>7 DEF Restart
  <2>3. events' = <<object>> => events'[Len(events')] = cache'
    BY <1>7 DEF Restart
  <2> QED  BY <2>1, <2>2, <2>3 DEF Lag
<1>8. CASE Deliver
  <2>1. /\ watch \in Seq(Object) /\ watch # <<>> /\ events \in Seq(Object)
        /\ watch[Len(watch)] = object /\ object' = object
        /\ cache' = Head(watch) /\ watch' = Tail(watch)
        /\ events' = Append(events, Head(watch))
    BY <1>8 DEF Deliver, TypeOK, Lag
  <2>2. /\ Head(watch) \in Object
        /\ Tail(watch) = <<>> => Head(watch) = object
        /\ Tail(watch) # <<>> => Tail(watch)[Len(Tail(watch))] = object
    BY <1>3, <2>1, SequenceFacts
  <2>3. events'[Len(events')] = Head(watch)
    BY <2>1, <2>2, SequenceFacts
  <2> QED  BY <2>1, <2>2, <2>3 DEF Lag
<1>9. CASE EventHandlerWithDelete
  <2>1. /\ events \in Seq(Object) /\ events # <<>> /\ events' = Tail(events)
        /\ UNCHANGED <<objectVars, cache>>
    BY <1>9 DEF EventHandlerWithDelete, TypeOK
  <2>2. Tail(events) # <<>> => Tail(events)[Len(Tail(events))] = events[Len(events)]
    BY <1>3, <2>1, SequenceFacts
  <2> QED  BY <2>1, <2>2 DEF Lag, objectVars
<1>10. CASE UpdateStatus
  <2>1. CASE WriteObject(worker.object)
    BY <1>2, <1>3, <1>10, <2>1 DEF UpdateStatus, informerVars
  <2> QED  BY <1>1, <1>10, <2>1 DEF UpdateStatus, informerVars
<1> QED  BY <1>1, <1>4, <1>5, <1>6, <1>7, <1>8, <1>9, <1>10
         DEF Next, ProviderChanges, ChangeGate, ChangeAccount,
             EnqueueRequestForObject, Reconcile, GetObject, Check, CheckFails,
             LookupFails, Sync, SyncFails, StatusConflict, StatusFails,
             SetMetrics, ClearSeries, SetSeries, setInstancePhaseMetrics,
             informerVars

(* A deletion is the last event that the second handler has heard of only  *)
(* if the object is gone.                                                  *)
LEMMA LastEvent ==
  ASSUME TypeOK, Lag, events # <<>>, Tail(events) = <<>>, watch = <<>>
  PROVE  Head(events) = object
<1>1. events \in Seq(Object) /\ object \in Object
  BY DEF TypeOK
<1>2. Head(events) = events[Len(events)]
  BY <1>1, SequenceFacts
<1> QED  BY <1>2 DEF Lag

(* Every step leaves the second handler behind or done.                    *)
LEMMA HandlerStep ==
  ASSUME TypeOK, Lag, HandlerBehind, Next
  PROVE  HandlerBehind'
<1>0. /\ "handler" \in Writer /\ "worker" \in Writer /\ "worker" # "handler"
      /\ writing \in [Writer -> Writing]
      /\ object \in Object /\ worker.object \in Object
      /\ worker.provider \in Label
      /\ watch \in Seq(Object) /\ events \in Seq(Object)
  BY DEF Writer, TypeOK, Worker
<1>1. CASE UNCHANGED <<objectVars, events>> /\ writing'["handler"] = writing["handler"]
  BY <1>1 DEF HandlerBehind, objectVars
<1>2. ASSUME NEW o, WriteObject(o)
      PROVE  watch' # <<>>
  <2>1. Len(Append(watch, o)) # 0
    BY <1>0
  <2> QED  BY <1>2, <2>1 DEF WriteObject
<1>3. CASE (\E p \in Label : CreateObject(p)) \/ DeleteObject \/ EditObject
  BY <1>2, <1>3 DEF CreateObject, DeleteObject, EditObject, HandlerBehind
<1>4. CASE Restart
  BY <1>0, <1>4, NothingTypes DEF Restart, HandlerBehind
<1>5. CASE Deliver
  <2>1. Len(Append(events, Head(watch))) # 0
    BY <1>0
  <2> QED  BY <1>5, <2>1 DEF Deliver, HandlerBehind
<1>6. CASE EventHandlerWithDelete
  <2>1. events # <<>> /\ writing["handler"].step = "idle" /\ events' = Tail(events)
        /\ UNCHANGED objectVars
    BY <1>6 DEF EventHandlerWithDelete
  <2>2. CASE UNCHANGED writing
    BY <2>1, <2>2 DEF HandlerBehind
  <2>3. CASE ~Head(events).alive
    BY <2>1, <2>3, LastEvent DEF HandlerBehind, objectVars
  <2> QED  BY <1>6, <2>2, <2>3 DEF EventHandlerWithDelete
<1>7. CASE Reconcile
  <2>1. UNCHANGED writing \/ Publish("worker", worker.object, worker.provider)
    BY <1>7 DEF Reconcile, GetObject, Check, CheckFails, LookupFails, Sync,
          SyncFails, UpdateStatus, StatusConflict, StatusFails, Return
  <2>2. writing'["handler"] = writing["handler"]
    BY <1>0, <2>1, PublishTypes
  <2>3. CASE WriteObject(worker.object)
    BY <1>2, <2>3 DEF HandlerBehind
  <2>4. UNCHANGED events /\ (UNCHANGED objectVars \/ WriteObject(worker.object))
    BY <1>7 DEF Reconcile, GetObject, Check, CheckFails, LookupFails, Sync,
          SyncFails, UpdateStatus, StatusConflict, StatusFails, informerVars
  <2> QED  BY <1>1, <2>2, <2>3, <2>4 DEF objectVars
<1>8. CASE \E w \in Writer : SetMetrics(w)
  <2>1. PICK w \in Writer : SetMetrics(w)
    BY <1>8
  <2>2. UNCHANGED <<objectVars, events>>
    BY <2>1 DEF SetMetrics, ClearSeries, SetSeries, setInstancePhaseMetrics,
                informerVars
  <2>3. writing[w].step # "idle"
    BY <2>1 DEF SetMetrics, ClearSeries, SetSeries, setInstancePhaseMetrics
  <2>4. w # "handler" => writing'["handler"] = writing["handler"]
    BY <1>0, <2>1 DEF SetMetrics, ClearSeries, SetSeries,
                      setInstancePhaseMetrics
  <2> QED  BY <2>2, <2>3, <2>4 DEF HandlerBehind, objectVars
<1> QED  BY <1>1, <1>3, <1>4, <1>5, <1>6, <1>7, <1>8
         DEF Next, ProviderChanges, ChangeGate, ChangeAccount,
             EnqueueRequestForObject, informerVars

-----------------------------------------------------------------------------
(* What the worker has in hand, and the labels.                            *)

(* What a step does to the writers.                                        *)
LEMMA WriterChanges ==
  ASSUME TypeOK, Next
  PROVE  \/ UNCHANGED writing
         \/ Restart
         \/ EventHandlerWithDelete
            /\ Publish("handler", Head(events), ProviderOf(Head(events)))
         \/ Reconcile /\ Publish("worker", worker.object, worker.provider)
         \/ \E w \in Writer : SetMetrics(w)
BY DEF Next, CreateObject, DeleteObject, EditObject, ProviderChanges,
       ChangeGate, ChangeAccount, Deliver, EnqueueRequestForObject,
       EventHandlerWithDelete, Reconcile, GetObject, Check, CheckFails,
       LookupFails, Sync, SyncFails, UpdateStatus, StatusConflict,
       StatusFails, Return

(* The worker publishes as it returns, and only what it has measured or,   *)
(* of an inventory, was about to.                                          *)
LEMMA WorkerReturns ==
  ASSUME TypeOK, InHand, Reconcile, ~UNCHANGED writing
  PROVE  /\ Publish("worker", worker.object, worker.provider)
         /\ worker' = IdleWorker
         /\ kind = "inventory" => worker.provider = worker.object.provider
<1>1. Measuring
  BY DEF Reconcile, GetObject, Check, CheckFails, LookupFails, Sync,
         SyncFails, UpdateStatus, StatusConflict, StatusFails, Return, Measuring
<1>2. Publish("worker", worker.object, worker.provider) /\ worker' = IdleWorker
  BY DEF Reconcile, GetObject, Check, CheckFails, LookupFails, Sync,
         SyncFails, UpdateStatus, StatusConflict, StatusFails, Return
<1> QED  BY <1>1, <1>2 DEF InHand

(* Every step keeps what is known of the worker's hands.                   *)
LEMMA InHandStep ==
  ASSUME TypeOK, InHand, Next
  PROVE  InHand'
<1>0. /\ "worker" \in Writer /\ "handler" \in Writer /\ "worker" # "handler"
      /\ writing \in [Writer -> Writing] /\ worker \in Worker
      /\ worker.object \in Object /\ kind' = kind
  BY DEF Writer, TypeOK, Worker, Next, CreateObject, DeleteObject, EditObject,
       ProviderChanges, ChangeGate, ChangeAccount, Restart, Deliver,
       EnqueueRequestForObject, EventHandlerWithDelete, Reconcile, GetObject,
       Check, CheckFails, LookupFails, Sync, SyncFails, UpdateStatus,
       StatusConflict, StatusFails, SetMetrics, ClearSeries, SetSeries,
       setInstancePhaseMetrics
<1>1. ASSUME worker' = IdleWorker
      PROVE  InHand'
  BY <1>1, NothingTypes DEF InHand, Measuring
<1>2. ASSUME UNCHANGED worker, writing'["worker"].step # "idle" =>
                                 writing["worker"].step # "idle"
      PROVE  InHand'
  BY <1>0, <1>2 DEF InHand, Measuring
<1>3. CASE (\E p \in Label : CreateObject(p)) \/ DeleteObject \/ EditObject
  <2>1. UNCHANGED writing /\ worker' = [worker EXCEPT !.fresh = FALSE]
    BY <1>3 DEF CreateObject, DeleteObject, EditObject, Stale
  <2>2. /\ worker'.step = worker.step /\ worker'.measured = worker.measured
        /\ worker'.object = worker.object /\ worker'.provider = worker.provider
    BY <1>0, <2>1 DEF Worker
  <2> QED  BY <1>0, <2>1, <2>2 DEF InHand, Measuring
<1>4. CASE ProviderChanges \/ (\E g \in Gates : ChangeGate(g))
           \/ (\E l \in Label : ChangeAccount(l)) \/ Deliver
           \/ EnqueueRequestForObject
  BY <1>2, <1>4 DEF ProviderChanges, ChangeGate, ChangeAccount, Deliver,
                    EnqueueRequestForObject
<1>5. CASE Restart
  BY <1>1, <1>5 DEF Restart
<1>6. CASE EventHandlerWithDelete
  <2>1. writing'["worker"] = writing["worker"]
    BY <1>0, <1>6 DEF EventHandlerWithDelete, Publish
  <2> QED  BY <1>2, <1>6, <2>1 DEF EventHandlerWithDelete
<1>7. CASE \E w \in Writer : SetMetrics(w)
  <2>1. PICK w \in Writer : SetMetrics(w)
    BY <1>7
  <2>2. UNCHANGED worker /\ writing[w].step # "idle"
    BY <2>1 DEF SetMetrics, ClearSeries, SetSeries, setInstancePhaseMetrics
  <2>3. w # "worker" => writing'["worker"] = writing["worker"]
    BY <1>0, <2>1 DEF SetMetrics, ClearSeries, SetSeries,
                      setInstancePhaseMetrics
  <2> QED  BY <1>2, <2>2, <2>3
<1>8. CASE Reconcile
  <2>1. CASE GetObject
    <3>1. writing["worker"].step = "idle" /\ UNCHANGED writing
      BY <2>1 DEF GetObject
    <3>2. CASE worker' = IdleWorker
      BY <1>1, <3>2
    <3>3. CASE worker' = [IdleWorker EXCEPT !.step = "check", !.object = cache,
                                            !.fresh = watch = <<>>]
      <4>1. worker'.step = "check"
        BY <3>3, NothingTypes DEF Worker
      <4> QED  BY <3>1, <4>1 DEF InHand, Measuring
    <3> QED  BY <2>1, <3>2, <3>3 DEF GetObject
  <2>2. CASE Check
    <3>1. worker.step = "check" /\ writing["worker"].step = "idle"
          /\ UNCHANGED writing
      BY <2>2 DEF Check, InHand
    <3>2. CASE worker' = [worker EXCEPT !.step = "sync",
                                        !.provider = ProviderOf(worker.object)]
      <4>1. worker'.step = "sync" /\ worker'.object = worker.object
            /\ worker'.provider = ProviderOf(worker.object)
        BY <1>0, <3>2 DEF Worker
      <4> QED  BY <1>0, <3>1, <4>1 DEF InHand, Measuring, ProviderOf
    <3>3. CASE Report("waiting", FALSE, TRUE) \/ Report("refused", FALSE, FALSE)
      <4>1. "waiting" \in Reasons /\ "refused" \in Reasons
        BY DEF Reasons
      <4>2. /\ worker'.step = "status" /\ worker'.measured = FALSE
            /\ worker'.object.reason \in {"waiting", "refused"}
        BY <3>3, <4>1, ReportTypes
      <4> QED  BY <3>1, <4>2 DEF InHand, Measuring
    <3> QED  BY <2>2, <3>2, <3>3 DEF Check
  <2>3. CASE Sync \/ SyncFails
    <3>1. worker.step = "sync" /\ writing["worker"].step = "idle"
          /\ UNCHANGED writing
      BY <2>3 DEF Sync, SyncFails, InHand
    <3>2. worker.object.reason \in Reasons
      BY <1>0 DEF Object
    <3>3. PICK r \in Reasons, again \in BOOLEAN : Report(r, TRUE, again)
      BY <2>3, <3>2 DEF Sync, SyncFails, Reasons
    <3>4. /\ worker'.step = "status" /\ worker'.measured = TRUE
          /\ worker'.object.provider = worker.object.provider
          /\ worker'.provider = worker.provider
      BY <3>3, ReportTypes
    <3> QED  BY <1>0, <3>1, <3>4 DEF InHand, Measuring
  <2>4. CASE CheckFails \/ LookupFails \/ UpdateStatus \/ StatusConflict
             \/ StatusFails
    BY <1>1, <2>4 DEF CheckFails, LookupFails, UpdateStatus, StatusConflict,
                      StatusFails, Return
  <2> QED  BY <1>8, <2>1, <2>2, <2>3, <2>4 DEF Reconcile
<1> QED  BY <1>3, <1>4, <1>5, <1>6, <1>7, <1>8 DEF Next

(* Every step keeps the labels of inventories.                             *)
LEMMA LabelledStep ==
  ASSUME TypeOK, InHand, Labelled, Next
  PROVE  Labelled'
<1>0. /\ "worker" \in Writer /\ "handler" \in Writer
      /\ worker.object \in Object /\ worker.provider \in Label
  BY DEF Writer, TypeOK, Worker
<1>1. kind' = kind
  BY DEF Next, CreateObject, DeleteObject, EditObject,
       ProviderChanges, ChangeGate, ChangeAccount, Restart, Deliver,
       EnqueueRequestForObject, EventHandlerWithDelete, Reconcile, GetObject,
       Check, CheckFails, LookupFails, Sync, SyncFails, UpdateStatus,
       StatusConflict, StatusFails, SetMetrics, ClearSeries, SetSeries,
       setInstancePhaseMetrics
<1>2. CASE UNCHANGED writing
  BY <1>1, <1>2 DEF Labelled
<1>3. CASE Restart
  BY <1>3, NothingTypes DEF Restart, Labelled
<1>4. CASE EventHandlerWithDelete
           /\ Publish("handler", Head(events), ProviderOf(Head(events)))
  <2>1. Head(events) \in Object
    BY <1>4 DEF EventHandlerWithDelete, TypeOK
  <2>2. ProviderOf(Head(events)) \in Label
    BY <2>1, LabelTypes
  <2>3. /\ writing'["handler"].object = Head(events)
        /\ writing'["handler"].provider = ProviderOf(Head(events))
        /\ \A v \in Writer : v # "handler" => writing'[v] = writing[v]
    BY <1>0, <1>4, <2>1, <2>2, PublishTypes
  <2> QED  BY <1>1, <2>3 DEF Labelled, ProviderOf
<1>5. CASE Reconcile /\ ~UNCHANGED writing
  <2>1. /\ Publish("worker", worker.object, worker.provider)
        /\ kind = "inventory" => worker.provider = worker.object.provider
    BY <1>5, WorkerReturns
  <2>2. /\ writing'["worker"].object = worker.object
        /\ writing'["worker"].provider = worker.provider
        /\ \A v \in Writer : v # "worker" => writing'[v] = writing[v]
    BY <1>0, <2>1, PublishTypes
  <2> QED  BY <1>1, <2>1, <2>2 DEF Labelled
<1>6. CASE \E w \in Writer : SetMetrics(w)
  <2>1. PICK w \in Writer : SetMetrics(w)
    BY <1>6
  <2>2. CASE ClearSeries(w) \/ SetSeries(w)
    <3>1. PICK s \in {"set", "phase"} : writing' = [writing EXCEPT ![w].step = s]
      BY <2>2 DEF ClearSeries, SetSeries
    <3>2. \A v \in Writer : /\ writing'[v].object = writing[v].object
                            /\ writing'[v].provider = writing[v].provider
      BY <3>1, WriterMoves
    <3> QED  BY <1>1, <3>2 DEF Labelled
  <2>3. CASE setInstancePhaseMetrics(w)
    <3>1. writing' = [writing EXCEPT ![w] = IdleWriter]
          /\ writing \in [Writer -> Writing]
      BY <2>3 DEF setInstancePhaseMetrics, TypeOK
    <3>2. \A v \in Writer : writing'[v] = writing[v] \/ writing'[v] = IdleWriter
      BY <3>1
    <3> QED  BY <1>1, <3>2, NothingTypes DEF Labelled
  <2> QED  BY <2>1, <2>2, <2>3 DEF SetMetrics
<1> QED  BY <1>2, <1>3, <1>4, <1>5, <1>6, WriterChanges

-----------------------------------------------------------------------------
(* The gauges settle.                                                      *)

(* When the last thing that was coming has come, and the status is one     *)
(* that is published, the worker is about to publish it.                   *)
LEMMA LastComes ==
  ASSUME TypeOK, Lag, InHand, Next, Coming, ~Coming', Published'
  PROVE  /\ writing'["worker"].step = "clear"
         /\ writing'["worker"].object = object'
<1>0. /\ "worker" \in Writer /\ watch \in Seq(Object) /\ events \in Seq(Object)
      /\ worker.object \in Object /\ worker.provider \in Label
  BY DEF Writer, TypeOK, Worker
<1>1. /\ watch' = <<>> /\ ~enqueue' /\ events' = <<>> /\ ~queued'
      /\ worker'.step = "idle"
  BY DEF Coming
<1>2. object'.alive /\ ~dropped'
      /\ object'.reason \notin {"none", "waiting", "refused"}
  BY DEF Published
<1>3. ASSUME NEW o, WriteObject(o)
      PROVE  FALSE
  <2>1. Len(Append(watch, o)) # 0
    BY <1>0
  <2>2. Append(watch, o) # <<>>
    BY <2>1, EmptySeq
  <2> QED  BY <1>1, <1>3, <2>2 DEF WriteObject
<1>4. CASE (\E p \in Label : CreateObject(p)) \/ DeleteObject \/ EditObject
  BY <1>3, <1>4 DEF CreateObject, DeleteObject, EditObject
<1>5. CASE ProviderChanges \/ Deliver \/ EnqueueRequestForObject
  BY <1>1, <1>5 DEF ProviderChanges, Deliver, EnqueueRequestForObject
<1>6. CASE (\E g \in Gates : ChangeGate(g)) \/ (\E l \in Label : ChangeAccount(l))
           \/ (\E w \in Writer : SetMetrics(w))
  <2>1. UNCHANGED <<watch, enqueue, events, queued, worker>>
    BY <1>6 DEF ChangeGate, ChangeAccount, SetMetrics, ClearSeries, SetSeries,
                setInstancePhaseMetrics, objectVars, informerVars
  <2> QED  BY <1>1, <2>1 DEF Coming
<1>7. CASE Restart
  BY <1>1, <1>2, <1>7 DEF Restart
<1>8. CASE EventHandlerWithDelete
  <2>1. /\ events # <<>> /\ Tail(events) = <<>> /\ watch = <<>>
        /\ ~Head(events).alive /\ object' = object
    BY <1>1, <1>8 DEF EventHandlerWithDelete, objectVars
  <2> QED  BY <1>2, <2>1, LastEvent
<1>9. CASE Reconcile
  <2>1. CASE GetObject
    <3>1. watch = <<>> /\ object' = object
      BY <1>1, <2>1 DEF GetObject, objectVars
    <3>2. cache.alive
      BY <1>2, <3>1 DEF Lag
    <3>3. worker' = [IdleWorker EXCEPT !.step = "check", !.object = cache,
                                       !.fresh = watch = <<>>]
      BY <2>1, <3>2 DEF GetObject
    <3>4. worker'.step = "check"
      BY <3>3, NothingTypes DEF Worker
    <3> QED  BY <1>1, <3>4
  <2>2. CASE Check
    <3>1. worker \in Worker
      BY DEF TypeOK
    <3>2. worker'.step # "idle"
      BY <2>2, <3>1 DEF Check, Report, Worker
    <3> QED  BY <1>1, <3>2
  <2>3. CASE Sync \/ SyncFails
    <3>1. worker \in Worker
      BY DEF TypeOK
    <3>2. worker'.step # "idle"
      BY <2>3, <3>1 DEF Sync, SyncFails, Report, Worker
    <3> QED  BY <1>1, <3>2
  <2>4. CASE CheckFails \/ LookupFails
    BY <1>1, <2>4 DEF CheckFails, LookupFails
  <2>5. CASE StatusConflict \/ StatusFails
    BY <1>1, <1>2, <2>5 DEF StatusConflict, StatusFails, Return
  <2>6. CASE UpdateStatus
    <3>1. worker.object = object /\ object' = object
      BY <1>3, <2>6 DEF UpdateStatus, objectVars
    <3>2. worker.measured
      BY <1>2, <2>6, <3>1 DEF UpdateStatus, InHand
    <3>3. Publish("worker", worker.object, worker.provider)
      BY <2>6, <3>2 DEF UpdateStatus, Return
    <3> QED  BY <1>0, <3>1, <3>3, PublishTypes
  <2> QED  BY <1>9, <2>1, <2>2, <2>3, <2>4, <2>5, <2>6 DEF Reconcile
<1> QED  BY <1>4, <1>5, <1>6, <1>7, <1>8, <1>9 DEF Next

(* While nothing is coming, the worker's writes bring the gauges to show   *)
(* the object.                                                             *)
LEMMA WriterSettles ==
  ASSUME TypeOK, HandlerBehind, Labelled, Settled, NEW w \in Writer,
         SetMetrics(w), ~Coming, Published
  PROVE  WriterDone(writing["worker"])'
<1>0. /\ "worker" \in Writer /\ writing \in [Writer -> Writing]
      /\ UNCHANGED <<kind, object>>
  BY DEF Writer, TypeOK, SetMetrics, ClearSeries, SetSeries,
         setInstancePhaseMetrics, objectVars
<1>1. writing[w].step # "idle"
  BY DEF SetMetrics, ClearSeries, SetSeries, setInstancePhaseMetrics
<1>2. w = "worker"
  BY <1>1 DEF HandlerBehind, Coming, Published, Writer
<1> DEFINE x == writing["worker"]
           Mine(s) == kind = "inventory" => s.provider = object.provider
<1>3. x.object = object /\ object.reason # "none"
  BY <1>1, <1>2 DEF Settled, WriterDone, Published
<1>4. CASE ClearSeries("worker")
  <2>1. /\ ready' = ready \ Cleared(object)
        /\ writing' = [writing EXCEPT !["worker"].step = "set"]
    BY <1>3, <1>4 DEF ClearSeries
  <2>2. writing'["worker"].step = "set" /\ writing'["worker"].object = object
    BY <1>0, <1>3, <2>1, WriterMoves
  <2>3. \A s \in ready' : ~Mine(s)
    BY <2>1 DEF Cleared
  <2>4. Shown' = {}
    BY <1>0, <2>3 DEF Shown
  <2> QED  BY <1>0, <2>2, <2>4 DEF WriterDone
<1>5. CASE SetSeries("worker")
  <2> DEFINE e == SeriesOf(object, x.provider)
  <2>1. /\ x.step = "set" /\ ready' = ready \cup {e}
        /\ writing' = [writing EXCEPT !["worker"].step = "phase"]
    BY <1>3, <1>5 DEF SetSeries
  <2>2. /\ writing'["worker"].step = "phase"
        /\ writing'["worker"].object = object
        /\ writing'["worker"].provider = x.provider
    BY <1>0, <1>3, <2>1, WriterMoves
  <2>3. \A s \in ready : ~Mine(s)
    <3>1. Shown = {}
      BY <2>1 DEF Settled, WriterDone
    <3> QED  BY <3>1 DEF Shown
  <2>4. /\ e.uid = object.uid /\ e.reason = object.reason
        /\ e.provider = x.provider /\ Mine(e)
    BY <1>0, <1>3 DEF SeriesOf, Labelled
  <2>5. {s \in ready' : Mine(s)} = {e}
    BY <2>1, <2>3, <2>4
  <2>6. Shown' = Current'
    <3>1. Shown' = {[uid |-> s.uid, reason |-> s.reason] :
                      s \in {s \in ready' : Mine(s)}}
      BY <1>0 DEF Shown
    <3>2. Shown' = {[uid |-> e.uid, reason |-> e.reason]}
      BY <2>5, <3>1
    <3> QED  BY <1>0, <2>4, <3>2 DEF Current
  <2>7. kind = "instance" => \A s \in ready' : s.provider = x.provider
    BY <2>1, <2>3, <2>4
  <2> QED  BY <1>0, <2>2, <2>6, <2>7 DEF WriterDone
<1>6. CASE setInstancePhaseMetrics("worker")
  <2>1. /\ x.step = "phase" /\ UNCHANGED ready
        /\ writing' = [writing EXCEPT !["worker"] = IdleWriter]
    BY <1>6 DEF setInstancePhaseMetrics
  <2>2. writing'["worker"].step = "idle"
    BY <1>0, <2>1, NothingTypes
  <2>3. Shown = Current /\ (kind = "instance" => \A s \in ready : s.provider = x.provider)
    BY <2>1 DEF Settled, WriterDone
  <2>4. Shown' = Current'
    BY <1>0, <2>1, <2>3 DEF Shown, Current
  <2>5. ASSUME kind = "instance"
        PROVE  PhaseShown'
    <3>1. PICK s \in ready : s.provider = x.provider
      BY <2>3, <2>5 DEF Shown, Current
    <3>2. [provider |-> x.provider, reason |-> object.reason] \in phase'
      BY <1>3, <1>6, <2>5 DEF setInstancePhaseMetrics
    <3> QED  BY <1>0, <2>1, <3>1, <3>2 DEF PhaseShown
  <2> QED  BY <1>0, <2>2, <2>4, <2>5 DEF WriterDone
<1> QED  BY <1>2, <1>4, <1>5, <1>6 DEF SetMetrics

(* Every step keeps the gauges settled.                                    *)
LEMMA SettledStep ==
  ASSUME TypeOK, Lag, HandlerBehind, InHand, Labelled, Settled, Next
  PROVE  Settled'
<1> SUFFICES ASSUME ~Coming', Published'
             PROVE  WriterDone(writing["worker"])'
  BY DEF Settled
<1>1. CASE Coming
  <2>1. /\ writing'["worker"].step = "clear"
        /\ writing'["worker"].object = object'
    BY <1>1, LastComes
  <2> QED  BY <2>1 DEF WriterDone
<1>2. CASE ~Coming
  <2>0. /\ watch' = <<>> /\ ~enqueue' /\ events' = <<>> /\ ~queued'
        /\ worker'.step = "idle" /\ object'.alive
    BY DEF Coming, Published
  <2>1. ASSUME NEW o, WriteObject(o)
        PROVE  FALSE
    <3>1. Len(Append(watch, o)) # 0
      BY DEF TypeOK
    <3>2. Append(watch, o) # <<>>
      BY <3>1, EmptySeq
    <3> QED  BY <2>0, <2>1, <3>2 DEF WriteObject
  <2>2. \/ \E g \in Gates : ChangeGate(g)
        \/ \E l \in Label : ChangeAccount(l)
        \/ \E w \in Writer : SetMetrics(w)
    BY <1>2, <2>0, <2>1 DEF Coming, Next, CreateObject, DeleteObject,
         EditObject, ProviderChanges, Restart, Deliver,
         EnqueueRequestForObject, EventHandlerWithDelete, Reconcile,
         GetObject, Check, CheckFails, LookupFails, Sync, SyncFails,
         UpdateStatus, StatusConflict, StatusFails
  <2>3. UNCHANGED <<object, dropped>>
    BY <2>2 DEF ChangeGate, ChangeAccount, SetMetrics, ClearSeries,
         SetSeries, setInstancePhaseMetrics, objectVars
  <2>4. Published
    BY <2>3 DEF Published
  <2>5. CASE \E w \in Writer : SetMetrics(w)
    BY <1>2, <2>4, <2>5, WriterSettles
  <2>6. CASE (\E g \in Gates : ChangeGate(g))
             \/ \E l \in Label : ChangeAccount(l)
    <3>1. UNCHANGED <<kind, object, writing, ready, phase>>
      BY <2>6 DEF ChangeGate, ChangeAccount, objectVars, gauges
    <3> QED  BY <1>2, <2>4, <3>1
             DEF Settled, WriterDone, Shown, Current, PhaseShown
  <2> QED  BY <2>2, <2>5, <2>6
<1> QED  BY <1>1, <1>2

-----------------------------------------------------------------------------
(* The invariant and what it implies.                                      *)

(* At the start there is no object, and nothing to show.                   *)
LEMMA Start ==
  ASSUME Init
  PROVE  IInv
<1>1. TypeOK
  <2>1. MaxOps \in Nat /\ MaxFaults \in Nat
    BY StatusMetricsAssumption
  <2>2. 0 \in 0 .. MaxOps /\ 0 \in 0 .. MaxFaults
    BY <2>1
  <2>3. ops \in 0 .. MaxOps /\ faults \in 0 .. MaxFaults
    BY <2>2, Zenon DEF Init
  <2>4. watch \in Seq(Object) /\ events \in Seq(Object)
    BY EmptySeq DEF Init
  <2>5. object \in Object /\ cache \in Object /\ worker \in Worker
        /\ writing \in [Writer -> Writing]
    BY NothingTypes DEF Init
  <2>6. gate \in Gates /\ account \in Label
    BY DEF Init, Gates, Label
  <2> QED  BY <2>3, <2>4, <2>5, <2>6 DEF Init, TypeOK
<1>2. Lag /\ Settled
  BY NothingTypes DEF Init, Lag, Settled, Published
<1>3. HandlerBehind /\ InHand /\ Labelled
  BY NothingTypes DEF Init, HandlerBehind, InHand, Measuring, Labelled, Writer
<1> QED  BY <1>1, <1>2, <1>3 DEF IInv

(* Every step keeps the invariant.                                         *)
LEMMA Step ==
  ASSUME IInv, [Next]_vars
  PROVE  IInv'
<1> USE DEF IInv
<1>1. TypeOK'
  BY TypeStep
<1>2. CASE UNCHANGED vars
  <2>1. UNCHANGED <<kind, object, watch, cache, enqueue, events, queued,
                    worker, dropped, writing, ready, phase>>
    BY <1>2 DEF vars, objectVars, informerVars, gauges
  <2>2. Lag' /\ HandlerBehind' /\ InHand' /\ Labelled'
    BY <2>1 DEF Lag, HandlerBehind, InHand, Measuring, Labelled
  <2>3. Settled'
    BY <2>1 DEF Settled, Coming, Published, WriterDone, Shown, Current,
                PhaseShown
  <2> QED  BY <1>1, <2>2, <2>3
<1>3. CASE Next
  BY <1>1, <1>3, LagStep, HandlerStep, InHandStep, LabelledStep, SettledStep
<1> QED  BY <1>2, <1>3

(* The invariant holds.                                                    *)
THEOREM Invariance == Spec => []IInv
<1>1. Init => IInv
  BY Start
<1>2. IInv /\ [Next]_vars => IInv'
  BY Step
<1> QED  BY <1>1, <1>2, PTL DEF Spec

(* The types are kept, by the Delete handler and the reconcile.            *)
THEOREM TypeCorrect == Spec => []TypeOK
<1>1. IInv => TypeOK
  BY DEF IInv
<1> QED  BY <1>1, Invariance, PTL

(* Whenever the informer, the handlers, the worker and the writers have    *)
(* nothing left to do, the gauges show the object that is there with the   *)
(* status it has, and no other.                                            *)
THEOREM GaugesRight == Spec => []GaugesAtRest
<1>1. IInv => GaugesAtRest
  <2>1. "worker" \in Writer
    BY DEF Writer
  <2> QED  BY <2>1 DEF IInv, Settled, WriterDone, GaugesAtRest, AtRest
<1> QED  BY <1>1, Invariance, PTL
=============================================================================
