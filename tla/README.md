# A TLA+ model of the DBaaS operator

The DBaaS operator (OpenShift Database Access) is a Kubernetes operator: a set of
controllers that watch custom resources and drive the cluster towards them. This
directory holds TLA+ modules of its controllers, TLC configurations that check them on
small instances and proofs checked by TLAPS. `PROJECT.json` records, for every definition,
the source lines it stands for, every run with its properties, and the hazards the
properties are aimed at.

## The system

| Part | State it keeps | Operations |
|---|---|---|
| Policy controller (`controllers/dbaaspolicy_controller.go`) | the Ready condition of every DBaaSPolicy, one ResourceQuota per active policy | elect an active policy per namespace; create its quota; write the condition |
| Default-policy controller (`dbaasdefaultpolicy_controller.go`) | the policy named `cluster` | create it when the operator's namespace has no policy |
| Platform controller (`dbaasplatform_controller.go`, `controllers/reconcilers/`) | the one DBaaSPlatform's status, the field `installComplete`, the objects of each dependency | install the provider operators, the console plugin, the quick starts and the observability stack; renew lost conversion webhooks, unblock the RDS controller's upgrade, prepare its user objects |
| Inventory, instance and connection controllers (`dbaasinventory_…`, `dbaasinstance_…`, `dbaasconnection_controller.go`) on top of `dbaas_reconciler.go` | status of the object, the provider's object of the same name | check that the object may be served, write the provider's object, copy its status back |
| Provider controller (`dbaasprovider_controller.go`, `event_handler.go`) | the watches of the other controllers | start watching the kinds a DBaaSProvider names |
| Access checks (`dbaas_reconciler.go`: `isValidConnectionNS`, `canProvision`) | none | decide, from policy and inventory, who may connect and provision |
| Admission webhooks (`api/v1beta1/*_webhook.go`) | none | refuse invalid objects and a second RDS inventory |
| Conversions (`api/v1alpha1/*_conversion.go`) | none | v1alpha1 to v1beta1 and back |
| Metrics (`controllers/metrics/`) | gauges, in memory | publish the status of an object, from its reconcile and from its delete event |
| Wiring (`main.go`), API types | none | which kinds are read past the cache; which webhooks run |

The parts never call each other. They interact through objects in the API server: the
policy controller writes a condition the inventory controller reads (without watching it),
the inventory's condition decides what connections and instances may do, and the provider
controller starts the watches through which the provider's own operator (another program)
reports back. Every read of a typed object comes from an informer cache that lags behind
the API server; reads of the provider's objects, which are unstructured, go to the API
server; every write is an optimistic API write that fails when the object has changed.

What is hard here:

* decisions taken on a cached list (who is the active policy?), and written after several
  more calls;
* a reconcile is not a transaction: quota and then status, provider object and then status,
  one object of a platform after the other, with conflicts, failures and restarts between;
* requests that are only triggered by one event (the deletion of the active policy elects
  the next one), while nothing watches other objects a decision depended on;
* a pass over a Go map, in random order, that stops at the first platform in progress;
* watches that start late, and a provider's object that may belong to an earlier
  incarnation of an object with the same name;
* an admission webhook that decides from three reads of different ages, with any number of
  requests under way, and whose configuration the operator itself deletes for a while;
* fixes that delete objects of another controller (OLM), which re-creates them, on the
  strength of a cached list and a status that is revised later;
* gauges with two writers, a worker and an informer's goroutine, and no lock between them.

What makes each part correct: a namespace with policies has an active one, exactly one, and
its quota (policies); "ready" in the status is true and arrives, and no dependency starves
another (platform); the provider's object carries the object's spec and the object shows
the provider's status, for the current incarnation and spec (inventories, instances,
connections); only admitted namespaces connect or provision (access checks); what
a v1alpha1 client writes it reads again, and its write-backs do not take away what only
v1beta1 can express (API versions); what the webhook admits has the credentials it needs, and an
account keeps its provider (admission); what is deleted to be renewed comes back, and what
users entered stays (upkeep); a gauge shows the object that is there (metrics). `PROJECT.json` lists the hazards line by line.

## The modules

| Module | Models | Checked by |
|---|---|---|
| `DBaaSPolicy` | policy and default-policy controllers, one namespace | `policy`, `policy_one_active` |
| `DBaaSPlatform` | platform controller and the four kinds of platform reconciler | `platform`, `platform_live`, `platform_ready` |
| `PlatformUpkeep` | the platform controller's preparations and fixes around the operator, and the MonitoringStack | `upkeep` |
| `ProviderResource` | inventory, instance and connection controllers over `reconcileProviderResource`; the provider controller's watch | `resource` |
| `Mirror` | abstract: what `ProviderResource` promises of the provider's object | `resource` (`ImplementsMirror`) |
| `DBaaSAccess` | `checkInventory`, `isValidConnectionNS`, `canProvision`, and the webhooks that validate label selectors | `access` |
| `InventoryAdmission` | the validating webhook of inventories, with the API server's requests around it | `admission` |
| `StatusMetrics` | the ready and phase gauges of inventories, instances and connections, and their two writers | `metrics` |
| `Conversion` | the v1alpha1/v1beta1 conversions of the five kinds, and the connection webhook | `conversion`, `conversion_instance` |
| `…Proofs` | theorems about the module of that name, one for each of the eight components above | TLAPS |
| `MC…` | model values for TLC | |

Common conventions. For an object `x` that the operator reads through its cache, `x` is the
API server's copy, `xCache` the operator's, and `xWatch` the events in between, FIFO for
each object. The resource version a reconcile holds is one Boolean in the worker (`fresh`):
whether anybody has written the object since the version it read. A write succeeds when it
holds and is a conflict otherwise. A module has one worker, whose record carries the Go
function's local variables and `step`, the call it is about to make: the policy and platform
controllers run one reconcile at a time (controller-runtime's default), and the inventory,
instance and connection controllers, which run two (`MaxConcurrentReconciles: 2`), never run
two for one object, and one object is what `ProviderResource` and `DBaaSAccess` follow. A `Restart` loses worker and queue and lists the
caches anew. Mutants of a definition (plausible bugs, used to show that a property can
fail) stand right above it, marked as such.

### DBaaSPolicy

`policy[p]` is the object's incarnation and its Ready condition: `"absent"`, `"new"` (none
yet), `"active"`, or the name a NotReady message shows as the active policy. `quota[p]` is
the incarnation that owns the ResourceQuota `dbaas-p`, which admits one policy to the
namespace. `Reconcile` is four steps: `ListPolicies` (list, `getActivePolicy`, and
`policyList.Items[0]`), `GetPolicy` (get, or take the first listed policy when the requested
one is gone and none is active), `EnsureQuota` (`CreateOrUpdate`) and
`updateStatusCondition`. Users create, edit and delete policies, delete quotas; the garbage
collector removes quotas whose owner is gone; the quota controller writes to quotas.
A non-conflict failure of a call takes the same path as a conflict (requeue), which the
model therefore has already.

### DBaaSPlatform

A pass is `BeginPass`, then per platform `PickPlatform` (any platform left: Go's map order)
and the steps of that platform's reconciler, then `FinishPass` and `updateStatus`. A
platform's reconciler is its list of steps: objects it creates or updates (`EnsureObject`),
waits for (`AwaitObject`), or takes over from somebody else and looks at again in the next
pass (`ClaimObject`). An object is in its desired form or not; `CreateOrUpdate` brings it
there, but for the ServiceMonitor, of which it sets the owner only (`CreatedOnly`): one that
was edited (`Spoil`) stays so. The observability operator is installed by others, from the
start (`Present`) or later. The plugin's deployment counts as rolled out when its ready replicas
equal its replicas, which is also so before it has any. `CallFails` distinguishes the
operator platforms (every error fails the pass) from the others (a write's conflict is
progress).
`installComplete` is the reconciler's field; `faults` and `losses` count what the
environment does, up to `MaxMishaps`.

### PlatformUpkeep

What the platform controller does besides installing. At start-up, `prepareRDSController`
(`GetUserObject`, `CreateUserObject`, for a Secret and a ConfigMap). At the head of every
pass, `fixConversionWebhooks` (`BeginPass` reads the CSV, `ListHooks` decides with
`checkConversionWebhookHealth` and `Outdated`, `DeleteHook` deletes one webhook
configuration after the other) and `fixRDSControllerUpgrade` (`GetRDSCSV`,
`DeleteDeployment`); their errors are logged and the pass goes on (`FixFails`). In the pass,
the observability platform: `cleanObsOldSubscription`, `GetStack`, `setPrometheusConfig` and
the write of the MonitoringStack, whose spec is built anew each time, with errors of the
look-ups dropped. CSVs and secrets come from the API server (`ClientDisableCacheFor` in
`main.go`), CRDs, webhook configurations and the MonitoringStack from caches. OLM is
external: it misses a webhook configuration and installs the CSV again, which also writes
the conversion webhooks into the CRDs; it creates the RDS controller's deployment when there
is none, and reports later. Creation times are what `Outdated` compares, so they are kept,
relative to the CSV's last update.

### ProviderResource

One DBaaS object of any of the three kinds, the provider's object of that name, and its
controller. The steps are the calls of the three `Reconcile` functions in order: the
connection's topology Deployment, the check (`CheckPolicy` or `checkInventory`), the
connection's spec, the inventory's secret label, the provider look-up, and
`reconcileProviderResource` (`ReadResource`, `CreateOrUpdate`, `UpdateStatus`). What the
checks say is `gate`, changed at will: in the program it depends on other objects that this
controller does not watch. What other objects add to the spec is `extra`: the ID of the
instance that a connection refers to, which may be replaced unnoticed (`ReplaceInstance`),
and the parameters of an instance in v1alpha1's form, lost when the second conversion cannot
read the inventory, whose error is only logged (`ConversionFails`). The update is always
sent (`WriteDesired`): the spec is put into the object as a Go struct, which never equals the
map that was read. The provider's operator writes a status for what it finds.
Events of the provider's object arrive only when `watching`. The program starts with no
object, or with one that an earlier process has settled.

`Mirror` says the same in terms of the user's versions of the object: what the provider is
given is always uid and spec of one version, whatever other objects add to it, never an
older one than before, and the object turns ready only when its latest version has been
given. `history` and `pushed` are history variables of `ProviderResource` for it; the
refinement mapping forgets caches, queue, worker and statuses.

### DBaaSAccess

The check that decides whether a DBaaSInstance or DBaaSConnection is handed to its provider,
read by read: `GetInventory`, `policyListByNS`, `CheckNamespace` (which lists the labelled
namespaces and answers with `isValidConnectionNS` and `canProvision`) and the write of the
status. `api` is what the check depends on as the API server has it (the inventory, the
active policy of its namespace, the labelled namespaces), `cache` what the operator sees of
it, and `watch` the events between, separately for each of the three. Administrators change
all of them at any time; `validatePolicy` and `validateInventory` are what the admission
webhooks demand, except while their configurations are away (`DeleteWebhooks`, from
`fixConversionWebhooks`, until OLM's `RestoreWebhooks`): what is stored meanwhile nobody
checks, and on a selector that Kubernetes rejects the check fails (`ListFails`). A policy is the three fields the check reads; a selector is absent, selects
one label, or is not one that Kubernetes accepts. `Retried` is which answers come back as
errors, and `dropped` marks the one path on which a refusal is neither written nor retried.
Which of several policies is the active one is the subject of `DBaaSPolicy`; what happens to
an object that passes is that of `ProviderResource`.

### InventoryAdmission

Clients with requests to create and update inventories, each of which passes the webhook
(`GetSecret`, `GetProvider`, `Check`) between the API server's read of the old object
(`ReadOld`) and its store (`Store`), while inventories are deleted, the secret and the
provider change, caches lag and the operator restarts. `known` and `disturbed` are history
variables: the RDS inventories the operator knew of when the request began, and whether
secret or provider changed during it. While the webhook's configuration is away
(`DeleteWebhooks`, `RestoreWebhooks`, as in `DBaaSAccess`) a request that has not reached the
webhook is stored unchecked (`SkipWebhook`), perhaps only after the webhook is back.

### StatusMetrics

One object that may be deleted and created again. `watch` is what the informer has not seen
yet; `enqueue` and `events` are what its two handlers (that of `For`, and
`EventHandlerWithDelete`) have still to handle, each in a goroutine of its own. The reconcile
is that of `ProviderResource` as far as it decides what is published: `Check` reads the
inventory whose provider labels the series (`worker.provider`), and what it turns down is
written to the status and not published. An inventory that is gone, not ready or not to be
provisioned from is an error, retried; a refused namespace is not. The `Delete` handler reads
the inventory for itself, and labels with no provider when it is gone. Both writers, `worker`
and `handler`, clear the object's series and set the new one in two steps (`ClearSeries`,
`SetSeries`), then the phase of an instance (`setInstancePhaseMetrics`). The periodic resync
is left out, so that the properties do not rest on it.

### Conversion

One object that clients of both API versions create, read, edit and write back. `stored` is
its v1beta1 spec in the API server; a client of v1alpha1 sees `ConvertFrom(stored)`, holds it
(`held`, with `fresh` for the version it read), and writes `ConvertTo(held)`. `InventoryTo`,
`ConnectionTo`, `InstanceTo` and their inverses are the conversion functions; a policy is
converted field by field, and so is itself. `ProviderTo` and `ProviderFrom` rename the
parameters of a provider (`ConvertNameFrom`), complete them and drop the ones that v1alpha1
has no name for. `Readable` is what a v1alpha1 client may come to hold, which is more than it may
write (`V1alpha1`): an instance of v1beta1 need not have what v1alpha1 requires. `ProviderFieldsMap` is the table of parameter
names per provider. An instance can be converted only while its inventory exists
(`Convertible`). Every write of a connection passes `validateCreate` or `validateUpdate`.

## The runs

Deadlock is not checked: every system here may come to rest (the bounded environment has
nothing left to do and the controllers are idle), and the properties say what must hold then.

Runs that pass (distinct states in brackets):

| Run | What it shows | Bounds, and why they are enough |
|---|---|---|
| `policy` (74,000) | An idle controller has elected an active policy (`SomeActiveWhenIdle`) and given every policy its condition and quota (`ReconciledWhenIdle`); a policy is demoted only for another active one (`DemotedOnlyForAnother`); a namespace with policies gets an active one again (`EventuallyActive`); `IInv` of the proofs holds. | Two policies and one operation or restart, on any initial set of policies: what follows the last operation is what liveness is about, and the proofs lift the bounds of the rest. |
| `platform` (4,170,000) | A ready status shows every platform as successful (`ReadyMeansSuccess`), and every step of every platform was satisfied (`ReadyMeansComplete`). | An operator platform, the plugin and the observability platform, whose operator is there: both ways in which a failed write is treated, and every kind of step (a quick start has only a part of the plugin's). One fault or loss, anywhere. |
| `platform_live` (107,000) | A platform that never comes up does not starve the others (`OthersInstalled`). | Two operator platforms, one stuck, and the observability platform, whose operator may come late; one fault or loss. |
| `upkeep` (578,000) | The dummy values never replace what a user entered (`UserObjectsKept`); the deletions of webhook configurations and OLM's re-creations come to an end (`WebhooksSettle`); lost conversion webhooks are put back unless all webhook configurations are as young as the CSV's last update (`ConversionRestored`); the RDS controller's upgrade gets done, and no later pass takes the new deployment away for good (`RDSUpgraded`); a remote write dropped by a failed look-up or a missing key comes back (`RemoteWriteRestored`). | Two webhook configurations; `RHOBS_AUTH_TYPE` dex, redhat-sso or incomplete; the remote write secret there or not; one thing that users, administrators or failures do, at any point of start-up, pass or OLM's work, and one pass begun while an event of CRDs or hooks is under way. |
| `resource` (1,130,000) | An idle controller leaves the provider's object with the object's spec (`SpecMirroredWhenIdle`) and the object with the provider's status (`StatusMirroredWhenIdle`); an object becomes ready only for the spec it has (`ReadyForOwnSpec`), and does become ready when it may be served for good (`EventuallyReady`, whatever was lost or replaced of what other objects add to its spec); the controllers implement `Mirror` (`ImplementsMirror`). | All three kinds, two specs, from no object or a settled one; two operations and a failure: delete and create again, or two edits, around a reconcile. |
| `access` (770,000) | An instance told to wait is in the queue or has an event coming whenever the controller rests (`WaitingIsRetried`); as long as the webhooks stay installed, no selector makes the check fail (`SelectorUsable`); when inventory, policy and labels stop changing, the condition settles on the verdict on them (`VerdictSettles`; `Verdict` is written from the comments of the API and not from the check, except that an inventory's policy replaces the active one as a whole, which is the code's reading: `main.adoc` would also allow one field by field). | Two namespaces; three policies that differ in every field the check reads, one of which the webhooks reject; any initial cluster, two changes and a failure: two changes are what it takes for the check to combine an old inventory with a new policy, or for a policy to be stored while the webhooks are away. |
| `admission` (820,000) | As long as the webhook stays installed, an RDS inventory that the operator knew of when a request began keeps that request out (`KnownRDSRespected`); what the webhook lets through has a provider and the credentials it requires, unless these changed meanwhile (`CredentialsChecked`); an inventory keeps its provider, unless an update of it escaped the webhook (`ProviderFixed`); who keeps asking for an RDS inventory gets one, or somebody else has (`RDSAdmitted`). | Two clients with any number of requests for two names and two providers; one deletion, change, restart or absence of the webhook, anywhere, and one request that escapes it. |
| `metrics` (832,000) | Whenever nothing is under way, the ready gauge shows the one series of the object that is there, with the status it has, and an instance's phase gauge its phase (`GaugesAtRest`); the ready gauge gets there (`GaugeSettles`), and so does the phase gauge, under the same provider (`PhaseSettles`). | An inventory or an instance (a connection's gauge is cleared and set like an instance's), two providers; three operations and a failure: create, delete, create again. |
| `conversion` (274,000) | A v1alpha1 client reads what it wrote, but for parameters the provider does not know, which the conversion drops (`AlphaSeesItsWrite`); what v1alpha1 loses it loses once, providers included (`AlphaWriteStable`); writing back an unedited policy, inventory or connection changes nothing or is refused (`UneditedWriteKeeps`; instances and providers are excluded: v1alpha1 fixes the plan of the first, and the version and the parameters of the second). | Five kinds, instances of the RDS provider, all specs over two values; two operations beside reads and write-backs. |

Runs that find a disagreement: `policy_one_active`, `platform_ready` and
`conversion_instance`, described under Findings.

## Fairness

Only the liveness properties need any; it takes no finite behaviour away from the safety ones.

* Informers deliver and the worker runs (`WF`): client-go and controller-runtime do so while
  the process lives.
* `SF_vars(ListPolicies(p))`: the work queue is FIFO up to retry delays, and a key is taken
  out of it again and again; no key is passed over for ever although the worker is busy with
  others each time.
* `SF_vars(PickPlatform(pf))`: Go randomises the order of a map, so that a platform which
  can be next infinitely often is next infinitely often (with probability one). The mutant
  of `platform_live` shows that the property is lost with an order that resumes where the
  last pass stopped.
* OLM, the kubelet and the console operator bring up what they were given, for platforms
  not in `Stuck`; the provider's operator serves what it finds; the garbage collector
  collects. These are other programs: the liveness properties are about this operator in a
  cluster that works.
* `WF_vars(Resync)`: `main.go` sets no `SyncPeriod`, so that controller-runtime's default
  (10 hours) applies. Without it `EventuallyReady` fails (TLC finds the run): nothing else
  tells an inventory that was refused once that its namespace now has an active policy.
  `access` assumes the same of informers, worker and resync, and nothing else: an
  object that was refused is looked at again only because of the resync.
* Passes of the platform controller follow one another (each asks for the next one), and OLM
  does its work, weakly fair: `upkeep` is about what the two make of each other.
* `metrics`: informers, the two handlers, the worker and both writers go on; no resync.
* `admission`: the API server answers requests, and some client never stops asking for an
  RDS inventory, with a selector that is valid now and then (`SF`). `RDSAdmitted` is about
  that client; the webhook owes nothing to one that gives up.

Nothing is assumed of users, administrators or restarts.

## The proofs

Each component has its theorems in a module of its own, `…Proofs`, which extends the
component's module. They hold for every value of the constants that its named assumption
admits, in particular for any bound on operations and faults, and for any lag of the caches.
The assumptions say that the strings which stand for a condition or an absence are no names,
that the sets a choice is made from are not empty, and that bounds are numbers; `Conversion`
also assumes that Go's nil is none of the values and none of the objects (`NilAssumption`).
TLC evaluates them all in the runs.

| Module | Proved, for any … | Theorems |
|---|---|---|
| `DBaaSPolicyProofs` | set of policies | `Invariance`, `TypeCorrect`, `ElectionCorrect` (`SomeActiveWhenIdle`), `ReconcileCorrect` (`ReconciledWhenIdle`), `DemotionCorrect` (the action property `DemotedOnlyForAnother`) |
| `ProviderResourceProofs` | kinds and specs | `Invariance`, `TypeCorrect`, `SpecMirrored`, `StatusMirrored` (`…MirroredWhenIdle`), `ReadyCorrect` (the action property `ReadyForOwnSpec`), `Refinement` (`ImplementsMirror`) |
| `DBaaSPlatformProofs` | platforms of the four kinds | `Invariance`, `TypeCorrect`, `SuccessReported` (`ReadyMeansSuccess`), `CompleteReported` (`ReadyMeansComplete`) |
| `InventoryAdmissionProofs` | clients, names, providers | `Invariance`, `TypeCorrect`, `ProviderImmutable` (the action property `ProviderFixed`), `RDSRespected` (`KnownRDSRespected`), `CredentialsSound` (`CredentialsChecked`) |
| `DBaaSAccessProofs` | namespaces and policies | `Invariance`, `TypeCorrect`, `WaitingRetried` (`WaitingIsRetried`), `SelectorSound` (`SelectorUsable`), `CheckSound` |
| `ConversionProofs` | values, kinds, providers | `Invariance`, `TypeCorrect`, `AlphaReadsBack` (`AlphaSeesItsWrite`), `AlphaStable` (`AlphaWriteStable`), `UneditedKept` (`UneditedWriteKeeps`) |
| `PlatformUpkeepProofs` | webhook configurations, settings | `TypeCorrect`, `UserValuesKept` (the action property `UserObjectsKept`) |
| `StatusMetricsProofs` | kinds and providers | `Invariance`, `TypeCorrect`, `GaugesRight` (`GaugesAtRest`) |

`Invariance` is `Spec => []IInv`, the inductive invariant from which the others follow. The
properties are not inductive: they speak of a controller at rest, of what has been written
or of what is stored, and say nothing of the copies in caches, watches and workers that are
about to be written. What each `IInv` adds:

* **Policies.** "An idle controller has elected a policy" says nothing of one at work.
  `CacheCoherent`: a cache without pending events shows the truth, and the last pending event
  carries it. `WorkerSound`: whatever the worker remembers (the version it holds, the active
  policy it found, an empty list) is true, or an event that will put it right is pending.
  `NoneForgotten`: a policy without a condition, or an active one without its quota, is in
  the queue, in a watch or in the worker's hands. `ElectionPending`: policies and no active
  one means that a request is outstanding. The same formula is an invariant of the run
  `policy`.
* **Provider objects.** `HistorySound`: every copy of the object is one version of the
  history, its uid and spec together. `Ordered`: versions only get newer on their way from
  the API server through watch and cache, and the worker's lies between the last one given to
  the provider and the cache's. `WorkerFresh`: a copy the API server would accept a status for
  is the latest version; one it would not will be looked at again. `ResourceSound`: the
  provider's object carries the version given last, or the worker about to write knows
  better. `ReportSound` and `IdleSound`: the object shows the provider's last word and has
  been given, or an event or request says otherwise. Mirror's steps come from `Ordered` and
  `HistorySound` (what is given is one version, never an older one) and
  `WorkerFresh` (ready for the latest only).
* **Platform.** `CopiesHonest` says of every copy of the status, the one being prepared
  included, what the property says of the API server's. `PassSound`: the platforms that a pass
  has been through are recorded as successes and complete. `StageSound`: so are the steps
  of the platform it is at. `NothingSpoilt`: nothing has been edited for good unless that was
  counted as a loss.
* **Admission.** `NoneUnchecked`: a request can only escape the webhook once its
  configuration has been away. Until then, `CacheOrdered`: inventories reach the cache in the
  order of their writes and keep their provider, so that a name's later incarnation never
  shows before an earlier one; and `KnownSound`: what a request knew of is in the cache or has
  left it for good, and past the list it is gone. The rest holds with or without webhooks.
  `ProviderSound`: an update past the first check has the provider of the object it was
  validated against, which is the one `Store` replaces. `ProviderCoherent` and `ReadSound`:
  what an undisturbed request has read is still so.
* **Access.** `SelectorsValid`: every copy of a policy or inventory, however old, has passed
  a webhook, unless the webhooks have been away. `WorkerSound`: a worker with an old copy of the object has a successor in the
  queue or under way. `CheckSound` is about the operators: with copies that are up to date the
  check, as the code computes it, gives `Verdict`, and fails just where the selector is
  unusable, so that what
  `VerdictSettles` leaves to TLC is that the copies become so and the check is made again.
* **Conversions.** `HeldSound` and `LastSound`: what was written last through v1alpha1 is what
  is stored, converted, and is spelt as in v1alpha1. The lemmas are about the
  conversions themselves: which of them are inverses, field by field and parameter by
  parameter. Two theorems exclude what the code does not do: `AlphaReadsBack` the instances of
  Crunchy Bridge and Mongo Atlas (see Findings), `AlphaStable` the instances of Crunchy Bridge
  only, whose region is always read as `us-east-1` and so replaces the one stored. An
  instance's parameters may be known to its provider or not (`Kept` is what is left of them).
* **Upkeep.** The types are inductive as they stand: creation times remain within their range
  though OLM moves all of them back.
* **Gauges.** `Lag`: the informer is behind the object by the events under way, and its
  second handler by those it has yet to handle. `HandlerBehind`: a handler that still writes a
  deleted object while there is a new one has yet to hear of the new one, and will enqueue it
  afterwards. `InHand` and `Labelled`: a status that the worker leaves unpublished is none of
  those that are published, and what it publishes of an inventory has the inventory's label.
  `Settled`: once nothing is coming, what the worker has left to write is of the object that is
  there, and the gauges show as much of that as it has written.

The proofs go through the actions one by one, with one lemma per action or per conjunct for
what it can disturb.

Only model-checked: all liveness properties (`EventuallyActive`, `EventuallyReady`,
`OthersInstalled`, `VerdictSettles`, `RDSAdmitted`, `WebhooksSettle`, `ConversionRestored`,
`RDSUpgraded`, `RemoteWriteRestored`, `GaugeSettles`, `PhaseSettles`), since fairness and
`ENABLED` are beyond the prover. For them the bounds of the runs are the ones that count:
that a request which the safety theorems show to be outstanding is also handled is shown on
the small instances only. Every invariant and action property of a passing run is stated by a
theorem; `AlphaSeesItsWrite` and `AlphaWriteStable` with the two exceptions above.

## Findings

* **Two active policies** (`policy_one_active`). Two policies that exist when the operator
  starts may both become active: the second reconcile lists a cache that does not show the
  first one's condition yet. Each later reconcile may find the policy it works on first in
  the unordered list, so that the state can persist. The quota that keeps a second policy
  out only comes with the first active policy.
* **In progress for ever** (`platform_ready`). PlatformReady becomes True only in the pass
  that sets `installComplete`. A regression after it (for instance the plugin's deployment,
  taken as rolled out while it had no replicas, then rolling out) makes the status "install
  in progress", and no later pass of the process takes that back.
* **Instances do not survive v1alpha1** (`conversion_instance`). For a Mongo Atlas or Crunchy
  Bridge instance, `ConvertFrom` adds name and cloud provider to `otherInstanceParams` a
  second time. The object read is not the one written, and a client that edits `spec.name`
  and writes back finds its edit overwritten by the copy. A Mongo Atlas `projectName`, so
  spelt by `ConvertFrom`, is dropped by `ConvertTo`, which knows `ProjectName`. The test of
  the round trip uses the provider name `mongodb-atlas`, for which the table has no entries.

Observations without a run of their own: the reason `DBaaSProviderNotFound` is written only
when the provider goes between two look-ups, since the reconcilers look it up first and
return its absence as an error; `checkInventory` forgets a failed status write, after which
a refused object is neither reported nor retried (`dropped`); a provider's object deleted
while its kind is not watched is missed until the resync, and so are an instance's parameters
lost by a failed conversion and a connection's instance that was replaced, though the objects
may be reported ready; the platform reconcilers' `Cleanup`
is never called, as the map of platforms is nil when the resource is being deleted; an
inventory's own policy replaces the active one as a whole, `disableProvisions` included; an
inventory's empty policy block becomes none through v1alpha1, so that the active policy
applies again; instances cannot be read as v1alpha1 once their inventory is gone. When the
active policy is deleted its request elects one other policy, and a third keeps the deleted
one's name in its message ("Another active Policy already exists"). Two requests for an RDS
inventory that overlap may both be admitted, as each lists a cache that does not show the
other yet ("only one provider account for RDS can exist in a cluster"): `KnownRDSRespected`
is what does hold. What is stored while `fixConversionWebhooks` has the validating
configurations deleted is validated by nobody: a second RDS inventory, another provider for
an account, or a selector that Kubernetes rejects, on which every later check fails without a
word in the status, also after the webhooks are back. `NewReconciler` of the observability platform sets no config, so that
`cleanObsOldSubscription` deletes a subscription named `-subscription` and an old one stays
(the old CSV is deleted by its full name). An unedited v1alpha1 write of a v1beta1 provider
turns its group version into v1alpha1. Error codes set before an early return are never
counted: the deferred call that would do so is registered only later. A refusal is not
published, so that the gauge keeps the last status that was, and series of deleted objects
stay. `EventHandlerWithDelete` says that it "will _not_ trigger a reconciliation for a Delete
event"; the handler that `For` adds does. An edited ServiceMonitor is left as it is, as the update sets its owner only.
Webhook configurations as young as the CSV's last
update are never deleted, so that a conversion webhook lost after that is not put back.

## Not modelled, and why

* Histograms, the error counter and the gauges of the platform: they accumulate or are set in
  one place, and no controller reads them back. The rest of `main.go` and the look-ups for
  metrics in `controllers/util`: start-up and reads.
* API types and generated deep copies: declarations.
* Contents of the objects that the platform reconcilers create (images, labels, ports), apart
  from the MonitoringStack's remote write: an object is in its desired form or not.
* Conversions of statuses, and the fields that the versions spell alike: of a spec,
  `Conversion` has what the versions write differently. Of the two forms that a provider
  object may have, `ProviderResource` has what the conversion may lose.
* The watches that every reconcile of a DBaaSProvider adds once more: duplicates only queue
  keys that are queued once.
* The platform reconcilers' `Cleanup`: never called.
* The absence of the connection's webhook, in `Conversion`: every write of a connection is
  taken to be validated there. `DBaaSAccess` and `InventoryAdmission` have the absence.
* `DBaaSAccess` and `ProviderResource` are not composed: the check enters the latter as
  `gate`, which changes at will and so covers every verdict of the former.

## Plan

The runs' invariants and action properties are proved. What is left:

1. What the liveness properties rest on and safety can say: that in `DBaaSAccess` a condition
   that is not the verdict of the present configuration leaves a request, an event or a
   resync outstanding.
2. Bounds on the work under way, such as the number of passes in `PlatformUpkeep` that can
   delete the RDS controller's deployment again.
3. The same proofs in fewer steps, where two modules prove a fact about event queues twice.
