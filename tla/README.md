# A TLA+ model of the kube-shard operator

kube-shard moves selected API groups of a Kubernetes cluster (the *primary*) to a
second, private API server (the *secondary*). The operator deploys the secondary
and its storage, registers the groups with the primary's aggregation layer, and
mirrors namespaces and admission webhooks to the secondary. This directory holds
TLA+ modules for the operator's controllers and for the load-test generator, the
configurations with which TLC checks them, and proofs checked by TLAPS.

## 1. The system

### Parts

| Part | Source (under `operator/` unless said otherwise) | State it owns | Module |
|---|---|---|---|
| APIShard controller: lifecycle, registration | `internal/controller/apishard/reconciler.go`, `internal/aggregation/apiservice.go` | finalizer, APIServices, `status.registeredAPIServices`, phase | `APIShardRegistration` |
| the same: readiness | `reconciler.go`, `internal/aggregation/conflict.go`, `internal/condition` | CRDs of the secondary, conditions, phase, sub-CRs | `ShardReadiness` |
| the same: provisioning | `reconciler.go`, `internal/resources`, `internal/certs`, `discovery.go` | Deployments, Services, Secrets, certificates, RBAC, SCC, ServiceMonitors | `Manifests`, `ShardProvisioning` |
| the same: storage | `reconciler.go`, `internal/resources/postgresql*.go` | credentials, StatefulSet and its volume, `StorageReady` | `ShardStorage` |
| the same: workload health | `reconciler.go`, `internal/predicate` | `SecondaryHealthy` | `WorkloadHealth` |
| NamespaceSync controller | `internal/controller/namespacesync` | namespaces of the secondary, its status | `NamespaceSync`, `Mirror` |
| WebhookSync controller | `internal/controller/webhooksync` | webhook configurations of the secondary, its status | `WebhookSync`, `Mirror` |
| Client provider | `internal/secondary/client.go` | cache of clients, shared by the three controllers | `ClientProvider` |
| Ticker | `internal/periodic/ticker.go` | one-slot channel | in the two sync modules |
| Process | `cmd/main.go` | what was discovered at start-up | `Restart` in several modules |
| Load-test generator | `tools/generate-from-pipeline` (top level) | map of resolved bundles | `LoadTestGenerator` |

### How they interact

The APIShard controller creates one NamespaceSync and one WebhookSync per shard
once the secondary answers authenticated requests, and copies their Ready
conditions into its own status. All three use clients of the same provider. The
kube-aggregator, cert-manager, the garbage collector and users act on the same
objects at any time. Nothing but the API server is shared between two passes of a
controller: a pass reads from informer caches that lag behind, and every write
comes back as a watch event that starts another pass.

### What is hard to get right

* A pass works on an old copy of its object, which may have been edited, deleted or
  recreated since.
* A pass is a sequence of requests; any of them may fail, or take effect and lose its
  answer, and the operator may stop between two of them. What a pass did but did
  not record in the status is invisible to the next one.
* A controller is woken only by the watches it registered. An early return without an
  error and without an event to follow is a lost wake-up.
* Two shards may name the same API.
* A step that gives up quietly (`return nil`, logged errors) leaves its objects
  untracked while later steps assume that the tracked set is complete.
* Conditions set on one path and read on another survive from earlier passes.
* Some twenty builders name each other's secrets, labels, ports and CAs.

`PROJECT.json` lists each of these at the line where it bites, with the properties
that address it.

## 2. Modules

A component's module has its state, its actions, its specification and its
properties. `MC<Module>` gives the values that a `.cfg` cannot write down,
`<Module>Proofs` holds the theorems. A definition called a *variant* in its comment is a
plausible mistake in the definition after it; the properties are known to notice it. Actions that the code does not
contain (users, informers, the garbage collector, cert-manager, pods) are marked
external in the map of `PROJECT.json`.

The APIShard controller's `Reconcile` is long, and each of five modules follows the
whole pass with one part of it in detail and the rest as far as that part can
observe it: a step of another part is left out when it touches no state of the
module, and its failure, which ends the pass in `setErrorAndRequeue`, is kept.

### APIShardRegistration

State. `shard` is what the API server stores; `stream` the versions of each shard on
their way to the informer, whose head is what a cached `Get` returns; `svc` the
controller reference of each APIService; `seen` and `notify` the informer of
APIServices and the shards whose watch event is on its way; `queue` the workqueue.
`pc`, `cur`, `copy`, `fresh` and `todo` are the running `Reconcile`: its next request,
its shard, its local variable `shard`, whether that still has the current
resourceVersion, and the names left in the loop it is in.

Actions. One action per API request of `Reconcile`, in the order of the code:
`Start`, `Deregister`, `RemoveFinalizer` (the deletion branch), `AddFinalizer`,
`EnsureNamespace`, `InitPhase`, `Provision`, `Apply`, `StartPrune`, `Prune`
(`aggregation.Reconcile`), `UpdateHealth`, `WriteStatus`, `SetError`. Every request
succeeds, is rejected, or takes effect and loses its answer. `Provision` stands for all
the steps between the phase initialisation and the first apply. `UpdateHealth` settles
on either phase. Around it users `Create`, `Edit` and `Delete` shards, somebody deletes
an APIService (`Drift`), the garbage collector runs, informers deliver, the operator
restarts.

Abstractions. An API group and version is one name. Of the status only the phase, the
registered names and whether the generation is observed are kept; a status write that
changes nothing else creates no version here, although conditions may differ in the
real object: the extra version would only add a wake-up. Server-side apply by two
shards uses the same field manager, so the last applier is the sole controller. The
APIShard carries no finalizer but the operator's. One operator process runs.

### ShardReadiness

One shard whose spec does not change. `world` is the state of what the decision depends
on (workloads, CRDs of the shard's groups, APIServices, sub-CRs), `cache` the same in the
informers, `moved` what the watches have still to deliver. `accepting` says whether the
secondary takes the admin credentials; nothing watches that. `status` holds the phase
and the five conditions; `copy`, `todo` and `failed` are local to the running pass.

Actions: `Start` (a pass up to and including `DetectCRDConflicts`), `StartFailed` (a pass
that ends in `setErrorAndRequeue`), `SyncCRD` (one CRD of `syncCRDsToSecondary`),
`HealthError`, `HealthBad`, `HealthGood` (`checkDeploymentHealth` and
`verifySecondaryAuth`), `ReconcileSubCR`, `Finish` (`aggregateSubCRStatus`,
`checkAPIServiceAvailability`, status write). The functions of the code that only
compute conditions are operators on a record of conditions. Consecutive steps are one
action where what others do in between commutes with one of them.

Abstractions. A CRD is absent or one of two versions. Reads of the informer cache
lag but do not fail. `queued` covers the workqueue and a pending `RequeueAfter`. A status
write that meets a conflict is a rejected one.

### Manifests and ShardProvisioning

`Manifests` has one operator per builder. A manifest is a record of what ties it to
other objects: the name it has, the secrets and config maps it mounts, the account it
runs under, the labels it has and selects, the ports it serves and on which of them it asks for a
client certificate, the hosts and ports it
dials, and with which CA it verifies them. Images, resource requests, probes, tuning
flags and the text of configuration files are left out.

`ShardProvisioning` is the pass that applies them. `objects` are the objects with the
shard's owner label, `issued` the secrets cert-manager has written, `template` what each pod template was last applied
with, `running` the workloads that are ready, `found` the optional APIs the running
process believes in, `tracked` what the pass has applied. The pass goes through
`storage`, `collector`, `foundation` (certificates, RBAC, SCC), `kubeconfig`, `secondary`
(with metrics), `health` and `cleanup`; a step applies its sequence of
objects and may stop after any prefix of it, in the way the code does: with an error
(`setErrorAndRequeue`), quietly (the kubeconfig without its secrets), or giving up the
collector with `MonitoringDegraded`. `CleanupOrphans` deletes what the pass did not
track. Pods start once what they mount exists and what they dial is running.

### ShardStorage

`credentials` and `sts` are the Secret's password and the live StatefulSet, `seen` the
operator's cache of both, `disk` and `scratch` the password with which the data on the
volume and in the emptyDir was initialised. A pass generates or reuses the password
(`getOrGeneratePostgresPassword`), applies the Secret, aligns the claim templates with
the live ones (`preservePostgreSQLVolumeClaimTemplates`), applies the StatefulSet (which
the API server refuses if the templates changed), or validates the connection
secret, and ends with the clean-up and the status write. A clean-up may fail after any part of
its work, which is only logged: the history variable `skipped` says so of the last one. The history variable `late`
collects which of the two reads was ever out of date or failed; three properties are
about behaviours in which it was not.

### WorkloadHealth

The three replica counters of a Deployment or StatefulSet as their controllers move
them, one pod at a time; the cache, which may compress several updates into one;
the predicates that decide which updates queue the shard; the apply, the check and the
status write of the pass.

### NamespaceSync, WebhookSync and Mirror

A pass of either controller lists the primary from the cache, the secondary by request, and then works
through the difference one request at a time: `create`, `delete` are the loops of
`NamespaceSync`, `todo` with `synced` those of `WebhookSync`. Single failures are
collected in `failed` and end in Ready=False with `return nil`. A namespace that is being
deleted stays in state terminating until its finalizer is removed, which may never happen: the
secondary has no controller-manager (`docs/design.md:103`), so `Finalize` stands for somebody doing it by hand. `touched` is what others did
to the secondary since the pass listed it: nothing tells the controllers of that but the
ticker, whose channel has one slot (`Tick`, `TickReceived`).
`WebhookSync` models `shouldSync` and the rewriting of Service references to URLs.

`Mirror` is what both promise: the controller looks at what is wanted, and from then on puts
only what it saw and removes only what it did not see, never a protected name. A removed object may go on
holding its name (`leaving`), under which nothing is put; that it is released is not promised.
`NamespaceSync` implements it outright (`ImplementsMirror`, with `Mirror`'s fairness as
`MirrorKeptUp`), `WebhookSync` as long as no request has failed. The mapping takes the cache for what is
wanted and namespaces in use for what is had.

### ClientProvider

`BuildClient` (reading the CA and the credentials in two requests), `GetOrCreate` with
its read lock, the gap between the locks and the second look under the write lock, and
`Invalidate`, for several callers of several keys. Connections and secrets rotate at any
time. The counter `epoch` of a key and `mark` of a caller are history: they tell when an
`Invalidate` came before a call.

### LoadTestGenerator

The whole program: extraction of the tasks, one goroutine per bundle under a WaitGroup and a
mutex, what `main` prints and what `generatePipelineRun` writes, which the code works
out separately. An image may not be had, or only its layer may be unreadable. A script is its length, computed as `padScript` does with the
rounding of base64.

## 3. Runs

| Run | Instance | Checks |
|---|---|---|
| `registration_safety` | 1 shard, 2 incarnations, 2 symmetric APIs, 1 edit, 1 fault, lagging reads | `TypeOK`, `SettledWhenQuiet`, `AppliedUnderFinalizer`, `RecordedDeregistered` |
| `registration_live` | 1 shard, 2 incarnations, 1 API, lagging reads, 1 edit, 1 fault, 1 drift | `DeletionCompletes`, `Converges` |
| `readiness` | 1 workload, 1 CRD, 1 APIService, both sub-CRs; 2 changes, 2 starts or ends of an outage, 1 fault | `QuietMeansServing`, `ConditionsAgree`, `BecomesReady` |
| `namespace_sync` | a system and a tenant namespace; 1 change, 1 drift, 2 faults | `ReadyMeansMirrored`, `ImplementsMirror`, `Converges`, `MirrorKeptUp` |
| `webhook_sync` | a validating and a mutating configuration, for one group or for all; 1 change, 1 drift, 1 fault | `ReadyMeansSynced`, `ImplementsMirror`, `Converges` |
| `client_provider` | 2 callers of one key, 2 hosts, 2 versions of each secret, 1 rotation, 2 invalidations | `NoMapRace`, `GivenAsAsked`, `InvalidatedIsGone` |
| `provisioning` | SQLite or replicated in-cluster PostgreSQL, 1 edit, 1 trouble (failed request, lost object or secret, API gone, restart) | `QuietMeansProvisioned`, `NoLeftovers`, `KeepsWanted` |
| `provisioning_start` | replicated in-cluster or external PostgreSQL, every state of the connection secret, 1 edit | `Resolved`, `Verified`, `SelectsOwn`, `QuietMeansProvisioned`, `ReportIsCurrent`, `Settles` |
| `storage` | five storage specs of all types, lagging reads of the StatefulSet, failing reads, 1 edit, 1 change of type, 1 trouble | `OpensDatabase`, `NeverRejected`, `ReadyIsCurrent`, `KeepsVolume`, `PasswordKept`, `Settles` |
| `workload_health` | 1 workload of 0 to 2 replicas, 2 scalings, 1 pod failure, 1 other update, 1 restart | `VerdictIsCurrent`, `BecomesHealthy` |
| `load_test` | PipelineRuns with bundles, broken and stepless ones, unnamed bundle tasks, embedded specs, matrices, an empty array and overrides; 0 or 3 default steps | `NoMapRace`, `LooksLikeInput`, `ReportIsTrue`, `Terminates` |
| `stale_only` | as `webhook_sync`, no change, 1 fault | `RemovesOnlyStale` fails |

Each property is stated in words where it is defined. Each run takes between seconds and a minute
and a half with two workers. The runs are spent on behaviour: `TypeOK` is checked for
`APIShardRegistration` and proved there and for `NamespaceSync` and `WebhookSync`; in the other modules it documents the
shape of the state, and holds as an additional invariant of the module's run.

### Bounds

* Registration: two incarnations are enough for a pass to meet a recreated object; three
  versions in flight allow a copy two versions old, so that both the deletion and the
  recreation can be unseen. Two APIs tell "some" from "all" in the loops, and both loops
  can have something left when a fault strikes. Shards that contend for an API are covered
  by the theorems, which hold for any number of them. Reads of shards and of APIServices lag in both runs.
* Readiness: the CRDs may be there from the start; two changes bring the shard to Ready (the
  workload becomes ready, the API available) or take something away again, and an outage
  that ends comes on top.
* Sync: one name that may be deleted and one that may not, or one of each kind; a change and a drift can
  fall into the same pass. What a fault hides must be repaired by watch, own status or ticker
  alone, and the repair may fail again.
* Provisioning and storage: troubles of all kinds share one bound, `MaxTroubles`: one of them,
  at any point of any pass, together with an edit. `Fragile` names the kinds that are deleted behind
  the operator's back, one that is watched and one that is optional. All clusters start with
  the optional APIs; they go away, or are not discovered, as a trouble.
* Deadlock is checked where the ticker or the callers always go on (`namespace_sync`, `webhook_sync`,
  `client_provider`, `stale_only`). Elsewhere an idle operator with nothing to do, and a program that has
  ended, are final states.

### Fairness

A running pass goes on: weak fairness of its steps, which succeed once the budget of faults is
spent; this is the usual "faults stop". The workqueue is first-in first-out, so a queued
shard is eventually taken: strong fairness of `Start` in `APIShardRegistration`, where
the single worker is busy in between, weak fairness where there is one object. Informers
deliver, the ticker ticks, the garbage collector, cert-manager and the controllers
of the workloads do their work (weak fairness). Nothing is assumed of whoever finalizes the namespaces of the
secondary, where no controller does. Nothing is assumed of users, whose edits
are bounded. controller-runtime's resync, which requeues every object about every ten hours, is not modelled:
liveness here rests on the events and requeues that the code itself arranges.

## 4. Where the code departs from what it says

Properties that state what a comment or a document says, and that the code does not
keep. `stale_only` is among the runs. The others are defined in their modules; TLC
refutes each when it takes the place of the properties in the configuration named.

* `RemovesOnlyStale` (`MCStaleOnly.cfg`). A webhook configuration whose `Create`, `Get` or `Update` on the secondary
  fails (a `Create` that takes effect and loses its answer is enough) is not counted as synced, and is deleted as stale in the same pass, although
  `deleteStaleValidating` "removes ValidatingWebhookConfigurations from the secondary that
  are not in the currentNames set (i.e. no longer match the primary)". A later pass creates
  it again (`Converges`).
* `DeregisteredFirst` (`MCRegistrationSafety.cfg`). `reconciler.go:150`: "The finalizer ensures APIServices are
  deregistered first". A pass whose status write does not happen (a conflict with an edit or a
  deletion is enough) leaves the names it applied unrecorded; if the shard is deleted then,
  the finalizer goes and the garbage collector removes them along with the rest. A recorded name is left too
  when the informer has not delivered its creation: the `Get` of the deletion loop (`reconciler.go:157`) answers
  NotFound, the name is skipped and the finalizer goes. `RecordedDeregistered` is what does hold: this is the only way in
  which a recorded name is left, and no failed or unanswered request is another.
* `StaleCleanedUp` (`MCRegistrationSafety.cfg`). `reconciler.go:1112`: "cleans up stale ones when API groups are
  removed from the spec". The same unrecorded name, with its group removed before the next
  pass, is not pruned while the shard lives.
* `DeletesOnlyOwn` (`MCRegistrationSafety.cfg` with two shards and one API). `apiservice.go:53` gives preventing "deleting
  resources it doesn't own" as the reason for keeping names in the status, but names are deleted by
  name: an API that another shard has applied since goes with it. Its watch brings it back
  (`NoLostWakeup`).
* `CreateDeleteMirrored` (`MCNamespaceSync.cfg`). `docs/design.md:194`: the controller "watches Namespaces and mirrors
  create/delete to the secondary". The secondary has "no controller-manager" (`docs/design.md:103`), so nothing
  finishes the deletion of a namespace: it stays Terminating, and one that is desired again is still listed and
  therefore not created. `Converges` is what does hold: no desired namespace is absent and no other is active.
* `DeferredSubCRsCreated`, `SubCRsPropagated` (`MCReadiness.cfg`). If the secondary refuses the credentials on
  a pass that finds everything else in order, the phase becomes Ready, the result asks for
  no requeue, and no watch reports when it accepts them. The sub-CRs that `reconciler.go:1631` calls deferred are not
  created, and a report that arrives meanwhile is not propagated (`reconciler.go:1324`),
  until an unrelated event. The last conjunct of `ConditionsAgree` is what does hold.
* `NothingIncorrectlyDeleted` (`MCProvisioning.cfg`). `reconciler.go:281`: the clean-up comes last "so the tracked set
  is complete and nothing gets incorrectly deleted". `reconcileAdminKubeconfig` returns nil
  without the secrets of its certificates, and the kubeconfig applied earlier is then an orphan.
  `KeepsWanted` holds for everything else.
* `UnknownIsKept` (`MCProvisioning.cfg`). `discovery.go:53`: "callers should treat an error as "unknown"". `main` goes on
  with false, and the clean-up removes the ServiceMonitors or the SCC of every shard.
* `KubeconfigPublished` (`MCProvisioningStart.cfg`). The design asks to "Requeue if certificate Secret not yet
  populated". A pass that finds the serving secret but not the client's publishes nothing,
  asks for no repetition, and no watch covers those secrets.
* `ExistingPasswordReused` (`MCStorage.cfg`). `reconciler.go:436`: "the existing password is reused". Any failure to read
  the Secret, or a cache that does not have it yet, counts as a first creation. `PasswordKept` is what does hold.
* `OpensKeptVolume` (`MCStorage.cfg`). The README's advice on an immutable volume includes to "recreate the
  shard". The claim outlives the shard, the generated password does not.
* `ReadyMeansUsable` (`MCStorage.cfg`). "`StorageReady` reports whether the configured backend is usable". SQLite
  neither sets nor removes it, so that of the previous backend stays. Until the type is first changed SQLite
  reports nothing (`ReadyIsCurrent`).
* `HealthyMeansAllReady` (`MCWorkloadHealth.cfg`). `reconciler.go:1711`: "have all replicas ready". The counters are compared
  with `status.replicas` without regard to the observed generation; right after a scale-up they still
  count the old pods. `VerdictIsCurrent` and `BecomesHealthy` are what does hold.
* `RunsAreCombinations` (`MCLoadTest.cfg`). `generator.go:143`: `matrixExpansionCount` "returns the number of TaskRuns that
  the matrix will fan out into". An array parameter without values counts as one value, although it leaves no
  combination. In the same way a task without steps, or a default of 0 steps, is printed as 0 steps and generated with at
  least one. `ReportIsTrue` is what does hold.
* `OverridesPreserved` (`MCLoadTest.cfg`). `generator.go:165`: overrides are forwarded so that they "are preserved". If
  the bundle could not be resolved they name steps that the generated task does not have.

## 5. Proofs

All theorems hold for any values of the constants that satisfy the named assumptions, which
TLC evaluates in every run: bounds are natural numbers, sets of names are disjoint or finite
where they must be, `None` is not a caller or entry, claim templates have at most one entry,
the storage type of a shard is one of the three the CRD admits, and an optional API is there or not.
The bounds on edits, failures and restarts are constants too, so the theorems hold for any number of them.

* `APIShardRegistrationProofs`. `StructCorrect`: `StructInv` is inductive. It says that the watch
  stream of a shard ends in its current version; that a deleting object carries the
  finalizer; that a version still in the stream that is live and carries the finalizer
  belongs to the incarnation that exists (only the worker drops the finalizer, and only
  after the informer has shown it the deletion); that a copy with the current
  resourceVersion agrees with the object; and that a worker past `AddFinalizer` works on an
  incarnation that exists and holds the finalizer. `FinalizerFirst` (`AppliedUnderFinalizer`)
  follows, since only `Apply` adds an owner, and its copy is covered by the last clause; the copy may be
  arbitrarily old, and what saves the code is that the same single worker removes the finalizer.
  `RecordedFirst` (`RecordedDeregistered`) needs two more. `UnseenNotified`: an APIService that the informer does not know
  has its event on the way. `DeregisteredSoFar`: while the deletion loop runs, a recorded name outside
  `todo` is not registered for this incarnation, or its event is on the way, or the shard has been queued since. `NoLostWakeup` (`SettledWhenQuiet`): `WakeupInv` follows the pass. A
  deletion is still to be noticed in the stream, the names already applied in this pass are
  still ours or their loss is in `notify`, and the status about to be written is what is
  stored or will be a new version.
* `ShardReadinessProofs`. `ReadyServes` (`QuietMeansServing`) and `ConditionsHold` (`ConditionsAgree`), from
  `ReadinessInv == Shape /\ Delivered /\ Running /\ AtRest`: what the caches lack is in `moved`; unless the shard is
  queued, what a running pass has put into its copy of the conditions is true of the caches it read; and the
  stored status is what the last pass found. A change that a watch delivers queues the shard, so a shard that
  is not queued was judged by what is there.
* `NamespaceSyncProofs`. `TypeCorrect`, `ReadyMirrors` (`ReadyMeansMirrored`) and `Refines`
  (`ImplementsMirror`), from `TypeOK /\ Progress`: what a pass has not yet done is in its loops or
  counted as failed, and its view is out of date only while the object is queued. The
  refinement goes action by action to `Look`, `Put`, `Remove`, `Release`, `Change`, `Foreign` or a stutter.
* `WebhookSyncProofs`. `TypeCorrect`, `ReadySynced` (`ReadyMeansSynced`) and `Refines` (`ImplementsMirror`).
  `Progress` says that each loop keeps to its kind of configuration and that without a failure every
  match is copied and everything else deleted, but for what is left in the loop and what others touched;
  `Current`, that while nothing is queued the caches hold what the pass has read. The refinement is to `Mirror`
  of the validating configurations; it needs that there is one, since a change that others make to a mutating
  configuration counts for `Mirror` as one that leaves a validating one as it was.
* `ClientProviderProofs`. `RaceFree`, `GivesAsAsked`, `InvalidationHolds`: the lock is held by exactly the
  callers inside a critical section; every entry was built from the host and fingerprint it is
  compared by and is no older than the last `Invalidate` of its key; what a caller is given
  fits what it has read.
* `ShardStorageProofs`. `VolumeKept` (`KeepsVolume`, whatever is read too late): `VolumeInv` says that the StatefulSets
  of the cluster, the cache and the pass have one source for the data volume; lemmas show
  that building, aligning and storing keep that. `PasswordReused` (`PasswordKept`): the password about to be
  written is that of the Secret, if there is one and it was read as it is. `ApplyAccepted` (`NeverRejected`).
  `DatabaseOpens` (`OpensDatabase`): until a read is late, the type changes or the shard is recreated, there is data
  only of the password in the Secret (`DatabaseInv`), which needs how far the pass has come (`PassInv`). `ReportHolds`
  (`ReadyIsCurrent`): what a pass is about to report is true of what it read, and what it leaves at rest is what its
  clean-up left unless that failed (`ReportInv`); as long as nobody edits
  the shard the claim templates of the StatefulSet, defaulted or not, match the spec's (`UneditedInv`); and until the type
  changes no pass of a SQLite shard sets the condition (`SQLiteInv`).
* `ShardProvisioningProofs`. `CleanupKeepsWanted` (`KeepsWanted`): `TrackInv` says that a pass past a step has tracked
  all the step applies; a step that ends early either ends the pass or applies nothing firm.
  `QuietIsProvisioned` (`QuietMeansProvisioned`) and `NothingLeft` (`NoLeftovers`): while no further pass is due, what the
  running pass has tracked is still there (`PassInv`), and at rest all that the spec asks for is there and nothing else (`RestInv`); a loss
  that queues nothing is of a kind nobody watches or of an API that is gone. `ReportHolds` (`ReportIsCurrent`): the same for
  what is said of the collector (`ReportInv`).
  `NamesResolve` (`Resolved`), `DialsVerify` (`Verified`) and `SelectorsFindOwn` (`SelectsOwn`) are about the manifests of a
  pass at its clean-up. `TrackInv` gives all the objects of the unconditional steps; the collector's may be any prefix of their
  list, and `OrderInv` says that each comes after those it names. The rest are lemmas about `Manifests` for any spec: labels,
  names of secrets and names of issuers are pairwise different, so a selector finds one workload and a
  secret has one CA. `Accepted` says when a port takes a caller: with a certificate of the CA it trusts, or without one if it
  does not ask.
* `WorkloadHealthProofs`. `VerdictHolds` (`VerdictIsCurrent`): an update that the predicate drops leaves readiness as it was
  (`DroppedIsIdle`), so `HealthInv`, that what a pass has found, and then the stored verdict, is what
  the cache says unless another pass is due, is inductive.

Only model-checked: liveness, since the prover handles neither fairness nor ENABLED
(`DeletionCompletes`, every `Converges`, `MirrorKeptUp`, `BecomesReady`, `BecomesHealthy`, every `Settles`, `Terminates`); and
`LoadTestGenerator`: `ReportIsTrue` adds up sequences of any length, which needs induction over them; `NoMapRace` and
`LooksLikeInput` of that module have not been proved.
`APIShardRegistrationProofs` and `ShardProvisioningProofs` name a prover at most leaves; with the default order of
provers they take about three times as long.

## 6. Not modelled

* `transformCRDConversion`: the rewriting of a CRD's conversion webhook. `ShardReadiness` copies a CRD as its version.
* `DiscoverPrimaryIssuer` and `requestHeaderCAMapper`: the former reads one string at start-up and
  the operator exits if it cannot; the latter queues all shards on a change of one ConfigMap.
* `HealthChecker` of `internal/secondary`, which nothing uses, and `InjectClientForTest`.
* `filterLabels` of NamespaceSync: labels are only copied at creation, and nothing branches on them afterwards.
* Parsing, printing and cleaning of YAML in the load-test generator.
* Images, resource requests, probes, tuning flags and configuration texts of the builders.
* `cmd/main.go` beyond one process that may restart with its discovery: flags, TLS, metrics server.
  Leader election is off by default, so two operator processes are not considered.
* Test utilities, the e2e webhook server and generated deep copies.
* The ten-hour resync of controller-runtime.
* The API server, aggregator, garbage collector, cert-manager and kubelet are modelled only by
  what the operator can observe of them.
