# Connect operator: a TLA+ model, its checks and its proofs

The operator watches `Connector` resources in Kubernetes and keeps one Kafka
Connect connector per resource: it PUTs the resource's config to the Connect REST
service, DELETEs the connector when the resource goes away, and reports
`Applied`, `Pending` or `Failed` in the resource's status. This directory models
that program from its source, model-checks it on small instances, and proves its
safety for instances of any size.

## Inventory

| component | state | operations | interacts with |
|---|---|---|---|
| event handlers (`controller/controller.go` 112-122, 341-349) | none | AddFunc, UpdateFunc, DeleteFunc, `enqueueConnector` | called by the informer, add keys to the queue |
| workers (`controller.go` 127-218) | item each worker holds | `Run`, `runWorker`, `processNextWorkItem` | take keys from the queue, call `syncHandler` |
| `syncHandler` (`controller.go` 220-368) | the copy from the lister, local results | lookup, `buildConnectorConfig`, GET, PUT, DELETE, `UpdateStatus`, Events | lister, API server, Connect |
| Connect client (`connectClient/connectClient.go`) | base URL only | `GetConfig`, `PutConfig`, `Delete` | Kafka Connect over HTTP |
| work queue (client-go) | waiting, dirty, processing, delayed items | `Add`, `Get`, `Done`, `AddRateLimited`, `Forget` | handlers and workers |
| informer, indexer, lister (client-go; instantiated by `pkg/generated/informers`, `.../listers`) | indexer, watch stream, pending notifications | list, watch, resync, relist | API server; calls the handlers |
| API types (`pkg/apis`) | the resources, their versions and status | decoding, encoding, deep copies | API server, indexer |
| generated client and scheme (`pkg/generated/clientset`) | none after the start | `NewForConfig`, `List`, `Watch`, `UpdateStatus` (the verbs that the operator uses) | API server |
| informer factory (`pkg/generated/informers/externalversions/factory.go`) | informers, started informers, namespace | `InformerFor`, `Start` | `main`, `NewController` |
| process (`main.go`, `pkg/signals`) | stop channel | wiring, start, shutdown | everything |
| deployment (`manifests/deployment.yaml`) | the processes that run | restart, rolling update | starts and stops processes |
| `handler.go` | none | commented out altogether | nothing |

What makes them correct, and hard:

* handlers, queue and workers: no update lost, no key in two hands, whatever the
  order of events, resyncs, retries and workers;
* `syncHandler`: Connect ends with the present config; older versions never
  replace newer ones; a deletion hits the right connector and only that one; the
  status can be believed. Each of its outside calls may fail alone, after it
  took effect, or be overtaken by an edit;
* `buildConnectorConfig`: a config resolved from several Secrets and ConfigMaps, one
  after the other, while they change, is complete and true, or invalid for a reason;
* informer: a copy that lags behind, a watch that breaks, deletions that are
  only found by comparing lists, a document that does not decode; objects of its
  indexer that nobody may write;
* types and client: what a config loses on its way through decoding, copying and
  encoding never reaches the resource; a status reaches the right one;
* process: nothing is persisted, so a crash loses the queue, and what happened
  while no process ran has to be reconstructed from the first list; a start in
  the right order; a shutdown that nothing holds up; two processes in a rollout;
* Connect client: which answers count as "not found", as success, as failure.

`PROJECT.json` lists the hazards line by line ("hazards"), and which property
watches each of them.

## Modules

| module | models | kind |
|---|---|---|
| `WorkQueue` | the rate-limiting queue as the controller uses it | component, passive, external code |
| `Informer` | API server, watch stream, indexer, notifications | component, passive, external code |
| `ConnectClient` | HTTP exchange to result, for the three calls | operators |
| `Controller` | handlers, workers, `syncHandler`, users, breakdowns; composes the three above | specification, properties |
| `Deletions` | `Controller` with a history of the deletions that it missed | specification, property |
| `Mirror` | what the operator promises: wishes, what Connect runs, what is due | abstract specification |
| `Mirroring` | the refinement mapping from `Controller` to `Mirror` | refinement |
| `Rollout` | two instances of `Controller` on one API server and one Connect, either of which may lose its watch or crash | specification, properties |
| `ConfigItems` | `types.go` and the deep copies: configs as JSON, as Go values, as memory | operators |
| `TypedClient` | scheme, clientset, typed client, the factory's namespace, lister | operators |
| `ConfigBuild` | a config's way from the API server to Connect and back; composes the two above | specification, properties |
| `InformerFactory` | the shared informer factory | component, passive |
| `Lifecycle` | one process from start to exit: `main`, signal handler, `Run`; composes `InformerFactory` | specification, properties |
| `MCController`, `MCDeletions`, `MCRollout`, `MCConfigBuild`, `MCLifecycle` | model values for TLC | models |
| `TypeProofs` | the type invariant, one worker per key | proofs |
| `DeliveryProofs` | no update is lost; what a controller keeps true beside another one | proofs |
| `OrderProofs` | PUTs in the order of versions | proofs |
| `MirrorProofs` | Connect matches at rest, removals are current, the refinement | proofs |
| `StatusProofs` | statuses are true and current at rest, deletions have the last word | proofs |
| `RolloutProofs` | two processes leave Connect as it should be | proofs |
| `LifecycleProofs` | types, caches before work, two signals for a forced exit | proofs |
| `ConfigBuildProofs` | configs true, refusals justified, statuses in their place, the indexer untouched, copies apart | proofs |

A passive module defines what an operation does to its own variables;
`Controller` says when it happens and leaves the other variables unchanged.

### How `Controller` corresponds to the code

A worker's `pc` names the call that comes next. Each step is one call to
something outside the process (the lister counts as outside, since the informer
writes what it reads), together with the local code up to the next such call, so
that everything else may happen in between.

| `pc` | action | code |
|---|---|---|
| `idle` | `Dequeue` | `workqueue.Get` in `processNextWorkItem`; workers exist once the caches have synced |
| `lookup` | `Lookup` | `connectorLister.Connectors(ns).Get(name)`, IsNotFound or not |
| `remove` | `CallDelete` | `connectClient.Delete`, its error logged, `nil` returned |
| `build` | `BuildConfig` | `buildConnectorConfig`: resolves, does not resolve, or a read fails |
| `get` | `CallGetConfig` | `connectClient.GetConfig`, ErrNotFound, other errors, `deep.Equal` |
| `create`, `replace` | `CallPutConfig` | the two branches that call `PutConfig` |
| `report` | `UpdateStatus` | `setManagedResourceStatus`, then `recorder.Event` |
| `requeue`, `finish` | `Conclude` | `AddRateLimited` or `Forget`, the deferred `Done` |

* Specs are opaque values. Those in `Referring` have a `secretRef` or
  `configMapRef`, which resolves unless the spec is in `dangling`. Those in
  `Canonical` come back from Connect as the same Go value. Connect stores strings
  and adds the connector's `name`, so for every other spec (the example manifest
  has booleans, and no `name`) `deep.Equal` always finds a difference.
* A resource is its spec, its status and its `resourceVersion`. A status update
  carries the version that was looked up and is refused when the API server has
  another one. It leaves the spec alone, as a status subresource does (`crd.yaml`
  declares one), and is no write at all if the status does not change.
* Notifications: `NoteFor` for watch events, `ReplaceNotes` for a list, whose
  missing entries become `DeletedFinalStateUnknown` ("tombstone"), and the resync
  as an update from a copy to itself. `Enqueues` is the three handlers:
  `deep.Equal` lets through what has another version, and
  `MetaNamespaceKeyFunc` fails on a tombstone.
* Sequences are kept per key. The code never compares two resources, so nothing
  can depend on the order between keys, except the order of the queue, which is
  modelled.
* `seen` and `lastPut` are history variables: what the last lookup returned and
  which version was behind the last PUT. No action reads them.
* `event` is the last Event recorded about a resource. No action reads it either;
  it says how the last sync ended.

### How `Lifecycle` corresponds to the code

`Order` is what the main goroutine does, `at` where it is: `SetupSignalHandler`,
`MakeClients` (each of which may be `klog.Fatalf`), the three uses that
`NewController` makes of the informer (`lister`, `hasSynced`, `handlers`),
`StartFactory`, and, in `Run`, `WaitForSync`, `StartWorkers`, `AwaitStop`, until
`MainReturns`. Each use asks `InformerFactory` for the informer; `got` is which one it
was given. Beside the main goroutine run

* the goroutine of the signal handler: `FirstSignal` closes `stopCh`, `SecondSignal`
  exits. `Signal` puts a signal into its channel, which holds two; what does not
  fit is dropped, and before the handler is set up a signal kills the process;
* the informers that were started: `CachesSync`, when the API server has answered the
  first list of one;
* the workers: `RunWorker` is `wait.Until`, `GetItem` the queue's `Get`, which hands
  out what is left even after `ShutDown`, and `FinishItem` the end of a sync.

Nothing happens after the exit. An item is a mere count here; `Controller` says
what is done with it, and has the restart of a process as one action, `Restart`.

### How `ConfigBuild` corresponds to the code

Here a sync may begin at any time and Connect is left out; what is looked at is the
config. A config maps items to JSON values: literals, `null`, objects with a
`secretRef` or a `configMapRef`, and objects that do not decode. `Wide` is an integer
that float64 does not hold.

| action | code |
|---|---|
| `List`, `Watch` | the informer's two calls of the generated client, with `UnmarshalJSON` for every item; one item that does not decode fails all of the list, and ends the watch |
| `Lookup` | the lister's `Connectors(ns).Get(name)`, which hands out the indexer's own object |
| `BuildItem` | one turn of the loop over the map in `buildConnectorConfig`, in any order, with its read of a ConfigMap or Secret of the resource's namespace |
| `Built` | its return, after which `syncHandler` goes to Connect |
| `Report` | `setManagedResourceStatus`: deep copy, then status |
| `SendStatus` | `Connectors(ns).UpdateStatus` of that copy: `UpdateStatus` is the request, `Body` what the tags make of the copy without a `MarshalJSON`, `Put` what the API server does with it |
| `EditConfig`, `ChangeStore` | users |

Memory is modelled by what a property needs of it: everything behind a pointer or a
map carries in `at` the allocation it came from, the elements of an array that
`UnmarshalJSON` put into an `interface{}` carry it in `valueAt`, and two with the same allocation in the
same place are one piece of memory. `ConfigItem.DeepCopyInto` copies the value as it is and
the `ValueFrom` one level deep, so that the elements of arrays and the Refs stay shared.
`SetStatusOf` writes through a pointer: whoever holds the same allocation has
the status too, the indexer included. `wish`, `window`, `origin`, `asked` and `misread`
are history: what a user gave the resource, and what of this the indexer's object
and the worker's were decoded from, what each Secret and ConfigMap held since the lookup, whether a
read failed. `BuiltAsWritten` compares what is built with the user's wish, not with what the server
has, so that a status update which reached the config would be seen by the next sync. `TypedClient` is constant: which resources the informer's namespace reaches,
which one a status goes to, and which kinds the scheme knows are all settled at start.

### How `Rollout` corresponds to the code

`manifests/deployment.yaml` asks for one replica and names no strategy, so Kubernetes
starts the new process before it stops the old one, and there is no leader
election. `Old` and `New` are two instances of `Controller` with a queue, an informer and
workers each; `StartNew` lists what there is, `Echo` gives each watch what the other
process or a user wrote, and `StopOld` ends the old process wherever it is. `OldLists` and
`NewLists` are what makes a process list anew: its watch breaks (`BreakWatch`), or it crashes and
is started again (`Restart`). A deletion that the process was not done with then
reaches it as a tombstone, which no handler queues (finding 2), or not at all; `missed` is the
resources of which this may be so. Left out are resyncs, which queue nothing, and
changes of Secrets and ConfigMaps (`ChangeStore`).

### What `Deletions` records

`lost` is the keys of deleted resources whose connector nothing will remove: a DELETE
failed, a tombstone was all that told of the deletion, or a list was compared with an
indexer that knew nothing of the resource. Creating it again takes the key out of `lost`. What a deletion must outlast (`Outlives`)
is the connector and also the copy of a worker in mid-sync, which may put the connector
back after the list. `Traced` says that a notification, the queue or a worker about to
look the resource up still leads to it. `Deletions` adds the variable and restricts nothing.

### `Mirror` and its implementation

`Mirror` knows wishes, what Connect runs, the version applied last, refusals, and which
resources are due. Connect changes only under a resource that is due, never back to
an older version; a resource stops being due only with Connect as it is wished, with a
refusal, or deleted. `Mirroring` maps the state of `Controller` to it (`Due` is
whatever is in a notification, the queue or a worker's hands), and
`ImplementsMirror` says that every step of `Controller` is one of `Mirror`.

## The runs

`core`, `settle` and the five violations after `rollout` use `Controller` through
`MCController`, `status` uses it through `MCDeletions`: two workers, as `main.go` starts
them (`Run(2, ...)`), and two specs. `s` is canonical without references; `t` has
references. There is one key, except where a run is about two.

| run | properties | shows |
|---|---|---|
| `core` | `TypeOK`, `OneWorkerPerKey`, `NoUpdateLost`, `RestingMatches`, `PutsNeverGoBack`, `RemovesOnlyDeleted`, `ImplementsMirror` | safety under every kind of disturbance, and that the controller does nothing which `Mirror` does not allow |
| `status` | `StatusIsCurrent`, `AppliedIsTrue`, `DeletionsEndInRemoval` | status at rest is right for configs that are never echoed as put, if status updates arrive; a deletion has the last word unless a failed DELETE, a tombstone or a list without a memory lost it |
| `settle` | `EventuallyAtRest`, `EventuallyMirrored` | own status updates, resyncs and retries die out, and Connect then runs every resource as it is, with failures, broken watches and restarts on the way |
| `life` | `LifeTypeOK`, `SyncedBeforeWork`, `OneSignalForcesNothing`, `SignalEnds`, `SecondSignalEnds`, `EventuallyServes`, `QueueDrains` | start and shutdown in every order: caches before work, the workers get to work, one that hangs does not hold up the queue, one signal ends the process though nobody answers, two though `main` is stuck |
| `config` | `BuildTypeOK`, `BuiltAsWritten`, `InvalidHasCause`, `CopyApart`, `IndexerReadOnly`, `StatusIsAboutConfig`, `CatchesUp` | a config goes to Connect as its user wrote it or is invalid for a reason, also when the status update of an earlier sync carried one that had lost every value; status updates change no other resource and nothing in the indexer; one malformed config makes the informer deaf, but not for longer than it is there |
| `rollout` | `RolloutMatches`, `RolloutRemoves` | two processes at once, each of which may lose its watch or crash, leave Connect as it should be, if the old one was done with the resource when it was stopped and, for a deleted one, no new list hid the deletion |
| `delete_error` | `DeletedIsRemoved` violated | finding 1 |
| `missed_delete` | `DeletedIsRemoved` violated | finding 2 |
| `status_stuck` | `StatusIsCurrent` violated | finding 3 |
| `transient_read` | `ResolvableIsApplied` violated | finding 4 |
| `cross_namespace` | `DeletionSparesOthers` violated | finding 5 |
| `shutdown_busy` | `WorkersFinish` violated | finding 6 |

### Bounds

* `MaxEdits` (3; 2 in `settle` and in three of the violations): creations, edits and deletions by users. Three allow
  create-edit-edit, create-edit-delete and create-delete-create, each overlapping
  a sync of the one before. Status writes are not bounded; they die out.
* `MaxDisturbances` (2 in the passing runs): two allow a failure of the retry, or a
  crash after a failure, or a reference that dangles and is repaired.
* A resync is announced only when the handlers have caught up with the key;
  otherwise notifications pile up that the handlers drop anyway.
* One key: a key's own history is all that the code's decisions about it depend
  on, and the proofs hold for any number of keys. Two workers and one key make
  the race for the key as tight as it gets.
* Workers are a symmetry set in the runs without a liveness property.
* `rollout`: one resource, one worker for each process, and three edits, or two and one new list
  after a broken watch or a crash (`InBudget` bounds them together).
  Users act until the old process has stopped; the new one alone is `Controller` after a
  start. No call fails; failures are covered by the theorems. The view leaves out `event`, `seen`, `lastPut`, which no guard and neither property
  reads; the two configs are a symmetry set.
* `config`: two resources of one name in two namespaces, four configs with every kind of
  item between them, an array among the literals, one start (a config that resolves in one namespace, one that does not
  decode in the other), `MaxEdits` 2 (repair, and one more edit; or break and repair), two
  values and `MaxChanges` 1 (a Secret or ConfigMap changes between two reads, or between two
  syncs), `MaxSyncs` 2 (the second builds from what the first one's status update left).
  More values, changes, starts and syncs are covered by the theorems.
* `MaxSignals` (3; 2 in `shutdown_busy`): one more than the channel holds. `MaxItems` (3 or
  2): each worker has one, or one is left when the queue shuts down.
* Deadlock is not checked: with all edits made and nothing on its way the system
  may stop, and `settle` shows that it does; and a process that has ended is over.

### Fairness

`FairSpec` has weak fairness for what runs by itself: the informer's delivery and
the handlers (goroutines of client-go), the timer of the delaying queue, and each
worker. For a worker this assumes that every call is answered, if only by an
error; the code does not ensure that for Connect, as `http.DefaultClient` has no
timeout. No user, no disturbance and no resync is under fairness, so the
properties do not lean on the resync to repair anything.

In `Lifecycle`, `SchedulerFairness` lets the goroutine of the signal handler and
`wait.Until` run, which nothing blocks but what their guards say. Two more premises
are stated in the properties that need them: `MainRuns` (`main` blocks on the caches
and on `stopCh` only) and `ServerAnswers` (the first list is answered).
`SecondSignalEnds` needs neither, `SignalEnds` not the second. No signal is under
fairness, and no worker's call needs an answer. `QueueDrains` has a premise of its own,
`SomeWorkerGoesOn`: one worker's calls are answered, the others may hang for good.

In `ConfigBuild`, `InformerFairness` is about the informer's one goroutine, which lists
until a list decodes and then reads its watch (client-go's reflector backs off and
tries again for ever). Workers and users are under no fairness.

`settle` leaves the disturbances "store" and "read" out: a config once found
invalid is not tried again when its references appear, so that Connect need not
end as the resource (`RestingMatches` says what remains).

## Findings

1. `delete_error`: a DELETE that fails is logged and forgotten (`controller.go`
   236-240), although "transient errors" are to be put back on the queue (201). In TLC's trace the
   resource is deleted while the indexer still has it; a sync puts the connector from that copy, and the next
   one finds the resource gone, fails to DELETE, and that is all.
2. `missed_delete`: `DeleteFunc` cannot handle `DeletedFinalStateUnknown`
   (121, 344), so a deletion during a broken watch is dropped.
3. `status_stuck`: when Connect already has the config, the status is not touched
   (291-293). An edit that the indexer does not yet have when a worker looks the resource up is enough
   (as is one between lookup and status update): the update is refused as a conflict, the sync of the edited
   version finds no difference, and a running connector is left without `Applied`; no failure is needed. A lost status
   update, or `Pending` after a failed GET, ends the same way.
4. `transient_read`: a failed read of a Secret or ConfigMap counts as a missing key
   (310-317, 322-329); the config is reported `InvalidConfig` and not tried again.
5. `cross_namespace`: Connect is addressed by `name` alone (236, 256, 259, 280);
   equal names in two namespaces overwrite and delete each other's connector.
6. `shutdown_busy`: `Run` does not wait for its workers (151-154), although its comment
   says so (129-130). The process ends between, say, a PUT and the status update;
   the restart in `core` and `status` shows that the next process makes up for it.

Related, without a run of its own: a resource deleted while the operator is down
is never noticed (there is no finalizer): the third way to lose a deletion in
`Deletions` (`LoseByList`). An old process that lags behind and is stopped in a rollout
before it has caught up may be the last to write to Connect, and nobody repairs
that before the resource changes again; the properties of `Rollout` leave out what it had not
done with (`abandoned`). Either process may also lose a deletion to a new list; `RolloutRemoves`
leaves these out too (`missed`), and without that exception TLC finds it violated. The model has the decoding's two oddities: integers beyond
2^53 reach Connect rounded, and a malformed config in one namespace stops the operator
in all of them until it is repaired (`CatchesUp`). And a signal before the caches have synced ends in `klog.Fatalf` (`main.go` 82), as
`WaitForSync` has it, not in the graceful way.

## Proofs

Proved with TLAPS for any sets of namespaces, names, specs and workers, any
`Disturbances` and any bounds, from the assumptions in `Informer`, `Controller`,
`Rollout` (which repeats those of the two, as instances do not bring them along) and
`Lifecycle` and, the last six, for any resources, configs, Secrets and ConfigMaps, from
those in `ConfigItems`, `TypedClient` and `ConfigBuild` (that `Absent` is none of the
values it stands beside, `Canonical` and `Referring` are sets of specs, and so on):

| theorem | says |
|---|---|
| `TypeCorrectness` | `[](TypeOK /\ Holding)`: types, and a worker past Get has a key, past the lookup a resource |
| `Exclusion` | `[]OneWorkerPerKey` |
| `NothingLost` | `[]NoUpdateLost` |
| `PutsInOrder` | `PutsNeverGoBack` |
| `RestMatches` | `OwnNames => []RestingMatches` |
| `RemovalsAreCurrent` | `OwnNames => RemovesOnlyDeleted` |
| `MirrorsImplemented` | `OwnNames => ImplementsMirror`: `Controller` implements `Mirror` |
| `StatusesAreTrue` | `OwnNames`, no lost status update `=> []AppliedIsTrue` |
| `StatusesAreCurrent` | `Canonical = {}`, no lost status update `=> []StatusIsCurrent` |
| `DeletionsRemove` | `OwnNames => []DeletionsEndInRemoval`, of `DelSpec` |
| `RolloutsMatch` | `OwnNames`, no read that fails for a moment `=> []RolloutMatches`, of `RolloutSpec` |
| `RolloutsRemove` | `OwnNames`, no failed DELETE `=> []RolloutRemoves`, of `RolloutSpec`; deletions hidden by a new list (`missed`) are left out by the property |
| `LifeTypes` | `[]LifeTypeOK` |
| `SyncedFirst` | `[]SyncedBeforeWork` |
| `ForcedByTwo` | `[]OneSignalForcesNothing` |
| `BuildTypes` | `[]BuildTypeOK` |
| `ConfigsAreTrue` | `[]BuiltAsWritten` |
| `RefusalsAreJustified` | `[]InvalidHasCause` |
| `StatusesAreAboutConfigs` | `StatusIsAboutConfig` |
| `IndexerIsReadOnly` | `IndexerReadOnly` |
| `CopiesKeepApart` | `[]CopyApart`: but for Refs and the elements of arrays, the copy that is sent shares no memory with the original |

The hypotheses are what the code needs, and the findings are what happens without them:

* `OwnNames`, no two resources share a name: finding 5. Seven of the theorems have it.
* No lost status update (`"status" \notin Disturbances`): the error
  is only logged (`setManagedResourceStatus`), and the sync ends as if the status were there,
  so that `Applied` may stay missing, or an earlier `Applied` outlive the config it was about.
* `Canonical = {}`, Connect echoes no config as it was put: finding 3 without
  any disturbance.
* No failed read of a Secret or ConfigMap: finding 4. In `Rollout` users do not touch
  Secrets and ConfigMaps, so that no config is then invalid, and `RolloutMatches` needs no exception.
  Broken watches and crashes of either process are included in both theorems.
* No failed DELETE: finding 1. What a new list hides, finding 2, is excepted in `RolloutRemoves`
  itself (`missed`). `Deletions` needs no such hypothesis, since it records
  the failure.

The invariants, each inductive together with those above it:

* `Typed`: `TypeOK` alone is not inductive, since `Lookup` and `CallPutConfig` need
  to know that the worker's key is a key and its copy a resource.
* `Exclusive`: that the item handed out is held by nobody needs `QueueSound` (an
  item waits once, and not while it is held) and `Held` (the queue knows what
  each worker holds).
* `Tracked`: an update is followed from the API server to the worker. `Trails`
  says that the last watch event, or else the indexer, has what the server has.
  `Noticed` says that a copy in the indexer which the last lookup did not return
  is in a notification that will be queued, or in the queue, or about to be
  looked up.
* `Ordered`: versions do not decrease from the last PUT through the copies that
  workers hold, the indexer and the watch stream to the API server. A PUT by one
  worker keeps it because `Exclusive` leaves no second copy in another's hands.
* `Settled`: a worker past the lookup works on what was seen last, and its sync
  ends with Connect at that config, with `InvalidConfig`, or with the key put back.
  `RestingMatches` follows with `Tracked`.
* `LifeInv`, for `Lifecycle`: whatever a use was given is the factory's one informer,
  past "sync" that informer has synced, workers exist only past "workers", and the
  signals in the channel and those received from it were all sent.
* `BuildInv`, for `ConfigBuild`: `Faithful` says that a copy in the indexer is named by its
  version and is what the user's document decodes to, the present document if the
  version is the present one; `HeldFaithful` and `HeldAsked` say the same of the copy that the
  worker holds. `SoFarAsWritten` is `BuiltAsWritten` for the items that the loop has come to:
  no item's entry can be spoilt later, since `window` only grows. `Wished` says that the
  server has the configs that users gave: what `SendStatus` puts, whose body has lost every value, must keep it,
  or the next sync would build something else. `HeldItem` is the heart of it: the loop reads an item where the user meant it to be read.
* `Concluded(k)`, in `DeliveryProofs`: the resource's present version is the one looked up
  last, and its key is in no queue, hand or timer, or in the hands of a worker that has only to
  write `Applied`, or to finish. What no sync can disturb any more holds there: `Truthful`
  and `Told` (`StatusProofs`) say of the resources concluded upon that a status of `Applied`
  is about the config that Connect runs, and that an Event of `ConfigApplied` stands
  beside a status of `Applied` or a worker that is about to write it. They rest on `Fresh`:
  no copy that a process has is newer than the API server's, and one of the same version is the same.
* `NoneLeft`, for `Deletions`: a resource that nothing leads to (`Calm`) and whose
  deletion was not lost has no connector and no worker with a copy to make one from.
* `Processes`, for `Rollout`: each process that runs is `Sound` (`Typed`, `Exclusive`,
  `Tracked`, `Fresh`). `Agreed` and `Cleared` are about pairs: when both
  have concluded their syncs of a resource, Connect runs its present config; when
  nothing leads either to a deleted one that is not in `missed`, it has no connector. Neither process keeps these
  by itself. They are kept because a step that concludes a sync has just found Connect at
  the present config or put it there, whatever the other process did before, and because a
  process that is not done makes the premise false.
* `CopyInv`, for `ConfigBuild`: the object that a sync looked up is one allocation
  throughout (`OneAllocation`), and what is sent is `CopyConnector` of it with another status
  (`CopyOfHeld`). `CopyApart` follows, since the copy's allocations are new where `CopyConnector` makes new ones.

`RolloutProofs` uses `DeliveryProofs` twice, `OldP` and `NewP`, with the variables of the old and
of the new process. To either, the other is somebody who writes to the API server and to
Connect while it only watches (`Watches`), so that one set of lemmas about a step
of its own (`ActsConcludes`, `ActsCalms`) and one about a step of the others (`WatchKeeps`)
serves both. The lemmas `SameOldWorker` to `SameAtRest` say that `Old!` and `OldP!`, which are
both instances of `Controller`'s definitions, are the same actions.

The refinement, `MirrorsImplemented`, needs no invariant of its own. A step that changes
neither the specs, the versions, Connect nor the Events is Mirror's `Attend`: every
resource that it leaves at rest is fulfilled or refused, since `RestingMatches` holds
in the next state too. An edit is `Ask`, a PUT that takes effect is `Apply` (`Ordered` puts
the version it applies between the last one and the newest), a DELETE is `Withdraw`, and
a status update or an Event is `Tell`. The key of a worker is being processed, hence due.

The proof of `DeletionsRemove` corrected the model. An earlier `LoseByList` counted only
deleted resources whose connector existed at the list, and `NoneLeft` would not go through:
a worker may look a resource up, lose the watch, and put the connector back after a
list that shows neither the resource nor a reason to come back. TLC finds that only with four edits and
two lists, beyond the bounds of `status`, which is why `Outlives` has the workers' copies, and why the
theorem says more here than the run.

Every invariant that a passing run checks is proved, and every action property. Only
model-checked are the temporal ones: `EventuallyAtRest`, `EventuallyMirrored`, `SignalEnds`,
`SecondSignalEnds`, `EventuallyServes`, `QueueDrains` and `CatchesUp` (liveness under fairness and
ENABLED are beyond the prover). The violations are TLC's alone, as counterexamples are.

## Not modelled

* Verbs of the generated client without a caller (`Get`, `Create`, `Update`, `Delete`,
  `DeleteCollection`, `Patch`), the factory's `ForResource`, `WaitForCacheSync` and options,
  the fakes, and copies of lists.
* The factory of the core informers, which `main` starts and nobody asks for an informer.
* Length of back-offs and `Forget`'s counter: any expiry time is possible.
* Wording of Events and logs; an Event is its reason.
* A PUT or DELETE that takes effect long after its caller gave up: a disturbed call
  takes effect at once or never.
* Changes made in Connect by others. The operator would notice them at the next
  event only, since the resync is filtered.
* HTTP connections, TLS, authentication, deployment, code generation, `handler.go`.

## Plan

1. `Controller` with its components, runs and proofs (done).
2. `Lifecycle` with `InformerFactory`, its runs and proofs (done).
3. `ConfigBuild` with `ConfigItems` and `TypedClient` and its proofs (done).
4. `Mirror`, and `Mirroring` checked and proved (done).
5. `Rollout` and `Deletions`, their runs and proofs (done). `Rollout` with failures of calls, with several
   workers in each process and with broken watches beyond the first is out of TLC's reach and covered by the theorems.
6. What remains: facts on the way to the liveness properties, such as that work which is due
   stays due until a worker has it.
