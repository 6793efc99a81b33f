# Logic Operator in TLA+

Models, model checks and machine-checked proofs of the logic operator: the
Kubernetes controllers and admission webhooks under `api/` and `internal/`, and
the workflow gateway under `workflow-gateway/`.

## The system

The operator runs four controllers in one process. Each has one worker, reads
from an informer cache that lags behind the API server, and writes to the API
server. The workflow gateway is another process with caches of its own.

| part | state it keeps | operations | what makes it hard |
|---|---|---|---|
| LogicFlowDefinition controller | labels and status of definitions, one ConfigMap each | Reconcile: parse, label, check siblings, apply ConfigMap, look up runtime, write status | siblings are found by label in a stale cache; swallowed apply errors; objects recreated under one name |
| definition webhook | none, reads the same cache | ValidateCreate, ValidateUpdate | review and store are two steps |
| LogicFlowRuntime controller | Deployment, Service, ServiceAccount, RoleBinding, Leases, status | Reconcile: list ConfigMaps, apply Deployment, RBAC, leases, Service, status | leases are created after the Deployment and never deleted; some of what it reads is not watched; a step can fail after others were done |
| LogicPlatform controller | data index, Vector and gateway objects, finalizer, status | component Reconcile, UpdateStatus, finalize | cluster-scoped objects with derived names, deletion that must finish, components that fail one by one |
| LogicFlowService controller | HTTPRoute, Route or up to three Ingresses, status | resolve definitions and runtime, apply networking, delete stale objects | nothing but its own object is watched; switching between kinds of networking |
| gateway catalog | routing table | informer events, debounce timer, recompute, Build | events during a recompute, two lists that are not atomic |
| gateway platform watcher | data index endpoint | event handlers, initial sync | handlers race with the initial sync |
| gateway HTTP server, resolver, lease resolver, data index client | instance cache | execute, instance operations, queries, definitions | a request reads cache, lease and table one after the other while each changes |
| webhooks of runtime, platform, service | none | Default, Validate | run on every write, not on what was stored before |
| builders of Kubernetes objects | none | three tiers of container settings, environment, volumes, labels, Services, Ingresses, Routes | settings from user, webhook and builder meet in one object |
| `cli/` | files on disk | deprecated by `cli/DEPRECATED.md` | not modelled |

How the parts interact: a definition's ConfigMap carries the runtime's name as
a label, and the runtime controller mounts whatever is labelled with its name.
The gateway builds its routing table from definitions and services, and finds
the data index in the status of the platform of its namespace. The platform
controller deploys the gateway, and the runtime controller makes the leases by
which the gateway finds pods. All of them meet only in objects of the API
server, each through a cache of its own.

## Modules

| module | models | state and actions against the code |
|---|---|---|
| `Conditions` | `api/v1/status_types.go` | `SetCondition`, `DerivePhase` as operators; a reason is kept only where the code branches on it |
| `FlowDefinition` | definition controller and webhook | `defs`, `cms`, `rts` are the API server's objects, `watch` the stream to the informer, `cache` what controller and webhook read, `queue` the work queue with everything that ends up in it. `Reconcile` is one action per API call: `Begin`, `PatchLabels`, `CheckRuntimeConsistency`, `ApplyConfigMap`, `GetRuntime`, `WriteStatus`, each with its failing form |
| `FlowRuntime` | runtime controller | `rt`, `dep`, `svc`, `sa`, `rb`, `leases`, `cms` are API server objects, `cache` what the informers hold of them, `news` what they have not heard yet. `Reconcile` is one action per API call, from `Begin` (Get and list) to `WriteStatus`; `CallFails` and `Restart` can come between any two |
| `GatewayCatalog` | gateway catalog watcher, table, process start and stop | `th` is one record per goroutine in `doRecompute`, `lock` is `recomputeMu`, `timer` the debounce timer, `events` the notifications not handled yet; `table` the endpoint store. `main` and `ready` follow `cmd/main.go` |
| `Platform` | platform controller and webhook | `plat` and `obj` are API server objects of every platform, each with who it was made for. A component is a list of API calls, `Reconcile` goes through the lists in three phases (components, statuses, `writeStatus`); a call that fails ends its component. The gateway's finalizer, its clean-up and the webhook's look-up of other platforms are steps of their own |
| `FlowService` | service controller and webhook | `svc`, `defs`, `rts` and `net` (main, canary and direct Ingress, Route, HTTPRoute) are API server objects; what a spec leads to is a list of calls, one action each |
| `Workloads` | builders of pods and Services | pure operators: tiers, environment, volumes, probes, labels, for runner, Data Index, Vector and gateway |
| `Manifests` | defaults, field validation, Ingresses and Routes | `obj` is a submitted object on its way through `Admit` or `StoreUnseen`, `Reconcile` and `Upgrade`; `out` is what was applied |
| `PlatformWatcher` | gateway platform watcher and store | `events` are calls of the handlers still to come, `boot` is where `Start` is; handlers and `Start` share `store` |
| `GatewayServer` | gateway HTTP server and everything behind it | extends `PlatformWatcher`; `slot` is one record per request in flight, with one action per read of shared state; `instances` is the instance store, `table` the endpoint store |
| `RequestRouting` | what the gateway promises a client | abstract: a request is decided in one step by what is known then; `GatewayServer` implements it (`KeepsPromise`) |
| `MC*` | instances for TLC | constants, and the specs and services that users put in |
| `FlowDefinitionProofs`, `FlowRuntimeProofs`, `PlatformProofs`, `PlatformStatusProofs`, `FlowServiceProofs`, `GatewayCatalogProofs`, `GatewayServerProofs`, `ManifestsProofs` | theorems about the module they are named after | see Proofs |

What is abstracted everywhere: names, documents and URLs are model values; a
ConfigMap is what it was rendered from; an object that is owned is its owner's
uid. What is inside Deployments and Ingresses is left to `Workloads` and
`Manifests`, where the controllers' steps are left out in turn. Server-side
apply with forced ownership sets owner and fields whoever wrote them before, as
the API server does. A status update with conflict retry
succeeds only if the cached object is the server's.

External parts (users, API server, informers, garbage collector, Deployment
controller) are modelled only as far as the controllers notice them.

## Runs

| run | what it shows |
|---|---|
| `definition_one_runtime` | two versions of a workflow, created, deleted and recreated behind a lagging cache, are never materialised on two runtimes |
| `definition_lifecycle` | one definition, without the webhook: edited, made unparsable, deleted, recreated, two faults or crashes anywhere, a runtime that comes and goes. The controller never sleeps on a difference it does not report (`QuietIsHonest`, `QuietReadyIsCurrent`), never takes a ConfigMap back (`ConfigMapMovesForward`), and in the end each definition is materialised or reports the apply that failed last, and is materialised if the resync comes (`EventuallySettled`); `RuntimeRefValid` tells of the runtime (`RuntimeRefFollowsRuntime`) |
| `definition_name_reused` | violated: when the name of a definition is reused for another workflow, a label patch computed from the deleted object relabels the new one, its siblings do not find it, and two runtimes serve one workflow |
| `catalog_table` | a change and a failing list at any point of startup and of overlapping recomputes: nothing is lost (`QuietTableIsCurrent`) or undone (`TableMovesForward`), a gateway that reports ready routes what was there when it started, unless a list of `Start`'s own recompute failed (`ReadyMeansRouted`), the table follows the cache in the end (`TableConverges`) |
| `runtime_safety` | two changes by users, ConfigMap relabelling or rollout reports at any point of a reconciliation, and a runtime switched between plain and durable with a failing call or a restart: when all is quiet, Deployment, Service and status are what they should be |
| `runtime_liveness` | a durable runtime that loses its Deployment or a lease, or is recreated while the objects of its predecessor are being collected, gets everything in the end, and a deleted one leaves nothing; a ConfigMap that loses its label raises no event, and the resync repairs the Deployment |
| `platform_safety` | a gateway switched off and on, a foreign Service in its way, a failing call or a restart anywhere, two platforms created at once in one namespace: one gateway per namespace (`OneGatewayPerNamespace`, but for the stray patch under Disagreements), no binding without a finalizer that will remove it, and a status that is true when all is quiet |
| `platform_liveness` | whatever changes or fails once, a platform that nobody hinders gets what it asks for (`PlatformSettles`), and a deleted one goes away (`DeletionCompletes`) |
| `platform_binding_leak` | violated: the clean-up looks the ClusterRoleBinding up in a cache that does not have it yet, and it outlives its platform |
| `service` | a service on nginx, OpenShift and the Gateway API, switched between its forms, deleted and recreated, with failing calls: when quiet, requests are shared out as the spec asks and nothing of an earlier spec takes any; it settles |
| `manifests` | over 3000 runtimes, platforms and services through admission, building, a second admission and an upgrade: admission changes nothing the second time, the operator names no variable, nor the main container, twice of its own accord (`ListsHaveNoDuplicates`), every mount, ConfigMap, account, backend and selector of a platform with a Data Index refers to something that is there, image and persistence fit, Ingresses have the certificate that was asked for (`IngressServesCertificateAskedFor`), Vector and the Data Index use one database |
| `routing` | requests in flight while tables, leases, definitions and platforms change and the gateway restarts: each is routed by what was known at one moment of it (`KeepsPromise`, the refinement of `RequestRouting`), whether its id was cached, forgotten or handed out uncached, and queries find the data index of the namespace's platform in the end, whatever the watcher raced with (`QueriesReachTheIndex`) |

### Bounds

- `definition_one_runtime`: two names, two runtimes, three objects ever
  created, the informer at most two changes behind when users act. A conflict
  takes two objects, and a third one lets a name be used twice. The theorem
  below has no such bounds.
- `definition_lifecycle`: one name (siblings do not matter here), two objects
  ever, two generations each, the informer at most one change behind when users
  act, two faults: one failed apply is repaired by the event of the status write
  that reports it, a second in a row is not.
- `catalog_table`: two timer goroutines beside the one of `Start`, one change,
  one failing list. Two goroutines are enough for an older list to meet a newer
  one; the theorems hold for any number of goroutines, objects and changes.
- `runtime_*`, `platform_*`, `service`, `routing`: a behaviour belongs to one of
  several scenarios (`Scenarios` in the MC modules), each of which lets some
  things happen and others not, so that every combination that shares state is
  there and the product of independent ones is not.
- `runtime_*`: one ConfigMap (the reconciliation treats each alike) and one
  replica, one or two changes and at most one fault. A lease of a higher index
  differs from the first only in being created after it, and a failing call
  between two leases ends like one between two other calls.
- `platform_*`: one platform with two changes, or with a change and a fault; two
  platforms in one namespace. `Platform` is parameterised by how cluster-scoped
  names are derived; the runs give every platform its own.
- `service`: two definitions of one workflow on one runtime, two changes or a
  change and a fault; splits of one, two and three entries.
- `manifests`: every combination of a handful of values for each group of
  settings that meet in one builder (image, persistence, tiers of environment
  and volumes, user mounts, security with two API keys of one name, TLS,
  exposure), two releases. The theorems have none of these bounds.
- `routing`: an execution beside an instance operation, with three changes of
  table and lease; a query with two changes of platforms in two namespaces;
  single requests for definitions; one restart.

Deadlock checking is off where the system really may rest: gateway and runtime
come to a stop when nothing changes or the process has ended, and so do
platform and service. The definition runs and `routing` check it.

### Fairness

Weak fairness stands for: informers deliver what happened, handlers and
goroutines that can go on do, the garbage collector gets round to every object,
and the informers' resync (ten hours by default in controller-runtime) comes
again and again. In the definition model the resync is not part of the
fairness: without it a definition is only promised to be materialised or to
report its failed apply, and `EventuallySettled` names the resync where it
promises more.
`Lock` of the catalog is strongly fair because Go's mutexes do not starve a
waiter; `Begin` of a definition is strongly fair because the work queue is
first in, first out. The debounce timer expires: this assumes pauses of half a
second in the stream of events, without which the code does not recompute.
In `GatewayServer` the handlers of queries go on because the data index client
has a timeout of ten seconds; proxied executions have none and are not assumed
to end. Users, faults, crashes, the readiness timeout and signals are never
forced.

## Proofs

For every value of the constants, that is for any number of definitions,
ConfigMaps, platforms, versions, goroutines and requests in flight, any object
that users submit to `Manifests`, and any bound on changes and faults. A type
theorem comes first in each module, because the other arguments rest on it; none is about types alone, since the invariant
has to say what the worker holds between two calls.

**LogicFlowDefinition** (`FlowDefinitionProofs`)

- `TypeCorrect`: in particular the worker never goes on with an object that does
  not exist.
- `OneRuntimePerWorkflow`: with the webhook registered and names not reused for
  another workflow (`OneDocPerName`), versions of one workflow are never
  materialised on two runtimes. `SingleRuntime` alone is not inductive: a lookup
  in the cache proves something only if every definition that owns a ConfigMap
  is in the cache with its labels. The invariant `RuntimeInv` says so
  (`OwnedInv`), follows the labels from the server through the watch stream into
  the cache (`LabelsStick`), ties every version of an object to the runtime that
  the webhook does not let change (`VersionsInv`), and states what the worker
  knows between lookup and apply (`WorkerInv`). That controller and informer
  cache are one process, and that the code waits for its own label patch to
  come back through the cache before it looks siblings up, is what makes the
  proof work. `definition_name_reused` shows that the assumption is needed.
- `ConfigMapNeverGoesBack`: no apply takes a ConfigMap to an older generation of
  the object it belongs to. `ForwardInv`: versions of a definition are in the
  server's order along the watch stream, and cache, ConfigMap and the worker's
  object are each no newer than everything still to come (`Behind`).
- `SleepsHonestly`, `ReadyIsCurrent`: with nothing left to do the controller has
  either made what the spec asks for or reported that it has not, and what it
  calls ready is this generation's. `HonestInv` has for every definition that it
  is queued or announced in the stream (`Pending`), or that the worker has it
  and is going to ask for a retry or to write the truth (`WorkerHonest`), or that
  its status is true. Every step that could make a status untrue announces
  itself, and the worker rests only after it has seen what is cached.

**LogicFlowRuntime** (`FlowRuntimeProofs`)

- `RuntimeTypeCorrect`: with `SpecInv`, that every spec in use is one of the
  scenario's.
- `DeploymentFollows`, `StatusFollows`: as long as no ConfigMap loses its label
  (`KeepsLabels`), Deployment, Service and status of a runtime at rest are what
  spec and ConfigMaps ask for. `RuntimeInv` goes along the reconciliation: what
  is not announced is cached (`Synced`), the worker's copy is the cache's unless
  another reconciliation is due (`WorkerInv`), so what it applied is what the
  cache asks for (`AppliedInv`) and what it reports is true (`ReportedInv`).
  Without the hypothesis both are false: the predicate of the watch sees only the
  new labels, the ConfigMap that loses its label raises no event, and nothing
  happens until the resync (`runtime_liveness` has such a scenario).

**LogicPlatform** (`PlatformProofs`, `PlatformStatusProofs`)

- `PlatformTypeCorrect`: in particular the worker's list of calls is always one
  that its component can have, cut off somewhere.
- `OneGateway`: at most one platform of a namespace has the gateway's finalizer,
  unless a finalizer patch met a platform recreated under the name of the one
  that was read (`stray`, a history variable). Only those with the finalizer get
  a gateway. `GatewayInv` explains why a webhook that reads a lagging cache is
  enough: the platform that is about to be patched is in the cache if it is still
  the one on the server (`ReadInv`), so every platform that has the finalizer is
  (`SeenInv`), and the webhook that is asked about the next one sees it. It needs
  that uids of platforms still to come are new (`UidInv`) and that only a
  platform that is there has a finalizer (`FinalizerInv`).
- `PlatformStatusIsCurrent`, `BindingIsGuarded`: when all is quiet, the status of
  a platform is that of its objects, and its gateway's binding has a finalizer
  that removes it. Neither is inductive, because a reconciliation that is cut
  short leaves both false and relies on the next one. `StatusInv` follows a
  platform that no event is going to wake (`Woken`): what is not announced is
  cached (`CachedInv`), a platform marked for deletion has the finalizer
  (`MarkedInv`), the worker has made what the components behind it need, and
  what the gateway still needs is among the calls left, or one of them changes
  the platform and so wakes it (`WorkInv`, `GatewayRest`); at rest everything is
  there, the status says so, and a binding has its finalizer (`RestInv`). Until
  then a binding without one has its deletion among the calls left.

**LogicFlowService** (`FlowServiceProofs`)

- `ServiceTypeCorrect`: the lists of calls and the targets with their weights;
  for two targets the canary's is the one that is not the primary
  (`PrimaryIs`, `SplitType`), for more there is none.
- `ServiceStatusIsCurrent`: when all is quiet the status tells of this
  generation, of a URL and an object that are there, and of the runtime as it
  was read. `ServiceInv`: whatever the outcome refers to is made by its list of
  calls (`NetworkingOK`), so that during a reconciliation it is there, is still to
  be made, or its loss is about to wake the controller (`MadeInv`); Routes are
  made on OpenShift only and main Ingresses elsewhere (`FitInv`); and a status
  that was accepted while nothing changed was computed from what is cached.
- `RoutesAsAsked`: when all is quiet and the service says that it is ready, the
  requests are shared out as its spec asks and nothing of an earlier spec takes
  any. The hypothesis `StoredAddUp` is about splits that were stored before the
  webhook served: they add up to 100, as the webhook demands of later ones.
  `QuietRoutesAsAsked` speaks only of a service at rest, so `RoutesInv` has to
  account for the way there: uids of services still to come are new, and nothing
  is left of one that is gone (`UidInv`); whoever knows a service knows whether it
  has a gateway, which the webhook does not let change, and only then are
  HTTPRoutes made for it (`FormInv`); the worker's calls are those of the spec and
  the definitions it read (`ReadInv`); and each call has still to be made, or its
  effect is there, or the service is going to be reconciled again (`DoneInv`). At
  rest every call has had its effect (`Routed`), the deletion of other forms of
  networking included, and a lemma for each form adds up what is there:
  `SplitShares` compares the shares that two Ingresses leave to two versions with
  those that were asked for.

**Workflow gateway** (`GatewayCatalogProofs`, `GatewayServerProofs`)

- `CatalogTypeCorrect`: in particular no route of the table leads to an empty or
  refused URL, whatever the order of the lists.
- `NoChangeLost`: the table is what the cache says when no recompute is on its
  way. Inductive invariant: the lock is held by whoever is past it (`Mutex`),
  startup registers handlers before it lists (`BootOrder`), and unless an event,
  a timer or a waiting goroutine is there, the lists of whoever holds the lock
  are current (`ListsAreCurrent`).
- `TableNeverGoesBack`: the lists of whoever holds the lock are at least as new
  as the table (`ListedLater`).
- `ReadyOnlyWhenRouted`: as long as the cache has not changed since, a gateway
  that reports ready routes what was cached when it started, or a list of
  `Start`'s own recompute failed and its table is still the empty one. Once a
  table is stored it stays one of what is cached, whichever lists of other
  goroutines fail (`ReadyInv`).
- `ServerTypeCorrect`: in particular the stored endpoint of the data index is that
  of a platform of the gateway's namespace.
- `ServerKeepsPromise`: `GatewayServer` implements `RequestRouting`. One lemma per
  handler maps its steps to a decision, to what the gateway learns, or to a
  stutter. A pod is found by two reads, of the instance cache and of the lease;
  the first still holds at the second because an entry is written once, for an
  id that was never handed out before.

**Builders and admission** (`ManifestsProofs`)

The theorems are about every object of the shapes in `api/v1`, with lists of any
length in all three tiers. `ManifestInv` ties the four steps together: what is
stored has such a shape; once admitted it is valid, and defaulting by *any*
release leaves it alone (the property has only the release that runs, which
the next upgrade changes); and what was applied is what its defaulted copy
renders to. It rests on defaulting twice, by two releases, being defaulting once.
From there the argument follows the code: containers out of their three tiers,
workloads out of containers (`RunnerPods`, `PlatformPods`: what builders add and
what they leave alone), and what is rendered for each kind of object.

- `ManifestTypes`: each container that is applied has an image and a liveness probe.
- `AdmissionStays`: what was admitted is neither changed nor refused later.
- `SelectorsFind`: the operator's labels win over the owner's.
- `ImagesFit`, `RunnersFollow`: the runner's image suits the persistence, whether
  named or filled in, and is the running release's if nobody named one.
- `FrontsLead`, `CertificatesAsAsked`: Ingresses and Routes lead to Services that
  are there (the Data Index's Ingress is left out, see below). Ingresses name the
  Secret that the user brought, or one that cert-manager is asked to fill, by the
  issuer that the spec names and under the annotation for its kind; for an
  Ingress with cert-manager annotations of the user's own this is not claimed,
  and for Routes it is false, see below.
- `ReferencesAreThere`: mounts, volumes, ConfigMaps and accounts that are named in
  a pod are there, unless it is the user who named them.
- `NoDuplicates`: each list of variables is a concatenation of lists whose names
  are known and apart (`Built`), behind the user's; a name can be there twice
  only if the user's lists have it (`Distinct`), and the filters take the names
  that the operator keeps out of these. The names of API keys are the other
  exception, see below.
- `OneDatabase`: Vector's address, port, database and credentials are the parts of
  the Data Index's JDBC URL.

What a filter leaves of a list is a recursive function (`Keep`). That it exists
and what it has at each position is proved by the least position at which it
would not be so (`Upwards`), which needs no induction over an operator.

Assumptions are those of the constants, named in the modules that declare them
(`EventNames` of `Platform`: an event of an object is not taken for a platform;
`ManifestConstants`: objects have the shapes of `api/v1`, no user has an image of
a release yet to come, and a field that is not set is told from what
the operator fills in), and three hypotheses (`OneDocPerName`, `KeepsLabels`,
`StoredAddUp`).

Every invariant that a run checks is proved. Only model-checked are the liveness
properties, because fairness and ENABLED are out of the prover's reach.

## Disagreements met while modelling

Two are runs with a violated property (`findings` in `PROJECT.json`). The
others follow from reading the same code, and the modules do what the code does.

Definitions and runtimes:

- A failed apply of a definition's ConfigMap is recorded in a condition and not
  returned (`logicflowdefinition_controller.go:83-89`). The status write raises an
  event and so another attempt; a second failure in a row changes no status, and
  only the resync tries again. `adr/implementation/controller-reconciliation-pattern.md:452`
  says of a transient error "Return error (automatic backoff)". `EventuallySettled`
  would fail if it left out `Reported` and did not name the resync.
- The ConfigMap of a definition is applied whether or not its runtime exists;
  `adr/implementation/logicflowdefinition-controller.md:14` says the runtime is
  validated first.
- Leases are created after the Deployment was scaled up, and never deleted on
  scale-down; `docs/antora/modules/ROOT/pages/concepts/durable-workflows.adoc:163-164`
  says the opposite of both.
- Leases are owned by the Deployment, so that deleting only the Deployment
  collects the leases of a living runtime; `logicflowruntime_controller.go:212`
  says they go with the runtime.
- `durableDeploymentStrategy` sets `maxSurge: 1`; `durable-workflows.adoc:128` says 0.
- A runtime that stops being durable keeps its last `LeaseReady` condition.
- The Deployment's conditions are folded in list order, so an `Available`
  condition behind a missed progress deadline hides it and the phase is Pending.

Platforms:

- The finalizer patch names its platform and no version of it. If the platform is
  deleted and created again between the read and the patch, the finalizer goes
  onto the new one, which the cache of the webhook need not have; the webhook can
  then let a second platform of the namespace have a gateway, against
  `logicplatform_types.go:250` ("Only one LogicPlatform should exist per
  namespace"). `OneGatewayPerNamespace` leaves this out (`stray`).
- Finalizer patches pass the webhook's check for a single platform: two
  platforms that got into one namespace block each other's finalizers, and so
  their deletion. The patches carry no resource version.
- The answer to the finalizer patch is decoded over the platform in memory
  (`platform_gateway.go:54`), where a field that the answer omits keeps its old
  value. A gateway that was removed from the spec after the cached read is
  therefore still there for the rest of the reconciliation: its Deployment,
  Service and Ingress are made, and a status of the old spec is written under the
  new generation. The event of the edit raises the reconciliation that removes
  them again (`platform_safety`, `platform_liveness`).
- The ClusterRoleBinding of Vector is `<name>-vector`, without the namespace: two
  platforms of one name share it, and each one without Vector deletes it
  (`adr/implementation/logicplatform-vector-implementation.md:933`). The
  gateway's name contains the namespace, but joined by a dash and cut at 63
  characters, so that two of them can be equal.
- The Data Index's objects stay when it is disabled. Its database and Secret are
  not watched.

Builders and admission:

- The Ingress of the Data Index names the platform as its backend
  (`logicplatform_objects.go:207`); the Service is `<name>-data-index`, as the
  Route says. `FrontsLeadSomewhere` leaves this Ingress out.
- Routes do not get the user's certificate. The gateway's has the *name* of the
  Secret where the PEM text belongs (`workflow_gateway_builders.go:162-164`), the
  Data Index's leaves the Secret out (`logicplatform_objects.go:283-284`, a TODO),
  and both leave the issuer out; `api/v1/ingress_types.go:21` says that `TLSSpec`
  is for "Ingress and Route resources". `IngressServesCertificateAskedFor` is
  about Ingresses only.
- `application_objects.go:56` says a tier overrides the previous one; command,
  arguments, environment and mounts are appended, and a name that is in two
  tiers makes the apply fail.
- The webhook asks for persistence only if the Data Index is enabled; Vector
  without both mounts a configuration volume that is not there.
- `logicflowruntime_types.go:188` calls the name of an API key a unique identifier.
  Neither the schema nor `ValidateSecuritySpec` makes it one, and with two keys of
  one name the runner has variables twice. `ListsHaveNoDuplicates` excepts them.
- Image checks see the top-level image and not those of the other tiers, and
  refuse registries with a port and digests.
- `logicflowruntime_webhook.go:18` says replicas of the Data Index stay unset;
  `logicplatform_webhook.go:98` sets them. Default images of Data Index and
  gateway are written into the stored object and survive an upgrade.
- Without a namespace in `serviceRef` the name is a host for runner and Data
  Index (`persistence_types.go:159`), while Vector and the operator's own
  connection check append the platform's namespace.
- `podtemplate_types.go:434` says a PodDisruptionBudget is created; nothing does.
- Labels of `podTemplate.metadata` can replace the label that the selectors use.

Services:

- Definitions and runtimes are not watched: a version label or readiness that
  changes later reaches routes and status with the resync. Without the Gateway
  API a service with a `gatewayRef` fails before it writes the condition that
  would say so. A split that is refused leaves the objects of the spec before.

Gateway:

- `Start` closes `initialSync` after its recompute also if one of its lists failed
  (`catalog/watcher.go:58-59`), and the gateway then reports ready with an empty
  table until an event or the resync. `watcher.go:64-66`, `cmd/main.go:164-167` and
  `workflow-gateway.adoc:103-105` say that the table is populated by then.
  `ReadyMeansRouted` has this as its only exception (`startFailed`).
- A runner's 202 that names an instance but no `workflowApplicationId` goes to the
  client with the instance's id, and nothing is cached (`server.go:277-290`); the
  comment at `server.go:261` has both in every answer. Operations on the instance
  go to the service (`AcceptedUncached`).
- `endpoint_store.go:30` says all versions of a workflow have one upstream URL. A
  version that no service refers to gets its runtime's, and a request without
  version, and every instance operation, may get either.
- `executeAsyncHandler` caches a pod's name, `InstanceStore` speaks of
  `namespace/leaseName`, and `PodFor` looks for a lease of that name: with what
  the comments say the runners answer, no lease is found and every operation
  goes to the service. `GatewayServer` has runners that answer either.
- `DeleteFunc` of the platform watcher clears the endpoint whichever platform is
  deleted; `watcher.go:61` says only the own namespace counts. The next update or
  resync brings it back.
- If the platform is deleted between the list and the store of `doSync`, and its
  deletion is handled in between, the gateway keeps the dead endpoint: a resync
  does not mention what is gone. `QueriesReachTheIndex` therefore speaks of a
  platform that stays.
- A definition found in the cache is read again by name: the document returned
  can have another version than the one asked for.

## Not modelled

`cli/` (deprecated; files and containers on a developer's machine, nothing that
runs beside the operator), `cmd/main.go`'s flags and wiring, `utils/` (cluster
detection), generated code. In the models: a watch that is interrupted and
misses an object deleted and created again; leases being acquired and renewed by
pods; two replicas of the operator without leader election; bodies, paths and
headers that the gateway passes on; quantities, timings and scheduling fields
that builders copy; whether a URL resolves (a pod's bare name does not); whether
the API server takes what it is sent for an apply (the Route objects are built
without kind and version); `buildJdbcURL` of a spec whose service is nil, which
the schema requires.

## Plan

1. A liveness run with two definitions in conflict, which only the resync ends.
2. A runtime of two replicas that is scaled down and up, for the leases.
