# Verification of the Synapse operator

TLA+ models, TLC runs and TLAPS proofs kept beside the operator's code. Every
definition is translated from the Go source; `PROJECT.json` maps definitions to
lines, properties to runs, and hazards to the properties that would catch them.

## The system

One binary that runs next to, or in front of, Synapse proxies on Kubernetes.
Its modes are controller-runtime controllers and Runnables that share one
process: a reconcile worker per controller, start-up *primers*, timers, and
informers that move on their own.

| Component | State | Operations | Hard part |
|---|---|---|---|
| SIGHUP debouncer, `signal.go` | `last`, `pending`, armed timers | `Signal`, `trigger`, the `AfterFunc` callback, scan, kill | decisions under a mutex, effects after it; late timers; a proxy that restarts |
| config-sync sidecar, `configsync_controller.go`, `writeIfChanged` | the volume, `<key>.tmp`, `ready` | `--sync-once` (SyncAll, EnsureFiles), primer, Reconcile | two goroutines on one tmp name; partial failure; kill between write and signal |
| config-hash controller, `configmap_controller.go` | annotations on pod templates | Reconcile: list sources, list workloads of each kind, patch | five informers that lag independently; patches seen late by the pass that compares |
| status leadership, `leader.go`, `publishStatus`, `ensureCond`, `acceptRoute` | the Lease, `LeaderGate`, status of shared objects | the election callbacks, status writes of each render | the gate is not a fence; conflicts are not retried; renders are not tied to terms |
| identity and edge producers, `identity_producer.go`, `edge_producer.go` | `index`, `seq`, `lastVersion`, `dirty`, `debounce` | baseline upload, delta flush | requests between a List and the assignments after it; lost answers; ticks against flushes |
| certificate projection, `certs.go` | `<stem>.key`, `<stem>.crt` in an owned directory | projectCerts, pruneCerts, then the upstreams write | in-place pairs; primer beside worker; filtered watch |
| route rendering, `routes.go`, `gateway.go`, `endpoints.go`, `ingress_controller.go` | the render model: routes, passthrough hosts, certificates, ACME backend | addRoute, addRegexRoute, addPassthroughHost, addCert; v1 and v2 output | first writer wins over sorted sources; one passthrough host switches the schema of the whole file |
| resolvers, `netvars_resolver.go`, `upstreams_resolver.go` | annotations and output ConfigMaps | Reconcile, fan-out of Service events | telling a user's value from the operator's own; sources the fan-out misses |
| central mode, `certs.go`, `ingress_controller.go` | output ConfigMap and Secret | projectCertsToSecret, writeConfigMapIfChanged | whole objects written from cached copies by several controllers |
| policy edges and classification, `edge_producer.go`, `classify.go` | none (pure functions of lists) | computeEdgeLines, internetExposedRefs | per-Pod policies told as per-workload lines |
| metrics, flags | none that a decision reads back | | |

They interact through files (config-sync and render write what the proxy
reads), through the signaler (both call `Signal` after a write), through API
objects (status writes of a render are watch events for every replica; the
netvars resolver edits a ConfigMap that config-hash hashes and config-sync
projects), and through `LeaderGate`.

## Modules

| Module | Models | Extends / uses |
|---|---|---|
| `ReloadGoal` | what the reload path promises: an out-of-date process re-reads the file | |
| `ReloadDebouncer` | `signal.go` | `INSTANCE ReloadGoal` (same variables) |
| `ReloadDebouncerProofs` | debouncing and the refinement of `ReloadGoal` | `ReloadDebouncer`, TLAPS |
| `ConfigSync`, `MCConfigSync` | the config-sync sidecar; its signal is the promise of `ReloadGoal` | |
| `ConfigSyncProofs` | files, the floor, atomic renames and signals | `ConfigSync`, TLAPS |
| `ConfigHash`, `MCConfigHash` | the config-hash controller | |
| `ConfigHashProofs` | rolls and stamps | `ConfigHash`, TLAPS |
| `StatusLeader`, `MCStatusLeader` | leadership and every shared-status write | |
| `StatusLeaderProofs` | the election and the publication of status | `StatusLeader`, TLAPS |
| `DeltaProducer`, `MCDeltaProducer` | both producers (`kind`), with restarts | |
| `CertProjection`, `MCCertProjection` | certificates and the upstreams write | |
| `CertProjectionProofs` | pairs, order and convergence of the directory | `CertProjection`, TLAPS |
| `RouteTable` | the render model and its methods | |
| `Backends` | Services, EndpointSlices and Gateway backends | |
| `UpstreamsFile` | annotations, `routeCfg`, the two schemas | `RouteTable`, `Backends` |
| `Render`, `MCRender` | one render: claims of sorted objects, then the file | `UpstreamsFile` |
| `RenderProofs` | the methods of the model, the claims of a cluster, the file they end in, two renders compared | `Render`, TLAPS |
| `NetVars` | HOME_NET: discovery, pin, adoption, override | |
| `ServerResolution` | server entries to ClusterIPs | |
| `KeyOwners` | what the writers of one ConfigMap promise each other | |
| `ApiWriters`, `MCApiWriters` | central mode with both resolvers and a user | `NetVars`, `ServerResolution`; `INSTANCE KeyOwners WITH` |
| `ApiWritersProofs` | HOME_NET, convergence, and the refinement of `KeyOwners` | `ApiWriters`, TLAPS |
| `Workloads` | the workload of a Pod, label selectors | |
| `PolicyEdges` | the lines compiled from NetworkPolicies | `Workloads` |
| `Exposure` | internet exposure of workloads | `Workloads` |
| `ClusterFacts`, `MCClusterFacts` | both against what Kubernetes does with the same objects | `PolicyEdges`, `Exposure` |
| `ProducerProofs` | lost changes, skipped uploads, the base of deltas; what the lines and the exposure flag say | `DeltaProducer`, `ClusterFacts`, TLAPS |

Conventions. A step is what runs without another goroutine, process or watch
event being able to matter: a critical section, a system call, an API or HTTP
request, or a List of one informer. API server and informer are two variables
(`obj`/`cache`, `secret`/`csecret`, `pods`/`cache`) with a `Deliver` action
between them that also does what the watch predicate and handler do. `queue` is
the work queue: a request in it is deduplicated, and an error puts it back.
Variables marked *history* are not in the code; they name the exemptions that a
property grants, so that each exemption is visible. Definitions marked `Faulty`
are plausible bugs, used by no behaviour: each replaces the definition after it
when a property is tested for being able to fail. Bounds on the environment are
`MaxEdits`, `MaxFaults`, `MaxCrashes`, `MaxTicks`, `MaxTerms`, `MaxUpsets` and
`MaxVersion`, all in guards.

### ReloadDebouncer

`trigger` is `LeadingFire`, `Collapse` or `Defer`, one critical section each;
`Arm` is `AfterFunc`, after `Unlock`; `TimerFire` the callback; `Scan` and
`Kill` are `doReload`. Time is relative: `age` is `now - last`, capped at the
window because `trigger` asks no more, so time needs no bound. `Start`, `Exit`
and `Handle` are the proxy. Kills that the kernel denies (uid, AppArmor) are not
modelled; the code's comment calls that degraded.

### ConfigSync

Threads `init`, `primer` and `worker` run `syncOne`; each system call of
`writeIfChanged` is a step, and `at` follows the inode a writer has open, since
a rename by the other goroutine makes its descriptor point at the visible file.
The keys a thread has left are a set, and `First` takes the one that comes first
in the sorted list, as the code's loop does.
`Abort` is every error return: Reconcile retries without a signal, the primer
gives up, sync-once goes on to the floor. Three violated properties are about
primer and worker side by side: `NoTornFile` (they share `<key>.tmp`),
`EveryWriteSignalled` (the primer changes a file and asks for no signal) and
`HandledIsOnDisk` (the primer puts back what it had read before an edit).
`AtomicUnlessRaced`, `SignalFollowsChange` and `EditsReachDisk` are what holds
without these: the first exempts keys that two threads raced for, the second
what the primer wrote or a failed pass left (`silent`), and the third speaks of
edits made once the primer is done.

### ConfigHash

A pass takes a request, lists ConfigMaps, Secrets, then per kind lists and
patches. Hashes are the function from sources to hashed data, so that two hashes
are equal exactly when the hashed data are. Ignored keys and hot-reloadable IDS
fields are `soft`. `perWorkload` is chosen in `Init`. `StampCurrent` exempts
workloads that changed without an event (`quiet`) and those that a pass skipped
because the annotation it had cached was the one it wanted (`skipped`);
`ContentIsStamped` does not exempt the latter and is violated.

### StatusLeader

The elector (external, client-go) gives up renewal before the lease expires and
only then calls `OnStoppedLeading`; `OnStartedLeading` is a goroutine of its
own. Nothing in the code orders it before the same term's `OnStoppedLeading`.
`PromptStart` assumes it is scheduled within `RenewDeadline` (10 s); the run and
`GatesAreExclusive` take it, and no other theorem does. Without it (`PromptStart = FALSE`) TLC violates
`GatesFollowTerms` in four steps: acquire, give up, stop, and the late goroutine
opens the gate of a replica that no longer leads, until its next term ends. A
process frozen for 10 s could get there; no ordinary schedule does. Renders
of each replica list, ask the gate at the points the code does, and Update with
a copy that may be out of date. The primer's render stands behind the initially
queued rebuild. Opening the gate queues no render, so `RebuildPublishes` starts
from a request that meets an open gate (`asked`); `NewLeaderPublishes`, which
starts from the gate, is violated.

### DeltaProducer

One goroutine; `Start`/`Tick` are `buildAndUpload` up to its request,
`Upload`/`UploadFails` the rest, `Flush`, `Post`/`PostFails` likewise. A failed
request may have taken effect. `view` is a follower that started from the first
baseline and missed nothing. `Restart` kills the operator: index, seq, channel
and timer are gone, and the new process has another epoch. The follower pulls
the baseline when the first delta of an epoch it does not follow comes (`Held`);
until then it keeps the old table, which is how the code has it. Labels are a
set of keys with their values. `equalTo` is the code's comparison of two rows:
it looks the keys of the old row up in the new one without asking whether they
are there, so a label with an empty value is equal to any other label that takes
its place. `Diff`, what a delta
carries, is by `equalTo`; `Differing`, by which properties compare, is exact.
`NoLostChange` lets what was emitted differ from the cluster in rows that
`equalTo` confuses (`LostEmptyLabel`) and in nothing else;
`RealChangesDetected`, without this, is violated. In `IndexIsEmitted` such a row
is drift when it enters the index along with others that were sent. Exposure
flags, which only enter the baseline, and List errors, after which the code
does nothing, are left out. Two things follow from how agents are served and
are not faults of the loop: an operator that restarts on a cluster that stays
as it is sends no delta, so agents keep following the old epoch; and an agent
that re-pulls after a gap may get a baseline older than the delta it lost.

### CertProjection

`Begin` lists, `Get` reads one Secret, `WriteKey` and `WriteCrt` write in place,
`ReadDir`/`RemoveFile` prune, `WriteUpstreams` ends the render. Stems and files
left are sets; `First` is the order of the sorted stems, `FirstFile` that of
`os.ReadDir`. `os.WriteFile` truncates and then writes: a write that fails
(`Fail`) or that a kill meets (`Restart`) may leave the file `Partial`, which is
no version, and which a later render finds different and writes again. What the
other goroutine, or the proxy, may see of a file *during* a write that succeeds
is not modelled; the code leaves that to the proxy's watcher
(`certs.go:228-233`). The upstreams write is atomic here; its tmp file is in
`ConfigSync`. `CertsConverge` exempts stems whose Secret changed without an
event (`quiet`), among them Secrets that are projected though their type is not
`kubernetes.io/tls`; `RotationConverges` does not and is violated. Both, and
`KeyBesideCrt`, exempt renders that overlapped (`raced`) until the next clean
one.

### RouteTable, Backends, UpstreamsFile, Render

A render is a sequence of *claims* on an empty model, one action per claim:
`Begin` lists in any order and sorts what the code sorts, `Claim` is one call
of a method of the model, `Emit` writes the file and the certificates. Paths
are a name and a number of trailing slashes, host names and stems sequences of
labels, so that `sanitizeStem` and `<ns>-<secret>` collide where they do in the
code. `MaxUint` stands for 2^64-1 in the two parsers that can overflow. All
cache reads of one render are one snapshot. `ClustersAssumption` says what is
assumed of a cluster (`WellFormed`): lists are lists, objects of a kind are told
apart by namespace and name (`id`), and a namespace or the name in a
certificateRef is not empty, which the API server sees to; so does it to the
addresses of an endpoint being different (`SliceFormed`). That a usable pod has
one address of a family, whichever slice lists it (`OneAddress`), is how
Kubernetes addresses pods. `ById` and `ByAddress` are described by their results:
the listing in the order of `id`, which is unique because `id`s are, and each
server in the place that the number of servers before it gives it. Things a
reader may stumble on:

- Gateways are the only objects that are not sorted. Two that list different
  Secrets for one host swap its certificate from render to render, though
  `addCert` says "so output is deterministic"; `OutputIsStable` exempts exactly
  these (`GatewaysCompete`).
- A regular expression from a Gateway (`^/a`) and the same one from an Ingress
  (`/a`) have different keys and the same `match_expr`.
- One ACME solver serves the whole file.
- `CertOfHost` exempts colliding stems (`Collides`), `ServersServe` an endpoint
  that two slices of one family list.
- A wildcard host is never bound to a certificate, though one is projected for
  it: its stem is that of the Secret, and the proxy matches it by the names in
  the certificate. An earlier form of `CertOfHost` overlooked this; its proof
  failed there, and the run now has Ingresses with a wildcard rule.

### NetVars, ServerResolution, KeyOwners, ApiWriters

The central layout: the ingress controller (worker and primer) writes the
certificates Secret and then `upstreams.yaml` of a ConfigMap; the netvars
resolver edits `config.yaml` of it, the upstreams resolver writes a resolved
copy to another ConfigMap, and the user edits everything. Every writer decides
on a cached copy and writes the whole object with the cached resource version:
`lag` says that the copy is old, and `outcome` turns a write on an old copy
into a conflict. The render is one value, a *world*. `Written` are the values of
HOME_NET that humans write, `Homes` these and whatever the resolver derives from
nodes and Services of any time. `KeyOwners` is the promise
that each part of the ConfigMap has one owner; `OneOwnerPerKey` shows that
`ApiWriters` implements it, the parts being the refinement mapping; its owner of
HOME_NET is the one that the marker names, as in the code. What the properties
exempt is visible as history:

- `missed`: a write left out because the stale copy already had the value. A
  render that goes from one file to another and back inside the informer's lag
  leaves the middle one published, though the code calls the loop
  "self-healing" (`ingress_controller.go:188`), until the next event.
- `raced`: primer and worker overlap with different worlds.
- `unseen`: a source labelled `"1"`, which the Service fan-out does not list;
  `EveryLabelledSourceFollows`, which does not exempt it, is violated.
- `tampered`: the user changed the rendered key.

Two more violated properties are what the comments of `netvars_resolver.go`
say of a user's values: `LaterPinKept` (a pin written into a config that is
marked as managed is taken for the operator's own value) and
`ExternalOverrideKept` (`EXTERNAL_NET` is derived in every write, though the
comment says "unless also overridden"). The passing properties do not ask for
either: `HomeIsInternal` speaks of `EXTERNAL_NET` only where HOME_NET is derived
too, and `KeyOwners.Respect`, which records a pin, leaves it open.

Other behaviour of the resolvers that the model has and a user may not expect:
removing the override annotation leaves its value frozen as manual; a source
that switches to schema v2 is no longer resolved; renaming an output leaves the
old one behind; servers written as maps (with weights) are not resolved.

### Workloads, PolicyEdges, Exposure, ClusterFacts

Pure functions, so the state is just the cluster, and edits walk through it.
`PolicyEdges` follows `computeEdgeLines`; `ClusterFacts` states NetworkPolicy
as Kubernetes applies it to two Pods and a port, and an agent that judges the
same flow by lines, and compares. Names are sequences of their parts between
dashes; labels are a set of keys with their values, and a selector is the set of
labels it asks for, which stands for match expressions too; invalid selectors,
which the API server refuses, are left out.
The assumptions are more of what it refuses: Pods of namespaces that do not
exist (`NamespaceAssumption`), port 0 and ports of no known type
(`PortAssumption`), Services without a name or of no known type
(`ServiceAssumption`).
Where lines cannot say what a policy says, the lines are stricter than the
cluster, against "conservatively avoiding false violations"
(`edge_producer.go:35`), and the properties leave it out by name: an `ipBlock`
peer yields no edge but its policy still governs, `endPort` is not read, egress
rules govern a source even if `policyTypes` leaves Egress out, and a workload is
governed if one of its Pods is (`Overread`). In the other direction, an egress
rule's edge also satisfies a destination's ingress policy, so
`NothingUndeclared` asks for a rule at either end.

Policies are matched by Kubernetes' own selectors (`Matches`), Services by the
operator's `selectorMatches`, which reads a missing label as an empty value: a
selector `tier: ""` takes Pods that have no tier. `Reachable` says which Pods
the cluster routes to. `ExposedIsReachable` is both directions, the second up
to Pods that only such a value can have matched (`BlankSelected`);
`ExposureIsExact`, without this, is violated.

## Runs

| Run | Instance | Shows |
|---|---|---|
| `reload` | 2 callers, 2 timers, 1 process, window 2, 3 writes | `SingleTrailing`, `NoLostReload`, `BurstBound`, and `ReloadGoal` with its fairness |
| `config_sync` | 1 source, 2 keys, 2 revisions, 1 edit, 1 fault, 1 crash | `FloorBeforeProxy`, `NeverPruned`, `AtomicUnlessRaced`, `SignalFollowsChange`, and `EditsReachDisk` (liveness) |
| `config_sync_torn` | no fault, no crash | **violated**: a torn file is visible when primer and worker meet in `<key>.tmp` |
| `config_hash` | ConfigMap, Secret, Deployment, StatefulSet, 2 edits, 1 failed patch | `StampCurrent`, `RollsAreCaused` |
| `status_leader` | 2 replicas, a route, an Ingress, 2 terms, 1 upset | `GatesFollowTerms`, `RebuildPublishes` |
| `delta_producer` | 2 pods, 2 IPs, 5 pod states, 2 edits, 2 ticks, 1 fault or restart | `NoLostChange`, `IndexIsEmitted`, `SkipIsSafe` |
| `delta_producer_fresh` | 1 edit, 1 tick | **violated**: a tick swallows a pending delta |
| `cert_projection` | 2 stems (one Opaque), 2 versions, 1 edit, 1 fault, 1 crash, any initial cluster | `KeyBesideCrt`, `CertsConverge`, `CertsBeforeUpstreams` |
| `render` | four families of clusters: conflicting claims of 2-3 objects, certificates (also of 2 Gateways and of wildcard hosts), EndpointSlices, annotations in both schemas | `SingleEmission`, `FirstClaimWins`, `FirstWriterStays`, `OutputIsStable`, `SchemaAgnostic`, `ServersServe`, `CertOfHost` |
| `api_writers` | 1 Service, 1-2 nodes, 2 worlds, 2 output names, 2 edits | `HomeIsInternal`, `PipelineConverges`, `CertsFirst`, and `KeyOwners` as `OneOwnerPerKey` |
| `api_writers_rest` | 1 edit | `ComesToRest` (liveness) |
| `cluster_facts` | up to 2 of 49 policies, 3 sets of Pods in 2 namespaces, 3 ports | `NoFalseViolation`, `NothingUndeclared`, `ExposedIsReachable` |

Why the bounds are enough. Each hazard needs few ingredients: two goroutines,
one change and its revert (two edits), one failure, one crash. Two callers and
two timers let a trailing timer run late beside a leading fire, and a third
write comes after both. One edit suffices for `config_sync` and
`cert_projection` because their initial cluster is arbitrary and the crash
restarts the primer on an inhabited volume; `cert_projection` also passes with
two edits and either the fault or the crash (5 million states each). Two pods
and two IPs give a recycled IP and a moved one, with label-only edits among the
pod states, one of them from an empty value to another key. Replicas and
pods are interchangeable in the models that declare symmetry, and those runs
check no liveness.
`MaxEdits` of `api_writers` counts user edits, cluster changes and restarts
together: two are a change and what meets it half-way. `MaxFaults` of
`delta_producer` counts failed requests and restarts together. In `render` an
object takes every shape its claims distinguish, and three objects let a claim
lose to one and win over another. Two policies are the least that govern both
ends of a flow, or one end twice.

Deadlock is checked for `reload`; in most other runs a system with no event left
and its bounds used up really has nothing to do.

Deadlock is also checked for `render` and `cluster_facts`, which never stop.

The properties that two of the runs violate are each a sentence of the
repository, which `PROJECT.json` quotes under `findings` with the line that
breaks it.

### What does not hold

Ten more statements of the repository do not hold of the code. Each is a property
with a configuration of its own, kept beside the runs: `tlc -config X.cfg M`
shows the counterexample. Beside each stands a property of a run that exempts
exactly the case in question, by a history variable or a named definition, and
so says what remains.

| Configuration, module | Property | The statement | What happens | Passing beside it |
|---|---|---|---|---|
| `ConfigSyncSignal`, `MCConfigSync` | `EveryWriteSignalled` | "the SIGHUP below makes the re-read deterministic regardless" (`configsync_controller.go:129`) | the primer (`:247`) drops the `changed` result and never signals; the worker then finds the file as it should be | `SignalFollowsChange` (`silent`) |
| `ConfigSyncStale`, `MCConfigSync` | `HandledIsOnDisk` | "ConfigMap write -> watch event -> write <out-dir>/<key> -> SIGHUP" (`:39`) | the primer reads, the worker writes the next revision, the primer writes what it read; the event is used up | `EditsReachDisk` (`late`) |
| `ConfigHashStale`, `MCConfigHash` | `ContentIsStamped` | "Kubernetes rolls the pods whenever config content changes" (`README.md:26`) | edit, rollout and revert inside the informer's lag: the cached annotation is the wanted one (`configmap_controller.go:341`) and the workload stays on the hash of the edit | `StampCurrent` (`skipped`) |
| `StatusLeaderNew`, `MCStatusLeader` | `NewLeaderPublishes` | "this replica writes status" (`leader.go:75`), "deferred to the new leader" (`:79`) | opening the gate (`:74`) queues no render; what was skipped waits for the next event | `RebuildPublishes` (`asked`) |
| `DeltaProducerLabels`, `MCDeltaProducer` | `RealChangesDetected` | "so the delta diff can detect real changes" (`identity_producer.go:170-171`) | `o.labels[k] != v` (`:183`) reads a missing key as `""`: `{a: ""}` equals `{b: "x"}`, and no delta is sent | `NoLostChange` (`LostEmptyLabel`) |
| `CertProjectionRotation`, `MCCertProjection` | `RotationConverges` | "cert rotation/removal converges with no pod restart" (`certs.go:35-36`) | a Secret of another type is projected, but the watch lets only `kubernetes.io/tls` through (`ingress_controller.go:691`) | `CertsConverge` (`quiet`) |
| `ApiWritersExternal`, `MCApiWriters` | `ExternalOverrideKept` | "EXTERNAL_NET still derived as "!$HOME_NET" unless also overridden" (`netvars_resolver.go:21`) | the write that records a pin derives `EXTERNAL_NET` whatever it was (`:137`) | `HomeIsInternal`, `KeyOwners.Respect` |
| `ApiWritersPin`, `MCApiWriters` | `LaterPinKept` | "a non-empty, non-"any" HOME_NET already in the config [...] is used verbatim" (`:19-20`) | a pin written into a config whose marker says auto is taken for the operator's own (`:183`) | `HomeIsInternal`, `OneOwnerPerKey` |
| `ApiWritersLabel`, `MCApiWriters` | `EveryLabelledSourceFollows` | "any change fans out to every labelled source" (`upstreams_resolver.go:370-371`) | the fan-out lists the label "true" (`:379`), `isResolverSource` accepts "1" too (`:359`) | `PipelineConverges` (`unseen`) |
| `ClusterFactsExact`, `MCClusterFacts` | `ExposureIsExact` | "every key/value in a non-empty selector is present in labels" (`classify.go:72-73`) | `labels[k] != v` (`:79`) reads a missing key as `""`: a selector `tier: ""` flags Pods that nothing routes to | `ExposedIsReachable` (`BlankSelected`) |

Exemptions with no violated property beside them are named with their modules,
with the words of the repository they are at odds with, if any: overlapping
renders of certificates, colliding stems, competing Gateways, label changes
without an event, what policy lines cannot express. Most of these disagreements last until
the next event or the informers' periodic resync, by default ten hours, which
the models leave out.

### Fairness

Three specifications have it. `ReloadDebouncer`: weak fairness of each
caller, timer callback and reload in progress (the Go scheduler runs what can
run), of time, and of the proxy handling a signal. `ConfigSync`: weak fairness
of every thread, of watch delivery, of containers being started and of a
requested reload (`ReloadGoal`), and strong fairness of taking a given request
off the work queue, which is first-in first-out. `ApiWriters`: weak fairness of
the informers, of each controller's worker and each step of a render, and of
garbage collection; `ComesToRest` says that the controllers, whose writes are
each other's events, stop once nobody else acts. A request that must fail again
(YAML that does not parse, an output that is another's) is retried for ever and
does not count as unrest. Nobody is obliged to write, to
edit, to fail or to crash.

## Proofs

`ReloadDebouncerProofs` proves, for every window, every number of writes and
any sets of callers, timers and processes (callers and timers being different
goroutines):

- `TypeCorrect`: `TypeOK` always holds;
- `TrailingFireIsSingle`: `SingleTrailing`;
- `ReloadNeverLost`: `NoLostReload`;
- `AtMostTwoFires`: `BurstBound`;
- `ImplementsGoalSafety`: every step is a step of `ReloadGoal` or a stutter.

The inductive invariant `IInv` is `TypeOK`, `Places` (only callers are in
`trigger`, only timers wait), `SingleTrailing`, `Spacing` and `NoLostReload`.
`NoLostReload` needs `SingleTrailing`: a trigger collapses because `pending` is
raised, and only the invariant says that somebody stands behind the flag.
`BurstBound` needs `Spacing`: what an armed timer has left, plus the age of the
last fire, makes a window, unless a leading fire came in between and pushed the
one before it out. One lemma per conjunct goes through the actions; the
temporal theorems follow by PTL.

`StatusLeaderProofs` proves `GatesAreExclusive`: `GatesFollowTerms` for any
replicas and objects and any number of terms and upsets, assuming
`PromptStart`. The property does not
mention the lease, so it is not inductive. `ElectionInv` adds that a replica
which still renews holds the lease (`LeaseHeld`) and that `OnStartedLeading`
runs only in the term it was spawned for (`StartsInTerm`). Two renewing
replicas with open gates would then both hold the one lease. The render, status
and edit actions leave the election's variables alone. `TypeCorrect` and
`StatusIsPublished` (`RebuildPublishes`) do without `PromptStart`. The latter is
an argument about who will come by: as long as an object lacks its status, a
replica that was asked to rebuild with its gate open has the rebuild queued, or
has the object listed and not visited, or has an Update of it that will conflict
and whose conflict means an event; `PublishInv` says so for every object.

`ProducerProofs` has two parts. Of the loop, for any pods, addresses and pod
states and any number of edits, ticks, faults and restarts: `TypeCorrect`; `ChangesAreKept`
(`NoLostChange`); `SkippedUploads` (`SkipIsSafe`), which is inductive with the
types; and `DiffBaseIsEmitted` (`IndexIsEmitted`). The last needs `EmittedInv`:
handlers are registered after the first baseline, so nobody follows an epoch
before that (`EpochUnseen`), and what an upload carries is the index
(`UploadsIndex`). `LeftOut` says how `equalTo` and the exact comparison differ:
two rows that a delta leaves as they are differ by an empty label at most.
`StaysCovered` and `CoveredAnew` are the two ways a step keeps `NoLostChange`. `TypeOK` alone
is not inductive, because `epoch` has a bound:
every epoch is paid for with a fault.

Of what is sent, for any Pods, namespaces, policies, Services and Ingresses and
any number of policies at a time: `NoFalseViolations` (`NoFalseViolation`),
`NothingDeclaredUnwritten` (`NothingUndeclared`) and `ExposureIsReach`
(`ExposedIsReachable`). The invariant is only that the cluster is made of what
the constants allow; the rest is about functions. `OutwardExposes` and
`SelectorTakes` compare the operator's view of a Service with the cluster's. `PeerPodsOf` shows that
`peerPods` finds the Pods that Kubernetes lets a peer take. Towards
`NoFalseViolation`, `EdgeLine` and `PortPasses` go from a rule that takes a
connection to a line of it: a named port stands for the number it has at one of
the Pods at the far end, or for any port when none carries it, so the port in
question is among the lines'. Towards `NothingUndeclared`, `PortsOf` and
`EdgeIn` go back from a line to a rule of a policy that selects a Pod of one of
the two workloads.

`ConfigSyncProofs`, for any list of sources, keys and contents and any number of
edits, I/O errors and kills, from `Safety` (the specification without
fairness): `TypeCorrect`; `FilesNeverPruned` (`NeverPruned`); `FloorIsLaid`
(`FloorBeforeProxy`) by `FloorInv`, in which the init container, once it is
through with its sources, has every missing ensured file still to write;
`RenameIsAtomic` (`AtomicUnlessRaced`) by `WriterInv`: a key that was not raced
for has at most one writer, the tmp file is that writer's, and it holds what
the writer has put there; and `ChangesAreSignalled` (`SignalFollowsChange`).
`First` is proved to pick an element by well-foundedness of the naturals.

`ConfigHashProofs`, for any sources, workloads and references and any number of
edits and refused patches: `RolloutsAreCaused` (`RollsAreCaused`) by a potential.
`Due` counts the rolls of a workload that are still to come if nothing changes:
one if it is not stamped with what the pass sees, one more if the pass is behind
the cache; rolls so far and rolls due never exceed one and the changes
delivered. `StampsAreCurrent` (`StampCurrent`) by `StampInv`: with no request
queued a pass sees what is cached, and a workload is stamped or the pass has yet
to come to it (`Ahead`).

`CertProjectionProofs`, for any stems and Secrets and any number of edits,
faults and kills: `TypeCorrect`, `CrtHasKey` (`KeyBesideCrt`), `CertsComeFirst`
(`CertsBeforeUpstreams`) and `DirectoryConverges` (`CertsConverge`). `Work`
divides the stems a render has listed into those left, projected and skipped;
`AloneInv` says that a clean render has the directory to itself; `CleanRender`
what it has made of it so far, the key of the pair being written included; and
`ConvergeInv` that with no rebuild queued a clean render works from what is
cached and the directory agrees with it. `CutShort` bounds what a failed or
killed write leaves: a file that differed from what was being written, in a
render that is then over, so that it is no clean render's. Without `AloneInv` nothing that one
render wrote could be relied on until its end.

`RenderProofs`, for any set of well-formed clusters. Two theorems need nothing
of the claims: `SingleEmissionHolds` (`SingleEmission`) and
`FirstWriterStaysHolds` (`FirstWriterStays`). For each method of the model a
lemma says that it keeps the model a model (`IsModel`), keeps terminated and
passed-through hosts apart (`Exclusive`), and only adds (`Grows`); `Apply` is
one of them by cases on the kind of the claim. Four more,
`FirstClaimWinsHolds`, `SchemaAgnosticHolds`, `CertOfHostHolds` and
`ServersServeHolds` (`ServersServe`), compare the file with the claims it was
made of, or with the cluster, and rest on five groups of lemmas:

- *Sequences.* `FlattenSeq` is defined by a recursive function; `NatInd`
  (induction for a set of numbers, from well-foundedness) gives what it returns
  (`FlattenFacts`: every element comes from one of the lists, in their order).
  `SortedExists` shows by ranks that `ById` has something to choose.
- *Servers.* A list of servers `IsListing` of a set of origins, one (slice,
  endpoint, address) per entry, and concatenation keeps that (`JoinListing`), so
  `FamilyListing` says of what `familyServers` returns which entry comes from
  where. `SortFacts`: the places `ByAddress` gives are all different, hence the
  sorted list is a rearrangement of the list and has the same origins. Two
  entries for one pod then have two origins, and `OneAddress` makes them two
  listings of one address (`PodsServe`).
- *Claims.* Each object's claims are `Good`: they bear its source, their routes
  are records with Boolean or unset switches, their servers serve (`Serving`),
  and a certificate bound to a host is one listed for it. `ClaimsOrdered`:
  whatever order the caches list in, the claims that serve come in the order of
  precedence. `ClaimsBind`: a concrete host with a certificate listed is claimed
  for.
- *Table.* `Applied(cs, t, n)` characterises the table after `n` claims without
  recursion: each route is that of the first claim of its host and key, a host
  is passed through if the first claim on it says so, the challenge path is the
  first solver's, a bound host has a claim and a claimed one is bound.
  `OneApplied` takes it from `n` to `n + 1`.
- *File.* `EmitSays`: either schema says what the table holds; `SchemasAgree`:
  a route means the same in both.

`RenderInv` is `Applied` up to the claim that is next, with `Sourced` (the
claims are ordered and complete). `WinnerIs` then identifies the least index
with the `Winner` that the property chooses by precedence.

`OutputIsStableHolds` (`OutputIsStable`) compares two renders of one cluster,
each from listings of its own. `SortUnique`: two sorted lists of the same
origins are equal, because the entry at a place has as many origins before it
in one as in the other; so the servers of a backend, and an Ingress's claims, do
not depend on the order of the slices (`BackendSettled`, `IngressSettled`).
`ClaimsAlike`: the two lists of claims have the same elements, the same
beginning (Ingresses) and the same end (HTTPRoutes), and only certificates
between. A claim does the same to tables that differ only in certificates, and a
certificate changes nothing else (`ApplyCore`), so by induction along the two
runs they end in the same `Core` (`CoreSettled`). A host is bound under its own
name if some claim lists a certificate for it, which both lists agree on
(`BindingSettled`); hence the same file (`EmitSettled`). What is projected under
a stem is the Secret of the first claim on it (`ProjectedBy`): of the same
Ingress in both lists, or of a Gateway in each, which the property exempts if
they differ (`RendersAgree`). `StableInv` says that the table is that of a run of
the claims so far (`Ran`), and that the last outputs are those of a whole run of
some listing of the cluster.

`ApiWritersProofs`, for any worlds, nodes, Services, configs and outputs and any
number of edits and restarts. It assumes of the user what the type of a
ConfigMap says and that a HOME_NET of the user's is one of `Written`
(`UserAssumption`), and that the absence of an object is no object
(`AbsentAssumption`). One lemma for each of the four writers lists what may
become of its write (`NetVarsCases`, `UpstreamsCases`, `CertsCases`,
`PublishCases`), resting on `OutcomeFacts`: a write happens only on a current
copy, because a copy that no write has outdated is current (`LagInv`).

- `TypeCorrect`: `TypeOK`.
- `HomeStaysInternal`: `HomeIsInternal`. `HomeInv` says that what is not marked
  as derived is a human's, in the object and in its copy; without it a value
  that the operator derived could be taken for a pin. `NetInv` says that with
  no request queued the resolver would change nothing.
- `SecretComesFirst`: `CertsFirst`, from `AloneInv` and `CertInv`: nobody else
  writes the Secret while a render is alone.
- `PipelineHasConverged`: `PipelineConverges`. `PlanInv` and `FileInv` carry the
  first stage: with no rebuild queued, a render alone works from what is cached
  and the file is of it. `OutInv` carries the second: whatever changes an output
  or what it is made of queues a request or is one of the exemptions. Garbage
  collection cannot take an output that is up to date, since it bears the uid of
  the object as it is.
- `ImplementsKeyOwners`: `OneOwnerPerKey`, all of `KeyOwners`, which has no
  fairness. A write of the netvars resolver is `Derive` or `Respect` according
  to the pin that the object has at that moment, a write of a render is
  `Publish`, everything that counts as an edit is `Edit`, and every other step
  leaves the parts alone.

Only model-checked: liveness (`ImplementsGoal` with its fairness,
`EditsReachDisk`, `ComesToRest`), which is out of the prover's reach. Every
invariant and every action property of the passing runs is proved.

## Not modelled

Metrics, flag parsing, logging and Kubernetes events; MMDB and YAML encoding
and the layout of `upstreams.yaml`; `isControlPlane`, a list of names; Synapse,
the download-api and the agents beyond how this code uses them; several sources
of config-sync that share a key, which the start-up warning leaves to the order
of events. `acceptRoute` writes a new timestamp at every render and HTTPRoute
updates are watched without a predicate, so a leader with routes renders once a
second for ever: `StatusLeader` lets the rewrite be seen, but measures no load.

## Plan

The wiring of `main.go`: which modes share a process and what each registers.
