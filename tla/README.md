# Formal model of the HyperFleet operator

TLA+ modules, TLC configurations and TLAPS proofs for the operator that turns
the cluster-scoped singleton `HyperFleetConfig` into running workloads.
`PROJECT.json` is the index: components, runs, the definition-to-source map,
hazards, findings and theorems.

## 1. The system

### Parts, state, operations

| Part | Source | State | Operations |
|---|---|---|---|
| Reconciler | `internal/controller/hyperfleetconfig_controller.go`, `internal/apply/apply.go` | work queue, informer caches, the locals of one pass | `Reconcile`, its deferred status update, `apply.Objects`, the watches of `SetupWithManager` |
| Rollout hashing, OIDC discovery | `internal/controller/hyperfleetconfig_rollout.go` | `discoveryCache` (in memory) | `resolveSecretEntries`, `computeConfigHash`, `stampConfigHash`, `resolveJWKSURL`, the dial policy |
| Status aggregation | `internal/controller/hyperfleetconfig_status.go` | none; rewrites the CR's status | `aggregateStatus`, `rollupCondition`, `degradedCondition` |
| Bundle | `internal/bundle/bundle.go` | none | `Resolve`: the API and one Sentinel per entity |
| API component | `internal/component/api/` | none | `ReferencedSecrets`, `Render`, `Conditions` |
| Sentinel component | `internal/component/sentinel/` | none | the same |
| API types | `api/v1alpha1/` | the stored object | admission rules, among them the immutable bundle |
| Operand metrics | `internal/controller/observability.go`, `internal/metrics/` | `operand_rollouts_total`, `operand_ready` | `detectRollouts`, `commitRollouts`, `recordReadiness` |
| Start-up | `cmd/main.go` | images, broker settings, namespace | environment, manager, leader election |
| ServiceMonitor bootstrap | `internal/servicemonitor/` | one object in the cluster | `Start`, once per process |
| Related-images validator | `validators/related-images/` | none | build-time check of a CSV |

### How they interact

A pass reads the CR and every referenced Secret **from informer caches**, asks
the issuer for its key endpoint, and then for each component renders its
objects and, object by object, applies it and reads it back **uncached**. A
component's conditions come from that uncached read; the rollout counter and
the readiness gauge come from cached reads. Whatever ends the pass, the deferred
function compares the new status with that of the cached copy and writes it if
it differs; the API server refuses the write when the copy is not the live
version. An error puts the request back into the queue. Events of the CR (no
predicate), of owned operands and of any Secret in the namespace put it there
too; there is one key, so events arriving while it is queued merge. Operands
carry a controller reference and are garbage-collected when the CR goes.

### What is hard

* Every read is of a cache that may be behind, every write is of the live
  object: a pass may apply an old spec or an old Secret version after a new one
  exists, and compares its status with an old one.
* A pass is many calls. Each may fail, with or without having taken effect;
  the process may die between any two and come back as another release.
* The CR may be deleted and recreated during a pass for the old one, while the
  garbage collector works by owner UID.
* A call that timed out, or was sent by a process that died or lost its lease,
  may still reach the server, after the retry or after a takeover.
* The operator's own writes wake it.
* Discovery talks to a host somebody else chose: names resolve differently from
  one call to the next, connections are kept, servers redirect and lie. It has a
  fallback that does not survive a restart.
* The ServiceMonitor is written once per process, in three calls, best effort,
  while CRD, Service and release come and go.

The `hazards` of `PROJECT.json` list these at the lines where they bite, each
with the properties aimed at it or the reason there is none.

### What makes each part correct

* Reconciler: no change is missed (`ConvergedWhenQuiet`), it comes to rest
  (`Settles`), configuration reaches the server before the workload that uses it
  (`ConfigBeforeWorkload`), and whatever it writes is made of values its sources
  really had and it has not moved past (`ImplementsConvergence`).
* Status: true at rest (`StatusTrueWhenQuiet`), never claiming more than was
  applied (`ObservedGenerationIsApplied`), in order
  (`StatusGenerationsOrdered`), never going back (`ObservedGenerationMonotone`).
* Discovery: an outage of an issuer already reached does not stop rotations
  (`Settles` on the outage instance, `OnlyFirstDiscoveryFails`), only public
  addresses are connected and no public one is refused
  (`OnlyPublicConnections`, `OnlyPrivateRefused`), and the keys are the issuer's
  own (`KeysOfTheIssuer`).
* Rollout hash: pods roll exactly when an input changed (`RollsExactlyOnChange`).
* Installation: the validator refuses exactly the inconsistent CSVs
  (`VerdictAsDocumented`), configured images are pinned and listed
  (`ConfiguredImagesListed`), Prometheus can verify what the running process
  serves (`ServedEndpointVerifiable`), a restart repairs the ServiceMonitor
  (`MonitorCurrentAfterRestart`), it never stays behind (`NoOrphanMonitor`) and
  never stands in the reconciler's way (`NothingBlocksReconciliation`).
* Metrics: the gauge shows the workload's Available condition at rest
  (`GaugeTrueWhenQuiet`), the counter counts rollouts
  (`CountsExactWhenCoherent`, and the three findings below).

## 2. The modules

| Module | Models |
|---|---|
| `Operands` | The pure part: spec, bundle, referenced Secrets, apply order, `Render` with the stamped hash. |
| `StatusRules` | A component's conditions, roll-up, `degradedCondition`, `aggregateStatus`. Extends `Operands`. |
| `Reconciler` | The controller against API server, caches, users, faults and crashes. Extends `StatusRules`. |
| `Convergence` | The abstract specification: sources, windows of values that may still be acted on, targets, writes under way. |
| `ReconcilerRefinement` | The mapping from `Reconciler` to `Convergence`. |
| `OperandMetrics` | Counter and gauge of one workload, with the Deployment's cache kept explicitly. Stands alone. |
| `AddressPolicy` | The table of special-purpose ranges, the longest-prefix match, `blockDiscoveryDial`; and the documented policy on intervals. |
| `Discovery` | `resolveJWKSURL`, its cache, the HTTP client, the checks on the document. Extends `AddressPolicy`. |
| `RolloutHash` | The byte string under the rollout hash. Stands alone. |
| `RelatedImages` | The CSV validator, and what a consistent CSV is. |
| `OperatorInstall` | Validator, deployment, start-up checks and ServiceMonitor bootstrap together. Extends `RelatedImages`. |
| `StatusRulesProofs` | Theorems about rendering and status; every reconciler proof builds on it. |
| `ReconcilerProofs` | Types and order of the generations in the status. |
| `ReconcilerRestProofs` | What holds when the operator is at rest. |
| `ReconcilerAppliedProofs` | What holds of the operands during a pass. |
| `ReconcilerRefinementProofs` | `Reconciler` implements `Convergence`. |
| `DiscoveryProofs` | `AddressPolicy` against the documented policy, and `Discovery`. |
| `OperandMetricsProofs`, `OperatorInstallProofs` | Counter and gauge; validator, start-up and bootstrap. |
| `MCReconciler`, `MCOperandMetrics`, `MCDiscovery`, `MCRolloutHash`, `MCOperatorInstall` | The constants of the instances. |

### Reconciler

**State.** What the server holds of the CR or a Secret, and what the cache shows
of it, is one sequence: last element live, first element cached, the rest watch
events under way. An informer delivers in order and may be arbitrarily late; so
does this. `operand` is what the server holds of each operand (owner UID and
content); the status path never reads operands from the cache, so of their watch
only "an event is outstanding" is kept (`ownedEvent`). `queued` is the
single-key work queue; `pc`, `base`, `at`, `read`, `url`, `health`, `failed` are
the locals of the pass. `fresh` stands for resourceVersions: it says that `base`
is still the live version, which is what the server checks on a status update.

**Actions.** The steps of `Reconcile`, one per call another process can come
between:

| Action | Code |
|---|---|
| `Begin`, `GetFails` | `r.Get` of the CR, `bundle.Resolve` |
| `ReadSecret`, `ReadSecretFails` | one iteration of `resolveSecretEntries` |
| `ResolveJWKSURL` | `resolveJWKSURL` with its cache |
| `ApplyOperand`, `ApplyFails`, `ApplyTimesOut`, `CrashInApply`, `Land` | `Client.Apply` of one object; it may stay under way when the pass has failed or the process has died, and land later |
| `Refresh`, `RefreshNotFound`, `RefreshFails` | the uncached read after it; `Conditions` once the component's last object is read |
| `UpdateStatus`, `UpdateStatusFails` | the deferred function, and the return to the queue |
| `DeliverConfig`, `DeliverSecret`, `DeliverOwned`, `Resync` | the watches |
| `Crash`, `Restart` | the end of the process; a new one, perhaps of another release |

`ApplyFails` and `UpdateStatusFails` leave open whether the write took effect.
A delayed status update needs no action of its own: the server accepts it only
while its resourceVersion is the live one, so it takes effect before the next
write or never.
The remaining actions are users, the Deployment controller and the garbage
collector.

**Abstractions.**

* Rendered text is reduced to the fields that decide it; a digest is the tuple
  of what it covers, so SHA-256 is taken to be injective.
* `access` stands for the objects whose content no spec, URL or release changes
  (ServiceAccount, Role, RoleBinding, NetworkPolicy); a Sentinel's `configmap`
  for its two ConfigMaps, rendered next to each other.
* Ports, probes, labels, resources and security contexts are constant and left
  out. `profile` is accepted by the API and rendered nowhere, so a change of it
  changes the generation and no operand, as in the code.
* Messages are reduced to the component or the roles they name and to whether
  the workload is said to be scaled to zero; transition times and wording are
  left out. The replica figures in the message of `DeploymentNotReady` are those
  of the counts, of which the model has one pair (one ready of two). So a status
  changes in `aggregateStatus` when `SetStatusCondition` or
  `setComponentStatuses` would report a change.
* The missing Secrets are a set. In the code a pass that fails while it reads
  Secrets returns before the list is sorted and compacted, so its message may
  name them in another order or twice; the status is rewritten by the retry.
* A Deployment's status is given relative to its spec: whether the current
  generation is observed, and replica counts up to two.
* Discovery yields a URI or fails; `Discovery` looks inside.
* A restarted process lists live state and is woken once by it.
* One process runs at a time. What two overlapping ones add, an apply of the
  deposed one arriving among those of its successor, is the late apply.
* `OperandMetrics` reduces a pass to its metric-relevant calls and has no crash:
  a restart also resets the counters. A Deployment in it has two signals that
  move independently: the Available condition, which the gauge shows, and the
  replica counts, which the status tells. Either cached read may fail
  (`DetectionSkipped`, `ReadinessSkipped`): then the rollout is not counted, or
  the gauge is left alone, and the pass goes on; `skipped` remembers that the
  last recording was one of these. Every Deployment in it carries the hash
  annotation, so the silent adoption of an unstamped one does not occur.

### Convergence

A *source* is something the operator reads (CR, Secret, issuer, release), a
*target* an operand. The *window* of a source holds the values that may still be
acted on; it takes in a new live value and otherwise only shrinks. A target is
written from one value of each window (`Write`), or such a write is sent and
arrives later (`Send`, `Arrive`). In the mapping a window is what lies between
the cached and the live version, plus what the pass in progress or the discovery
cache holds. So an implementation that keeps anything of a finished pass, mixes
the spec of one CR with the owner of another, or drops a Secret from the hash, is
no implementation of it.

### Discovery

One call at a time (the reconciler has one worker): `Call`, then `Reuse` of a
kept connection or `Lookup` and dials in any order, each seen by
`blockDiscoveryDial`, then `Fetch`, with `RequestFails` for the timeout and every
transport error. Nothing is remembered of DNS and servers, so each lookup may
answer anything in `Answers` and each request get any response. An issuer string
is a base URL and a number of slashes, all that `TrimSuffix` and the cache key
tell apart. `published` and `succeeded` are history variables. An address is a
sequence of 16-bit groups. `Public` states the documented policy without masks or
order: the narrowest registry interval around the address decides.

### RolloutHash

Bytes are numbers, and the byte string handed to SHA-256 stands for the digest.
`Stamp` takes the entries in any order; `Change` moves to any other input.

### OperatorInstall

A draft CSV is validated (`Validate`, `Unreadable`), deployed (`Ship`,
`Upgrade`), started (`Start`, if `Starts`: every `os.Exit(1)` of `main` is a
conjunct) and bootstrapped (`Probe`, `GetService`, `Apply`, `BootstrapFails`).
`GiveUp` is the `return nil` all failures share. The process in the model is the
one that leads; `Deposed` leaves its apply in `late`. `calm` remembers that
nothing was disturbed since the last start, `astray` that a call of this
process's bootstrap failed or a delayed apply landed after it was through. A
ServiceMonitor consists of its owner, its scheme and whether it carries the trust
material; what is served, and with which certificate, is a matter of the process
that runs. The five trust flags are one flag, as `Validate` needs all of them.

## 3. Runs

| Run | Instance | Shows |
|---|---|---|
| `edits` | API and one Sentinel; TLS switched on or off, a Secret rotated, created or deleted, one fault | nothing missed, status in order and honest, configuration before workload, `Convergence` implemented |
| `health` | API; two health reports, one edit (to any replica count up to two) or deletion of an operand, one Secret event, one resync | status true at rest, drift healed, configuration before workload where nobody else wrote |
| `lifecycle` | API; two creations, a deletion, one late apply, both bundles | new owner everywhere or nothing left, `Convergence` implemented |
| `outage` | API with discovery; the issuer changes twice among two endpoints and "unreachable", a Secret event, a crash, two releases | cached discovery carries rotations, `Convergence` implemented |
| `metrics` | one workload, two images and two configurations, any three events, failing calls and reads among them | gauge right at rest unless it could not be read, counter exact while coherent |
| `discovery` | two hosts, three issuers (two differing by a slash), two key URLs; about 350 addresses | dial policy as documented, keys of the right issuer, failures bridged |
| `hash` | two texts of up to two bytes or eleven, two roles, two resourceVersions: 1024 inputs, every pair | the hash changes exactly with its inputs |
| `install` | about 15 000 arrangements of images in a CSV, every metrics and broker setting; one upgrade, crash, fault, late apply, CRD change, Service and ServiceMonitor deletion | the properties of the installation |
| `overcount`, `undercount`, `stuckgauge`, `unpinned` | small instances | the findings |

`lifecycle` and `outage` check liveness under `FairSpec`, `install` under its
`Spec`. Deadlock is not checked on the reconciler, metrics and installation
runs: with all budgets used and the operator at rest, or a CSV refused, nothing
remains to be done, which is the intended end.

**Bounds.** `Limit` gives each kind of environment event its budget; the
operator's own steps are not bounded. Every hazard listed needs at most one
event of two or three kinds, at a particular moment of a pass: `edits` allows
its four kinds at once, so a pass can be overtaken by an edit, have read the
Secret before its rotation, fail, and be retried, in all orders. Two creations
and a deletion are the least that let a pass, or a late apply, for the first CR
run on under the second. While a late apply is about, the properties that speak
of what a pass has just applied (`ObservedGenerationIsApplied`,
`ConfigBeforeWorkload`) make an exception for it: the code cannot know of it.
They make another for a ConfigMap or operand that somebody edits or deletes
between its apply and the next one of the same pass (`drift`); the event of that
edit wakes the pass that repairs it. `OperandMetrics` also bounds the total
(`MaxEvents`), the counter (`MaxCount`) and the watch backlog when a pass starts
(`MaxLag`), because a pass retried against a lagging cache can repeat itself for
ever. One Sentinel is enough for what several components add: an order among
components, partial application, and two components reading different Secrets;
the proofs cover any number.

The addresses of `discovery` are the ends of every range of the table and of
every standard category with the addresses next to them, for IPv4 also under the
NAT64 prefix and IPv4-mapped. The verdict can only change at such an end; the
proof covers every address. In `hash` the texts are made of the digits and
colons the serialisation writes itself, and one is long enough for a two-digit
length. In `install` each disturbance may happen once; an orphan, a stale
endpoint or an unrepaired ServiceMonitor needs at most two of them.

**Fairness.** Weak fairness of the pass, of each delivery, of `Restart` and of
`CollectGarbage`: the worker and the informers are goroutines that run as long
as the process does, the kubelet restarts a Deployment's pod, and the garbage
collector is part of Kubernetes. Nothing is assumed of users, faults, the
Deployment controller, the resync or crashes. A late apply eventually lands or
is dropped with its connection. In `OperatorInstall` the same holds of the start
and replacement of the process, its bootstrap, the garbage collector and OLM
restoring the metrics Service. `Discovery` and `RolloutHash` assume none.

**`Blocked`.** `Settles` allows two states in which the code can only retry: a
bundle without an entity set, and an issuer that is unreachable and was never
reached by this process. `ConvergedWhenQuiet` speaks of the last endpoint
discovered, since nothing tells an idle operator that an issuer has moved its
keys.

## 4. Findings

The first three are about the operator's own metrics; none affects operands.

* `overcount`: the counter compares with a **cached** Deployment. The status
  update of the pass that created it can wake the next pass before the
  Deployment's event arrives, and the creation is counted twice. The comment
  relies on "while the live object still holds the previous state".
* `undercount`: `apply.Objects` also fails when the apply went through and only
  the read after it, or the response, failed. The annotation then is already the
  new one and the retry detects nothing, contrary to "a failed apply (which
  leaves the live object's annotation unchanged, and is retried ...)".
* `stuckgauge`: once the CR is gone no pass reaches `recordReadiness`, so the
  gauge keeps its value, contrary to "so the gauge doesn't stay stuck at its
  last value once the workload is gone".
* `unpinned`: a CSV that does not set `RELATED_IMAGE_HYPERFLEET_API` passes the
  validator, which only looks at variables that are present, and starts; the API
  then runs the compiled-in tag. `docs/component-pattern.md` says related images
  "must match every operand image" and that the validator "enforces that
  relationship". `Consistent`, against which the validator is checked, is the
  part of that sentence about images a CSV names; this run is about the rest.

## 5. Theorems

Proved for every entity set, spec, release, budget, image, CSV, address and key
URL allowed by the named assumptions:

* reconciler: `EntitiesAssumption` (plurals distinct and with a known message
  decision), `NamesAssumption`; `SpecsAssumption`, `ReleasesAssumption`,
  `SeededAssumption`, `DepStatusesAssumption`, `LimitAssumption`: typing;
* discovery: `DiscoveryAssumption` (issuers are issuers, outcomes and key URLs
  are distinct, DNS answers with IPv4 or IPv6 addresses);
* installation: `InstallAssumption`, `DraftsAssumption` (a draft is a CSV with at
  least one container);
* metrics: `MetricsAssumption` (bounds are numbers, there is an image and a
  configuration).

### Status and types

* `TypeCorrect`: `Spec => [](TypeOK /\ InRange)`. `TypeOK` alone is not
  inductive: that a read of a Secret is well-typed needs the pass to be at a
  reference that exists, and the list of references depends on the copy of the
  spec and on the release. `InRange` says so. Types of the rendered objects and
  of the status come from the lemmas of `StatusRulesProofs`.
* `AggregateStatusType`: a successful pass stamps all of the status with the
  generation read, a failed one changes Degraded alone.
* `StatusInOrder` and `ObservedNeverGoesBack`:
  `Spec => []StatusGenerationsOrdered`, `Spec => ObservedGenerationMonotone`.
  They rest on `IInv`, the conjunction of `TypeOK`, `InRange`, `FreshIsLive` and
  `AllInOrder`. The properties are about the live CR, but the status written is
  computed from `base`, which came out of the watch stream; so the order has to
  hold for `base` and for every version under way (`AllInOrder`), and an accepted
  write has to have been computed from the version it replaces (`FreshIsLive`).

### At rest

`NothingMissed` and `StatusTellsTheTruth`: `Spec => []ConvergedWhenQuiet`,
`Spec => []StatusTrueWhenQuiet`. `RestInv` says what makes a lost wake-up
impossible. Call the operator *awake* when it is queued or an event is under way.
A pass that has not failed while the operator is not awake works on live values
only: its copy of the CR, each Secret version it has recorded and the key URL are
the live ones, what it has applied is on the server, and the health it has
collected is the Deployments' (`PassIsCurrent`). Whoever changes one of these
wakes the operator, and so leaves the claim. A pass that ends asleep therefore
leaves operands and status right (`RestIsCurrent`). `VersionsDiffer` is needed to
see that a changed Secret is noticed as a change, `Forgotten` that a pass starts
with nothing of an earlier one.

### During a pass

`ObservedIsApplied` and `ConfigPrecedesWorkload`:
`Spec => []ObservedGenerationIsApplied`, `Spec => ConfigBeforeWorkload`.
`AppliedInv` holds two facts together. While the CR of a pass lives, what the
pass has applied stands (`PrefixStands`), unless somebody tampered with it.
And once the status names the current generation, every version of the CR that a
pass works on or may still read from the watch has the current spec
(`NoOtherSpec`), so no later pass brings an older spec back. `FreshAlone` and
`UidsCounted` (a CR recreated under the same name is another CR) carry this
through status writes, deletions and recreations.

### Refinement

`RefinesConvergence`: `Spec => ImplementsConvergence`, the whole of the abstract
specification under the mapping of `ReconcilerRefinement`. `HeldInv` says what a
pass holds: something of every Secret it has come to and of none it has no
reference for, and a key URL exactly when its spec needs one. From it follow that
every step either only shrinks windows or lets in a new live value
(`OnlyShrinks`), and that what an apply writes is rendered from one value of each
window (`DesiredRendered`). Each action is then one kind of abstract step.

### Discovery

* `DiscoveryTypeCorrect`, `KeysAreTheIssuers`, `LaterDiscoveriesSucceed`:
  `Spec => []TypeOK`, `[]KeysOfTheIssuer`, `[]OnlyFirstDiscoveryFails`. The
  invariant adds `CacheIsPublished`: a discovered issuer is in the cache, and
  what the cache holds for an issuer its own endpoint has published.
* `ConnectionsArePublic`, `RefusalsArePrivate`: `Spec => []OnlyPublicConnections`,
  `[]OnlyPrivateRefused`. Their core is `PolicyAgrees`: for every IPv4 and IPv6
  address `blockDiscoveryDial` refuses exactly what `Public` rejects. A mask cuts
  each group into blocks of a power of two; the groups it covers are fixed and
  those behind it free, so numeric order against both ends of a range is the same
  as agreement under the mask (`ContainsIsBetween`). Of two ranges around an
  address the one with the longer mask lies inside the other (`LongerInside`),
  and ranges with the same ends have masks of the same length (`SameEnds`), so
  longest prefix and narrowest interval are the same choice. The entries of the
  table enter by four facts, each checked entry by entry: they are well-formed
  ranges, and which of them are reachable can be read off the bits under the mask
  (`ReachableFromAddress`).

### Installation

`ValidatorExact`: the validator finds no error in a CSV exactly when the CSV is
`Consistent`, for every CSV; `VerdictsDocumented`, `ConfiguredListed`,
`ServedVerifiable` and `MonitorCurrent` are `Spec => []P` for the four invariants of
the run. `InstallInv` follows a draft along its way: verdicts are the
validator's, what is deployed and what runs was vouched for by it (an upgrade may
change one but not the other), the bootstrap runs only in a process that passed
the start-up checks, and what an undisturbed bootstrap has read still holds when
it applies. For `ServedVerifiable` it adds that there is no ServiceMonitor
without its API and that the UID of a Service is never given out again: a
bootstrap that ends without an apply met no API or no Service, so no
ServiceMonitor of an older release can stand for a Service that comes later. A
bootstrap that does apply replaces what was there by what `ScrapeConfig.Validate`
let through, the scheme and certificate of the very process that serves.

### Metrics

`TypesKept`, `GaugeTrue`, `CountsExact`: `Spec => []TypeOK`,
`[]GaugeTrueWhenQuiet`, `[]CountsExactWhenCoherent`. `GaugeInv` is the argument of
`RestInv` for the gauge: a pass that has recorded and is not to be followed by
another recorded the live condition, unless it could not read it (`skipped`). `CountInv` says that, while the cache is coherent and
no call or read fails, the rollout detected before an apply is the one the apply carries
out (`DetectedIsDone`), because the stamp tells the template (`OwnedAndStamped`).

### Only model-checked

`Settles`, `NothingBlocksReconciliation` and `NoOrphanMonitor`: liveness under
fairness is outside the prover. `RollsExactlyOnChange`: the serialisation uses the
recursive function `Decimal`, folds and a sort, and what those compute for every
input takes induction over data, which the installed provers cannot do.

## 6. Not modelled

* Reconcile latency and error counters, the applied-config digest and build
  info: written, never read.
* Leader election itself is controller-runtime's; of overlapping processes only
  the late applies are modelled. Webhook certificates, HTTP/2, health probes and
  the cache scope of `main` have no state to speak of.
* A ServiceMonitor left by a release that has since switched it off: nothing in
  the code promises its removal (see the hazards).
* SHA-256, DNS, TLS and HTTP framing, YAML and image reference parsing: external.
* Pods: how a rolled template reaches them is the Deployment controller's.
* Generated deep copies, version package, test utilities.

## 7. Plan

1. Done: the reconciler with its refinement of `Convergence`, status, metrics,
   discovery with the address policy, the rollout hash, the installation; a
   theorem for every safety property and for the refinement, but for the hash.
2. Left: that `writeField` is injective given that the decimal form of a number
   is, and contains no colon; and the safety half of the liveness properties
   (which pending work keeps each fair action enabled).
