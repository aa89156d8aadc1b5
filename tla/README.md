# OSRM-Operator in TLA+

A verification development of the operator in `src/`: TLA+ modules that model
its reconcilers together with the users and the part of Kubernetes they
interact with, TLC runs on small instances, and TLAPS proofs for every value of
the constants. It covers both controllers, what they serve with, the gateway, the
conditions, the speed updates, and what two objects in one namespace do to each
other.

```
tlasany OSRMCluster.tla                                    parse
tlc -workers 2 -config rollout.cfg MCOSRMCluster           check one run
tlapm OSRMCluster_proofs.tla                               check one module's proofs
```

`PROJECT.json` lists the components, the runs, the mutants (small changes to
the modelled code under which TLC must find each property violated), the source
lines behind every definition, the findings, the hazards and the theorems.

## 1. The system

| Component | Code | State it keeps | Operations | What makes it correct |
|---|---|---|---|---|
| OSRMCluster reconciler | `controllers/osrmcluster_controller.go`, `reconciler_helpers.go` | nothing in memory between passes; in the object: finalizer, `lastAppliedSpec` annotation, `status.phase`, `status.paused`, conditions | one pass: refresh status, initialise, clean up, pause, plan, run the builders, record the spec, collect garbage | workers only ever use built maps and keep them during an update; nothing is left behind; no wake-up is missed; the spec is finally served; a deleted object goes away |
| Map generations and phases | `GetActiveMapGeneration`, `GetFutureMapGeneration`, `IsMapBuildingInProgress`, `DeterminePhase`, `ResourceBuildersForPhase` | none (pure) | decide from the listed children | the phase follows the blue-green order: build, switch, collect |
| Volume, Job and worker Deployment builders | `internal/resource/{persistent_volume_claim,job,deployment}.go` | the child objects | create or update one child | idempotent; what is immutable is right when created |
| Map builder script | `docker/map-builder/run.sh` | directories of a volume | download, extract, partition, customise, skipping steps already done | a completed Job leaves the map of its extract |
| OSRMInstance reconciler | `controllers/osrminstance_controller.go` | as OSRMCluster, one unnamed profile | as OSRMCluster | as OSRMCluster |
| Serving children, gateway | `internal/resource/{service,pod_disruption_budget,horizontal_pod_autoscaler,gateway_*}.go` | the child objects, an nginx configuration | create or update | the gateway routes to the profiles that exist and is restarted when its configuration changes |
| Speed updates | `internal/resource/cron_job.go`, `docker/speed-updates/run.sh` | the directory the workers read | rebuild with traffic data, swap directories | workers always find a complete map |
| Status conditions | `internal/status/status.go`, `refreshStatusConditions` | conditions of the object | computed from the children | they say what is the case |
| Names and labels | `internal/metadata/labels.go`, `ChildResourceName` | none | name, label, select | objects do not touch each other's children |
| API types, generated code, manager process | `api/v1alpha1`, `main.go` | none | defaults, wiring | - |

How they interact. A reconciler is called with a key from a work queue; one
worker serves it, and the queue holds a key at most once. It reads the object
and its children through informer caches that may be behind, and writes through
the API server. Every watched object (`SetupWithManager`: the OSRMCluster and
all owned kinds) puts the key back in the queue when its event arrives. Users
write the spec, the pause annotation and the deletion; Kubernetes binds
volumes, runs Jobs and starts pods. All interaction is through the objects: the
operator, the users and Kubernetes overtake each other between any two calls.

What is hard: edits in the middle of a pass; reads that are older than the
operator's own last write; a pass that stops half way (failed call, conflict,
crash) and the next pass that decides anew from what it finds; return paths
that rely on an event to be called again; a switch between two generations of
maps spread over several objects. `hazards` in `PROJECT.json` has each at its
line.

## 2. Modules

| Module | Models |
|---|---|
| `MapGeneration` | the pure decisions: active and newest generation, map building in progress, `DeterminePhase`, the builders of a phase, the claims garbage collection keeps |
| `BlueGreen` | abstract specification: what the operator promises of maps, with failures (`Spec`) and without (`SafeSpec`) |
| `OSRMCluster` | the controller of OSRMCluster objects (one action per API call that writes, in the code's order), volumes, Jobs and worker Deployments, users, Kubernetes, informer caches, failures; it implements `BlueGreen` |
| `OSRMInstance` | the controller of OSRMInstance objects, from its own code, with Service, budget, autoscaler and CronJob; it implements `OSRMCluster` with one profile |
| `ClusterServing` | the other half of the OSRMCluster controller: all children, the gateway with its configuration, hash, pods and Service addresses, the conditions |
| `SpeedUpdates` | the script of the speed updates, its Jobs and their restarts, the restart of the workers |
| `SharedNames` | both controllers side by side on several objects of one namespace, at the level of names, labels and owners; composes them over `MapGeneration` |
| `MC...` | instances for TLC: profiles, extracts, the specs a user may submit |
| `OSRMCluster_proofs` | type correctness, built maps, the refinement of `BlueGreen!Spec`, the recorded spec; what holds when the operator has nothing to do: the phase, no leftovers |
| `OSRMClusterSwitch_proofs` | the safe switch, for an operator nobody disturbs |
| `OSRMClusterServes_proofs` | a user who waits is served the extract asked for |
| `OSRMInstance_proofs` | types, the refinement of `OSRMCluster` and what it carries over, what holds at rest |
| `ClusterServing_proofs` | children, conditions and gateway when the operator has nothing to do |
| `SpeedUpdates_proofs` | runs that do not overlap |
| `SharedNames_proofs` | types, and that objects of different names keep to their own children and serve their own maps |
| `SequenceLemmas` | least elements, work lists, lists of lists: lemmas the proofs share |

`OSRMCluster` and `ClusterServing` are two views of one controller. The first
has generations, caches and deletion and leaves out the children no decision
about maps reads; the second has those, and of a map only whether it is built.
They share the skeleton of a pass (read, phase, builders, record, collect).

### OSRMCluster: state

* `cluster`: the OSRMCluster object - spec (`url`, the list of `profiles`),
  last applied extract, finalizer, deletion mark, pause annotation,
  `status.paused`, `status.phase`.
* A *claim* `<<profile, generation>>` stands for the name
  `<cluster>-<profile>-<generation>`, which the volume and the Job of that
  profile and generation share. `pvc` and `job` give their states, `source` the
  extract a Job was created with, `volume` the extract whose map a volume
  holds. `dep[p]` is the generation the pod template of profile `p` mounts
  (0: no Deployment), `ready` the profiles whose status shows all replicas
  ready.
* `seen`: what the caches of the kinds in `Lagging` hold. A lagging cache is a
  past state; `Sync(kind)` brings it up to date and delivers the event.
* `queued`, `pc`, `instance` (the operator's copy of the object), `stale`
  (somebody wrote the object since the copy was read), `todo` (builders left),
  `doomed` (children garbage collection has yet to delete): a running pass.
* `built` is a history variable: claims whose Job has completed at some time.
* `edits`, `faults` count against the bounds `MaxEdits`, `MaxFaults`.

### OSRMCluster and OSRMInstance: actions

| Code (`osrmcluster_controller.go`, `osrminstance_controller.go`) | Action |
|---|---|
| `Get` fails with not found | `Forget` |
| `isInitialized`, `initialize` | `Initialize` |
| `isBeingDeleted`, `cleanup` (two writes) | `MarkDeleting`, `Finalize` |
| `isPaused`, `status.paused` | `Pause` |
| the object is read, the pass goes on | `Begin` |
| lists, generations, `DeterminePhase`, phase update, choice of builders | `Plan` |
| `CreateOrUpdate` of one builder | `BuildPersistentVolumeClaim`, `BuildJob`, `BuildDeployment`; in `OSRMInstance` also `BuildServing`, `BuildCronJob`, and `AutoscalerPanics` for the nil `maxReplicas` |
| `setLastAppliedSpecAnnotation` | `SetLastAppliedSpecAnnotation` |
| `GarbageCollection` | `DeleteDeployment` (`DeleteCronJob`), `ListClaims`, `DeletePersistentVolumeClaim`, `DeleteJob`, `Finish` |
| any error return, a crash | `Abandon`, and the conflict branch of each write |

User: `EditSpec`, `PatientEdit`, `TogglePause`, `ReplaceAnnotations`, `Delete`,
`Remove...` (somebody deletes a child). Kubernetes and the map builder:
`BindVolume`, `CompleteJob`, `FailJob`, `StartWorkers`, `FailWorkers`. These are
external: they are modelled from what the code reads of them. `status.paused` is
written by `Pause` and never reset, as in the code; nothing depends on it.

In `OSRMInstance` a claim is a generation, `serving` the set of existing objects
among Service, budget and autoscaler, `cron` the generation whose volume the
CronJob works on. `AsCluster` maps its state to that of `OSRMCluster` with one
unnamed profile: `todo` without the builders that one does not have,
`gcChildren` to `gcDeployments`.

### ClusterServing

`children` is a set of pairs of a kind and an owner (a profile or the gateway);
`mapped` and `ready` are the profiles whose map is built and whose Deployment has
all replicas. Creating a Service gives it a new `address`. `config` is the list
of profiles in the nginx configuration; `siblings` the one found among the
children read when the pass began, whose hash `BuildGatewayDeployment` writes
(`hash`); `pods` what the gateway's pods were started with: template hash,
configuration, and the addresses in the environment Kubernetes gave them, which
is where `proxy_pass` takes its hosts from. `cluster` has the three conditions:
`SetConditions` computes `available` from the first Deployment listed (the
gateway's once there is one) and `allReady` from any one of them, as the code
does. `Start` is the read, the refresh of the conditions and the pause; `Plan`,
one `Build...` per builder, `Collect` once per kind in the order of the code,
`SetReconciliationSuccess` last. `left` makes the difference between users who
never come back to a list of profiles (`"edit"`) and those who do (`"return"`).

### Speed updates

`SpeedUpdates` has one action per command of `docker/speed-updates/run.sh`
(`MakeTemp`, `Download`, `CopyPartitioned`, `CustomizeOpen`, `CustomizeWrite`,
`MoveOld`, `MoveNew`, `RemoveOld`) for each run of the CronJob. `customized`,
`temp` (`customized_new`) and `old` are the directories on the volume; a
directory is absent, empty, copied (not, or not completely, customised) or
complete, and has the hour of its CSV file and the hour of the traffic data in
its map. The script has no `set -e`: a failed `cp`, `mv` or `rm` is passed over.
`mv` of a directory onto an existing one moves it inside, and fails if there is one
of its name with something in it: `old` is `"occupied"` while
`customized_old/customized` exists, `nested` says that `customized/customized_new`
does. `mv` and `rm` may also fail by themselves, which the history variable
`swapFailed` remembers (`SwapFails`, `PassOver`). Files a running
`osrm-customize` has open follow a rename (`Moved`). `Kill` may strike at any
command, in the middle of `rm -rf` too; `Restart` starts the script again on the same
directories until the back-off limit. `ReadSiblings` and `UpdateDeployment` are the two ends of a pass
of the operator that matter here. `MaxActive` bounds the Jobs running at the same
time; the CronJob itself sets no concurrency policy. Loading the map is one
step: the script's pauses before it removes the old directory are there for
that and are not modelled.

### SharedNames

`manifests` is the set of objects a behaviour is about (one member of
`Namespaces`), `existing`, `deleting` and `recorded` say which of them exist, have
a deletion timestamp, have their current spec recorded. `children` are records:
kind, name, the object that wrote it last (its label and its owner), whether that
owner is gone (`orphan`), the volume a Deployment mounts, whose map a volume
holds, whether a Job has completed. A name is the sequence of what stands
between the hyphens, put together by `ChildResourceName` as the code does, so
that `osrm` + `car` and `osrm-car` + nothing are the same name.

`pass[k]` is the reconciliation controller `k` is in. `Plan` reads volumes and Jobs
by label and Deployments by name, as the code does, and takes the phase and the
generations from `MapGeneration`; `Create`, `Update` and `AlreadyOwned` are the
three outcomes of `CreateOrUpdate` with `SetControllerReference` (no such child; one
whose owner has this kind and name, whatever its uid; somebody else's);
`SetLastAppliedSpec`; `Collect` (serving children, then fresh lists and volumes) and
`CollectJobs`. `Finalize` removes the object and leaves the children to
`CollectOrphan`, Kubernetes' own garbage collector, which comes to each at any
later time: an object created again finds some of them. `Panics` is the
OSRMCluster controller taking another object's gateway for its workers and
dereferencing the claim its first volume does not have.

A reconciliation may start at any time here, since the other modules show that no
event is missed; edits and lagging caches are theirs as well. Of the children a
phase builds, those are left out whose names and kinds repeat a Service's or that
no other object can want.

### Abstractions, and why they are sound

* A pass reads the object at its start and every pass that goes on first writes
  the refreshed conditions with that resource version, so a stale read of the
  object ends the pass without effect. The read and this write are one step;
  the object itself has no lagging cache. Later writes carry the version, hence
  `Conflict`.
* A read and the compare-and-swap write based on it are one step
  (`BuildDeployment` and its kin). A cached copy that is not the latest makes
  the write fail: `Deployment.Update` assigns the whole pod template without
  the fields the API server fills in, so `CreateOrUpdate` always finds a
  difference and sends the update.
* `Sync` jumps to the current state. A cache that catches up in several smaller
  steps shows the same decisions later, when it has caught up.
* Deleting a volume is immediate. Kubernetes delays it while a pod mounts the
  volume, but the claim cannot be used by a new pod any more: for the
  properties it is gone.
* Only the extract (`pbfUrl`) of the last applied spec is kept: it is the only
  field `DeterminePhase` compares.
* Children no decision about maps reads (Service, disruption budget,
  autoscaler, CronJob, gateway objects) are left out of `OSRMCluster`; a failed
  call on one of them is `Abandon` between two steps. `ClusterServing` has them.
* The arguments of a worker name the file of the current extract
  (`deployment.go:85`). All extracts are taken to have the same file name, like
  releases of one region: only the volume then decides what is served.
* `ClusterServing` has one generation and caches that are up to date: the phases
  of an update touch nothing but volumes, Jobs and Deployments, and what those
  do is in `OSRMCluster`. Endpoints, exposed services and the options of
  osrm-routed are fixed, with at most one option set:
  `OSRMRoutedOptions.ToString` puts several together in the random order of a Go
  map, so that every pass may write another template and start a roll-out.
* Right after a pod template changed the status may still count the old
  replicas; `BuildDeployment` leaves `ready` either way.
* Resyncs and events for writes that only touch conditions are `Wake`. It has
  no fairness: no property relies on it.

## 3. Runs

Two profiles are the fewest for which "the first Deployment" and "all
Deployments" differ; two extracts the fewest for which an edit matters. Each
edit or fault can cause at most one more generation than the map before it, so
`MaxGen = 1 + MaxEdits (+ MaxFaults)` in the passing runs; the guard that caps
generations in `Plan` never binds there. In `SharedNames` objects are created at
most `MaxLives` times: two, so that both exist or one is created again. `MaxAddress = 4` in `serving` is the most
Services its edits can create. Faults are independent of each other,
and every failure leads back to the same start of a pass from whatever state is
left, so one fault at any step shows each partial effect.

| Run | User may | Failures | Caches behind | Bounds (edits, faults) | Shows |
|---|---|---|---|---|---|
| `rollout` | edit the extract, pause, replace annotations, delete | failed Job, failed pods | - | 3, 1 | `TypeOK`; `SwitchesMapsSafely`: the safe blue-green switch is implemented; `WorkersHaveMap`, `MountedVolumesQuiet`, `BlueAndGreenOnly` |
| `failures` | edit extract and profiles, delete children | failed call or crash anywhere, failed Job, failed pods | - | 2, 1 | `SwitchesMaps`: the blue-green switch is still implemented; `BuiltBeforeDeployed`, `QuiescentPhase`, `NoLeftovers`, `LastAppliedIsCurrent` |
| `patient` | edit, one field at a time, when all is settled | as `failures` | Jobs, Deployments | 3, 1 | `ServesSpec`, `QuiescentPhase`, `NoLeftovers`, `BuiltBeforeDeployed` |
| `convergence` | edit extract and profiles, pause, delete | failed call or crash (except within the deletions of garbage collection), failed pods | - | 2, 1 | `Converges`, `DeletionCompletes`; `BlueAndGreenOnly`, after failed passes and edits of the profiles too |
| `instance` | edit the extract together with speed updates or maxReplicas, pause, delete, delete one serving object | failed call or crash, failed Job, failed pods | Deployments | 2, 1 | `TypeOK`, `ImplementsCluster`, `SwitchesMaps`, `QuiescentPhase`, `NoLeftovers`, `ServingAtRest`, `Converges` |
| `serving` | edit profiles, autoscaler, speed updates, pause | failed call or crash, failed pods | - | 2, 1 | `TypeOK`, `ChildrenMatchSpec`, `GatewayRoutesWorkers`, `ConditionsCurrent`, `Converges` |
| `speed_updates` | - | kills and failing commands, failing calls, failing workers | - | 4 hours, 3 faults, 1 restart per Job, no overlap | `TypeOK`, `NoTornMap`, `FreshTraffic`, `MapReturns` |
| `shared_names` | create and delete two objects that want the same names, create one again | failed call or crash anywhere | - | 2 creations, 1 | `TypeOK`, `NeverForeignMap`, `KeepsToOwn`, `SurvivorServes`; pairs: two OSRMClusters `osrm` with profile `car` and `osrm-car`; OSRMCluster `osrm` and OSRMInstance `osrm-car` |
| `overtaken_edit` | edit the extract | - | - | 2, 0 | violation of `ServesSpec` |
| `half_collected` | edit extract and profiles | a crash within garbage collection | - | 2, 1 | violation of `Converges` |
| `overlapping_updates` | - | - | - | 2 hours, 2 Jobs at a time | violation of `MapInPlace` |
| `namesakes` | create and delete an OSRMCluster and an OSRMInstance of one name | - | - | 2 creations, 0 | violation of `KeepsActive` |

Deadlock is checked except in `rollout`, `convergence`, `instance`, `shared_names`
and `namesakes`, where the objects can be deleted and the system stops.

Limits of the passing runs, all found by checking the stronger form:

* `SwitchesMapsSafely`, `WorkersHaveMap` and `MountedVolumesQuiet` are about a
  fixed list of profiles, up-to-date caches, no failing calls and nobody who
  deletes children. Each of the four is needed; three edits are enough to break
  them otherwise. With edits of the profiles, or a redeployment that stops after
  the first one, Deployments come to mount different generations, and the
  generation of the first is taken for that of all when the next update follows.
  A Job somebody deletes is created again under running workers. Caches that lag hide
  new generations or show what is gone. Only failures within
  garbage collection and lists that fail were not seen to break anything here.
* `ServesSpec` needs a user who waits and who does not change extract and
  profiles in one edit: a joint edit sends the phase back to `BuildingMap` for
  the new profile and records the new extract without an update of the others.
* `ServesSpec` also needs a volume cache that is up to date. One write behind,
  the pass after the one that created the new volume sees no new generation and
  an extract already recorded; the phase is `WorkersDeployed`, and garbage
  collection, which lists again, deletes the new volume.
* `QuiescentPhase` and `NoLeftovers` do not hold when one of the three lists of
  `Reconcile` fails, since their errors are dropped (lines 194-196) and the pass
  ends as a success: no passing run has `"list"` in `Failures`. The theorems
  below do cover it.
* `Converges` of `OSRMCluster` is checked without failing Jobs, that of
  `OSRMInstance` excepts them: a failed Job counts as one in progress and is
  never replaced, even if a wrong URL is corrected.
* `Converges` of `OSRMCluster` is not claimed for lagging caches: a pass may then
  run the worker builders with an older generation.
* `BlueAndGreenOnly` is checked with the caches up to date and nobody else deleting
  children (`rollout`, and with failed passes and edits of the profiles
  `convergence`). Under these conditions it also held with 3 edits and 2 faults
  (18 million states, too many for a run kept here), and so did that workers never
  go back to an older generation. Two faults, three edits and a deleted volume
  together do take workers back: a redeployment that stops half way and edits of
  the profiles leave the first profile on the older generation, somebody deletes
  the newer volume of the other, and the next pass takes the older generation for
  that of all.
* `ImplementsCluster` excepts the step `AutoscalerPanics`, which `OSRMCluster`
  does not have.
* The recovery in `Converges` of `OSRMInstance` is all there is for an instance
  without `maxReplicas`: until the field is set, every pass panics at the
  autoscaler (`horizontal_pod_autoscaler.go:51`), and budget, CronJob, the recorded
  spec and garbage collection never come to pass, although
  `osrminstance_types.go:39` makes the field optional ("enables HPA when set").
* `GatewayRoutesWorkers` is checked for users who never come back to an earlier
  list of profiles (`"edit"` in `UserOps`). With `"return"` it fails: the gateway's
  pods are replaced when the nginx configuration changes (`gateway_deployment.go:127`),
  but the addresses they use are those of their start; a profile removed,
  collected and added again before the configuration was rewritten has a
  Service with a new address under the old configuration and hash.
* `SurvivorServes` excepts `TakenForBuilt`. An object deleted and created again
  before Kubernetes has removed its children may take over the completed Job of
  its former self next to a new, empty volume: the map counts as built and its
  workers never start, as in `half_collected`.
* `KeepsToOwn` excepts Jobs garbage collection had listed before: it deletes by
  name, and with a third creation another object's Job may have taken the name.
* `NeverForeignMap` is claimed for objects in their first life. One created again
  counts the volumes and Jobs that still bear its label as its own and may deploy
  on a volume left over from its former self, which is then removed and created
  by its rival under the same name: with the OSRMCluster created three times and
  then the OSRMInstance, TLC finds the workers of one on the map of the other. For first
  lives it is proved.
* Two OSRMClusters that want the same names may each hold the child the other
  lacks (one has a Deployment and wants the Service, the other the reverse):
  neither serves while both exist. `SurvivorServes` says no more than that the
  knot comes undone when one of them is deleted.
* `serving` leaves out a failure of the last status write of a pass: it is only
  logged, and `ReconciliationSuccess` stays as it was. The autoscaler of a
  profile of the spec that no longer sets its bounds is never collected;
  `ChildrenMatchSpec` excepts it, and nothing else: the gateway's children have to
  exist, and the autoscalers of removed profiles to be gone. The conditions are checked to be current, not to say what their
  names suggest.
* `NoTornMap`, `FreshTraffic` and `MapReturns` need runs that do not overlap.
  `MapReturns` is about a schedule that goes on for longer than the faults: a Job
  killed between its two `mv` commands whose restarts are used up leaves the
  workers without a map until a later run puts one there.
* `FreshTraffic` does not say that a run that succeeds always leaves its own data. Two
  attempts killed between the second `mv` and the end of `rm -rf` (`run.sh:59-64`)
  leave a map in `customized_old/customized`. If the Job's restarts are used up then, the
  first `mv` of the next run fails, its map is moved into the served directory, and the
  script ends as a success; workers restart with the data of the failed Job. TLC finds
  this when the plain `lastSuccess <= worker.loaded` is checked. The property
  excepts that one run (`AsFreshAs`): every other success lies before the failed
  Job, so the run after it has to swap the maps again. An `mv` or `rm` that fails
  with nothing in its way is excepted too (`swapFailed`): the script then ends as a
  success without a swap, or with the old map still there.
* An operator that dies after the last builder and before the annotation of
  the very first pass finds no last applied spec and builds the same map again
  as generation 2: needless work, no violation.

### Fairness

`FairSpec` assumes weak fairness of `Reconcile` (the work queue hands out a
queued key and a pass runs on until it returns: every call returns or times
out), of `Progress` (Kubernetes binds volumes, Jobs that can complete do, pods
that have a map start), and of `Sync` of each kind (informers deliver). Users
and failures have none; faults are bounded, so failures finally stop. Retries
need no fairness of their own: an error puts the key back in the queue, which
keeps `Reconcile` enabled. In `SpeedUpdates`, `FairSpec` assumes that the hours come, that a Job's
script runs on and is started again, and that a complete Job is counted; nothing is
assumed of the operator and the workers. In
`SharedNames` it assumes that some reconciliation goes on, that some Job that can
complete does, and that orphans are removed.

### Where code and its comments disagree

`Reconcile` is documented to "compare the state specified by the OSRMCluster
object against the actual cluster state, and then perform operations to make the
cluster state reflect the state specified by the user"
(`osrmcluster_controller.go:119-122`).

1. `overtaken_edit`: the extract goes into a Job only at its creation
   (`job.go:112-122`), but every pass over the builders records the current spec
   as applied. An edit while the first map is built is thereby taken for done;
   the old map is served for good.
2. `half_collected`: volumes are deleted before Jobs. Stopped in between, a
   completed Job is left without its volume; when the profile comes back, the
   new empty volume counts as built, and its workers never start.
3. `overlapping_updates`: two runs of the speed updates share the temporary and
   the old directory. The second moves away the map the first has just put in
   place, has nothing to put there itself, and deletes it: both succeed, and
   workers that start find no map. "Atomically replace the old directory", "This
   minimizes the time the directory is unavailable" (`run.sh:52-53`).
4. `namesakes`: garbage collection lists volumes and Jobs by a label that holds the
   object's name but not its kind (`labels.go:22-24`). An OSRMCluster deletes the
   volume and the Job of an OSRMInstance of the same name although its
   Deployment runs on that volume. "Always keep the active generation (what deployments
   are currently using)" (`osrmcluster_controller.go:726`).

## 4. Proofs

All theorems hold for every value of the constants that satisfies the assumptions
of the module: the specs are well typed, "no extract" is not an extract, bounds
are naturals, and (`LaggingAssumption`) only the caches of volumes, Jobs and
Deployments can lag. So they hold for any number of profiles, extracts, specs,
edits, faults and generations. Where a theorem needs more, the hypothesis is
named in its `ASSUME`:

| Hypothesis | Says | Why it is needed | A run that satisfies it |
|---|---|---|---|
| `ListsSucceed` | `"list"` is no possible failure | `Reconcile` drops the errors of its lists and ends as a success: the phase of an empty cluster stays | `failures`, `patient`, `instance` |
| `Undisturbed` | one list of profiles, no failing call, nobody else deletes children, caches keep up | each of these alone breaks the safe switch (limits above); that failures of lists and within garbage collection do not is only known from TLC | `rollout`; for an instance see `SwitchesMapsSafelyTheorem` |
| `NoOverlap` | one speed update at a time | `overlapping_updates` shows what happens otherwise | `speed_updates` |
| `Patient` | the user changes one field at a time and only when all is settled, or deletes the object; lists succeed; the volume cache keeps up | `overtaken_edit`; the other three in the limits above | `patient` |
| `DistinctNames` | no two objects of a namespace have one name, not even of two kinds | `namesakes`: garbage collection goes by that name | `shared_names` |
| no `"return"` | users never come back to an earlier list of profiles | the gateway keeps the addresses of its start | `serving` |

None of them restricts the interleavings: the user, Kubernetes and the operator
overtake each other anywhere.

### OSRMCluster, under all failures (`OSRMCluster_proofs`)

Also with all caches lagging and dropped list errors:

* `TypeCorrect`: `Spec => []TypeOK`. One lemma per group of actions;
  `PlanDecides` states what `Plan` computes (the phase is a phase, the builders
  are well-typed claims within the bound).
* `BuiltInvariant`: `Spec => []BuiltBeforeDeployed`, and from it
  `BlueGreenSafety`: `Spec => []DeployedMapWasBuilt`. That every Deployment
  mounts a generation whose Job completed is not inductive alone: it also needs
  that a Job seen complete, in the cluster or in a stale cache, did complete
  (`built` never shrinks, although Jobs are deleted and created again), and that
  every Deployment builder still in `todo` is for such a claim. The heart is
  `PhaseOfWorkers` with `BuildersOfPhase`: worker builders are only chosen when
  no profile has map building in progress at the generation they mount, for any
  combination of active and newest generation.
* `ImplementsBlueGreen`: `Spec => SwitchesMaps`, that is, `OSRMCluster` with the
  refinement mapping `Maps` implements `BlueGreen!Spec`. Initial states map to
  initial states; every action is a `Build`, `Discard`, `Switch` or `Retire`, or
  leaves the mapped state alone. `Switch` needs that the map was built, which is
  the invariant above; `Build` needs that a completing Job has an extract, for
  which `JobsHaveSource` (a Job that exists was created with one) is proved as an
  invariant of its own.
* `LastAppliedTheorem`: `Spec => LastAppliedIsCurrent`, from the auxiliary
  invariant `CopyIsCurrent` (while nobody wrote the object, the operator's copy
  of the spec is the object's): the resource version, not the timing, protects
  the annotation.

### OSRMCluster at rest (`OSRMCluster_proofs`)

* `QuiescentPhaseTheorem` and `NoLeftoversTheorem` (`ListsSucceed`). Both speak of
  an idle operator with an empty queue, and say nothing that is inductive: what
  the operator found when it last looked is gone from the state. The inductive
  `NothingMissed` says, for each place in a pass, what has been established so
  far, as long as nothing is queued: after `Begin` the copy is the object's,
  after `Plan` the phase is that of the children, after each step of garbage
  collection nothing unexpected of that kind is left but what is still in
  `doomed`, and at the end all of it.
* `EveryChangeWakes`: the lemma that carries it, stated as an action property of its
  own: a step after which nothing is queued changed neither the object nor
  anything the caches show.

### OSRMCluster, undisturbed (`OSRMClusterSwitch_proofs`)

* `SwitchInvariant`: the inductive `SwitchInv` relates what is mounted, what is
  about to be mounted and what is about to be deleted. Every mounted volume is
  bound, holds a map and has a completed Job (`MountedSound`); so does the volume
  of every Deployment builder in `todo`, all of these are of one generation, not
  older than what they replace (`TargetsSound`); Deployments not waiting in `todo`
  agree on their generation (`OneGeneration`), which is why the generation of
  the first one may be taken for all; nothing in `doomed` is mounted, and a Job
  whose volume goes is in `doomed` too (`DoomedUnused`), so that no completed Job
  is left without its volume (`JobsFilled`) once a pass is over.
* From it `WorkersHaveMapTheorem`, `MountedVolumesQuietTheorem`
  and `ImplementsSafeSwitch` (`Spec => SwitchesMapsSafely`: maps in use are neither
  discarded nor rebuilt, switches go forward to stored maps).
* For the use of these results elsewhere the module ends with what a step keeps
  when a pass may also be lost half way (`PassLost`, which no failure of this
  controller's own model is but the panic of the other one): `MapsInOrder` and the
  refinement of the switch always, `NothingMissed` as before, and `SwitchInv`
  with one profile, since with several a lost pass leaves Deployments of two
  generations.
* `BlueAndGreenTheorem`: with `NoFurther` (no volume that exists or is planned is
  more than one generation ahead of its profile's Deployment) and
  `NothingMissed`. Failed calls and edits of the profiles are TLC's (`convergence`).

### The user is served what was asked for (`OSRMClusterServes_proofs`)

* `ServesSpecTheorem` (`Patient`): `Spec => []ServesSpec`, with failing calls,
  Jobs and pods, crashes anywhere, caches of Jobs and Deployments behind, and
  deletion at any time. `ServesSpec` is about the moment all is done; in between the
  extract of the spec, of the annotation, of the Jobs, of the volumes and of what is
  mounted differ. The inductive `PatientInv` says how they can differ. While the
  object lives (`Live`), the pass under way works on it (`Orderly`), and it is in one
  of three situations: `NoWorkers` (none of the profiles asked for has a Deployment,
  and only the extract asked for has been built from), `NewExtract(g)` (all workers
  are on generation `g`, and another extract is being built as `g + 1`), `Recorded(g)`
  (the extract asked for is recorded and is that of generation `g`, to which the
  workers move and where they stay).
* Few steps lead from one situation to another, and each is a lemma: the first
  Deployment, the user's edit, the annotation, the exchange of the profiles.
  Everything else - Kubernetes, the caches, lost passes - is `Drift`, and what drifts
  stays where it is. The user's edit is where patience is used: it comes when
  nothing is queued, so `NothingMissed` says that all volumes and Jobs are of the
  generation served.
* It rests on `PatientSound`: types, `NothingMissed`, that Jobs were created with an
  extract, that only profiles with a Deployment are ready, and `AbsentIsBlank` (what
  does not exist has no extract and no map, so that a generation number that is
  used again carries nothing over).

### The serving half (`ClusterServing_proofs`)

* `TypeCorrect`; the type of the builders comes from `SetOfConcatenation` and
  `SetOfFlattened` (`SequenceLemmas`), since the phases put their lists together
  from one list per profile.
* `ConditionsCurrentTheorem`: `Reported` (unless something is queued, the
  conditions are those that would be computed now) is inductive because of
  `QuietSteps`: a step after which nothing is queued changed nothing the
  conditions are computed from.
* `ChildrenMatchTheorem`, from `WorkInvariant`: `WorkDone` says that what is
  missing is still in `todo`, and what is too much is of a kind `todo` has yet to
  collect. At rest the builders' children exist, the gateway's included, and no other
  is left that garbage collection does not expect; what it expects and no builder
  builds is an autoscaler of a profile of the spec (`ExpectedIsBuilt`,
  `ExpectedAutoscaler`).
* `GatewayRoutesTheorem` (no `"return"`): `GatewayDone` follows configuration and
  hash through a pass; `OnlyForward` says that everything written so far - the
  configuration, the hash, the pods' template - is of a list of profiles the user
  has left or of the present one, and that whatever is of the present one agrees
  with the configuration. Coming back to an earlier list breaks just that.

### OSRMInstance (`OSRMInstance_proofs`)

With all failures, crashes and lagging caches, no hypothesis needed:

* `TypeCorrect`: `Spec => []TypeOK`.
* `ImplementsClusterTheorem`: `Spec => ImplementsCluster`, the refinement of
  `OSRMCluster` with the single profile `Unnamed`. The two controllers are separate
  code, and each was modelled from its own: the decisions are shown equal first
  (`SameActive`, `SameFuture`, `SamePhase`, `SameExpected`, `SameBuilders`; a generation
  here is a claim of the one profile there), then each action is matched
  (`...Implements`). Builders of Service, budget, autoscaler and CronJob are
  stutters, which is only right because `todo` without them is the list
  `OSRMCluster` would have: `PassOK` says that the map builders and the Deployment come
  in one order, that the object keeps its finalizer while a pass runs, and that
  nothing is doomed outside garbage collection. The step excepted is the panic
  of the autoscaler.
* `ServesAtRest`: `Spec => []ServingAtRest`. As in `OSRMCluster_proofs` the
  inductive `NothingMissed` says for each place of a pass what it has established
  while nothing is queued; `ServedOnceBuilt` ties the builders still in `todo` to the
  generation the operator sees mounted, through which the CronJob follows the
  workers from one volume to the next. It needs no `ListsSucceed`: a pass that sees no
  Deployment, because it has none or because the list failed, does not report
  the workers deployed (`ReadyOnlyDeployed`).

What is proved of `OSRMCluster` then holds here as well, without a second proof of
each invariant. `Cluster` is an instance of the module `OSRMClusterSwitch_proofs` under
the same substitution as `AsCluster`; `SameSteps` shows the two instances to be
the same formula, `ClusterAssumptions` that the constants satisfy the assumptions of
those proofs, and `NextIsClusterStep` that every step, the panic included, is a step
of `OSRMCluster` or a `PassLost`. The invariants of that module, read through the
refinement mapping, give:

* `SwitchesMapsTheorem`: `Spec => SwitchesMaps`, no hypothesis: the blue-green switch
  is implemented whatever fails, lags or panics.
* `QuiescentPhaseTheorem` and `NoLeftoversTheorem` (`ListsSucceed`).
* `SwitchesMapsSafelyTheorem` (`Undisturbed`): the lost Deployment builder of a
  panicking pass is harmless because an instance has only one Deployment
  (`ClusterUndisturbed`). TLC finds the same in the model of the run `instance` with
  `Failures = {"job", "pods"}`, no lagging cache and 3 edits (87 644 states); no run
  is kept for it.

### Speed updates (`SpeedUpdates_proofs`)

* `TypeCorrect`, also for runs that overlap. It needs `Scheduled` (no run starts
  before its hour) to bound the hours in the directories.
* `NoTornMapTheorem`, `FreshTrafficTheorem` (`NoOverlap`), from `UpdatesInvariant`:
  one run at a time (`Single`), newer than the last successful one (`InOrder`);
  for each command what the temporary directory holds when it is reached
  (`Prepared`), which after a restart is established again by the commands
  that precede it; the directory of the workers absent, or complete and as fresh
  as the last success calls for (`InPlace`); the annotation on its way to the
  workers (`WorkersTold`). Why a run may leave the served directory where it is when
  the old one is occupied is `OldLeft`: while the old directory exists, the map in
  place is that of a run newer than all successes, this one itself or one that
  has failed for good.

### Names (`SharedNames_proofs`)

For any namespaces (any number of objects that compete for any names), and any
number of generations, creations and faults; the module assumes that profiles are
lists and kinds those of the two controllers (`ObjectsAssumption`,
`BoundsAssumption`), and that different numbers have different numerals
(`NumeralsAssumption`: the library does not define `ToString` for the provers).

* `TypeCorrect`, from `NamesInv`. It says more than types: no two children have one kind
  and name, only children of an object that is gone are orphans, and a
  reconciliation is of one object, which exists until it is over. The last is why
  `Finalize` has to wait for the reconciliation. `BuildersMount` is the lemma about
  the builders of all phases; `ChildrenReplaced` the one the steps that create or
  change children share.
* `KeepsToOwnTheorem` (`DistinctNames`): `Spec => KeepsToOwn`. An update looks at the owner
  (`UpdateKeepsOwn`); garbage collection does not, but selects by label, and a label is
  the name of one object only (`LabelledIsOwn`): this is where two objects of one
  name lose their children to each other.
* `NeverForeignMapTheorem` (`DistinctNames`): `Spec => []NeverForeignMap`, for objects in
  their first life, whatever the other objects do in how many lives. The
  inductive `MapsInv` says why a name that others want too is safe once it is
  mounted. A Job that has completed has put its owner's map into the volume of its
  name (`JobMaps`); a reconciliation builds a Job only beside a volume of its own
  (`VolumeFirst`: the order of `MapBuilders`), so nobody else's Job ever fills the
  volume of an object (`Secure`); and that volume stays, because all an object mounts
  is of one generation (`Settled`), which the active generation cannot miss, as the
  first profile's Deployment is the first an object gets (`LeaderFirst`) and nobody
  else takes its name. The last is where other objects could do harm: before it has
  a Deployment of its own an object may well take another's for it, and its
  generation for the active one. A recreated object has orphans of its former self, which
  count as its own and then go: `Secure` is not kept. TLC checked the invariant
  first, also with two profiles, an unnamed one, no profile, three and four
  creations.

### Where induction would be needed

The provers cannot use induction over data. Two things stand in for it: least
elements of sets of naturals (`LeastNatural`, from the well-foundedness of `<`),
for the generation chosen by `GetFutureMapGeneration` and the recursive function
behind `FlattenSeq`; and statements about a work list as a set, `WorkTaken`, for
the loops over builders and children.

### Model-checked only

* Liveness: `Converges`, `DeletionCompletes`, `MapReturns`, `SurvivorServes`. Liveness
  under fairness is outside what the prover does.

Every invariant and every action property of the passing runs is a theorem, but for
these liveness properties.

## 5. Plan

Done: both controllers, their children, the conditions, the speed updates and the
names, the abstract specification of the map switch and the refinements, their
runs, the proofs about `OSRMCluster`, `OSRMInstance`, `ClusterServing`,
`SpeedUpdates` and `SharedNames`, `ServesSpec` for the user who waits and
`NeverForeignMap` for objects in their first life among them. What could follow:

1. `ServesSpec` for an instance, carried over through the refinement: the panic of
   the autoscaler as one more lost pass (`Drift`).
2. The order of the arguments and the file name of the workers' map, with the OSRM
   tools as an external component.

## 6. Not modelled

* Children nobody but the user made: `GetFutureMapGeneration` fails on a labelled
  volume whose name is not one of the operator's, and the pass with it.
* The steps of the map builder's script: whether the OSRM tools notice what a
  killed attempt or a failed download left in the directories is not in this
  repository. A completed Job is taken to have built its map.
* API types, defaults and deep copies: data and generated code.
* `main.go`: flags and wiring; one worker per controller is assumed, which is the
  default, and leader election belongs to the library.
* Numbers: replicas, `minAvailable`, resource requests; images, affinity, ports
  and other content of children no decision reads.
* Reasons, messages, times and `observedGeneration` of the conditions; logging and
  Kubernetes events.
