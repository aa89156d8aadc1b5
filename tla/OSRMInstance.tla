---------------------------- MODULE OSRMInstance ----------------------------
(***************************************************************************)
(* The OSRMInstance controller: one OSRMInstance object, which is one      *)
(* profile without a name, its volumes, Jobs and Deployment, and the       *)
(* objects it serves with: Service, PodDisruptionBudget,                   *)
(* HorizontalPodAutoscaler and the CronJob of the speed updates.           *)
(*                                                                         *)
(* The controller repeats the code of the OSRMCluster controller.  It is   *)
(* modelled here from its own code, one action per call that changes the   *)
(* cluster, with the conventions of OSRMCluster (stale, Lagging, seen);    *)
(* that it behaves like OSRMCluster with a single profile is a property.   *)
(* A claim is named by its generation alone.                               *)
(***************************************************************************)
EXTENDS Integers, Sequences

CONSTANTS
  URLs,        \* OpenStreetMap extracts a spec may ask for
  NoUrl,       \* no extract: an empty volume, no last applied spec
  Specs,       \* the specs a user may submit
  FirstSpec,   \* the spec the object is created with
  UserOps,     \* which of the user's operations a run allows
  Failures,    \* which failures a run allows
  Lagging,     \* the child kinds whose informer cache may be behind
  MaxGen,      \* bound on map generations
  MaxEdits,    \* bound on the user's operations
  MaxFaults,   \* bound on failed calls, crashes, failed Jobs, failed pods
  MaxLosses    \* bound on serving objects somebody else deletes

ASSUME InstanceAssumption ==
  /\ NoUrl \notin URLs
  /\ Specs \subseteq [url : URLs, maxReplicas : BOOLEAN, speedUpdates : BOOLEAN]
  /\ FirstSpec \in Specs
  /\ Lagging \subseteq {"PersistentVolumeClaim", "Job", "Deployment"}
  /\ MaxGen \in Nat \ {0} /\ MaxEdits \in Nat
  /\ MaxFaults \in Nat /\ MaxLosses \in Nat

VARIABLES
  object,    \* the OSRMInstance: spec, annotations, finalizer, status
  pvc, volume, job, source,   \* generation |-> its claim, as in OSRMCluster
  dep,       \* generation the Deployment mounts, 0 if there is none
  ready,     \* the Deployment reports all replicas ready
  serving,   \* which of Service, PodDisruptionBudget, autoscaler exist
  cron,      \* generation whose volume the CronJob updates, 0 if none
  seen,      \* what the caches of the lagging kinds hold
  queued, pc, instance, stale, todo, doomed,   \* as in OSRMCluster
  edits, faults, losses,
  built      \* history: generations whose Job completed at some time

maps     == <<pvc, volume, job, source, dep, ready, built>>
children == <<maps, serving, cron>>
local    == <<instance, stale, todo, doomed>>
bounds   == <<edits, faults, losses>>
vars == <<object, children, seen, queued, pc, local, bounds>>

M == INSTANCE MapGeneration

Gen == 1 .. MaxGen
Kinds == {"PersistentVolumeClaim", "Job", "Deployment"}
ServingKinds == {"Service", "PodDisruptionBudget", "HorizontalPodAutoscaler"}
BuilderKinds == Kinds \cup ServingKinds \cup {"CronJob"}
PvcState == {"Absent", "Pending", "Bound"}
JobState == {"Absent", "Active", "Complete", "Failed"}
InstanceSpec == [url : URLs, maxReplicas : BOOLEAN, speedUpdates : BOOLEAN]
OldUrl == URLs \cup {NoUrl}
NoInstance == [spec |-> FirstSpec, lastApplied |-> NoUrl, phase |-> M!Empty]
NothingDoomed == [cron |-> FALSE, pvc |-> {}, job |-> {}]

ObjectTypeOK ==
  /\ object \in [exists : BOOLEAN, spec : InstanceSpec, lastApplied : OldUrl,
                 finalizer : BOOLEAN, deleting : BOOLEAN, paused : BOOLEAN,
                 statusPaused : BOOLEAN, phase : M!Phase]
  /\ queued \in BOOLEAN
  /\ edits \in 0 .. MaxEdits /\ faults \in 0 .. MaxFaults
  /\ losses \in 0 .. MaxLosses

ChildrenTypeOK ==
  /\ pvc \in [Gen -> PvcState] /\ volume \in [Gen -> OldUrl]
  /\ job \in [Gen -> JobState] /\ source \in [Gen -> OldUrl]
  /\ dep \in 0 .. MaxGen /\ ready \in BOOLEAN
  /\ serving \in SUBSET ServingKinds /\ cron \in 0 .. MaxGen
  /\ built \in SUBSET Gen
  /\ seen \in [pvc : [Gen -> PvcState], job : [Gen -> JobState],
               dep : 0 .. MaxGen, ready : BOOLEAN]

ReconcileTypeOK ==
  /\ pc \in {"idle", "finalize", "plan", "build", "gcChildren", "gcClaims"}
  /\ instance \in [spec : InstanceSpec, lastApplied : OldUrl, phase : M!Phase]
  /\ stale \in BOOLEAN
  /\ todo \in Seq([kind : BuilderKinds, gen : Gen])
  /\ doomed \in [cron : BOOLEAN, pvc : SUBSET Gen, job : SUBSET Gen]

TypeOK == ObjectTypeOK /\ ChildrenTypeOK /\ ReconcileTypeOK

Init ==
  /\ object = [exists |-> TRUE, spec |-> FirstSpec, lastApplied |-> NoUrl,
               finalizer |-> FALSE, deleting |-> FALSE, paused |-> FALSE,
               statusPaused |-> FALSE, phase |-> M!Empty]
  /\ pvc = [g \in Gen |-> "Absent"] /\ volume = [g \in Gen |-> NoUrl]
  /\ job = [g \in Gen |-> "Absent"] /\ source = [g \in Gen |-> NoUrl]
  /\ dep = 0 /\ ready = FALSE /\ built = {}
  /\ serving = {} /\ cron = 0
  /\ seen = [pvc |-> pvc, job |-> job, dep |-> dep, ready |-> ready]
  /\ queued = TRUE /\ pc = "idle"
  /\ instance = NoInstance /\ stale = FALSE
  /\ todo = << >> /\ doomed = NothingDoomed
  /\ edits = 0 /\ faults = 0 /\ losses = 0

-----------------------------------------------------------------------------
(* Events and caches.                                                      *)

(* Mutants of Watched: the controller does not own the Services, the Jobs. *)
JobsUnwatched == (BuilderKinds \cup {"OSRMInstance"}) \ {"Job"}
ServicesUnwatched == (BuilderKinds \cup {"OSRMInstance"}) \ {"Service"}

Watched == BuilderKinds \cup {"OSRMInstance"}

Notify(kind) == queued' = (queued \/ kind \in Watched \ Lagging)

PvcView == IF "PersistentVolumeClaim" \in Lagging THEN seen.pvc ELSE pvc
JobView == IF "Job" \in Lagging THEN seen.job ELSE job
DepView == IF "Deployment" \in Lagging
             THEN [dep |-> seen.dep, ready |-> seen.ready]
             ELSE [dep |-> dep, ready |-> ready]

Current(kind) ==
  CASE kind = "PersistentVolumeClaim" -> [seen EXCEPT !.pvc = pvc]
  []   kind = "Job" -> [seen EXCEPT !.job = job]
  []   kind = "Deployment" -> [seen EXCEPT !.dep = dep, !.ready = ready]

Sync(kind) ==
  /\ kind \in Lagging /\ seen # Current(kind)
  /\ seen' = Current(kind)
  /\ queued' = (queued \/ kind \in Watched)
  /\ UNCHANGED <<object, children, pc, local, bounds>>

Wake ==
  /\ object.exists /\ ~queued
  /\ queued' = TRUE
  /\ UNCHANGED <<object, children, seen, pc, local, bounds>>

-----------------------------------------------------------------------------
(* The beginning of a reconciliation, up to the early returns.             *)

Dequeue == pc = "idle" /\ queued

Forget ==
  /\ Dequeue /\ ~object.exists
  /\ queued' = FALSE
  /\ UNCHANGED <<object, children, seen, pc, local, bounds>>

Initialize ==
  /\ Dequeue /\ object.exists /\ ~object.finalizer
  /\ object' = [object EXCEPT !.finalizer = TRUE]
  /\ UNCHANGED <<children, seen, queued, pc, local, bounds>>

Running == object.exists /\ object.finalizer /\ ~object.deleting

MarkDeleting ==
  /\ Dequeue /\ object.exists /\ object.finalizer /\ object.deleting
  /\ object' = [object EXCEPT !.phase = M!Deleting]
  /\ stale' = FALSE
  /\ pc' = "finalize"
  /\ UNCHANGED <<children, seen, queued, instance, todo, doomed, bounds>>

Pause ==
  /\ Dequeue /\ Running /\ object.paused
  /\ object' = [object EXCEPT !.statusPaused = TRUE]
  /\ queued' = ~object.statusPaused
  /\ UNCHANGED <<children, seen, pc, local, bounds>>

Begin ==
  /\ Dequeue /\ Running /\ ~object.paused
  /\ instance' = [spec |-> object.spec, lastApplied |-> object.lastApplied,
                   phase |-> object.phase]
  /\ stale' = FALSE
  /\ queued' = FALSE
  /\ pc' = "plan"
  /\ UNCHANGED <<object, children, seen, todo, doomed, bounds>>

Discard ==
  /\ pc' = "idle"
  /\ instance' = NoInstance
  /\ stale' = FALSE
  /\ todo' = << >>
  /\ doomed' = NothingDoomed

Retry == Discard /\ queued' = TRUE

Fault(what) ==
  what \in Failures /\ faults < MaxFaults /\ faults' = faults + 1

Abandon ==
  /\ pc # "idle"
  /\ Fault(IF pc = "gcClaims" THEN "collect" ELSE "call")
  /\ Retry
  /\ UNCHANGED <<object, children, seen, edits, losses>>

Finalize ==
  /\ pc = "finalize"
  /\ \/ stale /\ Retry /\ UNCHANGED object
     \/ /\ ~stale
        /\ object' = [object EXCEPT !.finalizer = FALSE, !.exists = FALSE]
        /\ Discard /\ queued' = TRUE
  /\ UNCHANGED <<children, seen, bounds>>

-----------------------------------------------------------------------------
(* The decisions.                                                          *)

Existing(pvcs)  == {g \in Gen : pvcs[g] # "Absent"}
Bound(pvcs)     == {g \in Gen : pvcs[g] = "Bound"}
Completed(jobs) == {g \in Gen : jobs[g] = "Complete"}

Unnamed == ""

(* Mutant of GetActiveMapGeneration: without a Deployment there is none.   *)
NoDefaultGeneration(deployed) == deployed

GetActiveMapGeneration(deployed) == IF deployed = 0 THEN 1 ELSE deployed

GetFutureMapGeneration(pvcs) ==
  M!GetFutureMapGeneration({Unnamed} \X Existing(pvcs))

(* Mutant of IsMapBuildingInProgressForInstance: the Jobs are not looked at.*)
VolumeUnbound(g, pvcs, jobs) == g \notin Bound(pvcs)

IsMapBuildingInProgressForInstance(g, pvcs, jobs) ==
  g \notin Bound(pvcs) \cap Completed(jobs)

(* There is no phase Empty: an instance always has its profile.            *)
DeterminePhase(spec, oldUrl, active, future, pvcs, jobs, isReady) ==
  LET InProgress(g) == IsMapBuildingInProgressForInstance(g, pvcs, jobs)
  IN  IF InProgress(active) THEN M!BuildingMap
      ELSE IF spec.url # oldUrl \/ InProgress(future) THEN M!UpdatingMap
      ELSE IF active # future THEN M!RedeployingWorkers
      ELSE IF isReady
        THEN IF active > 1 THEN M!WorkersRedeployed ELSE M!WorkersDeployed
        ELSE IF active > 1 THEN M!RedeployingWorkers ELSE M!DeployingWorkers

Builder(kind, g) == [kind |-> kind, gen |-> g]

MapBuilders(g) == <<Builder("PersistentVolumeClaim", g), Builder("Job", g)>>

DeployingWorkersPhaseBuilders(g) ==
  <<Builder("Deployment", g), Builder("Service", g),
    Builder("PodDisruptionBudget", g), Builder("HorizontalPodAutoscaler", g)>>

WorkersDeployedPhaseBuilders(spec, g) ==
  <<Builder("Service", g), Builder("HorizontalPodAutoscaler", g),
    Builder("PodDisruptionBudget", g), Builder("Deployment", g)>>
  \o (IF spec.speedUpdates THEN <<Builder("CronJob", g)>> ELSE << >>)

ResourceBuildersForPhase(phase, spec, active, future) ==
  CASE phase = M!BuildingMap -> MapBuilders(active)
  []   phase = M!UpdatingMap -> MapBuilders(M!GetNextMapGeneration(active))
  []   phase = M!RedeployingWorkers -> <<Builder("Deployment", future)>>
  []   phase = M!DeployingWorkers -> DeployingWorkersPhaseBuilders(active)
  []   OTHER -> WorkersDeployedPhaseBuilders(spec, active)

(* The errors of the three reads are dropped.                              *)
PlanWithout(lost) ==
  LET pvcs   == IF "PersistentVolumeClaim" \in lost
                  THEN [g \in Gen |-> "Absent"] ELSE PvcView
      jobs   == IF "Job" \in lost THEN [g \in Gen |-> "Absent"] ELSE JobView
      d      == IF "Deployment" \in lost THEN [dep |-> 0, ready |-> FALSE]
                ELSE DepView
      active == GetActiveMapGeneration(d.dep)
      future == GetFutureMapGeneration(pvcs)
      phase  == DeterminePhase(instance.spec, instance.lastApplied, active,
                               future, pvcs, jobs, d.ready)
  IN  /\ pc = "plan"
      /\ IF lost = {} THEN UNCHANGED faults ELSE Fault("list")
      /\ \/ phase # instance.phase /\ stale /\ Retry /\ UNCHANGED object
         \/ /\ phase # instance.phase => ~stale
            /\ phase = M!UpdatingMap => M!GetNextMapGeneration(active) \in Gen
            /\ object' = [object EXCEPT !.phase =
                            IF phase = instance.phase THEN @ ELSE phase]
            /\ queued' = (queued \/ phase # instance.phase)
            /\ instance' = [instance EXCEPT !.phase = phase]
            /\ todo' = ResourceBuildersForPhase(phase, instance.spec, active,
                                                future)
            /\ pc' = "build"
            /\ UNCHANGED <<stale, doomed>>
      /\ UNCHANGED <<children, seen, edits, losses>>

Plan == \E lost \in SUBSET Kinds : PlanWithout(lost)

-----------------------------------------------------------------------------
(* CreateOrUpdate, one builder at a time.                                  *)

Building(kind, g) ==
  pc = "build" /\ todo # << >> /\ Head(todo) = Builder(kind, g)

BuilderDone ==
  todo' = Tail(todo) /\ UNCHANGED <<pc, instance, stale, doomed>>

BuildPersistentVolumeClaim(g) ==
  /\ Building("PersistentVolumeClaim", g)
  /\ \/ PvcView[g] # "Absent" /\ BuilderDone /\ UNCHANGED <<pvc, queued>>
     \/ /\ PvcView[g] = "Absent" /\ pvc[g] = "Absent"
        /\ pvc' = [pvc EXCEPT ![g] = "Pending"]
        /\ BuilderDone /\ Notify("PersistentVolumeClaim")
     \/ /\ PvcView[g] = "Absent" /\ pvc[g] # "Absent"
        /\ Retry /\ UNCHANGED pvc
  /\ UNCHANGED <<object, volume, job, source, dep, ready, built, serving, cron,
                 seen, bounds>>

BuildJob(g) ==
  /\ Building("Job", g)
  /\ \/ JobView[g] # "Absent" /\ BuilderDone /\ UNCHANGED <<job, source, queued>>
     \/ /\ JobView[g] = "Absent" /\ job[g] = "Absent"
        /\ job' = [job EXCEPT ![g] = "Active"]
        /\ source' = [source EXCEPT ![g] = instance.spec.url]
        /\ BuilderDone /\ Notify("Job")
     \/ /\ JobView[g] = "Absent" /\ job[g] # "Absent"
        /\ Retry /\ UNCHANGED <<job, source>>
  /\ UNCHANGED <<object, pvc, volume, dep, ready, built, serving, cron, seen,
                 bounds>>

DeploymentIsCurrent == DepView = [dep |-> dep, ready |-> ready]

BuildDeployment(g) ==
  /\ Building("Deployment", g)
  /\ \/ /\ DeploymentIsCurrent
        /\ dep' = g
        /\ \/ UNCHANGED ready
           \/ dep # g /\ ready' = FALSE
        /\ BuilderDone
        /\ IF dep # g THEN Notify("Deployment") ELSE UNCHANGED queued
     \/ ~DeploymentIsCurrent /\ Retry /\ UNCHANGED <<dep, ready>>
  /\ UNCHANGED <<object, pvc, volume, job, source, built, serving, cron, seen,
                 bounds>>

BuildServing(kind, g) ==
  /\ Building(kind, g)
  /\ kind = "HorizontalPodAutoscaler" => instance.spec.maxReplicas
  /\ serving' = serving \cup {kind}
  /\ IF kind \in serving THEN UNCHANGED queued ELSE Notify(kind)
  /\ BuilderDone
  /\ UNCHANGED <<object, maps, cron, seen, bounds>>

(* Update dereferences maxReplicas.  The panic is recovered and counts as  *)
(* an error; what comes after the autoscaler is not done.                  *)
AutoscalerPanics(g) ==
  /\ Building("HorizontalPodAutoscaler", g) /\ ~instance.spec.maxReplicas
  /\ Retry
  /\ UNCHANGED <<object, children, seen, bounds>>

(* Mutant of CronJobExpected: garbage collection does not know the CronJob.*)
CronJobForgotten(spec) == FALSE

CronJobExpected(spec) == spec.speedUpdates

BuildCronJob(g) ==
  /\ Building("CronJob", g)
  /\ cron' = g
  /\ IF cron = g THEN UNCHANGED queued ELSE Notify("CronJob")
  /\ BuilderDone
  /\ UNCHANGED <<object, maps, serving, seen, bounds>>

SetLastAppliedSpecAnnotation ==
  /\ pc = "build" /\ todo = << >>
  /\ \/ stale /\ Retry /\ UNCHANGED object
     \/ /\ ~stale
        /\ object' = [object EXCEPT !.lastApplied = instance.spec.url]
        /\ queued' = (queued \/ object' # object)
        /\ pc' = "gcChildren"
        /\ doomed' = [doomed EXCEPT !.cron =
                        cron # 0 /\ ~CronJobExpected(instance.spec)]
        /\ UNCHANGED <<instance, stale, todo>>
  /\ UNCHANGED <<children, seen, bounds>>

-----------------------------------------------------------------------------
(* GarbageCollection.  Deployment, Service, disruption budget and          *)
(* autoscaler are always expected.                                         *)

DeleteCronJob ==
  /\ pc = "gcChildren" /\ doomed.cron
  /\ cron' = 0
  /\ doomed' = [doomed EXCEPT !.cron = FALSE]
  /\ Notify("CronJob")
  /\ UNCHANGED <<object, maps, serving, seen, pc, instance, stale, todo, bounds>>

(* Mutants of Expected: only the newest map is kept; every one so far.     *)
NewestExpected(phase, active, future) == {future}
AllExpected(phase, active, future) == 1 .. future

Expected(phase, active, future) ==
  IF phase \in {M!UpdatingMap, M!RedeployingWorkers, M!DeployingWorkers}
    THEN {active, future} ELSE {active}

ListClaims ==
  LET active   == GetActiveMapGeneration(DepView.dep)
      future   == GetFutureMapGeneration(PvcView)
      expected == Expected(instance.phase, active, future)
  IN  /\ pc = "gcChildren" /\ ~doomed.cron
      /\ doomed' = [doomed EXCEPT !.pvc = Existing(PvcView) \ expected,
                                  !.job = Existing(JobView) \ expected]
      /\ pc' = "gcClaims"
      /\ UNCHANGED <<object, children, seen, queued, instance, stale, todo,
                     bounds>>

DeletePersistentVolumeClaim(g) ==
  /\ pc = "gcClaims" /\ g \in doomed.pvc
  /\ pvc' = [pvc EXCEPT ![g] = "Absent"]
  /\ volume' = [volume EXCEPT ![g] = NoUrl]
  /\ doomed' = [doomed EXCEPT !.pvc = @ \ {g}]
  /\ Notify("PersistentVolumeClaim")
  /\ UNCHANGED <<object, job, source, dep, ready, built, serving, cron, seen, pc,
                 instance, stale, todo, bounds>>

DeleteJob(g) ==
  /\ pc = "gcClaims" /\ doomed.pvc = {} /\ g \in doomed.job
  /\ job' = [job EXCEPT ![g] = "Absent"]
  /\ source' = [source EXCEPT ![g] = NoUrl]
  /\ doomed' = [doomed EXCEPT !.job = @ \ {g}]
  /\ Notify("Job")
  /\ UNCHANGED <<object, pvc, volume, dep, ready, built, serving, cron, seen, pc,
                 instance, stale, todo, bounds>>

Finish ==
  /\ pc = "gcClaims" /\ doomed.pvc = {} /\ doomed.job = {}
  /\ Discard
  /\ UNCHANGED <<object, children, seen, queued, bounds>>

-----------------------------------------------------------------------------
(* The user.                                                               *)

UserWrites(op) ==
  /\ op \in UserOps /\ edits < MaxEdits /\ object.exists
  /\ edits' = edits + 1
  /\ stale' = (pc # "idle")
  /\ Notify("OSRMInstance")
  /\ UNCHANGED <<children, seen, pc, instance, todo, doomed, faults, losses>>

EditSpec ==
  /\ UserWrites("edit")
  /\ \E s \in Specs \ {object.spec} : object' = [object EXCEPT !.spec = s]

TogglePause ==
  /\ UserWrites("pause")
  /\ object' = [object EXCEPT !.paused = ~@]

Delete ==
  /\ UserWrites("delete") /\ ~object.deleting
  /\ object' = [object EXCEPT !.deleting = TRUE,
                              !.exists = @ /\ object.finalizer]

(* Somebody else deletes an object the instance serves with.               *)
Lose(kind) ==
  /\ object.exists /\ losses < MaxLosses
  /\ losses' = losses + 1
  /\ Notify(kind)
  /\ UNCHANGED <<object, maps, seen, pc, local, edits, faults>>

RemoveServing(kind) ==
  /\ Lose(kind) /\ kind \in serving
  /\ serving' = serving \ {kind}
  /\ UNCHANGED cron

RemoveCronJob ==
  /\ Lose("CronJob") /\ cron # 0
  /\ cron' = 0
  /\ UNCHANGED serving

-----------------------------------------------------------------------------
(* Kubernetes and the map builder.                                         *)

BindVolume(g) ==
  /\ pvc[g] = "Pending"
  /\ pvc' = [pvc EXCEPT ![g] = "Bound"]
  /\ Notify("PersistentVolumeClaim")
  /\ UNCHANGED <<object, volume, job, source, dep, ready, built, serving, cron,
                 seen, pc, local, bounds>>

CompleteJob(g) ==
  /\ job[g] = "Active" /\ pvc[g] = "Bound"
  /\ job' = [job EXCEPT ![g] = "Complete"]
  /\ volume' = [volume EXCEPT ![g] = source[g]]
  /\ built' = built \cup {g}
  /\ Notify("Job")
  /\ UNCHANGED <<object, pvc, source, dep, ready, serving, cron, seen, pc, local,
                 bounds>>

FailJob(g) ==
  /\ job[g] = "Active" /\ pvc[g] = "Bound" /\ Fault("job")
  /\ job' = [job EXCEPT ![g] = "Failed"]
  /\ Notify("Job")
  /\ UNCHANGED <<object, pvc, volume, source, dep, ready, built, serving, cron,
                 seen, pc, local, edits, losses>>

StartWorkers ==
  /\ dep # 0 /\ ~ready /\ pvc[dep] = "Bound" /\ volume[dep] # NoUrl
  /\ ready' = TRUE
  /\ Notify("Deployment")
  /\ UNCHANGED <<object, pvc, volume, job, source, dep, built, serving, cron,
                 seen, pc, local, bounds>>

FailWorkers ==
  /\ ready /\ Fault("pods")
  /\ ready' = FALSE
  /\ Notify("Deployment")
  /\ UNCHANGED <<object, pvc, volume, job, source, dep, built, serving, cron,
                 seen, pc, local, edits, losses>>

-----------------------------------------------------------------------------
Build ==
  \/ \E g \in Gen : \/ BuildPersistentVolumeClaim(g) \/ BuildJob(g)
                    \/ BuildDeployment(g) \/ BuildCronJob(g)
                    \/ \E kind \in ServingKinds : BuildServing(kind, g)
                    \/ AutoscalerPanics(g)
  \/ SetLastAppliedSpecAnnotation

GarbageCollection ==
  \/ DeleteCronJob \/ ListClaims
  \/ \E g \in Gen : DeletePersistentVolumeClaim(g) \/ DeleteJob(g)

Reconcile ==
  \/ Forget \/ Initialize \/ MarkDeleting \/ Finalize \/ Pause
  \/ Begin \/ Plan \/ Build \/ GarbageCollection \/ Finish

User ==
  \/ EditSpec \/ TogglePause \/ Delete
  \/ RemoveCronJob \/ \E kind \in ServingKinds : RemoveServing(kind)

Progress == StartWorkers \/ \E g \in Gen : BindVolume(g) \/ CompleteJob(g)

Failure == Abandon \/ FailWorkers \/ \E g \in Gen : FailJob(g)

Next ==
  \/ Reconcile \/ User \/ Progress \/ Failure
  \/ \E kind \in Kinds : Sync(kind)
  \/ Wake

Spec == Init /\ [][Next]_vars

(* As for OSRMCluster: queued keys are worked on, informers deliver and    *)
(* Kubernetes makes progress.                                              *)
FairSpec ==
  /\ Spec
  /\ WF_vars(Reconcile) /\ WF_vars(Progress)
  /\ \A kind \in Lagging : WF_vars(Sync(kind))

-----------------------------------------------------------------------------
(* Properties.                                                             *)

Claimed(f) == [c \in {Unnamed} \X Gen |-> f[c[2]]]
ClaimsOf(gens) == {Unnamed} \X gens

BuildersOf(kind, builders) ==
  LET at == {i \in DOMAIN builders : builders[i].kind = kind}
  IN  IF at = {} THEN << >>
      ELSE <<M!Builder(kind, Unnamed, builders[CHOOSE i \in at : TRUE].gen)>>

(* The builders of maps and workers; a list has each kind once at most.    *)
MapBuildersIn(builders) ==
  BuildersOf("PersistentVolumeClaim", builders)
  \o BuildersOf("Job", builders) \o BuildersOf("Deployment", builders)

ClusterSpecOf(spec) == [url |-> spec.url, profiles |-> <<Unnamed>>]

(* The instance as a cluster of one profile that has no name.              *)
AsCluster == INSTANCE OSRMCluster WITH
  Profiles <- {Unnamed},
  Specs <- {ClusterSpecOf(s) : s \in Specs},
  FirstSpec <- ClusterSpecOf(FirstSpec),
  cluster <- [object EXCEPT !.spec = ClusterSpecOf(@)],
  pvc <- Claimed(pvc), volume <- Claimed(volume),
  job <- Claimed(job), source <- Claimed(source),
  dep <- [p \in {Unnamed} |-> dep],
  ready <- IF ready THEN {Unnamed} ELSE {},
  seen <- [pvc |-> Claimed(seen.pvc), job |-> Claimed(seen.job),
           dep |-> [p \in {Unnamed} |-> seen.dep],
           ready |-> IF seen.ready THEN {Unnamed} ELSE {}],
  pc <- IF pc = "gcChildren" THEN "gcDeployments" ELSE pc,
  instance <- [instance EXCEPT !.spec = ClusterSpecOf(@)],
  todo <- MapBuildersIn(todo),
  doomed <- [dep |-> {}, pvc |-> ClaimsOf(doomed.pvc),
             job |-> ClaimsOf(doomed.job)],
  built <- ClaimsOf(built)

(* The two controllers are copies of each other and must not diverge: as   *)
(* far as maps are concerned, every step of this one but the panic is a    *)
(* step of the OSRMCluster controller with one profile, so that what is    *)
(* proved of that one holds here.  OSRMInstanceReconciler,                 *)
(* OSRMInstanceResourceBuilder.                                            *)
ImplementsCluster ==
  /\ AsCluster!Init
  /\ [][AsCluster!Next \/ \E g \in Gen : AutoscalerPanics(g)]_(AsCluster!vars)

(* The maps of an instance are switched blue-green: it mounts a generation *)
(* only after the Job of that generation completed, whatever fails, is     *)
(* read late or is given up by the panic.  OSRMInstanceReconciler.         *)
SwitchesMaps == AsCluster!SwitchesMaps

(* The switch is safe: the map in use is neither rebuilt nor discarded,    *)
(* and workers only move forward to a map that is still there.             *)
(* DeterminePhase, GarbageCollection.                                      *)
SwitchesMapsSafely == AsCluster!SwitchesMapsSafely

(* With nothing left to do the recorded phase is the one a reconciliation  *)
(* would determine now: no early return and no panic loses a wake-up.      *)
(* SetupWithManager, Reconcile.                                            *)
QuiescentPhase == AsCluster!QuiescentPhase

(* Once all is deployed, one volume and one Job are left.                  *)
(* GarbageCollection.                                                      *)
NoLeftovers == AsCluster!NoLeftovers

Deployed == object.phase \in {M!WorkersDeployed, M!WorkersRedeployed}

CronJobWanted == IF object.spec.speedUpdates THEN dep ELSE 0

(* All is deployed, every object to serve with is there, and speed updates *)
(* run on the volume that the workers read.                                *)
Settled ==
  (object.exists /\ ~object.paused /\ ~object.deleting) =>
    /\ Deployed /\ ready
    /\ {"Service", "PodDisruptionBudget"} \subseteq serving
    /\ object.spec.maxReplicas => "HorizontalPodAutoscaler" \in serving
    /\ cron = CronJobWanted

Quiescent ==
  /\ pc = "idle" /\ ~queued
  /\ \A kind \in Lagging : seen = Current(kind)
  /\ object.exists /\ object.finalizer /\ ~object.deleting /\ ~object.paused

(* When the operator reports the workers deployed and has nothing left to  *)
(* do, the Service, the budget and the autoscaler exist although somebody  *)
(* may have deleted them, and the CronJob exists exactly if speed updates  *)
(* are asked for and runs on the volume the workers read, after any number *)
(* of map switches.  WorkersDeployedPhaseBuilders, GarbageCollection,      *)
(* SetupWithManager.                                                       *)
ServingAtRest ==
  Quiescent /\ Deployed => serving = ServingKinds /\ cron = CronJobWanted

NoJobFails == [](\A g \in Gen : job[g] # "Failed")

(* Whatever is edited, paused, lost or read late and whatever call or pod  *)
(* fails, an instance with maxReplicas gets to a state in which it serves  *)
(* as its spec says, also if it had none before; only a Job that fails may *)
(* prevent it, as nothing replaces it.                                     *)
Converges == NoJobFails => <>[](object.spec.maxReplicas => Settled)
=============================================================================
