---------------------------- MODULE OSRMCluster ----------------------------
(***************************************************************************)
(* The OSRMCluster controller, one OSRMCluster object, its volumes, Jobs   *)
(* and worker Deployments, the user who edits the object, and the part of  *)
(* Kubernetes that moves the children.                                     *)
(*                                                                         *)
(* A reconciliation is a sequence of API calls; every call that changes    *)
(* the cluster is a step of its own, so that edits, status changes of the  *)
(* children, failed calls and crashes fall between any two of them.        *)
(*  - Writes to the OSRMCluster carry the resource version the operator    *)
(*    read; `stale` says that somebody else wrote it since, and such a     *)
(*    write then fails with a conflict.                                    *)
(*  - Children are read from informer caches.  For a kind in Lagging the   *)
(*    cache is a past state that Sync brings up to date, and the event     *)
(*    that queues a reconciliation comes with Sync; the other kinds are    *)
(*    read as they are.                                                    *)
(*  - Service, PodDisruptionBudget, HorizontalPodAutoscaler, CronJob and   *)
(*    the gateway's objects carry no state that a decision modelled here   *)
(*    reads; a failure to write one is a failure between two steps.        *)
(*  - The arguments of the workers name the file of the current extract.   *)
(*    All extracts are taken to have the same file name, as two releases   *)
(*    of one region do, so that only the volume decides what is served.    *)
(***************************************************************************)
EXTENDS MapGeneration

CONSTANTS
  Profiles,    \* names of OSRM profiles
  URLs,        \* OpenStreetMap extracts a spec may ask for
  NoUrl,       \* no extract: an empty volume, no last applied spec
  Specs,       \* the specs a user may submit: records [url, profiles]
  FirstSpec,   \* the spec the object is created with
  UserOps,     \* which of the user's operations a run allows
  Failures,    \* which failures a run allows
  Lagging,     \* the child kinds whose informer cache may be behind
  MaxGen,      \* bound on map generations
  MaxEdits,    \* bound on the user's operations
  MaxFaults    \* bound on failed calls, crashes, failed Jobs, failed pods

ASSUME UrlAssumption == NoUrl \notin URLs
ASSUME SpecsAssumption ==
  /\ Specs \subseteq [url : URLs, profiles : Seq(Profiles)]
  /\ FirstSpec \in Specs
ASSUME LaggingAssumption ==
  Lagging \subseteq {"PersistentVolumeClaim", "Job", "Deployment"}
ASSUME BoundsAssumption ==
  MaxGen \in Nat \ {0} /\ MaxEdits \in Nat /\ MaxFaults \in Nat

VARIABLES
  cluster,   \* the OSRMCluster object: spec, annotations, finalizer, status
  pvc,       \* claim |-> phase of its PersistentVolumeClaim, "Absent" if none
  volume,    \* claim |-> the extract whose map the volume holds
  job,       \* claim |-> state of its map building Job, "Absent" if none
  source,    \* claim |-> the extract its Job was created with
  dep,       \* profile |-> generation its Deployment mounts, 0 if none
  ready,     \* profiles whose Deployment reports all replicas ready
  seen,      \* what the caches of the lagging kinds hold
  queued,    \* the object's key is in the work queue
  pc,        \* the step the reconciliation is at
  instance,  \* its copy of the object
  stale,     \* the object has been written since the copy was read
  todo,      \* builders still to run
  doomed,    \* objects garbage collection has yet to delete
  edits, faults,
  built      \* history: claims whose Job completed at some time

children == <<pvc, volume, job, source, dep, ready, built>>
local    == <<instance, stale, todo, doomed>>
bounds   == <<edits, faults>>
vars == <<cluster, children, seen, queued, pc, local, bounds>>

Gen    == 1 .. MaxGen
Claim  == Profiles \X Gen
Kinds  == {"PersistentVolumeClaim", "Job", "Deployment"}
PvcState == {"Absent", "Pending", "Bound"}
JobState == {"Absent", "Active", "Complete", "Failed"}

ClusterSpec == [url : URLs, profiles : Seq(Profiles)]
OldUrl == URLs \cup {NoUrl}
NoInstance == [spec |-> FirstSpec, lastApplied |-> NoUrl, phase |-> Empty]
NothingDoomed == [dep |-> {}, pvc |-> {}, job |-> {}]

ObjectTypeOK ==
  /\ cluster \in [exists : BOOLEAN, spec : ClusterSpec, lastApplied : OldUrl,
                  finalizer : BOOLEAN, deleting : BOOLEAN, paused : BOOLEAN,
                  statusPaused : BOOLEAN, phase : Phase]
  /\ queued \in BOOLEAN
  /\ edits \in 0 .. MaxEdits
  /\ faults \in 0 .. MaxFaults

ChildrenTypeOK ==
  /\ pvc \in [Claim -> PvcState]
  /\ volume \in [Claim -> OldUrl]
  /\ job \in [Claim -> JobState]
  /\ source \in [Claim -> OldUrl]
  /\ dep \in [Profiles -> 0 .. MaxGen]
  /\ ready \in SUBSET Profiles
  /\ built \in SUBSET Claim
  /\ seen \in [pvc : [Claim -> PvcState], job : [Claim -> JobState],
               dep : [Profiles -> 0 .. MaxGen], ready : SUBSET Profiles]

ReconcileTypeOK ==
  /\ pc \in {"idle", "finalize", "plan", "build", "gcDeployments", "gcClaims"}
  /\ instance \in [spec : ClusterSpec, lastApplied : OldUrl, phase : Phase]
  /\ stale \in BOOLEAN
  /\ todo \in Seq([kind : Kinds, claim : Claim])
  /\ doomed \in [dep : SUBSET Profiles, pvc : SUBSET Claim, job : SUBSET Claim]

TypeOK == ObjectTypeOK /\ ChildrenTypeOK /\ ReconcileTypeOK

Init ==
  /\ cluster = [exists |-> TRUE, spec |-> FirstSpec, lastApplied |-> NoUrl,
                finalizer |-> FALSE, deleting |-> FALSE, paused |-> FALSE,
                statusPaused |-> FALSE, phase |-> Empty]
  /\ pvc = [c \in Claim |-> "Absent"]
  /\ volume = [c \in Claim |-> NoUrl]
  /\ job = [c \in Claim |-> "Absent"]
  /\ source = [c \in Claim |-> NoUrl]
  /\ dep = [p \in Profiles |-> 0]
  /\ ready = {}
  /\ built = {}
  /\ seen = [pvc |-> pvc, job |-> job, dep |-> dep, ready |-> ready]
  /\ queued = TRUE
  /\ pc = "idle"
  /\ instance = NoInstance
  /\ stale = FALSE
  /\ todo = << >>
  /\ doomed = NothingDoomed
  /\ edits = 0
  /\ faults = 0

-----------------------------------------------------------------------------
(* Events and caches.                                                      *)

(* Mutants of Watched: the controller does not own the Jobs, or the        *)
(* Deployments.                                                            *)
JobsUnwatched == {"PersistentVolumeClaim", "Deployment", "OSRMCluster"}
DeploymentsUnwatched == {"PersistentVolumeClaim", "Job", "OSRMCluster"}

Watched == Kinds \cup {"OSRMCluster"}

(* An object of this kind changed; the key is queued when the event is     *)
(* handed over, which for a lagging kind is when its cache catches up.     *)
Notify(kind) == queued' = (queued \/ kind \in Watched \ Lagging)

PvcView   == IF "PersistentVolumeClaim" \in Lagging THEN seen.pvc ELSE pvc
JobView   == IF "Job" \in Lagging THEN seen.job ELSE job
DepView   == IF "Deployment" \in Lagging THEN seen.dep ELSE dep
ReadyView == IF "Deployment" \in Lagging THEN seen.ready ELSE ready

Current(kind) ==
  CASE kind = "PersistentVolumeClaim" -> [seen EXCEPT !.pvc = pvc]
  []   kind = "Job" -> [seen EXCEPT !.job = job]
  []   kind = "Deployment" -> [seen EXCEPT !.dep = dep, !.ready = ready]

CachesCurrent == \A kind \in Lagging : seen = Current(kind)

(* The informer of a lagging kind delivers what it missed.                 *)
Sync(kind) ==
  /\ kind \in Lagging
  /\ seen # Current(kind)
  /\ seen' = Current(kind)
  /\ queued' = (queued \/ kind \in Watched)
  /\ UNCHANGED <<cluster, children, pc, local, bounds>>

(* A periodic resync, or an event for a write that only touched the        *)
(* object's conditions.                                                    *)
Wake ==
  /\ cluster.exists /\ ~queued
  /\ queued' = TRUE
  /\ UNCHANGED <<cluster, children, seen, pc, local, bounds>>

-----------------------------------------------------------------------------
(* The beginning of a reconciliation: fetch the object, fetch its          *)
(* children, write the refreshed conditions.  A conflict on that write     *)
(* requeues the key and leaves everything as it was, so these calls are    *)
(* one step; the early returns that follow write nothing but the object.   *)

Dequeue == pc = "idle" /\ queued

Forget ==
  /\ Dequeue /\ ~cluster.exists
  /\ queued' = FALSE
  /\ UNCHANGED <<cluster, children, seen, pc, local, bounds>>

Initialize ==
  /\ Dequeue /\ cluster.exists /\ ~cluster.finalizer
  /\ cluster' = [cluster EXCEPT !.finalizer = TRUE]
  /\ UNCHANGED <<children, seen, queued, pc, local, bounds>>

(* Mutant of BeingDeleted: the pause is looked at first.                   *)
BeingDeletedUnlessPaused == cluster.deleting /\ ~cluster.paused

BeingDeleted == cluster.deleting

Running == cluster.exists /\ cluster.finalizer /\ ~BeingDeleted

(* cleanup, first write: the phase.                                        *)
MarkDeleting ==
  /\ Dequeue /\ cluster.exists /\ cluster.finalizer /\ BeingDeleted
  /\ cluster' = [cluster EXCEPT !.phase = Deleting]
  /\ stale' = FALSE
  /\ pc' = "finalize"
  /\ UNCHANGED <<children, seen, queued, instance, todo, doomed, bounds>>

Pause ==
  /\ Dequeue /\ Running /\ cluster.paused
  /\ cluster' = [cluster EXCEPT !.statusPaused = TRUE]
  /\ queued' = ~cluster.statusPaused
  /\ UNCHANGED <<children, seen, pc, local, bounds>>

Begin ==
  /\ Dequeue /\ Running /\ ~cluster.paused
  /\ instance' = [spec |-> cluster.spec, lastApplied |-> cluster.lastApplied,
                   phase |-> cluster.phase]
  /\ stale' = FALSE
  /\ queued' = FALSE
  /\ pc' = "plan"
  /\ UNCHANGED <<cluster, children, seen, todo, doomed, bounds>>

(* A reconciliation that ends: with an error the key goes back to the      *)
(* queue.  In-memory state is forgotten either way.                        *)
Discard ==
  /\ pc' = "idle"
  /\ instance' = NoInstance
  /\ stale' = FALSE
  /\ todo' = << >>
  /\ doomed' = NothingDoomed

(* Mutant of Retry: the error is swallowed.                                *)
GiveUp == Discard /\ UNCHANGED queued

Retry == Discard /\ queued' = TRUE

(* Mutant of Conflict: writes carry no resource version.                   *)
NoConflict == FALSE

(* A write to the object carries the resource version that was read.       *)
Conflict == stale

Fault(what) ==
  what \in Failures /\ faults < MaxFaults /\ faults' = faults + 1

(* Any call may fail, and the process may crash: the error path requeues   *)
(* the key, a restart lists and queues every object.  The deletion of      *)
(* volumes and Jobs is told apart from the calls before it.                *)
Abandon ==
  /\ pc # "idle"
  /\ Fault(IF pc = "gcClaims" THEN "collect" ELSE "call")
  /\ Retry
  /\ UNCHANGED <<cluster, children, seen, edits>>

(* cleanup, second write: removing the last finalizer removes the object.  *)
Finalize ==
  /\ pc = "finalize"
  /\ \/ Conflict /\ Retry /\ UNCHANGED cluster
     \/ /\ ~Conflict
        /\ cluster' = [cluster EXCEPT !.finalizer = FALSE, !.exists = FALSE]
        /\ Discard /\ queued' = TRUE
  /\ UNCHANGED <<children, seen, bounds>>

-----------------------------------------------------------------------------
(* The plan: list the children, determine the phase, record it in the      *)
(* status, choose the builders.                                            *)

Existing(pvcs)  == {c \in Claim : pvcs[c] # "Absent"}
Bound(pvcs)     == {c \in Claim : pvcs[c] = "Bound"}
Completed(jobs) == {c \in Claim : jobs[c] = "Complete"}

NoDeployments == [p \in Profiles |-> 0]

(* The errors of the three lists are dropped: a list that fails reads as   *)
(* an empty one.  MaxGen bounds the generations the model has.             *)
PlanWithout(lost) ==
  LET pvcs    == IF "PersistentVolumeClaim" \in lost
                   THEN [c \in Claim |-> "Absent"] ELSE PvcView
      jobs    == IF "Job" \in lost THEN [c \in Claim |-> "Absent"] ELSE JobView
      deps    == IF "Deployment" \in lost THEN NoDeployments ELSE DepView
      isReady == IF "Deployment" \in lost THEN {} ELSE ReadyView
      active  == GetActiveMapGeneration(instance.spec.profiles, deps)
      future  == GetFutureMapGeneration(Existing(pvcs))
      phase   == DeterminePhase(instance.spec, instance.lastApplied, active,
                                future, Bound(pvcs), Completed(jobs), isReady)
  IN  /\ pc = "plan"
      /\ IF lost = {} THEN UNCHANGED faults ELSE Fault("list")
      /\ \/ phase # instance.phase /\ Conflict /\ Retry /\ UNCHANGED cluster
         \/ /\ phase # instance.phase => ~Conflict
            /\ phase = UpdatingMap => GetNextMapGeneration(active) \in Gen
            /\ cluster' = IF phase = instance.phase THEN cluster
                          ELSE [cluster EXCEPT !.phase = phase]
            /\ queued' = (queued \/ phase # instance.phase)
            /\ instance' = [instance EXCEPT !.phase = phase]
            /\ todo' = ResourceBuildersForPhase(phase, instance.spec.profiles,
                                                active, future)
            /\ pc' = "build"
            /\ UNCHANGED <<stale, doomed>>
      /\ UNCHANGED <<children, seen, edits>>

Plan == \E lost \in SUBSET Kinds : PlanWithout(lost)

-----------------------------------------------------------------------------
(* CreateOrUpdate, one builder at a time.  The cached object decides       *)
(* between Create, which fails if the object exists after all, and Update, *)
(* which fails if the cached copy is not the latest.                       *)

Building(kind, c) ==
  pc = "build" /\ todo # << >> /\ Head(todo) = [kind |-> kind, claim |-> c]

BuilderDone ==
  todo' = Tail(todo) /\ UNCHANGED <<pc, instance, stale, doomed>>

(* An existing volume is left as it is.                                    *)
BuildPersistentVolumeClaim(c) ==
  /\ Building("PersistentVolumeClaim", c)
  /\ \/ PvcView[c] # "Absent" /\ BuilderDone /\ UNCHANGED <<pvc, queued>>
     \/ /\ PvcView[c] = "Absent" /\ pvc[c] = "Absent"
        /\ pvc' = [pvc EXCEPT ![c] = "Pending"]
        /\ BuilderDone /\ Notify("PersistentVolumeClaim")
     \/ /\ PvcView[c] = "Absent" /\ pvc[c] # "Absent"
        /\ Retry /\ UNCHANGED pvc
  /\ UNCHANGED <<cluster, volume, job, source, dep, ready, built, seen,
                 bounds>>

(* The extract goes into the Job when it is created and never afterwards.  *)
BuildJob(c) ==
  /\ Building("Job", c)
  /\ \/ /\ JobView[c] # "Absent"
        /\ BuilderDone /\ UNCHANGED <<job, source, queued>>
     \/ /\ JobView[c] = "Absent" /\ job[c] = "Absent"
        /\ job' = [job EXCEPT ![c] = "Active"]
        /\ source' = [source EXCEPT ![c] = instance.spec.url]
        /\ BuilderDone /\ Notify("Job")
     \/ /\ JobView[c] = "Absent" /\ job[c] # "Absent"
        /\ Retry /\ UNCHANGED <<job, source>>
  /\ UNCHANGED <<cluster, pvc, volume, dep, ready, built, seen, bounds>>

DeploymentIsCurrent(p) ==
  DepView[p] = dep[p] /\ (p \in ReadyView <=> p \in ready)

(* Create or Update the Deployment so that it mounts c.  A changed         *)
(* template starts a rollout; the status may still be that of the old pods.*)
BuildDeployment(c) ==
  LET p == c[1] IN
  /\ Building("Deployment", c)
  /\ \/ /\ DeploymentIsCurrent(p)
        /\ dep' = [dep EXCEPT ![p] = c[2]]
        /\ \/ UNCHANGED ready
           \/ dep[p] # c[2] /\ ready' = ready \ {p}
        /\ BuilderDone
        /\ IF dep[p] # c[2] THEN Notify("Deployment") ELSE UNCHANGED queued
     \/ ~DeploymentIsCurrent(p) /\ Retry /\ UNCHANGED <<dep, ready>>
  /\ UNCHANGED <<cluster, pvc, volume, job, source, built, seen, bounds>>

(* All builders have run: record the spec they were run for.               *)
SetLastAppliedSpecAnnotation ==
  /\ pc = "build" /\ todo = << >>
  /\ \/ Conflict /\ Retry /\ UNCHANGED cluster
     \/ /\ ~Conflict
        /\ cluster' = [cluster EXCEPT !.lastApplied = instance.spec.url]
        /\ queued' = (queued \/ cluster' # cluster)
        /\ pc' = "gcDeployments"
        /\ doomed' = [NothingDoomed EXCEPT !.dep =
             {p \in Profiles : DepView[p] # 0}
               \ ProfileSet(instance.spec.profiles)]
        /\ UNCHANGED <<instance, stale, todo>>
  /\ UNCHANGED <<children, seen, bounds>>

-----------------------------------------------------------------------------
(* GarbageCollection: Deployments of profiles that are gone, then, from    *)
(* fresh lists, the volumes and Jobs no expected generation needs.         *)

DeleteDeployment(p) ==
  /\ pc = "gcDeployments" /\ p \in doomed.dep
  /\ dep' = [dep EXCEPT ![p] = 0]
  /\ ready' = ready \ {p}
  /\ doomed' = [doomed EXCEPT !.dep = @ \ {p}]
  /\ Notify("Deployment")
  /\ UNCHANGED <<cluster, pvc, volume, job, source, built, seen, pc, instance,
                 stale, todo, bounds>>

(* Mutant of UnexpectedJobs: only the volumes are collected.               *)
NoJobs(expected) == {c \in expected : FALSE}

UnexpectedJobs(expected) == Existing(JobView) \ expected

ListClaims ==
  LET active   == GetActiveMapGeneration(instance.spec.profiles, DepView)
      future   == GetFutureMapGeneration(Existing(PvcView))
      expected == ExpectedClaims(instance.spec.profiles, instance.phase,
                                 active, future)
  IN  /\ pc = "gcDeployments" /\ doomed.dep = {}
      /\ doomed' = [doomed EXCEPT !.pvc = Existing(PvcView) \ expected,
                                  !.job = UnexpectedJobs(expected)]
      /\ pc' = "gcClaims"
      /\ UNCHANGED <<cluster, children, seen, queued, instance, stale, todo,
                     bounds>>

DeletePersistentVolumeClaim(c) ==
  /\ pc = "gcClaims" /\ c \in doomed.pvc
  /\ pvc' = [pvc EXCEPT ![c] = "Absent"]
  /\ volume' = [volume EXCEPT ![c] = NoUrl]
  /\ doomed' = [doomed EXCEPT !.pvc = @ \ {c}]
  /\ Notify("PersistentVolumeClaim")
  /\ UNCHANGED <<cluster, job, source, dep, ready, built, seen, pc, instance,
                 stale, todo, bounds>>

DeleteJob(c) ==
  /\ pc = "gcClaims" /\ doomed.pvc = {} /\ c \in doomed.job
  /\ job' = [job EXCEPT ![c] = "Absent"]
  /\ source' = [source EXCEPT ![c] = NoUrl]
  /\ doomed' = [doomed EXCEPT !.job = @ \ {c}]
  /\ Notify("Job")
  /\ UNCHANGED <<cluster, pvc, volume, dep, ready, built, seen, pc, instance,
                 stale, todo, bounds>>

Finish ==
  /\ pc = "gcClaims" /\ doomed.pvc = {} /\ doomed.job = {}
  /\ Discard
  /\ UNCHANGED <<cluster, children, seen, queued, bounds>>

-----------------------------------------------------------------------------
(* The phase reported when all is done.                                    *)
Deployed ==
  cluster.phase \in {WorkersDeployed, WorkersRedeployed}

Settled ==
  (cluster.exists /\ ~cluster.paused /\ ~cluster.deleting) =>
     IF cluster.spec.profiles = << >> THEN cluster.phase = Empty
     ELSE Deployed /\ ProfileSet(cluster.spec.profiles) \subseteq ready

(* The user.  Every write to the object makes the operator's copy stale.   *)

UserWrites(op) ==
  /\ op \in UserOps /\ edits < MaxEdits
  /\ cluster.exists
  /\ edits' = edits + 1
  /\ stale' = (pc # "idle")
  /\ Notify("OSRMCluster")
  /\ UNCHANGED <<children, seen, pc, instance, todo, doomed, faults>>

(* The edit may be of a field of the spec that is not modelled.            *)
EditSpec ==
  /\ UserWrites("edit")
  /\ \E s \in Specs : cluster' = [cluster EXCEPT !.spec = s]

(* The same by a user who waits for the operator to be done and changes    *)
(* the extract or the profiles, not both.                                  *)
PatientEdit ==
  /\ UserWrites("patientEdit")
  /\ pc = "idle" /\ ~queued /\ CachesCurrent /\ Settled
  /\ \E s \in Specs \ {cluster.spec} :
       /\ s.url = cluster.spec.url \/ s.profiles = cluster.spec.profiles
       /\ cluster' = [cluster EXCEPT !.spec = s]

TogglePause ==
  /\ UserWrites("pause")
  /\ cluster' = [cluster EXCEPT !.paused = ~@]

(* Replacing the annotations instead of merging into them loses the        *)
(* operator's own.                                                         *)
ReplaceAnnotations ==
  /\ UserWrites("replace")
  /\ \E b \in BOOLEAN :
       cluster' = [cluster EXCEPT !.paused = b, !.lastApplied = NoUrl]

(* Without a finalizer the object goes at once.                            *)
Delete ==
  /\ UserWrites("delete") /\ ~cluster.deleting
  /\ cluster' = [cluster EXCEPT !.deleting = TRUE,
                                !.exists = @ /\ cluster.finalizer]

(* The user, or somebody else, deletes a child.                            *)
Tamper(kind) ==
  /\ "tamper" \in UserOps /\ edits < MaxEdits
  /\ edits' = edits + 1
  /\ Notify(kind)
  /\ UNCHANGED <<cluster, built, seen, pc, local, faults>>

RemoveDeployment(p) ==
  /\ Tamper("Deployment") /\ dep[p] # 0
  /\ dep' = [dep EXCEPT ![p] = 0]
  /\ ready' = ready \ {p}
  /\ UNCHANGED <<pvc, volume, job, source>>

RemovePersistentVolumeClaim(c) ==
  /\ Tamper("PersistentVolumeClaim") /\ pvc[c] # "Absent"
  /\ pvc' = [pvc EXCEPT ![c] = "Absent"]
  /\ volume' = [volume EXCEPT ![c] = NoUrl]
  /\ UNCHANGED <<job, source, dep, ready>>

RemoveJob(c) ==
  /\ Tamper("Job") /\ job[c] # "Absent"
  /\ job' = [job EXCEPT ![c] = "Absent"]
  /\ source' = [source EXCEPT ![c] = NoUrl]
  /\ UNCHANGED <<pvc, volume, dep, ready>>

-----------------------------------------------------------------------------
(* Kubernetes and the map builder.                                         *)

BindVolume(c) ==
  /\ pvc[c] = "Pending"
  /\ pvc' = [pvc EXCEPT ![c] = "Bound"]
  /\ Notify("PersistentVolumeClaim")
  /\ UNCHANGED <<cluster, volume, job, source, dep, ready, built, seen, pc,
                 local, bounds>>

CompleteJob(c) ==
  /\ job[c] = "Active" /\ pvc[c] = "Bound"
  /\ job' = [job EXCEPT ![c] = "Complete"]
  /\ volume' = [volume EXCEPT ![c] = source[c]]
  /\ built' = built \cup {c}
  /\ Notify("Job")
  /\ UNCHANGED <<cluster, pvc, source, dep, ready, seen, pc, local, bounds>>

FailJob(c) ==
  /\ job[c] = "Active" /\ pvc[c] = "Bound" /\ Fault("job")
  /\ job' = [job EXCEPT ![c] = "Failed"]
  /\ Notify("Job")
  /\ UNCHANGED <<cluster, pvc, volume, source, dep, ready, built, seen, pc,
                 local, edits>>

(* Workers start only from a volume that holds a map.                      *)
StartWorkers(p) ==
  /\ dep[p] # 0 /\ p \notin ready
  /\ pvc[<<p, dep[p]>>] = "Bound" /\ volume[<<p, dep[p]>>] # NoUrl
  /\ ready' = ready \cup {p}
  /\ Notify("Deployment")
  /\ UNCHANGED <<cluster, pvc, volume, job, source, dep, built, seen, pc,
                 local, bounds>>

FailWorkers(p) ==
  /\ p \in ready /\ Fault("pods")
  /\ ready' = ready \ {p}
  /\ Notify("Deployment")
  /\ UNCHANGED <<cluster, pvc, volume, job, source, dep, built, seen, pc,
                 local, edits>>

-----------------------------------------------------------------------------
Build ==
  \/ \E c \in Claim : \/ BuildPersistentVolumeClaim(c)
                      \/ BuildJob(c)
                      \/ BuildDeployment(c)
  \/ SetLastAppliedSpecAnnotation

GarbageCollection ==
  \/ \E p \in Profiles : DeleteDeployment(p)
  \/ ListClaims
  \/ \E c \in Claim : DeletePersistentVolumeClaim(c) \/ DeleteJob(c)

(* One step of the controller's single worker.                             *)
Reconcile ==
  \/ Forget \/ Initialize \/ MarkDeleting \/ Finalize \/ Pause
  \/ Begin \/ Plan \/ Build \/ GarbageCollection \/ Finish

User ==
  \/ EditSpec \/ PatientEdit \/ TogglePause \/ ReplaceAnnotations \/ Delete
  \/ \E p \in Profiles : RemoveDeployment(p)
  \/ \E c \in Claim : RemovePersistentVolumeClaim(c) \/ RemoveJob(c)

Progress ==
  \/ \E c \in Claim : BindVolume(c) \/ CompleteJob(c)
  \/ \E p \in Profiles : StartWorkers(p)

Failure ==
  \/ Abandon
  \/ \E c \in Claim : FailJob(c)
  \/ \E p \in Profiles : FailWorkers(p)

Next ==
  \/ Reconcile \/ User \/ Progress \/ Failure
  \/ \E kind \in Kinds : Sync(kind)
  \/ Wake

Spec == Init /\ [][Next]_vars

(* A queued key is worked on, informers deliver, and Kubernetes makes      *)
(* progress.  The user and the failures owe nothing.                       *)
Fairness ==
  /\ WF_vars(Reconcile)
  /\ WF_vars(Progress)
  /\ \A kind \in Kinds : WF_vars(Sync(kind))

FairSpec == Spec /\ Fairness

-----------------------------------------------------------------------------
(* Properties.                                                             *)

(* A Deployment mounts a generation only after the Job of that very claim  *)
(* completed: workers are never moved to a map that was not built.         *)
(* Reconcile, DeterminePhase, ResourceBuildersForPhase.                    *)
DeployedMapWasBuilt ==
  \A p \in Profiles : dep[p] # 0 => <<p, dep[p]>> \in built

(* The same with what it rests on: a Job seen to be complete, in the       *)
(* cluster or in a stale cache, has built its map, and so has the Job of   *)
(* every Deployment the reconciliation is about to write.                  *)
BuiltBeforeDeployed ==
  /\ \A c \in Claim : job[c] = "Complete" => c \in built
  /\ \A c \in Claim : seen.job[c] = "Complete" => c \in built
  /\ \A i \in DOMAIN todo :
       todo[i].kind = "Deployment" => todo[i].claim \in built
  /\ DeployedMapWasBuilt

(* The last applied spec only ever becomes the object's current spec, or   *)
(* is lost to the user, although edits fall between the moment the spec is *)
(* read and the moment it is recorded.  applyLastSpecAnnotation.           *)
LastAppliedIsCurrent ==
  [][cluster'.lastApplied # cluster.lastApplied
       => cluster'.lastApplied \in {cluster.spec.url, NoUrl}]_vars

(* Nothing runs, nothing is queued, no event is on its way, and the        *)
(* operator is neither paused nor deleting.                                *)
Quiescent ==
  pc = "idle" /\ ~queued /\ CachesCurrent /\ Running /\ ~cluster.paused

Active == GetActiveMapGeneration(cluster.spec.profiles, dep)
Future == GetFutureMapGeneration(Existing(pvc))

(* No wake-up is missed: when nothing is queued and nothing runs, the      *)
(* recorded phase is the one a reconciliation would determine now.         *)
(* SetupWithManager (the watched kinds), Reconcile (every early return).   *)
QuiescentPhase ==
  Quiescent =>
    cluster.phase = DeterminePhase(cluster.spec, cluster.lastApplied, Active,
                                   Future, Bound(pvc), Completed(job), ready)

(* While the operator waits for Kubernetes there are only the map that is  *)
(* served and the one that is to replace it, and only for the profiles of  *)
(* the spec: edits that overtake each other and passes that fail half way  *)
(* do not make volumes pile up, as long as nobody else deletes children.   *)
(* MapUpdatingResourceBuilders, GarbageCollection.                         *)
BlueAndGreenOnly ==
  Quiescent =>
    Existing(pvc) \subseteq ProfileSet(cluster.spec.profiles)
                              \X {Active, Active + 1}

(* Once all is deployed nothing is left behind: the volumes and Jobs are   *)
(* those of the active generation of the current profiles, the Deployments *)
(* those of the current profiles, whatever was edited or failed before.    *)
(* GarbageCollection.                                                      *)
NoLeftovers ==
  Quiescent /\ cluster.phase \in {Empty, WorkersDeployed, WorkersRedeployed} =>
    LET profiles == ProfileSet(cluster.spec.profiles)
    IN  /\ Existing(pvc) = profiles \X {Active}
        /\ {c \in Claim : job[c] # "Absent"} = profiles \X {Active}
        /\ {p \in Profiles : dep[p] # 0} = profiles

(* The operator's copy of the spec is the object's as long as nobody wrote *)
(* the object: what the resource version stands for.                       *)
CopyIsCurrent ==
  pc \notin {"idle", "finalize"} /\ ~stale => instance.spec = cluster.spec

(* What the workers of each profile are given, seen as a blue-green switch *)
(* of maps.                                                                *)
Maps == INSTANCE BlueGreen WITH
          Generations <- Gen,
          stored <- {c \in Claim : volume[c] # NoUrl},
          serving <- dep

(* The controller implements the switch of maps: whatever fails, whatever  *)
(* is read late, and whoever deletes children, workers are only moved to   *)
(* generations whose map was built.                                        *)
SwitchesMaps == Maps!Spec

(* Without failures it does so safely: what is served is not rebuilt and   *)
(* not collected ("Always keep the active generation (what deployments are *)
(* currently using)"), and workers only move forward, to a map that is     *)
(* still there.  DeterminePhase, RedeployingWorkersPhaseBuilders,          *)
(* GarbageCollection.                                                      *)
SwitchesMapsSafely == Maps!SafeSpec

(* No map is built into a volume that workers mount.                       *)
MountedVolumesQuiet ==
  \A p \in Profiles : dep[p] # 0 => job[<<p, dep[p]>>] # "Active"

(* Every volume a Deployment mounts exists and holds a map.                *)
WorkersHaveMap ==
  \A p \in Profiles :
    dep[p] # 0 => pvc[<<p, dep[p]>>] = "Bound" /\ volume[<<p, dep[p]>>] # NoUrl

(* Whatever the user edited, the operator gets to a state where all        *)
(* workers of the current profiles run, and stays there.                   *)
Converges == <>[]Settled

(* A deleted object goes away, paused or not, mid-reconciliation or not.   *)
(* Reconcile (order of the early returns), cleanupResource.                *)
DeletionCompletes == cluster.deleting ~> ~cluster.exists

(* When the operator reports that the workers are deployed and has nothing *)
(* left to do, every profile serves the extract the spec asks for.         *)
ServesSpec ==
  Quiescent /\ Deployed =>
    \A p \in ProfileSet(cluster.spec.profiles) :
      volume[<<p, dep[p]>>] = cluster.spec.url
=============================================================================
