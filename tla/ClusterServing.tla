--------------------------- MODULE ClusterServing ---------------------------
(***************************************************************************)
(* What an OSRMCluster serves with: the Deployment, Service,               *)
(* PodDisruptionBudget, HorizontalPodAutoscaler and CronJob of each        *)
(* profile, the ConfigMap, Service and Deployment of the gateway that      *)
(* routes requests to the profiles, and the conditions that report on all  *)
(* of it.                                                                  *)
(*                                                                         *)
(* The same reconciliation as in OSRMCluster, which has the decisions      *)
(* about maps; here a map is built or not.  There is one generation: the   *)
(* phases of an update build nothing but volumes, Jobs and Deployments.    *)
(* A child is a pair of its kind and its owner, a profile or the gateway;  *)
(* <<"Job", p>> stands for volume and Job of a profile.  Caches are up to  *)
(* date, and a pass over all objects of one kind is one step.              *)
(* Endpoints, exposed services and the options of the workers are fixed;   *)
(* at most one option of osrm-routed is set.                               *)
(***************************************************************************)
EXTENDS Integers, Sequences, SequencesExt

CONSTANTS
  Profiles,    \* names of OSRM profiles
  Specs,       \* lists of profiles a user may submit
  FirstSpec,   \* the one the cluster is created with
  UserOps,     \* which of the user's operations a run allows
  Failures,    \* which failures a run allows
  MaxAddress,  \* bound on the addresses given to Services
  MaxEdits,    \* bound on the user's operations
  MaxFaults    \* bound on failed calls, crashes and failed pods

ProfileSpec ==
  [name : Profiles, autoscaled : BOOLEAN, speedUpdates : BOOLEAN]

ASSUME ServingAssumption ==
  /\ "gateway" \notin Profiles
  /\ Specs \subseteq Seq(ProfileSpec) /\ FirstSpec \in Specs
  /\ MaxAddress \in Nat /\ MaxEdits \in Nat /\ MaxFaults \in Nat

VARIABLES
  cluster,   \* the OSRMCluster: spec, pause annotation, phase, conditions
  children,  \* the children that exist
  mapped,    \* profiles whose map is built
  ready,     \* profiles whose Deployment has all its replicas
  address,   \* profile |-> address of its Service
  config,    \* the profiles the ConfigMap routes to, in order
  hash,      \* the ConfigMap the gateway's pod template has the hash of
  pods,      \* the gateway's pods: what they were started with
  queued, pc, \* as in OSRMCluster
  copy, stale, todo,   \* its copy of spec and phase; builders or kinds to do
  siblings,  \* the ConfigMap among the children read at the start
  edits, faults,
  addresses, \* addresses given so far
  left       \* history: routes that were submitted and left again

objects == <<children, mapped, ready, address, addresses, config, hash,
             pods>>
local   == <<copy, stale, todo, siblings>>
bounds  == <<edits, faults, left>>
vars == <<cluster, objects, queued, pc, local, bounds>>

Phase == {"", "BuildingMap", "DeployingWorkers", "WorkersDeployed"}

(* The order in which GarbageCollection goes through the kinds.            *)
Kinds == <<"CronJob", "Deployment", "HorizontalPodAutoscaler",
           "PodDisruptionBudget", "Service", "ConfigMap", "Job">>

Child == ToSet(Kinds) \X (Profiles \cup {"gateway"})

(* The nginx configuration has a location for each profile, in the order   *)
(* of the spec.  A ConfigMap is never written for an empty list: << >> is  *)
(* no ConfigMap, and no hash.                                              *)
Routes(spec) == [i \in DOMAIN spec |-> spec[i].name]
Names(spec)  == ToSet(Routes(spec))
NoRoutes == << >>

NoHosts == [p \in Profiles |-> 0]
NoPods  == [up |-> FALSE, hash |-> NoRoutes, config |-> NoRoutes,
            hosts |-> NoHosts]
NoCopy  == [spec |-> << >>, phase |-> ""]

TypeOK ==
  /\ cluster \in [spec : Specs, paused : BOOLEAN, phase : Phase,
                  available : BOOLEAN, allReady : BOOLEAN,
                  success : {"None", "Unknown", "True", "False"}]
  /\ children \subseteq Child
  /\ mapped \subseteq Profiles /\ ready \subseteq Profiles
  /\ address \in [Profiles -> 0 .. MaxAddress]
  /\ addresses \in 0 .. MaxAddress
  /\ {config, hash, siblings, pods.hash, pods.config} \subseteq Seq(Profiles)
  /\ pods.up \in BOOLEAN /\ pods.hosts \in [Profiles -> 0 .. MaxAddress]
  /\ queued \in BOOLEAN /\ stale \in BOOLEAN
  /\ pc \in {"idle", "plan", "build", "collect"}
  /\ copy \in [spec : Specs \cup {<< >>}, phase : Phase]
  /\ todo \in IF pc = "collect" THEN Seq(ToSet(Kinds)) ELSE Seq(Child)
  /\ edits \in 0 .. MaxEdits /\ faults \in 0 .. MaxFaults

Init ==
  /\ cluster = [spec |-> FirstSpec, paused |-> FALSE, phase |-> "",
                available |-> FALSE, allReady |-> FALSE, success |-> "None"]
  /\ children = {} /\ mapped = {} /\ ready = {}
  /\ address = NoHosts /\ addresses = 0
  /\ config = NoRoutes /\ hash = NoRoutes /\ pods = NoPods
  /\ queued = TRUE /\ pc = "idle"
  /\ copy = NoCopy /\ stale = FALSE /\ todo = << >> /\ siblings = NoRoutes
  /\ edits = 0 /\ faults = 0 /\ left = {}

-----------------------------------------------------------------------------
(* Mutant of Watched: the controller does not own ConfigMaps.              *)
ConfigMapsUnwatched == ToSet(Kinds) \ {"ConfigMap"}

Watched == ToSet(Kinds)

Notify(kind) == queued' = (queued \/ kind \in Watched)

Exists(kind, owner) == <<kind, owner>> \in children

(* getChildResources lists the gateway's Deployment first, then those of   *)
(* the profiles in the order of the spec.                                  *)
Owners(spec) == <<"gateway">> \o Routes(spec)

DeploymentReady(owner) == IF owner = "gateway" THEN pods.up ELSE owner \in ready

(* Only the first Deployment counts.                                       *)
AvailableCondition(spec) ==
  \E i \in DOMAIN Owners(spec) :
    /\ Exists("Deployment", Owners(spec)[i]) /\ DeploymentReady(Owners(spec)[i])
    /\ \A j \in 1 .. i - 1 : ~Exists("Deployment", Owners(spec)[j])

(* One Deployment that has all its replicas is enough.                     *)
AllReplicasReadyCondition(spec) ==
  \E o \in ToSet(Owners(spec)) : Exists("Deployment", o) /\ DeploymentReady(o)

SetConditions(c) ==
  [c EXCEPT !.available = AvailableCondition(c.spec),
            !.allReady = AllReplicasReadyCondition(c.spec),
            !.success = IF @ = "None" THEN "Unknown" ELSE @]

(* Mutant of Refreshed: paused objects are not looked at.                  *)
RefreshedUnlessPaused(c) == IF c.paused THEN c ELSE SetConditions(c)

Refreshed(c) == SetConditions(c)

(* Fetch the object and its children and write the conditions, which       *)
(* queues the key again if they changed.                                   *)
Start ==
  /\ pc = "idle" /\ queued
  /\ cluster' = Refreshed(cluster)
  /\ queued' = (cluster' # cluster)
  /\ IF cluster.paused THEN UNCHANGED <<pc, local>>
     ELSE /\ pc' = "plan"
          /\ copy' = [spec |-> cluster.spec, phase |-> cluster.phase]
          /\ siblings' = config
          /\ stale' = FALSE
          /\ UNCHANGED todo
  /\ UNCHANGED <<objects, bounds>>

Discard ==
  /\ pc' = "idle" /\ copy' = NoCopy /\ stale' = FALSE /\ todo' = << >>
  /\ siblings' = NoRoutes

Retry == Discard /\ queued' = TRUE

Fault(what) ==
  what \in Failures /\ faults < MaxFaults /\ faults' = faults + 1

(* A failure is put into the conditions, if they are there.                *)
ReportFailure ==
  cluster' = [cluster EXCEPT !.success = IF @ = "None" THEN @ ELSE "False"]

(* A call fails or the process crashes.  The error is reported if the      *)
(* failing call fetched the children or was a builder's, and if that write *)
(* succeeds.                                                               *)
Abandon ==
  /\ pc # "idle" \/ queued
  /\ Fault("call")
  /\ \/ UNCHANGED cluster
     \/ pc \in {"idle", "build"} /\ ~stale /\ ReportFailure
  /\ Retry
  /\ UNCHANGED <<objects, edits, left>>

-----------------------------------------------------------------------------
(* The phase and the builders it calls for.                                *)

DeterminePhase(spec) ==
  IF spec = << >> THEN ""
  ELSE IF ~(Names(spec) \subseteq mapped) THEN "BuildingMap"
  ELSE IF ~(Names(spec) \subseteq ready) THEN "DeployingWorkers"
  ELSE "WorkersDeployed"

If(wanted, builder) == IF wanted THEN <<builder>> ELSE << >>

MapBuildingPhaseBuilders(profile) == <<<<"Job", profile.name>>>>

DeployingWorkersPhaseBuilders(profile) ==
  <<<<"Deployment", profile.name>>, <<"Service", profile.name>>,
    <<"PodDisruptionBudget", profile.name>>>>
  \o If(profile.autoscaled, <<"HorizontalPodAutoscaler", profile.name>>)

WorkersDeployedPhaseBuilders(profile) ==
  <<<<"Service", profile.name>>, <<"PodDisruptionBudget", profile.name>>,
    <<"Deployment", profile.name>>>>
  \o If(profile.autoscaled, <<"HorizontalPodAutoscaler", profile.name>>)
  \o If(profile.speedUpdates, <<"CronJob", profile.name>>)

GatewayBuilders == <<<<"ConfigMap", "gateway">>, <<"Service", "gateway">>,
                     <<"Deployment", "gateway">>>>

ForEach(spec, Builders(_)) == FlattenSeq([i \in DOMAIN spec |-> Builders(spec[i])])

ResourceBuildersForPhase(phase, spec) ==
  CASE phase = "BuildingMap" -> ForEach(spec, MapBuildingPhaseBuilders)
  []   phase = "DeployingWorkers" ->
         ForEach(spec, DeployingWorkersPhaseBuilders)
  []   phase = "WorkersDeployed" ->
         ForEach(spec, WorkersDeployedPhaseBuilders) \o GatewayBuilders
  []   phase = "" -> << >>

Plan ==
  LET phase == DeterminePhase(copy.spec)
  IN  /\ pc = "plan"
      /\ \/ phase # copy.phase /\ stale /\ Retry /\ UNCHANGED cluster
         \/ /\ phase # copy.phase => ~stale
            /\ IF phase = copy.phase THEN UNCHANGED <<cluster, queued>>
               ELSE cluster' = [cluster EXCEPT !.phase = phase] /\ queued' = TRUE
            /\ copy' = [copy EXCEPT !.phase = phase]
            /\ todo' = ResourceBuildersForPhase(phase, copy.spec)
            /\ pc' = "build"
            /\ UNCHANGED <<stale, siblings>>
      /\ UNCHANGED <<objects, bounds>>

-----------------------------------------------------------------------------
(* The builders.                                                           *)

(* The next builder creates its child, or finds it there.                  *)
Build(kind, owner) ==
  /\ pc = "build" /\ todo # << >> /\ Head(todo) = <<kind, owner>>
  /\ children' = children \cup {<<kind, owner>>}
  /\ todo' = Tail(todo)
  /\ UNCHANGED <<cluster, mapped, pods, pc, copy, stale, siblings, bounds>>

NotifyIf(changed, kind) == IF changed THEN Notify(kind) ELSE UNCHANGED queued

(* Nothing the model keeps of these changes after they are created.        *)
BuildOnce(kind, owner) ==
  /\ Build(kind, owner)
  /\ NotifyIf(~Exists(kind, owner), kind)
  /\ UNCHANGED <<ready, address, addresses, config, hash>>

BuildMap(p) == BuildOnce("Job", p)
BuildDeployment(p) == BuildOnce("Deployment", p)
BuildPodDisruptionBudget(p) == BuildOnce("PodDisruptionBudget", p)
BuildHorizontalPodAutoscaler(p) == BuildOnce("HorizontalPodAutoscaler", p)
BuildCronJob(p) == BuildOnce("CronJob", p)
BuildGatewayService == BuildOnce("Service", "gateway")

(* A Service that is created gets an address of its own.                   *)
BuildService(p) ==
  /\ Build("Service", p)
  /\ IF Exists("Service", p) THEN UNCHANGED <<address, addresses>>
     ELSE /\ addresses < MaxAddress
          /\ addresses' = addresses + 1
          /\ address' = [address EXCEPT ![p] = addresses + 1]
  /\ NotifyIf(~Exists("Service", p), "Service")
  /\ UNCHANGED <<ready, config, hash>>

BuildConfigMap ==
  /\ Build("ConfigMap", "gateway")
  /\ config' = Routes(copy.spec)
  /\ NotifyIf(~Exists("ConfigMap", "gateway") \/ config' # config, "ConfigMap")
  /\ UNCHANGED <<ready, address, addresses, hash>>

(* The hash is that of the ConfigMap as it was when the pass began.        *)
BuildGatewayDeployment ==
  /\ Build("Deployment", "gateway")
  /\ hash' = siblings
  /\ NotifyIf(~Exists("Deployment", "gateway") \/ hash' # hash, "Deployment")
  /\ UNCHANGED <<ready, address, addresses, config>>

SetLastAppliedSpecAnnotation ==
  /\ pc = "build" /\ todo = << >>
  /\ \/ stale /\ Retry
     \/ /\ ~stale
        /\ pc' = "collect" /\ todo' = Kinds
        /\ UNCHANGED <<queued, copy, stale, siblings>>
  /\ UNCHANGED <<cluster, objects, bounds>>

-----------------------------------------------------------------------------
(* GarbageCollection.                                                      *)

(* Mutant of ExpectedCronJobs: as for the autoscalers, the spec is not     *)
(* asked.                                                                  *)
AllCronJobs(spec) == Names(spec)

ExpectedCronJobs(spec) ==
  {spec[i].name : i \in {j \in DOMAIN spec : spec[j].speedUpdates}}

(* Mutant of ExpectedGateway: the gateway is forgotten.                    *)
NoGateway(spec) == {<<"Deployment", "gateway">>, <<"Service", "gateway">>}

ExpectedGateway(spec) ==
  IF spec = << >> THEN {} ELSE ToSet(GatewayBuilders)

ExpectedResources(spec) ==
  {"Deployment", "Service", "HorizontalPodAutoscaler", "PodDisruptionBudget",
   "Job"} \X Names(spec)
  \cup {"CronJob"} \X ExpectedCronJobs(spec)
  \cup ExpectedGateway(spec)

(* The children of one kind that are not expected are deleted.             *)
Collect ==
  LET doomed == {c \in children \ ExpectedResources(copy.spec) :
                   c[1] = Head(todo)}
      owners == {c[2] : c \in doomed}
  IN  /\ pc = "collect" /\ todo # << >>
      /\ children' = children \ doomed
      /\ CASE Head(todo) = "Deployment" ->
                /\ ready' = ready \ owners
                /\ IF "gateway" \in owners
                     THEN hash' = NoRoutes /\ pods' = NoPods
                     ELSE UNCHANGED <<hash, pods>>
                /\ UNCHANGED <<mapped, address, config>>
         []   Head(todo) = "Service" ->
                /\ address' = [p \in Profiles |->
                                 IF p \in owners THEN 0 ELSE address[p]]
                /\ UNCHANGED <<mapped, ready, config, hash, pods>>
         []   Head(todo) = "ConfigMap" ->
                /\ config' = IF doomed = {} THEN config ELSE NoRoutes
                /\ UNCHANGED <<mapped, ready, address, hash, pods>>
         []   Head(todo) = "Job" ->
                /\ mapped' = mapped \ owners
                /\ UNCHANGED <<ready, address, config, hash, pods>>
         []   OTHER -> UNCHANGED <<mapped, ready, address, config, hash, pods>>
      /\ NotifyIf(doomed # {}, Head(todo))
      /\ todo' = Tail(todo)
      /\ UNCHANGED <<cluster, addresses, pc, copy, stale, siblings, bounds>>

(* Mutant of SuccessStatus: status and reason are swapped.                 *)
SuccessReason == "Success"

SuccessStatus == "True"

(* The last write of a pass; if it fails the failure is only logged.       *)
SetReconciliationSuccess ==
  /\ pc = "collect" /\ todo = << >>
  /\ \/ /\ ~stale
        /\ cluster' = [cluster EXCEPT !.success = SuccessStatus]
        /\ queued' = (queued \/ cluster' # cluster)
        /\ UNCHANGED faults
     \/ stale /\ UNCHANGED <<cluster, queued, faults>>
     \/ Fault("report") /\ UNCHANGED <<cluster, queued>>
  /\ Discard
  /\ UNCHANGED <<objects, edits, left>>

-----------------------------------------------------------------------------
(* The user.                                                               *)

UserWrites ==
  /\ edits < MaxEdits /\ edits' = edits + 1
  /\ stale' = (pc # "idle")
  /\ queued' = TRUE
  /\ UNCHANGED <<objects, pc, copy, todo, siblings, faults>>

(* "edit" never comes back to a list of profiles it left, "return" does.   *)
EditSpec ==
  /\ UserWrites
  /\ \E s \in Specs \ {cluster.spec} :
       /\ \/ "return" \in UserOps
          \/ "edit" \in UserOps /\ Routes(s) \notin left
       /\ cluster' = [cluster EXCEPT !.spec = s]
       /\ left' = IF Routes(s) = Routes(cluster.spec) THEN left
                  ELSE left \cup {Routes(cluster.spec)}

TogglePause ==
  /\ "pause" \in UserOps /\ UserWrites
  /\ cluster' = [cluster EXCEPT !.paused = ~@]
  /\ UNCHANGED left

-----------------------------------------------------------------------------
(* Kubernetes, the map builder, the workers and the gateway.               *)

FinishMap(p) ==
  /\ Exists("Job", p) /\ p \notin mapped
  /\ mapped' = mapped \cup {p}
  /\ Notify("Job")
  /\ UNCHANGED <<cluster, children, ready, address, addresses, config,
                 hash, pods, pc, local, bounds>>

StartWorkers(p) ==
  /\ Exists("Deployment", p) /\ p \notin ready
  /\ ready' = ready \cup {p}
  /\ Notify("Deployment")
  /\ UNCHANGED <<cluster, children, mapped, address, addresses, config,
                 hash, pods, pc, local, bounds>>

(* New pods of the gateway replace those of an older template once they    *)
(* run.  They mount the ConfigMap; nginx takes the hosts from environment  *)
(* variables that name the Services existing when a pod starts, and stops  *)
(* if one is missing.                                                      *)
StartGateway ==
  /\ Exists("Deployment", "gateway")
  /\ ~pods.up \/ pods.hash # hash
  /\ config # NoRoutes /\ \A p \in ToSet(config) : Exists("Service", p)
  /\ pods' = [up |-> TRUE, hash |-> hash, config |-> config,
              hosts |-> [p \in Profiles |->
                           IF p \in ToSet(config) THEN address[p] ELSE 0]]
  /\ Notify("Deployment")
  /\ UNCHANGED <<cluster, children, mapped, ready, address, addresses,
                 config, hash, pc, local, bounds>>

FailWorkers(p) ==
  /\ p \in ready /\ Fault("pods")
  /\ ready' = ready \ {p}
  /\ Notify("Deployment")
  /\ UNCHANGED <<cluster, children, mapped, address, addresses, config,
                 hash, pods, pc, local, edits, left>>

FailGateway ==
  /\ pods.up /\ Fault("pods")
  /\ pods' = NoPods
  /\ Notify("Deployment")
  /\ UNCHANGED <<cluster, children, mapped, ready, address, addresses,
                 config, hash, pc, local, edits, left>>

-----------------------------------------------------------------------------
Reconcile ==
  \/ Start \/ Plan
  \/ \E p \in Profiles :
       \/ BuildMap(p) \/ BuildDeployment(p) \/ BuildService(p)
       \/ BuildPodDisruptionBudget(p) \/ BuildHorizontalPodAutoscaler(p)
       \/ BuildCronJob(p)
  \/ BuildConfigMap \/ BuildGatewayService \/ BuildGatewayDeployment
  \/ SetLastAppliedSpecAnnotation \/ Collect \/ SetReconciliationSuccess

User == EditSpec \/ TogglePause

Progress ==
  StartGateway \/ \E p \in Profiles : FinishMap(p) \/ StartWorkers(p)

Failure == Abandon \/ FailGateway \/ \E p \in Profiles : FailWorkers(p)

(* A periodic resync.                                                      *)
Wake ==
  /\ ~queued /\ queued' = TRUE
  /\ UNCHANGED <<cluster, objects, pc, local, bounds>>

Next == Reconcile \/ User \/ Progress \/ Failure \/ Wake

Spec == Init /\ [][Next]_vars

(* Queued keys are worked on and Kubernetes makes progress.                *)
FairSpec == Spec /\ WF_vars(Reconcile) /\ WF_vars(Progress)

-----------------------------------------------------------------------------
(* Properties.                                                             *)

AtRest == pc = "idle" /\ ~queued

Deployed == AtRest /\ ~cluster.paused /\ cluster.phase = "WorkersDeployed"

(* When the operator reports the workers deployed and has nothing left to  *)
(* do, all children the spec calls for exist, the gateway's too, and no    *)
(* others, after profiles, autoscalers and speed updates were added and    *)
(* removed and passes failed half way.  The one exception is the           *)
(* autoscaler of a profile of the spec that no longer asks for one; those  *)
(* of removed profiles are gone.                                           *)
(* WorkersDeployedPhaseBuilders, GarbageCollection.                        *)
ChildrenMatchSpec ==
  Deployed =>
    LET built == ToSet(ForEach(cluster.spec, WorkersDeployedPhaseBuilders))
                 \cup ToSet(ForEach(cluster.spec, MapBuildingPhaseBuilders))
                 \cup ToSet(GatewayBuilders)
        kept  == {"HorizontalPodAutoscaler"} \X Names(cluster.spec)
    IN  built \subseteq children /\ children \subseteq built \cup kept

(* When nothing is left to do and the gateway's roll-out is over, its pods *)
(* route to exactly the profiles of the spec, and to the Services that     *)
(* exist, although the hash that restarts them lags one pass behind.       *)
(* ConfigMapBuilder, GatewayDeploymentBuilder.setAnnotations.              *)
GatewayRoutesWorkers ==
  Deployed /\ pods.up /\ pods.hash = hash =>
    /\ pods.config = Routes(cluster.spec)
    /\ \A p \in Names(cluster.spec) : pods.hosts[p] = address[p]

(* The conditions describe the Deployments as they are whenever nothing is *)
(* left to do, also while the operator is paused: each change of a         *)
(* Deployment leads to a refresh.  refreshStatusConditions, Reconcile.     *)
ConditionsCurrent == AtRest => cluster = SetConditions(cluster)

(* After failures and edits the conditions say that the last pass was a    *)
(* success, all workers run and the gateway's pods are current.            *)
Settled ==
  ~cluster.paused =>
    /\ cluster.success = "True"
    /\ Names(cluster.spec) \subseteq ready
    /\ cluster.spec # << >> => pods.up /\ pods.hash = Routes(cluster.spec)

(* Whatever is edited, paused or fails, the cluster gets there and stays.  *)
Converges == <>[]Settled
=============================================================================
