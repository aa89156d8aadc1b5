----------------------- MODULE ClusterServing_proofs -----------------------
(***************************************************************************)
(* Proofs about ClusterServing, for all profiles, specs and bounds, and    *)
(* whatever the user and the failures do unless a theorem says otherwise.  *)
(***************************************************************************)
EXTENDS ClusterServing, SequenceLemmas

-----------------------------------------------------------------------------
(* The inductive invariants.                                               *)

(* While nobody else wrote the object the pass works on what it holds.     *)
Copied ==
  /\ pc = "idle" \/ ~queued => ~stale
  /\ pc # "idle" /\ ~stale => copy.spec = cluster.spec /\ copy.phase = cluster.phase

(* Every map that is built has its Job.                                    *)
MapsHaveJobs == \A p \in mapped : Exists("Job", p)

(* Nothing has happened that could change the phase.                       *)
PhaseIs(c) == c.phase = DeterminePhase(c.spec)

BuildersOf(c) == ToSet(ResourceBuildersForPhase(c.phase, c.spec))

Unexpected(c) == children \ ExpectedResources(c.spec)

(* As long as nothing is queued, the work of the pass under way is done up *)
(* to its todo list, and that of the last one is done.                     *)
WorkDone ==
  ~queued =>
    /\ pc = "build" =>
         PhaseIs(copy) /\ BuildersOf(copy) \subseteq children \cup ToSet(todo)
    /\ pc = "collect" =>
         /\ PhaseIs(copy) /\ BuildersOf(copy) \subseteq children
         /\ \A c \in Unexpected(copy) : c[1] \in ToSet(todo)
    /\ pc = "idle" /\ ~cluster.paused =>
         /\ PhaseIs(cluster) /\ BuildersOf(cluster) \subseteq children
         /\ Unexpected(cluster) = {}

(* The conditions are those of the last refresh, and nothing has changed   *)
(* since.                                                                  *)
Reported == ~queued => cluster = SetConditions(cluster)

(* The routes of the gateway are those of the spec, as far as the pass got.*)
GatewayDone ==
  ~queued =>
    /\ pc # "idle" => siblings = config
    /\ pc = "build" /\ copy.phase = "WorkersDeployed" =>
         /\ config = Routes(copy.spec) \/ <<"ConfigMap", "gateway">> \in ToSet(todo)
         /\ hash = siblings \/ <<"Deployment", "gateway">> \in ToSet(todo)
    /\ pc = "collect" /\ copy.phase = "WorkersDeployed" =>
         config = Routes(copy.spec) /\ hash = config
    /\ pc = "idle" /\ ~cluster.paused /\ cluster.phase = "WorkersDeployed" =>
         config = Routes(cluster.spec) /\ hash = config

(* Routes nobody submitted before those the spec has now.                  *)
Known(routes) ==
  routes = NoRoutes \/ routes = Routes(cluster.spec) \/ routes \in left

(* They are the current ones.                                              *)
Fresh(routes) == routes = Routes(cluster.spec) /\ routes # NoRoutes

(* For a user who does not come back to earlier routes: what the gateway   *)
(* is given only gets newer.  Once the current routes are in its           *)
(* ConfigMap, every pass under way works with them, and neither its pods   *)
(* nor the Services they know are those of other routes.                   *)
OnlyForward ==
  /\ Routes(cluster.spec) \notin left
  /\ Known(config) /\ Known(hash) /\ Known(pods.hash)
  /\ pc # "idle" => Known(Routes(copy.spec)) /\ Known(siblings)
  /\ pc # "idle" /\ (Fresh(config) \/ Fresh(hash) \/ Fresh(siblings) \/ Fresh(pods.hash))
       => Routes(copy.spec) = Routes(cluster.spec)
  /\ pc # "idle" /\ Fresh(siblings) => config \in {siblings, NoRoutes}
  /\ Fresh(hash) => config \in {hash, NoRoutes}
  /\ pods.up /\ Fresh(pods.hash) =>
       /\ pods.config = pods.hash
       /\ config \in {pods.hash, NoRoutes}
       /\ \A p \in ToSet(pods.config) :
            Exists("Service", p) /\ pods.hosts[p] = address[p]

-----------------------------------------------------------------------------
(* What the operators return.                                              *)

LEMMA RoutesType ==
  ASSUME NEW spec \in Seq(ProfileSpec)
  PROVE  /\ Routes(spec) \in Seq(Profiles)
         /\ DOMAIN Routes(spec) = DOMAIN spec
         /\ Names(spec) \subseteq Profiles
         /\ \A i \in DOMAIN spec :
              spec[i] \in ProfileSpec /\ Routes(spec)[i] = spec[i].name
<1>1. DOMAIN spec = 1 .. Len(spec) /\ Len(spec) \in Nat
  OBVIOUS
<1>2. \A i \in DOMAIN spec : spec[i] \in ProfileSpec /\ spec[i].name \in Profiles
  <2>1. \A i \in DOMAIN spec : spec[i] \in ProfileSpec
    OBVIOUS
  <2>2. \A r \in ProfileSpec : r.name \in Profiles
    BY DEF ProfileSpec
  <2> QED
    BY <2>1, <2>2
<1>3. Routes(spec) \in [1 .. Len(spec) -> Profiles]
  BY <1>1, <1>2 DEF Routes
<1>4. Routes(spec) \in Seq(Profiles)
  BY <1>1, <1>3
<1>5. Names(spec) \subseteq Profiles
  BY <1>4, SetOfSequence DEF Names
<1> QED
  BY <1>2, <1>4, <1>5 DEF Routes

(* The builders of one profile, and those of all profiles.                 *)
LEMMA ForEachType ==
  ASSUME NEW spec \in Seq(ProfileSpec),
         NEW lists \in [DOMAIN spec -> Seq(Child)]
  PROVE  /\ FlattenSeq(lists) \in Seq(Child)
         /\ \A c : c \in ToSet(FlattenSeq(lists)) <=>
                     \E i \in DOMAIN spec : c \in ToSet(lists[i])
<1>1. DOMAIN spec = 1 .. Len(spec) /\ Len(spec) \in Nat
  OBVIOUS
<1> QED
  BY <1>1, SetOfFlattened

KindsUsed == {"CronJob", "Deployment", "HorizontalPodAutoscaler",
              "PodDisruptionBudget", "Service", "ConfigMap", "Job"}

LEMMA KindsType ==
  /\ Kinds \in Seq(ToSet(Kinds)) /\ Kinds # << >>
  /\ ToSet(Kinds) = KindsUsed
  /\ Watched = KindsUsed
<1>1. Len(Kinds) = 7 /\ DOMAIN Kinds = 1 .. 7
  BY DEF Kinds
<1>2. ToSet(Kinds) = KindsUsed
  <2>1. \A x \in ToSet(Kinds) : x \in KindsUsed
    BY <1>1 DEF ToSet, Kinds, KindsUsed
  <2>2. \A x \in KindsUsed : \E i \in 1 .. 7 : x = Kinds[i]
    BY DEF Kinds, KindsUsed
  <2> QED
    BY <1>1, <2>1, <2>2 DEF ToSet
<1>3. Kinds \in Seq(KindsUsed)
  BY DEF Kinds, KindsUsed
<1> QED
  BY <1>1, <1>2, <1>3 DEF Watched

LEMMA ChildType ==
  /\ Child = KindsUsed \X (Profiles \cup {"gateway"})
BY KindsType DEF Child

(* The builders of a profile, as sets.                                     *)
MapChildren(profile) == {<<"Job", profile.name>>}

DeployingChildren(profile) ==
  {"Deployment", "Service", "PodDisruptionBudget"} \X {profile.name}
  \cup (IF profile.autoscaled THEN {<<"HorizontalPodAutoscaler", profile.name>>}
                              ELSE {})

DeployedChildren(profile) ==
  DeployingChildren(profile)
  \cup (IF profile.speedUpdates THEN {<<"CronJob", profile.name>>} ELSE {})

LEMMA IfType ==
  ASSUME NEW wanted \in BOOLEAN, NEW c \in Child
  PROVE  /\ If(wanted, c) \in Seq(Child)
         /\ ToSet(If(wanted, c)) = IF wanted THEN {c} ELSE {}
BY DEF If, ToSet

LEMMA ProfileBuilders ==
  ASSUME NEW profile \in ProfileSpec
  PROVE  /\ MapBuildingPhaseBuilders(profile) \in Seq(Child)
         /\ ToSet(MapBuildingPhaseBuilders(profile)) = MapChildren(profile)
         /\ DeployingWorkersPhaseBuilders(profile) \in Seq(Child)
         /\ ToSet(DeployingWorkersPhaseBuilders(profile)) = DeployingChildren(profile)
         /\ WorkersDeployedPhaseBuilders(profile) \in Seq(Child)
         /\ ToSet(WorkersDeployedPhaseBuilders(profile)) = DeployedChildren(profile)
<1> DEFINE p == profile.name
           auto == If(profile.autoscaled, <<"HorizontalPodAutoscaler", p>>)
           speed == If(profile.speedUpdates, <<"CronJob", p>>)
           three == <<<<"Deployment", p>>, <<"Service", p>>, <<"PodDisruptionBudget", p>>>>
           others == <<<<"Service", p>>, <<"PodDisruptionBudget", p>>, <<"Deployment", p>>>>
<1>1. /\ p \in Profiles /\ profile.autoscaled \in BOOLEAN
      /\ profile.speedUpdates \in BOOLEAN
  BY DEF ProfileSpec
<1>2. \A kind \in KindsUsed : <<kind, p>> \in Child
  BY <1>1, ChildType
<1>3. /\ <<"Job", p>> \in Child /\ <<"Deployment", p>> \in Child
      /\ <<"Service", p>> \in Child /\ <<"PodDisruptionBudget", p>> \in Child
      /\ <<"HorizontalPodAutoscaler", p>> \in Child /\ <<"CronJob", p>> \in Child
  BY <1>2 DEF KindsUsed
<1>4. /\ auto \in Seq(Child) /\ speed \in Seq(Child)
      /\ ToSet(auto) = IF profile.autoscaled
                         THEN {<<"HorizontalPodAutoscaler", p>>} ELSE {}
      /\ ToSet(speed) = IF profile.speedUpdates THEN {<<"CronJob", p>>} ELSE {}
  BY <1>1, <1>3, IfType
<1>5. /\ three \in Seq(Child) /\ others \in Seq(Child)
      /\ ToSet(three) = {<<"Deployment", p>>, <<"Service", p>>, <<"PodDisruptionBudget", p>>}
      /\ ToSet(others) = ToSet(three)
  BY <1>3 DEF ToSet
<1>6. /\ <<<<"Job", p>>>> \in Seq(Child)
      /\ ToSet(<<<<"Job", p>>>>) = MapChildren(profile)
  BY <1>3 DEF ToSet, MapChildren
<1> HIDE DEF auto, speed, three, others
<1>7. /\ three \o auto \in Seq(Child)
      /\ ToSet(three \o auto) = DeployingChildren(profile)
  BY <1>4, <1>5, SetOfConcatenation DEF DeployingChildren
<1>8. /\ others \o auto \in Seq(Child)
      /\ ToSet(others \o auto) = DeployingChildren(profile)
  BY <1>4, <1>5, SetOfConcatenation DEF DeployingChildren
<1>9. /\ (others \o auto) \o speed \in Seq(Child)
      /\ ToSet((others \o auto) \o speed) = DeployedChildren(profile)
  <2>1. /\ (others \o auto) \o speed \in Seq(Child)
        /\ ToSet((others \o auto) \o speed)
             = DeployingChildren(profile) \cup ToSet(speed)
    BY <1>4, <1>8, SetOfConcatenation
  <2> QED
    BY <1>4, <2>1 DEF DeployedChildren
<1> QED
  BY <1>6, <1>7, <1>9
     DEF MapBuildingPhaseBuilders, DeployingWorkersPhaseBuilders,
         WorkersDeployedPhaseBuilders, three, others, auto, speed

LEMMA PhaseBuilders ==
  ASSUME NEW spec \in Seq(ProfileSpec)
  PROVE  LET maps      == ForEach(spec, MapBuildingPhaseBuilders)
             deploying == ForEach(spec, DeployingWorkersPhaseBuilders)
             deployed  == ForEach(spec, WorkersDeployedPhaseBuilders)
         IN  /\ maps \in Seq(Child) /\ deploying \in Seq(Child)
             /\ deployed \in Seq(Child)
             /\ \A c : c \in ToSet(maps) <=>
                         \E i \in DOMAIN spec : c \in MapChildren(spec[i])
             /\ \A c : c \in ToSet(deployed) <=>
                         \E i \in DOMAIN spec : c \in DeployedChildren(spec[i])
<1> DEFINE mapLists == [i \in DOMAIN spec |-> MapBuildingPhaseBuilders(spec[i])]
           deployingLists == [i \in DOMAIN spec |-> DeployingWorkersPhaseBuilders(spec[i])]
           deployedLists == [i \in DOMAIN spec |-> WorkersDeployedPhaseBuilders(spec[i])]
<1>1. \A i \in DOMAIN spec : spec[i] \in ProfileSpec
  OBVIOUS
<1>2. /\ mapLists \in [DOMAIN spec -> Seq(Child)]
      /\ deployingLists \in [DOMAIN spec -> Seq(Child)]
      /\ deployedLists \in [DOMAIN spec -> Seq(Child)]
  BY <1>1, ProfileBuilders
<1>3. \A i \in DOMAIN spec :
        /\ ToSet(mapLists[i]) = MapChildren(spec[i])
        /\ ToSet(deployedLists[i]) = DeployedChildren(spec[i])
  BY <1>1, ProfileBuilders
<1>4. /\ ForEach(spec, MapBuildingPhaseBuilders) = FlattenSeq(mapLists)
      /\ ForEach(spec, DeployingWorkersPhaseBuilders) = FlattenSeq(deployingLists)
      /\ ForEach(spec, WorkersDeployedPhaseBuilders) = FlattenSeq(deployedLists)
  BY DEF ForEach
<1> HIDE DEF mapLists, deployingLists, deployedLists
<1>5. /\ FlattenSeq(mapLists) \in Seq(Child)
      /\ \A c : c \in ToSet(FlattenSeq(mapLists)) <=>
                  \E i \in DOMAIN spec : c \in ToSet(mapLists[i])
  BY <1>2, ForEachType
<1>6. FlattenSeq(deployingLists) \in Seq(Child)
  BY <1>2, ForEachType
<1>7. /\ FlattenSeq(deployedLists) \in Seq(Child)
      /\ \A c : c \in ToSet(FlattenSeq(deployedLists)) <=>
                  \E i \in DOMAIN spec : c \in ToSet(deployedLists[i])
  BY <1>2, ForEachType
<1> QED
  BY <1>3, <1>4, <1>5, <1>6, <1>7

LEMMA GatewayType ==
  /\ GatewayBuilders \in Seq(Child)
  /\ ToSet(GatewayBuilders) = {<<"ConfigMap", "gateway">>, <<"Service", "gateway">>,
                               <<"Deployment", "gateway">>}
<1>1. /\ <<"ConfigMap", "gateway">> \in Child /\ <<"Service", "gateway">> \in Child
      /\ <<"Deployment", "gateway">> \in Child
  BY ChildType DEF KindsUsed
<1> QED
  BY <1>1 DEF GatewayBuilders, ToSet

LEMMA BuildersType ==
  ASSUME NEW spec \in Seq(ProfileSpec), NEW phase \in Phase
  PROVE  ResourceBuildersForPhase(phase, spec) \in Seq(Child)
<1>1. CASE phase = "BuildingMap"
  BY <1>1, PhaseBuilders DEF ResourceBuildersForPhase
<1>2. CASE phase = "DeployingWorkers"
  BY <1>2, PhaseBuilders DEF ResourceBuildersForPhase
<1>3. CASE phase = "WorkersDeployed"
  <2>1. ForEach(spec, WorkersDeployedPhaseBuilders) \o GatewayBuilders \in Seq(Child)
    BY PhaseBuilders, GatewayType, SetOfConcatenation
  <2> QED
    BY <1>3, <2>1 DEF ResourceBuildersForPhase
<1>4. CASE phase = ""
  <2>1. ResourceBuildersForPhase("", spec) = << >>
    BY DEF ResourceBuildersForPhase
  <2>2. << >> \in Seq(Child)
    OBVIOUS
  <2> QED
    BY <1>4, <2>1, <2>2
<1> QED
  BY <1>1, <1>2, <1>3, <1>4 DEF Phase

LEMMA DeployedBuilders ==
  ASSUME NEW spec \in Seq(ProfileSpec)
  PROVE  ToSet(ResourceBuildersForPhase("WorkersDeployed", spec))
           = ToSet(ForEach(spec, WorkersDeployedPhaseBuilders)) \cup ToSet(GatewayBuilders)
<1>1. ResourceBuildersForPhase("WorkersDeployed", spec)
        = ForEach(spec, WorkersDeployedPhaseBuilders) \o GatewayBuilders
  BY DEF ResourceBuildersForPhase
<1>2. /\ ForEach(spec, WorkersDeployedPhaseBuilders) \in Seq(Child)
      /\ GatewayBuilders \in Seq(Child)
  BY PhaseBuilders, GatewayType
<1> QED
  BY <1>1, <1>2, SetOfConcatenation

LEMMA SpecsType ==
  /\ Specs \subseteq Seq(ProfileSpec) /\ << >> \in Seq(ProfileSpec)
  /\ FirstSpec \in Specs
BY ServingAssumption

-----------------------------------------------------------------------------
(* Type correctness.                                                       *)

ClusterTypeOK ==
  cluster \in [spec : Specs, paused : BOOLEAN, phase : Phase,
               available : BOOLEAN, allReady : BOOLEAN,
               success : {"None", "Unknown", "True", "False"}]

ChildrenTypeOK ==
  /\ children \subseteq Child
  /\ mapped \subseteq Profiles /\ ready \subseteq Profiles
  /\ address \in [Profiles -> 0 .. MaxAddress]
  /\ addresses \in 0 .. MaxAddress

GatewayTypeOK ==
  /\ config \in Seq(Profiles) /\ hash \in Seq(Profiles)
  /\ pods.hash \in Seq(Profiles) /\ pods.config \in Seq(Profiles)
  /\ pods.up \in BOOLEAN /\ pods.hosts \in [Profiles -> 0 .. MaxAddress]

PassTypeOK ==
  /\ queued \in BOOLEAN /\ stale \in BOOLEAN
  /\ pc \in {"idle", "plan", "build", "collect"}
  /\ copy \in [spec : Specs \cup {<< >>}, phase : Phase]
  /\ todo \in IF pc = "collect" THEN Seq(ToSet(Kinds)) ELSE Seq(Child)
  /\ siblings \in Seq(Profiles)
  /\ edits \in 0 .. MaxEdits /\ faults \in 0 .. MaxFaults

LEMMA TypeParts ==
  /\ TypeOK <=> ClusterTypeOK /\ ChildrenTypeOK /\ GatewayTypeOK /\ PassTypeOK
  /\ TypeOK' <=> ClusterTypeOK' /\ ChildrenTypeOK' /\ GatewayTypeOK' /\ PassTypeOK'
BY DEF TypeOK, ClusterTypeOK, ChildrenTypeOK, GatewayTypeOK, PassTypeOK

LEMMA InitType == Init => TypeOK
<1> SUFFICES ASSUME Init PROVE TypeOK
  OBVIOUS
<1>1. /\ MaxAddress \in Nat /\ MaxEdits \in Nat /\ MaxFaults \in Nat
      /\ FirstSpec \in Specs
  BY ServingAssumption
<1>2. NoHosts \in [Profiles -> 0 .. MaxAddress]
  BY <1>1 DEF NoHosts
<1>3. << >> \in Seq(Profiles) /\ << >> \in Seq(Child)
  OBVIOUS
<1>4. ClusterTypeOK
  <2>1. /\ cluster = [spec |-> FirstSpec, paused |-> FALSE, phase |-> "",
                     available |-> FALSE, allReady |-> FALSE, success |-> "None"]
        /\ "" \in Phase
    BY DEF Init, Phase
  <2> QED
    BY <1>1, <2>1 DEF ClusterTypeOK
<1>5. ChildrenTypeOK
  <2>1. /\ children = {} /\ mapped = {} /\ ready = {}
        /\ address = NoHosts /\ addresses = 0
    BY DEF Init
  <2> QED
    BY <1>1, <1>2, <2>1 DEF ChildrenTypeOK
<1>6. GatewayTypeOK
  BY <1>1, <1>2, <1>3 DEF Init, GatewayTypeOK, NoRoutes, NoPods
<1>7. PassTypeOK
  <2>1. /\ queued = TRUE /\ pc = "idle" /\ stale = FALSE /\ todo = << >>
        /\ copy = [spec |-> << >>, phase |-> ""] /\ siblings = << >>
        /\ edits = 0 /\ faults = 0 /\ "" \in Phase
    BY DEF Init, NoRoutes, NoCopy, Phase
  <2>2. 0 \in 0 .. MaxEdits /\ 0 \in 0 .. MaxFaults
    BY <1>1
  <2>3. copy \in [spec : Specs \cup {<< >>}, phase : Phase]
    BY <2>1
  <2>4. todo \in IF pc = "collect" THEN Seq(ToSet(Kinds)) ELSE Seq(Child)
    BY <1>3, <2>1
  <2> QED
    BY <1>3, <2>1, <2>2, <2>3, <2>4 DEF PassTypeOK
<1> QED
  BY <1>4, <1>5, <1>6, <1>7, TypeParts

LEMMA SetConditionsType ==
  ASSUME ClusterTypeOK
  PROVE  SetConditions(cluster) \in [spec : Specs, paused : BOOLEAN, phase : Phase,
                                     available : BOOLEAN, allReady : BOOLEAN,
                                     success : {"None", "Unknown", "True", "False"}]
<1>1. AvailableCondition(cluster.spec) \in BOOLEAN
  BY DEF AvailableCondition
<1>2. AllReplicasReadyCondition(cluster.spec) \in BOOLEAN
  BY DEF AllReplicasReadyCondition
<1> QED
  BY <1>1, <1>2 DEF SetConditions, ClusterTypeOK

(* The steps that run a builder.                                           *)
Builders ==
  \/ \E p \in Profiles :
       \/ BuildMap(p) \/ BuildDeployment(p) \/ BuildService(p)
       \/ BuildPodDisruptionBudget(p) \/ BuildHorizontalPodAutoscaler(p)
       \/ BuildCronJob(p)
  \/ BuildConfigMap \/ BuildGatewayService \/ BuildGatewayDeployment

(* Every builder takes one child from the list; those that write more than *)
(* the child itself are the builders of Services, of the ConfigMap and of  *)
(* the gateway's Deployment.                                               *)
LEMMA OneBuilder ==
  ASSUME Builders
  PROVE  \E kind \in KindsUsed, owner \in Profiles \cup {"gateway"} :
           /\ Build(kind, owner)
           /\ \/ BuildOnce(kind, owner) /\ (owner = "gateway" => kind = "Service")
              \/ kind = "Service" /\ owner \in Profiles /\ BuildService(owner)
              \/ kind = "ConfigMap" /\ owner = "gateway" /\ BuildConfigMap
              \/ kind = "Deployment" /\ owner = "gateway" /\ BuildGatewayDeployment
<1> DEFINE Goal ==
      \E kind \in KindsUsed, owner \in Profiles \cup {"gateway"} :
           /\ Build(kind, owner)
           /\ \/ BuildOnce(kind, owner) /\ (owner = "gateway" => kind = "Service")
              \/ kind = "Service" /\ owner \in Profiles /\ BuildService(owner)
              \/ kind = "ConfigMap" /\ owner = "gateway" /\ BuildConfigMap
              \/ kind = "Deployment" /\ owner = "gateway" /\ BuildGatewayDeployment
<1>0. /\ "Job" \in KindsUsed /\ "Deployment" \in KindsUsed /\ "Service" \in KindsUsed
      /\ "PodDisruptionBudget" \in KindsUsed /\ "HorizontalPodAutoscaler" \in KindsUsed
      /\ "CronJob" \in KindsUsed /\ "ConfigMap" \in KindsUsed
  BY DEF KindsUsed
<1>1. ASSUME NEW kind \in KindsUsed, NEW owner \in Profiles \cup {"gateway"},
             BuildOnce(kind, owner), owner = "gateway" => kind = "Service"
      PROVE  Goal
  <2>1. Build(kind, owner)
    BY <1>1 DEF BuildOnce
  <2> QED
    BY <1>1, <2>1
<1>2. ASSUME NEW p \in Profiles, BuildService(p) PROVE Goal
  <2>1. Build("Service", p)
    BY <1>2 DEF BuildService
  <2> QED
    BY <1>0, <1>2, <2>1
<1>3. ASSUME BuildConfigMap PROVE Goal
  <2>1. Build("ConfigMap", "gateway")
    BY <1>3 DEF BuildConfigMap
  <2> QED
    BY <1>0, <1>3, <2>1
<1>4. ASSUME BuildGatewayDeployment PROVE Goal
  <2>1. Build("Deployment", "gateway")
    BY <1>4 DEF BuildGatewayDeployment
  <2> QED
    BY <1>0, <1>4, <2>1
<1> HIDE DEF Goal
<1>5. ASSUME NEW p \in Profiles,
             BuildMap(p) \/ BuildDeployment(p) \/ BuildPodDisruptionBudget(p)
             \/ BuildHorizontalPodAutoscaler(p) \/ BuildCronJob(p)
      PROVE  Goal
  BY <1>0, <1>1, <1>5, ServingAssumption
     DEF BuildMap, BuildDeployment, BuildPodDisruptionBudget,
         BuildHorizontalPodAutoscaler, BuildCronJob
<1>6. ASSUME BuildGatewayService PROVE Goal
  BY <1>0, <1>1, <1>6 DEF BuildGatewayService
<1>7. Goal
  BY <1>2, <1>3, <1>4, <1>5, <1>6 DEF Builders
<1> QED
  BY <1>7 DEF Goal

LEMMA ReconcileSteps ==
  Reconcile <=> \/ Start \/ Plan \/ Builders \/ SetLastAppliedSpecAnnotation
                \/ Collect \/ SetReconciliationSuccess
BY DEF Reconcile, Builders

LEMMA CopyType ==
  ASSUME PassTypeOK
  PROVE  /\ copy.spec \in Seq(ProfileSpec) /\ copy.phase \in Phase
         /\ Routes(copy.spec) \in Seq(Profiles)
<1>1. copy.spec \in Specs \cup {<< >>} /\ copy.phase \in Phase
  BY DEF PassTypeOK
<1>2. copy.spec \in Seq(ProfileSpec)
  BY <1>1, SpecsType
<1> QED
  BY <1>1, <1>2, RoutesType

LEMMA DiscardType ==
  ASSUME Discard, edits' \in 0 .. MaxEdits, faults' \in 0 .. MaxFaults,
         queued' \in BOOLEAN
  PROVE  PassTypeOK'
<1>1. /\ pc' = "idle" /\ stale' = FALSE /\ todo' = << >> /\ siblings' = << >>
      /\ copy' = [spec |-> << >>, phase |-> ""]
  BY DEF Discard, NoCopy, NoRoutes
<1>2. "" \in Phase /\ << >> \in Seq(Child) /\ << >> \in Seq(Profiles)
  BY DEF Phase
<1>3. copy' \in [spec : Specs \cup {<< >>}, phase : Phase]
  BY <1>1, <1>2
<1> QED
  BY <1>1, <1>2, <1>3 DEF PassTypeOK

LEMMA FaultType ==
  ASSUME NEW what, Fault(what), faults \in 0 .. MaxFaults
  PROVE  faults' \in 0 .. MaxFaults
<1>1. MaxFaults \in Nat /\ faults \in Nat /\ faults < MaxFaults /\ faults' = faults + 1
  BY ServingAssumption DEF Fault
<1> QED
  BY <1>1

LEMMA DeterminePhaseType ==
  ASSUME NEW spec PROVE DeterminePhase(spec) \in Phase
BY DEF DeterminePhase, Phase

LEMMA PassKeepsType ==
  ASSUME TypeOK,
         Start \/ Plan \/ SetLastAppliedSpecAnnotation \/ SetReconciliationSuccess
  PROVE  TypeOK'
<1>0. ClusterTypeOK /\ ChildrenTypeOK /\ GatewayTypeOK /\ PassTypeOK
  BY TypeParts
<1>1. /\ UNCHANGED objects /\ edits' = edits
  BY DEF Start, Plan, SetLastAppliedSpecAnnotation, SetReconciliationSuccess, bounds
<1>2. ChildrenTypeOK' /\ GatewayTypeOK'
  BY <1>0, <1>1 DEF ChildrenTypeOK, GatewayTypeOK, objects
<1>3. queued \in BOOLEAN /\ stale \in BOOLEAN /\ edits \in 0 .. MaxEdits
      /\ faults \in 0 .. MaxFaults
  BY <1>0 DEF PassTypeOK
<1>4. CASE Start
  <2>1. ClusterTypeOK'
    <3>1. cluster' = SetConditions(cluster)
      BY <1>4 DEF Start, Refreshed
    <3> QED
      BY <1>0, <3>1, SetConditionsType DEF ClusterTypeOK
  <2>2. queued' \in BOOLEAN /\ faults' = faults
    BY <1>4 DEF Start, bounds
  <2>3. PassTypeOK'
    <3>1. CASE cluster.paused
      BY <1>0, <1>1, <1>4, <2>2, <3>1 DEF Start, PassTypeOK, local
    <3>2. CASE ~cluster.paused
      <4>1. /\ pc = "idle" /\ pc' = "plan" /\ siblings' = config /\ stale' = FALSE
            /\ todo' = todo
            /\ copy' = [spec |-> cluster.spec, phase |-> cluster.phase]
        BY <1>4, <3>2 DEF Start
      <4>2. cluster.spec \in Specs /\ cluster.phase \in Phase
        BY <1>0 DEF ClusterTypeOK
      <4>3. copy' \in [spec : Specs \cup {<< >>}, phase : Phase]
        BY <4>1, <4>2
      <4>4. todo' \in IF pc' = "collect" THEN Seq(ToSet(Kinds)) ELSE Seq(Child)
        BY <1>0, <4>1 DEF PassTypeOK
      <4> QED
        BY <1>0, <1>1, <1>3, <2>2, <4>1, <4>3, <4>4 DEF PassTypeOK, GatewayTypeOK
    <3> QED
      BY <3>1, <3>2
  <2> QED
    BY <1>2, <2>1, <2>3, TypeParts
<1>5. CASE Plan
  <2> DEFINE phase == DeterminePhase(copy.spec)
  <2>1. phase \in Phase /\ faults' = faults
    BY <1>5, DeterminePhaseType DEF Plan, bounds
  <2>2. ClusterTypeOK'
    BY <1>0, <1>5, <2>1 DEF Plan, ClusterTypeOK
  <2>3. PassTypeOK'
    <3>1. CASE Retry
      BY <1>1, <1>3, <2>1, <3>1, DiscardType DEF Retry
    <3>2. CASE ~Retry
      <4>1. /\ queued' = queued \/ queued' = TRUE
            /\ copy' = [copy EXCEPT !.phase = phase]
            /\ todo' = ResourceBuildersForPhase(phase, copy.spec)
            /\ pc' = "build" /\ stale' = stale /\ siblings' = siblings
        BY <1>5, <3>2 DEF Plan
      <4>2. todo' \in Seq(Child)
        BY <1>0, <2>1, <4>1, CopyType, BuildersType
      <4>3. copy' \in [spec : Specs \cup {<< >>}, phase : Phase]
        BY <1>0, <2>1, <4>1 DEF PassTypeOK
      <4> QED
        BY <1>0, <1>1, <1>3, <2>1, <4>1, <4>2, <4>3 DEF PassTypeOK
    <3> QED
      BY <3>1, <3>2
  <2> QED
    BY <1>2, <2>2, <2>3, TypeParts
<1>6. CASE SetLastAppliedSpecAnnotation
  <2>1. ClusterTypeOK' /\ faults' = faults
    BY <1>0, <1>6 DEF SetLastAppliedSpecAnnotation, ClusterTypeOK, bounds
  <2>2. PassTypeOK'
    <3>1. CASE Retry
      BY <1>1, <1>3, <2>1, <3>1, DiscardType DEF Retry
    <3>2. CASE ~Retry
      BY <1>0, <1>1, <1>6, <2>1, <3>2, KindsType
         DEF SetLastAppliedSpecAnnotation, PassTypeOK
    <3> QED
      BY <3>1, <3>2
  <2> QED
    BY <1>2, <2>1, <2>2, TypeParts
<1>7. CASE SetReconciliationSuccess
  <2>1. ClusterTypeOK'
    BY <1>0, <1>7 DEF SetReconciliationSuccess, ClusterTypeOK, SuccessStatus
  <2>2. /\ queued' \in BOOLEAN /\ faults' \in 0 .. MaxFaults
    BY <1>3, <1>7, FaultType DEF SetReconciliationSuccess
  <2>3. PassTypeOK'
    BY <1>1, <1>3, <1>7, <2>2, DiscardType DEF SetReconciliationSuccess
  <2> QED
    BY <1>2, <2>1, <2>3, TypeParts
<1> QED
  BY <1>4, <1>5, <1>6, <1>7

LEMMA NotifyType ==
  ASSUME NEW kind, NEW changed, Notify(kind) \/ NotifyIf(changed, kind),
         queued \in BOOLEAN
  PROVE  queued' \in BOOLEAN
BY DEF Notify, NotifyIf

LEMMA BuildersKeepType ==
  ASSUME TypeOK, Builders
  PROVE  TypeOK'
<1>0. ClusterTypeOK /\ ChildrenTypeOK /\ GatewayTypeOK /\ PassTypeOK
  BY TypeParts
<1>1. PICK kind \in KindsUsed, owner \in Profiles \cup {"gateway"} :
         /\ Build(kind, owner)
         /\ \/ BuildOnce(kind, owner) /\ (owner = "gateway" => kind = "Service")
            \/ kind = "Service" /\ owner \in Profiles /\ BuildService(owner)
            \/ kind = "ConfigMap" /\ owner = "gateway" /\ BuildConfigMap
            \/ kind = "Deployment" /\ owner = "gateway" /\ BuildGatewayDeployment
  BY OneBuilder
<1>2. /\ pc = "build" /\ todo # << >> /\ todo' = Tail(todo)
      /\ children' = children \cup {<<kind, owner>>}
      /\ UNCHANGED <<cluster, mapped, pods, pc, copy, stale, siblings, edits, faults>>
  BY <1>1 DEF Build, bounds
<1>3. children' \subseteq Child
  BY <1>0, <1>2, ChildType DEF ChildrenTypeOK
<1>4. todo' \in Seq(Child)
  <2>1. todo \in Seq(Child)
    BY <1>0, <1>2 DEF PassTypeOK
  <2> QED
    BY <1>2, <2>1, WorkTaken
<1>5. queued' \in BOOLEAN
  <2>1. \E k, changed : NotifyIf(changed, k)
    BY <1>1 DEF BuildOnce, BuildService, BuildConfigMap, BuildGatewayDeployment
  <2> QED
    BY <1>0, <2>1, NotifyType DEF PassTypeOK
<1>6. PassTypeOK'
  BY <1>0, <1>2, <1>4, <1>5 DEF PassTypeOK
<1>7. ClusterTypeOK'
  BY <1>0, <1>2 DEF ClusterTypeOK
<1>8. /\ ready' = ready
      /\ address' \in [Profiles -> 0 .. MaxAddress] /\ addresses' \in 0 .. MaxAddress
      /\ config' \in Seq(Profiles) /\ hash' \in Seq(Profiles)
  <2>1. MaxAddress \in Nat
    BY ServingAssumption
  <2>2. CASE BuildOnce(kind, owner)
    BY <1>0, <2>2 DEF BuildOnce, ChildrenTypeOK, GatewayTypeOK
  <2>3. CASE owner \in Profiles /\ BuildService(owner)
    <3>1. ready' = ready /\ config' = config /\ hash' = hash
      BY <2>3 DEF BuildService
    <3>2. CASE Exists("Service", owner)
      BY <1>0, <2>3, <3>1, <3>2 DEF BuildService, ChildrenTypeOK, GatewayTypeOK
    <3>3. CASE ~Exists("Service", owner)
      <4>1. /\ addresses < MaxAddress /\ addresses' = addresses + 1
            /\ address' = [address EXCEPT ![owner] = addresses + 1]
        BY <2>3, <3>3 DEF BuildService
      <4>2. addresses \in Nat /\ addresses + 1 \in 0 .. MaxAddress
        BY <1>0, <2>1, <4>1 DEF ChildrenTypeOK
      <4> QED
        BY <1>0, <3>1, <4>1, <4>2 DEF ChildrenTypeOK, GatewayTypeOK
    <3> QED
      BY <3>2, <3>3
  <2>4. CASE BuildConfigMap
    BY <1>0, <2>4, CopyType DEF BuildConfigMap, ChildrenTypeOK, GatewayTypeOK
  <2>5. CASE BuildGatewayDeployment
    BY <1>0, <2>5
       DEF BuildGatewayDeployment, ChildrenTypeOK, GatewayTypeOK, PassTypeOK
  <2> QED
    BY <1>1, <2>2, <2>3, <2>4, <2>5
<1>9. ChildrenTypeOK' /\ GatewayTypeOK'
  BY <1>0, <1>2, <1>3, <1>8 DEF ChildrenTypeOK, GatewayTypeOK
<1> QED
  BY <1>6, <1>7, <1>9, TypeParts

(* What garbage collection of one kind changes.                            *)
LEMMA OneKindCollected ==
  ASSUME Collect
  PROVE  LET doomed == {c \in Unexpected(copy) : c[1] = Head(todo)}
             owners == {c[2] : c \in doomed}
         IN  /\ pc = "collect" /\ todo # << >> /\ todo' = Tail(todo)
             /\ children' = children \ doomed
             /\ IF Head(todo) = "Deployment"
                  THEN /\ ready' = ready \ owners
                       /\ IF "gateway" \in owners
                            THEN hash' = NoRoutes /\ pods' = NoPods
                            ELSE hash' = hash /\ pods' = pods
                  ELSE ready' = ready /\ hash' = hash /\ pods' = pods
             /\ address' = IF Head(todo) = "Service"
                             THEN [p \in Profiles |-> IF p \in owners THEN 0 ELSE address[p]]
                             ELSE address
             /\ config' = IF Head(todo) = "ConfigMap" /\ doomed # {}
                            THEN NoRoutes ELSE config
             /\ mapped' = IF Head(todo) = "Job" THEN mapped \ owners ELSE mapped
             /\ NotifyIf(doomed # {}, Head(todo))
             /\ UNCHANGED <<cluster, addresses, pc, copy, stale, siblings, bounds>>
<1> DEFINE doomed == {c \in Unexpected(copy) : c[1] = Head(todo)}
           owners == {c[2] : c \in doomed}
<1>1. /\ pc = "collect" /\ todo # << >> /\ todo' = Tail(todo)
      /\ children' = children \ doomed
      /\ NotifyIf(doomed # {}, Head(todo))
      /\ UNCHANGED <<cluster, addresses, pc, copy, stale, siblings, bounds>>
  BY DEF Collect, Unexpected
<1>2. CASE Head(todo) = "Deployment"
  BY <1>1, <1>2 DEF Collect, Unexpected
<1>3. CASE Head(todo) = "Service"
  BY <1>1, <1>3 DEF Collect, Unexpected
<1>4. CASE Head(todo) = "ConfigMap"
  BY <1>1, <1>4 DEF Collect, Unexpected
<1>5. CASE Head(todo) = "Job"
  BY <1>1, <1>5 DEF Collect, Unexpected
<1>6. CASE Head(todo) \notin {"Deployment", "Service", "ConfigMap", "Job"}
  BY <1>1, <1>6 DEF Collect, Unexpected
<1> QED
  BY <1>2, <1>3, <1>4, <1>5, <1>6

LEMMA CollectKeepsType ==
  ASSUME TypeOK, Collect
  PROVE  TypeOK'
<1>0. ClusterTypeOK /\ ChildrenTypeOK /\ GatewayTypeOK /\ PassTypeOK
  BY TypeParts
<1> DEFINE doomed == {c \in Unexpected(copy) : c[1] = Head(todo)}
           owners == {c[2] : c \in doomed}
<1>1. /\ pc = "collect" /\ todo # << >> /\ todo' = Tail(todo)
      /\ children' \subseteq children /\ mapped' \subseteq mapped
      /\ ready' \subseteq ready
      /\ hash' \in {NoRoutes, hash} /\ pods' \in {NoPods, pods}
      /\ address' = [p \in Profiles |-> IF p \in owners THEN 0 ELSE address[p]]
         \/ address' = address
      /\ config' \in {NoRoutes, config}
      /\ NotifyIf(doomed # {}, Head(todo))
      /\ UNCHANGED <<cluster, addresses, pc, copy, stale, siblings, edits, faults>>
  <2>1. /\ pc = "collect" /\ todo # << >> /\ todo' = Tail(todo)
        /\ children' = children \ doomed
        /\ IF Head(todo) = "Deployment"
             THEN /\ ready' = ready \ owners
                  /\ IF "gateway" \in owners
                       THEN hash' = NoRoutes /\ pods' = NoPods
                       ELSE hash' = hash /\ pods' = pods
             ELSE ready' = ready /\ hash' = hash /\ pods' = pods
        /\ address' = IF Head(todo) = "Service"
                        THEN [p \in Profiles |-> IF p \in owners THEN 0 ELSE address[p]]
                        ELSE address
        /\ config' = IF Head(todo) = "ConfigMap" /\ doomed # {}
                       THEN NoRoutes ELSE config
        /\ mapped' = IF Head(todo) = "Job" THEN mapped \ owners ELSE mapped
        /\ NotifyIf(doomed # {}, Head(todo))
        /\ UNCHANGED <<cluster, addresses, pc, copy, stale, siblings, bounds>>
    BY OneKindCollected
  <2> HIDE DEF doomed, owners
  <2>2. ready' \subseteq ready /\ hash' \in {NoRoutes, hash} /\ pods' \in {NoPods, pods}
    BY <2>1
  <2> QED
    BY <2>1, <2>2 DEF bounds
<1> HIDE DEF doomed, owners
<1>2. queued' \in BOOLEAN
  BY <1>0, <1>1, NotifyType DEF PassTypeOK
<1>3. todo' \in Seq(ToSet(Kinds))
  <2>1. todo \in Seq(ToSet(Kinds))
    BY <1>0, <1>1 DEF PassTypeOK
  <2> QED
    BY <1>1, <2>1, WorkTaken
<1>4. address' \in [Profiles -> 0 .. MaxAddress]
  <2>1. 0 \in 0 .. MaxAddress /\ address \in [Profiles -> 0 .. MaxAddress]
    BY <1>0, ServingAssumption DEF ChildrenTypeOK
  <2>2. [p \in Profiles |-> IF p \in owners THEN 0 ELSE address[p]]
          \in [Profiles -> 0 .. MaxAddress]
    BY <2>1
  <2> QED
    BY <1>1, <2>1, <2>2
<1>5. << >> \in Seq(Profiles) /\ NoHosts \in [Profiles -> 0 .. MaxAddress]
  BY ServingAssumption DEF NoHosts
<1>6. GatewayTypeOK'
  <2>1. config' \in Seq(Profiles) /\ hash' \in Seq(Profiles)
    BY <1>0, <1>1, <1>5 DEF GatewayTypeOK, NoRoutes
  <2>2. CASE pods' = NoPods
    BY <1>5, <2>1, <2>2 DEF GatewayTypeOK, NoPods, NoRoutes
  <2>3. CASE pods' = pods
    BY <1>0, <2>1, <2>3 DEF GatewayTypeOK
  <2> QED
    BY <1>1, <2>2, <2>3
<1>7. ClusterTypeOK' /\ ChildrenTypeOK'
  BY <1>0, <1>1, <1>4 DEF ClusterTypeOK, ChildrenTypeOK
<1>8. PassTypeOK'
  BY <1>0, <1>1, <1>2, <1>3 DEF PassTypeOK
<1> QED
  BY <1>6, <1>7, <1>8, TypeParts

LEMMA OthersKeepType ==
  ASSUME TypeOK, User \/ Progress \/ Failure \/ Wake
  PROVE  TypeOK'
<1>0. ClusterTypeOK /\ ChildrenTypeOK /\ GatewayTypeOK /\ PassTypeOK
  BY TypeParts
<1>1. CASE User
  <2>1. UserWrites
    BY <1>1 DEF User, EditSpec, TogglePause
  <2>2. edits' \in 0 .. MaxEdits
    BY <1>0, <2>1, ServingAssumption DEF UserWrites, PassTypeOK
  <2>3. ClusterTypeOK'
    BY <1>0, <1>1 DEF User, EditSpec, TogglePause, ClusterTypeOK
  <2>4. ChildrenTypeOK' /\ GatewayTypeOK'
    BY <1>0, <2>1 DEF UserWrites, ChildrenTypeOK, GatewayTypeOK, objects
  <2>5. PassTypeOK'
    BY <1>0, <2>1, <2>2 DEF UserWrites, PassTypeOK
  <2> QED
    BY <2>3, <2>4, <2>5, TypeParts
<1>2. ASSUME NEW p \in Profiles, FinishMap(p) PROVE TypeOK'
  BY <1>0, <1>2, TypeParts
     DEF FinishMap, Notify, ClusterTypeOK, ChildrenTypeOK, GatewayTypeOK, PassTypeOK,
         local, bounds
<1>3. ASSUME NEW p \in Profiles, StartWorkers(p) PROVE TypeOK'
  BY <1>0, <1>3, TypeParts
     DEF StartWorkers, Notify, ClusterTypeOK, ChildrenTypeOK, GatewayTypeOK, PassTypeOK,
         local, bounds
<1>4. CASE StartGateway
  <2>1. GatewayTypeOK'
    <3> DEFINE hosts == [p \in Profiles |-> IF p \in ToSet(config) THEN address[p] ELSE 0]
    <3>1. 0 \in 0 .. MaxAddress
      BY ServingAssumption
    <3>2. hosts \in [Profiles -> 0 .. MaxAddress]
      BY <1>0, <3>1 DEF ChildrenTypeOK
    <3>3. /\ pods' = [up |-> TRUE, hash |-> hash, config |-> config, hosts |-> hosts]
          /\ config' = config /\ hash' = hash
      BY <1>4 DEF StartGateway
    <3> HIDE DEF hosts
    <3> QED
      BY <1>0, <3>2, <3>3 DEF GatewayTypeOK
  <2> QED
    BY <1>0, <1>4, <2>1, TypeParts
       DEF StartGateway, Notify, ClusterTypeOK, ChildrenTypeOK, PassTypeOK, local, bounds
<1>5. ASSUME NEW p \in Profiles, FailWorkers(p) PROVE TypeOK'
  <2>1. faults' \in 0 .. MaxFaults
    BY <1>0, <1>5, FaultType DEF FailWorkers, PassTypeOK
  <2> QED
    BY <1>0, <1>5, <2>1, TypeParts
       DEF FailWorkers, Notify, ClusterTypeOK, ChildrenTypeOK, GatewayTypeOK, PassTypeOK,
           local
<1>6. CASE FailGateway
  <2>1. faults' \in 0 .. MaxFaults
    BY <1>0, <1>6, FaultType DEF FailGateway, PassTypeOK
  <2>2. << >> \in Seq(Profiles) /\ NoHosts \in [Profiles -> 0 .. MaxAddress]
    BY ServingAssumption DEF NoHosts
  <2>3. GatewayTypeOK'
    BY <1>0, <1>6, <2>2 DEF FailGateway, GatewayTypeOK, NoPods, NoRoutes
  <2> QED
    BY <1>0, <1>6, <2>1, <2>3, TypeParts
       DEF FailGateway, Notify, ClusterTypeOK, ChildrenTypeOK, PassTypeOK, local
<1>7. CASE Abandon
  <2>1. /\ faults' \in 0 .. MaxFaults /\ queued' = TRUE /\ Discard
        /\ UNCHANGED objects /\ edits' = edits
    BY <1>0, <1>7, FaultType DEF Abandon, PassTypeOK, Retry
  <2>2. ClusterTypeOK'
    BY <1>0, <1>7 DEF Abandon, ReportFailure, ClusterTypeOK
  <2>3. PassTypeOK'
    BY <1>0, <2>1, DiscardType DEF PassTypeOK
  <2> QED
    BY <1>0, <2>1, <2>2, <2>3, TypeParts DEF ChildrenTypeOK, GatewayTypeOK, objects
<1>8. CASE Wake
  BY <1>0, <1>8, TypeParts
     DEF Wake, ClusterTypeOK, ChildrenTypeOK, GatewayTypeOK, PassTypeOK, objects, local, bounds
<1> QED
  BY <1>1, <1>2, <1>3, <1>4, <1>5, <1>6, <1>7, <1>8 DEF Progress, Failure

LEMMA NextKeepsType == TypeOK /\ [Next]_vars => TypeOK'
<1>1. ASSUME TypeOK, Next PROVE TypeOK'
  BY <1>1, ReconcileSteps, PassKeepsType, BuildersKeepType, CollectKeepsType,
     OthersKeepType DEF Next
<1>2. ASSUME TypeOK, UNCHANGED vars PROVE TypeOK'
  BY <1>2 DEF TypeOK, vars, objects, local, bounds
<1> QED
  BY <1>1, <1>2

(* All variables keep their types, whatever is edited and fails.           *)
THEOREM TypeCorrect == Spec => []TypeOK
BY InitType, NextKeepsType, PTL DEF Spec

-----------------------------------------------------------------------------
(* A step after which nothing is queued has changed nothing the operator   *)
(* looks at: every change of a child, and every write to the object, leads *)
(* to another pass.                                                        *)

Observed == <<cluster, children, mapped, ready, address, config, hash, pods>>

LEMMA Notified ==
  ASSUME NEW kind \in KindsUsed
  PROVE  /\ Notify(kind) => queued'
         /\ \A changed : NotifyIf(changed, kind) /\ ~queued' => ~changed /\ ~queued
BY KindsType DEF Notify, NotifyIf

LEMMA QuietBuilders ==
  ASSUME TypeOK, Builders, ~queued'
  PROVE  /\ ~queued /\ UNCHANGED Observed
         /\ pc = "build" /\ todo # << >> /\ todo' = Tail(todo)
         /\ UNCHANGED <<pc, copy, stale, siblings>>
         /\ Head(todo) \in children
         /\ Head(todo) = <<"ConfigMap", "gateway">> => config = Routes(copy.spec)
         /\ Head(todo) = <<"Deployment", "gateway">> => hash = siblings
<1>1. PICK kind \in KindsUsed, owner \in Profiles \cup {"gateway"} :
         /\ Build(kind, owner)
         /\ \/ BuildOnce(kind, owner) /\ (owner = "gateway" => kind = "Service")
            \/ kind = "Service" /\ owner \in Profiles /\ BuildService(owner)
            \/ kind = "ConfigMap" /\ owner = "gateway" /\ BuildConfigMap
            \/ kind = "Deployment" /\ owner = "gateway" /\ BuildGatewayDeployment
  BY OneBuilder
<1>2. /\ pc = "build" /\ todo # << >> /\ todo' = Tail(todo)
      /\ Head(todo) = <<kind, owner>>
      /\ children' = children \cup {<<kind, owner>>}
      /\ UNCHANGED <<cluster, mapped, pods, pc, copy, stale, siblings>>
  BY <1>1 DEF Build
<1>3. /\ <<kind, owner>> \in children /\ ~queued
      /\ UNCHANGED <<ready, address, config, hash>>
      /\ kind = "ConfigMap" /\ owner = "gateway" => config = Routes(copy.spec)
      /\ kind = "Deployment" /\ owner = "gateway" => hash = siblings
  <2>1. CASE BuildOnce(kind, owner) /\ (owner = "gateway" => kind = "Service")
    BY <2>1, Notified DEF BuildOnce, Exists
  <2>2. CASE kind = "Service" /\ owner \in Profiles /\ BuildService(owner)
    BY <2>2, Notified DEF BuildService, Exists
  <2>3. CASE kind = "ConfigMap" /\ owner = "gateway" /\ BuildConfigMap
    BY <2>3, Notified DEF BuildConfigMap, Exists
  <2>4. CASE kind = "Deployment" /\ owner = "gateway" /\ BuildGatewayDeployment
    BY <2>4, Notified DEF BuildGatewayDeployment, Exists
  <2> QED
    BY <1>1, <2>1, <2>2, <2>3, <2>4
<1>4. children' = children
  BY <1>2, <1>3
<1>5. Head(todo) = <<"ConfigMap", "gateway">> => kind = "ConfigMap" /\ owner = "gateway"
  BY <1>2
<1>6. Head(todo) = <<"Deployment", "gateway">> => kind = "Deployment" /\ owner = "gateway"
  BY <1>2
<1> QED
  BY <1>2, <1>3, <1>4, <1>5, <1>6 DEF Observed

LEMMA QuietCollect ==
  ASSUME TypeOK, Collect, ~queued'
  PROVE  /\ ~queued /\ UNCHANGED Observed
         /\ pc = "collect" /\ todo # << >> /\ todo' = Tail(todo)
         /\ UNCHANGED <<pc, copy, stale, siblings>>
         /\ \A c \in Unexpected(copy) : c[1] # Head(todo)
<1> DEFINE doomed == {c \in Unexpected(copy) : c[1] = Head(todo)}
           owners == {c[2] : c \in doomed}
<1>1. /\ pc = "collect" /\ todo # << >> /\ todo' = Tail(todo)
      /\ children' = children \ doomed
      /\ IF Head(todo) = "Deployment"
           THEN /\ ready' = ready \ owners
                /\ IF "gateway" \in owners
                     THEN hash' = NoRoutes /\ pods' = NoPods
                     ELSE hash' = hash /\ pods' = pods
           ELSE ready' = ready /\ hash' = hash /\ pods' = pods
      /\ address' = IF Head(todo) = "Service"
                      THEN [p \in Profiles |-> IF p \in owners THEN 0 ELSE address[p]]
                      ELSE address
      /\ config' = IF Head(todo) = "ConfigMap" /\ doomed # {} THEN NoRoutes ELSE config
      /\ mapped' = IF Head(todo) = "Job" THEN mapped \ owners ELSE mapped
      /\ NotifyIf(doomed # {}, Head(todo))
      /\ UNCHANGED <<cluster, addresses, pc, copy, stale, siblings, bounds>>
  BY OneKindCollected
<1>2. Head(todo) \in KindsUsed
  <2>1. todo \in Seq(ToSet(Kinds))
    BY <1>1 DEF TypeOK
  <2> QED
    BY <1>1, <2>1, WorkTaken, KindsType
<1>3. ~queued /\ doomed = {}
  <2> HIDE DEF doomed
  <2> QED
    BY <1>1, <1>2, Notified
<1>4. owners = {} /\ \A c \in Unexpected(copy) : c[1] # Head(todo)
  BY <1>3
<1>5. address = [p \in Profiles |-> address[p]]
  BY DEF TypeOK
<1> HIDE DEF doomed, owners
<1>6. UNCHANGED <<children, mapped, ready, config, hash, pods>>
  BY <1>1, <1>3, <1>4
<1>7. address' = address
  BY <1>1, <1>4, <1>5
<1> QED
  BY <1>1, <1>3, <1>4, <1>6, <1>7 DEF Observed

LEMMA QuietSteps ==
  ASSUME TypeOK, [Next]_vars, ~queued'
  PROVE  UNCHANGED Observed /\ (Start \/ ~queued)
<1>1. CASE Start
  BY <1>1 DEF Start, Observed, objects
<1>2. CASE Plan
  BY <1>2 DEF Plan, Retry, Observed, objects
<1>3. CASE Builders
  BY <1>3, QuietBuilders
<1>4. CASE SetLastAppliedSpecAnnotation
  BY <1>4 DEF SetLastAppliedSpecAnnotation, Retry, Observed, objects
<1>5. CASE Collect
  BY <1>5, QuietCollect
<1>6. CASE SetReconciliationSuccess
  <2>1. UNCHANGED objects
    BY <1>6 DEF SetReconciliationSuccess
  <2>2. queued' = (queued \/ cluster' # cluster) \/ UNCHANGED <<cluster, queued>>
    BY <1>6 DEF SetReconciliationSuccess
  <2>3. ~queued /\ cluster' = cluster
    BY <2>2 DEF TypeOK
  <2> QED
    BY <2>1, <2>3 DEF Observed, objects
<1>7. CASE User \/ Progress \/ Failure \/ Wake
  <2>1. \A kind \in {"Job", "Deployment"} : Notify(kind) => queued'
    BY Notified DEF KindsUsed
  <2> QED
    BY <1>7, <2>1
       DEF User, EditSpec, TogglePause, UserWrites, Progress, FinishMap, StartWorkers,
           StartGateway, Failure, FailWorkers, FailGateway, Abandon, Retry, Wake
<1>8. CASE UNCHANGED vars
  BY <1>8 DEF vars, Observed, objects
<1> QED
  BY <1>1, <1>2, <1>3, <1>4, <1>5, <1>6, <1>7, <1>8, ReconcileSteps DEF Next

-----------------------------------------------------------------------------
(* The conditions.                                                         *)

LEMMA ConditionsKept ==
  ASSUME UNCHANGED Observed
  PROVE  /\ SetConditions(cluster)' = SetConditions(cluster)
         /\ \A spec : DeterminePhase(spec)' = DeterminePhase(spec)
<1>1. UNCHANGED <<cluster, children, mapped, ready, pods>>
  BY DEF Observed
<1>2. \A owner : /\ Exists("Deployment", owner)' <=> Exists("Deployment", owner)
                 /\ DeploymentReady(owner)' <=> DeploymentReady(owner)
  BY <1>1 DEF Exists, DeploymentReady
<1>3. AvailableCondition(cluster.spec)' = AvailableCondition(cluster.spec)
  <2>1. AvailableCondition(cluster.spec)' <=> AvailableCondition(cluster.spec)
    BY <1>1 DEF AvailableCondition, Exists, DeploymentReady, Owners, Routes
  <2> QED
    BY <2>1 DEF AvailableCondition
<1>4. AllReplicasReadyCondition(cluster.spec)' = AllReplicasReadyCondition(cluster.spec)
  <2>1. AllReplicasReadyCondition(cluster.spec)' <=> AllReplicasReadyCondition(cluster.spec)
    BY <1>1 DEF AllReplicasReadyCondition, Exists, DeploymentReady, Owners, Routes
  <2> QED
    BY <2>1 DEF AllReplicasReadyCondition
<1>5. SetConditions(cluster)' = SetConditions(cluster)
  BY <1>1, <1>3, <1>4 DEF SetConditions
<1>6. \A spec : DeterminePhase(spec)' = DeterminePhase(spec)
  BY <1>1 DEF DeterminePhase, Names, Routes
<1> QED
  BY <1>5, <1>6

LEMMA NextKeepsReported == TypeOK /\ Reported /\ [Next]_vars => Reported'
<1> SUFFICES ASSUME TypeOK, Reported, [Next]_vars, ~queued'
             PROVE  cluster' = SetConditions(cluster)'
  BY DEF Reported
<1>1. UNCHANGED Observed /\ (Start \/ ~queued)
  BY QuietSteps
<1>2. cluster' = cluster /\ SetConditions(cluster)' = SetConditions(cluster)
  BY <1>1, ConditionsKept DEF Observed
<1>3. CASE Start
  BY <1>2, <1>3 DEF Start, Refreshed
<1>4. CASE ~queued
  BY <1>2, <1>4 DEF Reported
<1> QED
  BY <1>1, <1>3, <1>4

(* The conditions describe the Deployments as they are whenever nothing is *)
(* left to do, also while the operator is paused.                          *)
THEOREM ConditionsCurrentTheorem == Spec => []ConditionsCurrent
<1>1. Init => Reported
  BY DEF Init, Reported
<1>2. Reported => ConditionsCurrent
  BY DEF Reported, ConditionsCurrent, AtRest
<1> QED
  BY <1>1, <1>2, TypeCorrect, NextKeepsReported, PTL DEF Spec

-----------------------------------------------------------------------------
(* The children.                                                           *)

LEMMA NextKeepsCopied == TypeOK /\ Copied /\ [Next]_vars => Copied'
<1> SUFFICES ASSUME TypeOK, Copied, [Next]_vars PROVE Copied'
  OBVIOUS
<1>1. (pc = "idle" \/ ~queued => ~stale) /\ queued \in BOOLEAN /\ stale \in BOOLEAN
  BY DEF Copied, TypeOK
<1>2. CASE Start
  <2>1. pc = "idle" /\ ~stale
    BY <1>1, <1>2 DEF Start
  <2>2. CASE cluster.paused
    BY <1>2, <2>1, <2>2 DEF Start, local, Copied
  <2>3. CASE ~cluster.paused
    <3>1. SetConditions(cluster).spec = cluster.spec
          /\ SetConditions(cluster).phase = cluster.phase
      BY DEF TypeOK, SetConditions
    <3>2. cluster'.spec = cluster.spec /\ cluster'.phase = cluster.phase
      BY <1>2, <3>1 DEF Start, Refreshed
    <3> QED
      BY <1>2, <2>3, <3>2 DEF Start, Copied
  <2> QED
    BY <2>2, <2>3
<1>3. CASE Discard
  BY <1>3 DEF Discard, Copied
<1>4. CASE Plan /\ ~Discard
  <2>1. /\ pc = "plan" /\ pc' = "build" /\ stale' = stale
        /\ \/ UNCHANGED <<cluster, queued>> /\ copy.phase = DeterminePhase(copy.spec)
           \/ ~stale /\ queued' /\ cluster' = [cluster EXCEPT !.phase = DeterminePhase(copy.spec)]
        /\ copy' = [copy EXCEPT !.phase = DeterminePhase(copy.spec)]
    BY <1>4 DEF Plan, Retry
  <2>2. /\ copy'.spec = copy.spec /\ copy'.phase = DeterminePhase(copy.spec)
    BY <2>1 DEF TypeOK
  <2>3. CASE UNCHANGED <<cluster, queued>> /\ copy.phase = DeterminePhase(copy.spec)
    BY <2>1, <2>2, <2>3 DEF Copied
  <2>4. CASE ~stale /\ queued' /\ cluster' = [cluster EXCEPT !.phase = DeterminePhase(copy.spec)]
    <3>1. cluster'.spec = cluster.spec /\ cluster'.phase = DeterminePhase(copy.spec)
      BY <2>4 DEF TypeOK
    <3> QED
      BY <2>1, <2>2, <2>4, <3>1 DEF Copied
  <2> QED
    BY <2>1, <2>3, <2>4
<1>5. CASE Builders
  <2>1. UNCHANGED <<cluster, pc, copy, stale>> /\ pc = "build"
    BY <1>5, OneBuilder DEF Build
  <2>2. ~queued' => ~queued
    BY <1>5, QuietBuilders
  <2> QED
    BY <1>1, <2>1, <2>2 DEF Copied
<1>6. CASE SetLastAppliedSpecAnnotation /\ ~Discard
  BY <1>6 DEF SetLastAppliedSpecAnnotation, Retry, Copied
<1>7. CASE Collect
  <2>1. UNCHANGED <<cluster, pc, copy, stale>> /\ pc = "collect"
    BY <1>7, OneKindCollected
  <2>2. ~queued' => ~queued
    BY <1>7, QuietCollect
  <2> QED
    BY <1>1, <2>1, <2>2 DEF Copied
<1>8. CASE User
  <2>1. stale' = (pc # "idle") /\ queued' = TRUE /\ pc' = pc
    BY <1>8 DEF User, EditSpec, TogglePause, UserWrites
  <2> QED
    BY <2>1 DEF Copied
<1>9. CASE Progress \/ FailGateway \/ (\E p \in Profiles : FailWorkers(p)) \/ Wake
  <2>1. UNCHANGED <<cluster, pc, local>>
    BY <1>9 DEF Progress, FinishMap, StartWorkers, StartGateway, FailGateway,
                FailWorkers, Wake
  <2>2. queued'
    BY <1>9, Notified DEF Progress, FinishMap, StartWorkers, StartGateway, FailGateway,
                          FailWorkers, Wake, KindsUsed
  <2> QED
    BY <2>1, <2>2 DEF Copied, local
<1>10. CASE UNCHANGED vars
  BY <1>10 DEF vars, local, Copied
<1> QED
  BY <1>2, <1>3, <1>4, <1>5, <1>6, <1>7, <1>8, <1>9, <1>10, ReconcileSteps
     DEF Next, SetReconciliationSuccess, Failure, Abandon, Retry

LEMMA NextKeepsJobs == TypeOK /\ MapsHaveJobs /\ [Next]_vars => MapsHaveJobs'
<1> SUFFICES ASSUME TypeOK, MapsHaveJobs, [Next]_vars PROVE MapsHaveJobs'
  OBVIOUS
<1>1. CASE mapped' = mapped /\ children \subseteq children'
  BY <1>1 DEF MapsHaveJobs, Exists
<1>2. CASE Collect
  <2> DEFINE doomed == {c \in Unexpected(copy) : c[1] = Head(todo)}
             owners == {c[2] : c \in doomed}
  <2>1. /\ children' = children \ doomed
        /\ mapped' = IF Head(todo) = "Job" THEN mapped \ owners ELSE mapped
    BY <1>2, OneKindCollected
  <2>2. ASSUME NEW p \in mapped' PROVE <<"Job", p>> \in children'
    <3>1. p \in mapped /\ <<"Job", p>> \in children
      BY <2>1, <2>2 DEF MapsHaveJobs, Exists
    <3>2. ASSUME <<"Job", p>> \in doomed PROVE FALSE
      <4>1. Head(todo) = "Job" /\ p \in owners
        BY <3>2
      <4> QED
        BY <2>1, <2>2, <4>1
    <3> QED
      BY <2>1, <3>1, <3>2
  <2> QED
    BY <2>2 DEF MapsHaveJobs, Exists
<1>3. ASSUME NEW p \in Profiles, FinishMap(p) PROVE MapsHaveJobs'
  BY <1>3 DEF FinishMap, MapsHaveJobs, Exists
<1>4. CASE Builders
  BY <1>1, <1>4, OneBuilder DEF Build
<1>5. CASE \/ Start \/ Plan \/ SetLastAppliedSpecAnnotation
           \/ SetReconciliationSuccess \/ User \/ Failure \/ Wake
           \/ StartGateway \/ \E p \in Profiles : StartWorkers(p)
  BY <1>1, <1>5
     DEF Start, Plan, SetLastAppliedSpecAnnotation, SetReconciliationSuccess, User,
         EditSpec, TogglePause, UserWrites, Failure, Abandon, FailGateway, FailWorkers,
         Wake, StartGateway, StartWorkers, objects
<1>6. CASE UNCHANGED vars
  BY <1>1, <1>6 DEF vars, objects
<1> QED
  BY <1>2, <1>3, <1>4, <1>5, <1>6, ReconcileSteps DEF Next, Progress

(* The phase stays right as long as nothing that decides it changes.       *)
LEMMA PhaseKept ==
  ASSUME UNCHANGED Observed
  PROVE  /\ copy' = copy /\ PhaseIs(copy) => PhaseIs(copy)'
         /\ PhaseIs(cluster) => PhaseIs(cluster)'
         /\ copy'.spec = copy.spec /\ copy'.phase = DeterminePhase(copy.spec)
              => PhaseIs(copy)'
         /\ cluster.spec = copy.spec /\ cluster.phase = copy.phase /\ PhaseIs(copy)
              => PhaseIs(cluster)'
<1>1. UNCHANGED <<cluster, mapped, ready>>
  BY DEF Observed
<1> QED
  BY <1>1 DEF PhaseIs, DeterminePhase, Names, Routes

LEMMA NextKeepsWork ==
  TypeOK /\ Copied /\ WorkDone /\ [Next]_vars => WorkDone'
<1> SUFFICES ASSUME TypeOK, Copied, WorkDone, [Next]_vars, ~queued'
             PROVE  WorkDone'
  BY DEF WorkDone
<1>1. UNCHANGED Observed /\ (Start \/ ~queued)
  BY QuietSteps
<1>2. UNCHANGED <<cluster, children>>
  BY <1>1 DEF Observed
<1>3. CASE Start
  BY <1>2, <1>3 DEF Start, local, WorkDone
<1>4. CASE ~queued /\ Plan
  <2>1. /\ copy.phase = DeterminePhase(copy.spec) /\ pc' = "build"
        /\ copy' = [copy EXCEPT !.phase = DeterminePhase(copy.spec)]
        /\ todo' = ResourceBuildersForPhase(DeterminePhase(copy.spec), copy.spec)
    BY <1>4 DEF Plan, Retry
  <2>2. copy' = copy
    BY <2>1 DEF TypeOK
  <2>3. PhaseIs(copy)'
    BY <1>1, <2>1, <2>2, PhaseKept
  <2>4. BuildersOf(copy)' \subseteq ToSet(todo')
    BY <2>1, <2>2 DEF BuildersOf
  <2> QED
    BY <2>1, <2>3, <2>4 DEF WorkDone
<1>5. CASE ~queued /\ Builders
  <2>1. /\ pc = "build" /\ pc' = "build" /\ copy' = copy
        /\ todo # << >> /\ todo' = Tail(todo) /\ Head(todo) \in children
    BY <1>5, QuietBuilders
  <2>2. todo \in Seq(Child)
    BY <2>1 DEF TypeOK
  <2>3. ToSet(todo) = {Head(todo)} \cup ToSet(todo')
    BY <2>1, <2>2, WorkTaken
  <2>4. PhaseIs(copy) /\ BuildersOf(copy) \subseteq children \cup ToSet(todo)
    BY <1>5, <2>1 DEF WorkDone
  <2>5. PhaseIs(copy)' /\ BuildersOf(copy)' = BuildersOf(copy)
    BY <1>1, <2>1, <2>4, PhaseKept DEF BuildersOf
  <2> QED
    BY <1>2, <2>1, <2>3, <2>4, <2>5 DEF WorkDone
<1>6. CASE ~queued /\ SetLastAppliedSpecAnnotation
  <2>1. /\ pc = "build" /\ pc' = "collect" /\ copy' = copy
        /\ todo = << >> /\ todo' = Kinds
    BY <1>6 DEF SetLastAppliedSpecAnnotation, Retry
  <2>2. PhaseIs(copy) /\ BuildersOf(copy) \subseteq children
    BY <1>6, <2>1 DEF WorkDone, ToSet
  <2>3. PhaseIs(copy)' /\ BuildersOf(copy)' = BuildersOf(copy)
    BY <1>1, <2>1, <2>2, PhaseKept DEF BuildersOf
  <2>4. \A c \in Unexpected(copy)' : c[1] \in ToSet(Kinds)
    <3>1. children' \subseteq Child
      BY <1>2 DEF TypeOK
    <3> QED
      BY <3>1 DEF Unexpected, Child
  <2> QED
    BY <1>2, <2>1, <2>2, <2>3, <2>4 DEF WorkDone
<1>7. CASE ~queued /\ Collect
  <2>1. /\ pc = "collect" /\ pc' = "collect" /\ copy' = copy
        /\ todo # << >> /\ todo' = Tail(todo)
        /\ \A c \in Unexpected(copy) : c[1] # Head(todo)
    BY <1>7, QuietCollect
  <2>2. todo \in Seq(ToSet(Kinds))
    BY <2>1 DEF TypeOK
  <2>3. ToSet(todo) = {Head(todo)} \cup ToSet(todo')
    BY <2>1, <2>2, WorkTaken
  <2>4. /\ PhaseIs(copy) /\ BuildersOf(copy) \subseteq children
        /\ \A c \in Unexpected(copy) : c[1] \in ToSet(todo)
    BY <1>7, <2>1 DEF WorkDone
  <2>5. /\ PhaseIs(copy)' /\ BuildersOf(copy)' = BuildersOf(copy)
        /\ Unexpected(copy)' = Unexpected(copy)
    BY <1>1, <1>2, <2>1, <2>4, PhaseKept DEF BuildersOf, Unexpected
  <2>6. \A c \in Unexpected(copy) : c[1] \in ToSet(todo')
    BY <2>1, <2>3, <2>4
  <2> QED
    BY <1>2, <2>1, <2>4, <2>5, <2>6 DEF WorkDone
<1>8. CASE ~queued /\ SetReconciliationSuccess
  <2>1. pc = "collect" /\ todo = << >> /\ pc' = "idle"
    BY <1>8 DEF SetReconciliationSuccess, Discard
  <2>2. cluster.spec = copy.spec /\ cluster.phase = copy.phase
    BY <1>8, <2>1 DEF Copied
  <2>3. /\ PhaseIs(copy) /\ BuildersOf(copy) \subseteq children
        /\ \A c \in Unexpected(copy) : c[1] \in ToSet(todo)
    BY <1>8, <2>1 DEF WorkDone
  <2>4. ToSet(todo) = {}
    BY <2>1 DEF ToSet
  <2>5. Unexpected(copy) = {}
    BY <2>3, <2>4
  <2>6. PhaseIs(cluster)'
    BY <1>1, <2>2, <2>3, PhaseKept
  <2>7. BuildersOf(cluster)' \subseteq children' /\ Unexpected(cluster)' = {}
    BY <1>2, <2>2, <2>3, <2>5 DEF BuildersOf, Unexpected
  <2> QED
    BY <2>1, <2>6, <2>7 DEF WorkDone
<1>9. CASE User \/ Progress \/ Failure \/ Wake
  <2>1. \A kind \in {"Job", "Deployment"} : Notify(kind) => queued'
    BY Notified DEF KindsUsed
  <2> QED
    BY <1>9, <2>1
       DEF User, EditSpec, TogglePause, UserWrites, Progress, FinishMap, StartWorkers,
           StartGateway, Failure, FailWorkers, FailGateway, Abandon, Retry, Wake
<1>10. CASE ~queued /\ UNCHANGED vars
  <2>1. UNCHANGED <<pc, copy, todo>>
    BY <1>10 DEF vars, local
  <2>2. /\ PhaseIs(copy) => PhaseIs(copy)'
        /\ PhaseIs(cluster) => PhaseIs(cluster)'
        /\ BuildersOf(copy)' = BuildersOf(copy)
        /\ BuildersOf(cluster)' = BuildersOf(cluster)
        /\ Unexpected(copy)' = Unexpected(copy)
        /\ Unexpected(cluster)' = Unexpected(cluster)
    BY <1>1, <1>2, <2>1, PhaseKept DEF BuildersOf, Unexpected
  <2> QED
    BY <1>2, <1>10, <2>1, <2>2 DEF WorkDone
<1> QED
  BY <1>1, <1>3, <1>4, <1>5, <1>6, <1>7, <1>8, <1>9, <1>10, ReconcileSteps DEF Next

(* What garbage collection expects and a builder does not build is an      *)
(* autoscaler.                                                             *)
LEMMA ExpectedIsBuilt ==
  ASSUME NEW spec \in Seq(ProfileSpec),
         NEW c \in ExpectedResources(spec), c[1] # "HorizontalPodAutoscaler"
  PROVE  c \in ToSet(ForEach(spec, WorkersDeployedPhaseBuilders))
                 \cup ToSet(ForEach(spec, MapBuildingPhaseBuilders))
                 \cup ToSet(GatewayBuilders)
<1>1. /\ \A x : x \in ToSet(ForEach(spec, MapBuildingPhaseBuilders)) <=>
                  \E i \in DOMAIN spec : x \in MapChildren(spec[i])
      /\ \A x : x \in ToSet(ForEach(spec, WorkersDeployedPhaseBuilders)) <=>
                  \E i \in DOMAIN spec : x \in DeployedChildren(spec[i])
  BY PhaseBuilders
<1>2. \A p \in Names(spec) : \E i \in DOMAIN spec : p = spec[i].name
  BY RoutesType DEF Names, ToSet
<1>3. CASE c \in {"Deployment", "Service", "HorizontalPodAutoscaler",
                  "PodDisruptionBudget", "Job"} \X Names(spec)
  <2>1. PICK i \in DOMAIN spec : c[2] = spec[i].name
    BY <1>2, <1>3
  <2>2. c = <<c[1], c[2]>>
    BY <1>3
  <2>3. CASE c[1] = "Job"
    BY <1>1, <2>1, <2>2, <2>3 DEF MapChildren
  <2>4. CASE c[1] \in {"Deployment", "Service", "PodDisruptionBudget"}
    <3>1. c \in {"Deployment", "Service", "PodDisruptionBudget"} \X {spec[i].name}
      BY <2>1, <2>2, <2>4
    <3>2. c \in DeployedChildren(spec[i])
      BY <3>1 DEF DeployedChildren, DeployingChildren
    <3> QED
      BY <1>1, <3>2
  <2>5. c[1] \in {"Job", "Deployment", "Service", "PodDisruptionBudget"}
    BY <1>3
  <2> QED
    BY <2>3, <2>4, <2>5
<1>4. CASE c \in {"CronJob"} \X ExpectedCronJobs(spec)
  <2>1. PICK i \in DOMAIN spec : spec[i].speedUpdates /\ c[2] = spec[i].name
    BY <1>4 DEF ExpectedCronJobs
  <2>2. c = <<"CronJob", spec[i].name>>
    BY <1>4, <2>1
  <2>3. c \in DeployedChildren(spec[i])
    BY <2>1, <2>2 DEF DeployedChildren
  <2> QED
    BY <1>1, <2>3
<1>5. CASE c \in ExpectedGateway(spec)
  BY <1>5 DEF ExpectedGateway
<1> QED
  BY <1>3, <1>4, <1>5 DEF ExpectedResources

LEMMA ExpectedAutoscaler ==
  ASSUME NEW spec, NEW c \in ExpectedResources(spec), c[1] = "HorizontalPodAutoscaler"
  PROVE  c \in {"HorizontalPodAutoscaler"} \X Names(spec)
<1>1. c \notin {"CronJob"} \X ExpectedCronJobs(spec)
  OBVIOUS
<1>2. c \notin ExpectedGateway(spec)
  BY GatewayType DEF ExpectedGateway
<1> QED
  BY <1>1, <1>2 DEF ExpectedResources

LEMMA DoneIsMatching ==
  TypeOK /\ MapsHaveJobs /\ WorkDone => ChildrenMatchSpec
<1> DEFINE deployed == ToSet(ForEach(cluster.spec, WorkersDeployedPhaseBuilders))
           jobs     == ToSet(ForEach(cluster.spec, MapBuildingPhaseBuilders))
           built    == deployed \cup jobs \cup ToSet(GatewayBuilders)
           kept     == {"HorizontalPodAutoscaler"} \X Names(cluster.spec)
<1> SUFFICES ASSUME TypeOK, MapsHaveJobs, WorkDone, Deployed
             PROVE  built \subseteq children /\ children \subseteq built \cup kept
  BY DEF ChildrenMatchSpec
<1>1. /\ cluster.phase = "WorkersDeployed" /\ PhaseIs(cluster)
      /\ BuildersOf(cluster) \subseteq children /\ Unexpected(cluster) = {}
  BY DEF WorkDone, Deployed, AtRest
<1>2. cluster.spec \in Seq(ProfileSpec)
  BY SpecsType DEF TypeOK
<1>3. deployed \cup ToSet(GatewayBuilders) \subseteq children
  BY <1>1, <1>2, DeployedBuilders DEF BuildersOf
<1>4. jobs \subseteq children
  <2>1. Names(cluster.spec) \subseteq mapped
    BY <1>1 DEF PhaseIs, DeterminePhase
  <2>2. \A i \in DOMAIN cluster.spec : cluster.spec[i].name \in Names(cluster.spec)
    BY <1>2, RoutesType DEF Names, ToSet
  <2>3. \A i \in DOMAIN cluster.spec : MapChildren(cluster.spec[i]) \subseteq children
    BY <2>1, <2>2 DEF MapsHaveJobs, Exists, MapChildren
  <2>4. \A c : c \in jobs <=> \E i \in DOMAIN cluster.spec : c \in MapChildren(cluster.spec[i])
    BY <1>2, PhaseBuilders
  <2> QED
    BY <2>3, <2>4
<1>5. ASSUME NEW c \in children PROVE c \in built \cup kept
  <2>1. c \in ExpectedResources(cluster.spec)
    BY <1>1 DEF Unexpected
  <2>2. CASE c[1] = "HorizontalPodAutoscaler"
    BY <2>1, <2>2, ExpectedAutoscaler
  <2>3. CASE c[1] # "HorizontalPodAutoscaler"
    BY <1>2, <2>1, <2>3, ExpectedIsBuilt
  <2> QED
    BY <2>2, <2>3
<1> QED
  BY <1>3, <1>4, <1>5

WorkInv == Copied /\ MapsHaveJobs /\ WorkDone

(* The inductive invariant: what the passes so far have left undone is     *)
(* still in the work of the running pass or comes back with the next one.  *)
THEOREM WorkInvariant == Spec => []WorkInv
<1>1. Init => WorkInv
  BY DEF Init, WorkInv, Copied, MapsHaveJobs, WorkDone
<1>2. TypeOK /\ WorkInv /\ [Next]_vars => WorkInv'
  BY NextKeepsCopied, NextKeepsJobs, NextKeepsWork DEF WorkInv
<1> QED
  BY <1>1, <1>2, TypeCorrect, PTL DEF Spec

(* When the operator reports the workers deployed and has nothing left to  *)
(* do, all children the spec calls for exist and no others do, but for the *)
(* autoscaler of a profile of the spec that no longer asks for one;        *)
(* whatever was edited and failed before.                                  *)
THEOREM ChildrenMatchTheorem == Spec => []ChildrenMatchSpec
<1>1. TypeOK /\ WorkInv => ChildrenMatchSpec
  BY DoneIsMatching DEF WorkInv
<1> QED
  BY <1>1, TypeCorrect, WorkInvariant, PTL

-----------------------------------------------------------------------------
(* The gateway.                                                            *)

LEMMA NextKeepsGateway ==
  TypeOK /\ Copied /\ GatewayDone /\ [Next]_vars => GatewayDone'
<1> SUFFICES ASSUME TypeOK, Copied, GatewayDone, [Next]_vars, ~queued'
             PROVE  GatewayDone'
  BY DEF GatewayDone
<1>1. UNCHANGED Observed /\ (Start \/ ~queued)
  BY QuietSteps
<1>2. UNCHANGED <<cluster, config, hash>>
  BY <1>1 DEF Observed
<1>3. CASE Start
  BY <1>2, <1>3 DEF Start, local, GatewayDone
<1>4. CASE ~queued /\ Plan
  <2>1. /\ copy.phase = DeterminePhase(copy.spec) /\ pc = "plan" /\ pc' = "build"
        /\ copy' = [copy EXCEPT !.phase = DeterminePhase(copy.spec)]
        /\ todo' = ResourceBuildersForPhase(DeterminePhase(copy.spec), copy.spec)
        /\ siblings' = siblings
    BY <1>4 DEF Plan, Retry
  <2>2. copy' = copy
    BY <2>1 DEF TypeOK
  <2>3. siblings' = config'
    BY <1>2, <1>4, <2>1 DEF GatewayDone
  <2>4. copy.phase = "WorkersDeployed" => ToSet(GatewayBuilders) \subseteq ToSet(todo')
    <3>1. copy.spec \in Seq(ProfileSpec)
      BY CopyType, TypeParts
    <3> QED
      BY <2>1, <3>1, DeployedBuilders
  <2> QED
    BY <2>1, <2>2, <2>3, <2>4, GatewayType DEF GatewayDone
<1>5. CASE ~queued /\ Builders
  <2>1. /\ pc = "build" /\ pc' = "build" /\ copy' = copy /\ siblings' = siblings
        /\ todo # << >> /\ todo' = Tail(todo)
        /\ Head(todo) = <<"ConfigMap", "gateway">> => config = Routes(copy.spec)
        /\ Head(todo) = <<"Deployment", "gateway">> => hash = siblings
    BY <1>5, QuietBuilders
  <2>2. todo \in Seq(Child)
    BY <2>1 DEF TypeOK
  <2>3. ToSet(todo) = {Head(todo)} \cup ToSet(todo')
    BY <2>1, <2>2, WorkTaken
  <2> QED
    BY <1>2, <1>5, <2>1, <2>3 DEF GatewayDone
<1>6. CASE ~queued /\ SetLastAppliedSpecAnnotation
  <2>1. /\ pc = "build" /\ pc' = "collect" /\ copy' = copy /\ siblings' = siblings
        /\ todo = << >>
    BY <1>6 DEF SetLastAppliedSpecAnnotation, Retry
  <2>2. ToSet(todo) = {}
    BY <2>1 DEF ToSet
  <2> QED
    BY <1>2, <1>6, <2>1, <2>2 DEF GatewayDone
<1>7. CASE ~queued /\ Collect
  <2>1. UNCHANGED <<pc, copy, siblings>> /\ pc = "collect"
    BY <1>7, QuietCollect
  <2> QED
    BY <1>2, <1>7, <2>1 DEF GatewayDone
<1>8. CASE ~queued /\ SetReconciliationSuccess
  <2>1. pc = "collect" /\ todo = << >> /\ pc' = "idle"
    BY <1>8 DEF SetReconciliationSuccess, Discard
  <2>2. cluster.spec = copy.spec /\ cluster.phase = copy.phase
    BY <1>8, <2>1 DEF Copied
  <2> QED
    BY <1>2, <1>8, <2>1, <2>2 DEF GatewayDone
<1>9. CASE User \/ Progress \/ Failure \/ Wake
  <2>1. \A kind \in {"Job", "Deployment"} : Notify(kind) => queued'
    BY Notified DEF KindsUsed
  <2> QED
    BY <1>9, <2>1
       DEF User, EditSpec, TogglePause, UserWrites, Progress, FinishMap, StartWorkers,
           StartGateway, Failure, FailWorkers, FailGateway, Abandon, Retry, Wake
<1>10. CASE ~queued /\ UNCHANGED vars
  BY <1>2, <1>10 DEF vars, local, GatewayDone
<1> QED
  BY <1>1, <1>3, <1>4, <1>5, <1>6, <1>7, <1>8, <1>9, <1>10, ReconcileSteps DEF Next

(* Only an edit changes the spec and what is remembered of it.             *)
LEMMA SpecKept ==
  ASSUME TypeOK, [Next]_vars, ~EditSpec
  PROVE  cluster'.spec = cluster.spec /\ left' = left
<1>1. SetConditions(cluster).spec = cluster.spec
  BY DEF TypeOK, SetConditions
<1>2. CASE Start
  BY <1>1, <1>2 DEF Start, Refreshed, bounds
<1>3. CASE Plan \/ SetLastAppliedSpecAnnotation
  BY <1>3 DEF Plan, SetLastAppliedSpecAnnotation, TypeOK, bounds
<1>4. CASE Builders
  BY <1>4, OneBuilder DEF Build, bounds
<1>5. CASE Collect
  BY <1>5, OneKindCollected DEF bounds
<1>6. CASE SetReconciliationSuccess \/ Abandon
  BY <1>6 DEF SetReconciliationSuccess, Abandon, ReportFailure, TypeOK
<1>7. CASE TogglePause
  BY <1>7 DEF TogglePause, TypeOK
<1>8. CASE Progress \/ FailGateway \/ (\E p \in Profiles : FailWorkers(p)) \/ Wake
  BY <1>8 DEF Progress, FinishMap, StartWorkers, StartGateway, FailGateway, FailWorkers,
              Wake, bounds
<1>9. CASE UNCHANGED vars
  BY <1>9 DEF vars, bounds
<1> QED
  BY <1>2, <1>3, <1>4, <1>5, <1>6, <1>7, <1>8, <1>9, ReconcileSteps
     DEF Next, User, Failure

(* The same invariant over the routes and the pods that may change, for    *)
(* steps that leave the spec alone.                                        *)
LEMMA ForwardKept ==
  ASSUME OnlyForward, cluster'.spec = cluster.spec, left' = left,
         UNCHANGED <<config, hash, pods, address>>,
         \A p : Exists("Service", p) => Exists("Service", p)',
         \/ pc' = "idle"
         \/ pc # "idle" /\ copy'.spec = copy.spec /\ siblings' = siblings
  PROVE  OnlyForward'
BY DEF OnlyForward, Known, Fresh

LEMMA PassGoesForward ==
  ASSUME TypeOK, OnlyForward,
         \/ Start \/ Plan \/ SetLastAppliedSpecAnnotation \/ SetReconciliationSuccess
         \/ Abandon \/ TogglePause \/ Wake \/ UNCHANGED vars
         \/ \E p \in Profiles : FinishMap(p) \/ StartWorkers(p) \/ FailWorkers(p),
         cluster'.spec = cluster.spec, left' = left
  PROVE  OnlyForward'
<1>1. UNCHANGED <<config, hash, pods, address, children>>
  BY DEF Start, Plan, SetLastAppliedSpecAnnotation, SetReconciliationSuccess, Abandon,
         TogglePause, UserWrites, Wake, FinishMap, StartWorkers, FailWorkers, vars, objects
<1>2. \A p : Exists("Service", p) => Exists("Service", p)'
  BY <1>1 DEF Exists
<1>3. CASE Start /\ ~cluster.paused
  BY <1>1, <1>2, <1>3 DEF Start, OnlyForward, Known, Fresh
<1>4. CASE ~(Start /\ ~cluster.paused)
  <2>1. \/ pc' = "idle"
        \/ pc' = pc /\ copy' = copy /\ siblings' = siblings
        \/ pc = "plan" /\ copy' = [copy EXCEPT !.phase = DeterminePhase(copy.spec)]
             /\ siblings' = siblings
        \/ pc = "build" /\ copy' = copy /\ siblings' = siblings
    BY <1>4 DEF Start, Plan, SetLastAppliedSpecAnnotation, SetReconciliationSuccess,
                Abandon, Retry, Discard, TogglePause, UserWrites, Wake, FinishMap,
                StartWorkers, FailWorkers, vars, local
  <2>2. \/ pc' = "idle"
        \/ pc # "idle" /\ copy'.spec = copy.spec /\ siblings' = siblings
    BY <2>1 DEF TypeOK
  <2> QED
    BY <1>1, <1>2, <2>2, ForwardKept
<1> QED
  BY <1>3, <1>4

LEMMA BuildersGoForward ==
  ASSUME TypeOK, OnlyForward, Builders,
         cluster'.spec = cluster.spec, left' = left
  PROVE  OnlyForward'
<1>1. PICK kind \in KindsUsed, owner \in Profiles \cup {"gateway"} :
         /\ Build(kind, owner)
         /\ \/ BuildOnce(kind, owner) /\ (owner = "gateway" => kind = "Service")
            \/ kind = "Service" /\ owner \in Profiles /\ BuildService(owner)
            \/ kind = "ConfigMap" /\ owner = "gateway" /\ BuildConfigMap
            \/ kind = "Deployment" /\ owner = "gateway" /\ BuildGatewayDeployment
  BY OneBuilder
<1>2. /\ pc = "build" /\ children \subseteq children'
      /\ UNCHANGED <<pods, pc, copy, siblings>>
  BY <1>1 DEF Build
<1>3. \A p : Exists("Service", p) => Exists("Service", p)'
  BY <1>2 DEF Exists
<1>4. CASE BuildOnce(kind, owner)
  BY <1>2, <1>3, <1>4, ForwardKept DEF BuildOnce
<1>5. CASE owner \in Profiles /\ BuildService(owner)
  <2>1. UNCHANGED <<config, hash>>
    BY <1>5 DEF BuildService
  <2>2. \A p \in Profiles : Exists("Service", p) => address'[p] = address[p]
    BY <1>5 DEF BuildService, TypeOK
  <2>3. pods.config \in Seq(Profiles)
    BY DEF TypeOK
  <2>4. ToSet(pods.config) \subseteq Profiles
    BY <2>3, SetOfSequence
  <2> QED
    BY <1>2, <1>3, <2>1, <2>2, <2>4 DEF OnlyForward, Known, Fresh
<1>6. CASE BuildConfigMap
  BY <1>2, <1>3, <1>6 DEF BuildConfigMap, OnlyForward, Known, Fresh
<1>7. CASE BuildGatewayDeployment
  BY <1>2, <1>3, <1>7 DEF BuildGatewayDeployment, OnlyForward, Known, Fresh
<1> QED
  BY <1>1, <1>4, <1>5, <1>6, <1>7

(* The Services of the routes a pass works with are not collected.         *)
LEMMA RoutedServicesStay ==
  ASSUME TypeOK, Collect, NEW p \in Names(copy.spec), Exists("Service", p)
  PROVE  Exists("Service", p)' /\ address'[p] = address[p]
<1> DEFINE doomed == {c \in Unexpected(copy) : c[1] = Head(todo)}
           owners == {c[2] : c \in doomed}
<1>1. /\ children' = children \ doomed
      /\ address' = IF Head(todo) = "Service"
                      THEN [q \in Profiles |-> IF q \in owners THEN 0 ELSE address[q]]
                      ELSE address
  BY OneKindCollected
<1>2. <<"Service", p>> \in ExpectedResources(copy.spec)
  BY DEF ExpectedResources
<1>3. <<"Service", p>> \notin doomed
  BY <1>2 DEF Unexpected
<1>4. p \in Profiles
  <2>1. copy.spec \in Seq(ProfileSpec)
    BY CopyType, TypeParts
  <2> QED
    BY <2>1, RoutesType
<1>5. ASSUME Head(todo) = "Service" PROVE p \notin owners
  <2>1. ASSUME NEW c \in doomed, c[2] = p PROVE FALSE
    <3>1. c \in Child
      BY DEF Unexpected, TypeOK
    <3>2. c = <<"Service", p>>
      BY <1>5, <2>1, <3>1 DEF Child
    <3> QED
      BY <1>3, <3>2
  <2> QED
    BY <2>1
<1> HIDE DEF doomed, owners
<1> QED
  BY <1>1, <1>3, <1>4, <1>5 DEF Exists

LEMMA CollectGoesForward ==
  ASSUME TypeOK, OnlyForward, Collect,
         cluster'.spec = cluster.spec, left' = left
  PROVE  OnlyForward'
<1>1. /\ pc = "collect" /\ UNCHANGED <<pc, copy, siblings>>
      /\ hash' \in {NoRoutes, hash} /\ pods' \in {NoPods, pods}
      /\ config' \in {NoRoutes, config}
  BY OneKindCollected
<1>2. NoPods.up = FALSE /\ NoPods.hash = NoRoutes
  BY DEF NoPods
<1>3. ASSUME pods.up, Fresh(pods.hash)
      PROVE  /\ pods.config = pods.hash
             /\ \A p \in ToSet(pods.config) :
                  Exists("Service", p)' /\ pods.hosts[p] = address'[p]
  <2>1. /\ pods.config = Routes(copy.spec) /\ pods.config = pods.hash
        /\ \A p \in ToSet(pods.config) :
             Exists("Service", p) /\ pods.hosts[p] = address[p]
    BY <1>1, <1>3 DEF OnlyForward, Fresh
  <2>2. ToSet(pods.config) = Names(copy.spec)
    BY <2>1 DEF Names
  <2> QED
    BY <2>1, <2>2, RoutedServicesStay
<1> QED
  BY <1>1, <1>2, <1>3 DEF OnlyForward, Known, Fresh

LEMMA GatewayPodsGoForward ==
  ASSUME TypeOK, OnlyForward, StartGateway \/ FailGateway,
         cluster'.spec = cluster.spec, left' = left
  PROVE  OnlyForward'
<1>1. UNCHANGED <<config, hash, address, children, pc, copy, siblings>>
  BY DEF StartGateway, FailGateway, local
<1>2. CASE FailGateway
  <2>1. pods'.up = FALSE /\ pods'.hash = NoRoutes
    BY <1>2 DEF FailGateway, NoPods
  <2> QED
    BY <1>1, <2>1 DEF OnlyForward, Known, Fresh, Exists
<1>3. CASE StartGateway
  <2>1. /\ config # NoRoutes /\ \A p \in ToSet(config) : Exists("Service", p)
        /\ pods'.up /\ pods'.hash = hash /\ pods'.config = config
        /\ \A p \in Profiles : p \in ToSet(config) => pods'.hosts[p] = address[p]
    BY <1>3 DEF StartGateway
  <2>2. config \in Seq(Profiles)
    BY DEF TypeOK
  <2>3. ToSet(config) \subseteq Profiles
    BY <2>2, SetOfSequence
  <2> QED
    BY <1>1, <2>1, <2>3 DEF OnlyForward, Known, Fresh, Exists
<1> QED
  BY <1>2, <1>3

(* An edit to routes that were not submitted before: nothing the gateway   *)
(* has is of those routes yet.                                             *)
LEMMA EditGoesForward ==
  ASSUME TypeOK, OnlyForward, EditSpec, "return" \notin UserOps
  PROVE  OnlyForward'
<1>1. PICK s \in Specs :
         /\ Routes(s) \notin left
         /\ cluster' = [cluster EXCEPT !.spec = s]
         /\ left' = IF Routes(s) = Routes(cluster.spec) THEN left
                    ELSE left \cup {Routes(cluster.spec)}
  BY DEF EditSpec
<1>2. UNCHANGED <<config, hash, pods, address, children, pc, copy, siblings>>
  BY DEF EditSpec, UserWrites, objects
<1>3. cluster'.spec = s
  BY <1>1 DEF TypeOK
<1>4. CASE Routes(s) = Routes(cluster.spec)
  BY <1>1, <1>2, <1>3, <1>4 DEF OnlyForward, Known, Fresh, Exists
<1>5. CASE Routes(s) # Routes(cluster.spec)
  BY <1>1, <1>2, <1>3, <1>5 DEF OnlyForward, Known, Fresh, Exists
<1> QED
  BY <1>4, <1>5

LEMMA NextGoesForward ==
  ASSUME "return" \notin UserOps
  PROVE  TypeOK /\ OnlyForward /\ [Next]_vars => OnlyForward'
<1> SUFFICES ASSUME TypeOK, OnlyForward, [Next]_vars PROVE OnlyForward'
  OBVIOUS
<1>1. CASE EditSpec
  BY <1>1, EditGoesForward
<1>2. CASE ~EditSpec
  <2>1. cluster'.spec = cluster.spec /\ left' = left
    BY <1>2, SpecKept
  <2> QED
    BY <1>2, <2>1, PassGoesForward, BuildersGoForward, CollectGoesForward,
       GatewayPodsGoForward, ReconcileSteps DEF Next, User, Progress, Failure
<1> QED
  BY <1>1, <1>2

LEMMA InitForward == Init => OnlyForward
<1> SUFFICES ASSUME Init PROVE OnlyForward
  OBVIOUS
<1>1. /\ config = NoRoutes /\ hash = NoRoutes /\ pods = NoPods
      /\ pc = "idle" /\ left = {}
  BY DEF Init
<1>2. pods.hash = NoRoutes /\ pods.up = FALSE
  BY <1>1 DEF NoPods
<1> QED
  BY <1>1, <1>2 DEF OnlyForward, Known, Fresh

(* A user who never comes back to earlier routes: when nothing is left to  *)
(* do and the gateway's roll-out is over, its pods route to exactly the    *)
(* profiles of the spec, and to the Services that exist.                   *)
THEOREM GatewayRoutesTheorem ==
  ASSUME "return" \notin UserOps
  PROVE  Spec => []GatewayRoutesWorkers
<1>1. Init => GatewayDone
  BY DEF Init, GatewayDone
<1>2. TypeOK /\ WorkInv /\ GatewayDone /\ [Next]_vars => GatewayDone'
  BY NextKeepsGateway DEF WorkInv
<1>3. TypeOK /\ OnlyForward /\ [Next]_vars => OnlyForward'
  BY NextGoesForward
<1>4. TypeOK /\ WorkInv /\ GatewayDone /\ OnlyForward => GatewayRoutesWorkers
  <2> SUFFICES ASSUME TypeOK, WorkInv, GatewayDone, OnlyForward,
                      Deployed, pods.up, pods.hash = hash
               PROVE  /\ pods.config = Routes(cluster.spec)
                      /\ \A p \in Names(cluster.spec) : pods.hosts[p] = address[p]
    BY DEF GatewayRoutesWorkers
  <2>1. config = Routes(cluster.spec) /\ hash = config
    BY DEF GatewayDone, Deployed, AtRest
  <2>2. cluster.spec # << >>
    BY DEF WorkInv, WorkDone, Deployed, AtRest, PhaseIs, DeterminePhase
  <2>3. Routes(cluster.spec) # NoRoutes
    <3>1. cluster.spec \in Seq(ProfileSpec)
      BY SpecsType DEF TypeOK
    <3>2. DOMAIN Routes(cluster.spec) = DOMAIN cluster.spec /\ 1 \in DOMAIN cluster.spec
      BY <2>2, <3>1, RoutesType
    <3> QED
      BY <3>2 DEF NoRoutes
  <2>4. Fresh(pods.hash)
    BY <2>1, <2>3 DEF Fresh
  <2> QED
    BY <2>1, <2>4 DEF OnlyForward, Names
<1> QED
  BY <1>1, <1>2, <1>3, <1>4, InitForward, TypeCorrect, WorkInvariant, PTL DEF Spec

=============================================================================
