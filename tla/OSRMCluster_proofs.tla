------------------------- MODULE OSRMCluster_proofs -------------------------
(***************************************************************************)
(* Theorems about OSRMCluster, for every set of profiles, extracts and     *)
(* specs, every choice of user operations, failures and lagging caches,    *)
(* and every value of the bounds: types, built maps, the blue-green        *)
(* refinement, and, in the second part, what holds when the operator has   *)
(* nothing to do.                                                          *)
(***************************************************************************)
EXTENDS OSRMCluster, TLAPS

BuilderType == [kind : Kinds, claim : Claim]

(* The phases that build worker Deployments.                               *)
WorkerPhases == {RedeployingWorkers, DeployingWorkers, WorkersDeployed,
                 WorkersRedeployed}

-----------------------------------------------------------------------------
(* The decisions.                                                          *)

(* The active generation is a generation.                                  *)
LEMMA ActiveIsGeneration ==
  ASSUME NEW profiles \in Seq(Profiles), NEW d \in [Profiles -> 0 .. MaxGen]
  PROVE  GetActiveMapGeneration(profiles, d) \in Gen
<1>1. 1 \in Gen
  BY BoundsAssumption DEF Gen
<1>2. ASSUME NEW i \in DOMAIN profiles, FirstDeployed(profiles, d, i)
      PROVE  d[profiles[i]] \in Gen
  BY <1>2, BoundsAssumption DEF FirstDeployed, Gen
<1>3. CASE \E i \in DOMAIN profiles : FirstDeployed(profiles, d, i)
  <2> DEFINE first == CHOOSE i \in DOMAIN profiles : FirstDeployed(profiles, d, i)
  <2>1. first \in DOMAIN profiles /\ FirstDeployed(profiles, d, first)
    BY <1>3
  <2>2. d[profiles[first]] \in Gen
    BY <2>1, <1>2
  <2> QED
    BY <1>3, <2>2 DEF GetActiveMapGeneration
<1>4. CASE ~\E i \in DOMAIN profiles : FirstDeployed(profiles, d, i)
  BY <1>1, <1>4 DEF GetActiveMapGeneration
<1> QED
  BY <1>3, <1>4

(* A phase is determined, and a phase that moves workers to a generation   *)
(* is one in which every profile has a bound volume and a completed Job of *)
(* that generation.                                                        *)
LEMMA PhaseOfWorkers ==
  ASSUME NEW spec, NEW oldUrl, NEW active, NEW future, NEW bound,
         NEW completed, NEW isReady
  PROVE  LET phase == DeterminePhase(spec, oldUrl, active, future, bound,
                                     completed, isReady)
         IN  /\ phase \in Phase
             /\ phase \in WorkerPhases
                  => LET g == GenerationFor(phase, active, future)
                     IN  \A p \in ProfileSet(spec.profiles) :
                           <<p, g>> \in bound \cap completed
<1> USE DEF Empty, BuildingMap, UpdatingMap, RedeployingWorkers,
            DeployingWorkers, WorkersDeployed, WorkersRedeployed, Deleting
<1> DEFINE phase == DeterminePhase(spec, oldUrl, active, future, bound,
                                   completed, isReady)
<1> DEFINE InProgress(g) ==
      IsMapBuildingInProgress(spec.profiles, bound, completed, g)
<1>1. phase \in Phase
  BY DEF DeterminePhase, Phase
<1>2. phase = RedeployingWorkers => ~InProgress(active) /\ ~InProgress(future)
  BY DEF DeterminePhase, MapUpdateNeeded
<1>3. phase \in {DeployingWorkers, WorkersDeployed, WorkersRedeployed}
        => ~InProgress(active)
  BY DEF DeterminePhase
<1>4. phase = RedeployingWorkers => GenerationFor(phase, active, future) = future
  BY DEF GenerationFor
<1>5. phase \in {DeployingWorkers, WorkersDeployed, WorkersRedeployed}
        => GenerationFor(phase, active, future) = active
  BY DEF GenerationFor
<1> HIDE DEF phase
<1>6. ASSUME NEW g, ~InProgress(g), NEW p \in ProfileSet(spec.profiles)
      PROVE  <<p, g>> \in bound \cap completed
  BY <1>6 DEF IsMapBuildingInProgress
<1> HIDE DEF InProgress
<1> QED
  BY <1>1, <1>2, <1>3, <1>4, <1>5, <1>6 DEF phase, WorkerPhases

(* The builders of volumes and Jobs name claims.                           *)
LEMMA MapBuildersType ==
  ASSUME NEW profiles \in Seq(Profiles), NEW g \in Gen
  PROVE  /\ MapBuilders(profiles, g) \in Seq(BuilderType)
         /\ \A i \in DOMAIN MapBuilders(profiles, g) :
              MapBuilders(profiles, g)[i].kind # "Deployment"
<1> DEFINE n == Len(profiles)
<1>1. n \in Nat /\ 2 * n \in Nat /\ profiles \in [1 .. n -> Profiles]
  OBVIOUS
<1>2. ASSUME NEW k \in 1 .. 2 * n
      PROVE  (k + 1) \div 2 \in 1 .. n
  BY <1>1, <1>2
<1> DEFINE b(k) == Builder(IF k % 2 = 1 THEN "PersistentVolumeClaim" ELSE "Job",
                           profiles[(k + 1) \div 2], g)
<1>3. ASSUME NEW k \in 1 .. 2 * n
      PROVE  b(k) \in BuilderType /\ b(k).kind # "Deployment"
  <2>1. profiles[(k + 1) \div 2] \in Profiles
    BY <1>1, <1>2
  <2> QED
    BY <2>1 DEF Builder, BuilderType, Kinds, Claim
<1>4. MapBuilders(profiles, g) = [k \in 1 .. 2 * n |-> b(k)]
  BY DEF MapBuilders
<1> HIDE DEF b, n
<1>5. [k \in 1 .. 2 * n |-> b(k)] \in Seq(BuilderType)
  BY <1>1, <1>3
<1> QED
  BY <1>3, <1>4, <1>5

(* The builders of Deployments name claims if the generation makes claims  *)
(* of the profiles, and every one of them names such a claim.              *)
LEMMA WorkerBuildersType ==
  ASSUME NEW profiles \in Seq(Profiles), NEW g, NEW S \in SUBSET Claim,
         \A p \in ProfileSet(profiles) : <<p, g>> \in S
  PROVE  /\ WorkerBuilders(profiles, g) \in Seq(BuilderType)
         /\ \A i \in DOMAIN WorkerBuilders(profiles, g) :
              WorkerBuilders(profiles, g)[i].claim \in S
<1> DEFINE n == Len(profiles)
<1>1. n \in Nat /\ profiles \in [1 .. n -> Profiles]
  OBVIOUS
<1>2. ASSUME NEW k \in 1 .. n
      PROVE  /\ Builder("Deployment", profiles[k], g) \in BuilderType
             /\ Builder("Deployment", profiles[k], g).claim \in S
  <2>1. <<profiles[k], g>> \in S
    BY <1>1 DEF ProfileSet
  <2> QED
    BY <2>1 DEF Builder, BuilderType, Kinds
<1> QED
  BY <1>1, <1>2 DEF WorkerBuilders

(* The builders of the phase a reconciliation determined: they name        *)
(* claims, and every Deployment among them is for a claim that was seen    *)
(* with a completed Job.                                                   *)
LEMMA BuildersOfPhase ==
  ASSUME NEW profiles \in Seq(Profiles), NEW phase, NEW active \in Gen,
         NEW future, NEW completed \in SUBSET Claim,
         phase = UpdatingMap => GetNextMapGeneration(active) \in Gen,
         phase \in WorkerPhases
           => \A p \in ProfileSet(profiles) :
                <<p, GenerationFor(phase, active, future)>> \in completed
  PROVE  LET builders == ResourceBuildersForPhase(phase, profiles, active, future)
         IN  /\ builders \in Seq(BuilderType)
             /\ \A i \in DOMAIN builders :
                  builders[i].kind = "Deployment" => builders[i].claim \in completed
<1> DEFINE g == GenerationFor(phase, active, future)
           builders == ResourceBuildersForPhase(phase, profiles, active, future)
<1>2. phase \in {BuildingMap, UpdatingMap} => g \in Gen
  <2>1. BuildingMap # UpdatingMap /\ BuildingMap # RedeployingWorkers
    BY DEF BuildingMap, UpdatingMap, RedeployingWorkers
  <2>2. CASE phase = UpdatingMap
    BY <2>2 DEF GenerationFor
  <2>3. CASE phase = BuildingMap
    BY <2>1, <2>3 DEF GenerationFor
  <2> QED
    BY <2>2, <2>3
<1>3. phase \in WorkerPhases => \A p \in ProfileSet(profiles) : <<p, g>> \in completed
  OBVIOUS
<1> HIDE DEF g
<1>4. CASE phase \in {BuildingMap, UpdatingMap}
  <2>1. builders = MapBuilders(profiles, g)
    BY <1>4 DEF ResourceBuildersForPhase, g, BuildingMap, UpdatingMap,
       RedeployingWorkers, DeployingWorkers, WorkersDeployed, WorkersRedeployed
  <2> QED
    BY <1>2, <1>4, <2>1, MapBuildersType
<1>5. CASE phase \in WorkerPhases
  <2>1. builders = WorkerBuilders(profiles, g)
    BY <1>5 DEF ResourceBuildersForPhase, WorkerPhases, g, BuildingMap, UpdatingMap,
       RedeployingWorkers, DeployingWorkers, WorkersDeployed, WorkersRedeployed
  <2> QED
    BY <1>3, <1>5, <2>1, WorkerBuildersType
<1>6. CASE phase \notin {BuildingMap, UpdatingMap} /\ phase \notin WorkerPhases
  <2>1. builders = << >>
    BY <1>6 DEF ResourceBuildersForPhase, WorkerPhases
  <2> QED
    BY <2>1
<1> QED
  BY <1>4, <1>5, <1>6

-----------------------------------------------------------------------------
(* Type correctness.                                                       *)

LEMMA SpecsType == Specs \subseteq ClusterSpec /\ FirstSpec \in ClusterSpec
BY SpecsAssumption DEF ClusterSpec

LEMMA NoInstanceType ==
  NoInstance \in [spec : ClusterSpec, lastApplied : OldUrl, phase : Phase]
BY SpecsType DEF NoInstance, OldUrl, Phase

LEMMA NothingDoomedType ==
  NothingDoomed \in [dep : SUBSET Profiles, pvc : SUBSET Claim, job : SUBSET Claim]
BY DEF NothingDoomed

LEMMA NoBuilders == << >> \in Seq([kind : Kinds, claim : Claim])
OBVIOUS

(* A reconciliation that ends leaves well-typed local state.               *)
LEMMA DiscardType == Discard => ReconcileTypeOK'
BY NoInstanceType, NothingDoomedType, NoBuilders DEF Discard, ReconcileTypeOK

LEMMA RetryType == Retry => ReconcileTypeOK' /\ queued' \in BOOLEAN
BY DiscardType DEF Retry

LEMMA NotifyType ==
  ASSUME NEW kind, Notify(kind) PROVE queued' \in BOOLEAN
BY DEF Notify

LEMMA BuilderDoneType ==
  ASSUME ReconcileTypeOK, todo # << >>, BuilderDone PROVE ReconcileTypeOK'
BY DEF BuilderDone, ReconcileTypeOK

LEMMA UserWritesType ==
  ASSUME TypeOK, NEW op, UserWrites(op)
  PROVE  /\ ChildrenTypeOK' /\ ReconcileTypeOK'
         /\ queued' \in BOOLEAN /\ edits' \in 0 .. MaxEdits /\ faults' \in 0 .. MaxFaults
<1>1. queued' \in BOOLEAN
  BY NotifyType DEF UserWrites
<1>2. edits' \in 0 .. MaxEdits /\ faults' \in 0 .. MaxFaults
  BY BoundsAssumption DEF UserWrites, TypeOK, ObjectTypeOK
<1>3. ChildrenTypeOK'
  BY DEF UserWrites, TypeOK, ChildrenTypeOK, children
<1>4. ReconcileTypeOK'
  BY DEF UserWrites, TypeOK, ReconcileTypeOK
<1> QED
  BY <1>1, <1>2, <1>3, <1>4

LEMMA InitTypeOK == Init => TypeOK
<1> SUFFICES ASSUME Init PROVE TypeOK
  OBVIOUS
<1>1. ObjectTypeOK
  BY SpecsType, BoundsAssumption DEF Init, ObjectTypeOK, OldUrl, Phase
<1>2. ChildrenTypeOK
  BY BoundsAssumption DEF Init, ChildrenTypeOK, OldUrl, PvcState, JobState
<1>3. ReconcileTypeOK
  BY NoInstanceType, NothingDoomedType, NoBuilders DEF Init, ReconcileTypeOK
<1> QED
  BY <1>1, <1>2, <1>3 DEF TypeOK

(* The steps of the reconciler before and after the builders.              *)
LEMMA ReconcilerTypeOK ==
  ASSUME TypeOK,
         \/ Forget \/ Initialize \/ MarkDeleting \/ Finalize \/ Pause \/ Begin
         \/ Finish \/ Abandon
  PROVE  TypeOK'
<1> USE DEF TypeOK, children, local, bounds
<1>1. CASE Forget
  BY <1>1 DEF Forget, ObjectTypeOK, ChildrenTypeOK, ReconcileTypeOK
<1>2. CASE Initialize
  BY <1>2 DEF Initialize, ObjectTypeOK, ChildrenTypeOK, ReconcileTypeOK
<1>3. CASE MarkDeleting
  BY <1>3 DEF MarkDeleting, ObjectTypeOK, ChildrenTypeOK, ReconcileTypeOK, Phase
<1>4. CASE Finalize
  <2>1. ReconcileTypeOK' /\ queued' \in BOOLEAN
    BY <1>4, RetryType, DiscardType DEF Finalize
  <2> QED
    BY <1>4, <2>1 DEF Finalize, ObjectTypeOK, ChildrenTypeOK
<1>5. CASE Pause
  BY <1>5 DEF Pause, ObjectTypeOK, ChildrenTypeOK, ReconcileTypeOK
<1>6. CASE Begin
  BY <1>6 DEF Begin, ObjectTypeOK, ChildrenTypeOK, ReconcileTypeOK
<1>7. CASE Finish
  <2>1. ReconcileTypeOK'
    BY <1>7, DiscardType DEF Finish
  <2> QED
    BY <1>7, <2>1 DEF Finish, ObjectTypeOK, ChildrenTypeOK
<1>8. CASE Abandon
  <2>1. ReconcileTypeOK' /\ queued' \in BOOLEAN
    BY <1>8, RetryType DEF Abandon
  <2> QED
    BY <1>8, <2>1, BoundsAssumption
    DEF Abandon, Fault, ObjectTypeOK, ChildrenTypeOK
<1> QED
  BY <1>1, <1>2, <1>3, <1>4, <1>5, <1>6, <1>7, <1>8

(* The builders, and the annotation that follows them.                     *)
LEMMA BuildTypeOK ==
  ASSUME TypeOK, Build PROVE TypeOK'
<1> USE DEF TypeOK, children, bounds
<1>1. ASSUME NEW c \in Claim, BuildPersistentVolumeClaim(c) PROVE TypeOK'
  <2>1. ReconcileTypeOK' /\ queued' \in BOOLEAN
    BY <1>1, RetryType, BuilderDoneType, NotifyType
    DEF BuildPersistentVolumeClaim, Building, ObjectTypeOK
  <2>2. pvc' \in [Claim -> PvcState]
    BY <1>1 DEF BuildPersistentVolumeClaim, ChildrenTypeOK, PvcState
  <2> QED
    BY <1>1, <2>1, <2>2 DEF BuildPersistentVolumeClaim, ObjectTypeOK, ChildrenTypeOK
<1>2. ASSUME NEW c \in Claim, BuildJob(c) PROVE TypeOK'
  <2>1. ReconcileTypeOK' /\ queued' \in BOOLEAN
    BY <1>2, RetryType, BuilderDoneType, NotifyType
    DEF BuildJob, Building, ObjectTypeOK
  <2>2. job' \in [Claim -> JobState]
    BY <1>2 DEF BuildJob, ChildrenTypeOK, JobState
  <2>3. instance.spec.url \in OldUrl
    BY DEF ReconcileTypeOK, ClusterSpec, OldUrl
  <2>4. source' \in [Claim -> OldUrl]
    BY <1>2, <2>3 DEF BuildJob, ChildrenTypeOK
  <2> QED
    BY <1>2, <2>1, <2>2, <2>4 DEF BuildJob, ObjectTypeOK, ChildrenTypeOK
<1>3. ASSUME NEW c \in Claim, BuildDeployment(c) PROVE TypeOK'
  <2>1. ReconcileTypeOK' /\ queued' \in BOOLEAN
    BY <1>3, RetryType, BuilderDoneType, NotifyType
    DEF BuildDeployment, Building, ObjectTypeOK
  <2>2. c[1] \in Profiles /\ c[2] \in 0 .. MaxGen
    BY BoundsAssumption DEF Claim, Gen
  <2>3. dep' \in [Profiles -> 0 .. MaxGen]
    BY <1>3, <2>2 DEF BuildDeployment, ChildrenTypeOK
  <2>4. ready' \in SUBSET Profiles
    BY <1>3 DEF BuildDeployment, ChildrenTypeOK
  <2> QED
    BY <1>3, <2>1, <2>3, <2>4 DEF BuildDeployment, ObjectTypeOK, ChildrenTypeOK
<1>4. CASE SetLastAppliedSpecAnnotation
  <2>1. instance.spec.url \in OldUrl
    BY DEF ReconcileTypeOK, ClusterSpec, OldUrl
  <2>2. CASE Retry
    BY <1>4, <2>2, RetryType
    DEF SetLastAppliedSpecAnnotation, Retry, Discard, ObjectTypeOK, ChildrenTypeOK
  <2>3. CASE ~Conflict /\ ~Retry
    <3>1. ObjectTypeOK'
      BY <1>4, <2>1, <2>3 DEF SetLastAppliedSpecAnnotation, ObjectTypeOK
    <3>2. ReconcileTypeOK'
      BY <1>4, <2>3, NothingDoomedType
      DEF SetLastAppliedSpecAnnotation, ReconcileTypeOK
    <3> QED
      BY <1>4, <3>1, <3>2 DEF SetLastAppliedSpecAnnotation, ChildrenTypeOK
  <2> QED
    BY <1>4, <2>2, <2>3 DEF SetLastAppliedSpecAnnotation
<1> QED
  BY <1>1, <1>2, <1>3, <1>4 DEF Build

(* Garbage collection.                                                     *)
LEMMA GarbageCollectionTypeOK ==
  ASSUME TypeOK, GarbageCollection PROVE TypeOK'
<1> USE DEF TypeOK, children, bounds
<1>1. ASSUME NEW p \in Profiles, DeleteDeployment(p) PROVE TypeOK'
  <2>1. queued' \in BOOLEAN
    BY <1>1, NotifyType DEF DeleteDeployment
  <2>2. ChildrenTypeOK'
    BY <1>1, BoundsAssumption DEF DeleteDeployment, ChildrenTypeOK
  <2>3. ReconcileTypeOK'
    BY <1>1 DEF DeleteDeployment, ReconcileTypeOK
  <2> QED
    BY <1>1, <2>1, <2>2, <2>3 DEF DeleteDeployment, ObjectTypeOK
<1>2. CASE ListClaims
  <2>1. ReconcileTypeOK'
    BY <1>2 DEF ListClaims, Existing, UnexpectedJobs, ReconcileTypeOK
  <2> QED
    BY <1>2, <2>1 DEF ListClaims, ObjectTypeOK, ChildrenTypeOK
<1>3. ASSUME NEW c \in Claim, DeletePersistentVolumeClaim(c) PROVE TypeOK'
  <2>1. queued' \in BOOLEAN
    BY <1>3, NotifyType DEF DeletePersistentVolumeClaim
  <2>2. ChildrenTypeOK'
    BY <1>3 DEF DeletePersistentVolumeClaim, ChildrenTypeOK, PvcState, OldUrl
  <2>3. ReconcileTypeOK'
    BY <1>3 DEF DeletePersistentVolumeClaim, ReconcileTypeOK
  <2> QED
    BY <1>3, <2>1, <2>2, <2>3 DEF DeletePersistentVolumeClaim, ObjectTypeOK
<1>4. ASSUME NEW c \in Claim, DeleteJob(c) PROVE TypeOK'
  <2>1. queued' \in BOOLEAN
    BY <1>4, NotifyType DEF DeleteJob
  <2>2. ChildrenTypeOK'
    BY <1>4 DEF DeleteJob, ChildrenTypeOK, JobState, OldUrl
  <2>3. ReconcileTypeOK'
    BY <1>4 DEF DeleteJob, ReconcileTypeOK
  <2> QED
    BY <1>4, <2>1, <2>2, <2>3 DEF DeleteJob, ObjectTypeOK
<1> QED
  BY <1>1, <1>2, <1>3, <1>4 DEF GarbageCollection

(* The user.                                                               *)
LEMMA UserTypeOK ==
  ASSUME TypeOK, User PROVE TypeOK'
<1>1. ASSUME NEW op, UserWrites(op),
             cluster' \in [exists : BOOLEAN, spec : ClusterSpec,
                           lastApplied : OldUrl, finalizer : BOOLEAN,
                           deleting : BOOLEAN, paused : BOOLEAN,
                           statusPaused : BOOLEAN, phase : Phase]
      PROVE  TypeOK'
  BY <1>1, UserWritesType DEF TypeOK, ObjectTypeOK
<1>2. CASE EditSpec
  BY <1>1, <1>2, SpecsType DEF EditSpec, TypeOK, ObjectTypeOK
<1>3. CASE PatientEdit
  BY <1>1, <1>3, SpecsType DEF PatientEdit, TypeOK, ObjectTypeOK
<1>4. CASE TogglePause
  BY <1>1, <1>4 DEF TogglePause, TypeOK, ObjectTypeOK
<1>5. CASE ReplaceAnnotations
  BY <1>1, <1>5 DEF ReplaceAnnotations, TypeOK, ObjectTypeOK, OldUrl
<1>6. CASE Delete
  BY <1>1, <1>6 DEF Delete, TypeOK, ObjectTypeOK
<1>7. ASSUME NEW kind, Tamper(kind), ChildrenTypeOK' PROVE TypeOK'
  BY <1>7, NotifyType, BoundsAssumption
  DEF Tamper, TypeOK, ObjectTypeOK, ReconcileTypeOK, local
<1>8. ASSUME NEW p \in Profiles, RemoveDeployment(p) PROVE TypeOK'
  <2>1. ChildrenTypeOK'
    BY <1>8, BoundsAssumption DEF RemoveDeployment, Tamper, TypeOK, ChildrenTypeOK
  <2> QED
    BY <1>7, <1>8, <2>1 DEF RemoveDeployment
<1>9. ASSUME NEW c \in Claim, RemovePersistentVolumeClaim(c) PROVE TypeOK'
  <2>1. ChildrenTypeOK'
    BY <1>9 DEF RemovePersistentVolumeClaim, Tamper, TypeOK, ChildrenTypeOK,
       PvcState, OldUrl
  <2> QED
    BY <1>7, <1>9, <2>1 DEF RemovePersistentVolumeClaim
<1>10. ASSUME NEW c \in Claim, RemoveJob(c) PROVE TypeOK'
  <2>1. ChildrenTypeOK'
    BY <1>10 DEF RemoveJob, Tamper, TypeOK, ChildrenTypeOK, JobState, OldUrl
  <2> QED
    BY <1>7, <1>10, <2>1 DEF RemoveJob
<1> QED
  BY <1>2, <1>3, <1>4, <1>5, <1>6, <1>8, <1>9, <1>10 DEF User

(* Kubernetes, the caches and the failures.                                *)
LEMMA EnvironmentTypeOK ==
  ASSUME TypeOK,
         \/ Progress \/ Wake
         \/ \E c \in Claim : FailJob(c)
         \/ \E p \in Profiles : FailWorkers(p)
         \/ \E kind \in Kinds : Sync(kind)
  PROVE  TypeOK'
<1> USE DEF TypeOK, children, local, bounds
<1>1. ASSUME NEW c \in Claim, BindVolume(c) PROVE TypeOK'
  <2>1. queued' \in BOOLEAN
    BY <1>1, NotifyType DEF BindVolume
  <2> QED
    BY <1>1, <2>1
    DEF BindVolume, ObjectTypeOK, ChildrenTypeOK, ReconcileTypeOK, PvcState
<1>2. ASSUME NEW c \in Claim, CompleteJob(c) PROVE TypeOK'
  <2>1. queued' \in BOOLEAN
    BY <1>2, NotifyType DEF CompleteJob
  <2>2. ChildrenTypeOK'
    BY <1>2 DEF CompleteJob, ChildrenTypeOK, JobState
  <2> QED
    BY <1>2, <2>1, <2>2 DEF CompleteJob, ObjectTypeOK, ReconcileTypeOK
<1>3. ASSUME NEW c \in Claim, FailJob(c) PROVE TypeOK'
  <2>1. queued' \in BOOLEAN /\ faults' \in 0 .. MaxFaults
    BY <1>3, NotifyType, BoundsAssumption DEF FailJob, Fault, ObjectTypeOK
  <2>2. ChildrenTypeOK'
    BY <1>3 DEF FailJob, ChildrenTypeOK, JobState
  <2> QED
    BY <1>3, <2>1, <2>2 DEF FailJob, ObjectTypeOK, ReconcileTypeOK
<1>4. ASSUME NEW p \in Profiles, StartWorkers(p) PROVE TypeOK'
  <2>1. queued' \in BOOLEAN
    BY <1>4, NotifyType DEF StartWorkers
  <2> QED
    BY <1>4, <2>1
    DEF StartWorkers, ObjectTypeOK, ChildrenTypeOK, ReconcileTypeOK
<1>5. ASSUME NEW p \in Profiles, FailWorkers(p) PROVE TypeOK'
  <2>1. queued' \in BOOLEAN /\ faults' \in 0 .. MaxFaults
    BY <1>5, NotifyType, BoundsAssumption DEF FailWorkers, Fault, ObjectTypeOK
  <2> QED
    BY <1>5, <2>1
    DEF FailWorkers, ObjectTypeOK, ChildrenTypeOK, ReconcileTypeOK
<1>6. ASSUME NEW kind \in Kinds, Sync(kind) PROVE TypeOK'
  <2>1. queued' \in BOOLEAN
    BY <1>6 DEF Sync
  <2>2. ChildrenTypeOK'
    BY <1>6 DEF Sync, Current, Kinds, ChildrenTypeOK
  <2> QED
    BY <1>6, <2>1, <2>2 DEF Sync, ObjectTypeOK, ReconcileTypeOK
<1>7. CASE Wake
  BY <1>7 DEF Wake, ObjectTypeOK, ChildrenTypeOK, ReconcileTypeOK
<1> QED
  BY <1>1, <1>2, <1>3, <1>4, <1>5, <1>6, <1>7 DEF Progress

(* What a plan decides: a phase, and builders that name claims, among them *)
(* a Deployment only for a claim whose Job the plan saw completed.         *)
LEMMA PlanDecides ==
  ASSUME TypeOK, Plan
  PROVE  \/ Retry /\ UNCHANGED cluster
         \/ /\ todo' \in Seq(BuilderType)
            /\ \A i \in DOMAIN todo' :
                 todo'[i].kind = "Deployment" => JobView[todo'[i].claim] = "Complete"
            /\ \E phase \in Phase :
                 /\ cluster' = IF phase = instance.phase THEN cluster
                               ELSE [cluster EXCEPT !.phase = phase]
                 /\ phase # instance.phase => ~Conflict
                 /\ queued' = (queued \/ phase # instance.phase)
                 /\ instance' = [instance EXCEPT !.phase = phase]
            /\ pc' = "build"
            /\ UNCHANGED <<stale, doomed>>
<1>1. PICK lost \in SUBSET Kinds : PlanWithout(lost)
  BY DEF Plan
<1> DEFINE pvcs    == IF "PersistentVolumeClaim" \in lost
                        THEN [c \in Claim |-> "Absent"] ELSE PvcView
           jobs    == IF "Job" \in lost THEN [c \in Claim |-> "Absent"] ELSE JobView
           deps    == IF "Deployment" \in lost THEN NoDeployments ELSE DepView
           isReady == IF "Deployment" \in lost THEN {} ELSE ReadyView
           active  == GetActiveMapGeneration(instance.spec.profiles, deps)
           future  == GetFutureMapGeneration(Existing(pvcs))
           phase   == DeterminePhase(instance.spec, instance.lastApplied, active,
                                     future, Bound(pvcs), Completed(jobs), isReady)
           builders == ResourceBuildersForPhase(phase, instance.spec.profiles,
                                                active, future)
<1>2. instance.spec \in ClusterSpec /\ instance.spec.profiles \in Seq(Profiles)
  BY DEF TypeOK, ReconcileTypeOK, ClusterSpec
<1>3. deps \in [Profiles -> 0 .. MaxGen]
  BY BoundsAssumption DEF TypeOK, ChildrenTypeOK, DepView, NoDeployments
<1>4. \A c \in Completed(jobs) : JobView[c] = "Complete"
  BY DEF Completed
<1>5. Completed(jobs) \in SUBSET Claim
  BY DEF Completed
<1> HIDE DEF pvcs, jobs, deps, isReady
<1>6. active \in Gen
  BY <1>2, <1>3, ActiveIsGeneration
<1>7. /\ phase \in Phase
      /\ phase \in WorkerPhases
           => \A p \in ProfileSet(instance.spec.profiles) :
                <<p, GenerationFor(phase, active, future)>> \in Completed(jobs)
  BY PhaseOfWorkers
<1> HIDE DEF active, future, phase
<1>8. ASSUME phase = UpdatingMap => GetNextMapGeneration(active) \in Gen
      PROVE  /\ builders \in Seq(BuilderType)
             /\ \A i \in DOMAIN builders :
                  builders[i].kind = "Deployment"
                    => JobView[builders[i].claim] = "Complete"
  BY <1>2, <1>4, <1>5, <1>6, <1>7, <1>8, BuildersOfPhase
<1>9. \/ Retry /\ UNCHANGED cluster
      \/ /\ phase # instance.phase => ~Conflict
         /\ phase = UpdatingMap => GetNextMapGeneration(active) \in Gen
         /\ cluster' = IF phase = instance.phase THEN cluster
                       ELSE [cluster EXCEPT !.phase = phase]
         /\ queued' = (queued \/ phase # instance.phase)
         /\ instance' = [instance EXCEPT !.phase = phase]
         /\ todo' = builders
         /\ pc' = "build"
         /\ UNCHANGED <<stale, doomed>>
  BY <1>1 DEF PlanWithout, pvcs, jobs, deps, isReady, active, future, phase
<1> HIDE DEF builders
<1> QED
  BY <1>7, <1>8, <1>9

LEMMA PlanTypeOK ==
  ASSUME TypeOK, Plan PROVE TypeOK'
<1> USE DEF TypeOK, children
<1>1. UNCHANGED <<children, seen, edits>> /\ faults' \in 0 .. MaxFaults
  BY BoundsAssumption DEF Plan, PlanWithout, Fault, ObjectTypeOK
<1>2. ChildrenTypeOK'
  BY <1>1 DEF ChildrenTypeOK
<1>3. CASE Retry /\ UNCHANGED cluster
  BY <1>1, <1>2, <1>3, RetryType DEF ObjectTypeOK
<1>4. CASE ~(Retry /\ UNCHANGED cluster)
  <2>1. PICK phase \in Phase :
          /\ cluster' = IF phase = instance.phase THEN cluster
                        ELSE [cluster EXCEPT !.phase = phase]
          /\ queued' = (queued \/ phase # instance.phase)
          /\ instance' = [instance EXCEPT !.phase = phase]
    BY <1>4, PlanDecides
  <2>2. todo' \in Seq(BuilderType) /\ pc' = "build" /\ UNCHANGED <<stale, doomed>>
    BY <1>4, PlanDecides
  <2>3. ObjectTypeOK'
    BY <1>1, <2>1 DEF ObjectTypeOK
  <2>4. ReconcileTypeOK'
    BY <2>1, <2>2 DEF ReconcileTypeOK, BuilderType
  <2> QED
    BY <1>2, <2>3, <2>4
<1> QED
  BY <1>3, <1>4

LEMMA NextTypeOK == TypeOK /\ [Next]_vars => TypeOK'
<1>1. ASSUME TypeOK, Next PROVE TypeOK'
  BY <1>1, ReconcilerTypeOK, PlanTypeOK, BuildTypeOK, GarbageCollectionTypeOK,
     UserTypeOK, EnvironmentTypeOK
  DEF Next, Reconcile, Failure
<1>2. ASSUME TypeOK, UNCHANGED vars PROVE TypeOK'
  BY <1>2 DEF vars, children, local, bounds, TypeOK, ObjectTypeOK,
     ChildrenTypeOK, ReconcileTypeOK
<1> QED
  BY <1>1, <1>2

(* Every variable keeps its type, for every behaviour of the controller,   *)
(* the user, Kubernetes and the failures.                                  *)
THEOREM TypeCorrect == Spec => []TypeOK
BY InitTypeOK, NextTypeOK, PTL DEF Spec

-----------------------------------------------------------------------------
(* Workers are never moved to a map that was not built.                    *)

(* The builders still to run are those of the last state, fewer, or none.  *)
TodoShrinks == \/ todo' \in {todo, << >>}
               \/ todo # << >> /\ todo' = Tail(todo)

LEMMA ShrunkTodo ==
  ASSUME TypeOK, BuiltBeforeDeployed, built \subseteq built', TodoShrinks
  PROVE  \A i \in DOMAIN todo' :
           todo'[i].kind = "Deployment" => todo'[i].claim \in built'
<1>1. todo \in Seq([kind : Kinds, claim : Claim])
  BY DEF TypeOK, ReconcileTypeOK
<1>2. \A i \in DOMAIN todo : todo[i].kind = "Deployment" => todo[i].claim \in built'
  BY DEF BuiltBeforeDeployed
<1>3. CASE todo' \in {todo, << >>}
  BY <1>2, <1>3
<1>4. CASE todo # << >> /\ todo' = Tail(todo)
  <2>1. \A i \in DOMAIN todo' : i + 1 \in DOMAIN todo /\ todo'[i] = todo[i + 1]
    BY <1>1, <1>4
  <2> QED
    BY <1>2, <2>1
<1> QED
  BY <1>3, <1>4 DEF TodoShrinks

(* What a step must do for the invariant to survive it.                    *)
LEMMA BuiltStaysBuilt ==
  ASSUME TypeOK, BuiltBeforeDeployed,
         built \subseteq built',
         \A c \in Claim : job'[c] = "Complete" => job[c] = "Complete" \/ c \in built',
         \A c \in Claim : seen'.job[c] = "Complete"
                            => seen.job[c] = "Complete" \/ job[c] = "Complete",
         \A i \in DOMAIN todo' :
           todo'[i].kind = "Deployment" => todo'[i].claim \in built',
         \A p \in Profiles :
           dep'[p] # 0 => dep'[p] = dep[p] \/ <<p, dep'[p]>> \in built'
  PROVE  BuiltBeforeDeployed'
BY DEF BuiltBeforeDeployed, DeployedMapWasBuilt

(* A step that leaves the Jobs, the Deployments and the caches alone.      *)
LEMMA QuietStep ==
  ASSUME TypeOK, BuiltBeforeDeployed, UNCHANGED <<job, seen, dep, built>>,
         TodoShrinks
  PROVE  BuiltBeforeDeployed'
BY ShrunkTodo, BuiltStaysBuilt

LEMMA ReconcilerKeepsBuilt ==
  ASSUME TypeOK, BuiltBeforeDeployed, Reconcile \/ Abandon
  PROVE  BuiltBeforeDeployed'
<1> USE DEF children, local, TodoShrinks
<1>1. CASE \/ Forget \/ Initialize \/ MarkDeleting \/ Finalize \/ Pause \/ Begin
           \/ Finish \/ Abandon \/ ListClaims \/ SetLastAppliedSpecAnnotation
  BY <1>1, QuietStep
  DEF Forget, Initialize, MarkDeleting, Finalize, Pause, Begin, Finish, Abandon,
      ListClaims, SetLastAppliedSpecAnnotation, Retry, Discard
<1>2. CASE Plan
  <2>1. UNCHANGED <<job, seen, dep, built>>
    BY <1>2 DEF Plan, PlanWithout
  <2>2. CASE Retry /\ UNCHANGED cluster
    BY <2>1, <2>2, QuietStep DEF Retry, Discard
  <2>3. CASE ~(Retry /\ UNCHANGED cluster)
    <3>1. /\ todo' \in Seq(BuilderType)
          /\ \A i \in DOMAIN todo' :
               todo'[i].kind = "Deployment" => JobView[todo'[i].claim] = "Complete"
      BY <1>2, <2>3, PlanDecides
    <3>2. \A c \in Claim : JobView[c] = "Complete" => c \in built
      BY DEF JobView, BuiltBeforeDeployed
    <3>3. \A i \in DOMAIN todo' : todo'[i] \in BuilderType
      BY <3>1
    <3>4. \A i \in DOMAIN todo' : todo'[i].claim \in Claim
      BY <3>3 DEF BuilderType
    <3> QED
      BY <2>1, <3>1, <3>2, <3>4, BuiltStaysBuilt
  <2> QED
    BY <2>2, <2>3
<1>3. ASSUME NEW c \in Claim, BuildPersistentVolumeClaim(c)
      PROVE  BuiltBeforeDeployed'
  BY <1>3, QuietStep
  DEF BuildPersistentVolumeClaim, Building, BuilderDone, Retry, Discard
<1>4. ASSUME NEW c \in Claim, BuildJob(c) PROVE BuiltBeforeDeployed'
  <2>1. UNCHANGED <<seen, dep, built>> /\ TodoShrinks
    BY <1>4 DEF BuildJob, Building, BuilderDone, Retry, Discard
  <2>2. \A d \in Claim : job'[d] = "Complete" => job[d] = "Complete"
    BY <1>4 DEF BuildJob, TypeOK, ChildrenTypeOK
  <2> QED
    BY <2>1, <2>2, ShrunkTodo, BuiltStaysBuilt
<1>5. ASSUME NEW c \in Claim, BuildDeployment(c) PROVE BuiltBeforeDeployed'
  <2>1. UNCHANGED <<job, seen, built>> /\ TodoShrinks
    BY <1>5 DEF BuildDeployment, Building, BuilderDone, Retry, Discard
  <2>2. Head(todo) = todo[1] /\ 1 \in DOMAIN todo
    BY <1>5 DEF BuildDeployment, Building, TypeOK, ReconcileTypeOK
  <2>3. c \in built
    BY <1>5, <2>2 DEF BuildDeployment, Building, BuiltBeforeDeployed
  <2>4. c = <<c[1], c[2]>>
    BY DEF Claim
  <2>5. \A p \in Profiles : dep'[p] = dep[p] \/ (p = c[1] /\ dep'[p] = c[2])
    BY <1>5 DEF BuildDeployment, TypeOK, ChildrenTypeOK
  <2>6. \A p \in Profiles : dep'[p] = dep[p] \/ <<p, dep'[p]>> \in built'
    BY <2>1, <2>3, <2>4, <2>5
  <2> QED
    BY <2>1, <2>6, ShrunkTodo, BuiltStaysBuilt
<1>6. ASSUME NEW p \in Profiles, DeleteDeployment(p) PROVE BuiltBeforeDeployed'
  <2>1. UNCHANGED <<job, seen, built>> /\ TodoShrinks
    BY <1>6 DEF DeleteDeployment
  <2>2. \A q \in Profiles : dep'[q] # 0 => dep'[q] = dep[q]
    BY <1>6 DEF DeleteDeployment, TypeOK, ChildrenTypeOK
  <2> QED
    BY <2>1, <2>2, ShrunkTodo, BuiltStaysBuilt
<1>7. ASSUME NEW c \in Claim, DeletePersistentVolumeClaim(c)
      PROVE  BuiltBeforeDeployed'
  BY <1>7, QuietStep DEF DeletePersistentVolumeClaim
<1>8. ASSUME NEW c \in Claim, DeleteJob(c) PROVE BuiltBeforeDeployed'
  <2>1. UNCHANGED <<seen, dep, built>> /\ TodoShrinks
    BY <1>8 DEF DeleteJob
  <2>2. \A d \in Claim : job'[d] = "Complete" => job[d] = "Complete"
    BY <1>8 DEF DeleteJob, TypeOK, ChildrenTypeOK
  <2> QED
    BY <2>1, <2>2, ShrunkTodo, BuiltStaysBuilt
<1> QED
  BY <1>1, <1>2, <1>3, <1>4, <1>5, <1>6, <1>7, <1>8
  DEF Reconcile, Build, GarbageCollection

LEMMA OthersKeepBuilt ==
  ASSUME TypeOK, BuiltBeforeDeployed,
         \/ User \/ Progress \/ Wake
         \/ \E c \in Claim : FailJob(c)
         \/ \E p \in Profiles : FailWorkers(p)
         \/ \E kind \in Kinds : Sync(kind)
  PROVE  BuiltBeforeDeployed'
<1> USE DEF children, local, TodoShrinks
<1>1. CASE EditSpec \/ PatientEdit \/ TogglePause \/ ReplaceAnnotations \/ Delete
  BY <1>1, QuietStep
  DEF EditSpec, PatientEdit, TogglePause, ReplaceAnnotations, Delete, UserWrites
<1>2. ASSUME NEW p \in Profiles, RemoveDeployment(p) PROVE BuiltBeforeDeployed'
  <2>1. UNCHANGED <<job, seen, built>> /\ TodoShrinks
    BY <1>2 DEF RemoveDeployment, Tamper
  <2>2. \A q \in Profiles : dep'[q] # 0 => dep'[q] = dep[q]
    BY <1>2 DEF RemoveDeployment, TypeOK, ChildrenTypeOK
  <2> QED
    BY <2>1, <2>2, ShrunkTodo, BuiltStaysBuilt
<1>3. ASSUME NEW c \in Claim, RemovePersistentVolumeClaim(c)
      PROVE  BuiltBeforeDeployed'
  BY <1>3, QuietStep DEF RemovePersistentVolumeClaim, Tamper
<1>4. ASSUME NEW c \in Claim, RemoveJob(c) \/ FailJob(c) \/ CompleteJob(c)
      PROVE  BuiltBeforeDeployed'
  <2>1. UNCHANGED <<seen, dep>> /\ built \subseteq built' /\ TodoShrinks
    BY <1>4 DEF RemoveJob, FailJob, CompleteJob, Tamper
  <2>2. \A d \in Claim : job'[d] = "Complete" => job[d] = "Complete" \/ d \in built'
    BY <1>4 DEF RemoveJob, FailJob, CompleteJob, TypeOK, ChildrenTypeOK
  <2> QED
    BY <2>1, <2>2, ShrunkTodo, BuiltStaysBuilt
<1>5. ASSUME NEW c \in Claim, BindVolume(c) PROVE BuiltBeforeDeployed'
  BY <1>5, QuietStep DEF BindVolume
<1>6. ASSUME NEW p \in Profiles, StartWorkers(p) \/ FailWorkers(p)
      PROVE  BuiltBeforeDeployed'
  BY <1>6, QuietStep DEF StartWorkers, FailWorkers
<1>7. ASSUME NEW kind \in Kinds, Sync(kind) PROVE BuiltBeforeDeployed'
  <2>1. UNCHANGED <<job, dep, built>> /\ TodoShrinks
    BY <1>7 DEF Sync
  <2>2. seen'.job \in {seen.job, job}
    BY <1>7 DEF Sync, Current, Kinds, TypeOK, ChildrenTypeOK
  <2> QED
    BY <2>1, <2>2, ShrunkTodo, BuiltStaysBuilt
<1>8. CASE Wake
  BY <1>8, QuietStep DEF Wake
<1> QED
  BY <1>1, <1>2, <1>3, <1>4, <1>5, <1>6, <1>7, <1>8 DEF User, Progress

LEMMA InitBuilt == Init => BuiltBeforeDeployed
BY DEF Init, BuiltBeforeDeployed, DeployedMapWasBuilt

LEMMA NextBuilt == TypeOK /\ BuiltBeforeDeployed /\ [Next]_vars => BuiltBeforeDeployed'
<1>1. ASSUME TypeOK, BuiltBeforeDeployed, Next PROVE BuiltBeforeDeployed'
  BY <1>1, ReconcilerKeepsBuilt, OthersKeepBuilt DEF Next, Failure
<1>2. ASSUME TypeOK, BuiltBeforeDeployed, UNCHANGED vars PROVE BuiltBeforeDeployed'
  BY <1>2, QuietStep DEF vars, children, local, TodoShrinks
<1> QED
  BY <1>1, <1>2

(* Whatever the user, the caches and the failures do: a completed Job that *)
(* the operator can see built its map, and so did that of every Deployment *)
(* it has written or is about to write.                                    *)
THEOREM BuiltInvariant == Spec => []BuiltBeforeDeployed
BY InitBuilt, NextBuilt, InitTypeOK, NextTypeOK, PTL DEF Spec

(* Workers are never moved to a map that was not built.                    *)
THEOREM BlueGreenSafety == Spec => []DeployedMapWasBuilt
<1>1. BuiltBeforeDeployed => DeployedMapWasBuilt
  BY DEF BuiltBeforeDeployed
<1> QED
  BY <1>1, BuiltInvariant, PTL

-----------------------------------------------------------------------------
(* The last applied spec is recorded for the spec it was applied from.     *)

(* A step after which the copy is as current as before, if it survives.    *)
LEMMA CopyKept ==
  ASSUME CopyIsCurrent,
         \/ pc' \in {"idle", "finalize"}
         \/ stale'
         \/ /\ pc \notin {"idle", "finalize"}
            /\ stale' = stale
            /\ instance'.spec = instance.spec
            /\ cluster'.spec = cluster.spec
  PROVE  CopyIsCurrent'
BY DEF CopyIsCurrent

LEMMA NextCopyIsCurrent ==
  TypeOK /\ CopyIsCurrent /\ [Next]_vars => CopyIsCurrent'
<1> SUFFICES ASSUME TypeOK, CopyIsCurrent, [Next]_vars PROVE CopyIsCurrent'
  OBVIOUS
<1> USE DEF children, local
<1>1. CASE Begin
  BY <1>1 DEF Begin, CopyIsCurrent
<1>2. CASE Forget \/ Initialize \/ MarkDeleting \/ Finalize \/ Pause \/ Finish \/ Abandon
  BY <1>2, CopyKept
  DEF Forget, Initialize, MarkDeleting, Finalize, Pause, Finish, Abandon, Dequeue,
      Retry, Discard
<1>3. CASE Plan
  <2>1. pc = "plan"
    BY <1>3 DEF Plan, PlanWithout
  <2>2. CASE Retry /\ UNCHANGED cluster
    BY <2>2, CopyKept DEF Retry, Discard
  <2>3. CASE ~(Retry /\ UNCHANGED cluster)
    <3>1. PICK phase \in Phase :
            /\ cluster' = IF phase = instance.phase THEN cluster
                          ELSE [cluster EXCEPT !.phase = phase]
            /\ instance' = [instance EXCEPT !.phase = phase]
            /\ stale' = stale
      BY <1>3, <2>3, PlanDecides
    <3>2. cluster'.spec = cluster.spec /\ instance'.spec = instance.spec
      BY <3>1 DEF TypeOK, ObjectTypeOK, ReconcileTypeOK
    <3> QED
      BY <2>1, <3>1, <3>2, CopyKept
  <2> QED
    BY <2>2, <2>3
<1>4. CASE Build
  BY <1>4, CopyKept
  DEF Build, BuildPersistentVolumeClaim, BuildJob, BuildDeployment,
      SetLastAppliedSpecAnnotation, Building, BuilderDone, Retry, Discard, TypeOK,
      ObjectTypeOK
<1>5. CASE GarbageCollection
  BY <1>5, CopyKept
  DEF GarbageCollection, DeleteDeployment, ListClaims, DeletePersistentVolumeClaim,
      DeleteJob
<1>6. ASSUME NEW op, UserWrites(op) PROVE CopyIsCurrent'
  <2>1. CASE pc = "idle"
    BY <1>6, <2>1, CopyKept DEF UserWrites
  <2>2. CASE pc # "idle"
    BY <1>6, <2>2, CopyKept DEF UserWrites
  <2> QED
    BY <2>1, <2>2
<1>7. CASE UNCHANGED <<cluster, pc, instance, stale>>
  BY <1>7 DEF CopyIsCurrent
<1>8. CASE User
  BY <1>6, <1>7, <1>8
  DEF User, EditSpec, PatientEdit, TogglePause, ReplaceAnnotations, Delete,
      RemoveDeployment, RemovePersistentVolumeClaim, RemoveJob, Tamper
<1>9. CASE \/ Progress \/ Wake \/ UNCHANGED vars
           \/ \E c \in Claim : FailJob(c)
           \/ \E p \in Profiles : FailWorkers(p)
           \/ \E kind \in Kinds : Sync(kind)
  BY <1>7, <1>9
  DEF Progress, BindVolume, CompleteJob, StartWorkers, Wake, FailJob, FailWorkers,
      Sync, vars
<1> QED
  BY <1>1, <1>2, <1>3, <1>4, <1>5, <1>8, <1>9 DEF Next, Reconcile, Failure

RecordsCurrentSpec ==
  cluster'.lastApplied # cluster.lastApplied
    => cluster'.lastApplied \in {cluster.spec.url, NoUrl}

LEMMA NextRecordsCurrentSpec ==
  TypeOK /\ CopyIsCurrent /\ [Next]_vars => [RecordsCurrentSpec]_vars
<1> SUFFICES ASSUME TypeOK, CopyIsCurrent, Next PROVE RecordsCurrentSpec
  OBVIOUS
<1> USE DEF children, local
<1>1. CASE cluster'.lastApplied = cluster.lastApplied
  BY <1>1 DEF RecordsCurrentSpec
<1>2. CASE SetLastAppliedSpecAnnotation
  BY <1>2
  DEF SetLastAppliedSpecAnnotation, Conflict, CopyIsCurrent, RecordsCurrentSpec,
      TypeOK, ObjectTypeOK
<1>3. CASE ReplaceAnnotations
  BY <1>3 DEF ReplaceAnnotations, RecordsCurrentSpec, TypeOK, ObjectTypeOK
<1>4. CASE \/ Forget \/ Initialize \/ MarkDeleting \/ Finalize \/ Pause \/ Begin
           \/ Finish \/ Abandon \/ GarbageCollection
  BY <1>1, <1>4
  DEF Forget, Initialize, MarkDeleting, Finalize, Pause, Begin, Finish, Abandon,
      GarbageCollection, DeleteDeployment, ListClaims, DeletePersistentVolumeClaim,
      DeleteJob, TypeOK, ObjectTypeOK
<1>5. CASE Plan
  <2>1. \/ UNCHANGED cluster
        \/ \E phase \in Phase : cluster' = [cluster EXCEPT !.phase = phase]
    BY <1>5, PlanDecides
  <2> QED
    BY <1>1, <2>1 DEF TypeOK, ObjectTypeOK
<1>6. CASE Build /\ ~SetLastAppliedSpecAnnotation
  BY <1>1, <1>6
  DEF Build, BuildPersistentVolumeClaim, BuildJob, BuildDeployment
<1>7. CASE User /\ ~ReplaceAnnotations
  BY <1>1, <1>7
  DEF User, EditSpec, PatientEdit, TogglePause, Delete, RemoveDeployment,
      RemovePersistentVolumeClaim, RemoveJob, Tamper, TypeOK, ObjectTypeOK
<1>8. CASE \/ Progress \/ Wake
           \/ \E c \in Claim : FailJob(c)
           \/ \E p \in Profiles : FailWorkers(p)
           \/ \E kind \in Kinds : Sync(kind)
  BY <1>1, <1>8
  DEF Progress, BindVolume, CompleteJob, StartWorkers, Wake, FailJob, FailWorkers,
      Sync
<1> QED
  BY <1>2, <1>3, <1>4, <1>5, <1>6, <1>7, <1>8 DEF Next, Reconcile, Failure

(* The last applied spec only becomes the object's current spec, although  *)
(* edits may fall between reading the spec and recording it.               *)
THEOREM LastAppliedTheorem == Spec => LastAppliedIsCurrent
<1>1. Init => CopyIsCurrent
  BY DEF Init, CopyIsCurrent
<1> QED
  BY <1>1, InitTypeOK, NextTypeOK, NextCopyIsCurrent, NextRecordsCurrentSpec, PTL
  DEF Spec, LastAppliedIsCurrent, RecordsCurrentSpec

-----------------------------------------------------------------------------
(* The controller implements the blue-green switch of maps.                *)

(* A Job under way has an extract to build a map from.                     *)
JobsHaveSource == \A c \in Claim : job[c] = "Active" => source[c] \in URLs

LEMMA NextJobsHaveSource ==
  TypeOK /\ JobsHaveSource /\ [Next]_vars => JobsHaveSource'
<1> SUFFICES ASSUME TypeOK, JobsHaveSource, [Next]_vars PROVE JobsHaveSource'
  OBVIOUS
<1> USE DEF children, local
<1>1. CASE UNCHANGED <<job, source>>
  BY <1>1 DEF JobsHaveSource
<1>2. ASSUME NEW c \in Claim, BuildJob(c) PROVE JobsHaveSource'
  BY <1>2 DEF BuildJob, JobsHaveSource, TypeOK, ChildrenTypeOK, ReconcileTypeOK,
              ClusterSpec
<1>3. ASSUME NEW c \in Claim,
             DeleteJob(c) \/ RemoveJob(c) \/ FailJob(c) \/ CompleteJob(c)
      PROVE  JobsHaveSource'
  BY <1>3 DEF DeleteJob, RemoveJob, FailJob, CompleteJob, JobsHaveSource, TypeOK,
              ChildrenTypeOK
<1>4. CASE \/ Forget \/ Initialize \/ MarkDeleting \/ Finalize \/ Pause \/ Begin
           \/ Plan \/ SetLastAppliedSpecAnnotation \/ ListClaims \/ Finish
           \/ Abandon \/ Wake \/ UNCHANGED vars
           \/ \E kind \in Kinds : Sync(kind)
  BY <1>1, <1>4
  DEF Forget, Initialize, MarkDeleting, Finalize, Pause, Begin, Plan, PlanWithout,
      SetLastAppliedSpecAnnotation, ListClaims, Finish, Abandon, Wake, Sync, vars
<1>5. CASE \/ \E c \in Claim : \/ BuildPersistentVolumeClaim(c)
                               \/ BuildDeployment(c)
                               \/ DeletePersistentVolumeClaim(c)
                               \/ RemovePersistentVolumeClaim(c)
                               \/ BindVolume(c)
           \/ \E p \in Profiles : \/ DeleteDeployment(p) \/ RemoveDeployment(p)
                                  \/ StartWorkers(p) \/ FailWorkers(p)
  BY <1>1, <1>5
  DEF BuildPersistentVolumeClaim, BuildDeployment, DeletePersistentVolumeClaim,
      RemovePersistentVolumeClaim, BindVolume, DeleteDeployment, RemoveDeployment,
      StartWorkers, FailWorkers
<1>6. CASE EditSpec \/ PatientEdit \/ TogglePause \/ ReplaceAnnotations \/ Delete
  BY <1>1, <1>6
  DEF EditSpec, PatientEdit, TogglePause, ReplaceAnnotations, Delete, UserWrites
<1> QED
  BY <1>2, <1>3, <1>4, <1>5, <1>6
  DEF Next, Reconcile, Build, GarbageCollection, User, Progress, Failure

LEMMA MapsStutter ==
  ASSUME UNCHANGED <<volume, dep, built>> PROVE UNCHANGED Maps!vars
BY DEF Maps!vars

(* A built map is stored.                                                  *)
LEMMA CompletedJobStoresMap ==
  ASSUME TypeOK, JobsHaveSource, NEW c \in Claim, CompleteJob(c)
  PROVE  Maps!Build(c[1], c[2])
<1>1. c = <<c[1], c[2]>>
  BY DEF Claim
<1>2. volume' = [volume EXCEPT ![c] = source[c]] /\ source[c] # NoUrl
  BY UrlAssumption DEF CompleteJob, JobsHaveSource
<1>3. {d \in Claim : volume'[d] # NoUrl} = {d \in Claim : volume[d] # NoUrl} \cup {c}
  BY <1>2 DEF TypeOK, ChildrenTypeOK
<1> QED
  BY <1>1, <1>3 DEF CompleteJob, Maps!Build

LEMMA DeletedVolumeDiscardsMap ==
  ASSUME TypeOK, NEW c \in Claim,
         DeletePersistentVolumeClaim(c) \/ RemovePersistentVolumeClaim(c)
  PROVE  Maps!Discard(c[1], c[2])
<1>1. c = <<c[1], c[2]>>
  BY DEF Claim
<1>2. volume' = [volume EXCEPT ![c] = NoUrl] /\ UNCHANGED <<dep, built>>
  BY DEF DeletePersistentVolumeClaim, RemovePersistentVolumeClaim, Tamper
<1>3. {d \in Claim : volume'[d] # NoUrl} = {d \in Claim : volume[d] # NoUrl} \ {c}
  BY <1>2 DEF TypeOK, ChildrenTypeOK
<1> QED
  BY <1>1, <1>2, <1>3 DEF Maps!Discard

(* The Deployment of a claim is written after its map was built.           *)
LEMMA DeploymentSwitchesMap ==
  ASSUME TypeOK, BuiltBeforeDeployed, NEW c \in Claim, BuildDeployment(c)
  PROVE  Maps!Switch(c[1], c[2]) \/ UNCHANGED Maps!vars
<1>1. CASE UNCHANGED dep
  BY <1>1, MapsStutter DEF BuildDeployment
<1>2. CASE dep' # dep
  <2>1. c \in built
    <3>1. Head(todo) = todo[1] /\ 1 \in DOMAIN todo
      BY DEF BuildDeployment, Building, TypeOK, ReconcileTypeOK
    <3> QED
      BY <3>1 DEF BuildDeployment, Building, BuiltBeforeDeployed
  <2>2. c = <<c[1], c[2]>>
    BY DEF Claim
  <2> QED
    BY <1>2, <2>1, <2>2 DEF BuildDeployment, Maps!Switch
<1> QED
  BY <1>1, <1>2

LEMMA NextSwitchesMaps ==
  TypeOK /\ BuiltBeforeDeployed /\ JobsHaveSource /\ [Next]_vars
    => [Maps!Next]_(Maps!vars)
<1> SUFFICES ASSUME TypeOK, BuiltBeforeDeployed, JobsHaveSource, [Next]_vars
             PROVE  [Maps!Next]_(Maps!vars)
  OBVIOUS
<1> USE DEF children, local
<1>0. ASSUME NEW c \in Claim PROVE c[1] \in Profiles /\ c[2] \in Gen
  BY DEF Claim
<1>1. ASSUME NEW c \in Claim, CompleteJob(c) PROVE Maps!Next
  BY <1>0, <1>1, CompletedJobStoresMap DEF Maps!Next
<1>2. ASSUME NEW c \in Claim,
             DeletePersistentVolumeClaim(c) \/ RemovePersistentVolumeClaim(c)
      PROVE  Maps!Next
  BY <1>0, <1>2, DeletedVolumeDiscardsMap DEF Maps!Next
<1>3. ASSUME NEW c \in Claim, BuildDeployment(c) PROVE [Maps!Next]_(Maps!vars)
  BY <1>0, <1>3, DeploymentSwitchesMap DEF Maps!Next
<1>4. ASSUME NEW p \in Profiles, DeleteDeployment(p) \/ RemoveDeployment(p)
      PROVE  Maps!Next
  <2>1. Maps!Retire(p)
    BY <1>4 DEF DeleteDeployment, RemoveDeployment, Tamper, Maps!Retire
  <2> QED
    BY <2>1 DEF Maps!Next
<1>5. CASE \/ Forget \/ Initialize \/ MarkDeleting \/ Finalize \/ Pause \/ Begin
           \/ Plan \/ SetLastAppliedSpecAnnotation \/ ListClaims \/ Finish
           \/ Abandon \/ Wake \/ UNCHANGED vars
           \/ \E kind \in Kinds : Sync(kind)
  BY <1>5, MapsStutter
  DEF Forget, Initialize, MarkDeleting, Finalize, Pause, Begin, Plan, PlanWithout,
      SetLastAppliedSpecAnnotation, ListClaims, Finish, Abandon, Wake, Sync, vars
<1>6. CASE \/ \E c \in Claim : \/ BuildPersistentVolumeClaim(c) \/ BuildJob(c)
                               \/ DeleteJob(c) \/ RemoveJob(c) \/ FailJob(c)
                               \/ BindVolume(c)
           \/ \E p \in Profiles : StartWorkers(p) \/ FailWorkers(p)
  BY <1>6, MapsStutter
  DEF BuildPersistentVolumeClaim, BuildJob, DeleteJob, RemoveJob, FailJob,
      BindVolume, StartWorkers, FailWorkers, Tamper
<1>7. CASE EditSpec \/ PatientEdit \/ TogglePause \/ ReplaceAnnotations \/ Delete
  BY <1>7, MapsStutter
  DEF EditSpec, PatientEdit, TogglePause, ReplaceAnnotations, Delete, UserWrites
<1> QED
  BY <1>1, <1>2, <1>3, <1>4, <1>5, <1>6, <1>7
  DEF Next, Reconcile, Build, GarbageCollection, User, Progress, Failure

LEMMA InitSwitchesMaps == Init => Maps!Init /\ JobsHaveSource
BY DEF Init, Maps!Init, JobsHaveSource

(* Every behaviour of the controller, with whatever failures and caches,   *)
(* is a behaviour of the blue-green switch of maps.                        *)
THEOREM ImplementsBlueGreen == Spec => SwitchesMaps
BY InitTypeOK, NextTypeOK, InitBuilt, NextBuilt, InitSwitchesMaps,
   NextJobsHaveSource, NextSwitchesMaps, PTL
DEF Spec, SwitchesMaps, Maps!Spec

-----------------------------------------------------------------------------
(***************************************************************************)
(* What holds of an OSRMCluster at rest: no wake-up was missed, and        *)
(* nothing is left behind.  For every set of profiles, extracts and specs, *)
(* every choice of user operations and lagging caches, and every failure   *)
(* but one: a list that fails and is taken for an empty one.               *)
(***************************************************************************)

(* Lists do not fail.                                                      *)
ListsSucceed == "list" \notin Failures

(* What the controller reads of the children.                              *)
views == <<PvcView, JobView, DepView, ReadyView>>

(* The phase and the claims a reconciliation that began now would come to. *)
ActiveSeen == GetActiveMapGeneration(cluster.spec.profiles, DepView)
FutureSeen == GetFutureMapGeneration(Existing(PvcView))

PhaseNow ==
  DeterminePhase(cluster.spec, cluster.lastApplied, ActiveSeen, FutureSeen,
                 Bound(PvcView), Completed(JobView), ReadyView)

ExpectedNow ==
  ExpectedClaims(cluster.spec.profiles, cluster.phase, ActiveSeen, FutureSeen)

(* What the controller sees and has no use for is gone, or it is on the    *)
(* list of what garbage collection has yet to delete.                      *)
DeploymentsCollected(left) ==
  \A p \in Profiles :
    DepView[p] # 0 /\ p \notin ProfileSet(cluster.spec.profiles)
      => dep[p] = 0 \/ p \in left

VolumesCollected(left) ==
  \A c \in Claim :
    PvcView[c] # "Absent" /\ c \notin ExpectedNow
      => pvc[c] = "Absent" \/ c \in left

JobsCollected(left) ==
  \A c \in Claim :
    JobView[c] # "Absent" /\ c \notin ExpectedNow
      => job[c] = "Absent" \/ c \in left

InstanceIsCopy ==
  instance = [spec |-> cluster.spec, lastApplied |-> cluster.lastApplied,
              phase |-> cluster.phase]

(* Unless a reconciliation is queued, the one that runs works on the       *)
(* object and the children as they are now, and when none runs the last    *)
(* one came to the end with them as they are now.                          *)
NothingMissed ==
  ~queued =>
    /\ pc # "finalize"
    /\ pc # "idle" => InstanceIsCopy
    /\ pc \in {"build", "gcDeployments", "gcClaims"} => cluster.phase = PhaseNow
    /\ pc = "gcDeployments" => DeploymentsCollected(doomed.dep)
    /\ pc = "gcClaims" => /\ DeploymentsCollected({})
                          /\ VolumesCollected(doomed.pvc)
                          /\ JobsCollected(doomed.job)
    /\ pc = "idle" /\ Running /\ ~cluster.paused =>
         /\ cluster.phase = PhaseNow
         /\ DeploymentsCollected({}) /\ VolumesCollected({}) /\ JobsCollected({})

(* A Deployment that reports replicas exists.                              *)
ReadyExists == \A p \in ready : dep[p] # 0

-----------------------------------------------------------------------------
(* Every change of what the controller reads queues the key.               *)

(* An event of a kind either queues the key or is not in the cache yet.    *)
LEMMA NotifyWakes ==
  ASSUME NEW kind \in Kinds, Notify(kind), ~queued'
  PROVE  kind \in Lagging
BY DEF Notify, Watched, Kinds

(* Events of the object itself are not held back.                          *)
LEMMA WritesWake ==
  ASSUME NEW op, UserWrites(op)
  PROVE  queued'
<1>1. "OSRMCluster" \in Watched \ Lagging
  BY LaggingAssumption DEF Watched
<1> QED
  BY <1>1 DEF UserWrites, Notify

LEMMA ChildrenUnseen ==
  ASSUME UNCHANGED seen,
         UNCHANGED pvc \/ "PersistentVolumeClaim" \in Lagging,
         UNCHANGED job \/ "Job" \in Lagging,
         UNCHANGED <<dep, ready>> \/ "Deployment" \in Lagging
  PROVE  UNCHANGED views
BY DEF views, PvcView, JobView, DepView, ReadyView

LEMMA BuildWakes ==
  ASSUME TypeOK, Build, ~queued'
  PROVE  UNCHANGED <<cluster, views>> /\ ~Retry
<1> USE DEF children, Kinds
<1>1. ASSUME NEW c \in Claim, BuildPersistentVolumeClaim(c)
      PROVE  UNCHANGED <<cluster, views>>
  BY <1>1, NotifyWakes, ChildrenUnseen DEF BuildPersistentVolumeClaim, Retry
<1>2. ASSUME NEW c \in Claim, BuildJob(c)
      PROVE  UNCHANGED <<cluster, views>>
  BY <1>2, NotifyWakes, ChildrenUnseen DEF BuildJob, Retry
<1>3. ASSUME NEW c \in Claim, BuildDeployment(c)
      PROVE  UNCHANGED <<cluster, views>>
  <2>1. CASE dep[c[1]] # c[2]
    BY <1>3, <2>1, NotifyWakes, ChildrenUnseen DEF BuildDeployment, Retry
  <2>2. CASE dep[c[1]] = c[2]
    BY <1>3, <2>2, ChildrenUnseen
    DEF BuildDeployment, Retry, TypeOK, ChildrenTypeOK
  <2> QED
    BY <2>1, <2>2
<1>4. CASE SetLastAppliedSpecAnnotation
  BY <1>4, ChildrenUnseen DEF SetLastAppliedSpecAnnotation, Retry
<1> QED
  BY <1>1, <1>2, <1>3, <1>4 DEF Build, Retry

LEMMA CollectionWakes ==
  ASSUME GarbageCollection, ~queued'
  PROVE  UNCHANGED <<cluster, views>>
BY NotifyWakes, ChildrenUnseen
DEF children, Kinds, GarbageCollection, DeleteDeployment, ListClaims,
    DeletePersistentVolumeClaim, DeleteJob

LEMMA EnvironmentWakes ==
  ASSUME ~queued',
         \/ Progress
         \/ \E c \in Claim : FailJob(c) \/ RemovePersistentVolumeClaim(c) \/ RemoveJob(c)
         \/ \E p \in Profiles : FailWorkers(p) \/ RemoveDeployment(p)
  PROVE  UNCHANGED <<cluster, views>>
BY NotifyWakes, ChildrenUnseen
DEF children, Kinds, Progress, BindVolume, CompleteJob, StartWorkers, FailJob,
    FailWorkers, RemovePersistentVolumeClaim, RemoveJob, RemoveDeployment, Tamper

(* A step that leaves the queue empty has left the object and what the     *)
(* controller sees of the children as they were: nothing happens unseen,   *)
(* in the cluster or by the controller's own hand.                         *)
ChangesWake == ~queued' => UNCHANGED <<cluster, views>>

LEMMA NextWakes == TypeOK /\ [Next]_vars => ChangesWake
<1> SUFFICES ASSUME TypeOK, [Next]_vars, ~queued'
             PROVE  UNCHANGED <<cluster, views>>
  BY DEF ChangesWake
<1> USE DEF children
<1>1. CASE Forget \/ Initialize \/ MarkDeleting \/ Finalize \/ Pause \/ Begin
  <2>1. cluster' = cluster
    BY <1>1
    DEF Forget, Initialize, MarkDeleting, Finalize, Retry, Pause, Begin, Dequeue,
        TypeOK, ObjectTypeOK
  <2>2. UNCHANGED <<seen, children>>
    BY <1>1 DEF Forget, Initialize, MarkDeleting, Finalize, Pause, Begin
  <2> QED
    BY <2>1, <2>2, ChildrenUnseen
<1>2. CASE Finish \/ Abandon \/ Wake \/ UNCHANGED vars
  BY <1>2, ChildrenUnseen DEF Finish, Abandon, Retry, Wake, vars
<1>3. CASE Plan
  <2>1. UNCHANGED <<seen, children>>
    BY <1>3 DEF Plan, PlanWithout
  <2>2. ~Retry
    BY DEF Retry
  <2>3. cluster' = cluster
    BY <1>3, <2>2, PlanDecides
  <2> QED
    BY <2>1, <2>3, ChildrenUnseen
<1>4. CASE \E kind \in Kinds : Sync(kind)
  BY <1>4 DEF Sync, Watched
<1>5. CASE EditSpec \/ PatientEdit \/ TogglePause \/ ReplaceAnnotations \/ Delete
  BY <1>5, WritesWake
  DEF EditSpec, PatientEdit, TogglePause, ReplaceAnnotations, Delete
<1> QED
  BY <1>1, <1>2, <1>3, <1>4, <1>5, BuildWakes, CollectionWakes, EnvironmentWakes
  DEF Next, Reconcile, User, Failure

LEMMA NowUnchanged ==
  ASSUME UNCHANGED <<cluster, views>>
  PROVE  PhaseNow' = PhaseNow /\ ExpectedNow' = ExpectedNow
BY DEF views, PhaseNow, ExpectedNow, ActiveSeen, FutureSeen, Existing, Bound,
       Completed

-----------------------------------------------------------------------------
(* The invariant.                                                          *)

(* Objects that are gone stay gone.                                        *)
NothingReturns ==
  /\ \A p \in Profiles : dep[p] = 0 => dep'[p] = 0
  /\ \A c \in Claim : pvc[c] = "Absent" => pvc'[c] = "Absent"
  /\ \A c \in Claim : job[c] = "Absent" => job'[c] = "Absent"

(* A step of others, unseen by a reconciliation that goes on.              *)
LEMMA UnseenStep ==
  ASSUME TypeOK, NothingMissed, ~queued, UNCHANGED <<cluster, views, pc, local>>,
         NothingReturns
  PROVE  NothingMissed'
<1>1. PhaseNow' = PhaseNow /\ ExpectedNow' = ExpectedNow
  BY NowUnchanged
<1> USE DEF local, views, NothingReturns
<1>2. /\ DeploymentsCollected({}) => DeploymentsCollected({})'
      /\ DeploymentsCollected(doomed.dep) => DeploymentsCollected(doomed.dep)'
  BY DEF DeploymentsCollected
<1>3. /\ VolumesCollected({}) => VolumesCollected({})'
      /\ VolumesCollected(doomed.pvc) => VolumesCollected(doomed.pvc)'
  BY <1>1 DEF VolumesCollected
<1>4. /\ JobsCollected({}) => JobsCollected({})'
      /\ JobsCollected(doomed.job) => JobsCollected(doomed.job)'
  BY <1>1 DEF JobsCollected
<1> HIDE DEF views, NothingReturns
<1> QED
  BY <1>1, <1>2, <1>3, <1>4
  DEF NothingMissed, InstanceIsCopy, Running, BeingDeleted

LEMMA EnvironmentUnseen ==
  ASSUME TypeOK, NothingMissed, ~queued', UNCHANGED <<cluster, views>>,
         \/ Progress
         \/ \E c \in Claim : FailJob(c) \/ RemovePersistentVolumeClaim(c) \/ RemoveJob(c)
         \/ \E p \in Profiles : FailWorkers(p) \/ RemoveDeployment(p)
  PROVE  NothingMissed'
<1> USE DEF local
<1>1. ~queued /\ UNCHANGED <<pc, local>>
  BY DEF Progress, BindVolume, CompleteJob, StartWorkers, FailJob, FailWorkers,
         RemovePersistentVolumeClaim, RemoveJob, RemoveDeployment, Tamper, Notify
<1>2. NothingReturns
  BY DEF Progress, BindVolume, CompleteJob, StartWorkers, FailJob, FailWorkers,
         RemovePersistentVolumeClaim, RemoveJob, RemoveDeployment, NothingReturns,
         TypeOK, ChildrenTypeOK
<1> QED
  BY <1>1, <1>2, UnseenStep

(* The plan records the phase of what it sees.                             *)
LEMMA PlanUnseen ==
  ASSUME TypeOK, ListsSucceed, NothingMissed, ~queued', UNCHANGED <<cluster, views>>,
         Plan
  PROVE  NothingMissed'
<1>1. PICK lost \in SUBSET Kinds : PlanWithout(lost)
  BY DEF Plan
<1>2. lost = {}
  BY <1>1 DEF PlanWithout, Fault, ListsSucceed
<1>3. pc = "plan" /\ pc' = "build"
  BY <1>1 DEF PlanWithout, Retry
<1>4. ~queued /\ UNCHANGED instance /\ InstanceIsCopy
  <2>1. ~queued
    BY <1>1 DEF PlanWithout, Retry
  <2>2. InstanceIsCopy
    BY <1>3, <2>1 DEF NothingMissed
  <2>3. ~Retry
    BY DEF Retry
  <2>4. PICK phase \in Phase : /\ queued' = (queued \/ phase # instance.phase)
                               /\ instance' = [instance EXCEPT !.phase = phase]
    BY <2>3, PlanDecides
  <2>5. UNCHANGED instance
    BY <2>1, <2>4 DEF TypeOK, ReconcileTypeOK
  <2> QED
    BY <2>1, <2>2, <2>5
<1>5. cluster.phase = PhaseNow
  BY <1>1, <1>2, <1>4
  DEF PlanWithout, Retry, PhaseNow, ActiveSeen, FutureSeen, InstanceIsCopy
<1>6. PhaseNow' = PhaseNow
  BY NowUnchanged
<1> QED
  BY <1>3, <1>4, <1>5, <1>6 DEF NothingMissed, InstanceIsCopy

LEMMA BuildUnseen ==
  ASSUME TypeOK, NothingMissed, ~queued', UNCHANGED <<cluster, views>>, Build
  PROVE  NothingMissed'
<1>1. PhaseNow' = PhaseNow
  BY NowUnchanged
<1>2. CASE \E c \in Claim : \/ BuildPersistentVolumeClaim(c) \/ BuildJob(c)
                            \/ BuildDeployment(c)
  <2>1. ~queued /\ pc = "build" /\ UNCHANGED <<pc, instance>>
    BY <1>2
    DEF BuildPersistentVolumeClaim, BuildJob, BuildDeployment, Building,
        BuilderDone, Retry, Notify
  <2> QED
    BY <1>1, <2>1 DEF NothingMissed, InstanceIsCopy
<1>3. CASE SetLastAppliedSpecAnnotation
  <2>1. /\ ~queued /\ pc = "build" /\ pc' = "gcDeployments"
        /\ UNCHANGED <<instance, dep>>
        /\ doomed'.dep = {p \in Profiles : DepView[p] # 0}
                           \ ProfileSet(instance.spec.profiles)
    BY <1>3
    DEF SetLastAppliedSpecAnnotation, Retry, children, TypeOK, ReconcileTypeOK,
        NothingDoomed
  <2>2. InstanceIsCopy /\ cluster.phase = PhaseNow
    BY <2>1 DEF NothingMissed
  <2>3. DeploymentsCollected(doomed.dep)'
    BY <2>1, <2>2 DEF DeploymentsCollected, InstanceIsCopy, views
  <2> QED
    BY <1>1, <2>1, <2>2, <2>3 DEF NothingMissed, InstanceIsCopy
<1> QED
  BY <1>2, <1>3 DEF Build

LEMMA CollectionUnseen ==
  ASSUME TypeOK, NothingMissed, ~queued', UNCHANGED <<cluster, views>>,
         GarbageCollection
  PROVE  NothingMissed'
<1> USE DEF children
<1>1. PhaseNow' = PhaseNow /\ ExpectedNow' = ExpectedNow
  BY NowUnchanged
<1>2. ~queued /\ UNCHANGED instance /\ pc \in {"gcDeployments", "gcClaims"}
  <2>1. ASSUME NEW kind, Notify(kind) PROVE ~queued
    BY <2>1 DEF Notify
  <2> QED
    BY <2>1
    DEF GarbageCollection, DeleteDeployment, ListClaims,
        DeletePersistentVolumeClaim, DeleteJob
<1>3. InstanceIsCopy /\ InstanceIsCopy' /\ cluster.phase = PhaseNow
  BY <1>2 DEF NothingMissed, InstanceIsCopy
<1>4. ASSUME NEW p \in Profiles, DeleteDeployment(p) PROVE NothingMissed'
  <2>1. pc = "gcDeployments" /\ pc' = pc
    BY <1>4 DEF DeleteDeployment
  <2>2. DeploymentsCollected(doomed.dep)
    BY <1>2, <2>1 DEF NothingMissed
  <2>3. DeploymentsCollected(doomed.dep)'
    BY <1>4, <2>2
    DEF DeleteDeployment, DeploymentsCollected, TypeOK, ChildrenTypeOK,
        ReconcileTypeOK, views
  <2> QED
    BY <1>1, <1>3, <2>1, <2>3 DEF NothingMissed
<1>5. CASE ListClaims
  <2>1. /\ pc = "gcDeployments" /\ pc' = "gcClaims" /\ doomed.dep = {}
        /\ UNCHANGED <<pvc, job, dep>>
    BY <1>5 DEF ListClaims
  <2>2. DeploymentsCollected({})'
    BY <1>2, <2>1 DEF NothingMissed, DeploymentsCollected, views
  <2>3. /\ doomed'.pvc = Existing(PvcView) \ ExpectedNow
        /\ doomed'.job = Existing(JobView) \ ExpectedNow
    BY <1>3, <1>5
    DEF ListClaims, InstanceIsCopy, ExpectedNow, ActiveSeen, FutureSeen,
        UnexpectedJobs, TypeOK, ReconcileTypeOK
  <2>4. VolumesCollected(doomed.pvc)' /\ JobsCollected(doomed.job)'
    BY <1>1, <2>1, <2>3 DEF VolumesCollected, JobsCollected, Existing, views
  <2> QED
    BY <1>1, <1>3, <2>1, <2>2, <2>4 DEF NothingMissed
<1>6. ASSUME NEW c \in Claim, DeletePersistentVolumeClaim(c) PROVE NothingMissed'
  <2>1. pc = "gcClaims" /\ pc' = pc
    BY <1>6 DEF DeletePersistentVolumeClaim
  <2>2. /\ DeploymentsCollected({}) /\ VolumesCollected(doomed.pvc)
        /\ JobsCollected(doomed.job)
    BY <1>2, <2>1 DEF NothingMissed
  <2>3. VolumesCollected(doomed.pvc)'
    BY <1>1, <1>6, <2>2
    DEF DeletePersistentVolumeClaim, VolumesCollected, TypeOK, ChildrenTypeOK,
        ReconcileTypeOK, views
  <2>4. DeploymentsCollected({})' /\ JobsCollected(doomed.job)'
    BY <1>1, <1>6, <2>2
    DEF DeletePersistentVolumeClaim, DeploymentsCollected, JobsCollected, TypeOK,
        ReconcileTypeOK, views
  <2> QED
    BY <1>1, <1>3, <2>1, <2>3, <2>4 DEF NothingMissed
<1>7. ASSUME NEW c \in Claim, DeleteJob(c) PROVE NothingMissed'
  <2>1. pc = "gcClaims" /\ pc' = pc
    BY <1>7 DEF DeleteJob
  <2>2. /\ DeploymentsCollected({}) /\ VolumesCollected(doomed.pvc)
        /\ JobsCollected(doomed.job)
    BY <1>2, <2>1 DEF NothingMissed
  <2>3. JobsCollected(doomed.job)'
    BY <1>1, <1>7, <2>2
    DEF DeleteJob, JobsCollected, TypeOK, ChildrenTypeOK, ReconcileTypeOK, views
  <2>4. DeploymentsCollected({})' /\ VolumesCollected(doomed.pvc)'
    BY <1>1, <1>7, <2>2
    DEF DeleteJob, DeploymentsCollected, VolumesCollected, TypeOK,
        ReconcileTypeOK, views
  <2> QED
    BY <1>1, <1>3, <2>1, <2>3, <2>4 DEF NothingMissed
<1> QED
  BY <1>4, <1>5, <1>6, <1>7 DEF GarbageCollection

(* The steps that begin and end a reconciliation.                          *)
LEMMA BoundaryUnseen ==
  ASSUME TypeOK, NothingMissed, ~queued', UNCHANGED <<cluster, views>>,
         \/ Forget \/ Initialize \/ MarkDeleting \/ Finalize \/ Pause \/ Begin
         \/ Finish \/ Abandon
  PROVE  NothingMissed'
<1> USE DEF children, local
<1>1. CASE Forget
  BY <1>1 DEF Forget, Dequeue, NothingMissed, Running
<1>2. CASE Pause
  BY <1>2 DEF Pause, Dequeue, NothingMissed
<1>3. CASE Begin
  BY <1>3 DEF Begin, NothingMissed, InstanceIsCopy
<1>4. CASE Finish
  <2>1. /\ ~queued /\ pc = "gcClaims" /\ pc' = "idle"
        /\ doomed.pvc = {} /\ doomed.job = {} /\ UNCHANGED <<dep, pvc, job>>
    BY <1>4 DEF Finish, Discard
  <2>2. /\ cluster.phase = PhaseNow
        /\ DeploymentsCollected({}) /\ VolumesCollected({}) /\ JobsCollected({})
    BY <2>1 DEF NothingMissed
  <2>3. PhaseNow' = PhaseNow /\ ExpectedNow' = ExpectedNow
    BY NowUnchanged
  <2>4. /\ DeploymentsCollected({})' /\ VolumesCollected({})' /\ JobsCollected({})'
    BY <2>1, <2>2, <2>3
    DEF DeploymentsCollected, VolumesCollected, JobsCollected, views
  <2> QED
    BY <2>1, <2>2, <2>3, <2>4 DEF NothingMissed
<1>5. CASE Initialize \/ MarkDeleting \/ Finalize \/ Abandon
  BY <1>5 DEF Initialize, MarkDeleting, Finalize, Abandon, Dequeue, Retry
<1> QED
  BY <1>1, <1>2, <1>3, <1>4, <1>5

LEMMA NextNothingMissed ==
  ASSUME ListsSucceed
  PROVE  TypeOK /\ NothingMissed /\ [Next]_vars => NothingMissed'
<1> SUFFICES ASSUME TypeOK, NothingMissed, [Next]_vars PROVE NothingMissed'
  OBVIOUS
<1>1. CASE queued'
  BY <1>1 DEF NothingMissed
<1>2. CASE ~queued'
  <2>1. UNCHANGED <<cluster, views>>
    BY <1>2, NextWakes DEF ChangesWake
  <2>2. CASE EditSpec \/ PatientEdit \/ TogglePause \/ ReplaceAnnotations \/ Delete
    BY <1>2, <2>2, WritesWake
    DEF EditSpec, PatientEdit, TogglePause, ReplaceAnnotations, Delete
  <2>3. CASE Wake \/ \E kind \in Kinds : Sync(kind)
    BY <1>2, <2>3 DEF Wake, Sync, Watched
  <2>4. CASE UNCHANGED vars
    BY <1>2, <2>1, <2>4, UnseenStep DEF vars, children, NothingReturns
  <2> QED
    BY <1>2, <2>1, <2>2, <2>3, <2>4, EnvironmentUnseen, PlanUnseen, BuildUnseen,
       CollectionUnseen, BoundaryUnseen
    DEF Next, Reconcile, User, Failure
<1> QED
  BY <1>1, <1>2

(* What the controller records is never out of date unless a wake-up is    *)
(* due.                                                                    *)
THEOREM NothingMissedInvariant ==
  ASSUME ListsSucceed
  PROVE  Spec => []NothingMissed
<1>1. Init => NothingMissed
  BY DEF Init, NothingMissed
<1>2. TypeOK /\ NothingMissed /\ [Next]_vars => NothingMissed'
  BY NextNothingMissed
<1> QED
  BY <1>1, <1>2, InitTypeOK, NextTypeOK, PTL DEF Spec

(* Whatever changes the object or what the controller sees of the          *)
(* children, the key is queued after it: the user, Kubernetes, an          *)
(* informer's late delivery, or the controller itself.                     *)
THEOREM EveryChangeWakes == Spec => [][ChangesWake]_vars
<1>1. TypeOK /\ [Next]_vars => [ChangesWake]_vars
  BY NextWakes
<1> QED
  BY <1>1, InitTypeOK, NextTypeOK, PTL DEF Spec

-----------------------------------------------------------------------------
(* At rest.                                                                *)

LEMMA NextReadyExists ==
  TypeOK /\ ReadyExists /\ [Next]_vars => ReadyExists'
<1> SUFFICES ASSUME TypeOK, ReadyExists, [Next]_vars PROVE ReadyExists'
  OBVIOUS
<1> USE DEF ReadyExists, children
<1>1. CASE UNCHANGED <<dep, ready>>
  BY <1>1
<1>2. ASSUME NEW c \in Claim, BuildDeployment(c) PROVE ReadyExists'
  <2>1. c[2] # 0
    BY DEF Claim, Gen
  <2> QED
    BY <1>2, <2>1 DEF BuildDeployment, TypeOK, ChildrenTypeOK
<1>3. ASSUME NEW p \in Profiles,
             \/ DeleteDeployment(p) \/ RemoveDeployment(p)
             \/ StartWorkers(p) \/ FailWorkers(p)
      PROVE  ReadyExists'
  BY <1>3
  DEF DeleteDeployment, RemoveDeployment, StartWorkers, FailWorkers, TypeOK,
      ChildrenTypeOK
<1>4. CASE \/ Forget \/ Initialize \/ MarkDeleting \/ Finalize \/ Pause \/ Begin
           \/ Plan \/ SetLastAppliedSpecAnnotation \/ ListClaims \/ Finish
           \/ Abandon \/ Wake \/ UNCHANGED vars
           \/ \E kind \in Kinds : Sync(kind)
  BY <1>1, <1>4
  DEF Forget, Initialize, MarkDeleting, Finalize, Pause, Begin, Plan, PlanWithout,
      SetLastAppliedSpecAnnotation, ListClaims, Finish, Abandon, Wake, Sync, vars
<1>5. CASE \E c \in Claim : \/ BuildPersistentVolumeClaim(c) \/ BuildJob(c)
                            \/ DeletePersistentVolumeClaim(c) \/ DeleteJob(c)
                            \/ RemovePersistentVolumeClaim(c) \/ RemoveJob(c)
                            \/ BindVolume(c) \/ CompleteJob(c) \/ FailJob(c)
  BY <1>1, <1>5
  DEF BuildPersistentVolumeClaim, BuildJob, DeletePersistentVolumeClaim, DeleteJob,
      RemovePersistentVolumeClaim, RemoveJob, BindVolume, CompleteJob, FailJob
<1>6. CASE EditSpec \/ PatientEdit \/ TogglePause \/ ReplaceAnnotations \/ Delete
  BY <1>1, <1>6
  DEF EditSpec, PatientEdit, TogglePause, ReplaceAnnotations, Delete, UserWrites
<1> QED
  BY <1>2, <1>3, <1>4, <1>5, <1>6
  DEF Next, Reconcile, Build, GarbageCollection, User, Progress, Failure

(* Caches that are current show the cluster.                               *)
LEMMA CurrentViews ==
  ASSUME TypeOK, CachesCurrent
  PROVE  PvcView = pvc /\ JobView = job /\ DepView = dep /\ ReadyView = ready
<1> USE DEF CachesCurrent, Current, TypeOK, ChildrenTypeOK
<1>1. PvcView = pvc
  BY DEF PvcView
<1>2. JobView = job
  BY DEF JobView
<1>3. DepView = dep /\ ReadyView = ready
  BY DEF DepView, ReadyView
<1> QED
  BY <1>1, <1>2, <1>3

LEMMA RestingPhase == TypeOK /\ NothingMissed => QuiescentPhase
BY CurrentViews
DEF NothingMissed, Quiescent, QuiescentPhase, PhaseNow, ActiveSeen, FutureSeen,
    Active, Future

(* No wake-up is missed: at rest the recorded phase is the one a           *)
(* reconciliation would determine.                                         *)
THEOREM QuiescentPhaseTheorem ==
  ASSUME ListsSucceed
  PROVE  Spec => []QuiescentPhase
BY NothingMissedInvariant, TypeCorrect, RestingPhase, PTL

(* The phases in which all is deployed, and what they mean.                *)
LEMMA PhaseOfRest ==
  ASSUME NEW spec, NEW oldUrl, NEW active, NEW future, NEW bound,
         NEW completed, NEW isReady,
         DeterminePhase(spec, oldUrl, active, future, bound, completed, isReady)
           \in {Empty, WorkersDeployed, WorkersRedeployed}
  PROVE  /\ ProfileSet(spec.profiles) \subseteq isReady
         /\ \A p \in ProfileSet(spec.profiles) :
              <<p, active>> \in bound \cap completed
<1> USE DEF Empty, BuildingMap, UpdatingMap, RedeployingWorkers,
            DeployingWorkers, WorkersDeployed, WorkersRedeployed
<1>1. CASE spec.profiles = << >>
  BY <1>1 DEF ProfileSet
<1>2. CASE spec.profiles # << >>
  <2>1. ~IsMapBuildingInProgress(spec.profiles, bound, completed, active)
    BY <1>2 DEF DeterminePhase
  <2>2. AllWorkersReady(spec.profiles, isReady)
    BY <1>2 DEF DeterminePhase
  <2> QED
    BY <2>1, <2>2 DEF IsMapBuildingInProgress, AllWorkersReady
<1> QED
  BY <1>1, <1>2

LEMMA NothingLeft == TypeOK /\ NothingMissed /\ ReadyExists => NoLeftovers
<1> SUFFICES ASSUME TypeOK, NothingMissed, ReadyExists, Quiescent,
                    cluster.phase \in {Empty, WorkersDeployed, WorkersRedeployed}
             PROVE  LET profiles == ProfileSet(cluster.spec.profiles)
                    IN  /\ Existing(pvc) = profiles \X {Active}
                        /\ {c \in Claim : job[c] # "Absent"} = profiles \X {Active}
                        /\ {p \in Profiles : dep[p] # 0} = profiles
  BY DEF NoLeftovers
<1> DEFINE profiles == ProfileSet(cluster.spec.profiles)
<1>1. PvcView = pvc /\ JobView = job /\ DepView = dep /\ ReadyView = ready
  BY CurrentViews DEF Quiescent
<1>2. /\ cluster.phase = PhaseNow
      /\ DeploymentsCollected({}) /\ VolumesCollected({}) /\ JobsCollected({})
  BY DEF NothingMissed, Quiescent
<1>3. ActiveSeen = Active
  BY <1>1 DEF ActiveSeen, Active
<1>4. /\ profiles \subseteq ready
      /\ \A p \in profiles : <<p, Active>> \in Bound(pvc) \cap Completed(job)
  BY <1>1, <1>2, <1>3, PhaseOfRest DEF PhaseNow
<1>5. ExpectedNow = profiles \X {Active}
  BY <1>3
  DEF ExpectedNow, ExpectedClaims, KeptGenerations, Empty, WorkersDeployed,
      WorkersRedeployed, UpdatingMap, RedeployingWorkers, DeployingWorkers
<1> HIDE DEF profiles
<1>6. Existing(pvc) = profiles \X {Active}
  <2>1. Existing(pvc) \subseteq profiles \X {Active}
    BY <1>1, <1>2, <1>5 DEF VolumesCollected, Existing
  <2>2. profiles \X {Active} \subseteq Existing(pvc)
    BY <1>4 DEF Bound, Existing
  <2> QED
    BY <2>1, <2>2
<1>7. {c \in Claim : job[c] # "Absent"} = profiles \X {Active}
  <2>1. {c \in Claim : job[c] # "Absent"} \subseteq profiles \X {Active}
    BY <1>1, <1>2, <1>5 DEF JobsCollected
  <2>2. profiles \X {Active} \subseteq {c \in Claim : job[c] # "Absent"}
    BY <1>4 DEF Completed
  <2> QED
    BY <2>1, <2>2
<1>8. {p \in Profiles : dep[p] # 0} = profiles
  <2>1. {p \in Profiles : dep[p] # 0} \subseteq profiles
    BY <1>1, <1>2 DEF DeploymentsCollected, profiles
  <2>2. profiles \subseteq {p \in Profiles : dep[p] # 0}
    BY <1>4 DEF ReadyExists, TypeOK, ChildrenTypeOK
  <2> QED
    BY <2>1, <2>2
<1> QED
  BY <1>6, <1>7, <1>8 DEF profiles

(* Once all is deployed nothing is left behind, whatever was edited,       *)
(* deleted or interrupted before.                                          *)
THEOREM NoLeftoversTheorem ==
  ASSUME ListsSucceed
  PROVE  Spec => []NoLeftovers
<1>1. Init => ReadyExists
  BY DEF Init, ReadyExists
<1>2. Spec => []ReadyExists
  BY <1>1, NextReadyExists, InitTypeOK, NextTypeOK, PTL DEF Spec
<1> QED
  BY <1>2, NothingMissedInvariant, TypeCorrect, NothingLeft, PTL
=============================================================================
