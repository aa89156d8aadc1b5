------------------------- MODULE OSRMInstance_proofs -------------------------
(***************************************************************************)
(* Theorems about OSRMInstance, for every set of extracts and specs, every *)
(* choice of user operations, failures and lagging caches, and every value *)
(* of the bounds: types, what is true when the operator rests, and that it *)
(* behaves like the OSRMCluster controller with one profile.               *)
(***************************************************************************)
EXTENDS OSRMInstance, SequenceLemmas, SequenceTheorems

BuilderType == [kind : BuilderKinds, gen : Gen]

-----------------------------------------------------------------------------
(* The decisions.                                                          *)

LEMMA ActiveIsGeneration ==
  ASSUME NEW d \in 0 .. MaxGen PROVE GetActiveMapGeneration(d) \in Gen
BY InstanceAssumption DEF GetActiveMapGeneration, Gen

(* A set of generations has a greatest one, which is the future generation.*)
LEMMA FutureIsGeneration ==
  ASSUME NEW claims \in SUBSET ({Unnamed} \X Gen)
  PROVE  M!GetFutureMapGeneration(claims) \in Gen
<1> DEFINE gens == {1} \cup {c[2] : c \in claims}
<1>1. gens \subseteq Gen /\ gens # {} /\ MaxGen \in Nat
  BY InstanceAssumption DEF Gen
<1> DEFINE depths == {MaxGen - g : g \in gens}
<1>2. depths \subseteq Nat /\ depths # {}
  BY <1>1 DEF Gen
<1>3. PICK d \in depths : \A e \in depths : d <= e
  BY <1>2, LeastNatural
<1>4. PICK g \in gens : d = MaxGen - g
  OBVIOUS
<1>5. ASSUME NEW h \in gens PROVE h <= g
  <2>1. d <= MaxGen - h
    BY <1>3
  <2> QED
    BY <1>1, <1>4, <2>1 DEF Gen
<1>6. M!GetFutureMapGeneration(claims) \in gens
  BY <1>5 DEF M!GetFutureMapGeneration
<1> QED
  BY <1>1, <1>6

LEMMA PhaseIsPhase ==
  ASSUME NEW spec, NEW oldUrl, NEW active, NEW future, NEW pvcs, NEW jobs,
         NEW isReady
  PROVE  DeterminePhase(spec, oldUrl, active, future, pvcs, jobs, isReady)
           \in M!Phase \ {M!Empty, M!Deleting}
BY DEF DeterminePhase, M!Phase, M!Empty, M!BuildingMap, M!UpdatingMap,
   M!RedeployingWorkers, M!DeployingWorkers, M!WorkersDeployed,
   M!WorkersRedeployed, M!Deleting

(* The builders of a phase; the bound on generations concerns the update.  *)
LEMMA BuildersType ==
  ASSUME NEW phase, NEW spec, NEW active \in Gen, NEW future \in Gen,
         phase = M!UpdatingMap => M!GetNextMapGeneration(active) \in Gen
  PROVE  ResourceBuildersForPhase(phase, spec, active, future) \in Seq(BuilderType)
<1>1. ASSUME NEW kind \in BuilderKinds, NEW g \in Gen
      PROVE  Builder(kind, g) \in BuilderType
  BY DEF Builder, BuilderType
<1> HIDE DEF BuilderType
<1>2. ASSUME NEW g \in Gen
      PROVE  /\ MapBuilders(g) \in Seq(BuilderType)
             /\ <<Builder("Deployment", g)>> \in Seq(BuilderType)
             /\ DeployingWorkersPhaseBuilders(g) \in Seq(BuilderType)
             /\ WorkersDeployedPhaseBuilders(spec, g) \in Seq(BuilderType)
  <2>1. \A kind \in BuilderKinds : Builder(kind, g) \in BuilderType
    BY <1>1
  <2>2. /\ Builder("PersistentVolumeClaim", g) \in BuilderType
        /\ Builder("Job", g) \in BuilderType
        /\ Builder("Deployment", g) \in BuilderType
        /\ Builder("Service", g) \in BuilderType
        /\ Builder("PodDisruptionBudget", g) \in BuilderType
        /\ Builder("HorizontalPodAutoscaler", g) \in BuilderType
        /\ Builder("CronJob", g) \in BuilderType
    BY <2>1 DEF BuilderKinds, Kinds, ServingKinds
  <2> HIDE DEF Builder
  <2>3. MapBuilders(g) \in Seq(BuilderType)
    BY <2>2 DEF MapBuilders
  <2>4. <<Builder("Deployment", g)>> \in Seq(BuilderType)
    BY <2>2
  <2>5. DeployingWorkersPhaseBuilders(g) \in Seq(BuilderType)
    BY <2>2 DEF DeployingWorkersPhaseBuilders
  <2>6. WorkersDeployedPhaseBuilders(spec, g) \in Seq(BuilderType)
    BY <2>2 DEF WorkersDeployedPhaseBuilders
  <2> QED
    BY <2>3, <2>4, <2>5, <2>6
<1> HIDE DEF MapBuilders, DeployingWorkersPhaseBuilders, WorkersDeployedPhaseBuilders
<1> QED
  BY <1>2 DEF ResourceBuildersForPhase

-----------------------------------------------------------------------------
(* Types.                                                                  *)

LEMMA SpecsType == Specs \subseteq InstanceSpec /\ FirstSpec \in InstanceSpec
BY InstanceAssumption DEF InstanceSpec

LEMMA BoundsType ==
  MaxGen \in Nat \ {0} /\ MaxEdits \in Nat /\ MaxFaults \in Nat /\ MaxLosses \in Nat
BY InstanceAssumption

LEMMA NoInstanceType ==
  NoInstance \in [spec : InstanceSpec, lastApplied : OldUrl, phase : M!Phase]
BY SpecsType DEF NoInstance, OldUrl, M!Phase

LEMMA NothingDoomedType ==
  NothingDoomed \in [cron : BOOLEAN, pvc : SUBSET Gen, job : SUBSET Gen]
BY DEF NothingDoomed

LEMMA NoBuilders == << >> \in Seq([kind : BuilderKinds, gen : Gen])
OBVIOUS

(* A reconciliation that ends leaves well-typed local state.               *)
LEMMA DiscardType == Discard => ReconcileTypeOK'
BY NoInstanceType, NothingDoomedType, NoBuilders DEF Discard, ReconcileTypeOK

LEMMA RetryType == Retry => ReconcileTypeOK' /\ queued' \in BOOLEAN
BY DiscardType DEF Retry

LEMMA NotifyType ==
  ASSUME NEW kind, Notify(kind) PROVE queued' \in BOOLEAN
BY DEF Notify

LEMMA BuilderDoneType ==
  ASSUME ReconcileTypeOK, todo # << >>, BuilderDone PROVE ReconcileTypeOK'
BY DEF BuilderDone, ReconcileTypeOK

LEMMA InitTypeOK == Init => TypeOK
<1> SUFFICES ASSUME Init PROVE TypeOK
  OBVIOUS
<1>1. ObjectTypeOK
  BY SpecsType, BoundsType DEF Init, ObjectTypeOK, OldUrl, M!Phase
<1>2. ChildrenTypeOK
  <2>1. 0 \in 0 .. MaxGen
    BY BoundsType
  <2>2. /\ [g \in Gen |-> "Absent"] \in [Gen -> PvcState]
        /\ [g \in Gen |-> "Absent"] \in [Gen -> JobState]
        /\ [g \in Gen |-> NoUrl] \in [Gen -> OldUrl]
    BY DEF PvcState, JobState, OldUrl
  <2>3. /\ pvc \in [Gen -> PvcState] /\ job \in [Gen -> JobState]
        /\ volume \in [Gen -> OldUrl] /\ source \in [Gen -> OldUrl]
        /\ dep \in 0 .. MaxGen /\ ready \in BOOLEAN
    BY <2>1, <2>2 DEF Init
  <2> QED
    BY <2>1, <2>3 DEF Init, ChildrenTypeOK
<1>3. ReconcileTypeOK
  BY NoInstanceType, NothingDoomedType, NoBuilders DEF Init, ReconcileTypeOK
<1> QED
  BY <1>1, <1>2, <1>3 DEF TypeOK

(* The steps of the reconciler before and after the builders.              *)
LEMMA ReconcilerTypeOK ==
  ASSUME TypeOK,
         \/ Forget \/ Initialize \/ MarkDeleting \/ Finalize \/ Pause \/ Begin
         \/ Finish \/ Abandon
  PROVE  TypeOK'
<1> USE DEF TypeOK, children, maps, local, bounds
<1>1. CASE Forget
  <2>1. ObjectTypeOK'
    BY <1>1 DEF Forget, ObjectTypeOK
  <2>2. ChildrenTypeOK'
    BY <1>1 DEF Forget, ChildrenTypeOK
  <2>3. ReconcileTypeOK'
    BY <1>1 DEF Forget, ReconcileTypeOK
  <2> QED
    BY <2>1, <2>2, <2>3
<1>2. CASE Initialize
  BY <1>2 DEF Initialize, ObjectTypeOK, ChildrenTypeOK, ReconcileTypeOK
<1>3. CASE MarkDeleting
  BY <1>3 DEF MarkDeleting, ObjectTypeOK, ChildrenTypeOK, ReconcileTypeOK, M!Phase
<1>4. CASE Finalize
  <2>1. ReconcileTypeOK' /\ queued' \in BOOLEAN
    BY <1>4, RetryType, DiscardType DEF Finalize
  <2> QED
    BY <1>4, <2>1 DEF Finalize, ObjectTypeOK, ChildrenTypeOK
<1>5. CASE Pause
  BY <1>5 DEF Pause, ObjectTypeOK, ChildrenTypeOK, ReconcileTypeOK
<1>6. CASE Begin
  BY <1>6 DEF Begin, ObjectTypeOK, ChildrenTypeOK, ReconcileTypeOK
<1>7. CASE Finish
  <2>1. ReconcileTypeOK'
    BY <1>7, DiscardType DEF Finish
  <2> QED
    BY <1>7, <2>1 DEF Finish, ObjectTypeOK, ChildrenTypeOK
<1>8. CASE Abandon
  <2>1. ReconcileTypeOK' /\ queued' \in BOOLEAN
    BY <1>8, RetryType DEF Abandon
  <2> QED
    BY <1>8, <2>1, BoundsType
    DEF Abandon, Fault, ObjectTypeOK, ChildrenTypeOK
<1> QED
  BY <1>1, <1>2, <1>3, <1>4, <1>5, <1>6, <1>7, <1>8

(* What a plan decides: a phase and the builders of that phase.            *)
LEMMA PlanTypeOK ==
  ASSUME TypeOK, Plan PROVE TypeOK'
<1> USE DEF TypeOK, children, maps
<1>1. PICK lost \in SUBSET Kinds : PlanWithout(lost)
  BY DEF Plan
<1> DEFINE pvcs   == IF "PersistentVolumeClaim" \in lost
                       THEN [g \in Gen |-> "Absent"] ELSE PvcView
           jobs   == IF "Job" \in lost THEN [g \in Gen |-> "Absent"] ELSE JobView
           d      == IF "Deployment" \in lost THEN [dep |-> 0, ready |-> FALSE]
                     ELSE DepView
           active == GetActiveMapGeneration(d.dep)
           future == GetFutureMapGeneration(pvcs)
           phase  == DeterminePhase(instance.spec, instance.lastApplied, active,
                                    future, pvcs, jobs, d.ready)
           builders == ResourceBuildersForPhase(phase, instance.spec, active, future)
<1>2. d.dep \in 0 .. MaxGen
  BY BoundsType DEF ChildrenTypeOK, DepView
<1> HIDE DEF pvcs, jobs, d
<1>3. active \in Gen
  BY <1>2, ActiveIsGeneration
<1>4. future \in Gen
  BY FutureIsGeneration DEF GetFutureMapGeneration, Existing
<1>5. phase \in M!Phase
  BY PhaseIsPhase
<1> HIDE DEF active, future, phase
<1>6. (phase = M!UpdatingMap => M!GetNextMapGeneration(active) \in Gen)
        => builders \in Seq(BuilderType)
  BY <1>3, <1>4, BuildersType
<1> HIDE DEF builders
<1>7. UNCHANGED <<children, seen, edits, losses>> /\ faults' \in 0 .. MaxFaults
  BY <1>1, BoundsType DEF PlanWithout, Fault, ObjectTypeOK
<1>8. ChildrenTypeOK'
  BY <1>7 DEF ChildrenTypeOK
<1>9. \/ Retry /\ UNCHANGED object
      \/ /\ phase = M!UpdatingMap => M!GetNextMapGeneration(active) \in Gen
         /\ object' = [object EXCEPT !.phase =
                         IF phase = instance.phase THEN @ ELSE phase]
         /\ queued' = (queued \/ phase # instance.phase)
         /\ instance' = [instance EXCEPT !.phase = phase]
         /\ todo' = builders
         /\ pc' = "build"
         /\ UNCHANGED <<stale, doomed>>
  BY <1>1 DEF PlanWithout, pvcs, jobs, d, active, future, phase, builders
<1>10. CASE Retry /\ UNCHANGED object
  BY <1>7, <1>8, <1>10, RetryType DEF ObjectTypeOK
<1>11. CASE ~(Retry /\ UNCHANGED object)
  <2>1. ObjectTypeOK'
    BY <1>5, <1>7, <1>9, <1>11 DEF ObjectTypeOK
  <2>2. ReconcileTypeOK'
    BY <1>5, <1>6, <1>9, <1>11 DEF ReconcileTypeOK, BuilderType
  <2> QED
    BY <1>8, <2>1, <2>2
<1> QED
  BY <1>10, <1>11

(* The builders, and the annotation that follows them.                     *)
LEMMA BuildTypeOK ==
  ASSUME TypeOK, Build PROVE TypeOK'
<1> USE DEF TypeOK, children, maps, bounds
<1>1. ASSUME NEW g \in Gen, BuildPersistentVolumeClaim(g) PROVE TypeOK'
  <2>1. ReconcileTypeOK' /\ queued' \in BOOLEAN
    BY <1>1, RetryType, BuilderDoneType, NotifyType
    DEF BuildPersistentVolumeClaim, Building, ObjectTypeOK
  <2>2. pvc' \in [Gen -> PvcState]
    BY <1>1 DEF BuildPersistentVolumeClaim, ChildrenTypeOK, PvcState
  <2> QED
    BY <1>1, <2>1, <2>2 DEF BuildPersistentVolumeClaim, ObjectTypeOK, ChildrenTypeOK
<1>2. ASSUME NEW g \in Gen, BuildJob(g) PROVE TypeOK'
  <2>1. ReconcileTypeOK' /\ queued' \in BOOLEAN
    BY <1>2, RetryType, BuilderDoneType, NotifyType
    DEF BuildJob, Building, ObjectTypeOK
  <2>2. job' \in [Gen -> JobState]
    BY <1>2 DEF BuildJob, ChildrenTypeOK, JobState
  <2>3. instance.spec.url \in OldUrl
    BY DEF ReconcileTypeOK, InstanceSpec, OldUrl
  <2>4. source' \in [Gen -> OldUrl]
    BY <1>2, <2>3 DEF BuildJob, ChildrenTypeOK
  <2> QED
    BY <1>2, <2>1, <2>2, <2>4 DEF BuildJob, ObjectTypeOK, ChildrenTypeOK
<1>3. ASSUME NEW g \in Gen, BuildDeployment(g) PROVE TypeOK'
  <2>1. ReconcileTypeOK' /\ queued' \in BOOLEAN
    BY <1>3, RetryType, BuilderDoneType, NotifyType
    DEF BuildDeployment, Building, ObjectTypeOK
  <2>2. g \in 0 .. MaxGen
    BY BoundsType DEF Gen
  <2>3. dep' \in 0 .. MaxGen
    BY <1>3, <2>2 DEF BuildDeployment, ChildrenTypeOK
  <2>4. ready' \in BOOLEAN
    BY <1>3 DEF BuildDeployment, ChildrenTypeOK
  <2> QED
    BY <1>3, <2>1, <2>3, <2>4 DEF BuildDeployment, ObjectTypeOK, ChildrenTypeOK
<1>4. ASSUME NEW g \in Gen, NEW kind \in ServingKinds, BuildServing(kind, g)
      PROVE TypeOK'
  <2>1. ReconcileTypeOK' /\ queued' \in BOOLEAN
    BY <1>4, BuilderDoneType, NotifyType DEF BuildServing, Building, ObjectTypeOK
  <2> QED
    BY <1>4, <2>1 DEF BuildServing, ObjectTypeOK, ChildrenTypeOK
<1>5. ASSUME NEW g \in Gen, AutoscalerPanics(g) PROVE TypeOK'
  BY <1>5, RetryType DEF AutoscalerPanics, ObjectTypeOK, ChildrenTypeOK
<1>6. ASSUME NEW g \in Gen, BuildCronJob(g) PROVE TypeOK'
  <2>1. ReconcileTypeOK' /\ queued' \in BOOLEAN
    BY <1>6, BuilderDoneType, NotifyType DEF BuildCronJob, Building, ObjectTypeOK
  <2>2. cron' \in 0 .. MaxGen
    BY <1>6, BoundsType DEF BuildCronJob, Gen
  <2> QED
    BY <1>6, <2>1, <2>2 DEF BuildCronJob, ObjectTypeOK, ChildrenTypeOK
<1>7. CASE SetLastAppliedSpecAnnotation
  <2>1. instance.spec.url \in OldUrl
    BY DEF ReconcileTypeOK, InstanceSpec, OldUrl
  <2>2. CASE stale
    BY <1>7, <2>2, RetryType
    DEF SetLastAppliedSpecAnnotation, Retry, Discard, ObjectTypeOK, ChildrenTypeOK
  <2>3. CASE ~stale
    <3>1. ObjectTypeOK'
      BY <1>7, <2>1, <2>3 DEF SetLastAppliedSpecAnnotation, ObjectTypeOK
    <3>2. (cron # 0 /\ ~CronJobExpected(instance.spec)) \in BOOLEAN
      OBVIOUS
    <3>3. ReconcileTypeOK'
      BY <1>7, <2>3, <3>2 DEF SetLastAppliedSpecAnnotation, ReconcileTypeOK
    <3> QED
      BY <1>7, <3>1, <3>3 DEF SetLastAppliedSpecAnnotation, ChildrenTypeOK
  <2> QED
    BY <2>2, <2>3
<1> QED
  BY <1>1, <1>2, <1>3, <1>4, <1>5, <1>6, <1>7 DEF Build

(* Garbage collection.                                                     *)
LEMMA GarbageCollectionTypeOK ==
  ASSUME TypeOK, GarbageCollection PROVE TypeOK'
<1> USE DEF TypeOK, children, maps, bounds
<1>1. CASE DeleteCronJob
  <2>1. queued' \in BOOLEAN
    BY <1>1, NotifyType DEF DeleteCronJob
  <2>2. cron' \in 0 .. MaxGen
    BY <1>1, BoundsType DEF DeleteCronJob
  <2>3. ReconcileTypeOK'
    BY <1>1 DEF DeleteCronJob, ReconcileTypeOK
  <2> QED
    BY <1>1, <2>1, <2>2, <2>3 DEF DeleteCronJob, ObjectTypeOK, ChildrenTypeOK
<1>2. CASE ListClaims
  <2>1. ReconcileTypeOK'
    BY Zenon, <1>2 DEF ListClaims, Existing, ReconcileTypeOK
  <2> QED
    BY <1>2, <2>1 DEF ListClaims, ObjectTypeOK, ChildrenTypeOK
<1>3. ASSUME NEW g \in Gen, DeletePersistentVolumeClaim(g) PROVE TypeOK'
  <2>1. queued' \in BOOLEAN
    BY <1>3, NotifyType DEF DeletePersistentVolumeClaim
  <2>2. ChildrenTypeOK'
    BY <1>3 DEF DeletePersistentVolumeClaim, ChildrenTypeOK, PvcState, OldUrl
  <2>3. ReconcileTypeOK'
    BY <1>3 DEF DeletePersistentVolumeClaim, ReconcileTypeOK
  <2> QED
    BY <1>3, <2>1, <2>2, <2>3 DEF DeletePersistentVolumeClaim, ObjectTypeOK
<1>4. ASSUME NEW g \in Gen, DeleteJob(g) PROVE TypeOK'
  <2>1. queued' \in BOOLEAN
    BY <1>4, NotifyType DEF DeleteJob
  <2>2. ChildrenTypeOK'
    BY <1>4 DEF DeleteJob, ChildrenTypeOK, JobState, OldUrl
  <2>3. ReconcileTypeOK'
    BY <1>4 DEF DeleteJob, ReconcileTypeOK
  <2> QED
    BY <1>4, <2>1, <2>2, <2>3 DEF DeleteJob, ObjectTypeOK
<1> QED
  BY <1>1, <1>2, <1>3, <1>4 DEF GarbageCollection

(* The user.                                                               *)
LEMMA UserTypeOK ==
  ASSUME TypeOK, User PROVE TypeOK'
<1> USE DEF TypeOK
<1>1. ASSUME NEW op, UserWrites(op),
             object' \in [exists : BOOLEAN, spec : InstanceSpec,
                          lastApplied : OldUrl, finalizer : BOOLEAN,
                          deleting : BOOLEAN, paused : BOOLEAN,
                          statusPaused : BOOLEAN, phase : M!Phase]
      PROVE  TypeOK'
  <2>1. queued' \in BOOLEAN
    BY <1>1, NotifyType DEF UserWrites
  <2>2. edits' \in 0 .. MaxEdits
    BY <1>1, BoundsType DEF UserWrites, ObjectTypeOK
  <2>3. ObjectTypeOK'
    BY <1>1, <2>1, <2>2 DEF UserWrites, ObjectTypeOK
  <2>4. ChildrenTypeOK'
    BY <1>1 DEF UserWrites, ChildrenTypeOK, children, maps
  <2>5. ReconcileTypeOK'
    BY <1>1 DEF UserWrites, ReconcileTypeOK
  <2> QED
    BY <2>3, <2>4, <2>5
<1>2. CASE EditSpec
  BY <1>1, <1>2, SpecsType DEF EditSpec, ObjectTypeOK
<1>3. CASE TogglePause
  BY <1>1, <1>3 DEF TogglePause, ObjectTypeOK
<1>4. CASE Delete
  BY <1>1, <1>4 DEF Delete, ObjectTypeOK
<1>5. ASSUME NEW kind, Lose(kind), serving' \in SUBSET ServingKinds,
             cron' \in 0 .. MaxGen
      PROVE TypeOK'
  <2>1. queued' \in BOOLEAN
    BY <1>5, NotifyType DEF Lose
  <2>2. losses' \in 0 .. MaxLosses
    BY <1>5, BoundsType DEF Lose, ObjectTypeOK
  <2> QED
    BY <1>5, <2>1, <2>2
    DEF Lose, ObjectTypeOK, ChildrenTypeOK, ReconcileTypeOK, maps, local
<1>6. CASE RemoveCronJob
  BY <1>5, <1>6, BoundsType DEF RemoveCronJob, ChildrenTypeOK
<1>7. ASSUME NEW kind \in ServingKinds, RemoveServing(kind) PROVE TypeOK'
  BY <1>5, <1>7 DEF RemoveServing, ChildrenTypeOK
<1> QED
  BY <1>2, <1>3, <1>4, <1>6, <1>7 DEF User

(* Kubernetes, the caches and the failures.                                *)
LEMMA EnvironmentTypeOK ==
  ASSUME TypeOK,
         \/ Progress \/ Wake \/ FailWorkers
         \/ \E g \in Gen : FailJob(g)
         \/ \E kind \in Kinds : Sync(kind)
  PROVE  TypeOK'
<1> USE DEF TypeOK, children, maps, local, bounds
<1>1. ASSUME NEW g \in Gen, BindVolume(g) PROVE TypeOK'
  <2>1. queued' \in BOOLEAN
    BY <1>1, NotifyType DEF BindVolume
  <2> QED
    BY <1>1, <2>1
    DEF BindVolume, ObjectTypeOK, ChildrenTypeOK, ReconcileTypeOK, PvcState
<1>2. ASSUME NEW g \in Gen, CompleteJob(g) PROVE TypeOK'
  <2>1. queued' \in BOOLEAN
    BY <1>2, NotifyType DEF CompleteJob
  <2>2. ChildrenTypeOK'
    BY <1>2 DEF CompleteJob, ChildrenTypeOK, JobState
  <2> QED
    BY <1>2, <2>1, <2>2 DEF CompleteJob, ObjectTypeOK, ReconcileTypeOK
<1>3. ASSUME NEW g \in Gen, FailJob(g) PROVE TypeOK'
  <2>1. queued' \in BOOLEAN /\ faults' \in 0 .. MaxFaults
    BY <1>3, NotifyType, BoundsType DEF FailJob, Fault, ObjectTypeOK
  <2>2. ChildrenTypeOK'
    BY <1>3 DEF FailJob, ChildrenTypeOK, JobState
  <2> QED
    BY <1>3, <2>1, <2>2 DEF FailJob, ObjectTypeOK, ReconcileTypeOK
<1>4. CASE StartWorkers
  <2>1. queued' \in BOOLEAN
    BY <1>4, NotifyType DEF StartWorkers
  <2> QED
    BY <1>4, <2>1
    DEF StartWorkers, ObjectTypeOK, ChildrenTypeOK, ReconcileTypeOK
<1>5. CASE FailWorkers
  <2>1. queued' \in BOOLEAN /\ faults' \in 0 .. MaxFaults
    BY <1>5, NotifyType, BoundsType DEF FailWorkers, Fault, ObjectTypeOK
  <2>2. ObjectTypeOK'
    BY <1>5, <2>1 DEF FailWorkers, ObjectTypeOK
  <2>3. ChildrenTypeOK'
    BY <1>5 DEF FailWorkers, ChildrenTypeOK
  <2>4. ReconcileTypeOK'
    BY <1>5 DEF FailWorkers, ReconcileTypeOK
  <2> QED
    BY <2>2, <2>3, <2>4
<1>6. ASSUME NEW kind \in Kinds, Sync(kind) PROVE TypeOK'
  <2>1. queued' \in BOOLEAN
    BY <1>6 DEF Sync
  <2>2. ChildrenTypeOK'
    BY <1>6 DEF Sync, Current, Kinds, ChildrenTypeOK
  <2> QED
    BY <1>6, <2>1, <2>2 DEF Sync, ObjectTypeOK, ReconcileTypeOK
<1>7. CASE Wake
  BY <1>7 DEF Wake, ObjectTypeOK, ChildrenTypeOK, ReconcileTypeOK
<1> QED
  BY <1>1, <1>2, <1>3, <1>4, <1>5, <1>6, <1>7 DEF Progress

LEMMA NextTypeOK == TypeOK /\ [Next]_vars => TypeOK'
<1>1. ASSUME TypeOK, Next PROVE TypeOK'
  BY <1>1, ReconcilerTypeOK, PlanTypeOK, BuildTypeOK, GarbageCollectionTypeOK,
     UserTypeOK, EnvironmentTypeOK
  DEF Next, Reconcile, Failure
<1>2. ASSUME TypeOK, UNCHANGED vars PROVE TypeOK'
  BY <1>2 DEF vars, children, maps, local, bounds, TypeOK, ObjectTypeOK,
     ChildrenTypeOK, ReconcileTypeOK
<1> QED
  BY <1>1, <1>2

(* Every variable keeps its type, for every behaviour of the controller,   *)
(* the user, Kubernetes and the failures.                                  *)
THEOREM TypeCorrect == Spec => []TypeOK
BY InitTypeOK, NextTypeOK, PTL DEF Spec

-----------------------------------------------------------------------------
(* Lists of builders.  Each kind occurs once at most, a volume comes first, *)
(* a Job behind nothing but its volume and a Deployment behind neither.    *)

InOrder(s) ==
  \A i, j \in DOMAIN s :
    i < j => /\ s[i].kind # s[j].kind /\ s[j].kind # "PersistentVolumeClaim"
             /\ s[j].kind = "Job" => s[i].kind = "PersistentVolumeClaim"
             /\ s[j].kind = "Deployment" => s[i].kind \notin Kinds

MapBuilderType == [kind : Kinds, claim : {Unnamed} \X Gen]

(* A list in three parts of which the first that is not empty is taken.    *)
LEMMA TakenFromParts ==
  ASSUME NEW S, NEW b \in S, NEW s \in Seq(S), NEW t \in Seq(S)
  PROVE  /\ LET r == <<b>> \o s \o t
            IN  r # << >> /\ Head(r) = b /\ Tail(r) = << >> \o s \o t
         /\ LET r == << >> \o <<b>> \o t
            IN  r # << >> /\ Head(r) = b /\ Tail(r) = << >> \o << >> \o t
         /\ LET r == << >> \o << >> \o <<b>>
            IN  r # << >> /\ Head(r) = b /\ Tail(r) = << >> \o << >> \o << >>
<1>1. <<b>> \in Seq(S) /\ << >> \in Seq(S) /\ s \o t \in Seq(S)
  OBVIOUS
<1>2. ASSUME NEW u \in Seq(S)
      PROVE  LET r == <<b>> \o u IN r # << >> /\ Head(r) = b /\ Tail(r) = u
  OBVIOUS
<1>3. \A u \in Seq(S) : << >> \o u = u /\ u \o << >> = u
  BY ConcatEmptySeq
<1>4. (<<b>> \o s) \o t = <<b>> \o (s \o t) /\ (<< >> \o s) \o t = s \o t
  BY <1>1, <1>3, ConcatAssociative
<1>5. /\ (<< >> \o <<b>>) \o t = <<b>> \o t /\ (<< >> \o << >>) \o t = t
  BY <1>1, <1>3
<1>6. (<< >> \o << >>) \o <<b>> = <<b>> \o << >> /\ (<< >> \o << >>) \o << >> = << >>
  BY <1>1, <1>3
<1> QED
  BY <1>1, <1>2, <1>4, <1>5, <1>6

LEMMA BuildersOfAbsent ==
  ASSUME NEW s, NEW kind, \A i \in DOMAIN s : s[i].kind # kind
  PROVE  BuildersOf(kind, s) = << >>
BY DEF BuildersOf

LEMMA BuildersOfPresent ==
  ASSUME NEW s, NEW i \in DOMAIN s,
         \A j \in DOMAIN s : s[j].kind = s[i].kind => j = i
  PROVE  BuildersOf(s[i].kind, s) = <<M!Builder(s[i].kind, Unnamed, s[i].gen)>>
<1> DEFINE at == {j \in DOMAIN s : s[j].kind = s[i].kind}
<1>1. at = {i}
  OBVIOUS
<1>2. (CHOOSE j \in at : TRUE) = i
  BY <1>1
<1> QED
  BY <1>1, <1>2 DEF BuildersOf

LEMMA BuildersOfType ==
  ASSUME NEW s \in Seq(BuilderType), NEW kind \in Kinds, InOrder(s)
  PROVE  BuildersOf(kind, s) \in Seq(MapBuilderType)
<1>1. CASE \A i \in DOMAIN s : s[i].kind # kind
  <2>1. BuildersOf(kind, s) = << >>
    BY <1>1, BuildersOfAbsent
  <2> QED
    BY <2>1
<1>2. CASE \E i \in DOMAIN s : s[i].kind = kind
  <2>1. PICK i \in DOMAIN s : s[i].kind = kind
    BY <1>2
  <2>2. DOMAIN s \subseteq Int /\ s[i] \in BuilderType
    OBVIOUS
  <2>3. \A j \in DOMAIN s : s[j].kind = s[i].kind => j = i
    BY <2>2 DEF InOrder
  <2>4. BuildersOf(kind, s) = <<M!Builder(kind, Unnamed, s[i].gen)>>
    BY <2>1, <2>3, BuildersOfPresent
  <2>5. M!Builder(kind, Unnamed, s[i].gen) \in MapBuilderType
    BY <2>2 DEF M!Builder, MapBuilderType, BuilderType
  <2> QED
    BY <2>4, <2>5
<1> QED
  BY <1>1, <1>2

LEMMA TailInOrder ==
  ASSUME NEW s \in Seq(BuilderType), s # << >>, InOrder(s)
  PROVE  InOrder(Tail(s)) /\ Tail(s) \in Seq(BuilderType)
<1>1. Tail(s) \in Seq(BuilderType)
  OBVIOUS
<1>2. ASSUME NEW i \in DOMAIN Tail(s)
      PROVE  i + 1 \in DOMAIN s /\ Tail(s)[i] = s[i + 1] /\ i \in Int
  OBVIOUS
<1> QED
  BY <1>1, <1>2 DEF InOrder

(* What is left of one kind when the first builder has run.                *)
LEMMA BuildersOfTail ==
  ASSUME NEW s \in Seq(BuilderType), s # << >>, InOrder(s), NEW kind
  PROVE  /\ Head(s).kind # kind => BuildersOf(kind, s) = BuildersOf(kind, Tail(s))
         /\ Head(s).kind = kind =>
              /\ BuildersOf(kind, s) = <<M!Builder(kind, Unnamed, Head(s).gen)>>
              /\ BuildersOf(kind, Tail(s)) = << >>
<1>1. /\ 1 \in DOMAIN s /\ Head(s) = s[1] /\ DOMAIN s \subseteq Nat \ {0}
      /\ DOMAIN Tail(s) \subseteq Nat \ {0}
  OBVIOUS
<1>2. ASSUME NEW i \in DOMAIN Tail(s)
      PROVE  i + 1 \in DOMAIN s /\ Tail(s)[i] = s[i + 1]
  OBVIOUS
<1>3. ASSUME NEW i \in DOMAIN s, i # 1
      PROVE  i - 1 \in DOMAIN Tail(s) /\ s[i] = Tail(s)[i - 1]
  BY <1>3
<1>4. \A i, j \in DOMAIN s : s[i].kind = s[j].kind => i = j
  BY <1>1 DEF InOrder
<1>5. CASE Head(s).kind = kind
  <2>1. \A j \in DOMAIN s : s[j].kind = s[1].kind => j = 1
    BY <1>1, <1>4
  <2>2. BuildersOf(kind, s) = <<M!Builder(kind, Unnamed, Head(s).gen)>>
    BY <1>1, <1>5, <2>1, BuildersOfPresent
  <2>3. \A i \in DOMAIN Tail(s) : Tail(s)[i].kind # kind
    BY <1>1, <1>2, <1>5, <2>1
  <2> QED
    BY <1>5, <2>2, <2>3, BuildersOfAbsent
<1>6. CASE Head(s).kind # kind
  <2>1. CASE \A i \in DOMAIN s : s[i].kind # kind
    <3>1. \A i \in DOMAIN Tail(s) : Tail(s)[i].kind # kind
      BY <1>2, <2>1
    <3> QED
      BY <1>6, <2>1, <3>1, BuildersOfAbsent
  <2>2. CASE \E i \in DOMAIN s : s[i].kind = kind
    <3>1. PICK i \in DOMAIN s : s[i].kind = kind
      BY <2>2
    <3>2. i # 1 /\ i - 1 \in DOMAIN Tail(s) /\ s[i] = Tail(s)[i - 1]
      BY <1>1, <1>3, <1>6, <3>1
    <3>3. \A j \in DOMAIN s : s[j].kind = s[i].kind => j = i
      BY <1>4
    <3>4. \A j \in DOMAIN Tail(s) : Tail(s)[j].kind = Tail(s)[i - 1].kind => j = i - 1
      <4>1. ASSUME NEW j \in DOMAIN Tail(s), Tail(s)[j].kind = Tail(s)[i - 1].kind
            PROVE  j = i - 1
        <5>1. j + 1 = i
          BY <1>2, <3>2, <3>3, <4>1
        <5> QED
          BY <1>1, <5>1
      <4> QED
        BY <4>1
    <3>5. BuildersOf(kind, s) = <<M!Builder(kind, Unnamed, s[i].gen)>>
      BY <3>1, <3>3, BuildersOfPresent
    <3>6. BuildersOf(kind, Tail(s)) = <<M!Builder(kind, Unnamed, Tail(s)[i - 1].gen)>>
      <4> DEFINE k == i - 1
      <4>1. k \in DOMAIN Tail(s) /\ Tail(s)[k].kind = kind
        BY <3>1, <3>2
      <4>2. \A j \in DOMAIN Tail(s) : Tail(s)[j].kind = Tail(s)[k].kind => j = k
        BY <3>4
      <4> HIDE DEF k
      <4>3. BuildersOf(kind, Tail(s)) = <<M!Builder(kind, Unnamed, Tail(s)[k].gen)>>
        BY <4>1, <4>2, BuildersOfPresent
      <4> QED
        BY <4>3 DEF k
    <3> QED
      BY <1>6, <3>2, <3>5, <3>6
  <2> QED
    BY <2>1, <2>2
<1> QED
  BY <1>5, <1>6

LEMMA MapBuildersType ==
  ASSUME NEW s \in Seq(BuilderType), InOrder(s)
  PROVE  MapBuildersIn(s) \in Seq(MapBuilderType)
<1>1. /\ BuildersOf("PersistentVolumeClaim", s) \in Seq(MapBuilderType)
      /\ BuildersOf("Job", s) \in Seq(MapBuilderType)
      /\ BuildersOf("Deployment", s) \in Seq(MapBuilderType)
  BY BuildersOfType DEF Kinds
<1> QED
  BY <1>1 DEF MapBuildersIn

(* A builder of maps or workers is the first of the cluster's builders,    *)
(* and the cluster has none for any other.                                 *)
LEMMA MapBuildersTaken ==
  ASSUME NEW s \in Seq(BuilderType), s # << >>, InOrder(s)
  PROVE  IF Head(s).kind \in Kinds
           THEN /\ MapBuildersIn(s) # << >>
                /\ Head(MapBuildersIn(s)) = M!Builder(Head(s).kind, Unnamed, Head(s).gen)
                /\ Tail(MapBuildersIn(s)) = MapBuildersIn(Tail(s))
           ELSE MapBuildersIn(Tail(s)) = MapBuildersIn(s)
<1> DEFINE b == M!Builder(Head(s).kind, Unnamed, Head(s).gen)
           V(t) == BuildersOf("PersistentVolumeClaim", t)
           J(t) == BuildersOf("Job", t)
           D(t) == BuildersOf("Deployment", t)
<1>1. Tail(s) \in Seq(BuilderType) /\ InOrder(Tail(s))
  BY TailInOrder
<1>2. /\ V(Tail(s)) \in Seq(MapBuilderType) /\ J(Tail(s)) \in Seq(MapBuilderType)
      /\ D(Tail(s)) \in Seq(MapBuilderType)
  BY <1>1, BuildersOfType DEF Kinds
<1>3. Head(s) = s[1] /\ 1 \in DOMAIN s /\ s[1] \in BuilderType
  OBVIOUS
<1>4. \A i \in DOMAIN s : i # 1 => 1 < i
  OBVIOUS
<1>5. MapBuildersIn(s) = V(s) \o J(s) \o D(s)
  BY DEF MapBuildersIn
<1>6. MapBuildersIn(Tail(s)) = V(Tail(s)) \o J(Tail(s)) \o D(Tail(s))
  BY DEF MapBuildersIn
<1>7. ASSUME Head(s).kind \in Kinds PROVE b \in MapBuilderType
  BY <1>3, <1>7 DEF M!Builder, MapBuilderType, BuilderType
<1>8. CASE Head(s).kind = "PersistentVolumeClaim"
  <2>1. V(s) = <<b>> /\ V(Tail(s)) = << >> /\ J(s) = J(Tail(s)) /\ D(s) = D(Tail(s))
    BY <1>8, BuildersOfTail
  <2>2. b \in MapBuilderType
    BY <1>7, <1>8 DEF Kinds
  <2>3. Head(s).kind \in Kinds
    BY <1>8 DEF Kinds
  <2> HIDE DEF b, V, J, D
  <2>4. LET r == <<b>> \o J(Tail(s)) \o D(Tail(s))
        IN  r # << >> /\ Head(r) = b /\ Tail(r) = << >> \o J(Tail(s)) \o D(Tail(s))
    BY SMTT(30), <1>2, <2>2, TakenFromParts
  <2>5. /\ MapBuildersIn(s) = <<b>> \o J(Tail(s)) \o D(Tail(s))
        /\ MapBuildersIn(Tail(s)) = << >> \o J(Tail(s)) \o D(Tail(s))
    BY <1>5, <1>6, <2>1
  <2> QED
    BY <2>3, <2>4, <2>5 DEF b
<1>9. CASE Head(s).kind = "Job"
  <2>1. J(s) = <<b>> /\ J(Tail(s)) = << >> /\ V(s) = V(Tail(s)) /\ D(s) = D(Tail(s))
    BY <1>9, BuildersOfTail
  <2>2. \A i \in DOMAIN s : s[i].kind # "PersistentVolumeClaim"
    BY <1>3, <1>4, <1>9 DEF InOrder
  <2>3. V(s) = << >>
    BY <2>2, BuildersOfAbsent
  <2>4. b \in MapBuilderType
    BY <1>7, <1>9 DEF Kinds
  <2>5. Head(s).kind \in Kinds
    BY <1>9 DEF Kinds
  <2> HIDE DEF b, V, J, D
  <2>6. LET r == << >> \o <<b>> \o D(Tail(s))
        IN  r # << >> /\ Head(r) = b /\ Tail(r) = << >> \o << >> \o D(Tail(s))
    BY <1>2, <2>4, TakenFromParts
  <2>7. /\ MapBuildersIn(s) = << >> \o <<b>> \o D(Tail(s))
        /\ MapBuildersIn(Tail(s)) = << >> \o << >> \o D(Tail(s))
    BY <1>5, <1>6, <2>1, <2>3
  <2> QED
    BY <2>5, <2>6, <2>7 DEF b
<1>10. CASE Head(s).kind = "Deployment"
  <2>1. D(s) = <<b>> /\ D(Tail(s)) = << >> /\ V(s) = V(Tail(s)) /\ J(s) = J(Tail(s))
    BY <1>10, BuildersOfTail
  <2>2. \A i \in DOMAIN s : s[i].kind \notin {"PersistentVolumeClaim", "Job"}
    BY <1>3, <1>4, <1>10 DEF InOrder, Kinds
  <2>3. V(s) = << >> /\ J(s) = << >>
    BY <2>2, BuildersOfAbsent
  <2>4. b \in MapBuilderType
    BY <1>7, <1>10 DEF Kinds
  <2>5. Head(s).kind \in Kinds
    BY <1>10 DEF Kinds
  <2> HIDE DEF b, V, J, D
  <2>6. LET r == << >> \o << >> \o <<b>>
        IN  r # << >> /\ Head(r) = b /\ Tail(r) = << >> \o << >> \o << >>
    BY <2>4, TakenFromParts
  <2>7. /\ MapBuildersIn(s) = << >> \o << >> \o <<b>>
        /\ MapBuildersIn(Tail(s)) = << >> \o << >> \o << >>
    BY <1>5, <1>6, <2>1, <2>3
  <2> QED
    BY <2>5, <2>6, <2>7 DEF b
<1>11. CASE Head(s).kind \notin Kinds
  <2>1. V(s) = V(Tail(s)) /\ J(s) = J(Tail(s)) /\ D(s) = D(Tail(s))
    BY <1>11, BuildersOfTail DEF Kinds
  <2> QED
    BY <1>5, <1>6, <1>11, <2>1
<1> QED
  BY <1>8, <1>9, <1>10, <1>11 DEF Kinds

-----------------------------------------------------------------------------
(* What a reconciliation keeps to itself between two of its calls.         *)

(* The builders left are in order, the object the operator works on is     *)
(* still there, for its finalizer is, and claims are doomed by nothing but *)
(* the list that was just read.                                            *)
PassOK ==
  /\ InOrder(todo)
  /\ pc # "idle" => object.exists /\ object.finalizer
  /\ pc # "gcClaims" => doomed.pvc = {} /\ doomed.job = {}

LEMMA FifthBuilder ==
  ASSUME NEW a, NEW b, NEW c, NEW d, NEW e
  PROVE  <<a, b, c, d>> \o <<e>> = <<a, b, c, d, e>>
<1> DEFINE S == {a, b, c, d, e}
<1>1. <<a, b, c, d>> \in Seq(S) /\ <<e>> \in Seq(S) /\ <<a, b, c, d, e>> \in Seq(S)
  OBVIOUS
<1>2. Len(<<a, b, c, d>> \o <<e>>) = 5 /\ <<a, b, c, d>> \o <<e>> \in Seq(S)
  BY <1>1
<1>3. ASSUME NEW i \in 1 .. 5
      PROVE  (<<a, b, c, d>> \o <<e>>)[i] = <<a, b, c, d, e>>[i]
  <2>1. i = 1 \/ i = 2 \/ i = 3 \/ i = 4 \/ i = 5
    OBVIOUS
  <2> QED
    BY <2>1
<1> QED
  BY <1>1, <1>2, <1>3, SeqEqual

LEMMA WorkersDeployedBuilders ==
  ASSUME NEW spec, NEW g
  PROVE  WorkersDeployedPhaseBuilders(spec, g) =
           IF spec.speedUpdates
           THEN <<Builder("Service", g), Builder("HorizontalPodAutoscaler", g),
                  Builder("PodDisruptionBudget", g), Builder("Deployment", g),
                  Builder("CronJob", g)>>
           ELSE <<Builder("Service", g), Builder("HorizontalPodAutoscaler", g),
                  Builder("PodDisruptionBudget", g), Builder("Deployment", g)>>
<1>1. CASE spec.speedUpdates
  BY <1>1, FifthBuilder DEF WorkersDeployedPhaseBuilders
<1>2. CASE ~spec.speedUpdates
  BY <1>2, ConcatEmptySeq DEF WorkersDeployedPhaseBuilders
<1> QED
  BY <1>1, <1>2

LEMMA PhaseBuildersInOrder ==
  ASSUME NEW phase, NEW spec, NEW active, NEW future
  PROVE  InOrder(ResourceBuildersForPhase(phase, spec, active, future))
<1>1. ASSUME NEW g
      PROVE  /\ InOrder(MapBuilders(g)) /\ InOrder(<<Builder("Deployment", g)>>)
             /\ InOrder(DeployingWorkersPhaseBuilders(g))
  BY DEF InOrder, MapBuilders, DeployingWorkersPhaseBuilders, Builder, Kinds
<1>2. ASSUME NEW g PROVE InOrder(WorkersDeployedPhaseBuilders(spec, g))
  BY WorkersDeployedBuilders DEF InOrder, Builder, Kinds
<1> HIDE DEF MapBuilders, DeployingWorkersPhaseBuilders, WorkersDeployedPhaseBuilders
<1> QED
  BY <1>1, <1>2 DEF ResourceBuildersForPhase

LEMMA InitPassOK == Init => PassOK
BY DEF Init, PassOK, InOrder, NothingDoomed

LEMMA DiscardPassOK == Discard => PassOK'
BY DEF Discard, PassOK, InOrder, NothingDoomed

LEMMA BuilderDonePassOK ==
  ASSUME PassOK, ReconcileTypeOK, todo # << >>, pc = "build", BuilderDone,
         UNCHANGED object
  PROVE  PassOK'
<1>1. InOrder(Tail(todo))
  BY TailInOrder DEF PassOK, ReconcileTypeOK, BuilderType
<1> QED
  BY <1>1 DEF BuilderDone, PassOK

LEMMA ReconcilerPassOK ==
  ASSUME TypeOK, PassOK,
         \/ Forget \/ Initialize \/ MarkDeleting \/ Finalize \/ Pause
         \/ Begin \/ Finish \/ Abandon
  PROVE  PassOK'
<1>1. CASE Finalize \/ Finish \/ Abandon
  BY <1>1, DiscardPassOK DEF Finalize, Finish, Abandon, Retry
<1>2. CASE Forget
  BY <1>2 DEF Forget, PassOK, local
<1>3. CASE Initialize
  BY <1>3 DEF Initialize, Dequeue, PassOK, local
<1>4. CASE MarkDeleting
  BY <1>4 DEF MarkDeleting, Dequeue, PassOK, TypeOK, ObjectTypeOK
<1>5. CASE Pause
  BY <1>5 DEF Pause, Dequeue, PassOK, local
<1>6. CASE Begin
  BY <1>6 DEF Begin, Dequeue, Running, PassOK
<1> QED
  BY <1>1, <1>2, <1>3, <1>4, <1>5, <1>6

LEMMA PlanPassOK == ASSUME TypeOK, PassOK, Plan PROVE PassOK'
<1>1. PICK lost \in SUBSET Kinds : PlanWithout(lost)
  BY DEF Plan
<1>2. CASE Retry
  BY <1>2, DiscardPassOK DEF Retry
<1>3. CASE ~Retry
  <2>1. pc = "plan" /\ pc' = "build" /\ UNCHANGED doomed
    BY <1>1, <1>3 DEF PlanWithout
  <2>2. \E phase, active, future :
          /\ todo' = ResourceBuildersForPhase(phase, instance.spec, active, future)
          /\ object' = [object EXCEPT !.phase = IF phase = instance.phase THEN @ ELSE phase]
    <3> DEFINE
          pvcs == IF "PersistentVolumeClaim" \in lost
                    THEN [g \in Gen |-> "Absent"] ELSE PvcView
          jobs == IF "Job" \in lost THEN [g \in Gen |-> "Absent"] ELSE JobView
          d == IF "Deployment" \in lost THEN [dep |-> 0, ready |-> FALSE]
                 ELSE DepView
          active == GetActiveMapGeneration(d.dep)
          future == GetFutureMapGeneration(pvcs)
          phase == DeterminePhase(instance.spec, instance.lastApplied, active,
                                  future, pvcs, jobs, d.ready)
    <3>1. /\ todo' = ResourceBuildersForPhase(phase, instance.spec, active, future)
          /\ object' = [object EXCEPT !.phase =
                          IF phase = instance.phase THEN @ ELSE phase]
      BY <1>1, <1>3 DEF PlanWithout
    <3> QED
      BY Zenon, <3>1
  <2>3. InOrder(todo')
    BY <2>2, PhaseBuildersInOrder
  <2>4. object'.exists = object.exists /\ object'.finalizer = object.finalizer
    BY <2>2 DEF TypeOK, ObjectTypeOK
  <2> QED
    BY <2>1, <2>3, <2>4 DEF PassOK
<1> QED
  BY <1>2, <1>3

LEMMA BuildPassOK == ASSUME TypeOK, PassOK, Build PROVE PassOK'
<1> USE DEF Building
<1>1. ASSUME NEW g \in Gen,
             \/ BuildPersistentVolumeClaim(g) \/ BuildJob(g)
             \/ BuildDeployment(g) \/ BuildCronJob(g)
             \/ \E kind \in ServingKinds : BuildServing(kind, g)
             \/ AutoscalerPanics(g)
      PROVE  PassOK'
  <2>1. pc = "build" /\ todo # << >> /\ UNCHANGED object /\ (BuilderDone \/ Retry)
    BY <1>1 DEF BuildPersistentVolumeClaim, BuildJob, BuildDeployment,
       BuildCronJob, BuildServing, AutoscalerPanics
  <2> QED
    BY <2>1, BuilderDonePassOK, DiscardPassOK DEF Retry, TypeOK
<1>2. CASE SetLastAppliedSpecAnnotation
  <2>1. CASE Retry
    BY <2>1, DiscardPassOK DEF Retry
  <2>2. CASE ~Retry
    BY <1>2, <2>2 DEF SetLastAppliedSpecAnnotation, PassOK, TypeOK, ObjectTypeOK,
       ReconcileTypeOK
  <2> QED
    BY <2>1, <2>2
<1> QED
  BY <1>1, <1>2 DEF Build

LEMMA GarbageCollectionPassOK ==
  ASSUME TypeOK, PassOK, GarbageCollection PROVE PassOK'
<1>1. UNCHANGED <<object, todo>>
  BY DEF GarbageCollection, DeleteCronJob, ListClaims,
     DeletePersistentVolumeClaim, DeleteJob
<1>2. CASE DeleteCronJob
  BY <1>1, <1>2 DEF DeleteCronJob, PassOK, TypeOK, ReconcileTypeOK
<1>3. pc # "idle" /\ (~DeleteCronJob => pc' = "gcClaims")
  BY DEF GarbageCollection, DeleteCronJob, ListClaims,
     DeletePersistentVolumeClaim, DeleteJob
<1> QED
  BY <1>1, <1>2, <1>3 DEF PassOK

(* The object is not removed behind the operator's back.                   *)
LEMMA UserPassOK == ASSUME TypeOK, PassOK, User PROVE PassOK'
<1>1. CASE EditSpec \/ TogglePause \/ Delete
  <2>1. UNCHANGED <<pc, todo, doomed>>
    BY <1>1 DEF EditSpec, TogglePause, Delete, UserWrites
  <2>2. object.finalizer =>
          object'.exists = object.exists /\ object'.finalizer = object.finalizer
    BY <1>1 DEF EditSpec, TogglePause, Delete, TypeOK, ObjectTypeOK
  <2> QED
    BY <2>1, <2>2 DEF PassOK
<1>2. CASE RemoveCronJob \/ \E kind \in ServingKinds : RemoveServing(kind)
  BY <1>2 DEF RemoveCronJob, RemoveServing, Lose, local, PassOK
<1> QED
  BY <1>1, <1>2 DEF User

LEMMA NextPassOK == TypeOK /\ PassOK /\ [Next]_vars => PassOK'
<1> SUFFICES ASSUME TypeOK, PassOK, [Next]_vars PROVE PassOK'
  OBVIOUS
<1>1. CASE \/ Progress \/ Wake \/ FailWorkers \/ \E g \in Gen : FailJob(g)
           \/ \E kind \in Kinds : Sync(kind)
           \/ UNCHANGED vars
  <2>1. UNCHANGED <<object, pc, todo, doomed>>
    BY <1>1 DEF Progress, StartWorkers, BindVolume, CompleteJob, Wake,
       FailWorkers, FailJob, Sync, vars, local
  <2> QED
    BY <2>1 DEF PassOK
<1>2. CASE Reconcile \/ User \/ Abandon
  BY <1>2, ReconcilerPassOK, PlanPassOK, BuildPassOK, GarbageCollectionPassOK,
     UserPassOK
  DEF Reconcile
<1> QED
  BY <1>1, <1>2 DEF Next, Failure

-----------------------------------------------------------------------------
(* The instance as a cluster of one profile: claims, decisions, builders.  *)

(* One claim, once as a generation and once as a pair.                     *)
LEMMA ClaimedAt ==
  ASSUME NEW f, NEW g \in Gen
  PROVE  <<Unnamed, g>> \in AsCluster!Claim /\ Claimed(f)[<<Unnamed, g>>] = f[g]
BY DEF Claimed, AsCluster!Claim, AsCluster!Gen, Gen

LEMMA ClaimIsGeneration ==
  ASSUME NEW c \in AsCluster!Claim
  PROVE  \E g \in Gen : c = <<Unnamed, g>>
BY DEF AsCluster!Claim, AsCluster!Gen, Gen

LEMMA ClaimedExcept ==
  ASSUME NEW S, NEW f \in [Gen -> S], NEW g \in Gen, NEW v
  PROVE  Claimed([f EXCEPT ![g] = v]) = [Claimed(f) EXCEPT ![<<Unnamed, g>>] = v]
<1> DEFINE F == Claimed([f EXCEPT ![g] = v])
           G == [Claimed(f) EXCEPT ![<<Unnamed, g>>] = v]
<1>1. /\ F = [c \in {Unnamed} \X Gen |-> F[c]]
      /\ G = [c \in {Unnamed} \X Gen |-> G[c]]
  BY DEF Claimed
<1>2. ASSUME NEW c \in {Unnamed} \X Gen PROVE F[c] = G[c]
  <2>1. PICK h \in Gen : c = <<Unnamed, h>>
    OBVIOUS
  <2>2. F[c] = [f EXCEPT ![g] = v][h]
    BY <2>1 DEF Claimed
  <2>3. G[c] = IF h = g THEN v ELSE f[h]
    BY <2>1 DEF Claimed
  <2> QED
    BY <2>2, <2>3
<1> HIDE DEF F, G
<1>3. F = G
  BY <1>1, <1>2
<1> QED
  BY <1>3 DEF F, G

LEMMA ClaimedConstant ==
  ASSUME NEW v PROVE Claimed([g \in Gen |-> v]) = [c \in AsCluster!Claim |-> v]
BY DEF Claimed, AsCluster!Claim, AsCluster!Gen, Gen

LEMMA ClaimsOfExcept ==
  ASSUME NEW X \in SUBSET Gen, NEW g \in Gen
  PROVE  /\ ClaimsOf(X \ {g}) = ClaimsOf(X) \ {<<Unnamed, g>>}
         /\ ClaimsOf(X \cup {g}) = ClaimsOf(X) \cup {<<Unnamed, g>>}
         /\ <<Unnamed, g>> \in ClaimsOf(X) <=> g \in X
<1>1. ClaimsOf(X \ {g}) = ClaimsOf(X) \ {<<Unnamed, g>>}
  BY DEF ClaimsOf
<1>2. ClaimsOf(X \cup {g}) = ClaimsOf(X) \cup {<<Unnamed, g>>}
  BY DEF ClaimsOf
<1>3. <<Unnamed, g>> \in ClaimsOf(X) <=> g \in X
  BY DEF ClaimsOf
<1> QED
  BY <1>1, <1>2, <1>3

LEMMA SameClaims ==
  ASSUME NEW f
  PROVE  /\ AsCluster!Existing(Claimed(f)) = ClaimsOf(Existing(f))
         /\ AsCluster!Bound(Claimed(f)) = ClaimsOf(Bound(f))
         /\ AsCluster!Completed(Claimed(f)) = ClaimsOf(Completed(f))
<1>1. AsCluster!Existing(Claimed(f)) = ClaimsOf(Existing(f))
  BY ClaimedAt, ClaimIsGeneration DEF AsCluster!Existing, Existing, ClaimsOf,
     AsCluster!Claim, AsCluster!Gen, Gen
<1>2. AsCluster!Bound(Claimed(f)) = ClaimsOf(Bound(f))
  BY ClaimedAt, ClaimIsGeneration DEF AsCluster!Bound, Bound, ClaimsOf,
     AsCluster!Claim, AsCluster!Gen, Gen
<1>3. AsCluster!Completed(Claimed(f)) = ClaimsOf(Completed(f))
  BY ClaimedAt, ClaimIsGeneration DEF AsCluster!Completed, Completed, ClaimsOf,
     AsCluster!Claim, AsCluster!Gen, Gen
<1> QED
  BY <1>1, <1>2, <1>3

LEMMA SameProfiles == AsCluster!ProfileSet(<<Unnamed>>) = {Unnamed}
BY DEF AsCluster!ProfileSet

LEMMA SameActive ==
  ASSUME NEW d
  PROVE  AsCluster!GetActiveMapGeneration(<<Unnamed>>, [p \in {Unnamed} |-> d])
           = GetActiveMapGeneration(d)
<1> DEFINE dd == [p \in {Unnamed} |-> d]
           First(i) == AsCluster!FirstDeployed(<<Unnamed>>, dd, i)
<1>1. \A i : First(i) <=> i = 1 /\ d # 0
  BY DEF AsCluster!FirstDeployed
<1> HIDE DEF First
<1>2. CASE d = 0
  <2>1. ~\E i \in DOMAIN <<Unnamed>> : First(i)
    BY <1>1, <1>2
  <2> QED
    BY <1>2, <2>1 DEF AsCluster!GetActiveMapGeneration, GetActiveMapGeneration, First
<1>3. CASE d # 0
  <2>1. 1 \in DOMAIN <<Unnamed>> /\ First(1)
    BY <1>1, <1>3
  <2>2. (CHOOSE i \in DOMAIN <<Unnamed>> : First(i)) = 1
    BY <1>1, <2>1
  <2>3. dd[<<Unnamed>>[1]] = d
    OBVIOUS
  <2> QED
    BY <1>3, <2>1, <2>2, <2>3
    DEF AsCluster!GetActiveMapGeneration, GetActiveMapGeneration, First
<1> QED
  BY <1>2, <1>3

LEMMA SameFuture ==
  ASSUME NEW f
  PROVE  AsCluster!GetFutureMapGeneration(AsCluster!Existing(Claimed(f)))
           = GetFutureMapGeneration(f)
BY SameClaims DEF AsCluster!GetFutureMapGeneration, GetFutureMapGeneration,
   M!GetFutureMapGeneration, ClaimsOf

LEMMA SameProgress ==
  ASSUME NEW g, NEW pvcs, NEW jobs
  PROVE  AsCluster!IsMapBuildingInProgress(<<Unnamed>>, ClaimsOf(Bound(pvcs)),
                                           ClaimsOf(Completed(jobs)), g)
           <=> IsMapBuildingInProgressForInstance(g, pvcs, jobs)
BY SameProfiles DEF AsCluster!IsMapBuildingInProgress, ClaimsOf,
   IsMapBuildingInProgressForInstance

LEMMA SamePhase ==
  ASSUME NEW spec, NEW oldUrl, NEW active, NEW future, NEW pvcs, NEW jobs,
         NEW isReady
  PROVE  AsCluster!DeterminePhase(ClusterSpecOf(spec), oldUrl, active, future,
             AsCluster!Bound(Claimed(pvcs)), AsCluster!Completed(Claimed(jobs)),
             IF isReady THEN {Unnamed} ELSE {})
           = DeterminePhase(spec, oldUrl, active, future, pvcs, jobs, isReady)
<1> DEFINE R == IF isReady THEN {Unnamed} ELSE {}
<1>1. ClusterSpecOf(spec).url = spec.url /\ ClusterSpecOf(spec).profiles = <<Unnamed>>
  BY DEF ClusterSpecOf
<1>2. <<Unnamed>> # << >>
  OBVIOUS
<1>3. AsCluster!AllWorkersReady(<<Unnamed>>, R) <=> isReady
  BY SameProfiles DEF AsCluster!AllWorkersReady
<1> HIDE DEF R
<1>4. AsCluster!DeterminePhase(ClusterSpecOf(spec), oldUrl, active, future,
          ClaimsOf(Bound(pvcs)), ClaimsOf(Completed(jobs)), R)
        = DeterminePhase(spec, oldUrl, active, future, pvcs, jobs, isReady)
  BY <1>1, <1>2, <1>3, SameProgress
  DEF AsCluster!DeterminePhase, DeterminePhase, AsCluster!MapUpdateNeeded,
      AsCluster!Empty, M!Empty, AsCluster!BuildingMap, M!BuildingMap,
      AsCluster!UpdatingMap, M!UpdatingMap, AsCluster!RedeployingWorkers,
      M!RedeployingWorkers, AsCluster!DeployingWorkers, M!DeployingWorkers,
      AsCluster!WorkersDeployed, M!WorkersDeployed,
      AsCluster!WorkersRedeployed, M!WorkersRedeployed
<1> QED
  BY <1>4, SameClaims DEF R

LEMMA SameExpected ==
  ASSUME NEW phase, NEW active, NEW future
  PROVE  AsCluster!ExpectedClaims(<<Unnamed>>, phase, active, future)
           = ClaimsOf(Expected(phase, active, future))
BY SameProfiles
DEF AsCluster!ExpectedClaims, AsCluster!KeptGenerations, Expected, ClaimsOf,
    AsCluster!UpdatingMap, M!UpdatingMap, AsCluster!RedeployingWorkers,
    M!RedeployingWorkers, AsCluster!DeployingWorkers, M!DeployingWorkers

(* Parts of a list of map builders put together.                           *)
LEMMA PartsTogether ==
  ASSUME NEW a, NEW b
  PROVE  /\ <<a>> \o <<b>> \o << >> = <<a, b>>
         /\ << >> \o << >> \o <<a>> = <<a>>
<1> DEFINE S == {a, b}
<1>1. <<a>> \in Seq(S) /\ <<b>> \in Seq(S) /\ <<a, b>> \in Seq(S)
  OBVIOUS
<1>2. <<a>> \o <<b>> = <<a, b>>
  <2>1. Len(<<a>> \o <<b>>) = 2 /\ <<a>> \o <<b>> \in Seq(S)
    BY <1>1
  <2>2. ASSUME NEW i \in 1 .. 2 PROVE (<<a>> \o <<b>>)[i] = <<a, b>>[i]
    <3>1. i = 1 \/ i = 2
      OBVIOUS
    <3> QED
      BY <3>1
  <2> QED
    BY <1>1, <2>1, <2>2, SeqEqual
<1>3. \A u \in Seq(S) : << >> \o u = u /\ u \o << >> = u
  BY ConcatEmptySeq
<1>4. << >> \in Seq(S) /\ << >> \o << >> = << >>
  BY <1>3
<1> HIDE DEF S
<1>5. (<<a>> \o <<b>>) \o << >> = <<a, b>>
  BY <1>1, <1>2, <1>3
<1>6. (<< >> \o << >>) \o <<a>> = <<a>>
  BY <1>1, <1>3, <1>4
<1> QED
  BY <1>5, <1>6

LEMMA SameMapBuilders ==
  ASSUME NEW g \in Gen
  PROVE  MapBuildersIn(MapBuilders(g)) = AsCluster!MapBuilders(<<Unnamed>>, g)
<1> DEFINE s == MapBuilders(g)
           a == M!Builder("PersistentVolumeClaim", Unnamed, g)
           b == M!Builder("Job", Unnamed, g)
<1>1. /\ DOMAIN s = {1, 2}
      /\ s[1].kind = "PersistentVolumeClaim" /\ s[1].gen = g
      /\ s[2].kind = "Job" /\ s[2].gen = g
  BY DEF MapBuilders, Builder
<1>2. AsCluster!MapBuilders(<<Unnamed>>, g) = <<a, b>>
  <2>1. 1 .. 2 * Len(<<Unnamed>>) = 1 .. 2
    OBVIOUS
  <2>2. ASSUME NEW k \in 1 .. 2
        PROVE  AsCluster!Builder(IF k % 2 = 1 THEN "PersistentVolumeClaim"
                                 ELSE "Job", <<Unnamed>>[(k + 1) \div 2], g)
                 = <<a, b>>[k]
    <3>1. CASE k = 1
      BY <3>1 DEF AsCluster!Builder, M!Builder
    <3>2. CASE k = 2
      <4>1. k % 2 = 0 /\ (k + 1) \div 2 = 1
        BY <3>2
      <4> QED
        BY <3>2, <4>1 DEF AsCluster!Builder, M!Builder
    <3> QED
      BY <3>1, <3>2
  <2>3. AsCluster!MapBuilders(<<Unnamed>>, g) = [k \in 1 .. 2 |-> <<a, b>>[k]]
    BY <2>1, <2>2 DEF AsCluster!MapBuilders
  <2>4. [k \in 1 .. 2 |-> <<a, b>>[k]] = <<a, b>>
    OBVIOUS
  <2> QED
    BY <2>3, <2>4
<1> HIDE DEF s
<1>3. BuildersOf("PersistentVolumeClaim", s) = <<a>>
  BY <1>1, BuildersOfPresent
<1>4. BuildersOf("Job", s) = <<b>>
  BY <1>1, BuildersOfPresent
<1>5. BuildersOf("Deployment", s) = << >>
  BY <1>1, BuildersOfAbsent
<1>6. MapBuildersIn(s) = <<a>> \o <<b>> \o << >>
  BY <1>3, <1>4, <1>5 DEF MapBuildersIn
<1> HIDE DEF a, b
<1>7. <<a>> \o <<b>> \o << >> = <<a, b>>
  BY PartsTogether
<1> QED
  BY <1>2, <1>6, <1>7 DEF s

LEMMA SameWorkerBuilders ==
  ASSUME NEW g \in Gen, NEW s \in Seq(BuilderType), InOrder(s),
         NEW i \in DOMAIN s, s[i] = Builder("Deployment", g),
         \A j \in DOMAIN s : s[j].kind \notin {"PersistentVolumeClaim", "Job"}
  PROVE  MapBuildersIn(s) = AsCluster!WorkerBuilders(<<Unnamed>>, g)
<1> DEFINE a == M!Builder("Deployment", Unnamed, g)
<1>1. AsCluster!WorkerBuilders(<<Unnamed>>, g) = <<a>>
  BY DEF AsCluster!WorkerBuilders, AsCluster!Builder, M!Builder
<1>2. \A j \in DOMAIN s : s[j].kind = s[i].kind => j = i
  <2>1. DOMAIN s \subseteq Int
    OBVIOUS
  <2> QED
    BY <2>1 DEF InOrder
<1>3. s[i].kind = "Deployment" /\ s[i].gen = g
  BY DEF Builder
<1>4. BuildersOf("Deployment", s) = <<a>>
  BY <1>2, <1>3, BuildersOfPresent
<1>5. /\ BuildersOf("PersistentVolumeClaim", s) = << >>
      /\ BuildersOf("Job", s) = << >>
  BY BuildersOfAbsent
<1>6. MapBuildersIn(s) = << >> \o << >> \o <<a>>
  BY <1>4, <1>5 DEF MapBuildersIn
<1> HIDE DEF a
<1>7. << >> \o << >> \o <<a>> = <<a>>
  BY PartsTogether
<1> QED
  BY <1>1, <1>6, <1>7

LEMMA SameBuilders ==
  ASSUME NEW phase \in M!Phase \ {M!Empty, M!Deleting}, NEW spec,
         NEW active \in Gen, NEW future \in Gen,
         phase = M!UpdatingMap => M!GetNextMapGeneration(active) \in Gen
  PROVE  MapBuildersIn(ResourceBuildersForPhase(phase, spec, active, future))
           = AsCluster!ResourceBuildersForPhase(phase, <<Unnamed>>, active, future)
<1> DEFINE s == ResourceBuildersForPhase(phase, spec, active, future)
<1> USE DEF AsCluster!ResourceBuildersForPhase, AsCluster!GenerationFor,
            ResourceBuildersForPhase, M!GetNextMapGeneration,
            AsCluster!GetNextMapGeneration,
            M!Phase, M!Empty, M!Deleting, M!BuildingMap, M!UpdatingMap,
            M!RedeployingWorkers, M!DeployingWorkers, M!WorkersDeployed,
            M!WorkersRedeployed, AsCluster!BuildingMap, AsCluster!UpdatingMap,
            AsCluster!RedeployingWorkers, AsCluster!DeployingWorkers,
            AsCluster!WorkersDeployed, AsCluster!WorkersRedeployed
<1>1. s \in Seq(BuilderType) /\ InOrder(s)
  BY BuildersType, PhaseBuildersInOrder
<1>2. CASE phase = M!BuildingMap
  BY <1>2, SameMapBuilders
<1>3. CASE phase = M!UpdatingMap
  BY <1>3, SameMapBuilders
<1>4. CASE phase = M!RedeployingWorkers
  <2>1. s = <<Builder("Deployment", future)>>
    BY <1>4
  <2> HIDE DEF s
  <2>2. 1 \in DOMAIN s /\ s[1] = Builder("Deployment", future)
    BY <2>1
  <2>3. \A j \in DOMAIN s : s[j].kind \notin {"PersistentVolumeClaim", "Job"}
    BY <2>1 DEF Builder
  <2>4. MapBuildersIn(s) = AsCluster!WorkerBuilders(<<Unnamed>>, future)
    BY <1>1, <2>2, <2>3, SameWorkerBuilders
  <2> QED
    BY <1>4, <2>4 DEF s
<1>5. CASE phase = M!DeployingWorkers
  <2>1. s = DeployingWorkersPhaseBuilders(active)
    BY <1>5
  <2> HIDE DEF s
  <2>2. 1 \in DOMAIN s /\ s[1] = Builder("Deployment", active)
    BY <2>1 DEF DeployingWorkersPhaseBuilders
  <2>3. \A j \in DOMAIN s : s[j].kind \notin {"PersistentVolumeClaim", "Job"}
    BY <2>1 DEF DeployingWorkersPhaseBuilders, Builder
  <2>4. MapBuildersIn(s) = AsCluster!WorkerBuilders(<<Unnamed>>, active)
    BY <1>1, <2>2, <2>3, SameWorkerBuilders
  <2> QED
    BY <1>5, <2>4 DEF s
<1>6. CASE phase \in {M!WorkersDeployed, M!WorkersRedeployed}
  <2>1. s = WorkersDeployedPhaseBuilders(spec, active)
    BY <1>6
  <2> HIDE DEF s
  <2>2. 4 \in DOMAIN s /\ s[4] = Builder("Deployment", active)
    BY <2>1, WorkersDeployedBuilders
  <2>3. \A j \in DOMAIN s : s[j].kind \notin {"PersistentVolumeClaim", "Job"}
    BY <2>1, WorkersDeployedBuilders DEF Builder
  <2>4. MapBuildersIn(s) = AsCluster!WorkerBuilders(<<Unnamed>>, active)
    BY <1>1, <2>2, <2>3, SameWorkerBuilders
  <2> QED
    BY <1>6, <2>4 DEF s
<1> QED
  BY <1>2, <1>3, <1>4, <1>5, <1>6

-----------------------------------------------------------------------------
(* Parts of steps that both controllers take.                              *)

ClusterStep == AsCluster!Next \/ UNCHANGED AsCluster!vars

ClusterOf(o) == [o EXCEPT !.spec = ClusterSpecOf(@)]

SetOf(isReady) == IF isReady THEN {Unnamed} ELSE {}

LEMMA NoBuildersLeft == MapBuildersIn(<< >>) = << >>
<1>1. \A kind : BuildersOf(kind, << >>) = << >>
  BY BuildersOfAbsent
<1>2. \A u \in Seq(MapBuilderType) : << >> \o u = u
  BY ConcatEmptySeq
<1>3. << >> \in Seq(MapBuilderType)
  OBVIOUS
<1> QED
  BY <1>1, <1>2, <1>3 DEF MapBuildersIn

LEMMA SameNoInstance == ClusterOf(NoInstance) = AsCluster!NoInstance
BY DEF ClusterOf, NoInstance, AsCluster!NoInstance, M!Empty, AsCluster!Empty

LEMMA SameNothingDoomed ==
  [dep |-> {}, pvc |-> ClaimsOf({}), job |-> ClaimsOf({})] = AsCluster!NothingDoomed
BY DEF ClaimsOf, AsCluster!NothingDoomed

LEMMA SameDiscard == Discard => AsCluster!Discard
<1> SUFFICES ASSUME Discard PROVE AsCluster!Discard
  OBVIOUS
<1>1. MapBuildersIn(todo)' = << >>
  BY NoBuildersLeft DEF Discard
<1>2. [instance EXCEPT !.spec = ClusterSpecOf(@)]' = AsCluster!NoInstance
  BY SameNoInstance DEF Discard, ClusterOf
<1>3. [dep |-> {}, pvc |-> ClaimsOf(doomed.pvc), job |-> ClaimsOf(doomed.job)]'
        = AsCluster!NothingDoomed
  BY SameNothingDoomed DEF Discard, NothingDoomed
<1> QED
  BY <1>1, <1>2, <1>3 DEF Discard, AsCluster!Discard

LEMMA SameRetry == Retry => AsCluster!Retry
BY SameDiscard DEF Retry, AsCluster!Retry

LEMMA SameNotify ==
  ASSUME NEW kind \in Kinds, Notify(kind) PROVE AsCluster!Notify(kind)
BY DEF Notify, AsCluster!Notify, Watched, AsCluster!Watched, BuilderKinds, Kinds,
   AsCluster!Kinds

LEMMA SameFault == \A what : Fault(what) => AsCluster!Fault(what)
BY DEF Fault, AsCluster!Fault

LEMMA SameViews ==
  /\ AsCluster!PvcView = Claimed(PvcView)
  /\ AsCluster!JobView = Claimed(JobView)
  /\ AsCluster!DepView = [p \in {Unnamed} |-> DepView.dep]
  /\ AsCluster!ReadyView = SetOf(DepView.ready)
BY DEF AsCluster!PvcView, AsCluster!JobView, AsCluster!DepView,
   AsCluster!ReadyView, PvcView, JobView, DepView, SetOf

(* What is unchanged here is unchanged there.                              *)
LEMMA SameChildren == UNCHANGED maps => UNCHANGED AsCluster!children
BY DEF maps, AsCluster!children

LEMMA SameLocal == UNCHANGED local => UNCHANGED AsCluster!local
BY DEF local, AsCluster!local

LEMMA InitImplements == Init => AsCluster!Init
<1> SUFFICES ASSUME Init PROVE AsCluster!Init
  OBVIOUS
<1>1. [object EXCEPT !.spec = ClusterSpecOf(@)] =
        [exists |-> TRUE, spec |-> ClusterSpecOf(FirstSpec), lastApplied |-> NoUrl,
         finalizer |-> FALSE, deleting |-> FALSE, paused |-> FALSE,
         statusPaused |-> FALSE, phase |-> AsCluster!Empty]
  <2> DEFINE e == [object EXCEPT !.spec = ClusterSpecOf(@)]
  <2>1. ObjectTypeOK
    BY InitTypeOK DEF TypeOK
  <2>2. e \in [exists : BOOLEAN, spec : {ClusterSpecOf(object.spec)},
              lastApplied : OldUrl, finalizer : BOOLEAN, deleting : BOOLEAN,
              paused : BOOLEAN, statusPaused : BOOLEAN, phase : M!Phase]
    BY <2>1 DEF ObjectTypeOK
  <2>3. /\ e.exists = object.exists /\ e.lastApplied = object.lastApplied
        /\ e.finalizer = object.finalizer /\ e.deleting = object.deleting
        /\ e.paused = object.paused /\ e.statusPaused = object.statusPaused
        /\ e.phase = object.phase /\ e.spec = ClusterSpecOf(object.spec)
    BY <2>1 DEF ObjectTypeOK
  <2>4. /\ object.exists = TRUE /\ object.lastApplied = NoUrl
        /\ object.finalizer = FALSE /\ object.deleting = FALSE
        /\ object.paused = FALSE /\ object.statusPaused = FALSE
        /\ object.phase = AsCluster!Empty /\ object.spec = FirstSpec
    BY DEF Init, M!Empty, AsCluster!Empty
  <2> HIDE DEF e
  <2>5. e = [exists |-> TRUE, spec |-> ClusterSpecOf(FirstSpec), lastApplied |-> NoUrl,
             finalizer |-> FALSE, deleting |-> FALSE, paused |-> FALSE,
             statusPaused |-> FALSE, phase |-> AsCluster!Empty]
    BY <2>2, <2>3, <2>4
  <2> QED
    BY <2>5 DEF e
<1>2. /\ Claimed(pvc) = [c \in AsCluster!Claim |-> "Absent"]
      /\ Claimed(job) = [c \in AsCluster!Claim |-> "Absent"]
      /\ Claimed(volume) = [c \in AsCluster!Claim |-> NoUrl]
      /\ Claimed(source) = [c \in AsCluster!Claim |-> NoUrl]
  BY ClaimedConstant DEF Init
<1>3. /\ MapBuildersIn(todo) = << >> /\ ClaimsOf(built) = {}
      /\ [instance EXCEPT !.spec = ClusterSpecOf(@)] = AsCluster!NoInstance
      /\ [dep |-> {}, pvc |-> ClaimsOf(doomed.pvc), job |-> ClaimsOf(doomed.job)]
           = AsCluster!NothingDoomed
  BY NoBuildersLeft, SameNoInstance, SameNothingDoomed
  DEF Init, ClusterOf, NothingDoomed, ClaimsOf
<1>4. /\ seen = [pvc |-> pvc, job |-> job, dep |-> dep, ready |-> ready]
      /\ ~ready /\ dep = 0
  BY DEF Init
<1> QED
  BY <1>1, <1>2, <1>3, <1>4 DEF Init, AsCluster!Init

-----------------------------------------------------------------------------
(* The steps, one by one.                                                  *)

LEMMA SameObject ==
  ASSUME ObjectTypeOK
  PROVE  LET o == ClusterOf(object)
         IN  /\ o.exists = object.exists /\ o.finalizer = object.finalizer
             /\ o.deleting = object.deleting /\ o.paused = object.paused
             /\ o.statusPaused = object.statusPaused /\ o.phase = object.phase
             /\ o.lastApplied = object.lastApplied
             /\ o.spec = ClusterSpecOf(object.spec)
             /\ \A v : /\ ClusterOf([object EXCEPT !.phase = v]) = [o EXCEPT !.phase = v]
                       /\ ClusterOf([object EXCEPT !.lastApplied = v])
                            = [o EXCEPT !.lastApplied = v]
                       /\ ClusterOf([object EXCEPT !.finalizer = v])
                            = [o EXCEPT !.finalizer = v]
                       /\ ClusterOf([object EXCEPT !.paused = v]) = [o EXCEPT !.paused = v]
                       /\ ClusterOf([object EXCEPT !.statusPaused = v])
                            = [o EXCEPT !.statusPaused = v]
                       /\ ClusterOf([object EXCEPT !.spec = v])
                            = [o EXCEPT !.spec = ClusterSpecOf(v)]
             /\ \A v, w : /\ ClusterOf([object EXCEPT !.finalizer = v, !.exists = w])
                               = [o EXCEPT !.finalizer = v, !.exists = w]
                          /\ ClusterOf([object EXCEPT !.deleting = v, !.exists = w])
                               = [o EXCEPT !.deleting = v, !.exists = w]
<1> USE DEF ObjectTypeOK, ClusterOf
<1> DEFINE o == ClusterOf(object)
<1>1. /\ o.exists = object.exists /\ o.finalizer = object.finalizer
      /\ o.deleting = object.deleting /\ o.paused = object.paused
      /\ o.statusPaused = object.statusPaused /\ o.phase = object.phase
      /\ o.lastApplied = object.lastApplied /\ o.spec = ClusterSpecOf(object.spec)
  OBVIOUS
<1>2. ASSUME NEW v
      PROVE  /\ ClusterOf([object EXCEPT !.phase = v]) = [o EXCEPT !.phase = v]
             /\ ClusterOf([object EXCEPT !.lastApplied = v]) = [o EXCEPT !.lastApplied = v]
             /\ ClusterOf([object EXCEPT !.finalizer = v]) = [o EXCEPT !.finalizer = v]
  OBVIOUS
<1>3. ASSUME NEW v
      PROVE  /\ ClusterOf([object EXCEPT !.paused = v]) = [o EXCEPT !.paused = v]
             /\ ClusterOf([object EXCEPT !.statusPaused = v])
                  = [o EXCEPT !.statusPaused = v]
             /\ ClusterOf([object EXCEPT !.spec = v])
                  = [o EXCEPT !.spec = ClusterSpecOf(v)]
  OBVIOUS
<1>4. ASSUME NEW v, NEW w
      PROVE  /\ ClusterOf([object EXCEPT !.finalizer = v, !.exists = w])
                  = [o EXCEPT !.finalizer = v, !.exists = w]
             /\ ClusterOf([object EXCEPT !.deleting = v, !.exists = w])
                  = [o EXCEPT !.deleting = v, !.exists = w]
  OBVIOUS
<1> HIDE DEF ObjectTypeOK, ClusterOf
<1> QED
  BY Zenon, <1>1, <1>2, <1>3, <1>4

LEMMA ReconcilerImplements ==
  ASSUME TypeOK,
         \/ Forget \/ Initialize \/ MarkDeleting \/ Finalize \/ Pause
         \/ Begin \/ Finish \/ Abandon
  PROVE  AsCluster!Next
<1> DEFINE o == ClusterOf(object)
<1>1. o = [object EXCEPT !.spec = ClusterSpecOf(@)]
  BY DEF ClusterOf
<1>2. ObjectTypeOK
  BY DEF TypeOK
<1>3. CASE Forget
  <2>1. AsCluster!Forget
    BY Zenon, <1>1, <1>2, <1>3, SameObject
    DEF Forget, AsCluster!Forget, Dequeue, AsCluster!Dequeue, children, maps, local,
        bounds, AsCluster!children, AsCluster!local, AsCluster!bounds
  <2> QED
    BY <2>1 DEF AsCluster!Next, AsCluster!Reconcile
<1>4. CASE Initialize
  <2>1. AsCluster!Initialize
    BY Zenon, <1>1, <1>2, <1>4, SameObject
    DEF Initialize, AsCluster!Initialize, Dequeue, AsCluster!Dequeue, ClusterOf,
        children, maps, local, bounds, AsCluster!children, AsCluster!local,
        AsCluster!bounds
  <2> QED
    BY <2>1 DEF AsCluster!Next, AsCluster!Reconcile
<1>5. CASE MarkDeleting
  <2>1. AsCluster!MarkDeleting
    BY Zenon, <1>1, <1>2, <1>5, SameObject
    DEF MarkDeleting, AsCluster!MarkDeleting, Dequeue, AsCluster!Dequeue, ClusterOf,
        AsCluster!BeingDeleted, M!Deleting, AsCluster!Deleting,
        children, maps, bounds, AsCluster!children, AsCluster!bounds
  <2> QED
    BY <2>1 DEF AsCluster!Next, AsCluster!Reconcile
<1>6. CASE Pause
  <2>1. AsCluster!Pause
    BY Zenon, <1>1, <1>2, <1>6, SameObject
    DEF Pause, AsCluster!Pause, Dequeue, AsCluster!Dequeue, ClusterOf, Running,
        AsCluster!Running, AsCluster!BeingDeleted, children, maps, local, bounds,
        AsCluster!children, AsCluster!local, AsCluster!bounds
  <2> QED
    BY <2>1 DEF AsCluster!Next, AsCluster!Reconcile
<1>7. CASE Begin
  <2>1. ClusterOf(instance)' = [spec |-> o.spec, lastApplied |-> o.lastApplied,
                                phase |-> o.phase]
    <3>1. instance' = [spec |-> object.spec, lastApplied |-> object.lastApplied,
                       phase |-> object.phase]
      BY <1>7 DEF Begin
    <3>2. ClusterOf(instance') = [spec |-> ClusterSpecOf(object.spec),
                                  lastApplied |-> object.lastApplied,
                                  phase |-> object.phase]
      BY <3>1 DEF ClusterOf
    <3> QED
      BY Zenon, <1>2, <3>2, SameObject
  <2>2. AsCluster!Begin
    BY Zenon, <1>1, <1>2, <1>7, <2>1, SameObject
    DEF Begin, AsCluster!Begin, Dequeue, AsCluster!Dequeue, ClusterOf, Running,
        AsCluster!Running, AsCluster!BeingDeleted, children, maps, bounds,
        AsCluster!children, AsCluster!bounds
  <2> QED
    BY <2>2 DEF AsCluster!Next, AsCluster!Reconcile
<1>8. CASE Finalize
  <2>1. CASE stale /\ Retry /\ UNCHANGED object
    <3>1. AsCluster!Finalize
      BY <1>8, <2>1, SameRetry
      DEF Finalize, AsCluster!Finalize, AsCluster!Conflict, children, maps, bounds,
          AsCluster!children, AsCluster!bounds
    <3> QED
      BY <3>1 DEF AsCluster!Next, AsCluster!Reconcile
  <2>2. CASE /\ ~stale /\ Discard /\ queued' = TRUE
             /\ object' = [object EXCEPT !.finalizer = FALSE, !.exists = FALSE]
    <3>1. ClusterOf(object') = [o EXCEPT !.finalizer = FALSE, !.exists = FALSE]
      BY <1>2, <2>2 DEF ObjectTypeOK, ClusterOf
    <3>2. AsCluster!Finalize
      BY <1>1, <1>8, <2>2, <3>1, SameDiscard
      DEF Finalize, AsCluster!Finalize, AsCluster!Conflict, ClusterOf, children,
          maps, bounds, AsCluster!children, AsCluster!bounds
    <3> QED
      BY <3>2 DEF AsCluster!Next, AsCluster!Reconcile
  <2> QED
    BY Zenon, <1>8, <2>1, <2>2 DEF Finalize
<1>9. CASE Finish
  <2>1. ClaimsOf(doomed.pvc) = {} /\ ClaimsOf(doomed.job) = {}
    BY <1>9 DEF Finish, ClaimsOf
  <2>2. AsCluster!Finish
    BY <1>9, <2>1, SameDiscard
    DEF Finish, AsCluster!Finish, children, maps, bounds, AsCluster!children,
        AsCluster!bounds
  <2> QED
    BY <2>2 DEF AsCluster!Next, AsCluster!Reconcile
<1>10. CASE Abandon
  <2>1. AsCluster!Abandon
    BY <1>10, SameRetry, SameFault
    DEF Abandon, AsCluster!Abandon, children, maps, AsCluster!children
  <2> QED
    BY <2>1 DEF AsCluster!Next, AsCluster!Failure
<1> QED
  BY <1>3, <1>4, <1>5, <1>6, <1>7, <1>8, <1>9, <1>10

LEMMA InstanceFields ==
  ASSUME ReconcileTypeOK
  PROVE  LET i == ClusterOf(instance)
         IN  /\ i.lastApplied = instance.lastApplied /\ i.phase = instance.phase
             /\ i.spec = ClusterSpecOf(instance.spec)
             /\ i.spec.url = instance.spec.url /\ i.spec.profiles = <<Unnamed>>
             /\ \A v : ClusterOf([instance EXCEPT !.phase = v]) = [i EXCEPT !.phase = v]
BY Zenon DEF ReconcileTypeOK, ClusterOf, ClusterSpecOf

(* A builder that is done here is done there.                              *)
LEMMA SameBuilderDone ==
  ASSUME ReconcileTypeOK, PassOK, todo # << >>, BuilderDone
  PROVE  IF Head(todo).kind \in Kinds
           THEN AsCluster!BuilderDone
           ELSE UNCHANGED <<AsCluster!local, pc>>
<1>1. todo \in Seq(BuilderType) /\ InOrder(todo)
  BY DEF ReconcileTypeOK, BuilderType, PassOK
<1>2. IF Head(todo).kind \in Kinds
        THEN MapBuildersIn(Tail(todo)) = Tail(MapBuildersIn(todo))
        ELSE MapBuildersIn(Tail(todo)) = MapBuildersIn(todo)
  BY <1>1, MapBuildersTaken
<1>3. MapBuildersIn(todo)' = MapBuildersIn(Tail(todo))
  BY DEF BuilderDone
<1> QED
  BY <1>2, <1>3 DEF BuilderDone, AsCluster!BuilderDone, AsCluster!local

(* The builder to run here is the one to run there.                        *)
LEMMA SameBuilding ==
  ASSUME ReconcileTypeOK, PassOK, NEW kind \in Kinds, NEW g, Building(kind, g)
  PROVE  AsCluster!Building(kind, <<Unnamed, g>>)
<1>1. todo \in Seq(BuilderType) /\ InOrder(todo) /\ todo # << >>
  BY DEF ReconcileTypeOK, BuilderType, PassOK, Building
<1>2. Head(todo).kind = kind /\ Head(todo).gen = g
  BY DEF Building, Builder
<1>3. /\ MapBuildersIn(todo) # << >>
      /\ Head(MapBuildersIn(todo)) = M!Builder(kind, Unnamed, g)
  BY <1>1, <1>2, MapBuildersTaken
<1> QED
  BY <1>3 DEF Building, AsCluster!Building, M!Builder

LEMMA BuildVolumeImplements ==
  ASSUME TypeOK, PassOK, NEW g \in Gen, BuildPersistentVolumeClaim(g)
  PROVE  AsCluster!BuildPersistentVolumeClaim(<<Unnamed, g>>)
<1> DEFINE c == <<Unnamed, g>>
<1>1. "PersistentVolumeClaim" \in Kinds /\ ReconcileTypeOK /\ pvc \in [Gen -> PvcState]
  BY DEF Kinds, TypeOK, ChildrenTypeOK
<1>2. AsCluster!Building("PersistentVolumeClaim", c)
  BY <1>1, SameBuilding DEF BuildPersistentVolumeClaim
<1>3. BuilderDone => AsCluster!BuilderDone
  BY <1>1, SameBuilderDone DEF BuildPersistentVolumeClaim, Building, Builder
<1>4. AsCluster!PvcView[c] = PvcView[g] /\ Claimed(pvc)[c] = pvc[g]
  BY SameViews, ClaimedAt
<1>5. pvc' = [pvc EXCEPT ![g] = "Pending"]
        => Claimed(pvc)' = [Claimed(pvc) EXCEPT ![c] = "Pending"]
  <2>1. Claimed([pvc EXCEPT ![g] = "Pending"]) = [Claimed(pvc) EXCEPT ![c] = "Pending"]
    BY <1>1, ClaimedExcept
  <2> QED
    BY <2>1
<1>6. Notify("PersistentVolumeClaim") => AsCluster!Notify("PersistentVolumeClaim")
  BY <1>1, SameNotify
<1> HIDE DEF c
<1>7. AsCluster!BuildPersistentVolumeClaim(c)
  BY <1>2, <1>3, <1>4, <1>5, <1>6, SameRetry
  DEF BuildPersistentVolumeClaim, AsCluster!BuildPersistentVolumeClaim, bounds,
      AsCluster!bounds
<1> QED
  BY <1>7 DEF c

LEMMA BuildJobImplements ==
  ASSUME TypeOK, PassOK, NEW g \in Gen, BuildJob(g)
  PROVE  AsCluster!BuildJob(<<Unnamed, g>>)
<1> DEFINE c == <<Unnamed, g>>
<1>1. /\ "Job" \in Kinds /\ ReconcileTypeOK
      /\ job \in [Gen -> JobState] /\ source \in [Gen -> OldUrl]
  BY DEF Kinds, TypeOK, ChildrenTypeOK
<1>2. AsCluster!Building("Job", c)
  BY <1>1, SameBuilding DEF BuildJob
<1>3. BuilderDone => AsCluster!BuilderDone
  BY <1>1, SameBuilderDone DEF BuildJob, Building, Builder
<1>4. AsCluster!JobView[c] = JobView[g] /\ Claimed(job)[c] = job[g]
  BY SameViews, ClaimedAt
<1>5. job' = [job EXCEPT ![g] = "Active"]
        => Claimed(job)' = [Claimed(job) EXCEPT ![c] = "Active"]
  <2>1. Claimed([job EXCEPT ![g] = "Active"]) = [Claimed(job) EXCEPT ![c] = "Active"]
    BY <1>1, ClaimedExcept
  <2> QED
    BY <2>1
<1>6. source' = [source EXCEPT ![g] = instance.spec.url]
        => Claimed(source)' = [Claimed(source) EXCEPT ![c] = instance.spec.url]
  <2>1. Claimed([source EXCEPT ![g] = instance.spec.url]) = [Claimed(source) EXCEPT ![c] = instance.spec.url]
    BY <1>1, ClaimedExcept
  <2> QED
    BY <2>1
<1>7. Notify("Job") => AsCluster!Notify("Job")
  BY <1>1, SameNotify
<1>8. ClusterOf(instance).spec.url = instance.spec.url
  BY <1>1, InstanceFields
<1> HIDE DEF c
<1>9. AsCluster!BuildJob(c)
  BY <1>2, <1>3, <1>4, <1>5, <1>6, <1>7, <1>8, SameRetry
  DEF BuildJob, AsCluster!BuildJob, bounds, AsCluster!bounds, ClusterOf
<1> QED
  BY <1>9 DEF c

LEMMA BuildDeploymentImplements ==
  ASSUME TypeOK, PassOK, NEW g \in Gen, BuildDeployment(g)
  PROVE  AsCluster!BuildDeployment(<<Unnamed, g>>)
<1> DEFINE c == <<Unnamed, g>>
<1>1. "Deployment" \in Kinds /\ ReconcileTypeOK /\ ready \in BOOLEAN
  BY DEF Kinds, TypeOK, ChildrenTypeOK
<1>2. AsCluster!Building("Deployment", c)
  BY <1>1, SameBuilding DEF BuildDeployment
<1>3. BuilderDone => AsCluster!BuilderDone
  BY <1>1, SameBuilderDone DEF BuildDeployment, Building, Builder
<1>4. AsCluster!DeploymentIsCurrent(Unnamed) <=> DeploymentIsCurrent
  <2>1. DepView = [dep |-> DepView.dep, ready |-> DepView.ready] /\ DepView.ready \in BOOLEAN
    BY <1>1 DEF DepView, TypeOK, ChildrenTypeOK
  <2>2. DeploymentIsCurrent <=> DepView.dep = dep /\ DepView.ready = ready
    BY <2>1 DEF DeploymentIsCurrent
  <2>3. AsCluster!DeploymentIsCurrent(Unnamed)
          <=> DepView.dep = dep /\ (DepView.ready <=> ready)
    BY SameViews DEF AsCluster!DeploymentIsCurrent, SetOf
  <2> QED
    BY <1>1, <2>1, <2>2, <2>3
<1>5. dep' = g => [p \in {Unnamed} |-> dep]' = [[p \in {Unnamed} |-> dep] EXCEPT ![Unnamed] = g]
  OBVIOUS
<1>6. /\ UNCHANGED ready => UNCHANGED SetOf(ready)
      /\ ready' = FALSE => SetOf(ready)' = SetOf(ready) \ {Unnamed}
  BY DEF SetOf
<1>7. Notify("Deployment") => AsCluster!Notify("Deployment")
  BY <1>1, SameNotify
<1>8. c[1] = Unnamed /\ c[2] = g /\ [p \in {Unnamed} |-> dep][Unnamed] = dep
  OBVIOUS
<1> HIDE DEF c
<1>9. AsCluster!BuildDeployment(c)
  BY <1>2, <1>3, <1>4, <1>5, <1>6, <1>7, <1>8, SameRetry
  DEF BuildDeployment, AsCluster!BuildDeployment, bounds, AsCluster!bounds, SetOf
<1> QED
  BY <1>9 DEF c

(* What concerns neither maps nor workers, and may have queued the key.    *)
LEMMA OnlyWakes ==
  ASSUME ObjectTypeOK, object.exists, queued' = queued \/ queued' = TRUE,
         UNCHANGED <<object, maps, seen, pc, edits, faults>>,
         UNCHANGED AsCluster!local
  PROVE  ClusterStep
<1>1. UNCHANGED AsCluster!children /\ UNCHANGED AsCluster!bounds
  BY SameChildren DEF AsCluster!bounds
<1>2. ClusterOf(object).exists /\ queued \in BOOLEAN
  BY Zenon, SameObject DEF ObjectTypeOK
<1>3. CASE queued' = queued
  BY <1>1, <1>3 DEF ClusterStep, AsCluster!vars
<1>4. CASE queued' # queued
  <2>1. AsCluster!Wake
    BY <1>1, <1>2, <1>4 DEF AsCluster!Wake, ClusterOf
  <2> QED
    BY <2>1 DEF ClusterStep, AsCluster!Next
<1> QED
  BY <1>3, <1>4

LEMMA NotifyWakes ==
  ASSUME NEW kind, Notify(kind), queued \in BOOLEAN
  PROVE  queued' = queued \/ queued' = TRUE
BY DEF Notify

(* The builders of the objects to serve with.                              *)
LEMMA BuildOthersImplements ==
  ASSUME TypeOK, PassOK, NEW g \in Gen,
         BuildCronJob(g) \/ \E kind \in ServingKinds : BuildServing(kind, g)
  PROVE  ClusterStep
<1>1. PICK kind \in BuilderKinds \ Kinds :
        /\ Building(kind, g) /\ BuilderDone
        /\ UNCHANGED queued \/ Notify(kind)
        /\ UNCHANGED <<object, maps, seen, bounds>>
  BY DEF BuildCronJob, BuildServing, BuilderKinds, ServingKinds, Kinds
<1>2. object.exists /\ ObjectTypeOK /\ ReconcileTypeOK /\ queued \in BOOLEAN
  BY <1>1 DEF PassOK, Building, TypeOK, ObjectTypeOK
<1>3. queued' = queued \/ queued' = TRUE
  BY <1>1, <1>2, NotifyWakes
<1>4. todo # << >> /\ Head(todo).kind \notin Kinds
  BY <1>1 DEF Building, Builder
<1>5. UNCHANGED <<AsCluster!local, pc>>
  BY <1>1, <1>2, <1>4, SameBuilderDone
<1> QED
  BY <1>1, <1>2, <1>3, <1>5, OnlyWakes DEF bounds

LEMMA RecordImplements ==
  ASSUME TypeOK, PassOK, SetLastAppliedSpecAnnotation
  PROVE  AsCluster!SetLastAppliedSpecAnnotation
<1> DEFINE o == ClusterOf(object)
<1>1. /\ ObjectTypeOK /\ ReconcileTypeOK /\ pc = "build" /\ todo = << >>
      /\ UNCHANGED <<maps, seen, bounds>>
  BY DEF TypeOK, SetLastAppliedSpecAnnotation, children
<1>2. MapBuildersIn(todo) = << >>
  BY <1>1, NoBuildersLeft
<1>3. UNCHANGED AsCluster!children /\ UNCHANGED AsCluster!bounds
  BY <1>1, SameChildren DEF bounds, AsCluster!bounds
<1>4. CASE stale /\ Retry /\ UNCHANGED object
  BY <1>1, <1>2, <1>3, <1>4, SameRetry
  DEF AsCluster!SetLastAppliedSpecAnnotation, AsCluster!Conflict
<1>5. CASE ~(stale /\ Retry /\ UNCHANGED object)
  <2>1. /\ ~stale
        /\ object' = [object EXCEPT !.lastApplied = instance.spec.url]
        /\ queued' = (queued \/ object' # object)
        /\ pc' = "gcChildren"
        /\ doomed' = [doomed EXCEPT !.cron =
                        cron # 0 /\ ~CronJobExpected(instance.spec)]
        /\ UNCHANGED <<instance, stale, todo>>
    BY <1>5 DEF SetLastAppliedSpecAnnotation
  <2>2. ClusterOf(object') = [o EXCEPT !.lastApplied = instance.spec.url]
    BY <1>1, <2>1 DEF ObjectTypeOK, ClusterOf
  <2>3. ClusterOf(instance).spec.url = instance.spec.url
    BY <1>1, InstanceFields
  <2>4. ClusterOf(object') # o <=> object' # object
    BY <1>1, <2>1, <2>2 DEF ObjectTypeOK, ClusterOf
  <2>5. doomed.pvc = {} /\ doomed.job = {}
    BY <1>1 DEF PassOK
  <2>6. doomed'.pvc = {} /\ doomed'.job = {}
    BY <1>1, <2>1, <2>5 DEF ReconcileTypeOK
  <2>7. {p \in {Unnamed} : AsCluster!DepView[p] # 0}
          \ AsCluster!ProfileSet(ClusterOf(instance).spec.profiles) = {}
    BY <1>1, InstanceFields, SameProfiles
  <2>8. [dep |-> {}, pvc |-> ClaimsOf(doomed'.pvc), job |-> ClaimsOf(doomed'.job)]
          = [AsCluster!NothingDoomed EXCEPT !.dep =
               {p \in {Unnamed} : AsCluster!DepView[p] # 0}
                 \ AsCluster!ProfileSet(ClusterOf(instance).spec.profiles)]
    BY <2>6, <2>7 DEF ClaimsOf, AsCluster!NothingDoomed
  <2> QED
    BY <1>1, <1>2, <1>3, <2>1, <2>2, <2>3, <2>4, <2>8
    DEF AsCluster!SetLastAppliedSpecAnnotation, AsCluster!Conflict, ClusterOf
<1> QED
  BY <1>4, <1>5

LEMMA BuildImplements ==
  ASSUME TypeOK, PassOK, Build
  PROVE  ClusterStep \/ \E g \in Gen : AutoscalerPanics(g)
<1>1. CASE SetLastAppliedSpecAnnotation
  BY <1>1, RecordImplements
  DEF ClusterStep, AsCluster!Next, AsCluster!Reconcile, AsCluster!Build
<1>2. ASSUME NEW g \in Gen,
             BuildPersistentVolumeClaim(g) \/ BuildJob(g) \/ BuildDeployment(g)
      PROVE  ClusterStep
  <2>1. <<Unnamed, g>> \in AsCluster!Claim
    BY ClaimedAt
  <2>2. \/ AsCluster!BuildPersistentVolumeClaim(<<Unnamed, g>>)
        \/ AsCluster!BuildJob(<<Unnamed, g>>)
        \/ AsCluster!BuildDeployment(<<Unnamed, g>>)
    BY <1>2, BuildVolumeImplements, BuildJobImplements, BuildDeploymentImplements
  <2>3. AsCluster!Build
    BY <2>1, <2>2 DEF AsCluster!Build
  <2> QED
    BY <2>3 DEF ClusterStep, AsCluster!Next, AsCluster!Reconcile
<1> QED
  BY <1>1, <1>2, BuildOthersImplements DEF Build

LEMMA GarbageCollectionImplements ==
  ASSUME TypeOK, PassOK, GarbageCollection
  PROVE  ClusterStep
<1>1. /\ ObjectTypeOK /\ ReconcileTypeOK /\ queued \in BOOLEAN
      /\ pvc \in [Gen -> PvcState] /\ volume \in [Gen -> OldUrl]
      /\ job \in [Gen -> JobState] /\ source \in [Gen -> OldUrl]
      /\ doomed \in [cron : BOOLEAN, pvc : SUBSET Gen, job : SUBSET Gen]
  BY DEF TypeOK, ObjectTypeOK, ChildrenTypeOK, ReconcileTypeOK
<1>2. CASE DeleteCronJob
  <2>1. /\ object.exists /\ Notify("CronJob")
        /\ UNCHANGED <<object, maps, seen, pc, bounds, instance, stale, todo>>
        /\ doomed' = [doomed EXCEPT !.cron = FALSE]
    BY <1>2 DEF DeleteCronJob, PassOK
  <2>2. queued' = queued \/ queued' = TRUE
    BY <1>1, <2>1, NotifyWakes
  <2>3. doomed'.pvc = doomed.pvc /\ doomed'.job = doomed.job
    BY <1>1, <2>1
  <2>4. UNCHANGED AsCluster!local
    BY <2>1, <2>3 DEF AsCluster!local
  <2> QED
    BY <1>1, <2>1, <2>2, <2>4, OnlyWakes DEF bounds
<1>3. CASE ListClaims
  <2> DEFINE active == GetActiveMapGeneration(DepView.dep)
             future == GetFutureMapGeneration(PvcView)
             expected == Expected(instance.phase, active, future)
             i == ClusterOf(instance)
  <2>1. /\ pc = "gcChildren" /\ pc' = "gcClaims"
        /\ doomed' = [doomed EXCEPT !.pvc = Existing(PvcView) \ expected,
                                    !.job = Existing(JobView) \ expected]
        /\ UNCHANGED <<object, maps, seen, queued, instance, stale, todo, bounds>>
    BY <1>3 DEF ListClaims, children
  <2>2. /\ AsCluster!GetActiveMapGeneration(i.spec.profiles, AsCluster!DepView) = active
        /\ AsCluster!GetFutureMapGeneration(AsCluster!Existing(AsCluster!PvcView)) = future
    BY <1>1, InstanceFields, SameViews, SameActive, SameFuture
  <2>3. AsCluster!ExpectedClaims(i.spec.profiles, i.phase, active, future)
          = ClaimsOf(expected)
    BY <1>1, InstanceFields, SameExpected
  <2>4. /\ ClaimsOf(Existing(PvcView) \ expected)
             = AsCluster!Existing(AsCluster!PvcView) \ ClaimsOf(expected)
        /\ ClaimsOf(Existing(JobView) \ expected)
             = AsCluster!Existing(AsCluster!JobView) \ ClaimsOf(expected)
    <3>1. /\ AsCluster!Existing(AsCluster!PvcView) = ClaimsOf(Existing(PvcView))
          /\ AsCluster!Existing(AsCluster!JobView) = ClaimsOf(Existing(JobView))
      BY SameViews, SameClaims
    <3>2. \A X, Y : ClaimsOf(X \ Y) = ClaimsOf(X) \ ClaimsOf(Y)
      BY DEF ClaimsOf
    <3> QED
      BY <3>1, <3>2
  <2> HIDE DEF active, future, expected
  <2>5. /\ doomed'.pvc = Existing(PvcView) \ expected
        /\ doomed'.job = Existing(JobView) \ expected
    BY <1>1, <2>1
  <2>6. [dep |-> {}, pvc |-> ClaimsOf(doomed.pvc), job |-> ClaimsOf(doomed.job)]'
          = [[dep |-> {}, pvc |-> ClaimsOf(doomed.pvc), job |-> ClaimsOf(doomed.job)]
              EXCEPT !.pvc = AsCluster!Existing(AsCluster!PvcView) \ ClaimsOf(expected),
                     !.job = AsCluster!Existing(AsCluster!JobView) \ ClaimsOf(expected)]
    <3> DEFINE P == AsCluster!Existing(AsCluster!PvcView) \ ClaimsOf(expected)
               J == AsCluster!Existing(AsCluster!JobView) \ ClaimsOf(expected)
    <3>1. ClaimsOf(doomed'.pvc) = P /\ ClaimsOf(doomed'.job) = J
      BY <2>4, <2>5
    <3> HIDE DEF P, J
    <3> DEFINE r == [dep |-> {}, pvc |-> ClaimsOf(doomed.pvc), job |-> ClaimsOf(doomed.job)]
               e == [r EXCEPT !.pvc = P, !.job = J]
               T == [dep : {{}}, pvc : {ClaimsOf(doomed.pvc), P},
                     job : {ClaimsOf(doomed.job), J}]
    <3>2. r \in T
      OBVIOUS
    <3> HIDE DEF r
    <3>3. e \in T /\ e.dep = {} /\ e.pvc = P /\ e.job = J
      BY <3>2
    <3> HIDE DEF e
    <3>4. e = [dep |-> {}, pvc |-> P, job |-> J]
      BY <3>3
    <3> QED
      BY <3>1, <3>4 DEF P, J, e, r
  <2>7. UNCHANGED AsCluster!children
    BY <2>1, SameChildren
  <2> DEFINE Act == AsCluster!GetActiveMapGeneration(i.spec.profiles, AsCluster!DepView)
             Fut == AsCluster!GetFutureMapGeneration(AsCluster!Existing(AsCluster!PvcView))
             Exp == AsCluster!ExpectedClaims(i.spec.profiles, i.phase, Act, Fut)
  <2>8. Exp = ClaimsOf(expected)
    BY <2>2, <2>3
  <2> HIDE DEF i, Act, Fut, Exp
  <2>9. AsCluster!UnexpectedJobs(Exp) = AsCluster!Existing(AsCluster!JobView) \ Exp
    BY DEF AsCluster!UnexpectedJobs
  <2>10. /\ UNCHANGED <<ClusterOf(object), seen, queued, i, stale, MapBuildersIn(todo)>>
         /\ UNCHANGED AsCluster!bounds
    BY <2>1 DEF bounds, AsCluster!bounds, i
  <2>11. [dep |-> {}, pvc |-> ClaimsOf(doomed.pvc), job |-> ClaimsOf(doomed.job)]'
           = [[dep |-> {}, pvc |-> ClaimsOf(doomed.pvc), job |-> ClaimsOf(doomed.job)]
               EXCEPT !.pvc = AsCluster!Existing(AsCluster!PvcView) \ Exp,
                      !.job = AsCluster!UnexpectedJobs(Exp)]
    BY <2>6, <2>8, <2>9
  <2>12. AsCluster!ListClaims
    BY <2>1, <2>7, <2>10, <2>11
    DEF AsCluster!ListClaims, ClusterOf, i, Act, Fut, Exp
  <2> QED
    BY <2>12 DEF ClusterStep, AsCluster!Next, AsCluster!Reconcile,
       AsCluster!GarbageCollection
<1>4. ASSUME NEW g \in Gen, DeletePersistentVolumeClaim(g) PROVE ClusterStep
  <2> DEFINE c == <<Unnamed, g>>
  <2>1. c \in AsCluster!Claim
    BY ClaimedAt
  <2>2. /\ pc = "gcClaims" /\ g \in doomed.pvc
        /\ pvc' = [pvc EXCEPT ![g] = "Absent"]
        /\ volume' = [volume EXCEPT ![g] = NoUrl]
        /\ doomed' = [doomed EXCEPT !.pvc = @ \ {g}]
        /\ Notify("PersistentVolumeClaim")
    BY <1>4 DEF DeletePersistentVolumeClaim
  <2>3. Claimed([pvc EXCEPT ![g] = "Absent"]) = [Claimed(pvc) EXCEPT ![c] = "Absent"]
    BY <1>1, ClaimedExcept
  <2>4. Claimed([volume EXCEPT ![g] = NoUrl]) = [Claimed(volume) EXCEPT ![c] = NoUrl]
    BY <1>1, ClaimedExcept
  <2>5. doomed'.pvc = doomed.pvc \ {g} /\ doomed'.job = doomed.job
    BY <1>1, <2>2
  <2>6. c \in ClaimsOf(doomed.pvc) /\ ClaimsOf(doomed.pvc \ {g}) = ClaimsOf(doomed.pvc) \ {c}
    <3>1. doomed.pvc \in SUBSET Gen
      BY <1>1
    <3> QED
      BY Zenon, <2>2, <3>1, ClaimsOfExcept
  <2>7. AsCluster!Notify("PersistentVolumeClaim")
    BY <2>2, SameNotify DEF Kinds
  <2> HIDE DEF c
  <2>8. [dep |-> {}, pvc |-> ClaimsOf(doomed.pvc), job |-> ClaimsOf(doomed.job)]'
          = [[dep |-> {}, pvc |-> ClaimsOf(doomed.pvc), job |-> ClaimsOf(doomed.job)]
              EXCEPT !.pvc = @ \ {c}]
    BY <2>5, <2>6
  <2>9. AsCluster!DeletePersistentVolumeClaim(c)
    BY <1>4, <2>2, <2>3, <2>4, <2>6, <2>7, <2>8
    DEF DeletePersistentVolumeClaim, AsCluster!DeletePersistentVolumeClaim, bounds,
        AsCluster!bounds
  <2> QED
    BY <2>1, <2>9 DEF ClusterStep, AsCluster!Next, AsCluster!Reconcile,
       AsCluster!GarbageCollection
<1>5. ASSUME NEW g \in Gen, DeleteJob(g) PROVE ClusterStep
  <2> DEFINE c == <<Unnamed, g>>
  <2>1. c \in AsCluster!Claim
    BY ClaimedAt
  <2>2. /\ pc = "gcClaims" /\ doomed.pvc = {} /\ g \in doomed.job
        /\ job' = [job EXCEPT ![g] = "Absent"]
        /\ source' = [source EXCEPT ![g] = NoUrl]
        /\ doomed' = [doomed EXCEPT !.job = @ \ {g}]
        /\ Notify("Job")
    BY <1>5 DEF DeleteJob
  <2>3. Claimed([job EXCEPT ![g] = "Absent"]) = [Claimed(job) EXCEPT ![c] = "Absent"]
    BY <1>1, ClaimedExcept
  <2>4. Claimed([source EXCEPT ![g] = NoUrl]) = [Claimed(source) EXCEPT ![c] = NoUrl]
    BY <1>1, ClaimedExcept
  <2>5. doomed'.job = doomed.job \ {g} /\ doomed'.pvc = doomed.pvc
    BY <1>1, <2>2
  <2>6. /\ c \in ClaimsOf(doomed.job)
        /\ ClaimsOf(doomed.job \ {g}) = ClaimsOf(doomed.job) \ {c}
    <3>1. doomed.job \in SUBSET Gen
      BY <1>1
    <3> QED
      BY Zenon, <2>2, <3>1, ClaimsOfExcept
  <2>7. ClaimsOf(doomed.pvc) = {}
    BY <2>2 DEF ClaimsOf
  <2>8. AsCluster!Notify("Job")
    BY <2>2, SameNotify DEF Kinds
  <2> HIDE DEF c
  <2>9. [dep |-> {}, pvc |-> ClaimsOf(doomed.pvc), job |-> ClaimsOf(doomed.job)]'
          = [[dep |-> {}, pvc |-> ClaimsOf(doomed.pvc), job |-> ClaimsOf(doomed.job)]
              EXCEPT !.job = @ \ {c}]
    BY <2>5, <2>6
  <2>10. AsCluster!DeleteJob(c)
    BY <1>5, <2>2, <2>3, <2>4, <2>6, <2>7, <2>8, <2>9
    DEF DeleteJob, AsCluster!DeleteJob, bounds, AsCluster!bounds
  <2> QED
    BY <2>1, <2>10 DEF ClusterStep, AsCluster!Next, AsCluster!Reconcile,
       AsCluster!GarbageCollection
<1> QED
  BY <1>2, <1>3, <1>4, <1>5 DEF GarbageCollection

(* A reconciliation decides the same from the same children.               *)
LEMMA PlanImplements ==
  ASSUME TypeOK, NEW lost \in SUBSET Kinds, PlanWithout(lost)
  PROVE  AsCluster!PlanWithout(lost)
<1> DEFINE
      pvcs == IF "PersistentVolumeClaim" \in lost
                THEN [g \in Gen |-> "Absent"] ELSE PvcView
      jobs == IF "Job" \in lost THEN [g \in Gen |-> "Absent"] ELSE JobView
      d == IF "Deployment" \in lost THEN [dep |-> 0, ready |-> FALSE] ELSE DepView
      active == GetActiveMapGeneration(d.dep)
      future == GetFutureMapGeneration(pvcs)
      phase == DeterminePhase(instance.spec, instance.lastApplied, active, future,
                              pvcs, jobs, d.ready)
      Pvcs == IF "PersistentVolumeClaim" \in lost
                THEN [c \in AsCluster!Claim |-> "Absent"] ELSE AsCluster!PvcView
      Jobs == IF "Job" \in lost
                THEN [c \in AsCluster!Claim |-> "Absent"] ELSE AsCluster!JobView
      Deps == IF "Deployment" \in lost THEN AsCluster!NoDeployments
                ELSE AsCluster!DepView
      Ready == IF "Deployment" \in lost THEN {} ELSE AsCluster!ReadyView
      i == ClusterOf(instance)
      o == ClusterOf(object)
      Act == AsCluster!GetActiveMapGeneration(i.spec.profiles, Deps)
      Fut == AsCluster!GetFutureMapGeneration(AsCluster!Existing(Pvcs))
      Ph == AsCluster!DeterminePhase(i.spec, i.lastApplied, Act, Fut,
              AsCluster!Bound(Pvcs), AsCluster!Completed(Jobs), Ready)
<1>1. ObjectTypeOK /\ ReconcileTypeOK /\ ChildrenTypeOK
  BY DEF TypeOK
<1>2. /\ pc = "plan"
      /\ IF lost = {} THEN UNCHANGED faults ELSE Fault("list")
      /\ \/ phase # instance.phase /\ stale /\ Retry /\ UNCHANGED object
         \/ /\ phase # instance.phase => ~stale
            /\ phase = M!UpdatingMap => M!GetNextMapGeneration(active) \in Gen
            /\ object' = [object EXCEPT !.phase =
                            IF phase = instance.phase THEN @ ELSE phase]
            /\ queued' = (queued \/ phase # instance.phase)
            /\ instance' = [instance EXCEPT !.phase = phase]
            /\ todo' = ResourceBuildersForPhase(phase, instance.spec, active,
                                                future)
            /\ pc' = "build"
            /\ UNCHANGED <<stale, doomed>>
      /\ UNCHANGED <<children, seen, edits, losses>>
  BY DEF PlanWithout
<1>3. Pvcs = Claimed(pvcs) /\ Jobs = Claimed(jobs)
  BY SameViews, ClaimedConstant
<1>4. Deps = [p \in {Unnamed} |-> d.dep] /\ Ready = SetOf(d.ready)
  BY SameViews DEF AsCluster!NoDeployments, SetOf
<1>5. d.dep \in 0 .. MaxGen /\ pvcs \in [Gen -> PvcState]
  BY <1>1, BoundsType DEF ChildrenTypeOK, DepView, PvcView, PvcState
<1>6. active \in Gen /\ future \in Gen
  <2>1. active \in Gen
    BY <1>5, ActiveIsGeneration
  <2>2. {Unnamed} \X Existing(pvcs) \in SUBSET ({Unnamed} \X Gen)
    BY DEF Existing
  <2>3. future \in Gen
    BY <2>2, FutureIsGeneration DEF GetFutureMapGeneration
  <2> QED
    BY <2>1, <2>3
<1> HIDE DEF pvcs, jobs, d, Pvcs, Jobs, Deps, Ready
<1>7. /\ i.spec = ClusterSpecOf(instance.spec) /\ i.spec.profiles = <<Unnamed>>
      /\ i.lastApplied = instance.lastApplied /\ i.phase = instance.phase
      /\ \A v : ClusterOf([instance EXCEPT !.phase = v]) = [i EXCEPT !.phase = v]
  BY <1>1, InstanceFields
<1> HIDE DEF i
<1>8. Act = active
  BY <1>4, <1>7, SameActive
<1>9. Fut = future
  BY <1>3, SameFuture
<1> HIDE DEF active, future, Act, Fut
<1>10. Ph = phase
  BY <1>3, <1>4, <1>7, <1>8, <1>9, SamePhase DEF SetOf
<1>11. phase \in M!Phase \ {M!Empty, M!Deleting}
  BY PhaseIsPhase
<1> HIDE DEF phase, Ph
<1>12. UNCHANGED AsCluster!children /\ UNCHANGED seen /\ UNCHANGED edits
  BY <1>2, SameChildren DEF children
<1>13. IF lost = {} THEN UNCHANGED faults ELSE AsCluster!Fault("list")
  BY <1>2, SameFault
<1>14. /\ AsCluster!UpdatingMap = M!UpdatingMap /\ AsCluster!Gen = Gen
       /\ \A g : AsCluster!GetNextMapGeneration(g) = M!GetNextMapGeneration(g)
  BY DEF AsCluster!UpdatingMap, M!UpdatingMap, AsCluster!Gen, Gen,
     AsCluster!GetNextMapGeneration, M!GetNextMapGeneration
<1>15. CASE phase # instance.phase /\ stale /\ Retry /\ UNCHANGED object
  <2>1. AsCluster!Retry
    BY <1>15, SameRetry
  <2>2. Ph # i.phase /\ stale /\ UNCHANGED o
    BY <1>7, <1>10, <1>15
  <2> QED
    BY <1>2, <1>12, <1>13, <2>1, <2>2
    DEF AsCluster!PlanWithout, AsCluster!Conflict, Ph, Act, Fut, Pvcs, Jobs, Deps,
        Ready, i, ClusterOf
<1>16. CASE ~(phase # instance.phase /\ stale /\ Retry /\ UNCHANGED object)
  <2>1. /\ phase # instance.phase => ~stale
        /\ phase = M!UpdatingMap => M!GetNextMapGeneration(active) \in Gen
        /\ object' = [object EXCEPT !.phase =
                        IF phase = instance.phase THEN @ ELSE phase]
        /\ queued' = (queued \/ phase # instance.phase)
        /\ instance' = [instance EXCEPT !.phase = phase]
        /\ todo' = ResourceBuildersForPhase(phase, instance.spec, active, future)
        /\ pc' = "build"
        /\ UNCHANGED <<stale, doomed>>
    BY <1>2, <1>16
  <2>2. MapBuildersIn(todo') = AsCluster!ResourceBuildersForPhase(Ph, i.spec.profiles,
                                                                  Act, Fut)
    BY <1>6, <1>7, <1>8, <1>9, <1>10, <1>11, <2>1, SameBuilders
  <2>3. ClusterOf(object') = IF Ph = i.phase THEN o ELSE [o EXCEPT !.phase = Ph]
    <3>1. CASE phase = instance.phase
      <4>1. object' = object
        BY <1>1, <2>1, <3>1 DEF ObjectTypeOK
      <4> QED
        BY <1>7, <1>10, <3>1, <4>1
    <3>2. CASE phase # instance.phase
      <4>1. object' = [object EXCEPT !.phase = phase]
        BY <2>1, <3>2
      <4>2. ClusterOf([object EXCEPT !.phase = phase]) = [o EXCEPT !.phase = phase]
        BY Zenon, <1>1, SameObject
      <4> QED
        BY <1>7, <1>10, <3>2, <4>1, <4>2
    <3> QED
      BY <3>1, <3>2
  <2>4. ClusterOf(instance') = [i EXCEPT !.phase = Ph]
    BY <1>7, <1>10, <2>1
  <2>5. /\ Ph # i.phase => ~stale
        /\ Ph = AsCluster!UpdatingMap
             => AsCluster!GetNextMapGeneration(Act) \in AsCluster!Gen
        /\ queued' = (queued \/ Ph # i.phase)
    BY <1>7, <1>8, <1>10, <1>14, <2>1
  <2> QED
    BY <1>2, <1>12, <1>13, <2>1, <2>2, <2>3, <2>4, <2>5
    DEF AsCluster!PlanWithout, AsCluster!Conflict, Ph, Act, Fut, Pvcs, Jobs, Deps,
        Ready, i, ClusterOf
<1> QED
  BY <1>15, <1>16

LEMMA UserImplements ==
  ASSUME TypeOK, PassOK, User
  PROVE  ClusterStep
<1> DEFINE o == ClusterOf(object)
<1>1. ObjectTypeOK /\ queued \in BOOLEAN
  BY DEF TypeOK, ObjectTypeOK
<1>2. ASSUME NEW op, UserWrites(op) PROVE AsCluster!UserWrites(op)
  <2>1. UNCHANGED AsCluster!children /\ o.exists = object.exists
    BY Zenon, <1>1, <1>2, SameChildren, SameObject DEF UserWrites, children
  <2>2. "OSRMInstance" \notin Lagging /\ "OSRMCluster" \notin Lagging
    BY InstanceAssumption
  <2>3. queued' = TRUE
    BY <1>2, <2>2 DEF UserWrites, Notify, Watched
  <2>4. AsCluster!Notify("OSRMCluster")
    BY <2>2, <2>3 DEF AsCluster!Notify, AsCluster!Watched
  <2> QED
    BY <1>2, <2>1, <2>4 DEF UserWrites, AsCluster!UserWrites, ClusterOf
<1>3. CASE EditSpec
  <2>1. PICK s \in Specs : object' = [object EXCEPT !.spec = s]
    BY <1>3 DEF EditSpec
  <2>2. ClusterOf(object') = [o EXCEPT !.spec = ClusterSpecOf(s)]
    BY <1>1, <2>1 DEF ObjectTypeOK, ClusterOf
  <2>3. AsCluster!UserWrites("edit")
    BY <1>2, <1>3 DEF EditSpec
  <2>4. AsCluster!EditSpec
    BY Zenon, <2>2, <2>3 DEF AsCluster!EditSpec, ClusterOf
  <2> QED
    BY <2>4 DEF ClusterStep, AsCluster!Next, AsCluster!User
<1>4. CASE TogglePause
  <2>1. ClusterOf(object') = [o EXCEPT !.paused = ~@]
    BY <1>1, <1>4 DEF TogglePause, ObjectTypeOK, ClusterOf
  <2>2. AsCluster!UserWrites("pause")
    BY <1>2, <1>4 DEF TogglePause
  <2>3. AsCluster!TogglePause
    BY <2>1, <2>2 DEF AsCluster!TogglePause, ClusterOf
  <2> QED
    BY <2>3 DEF ClusterStep, AsCluster!Next, AsCluster!User
<1>5. CASE Delete
  <2>1. ClusterOf(object') = [o EXCEPT !.deleting = TRUE,
                                       !.exists = @ /\ o.finalizer]
    <3>1. object' = [object EXCEPT !.deleting = TRUE,
                                   !.exists = @ /\ object.finalizer]
      BY <1>5 DEF Delete
    <3>2. o.finalizer = object.finalizer /\ o.exists = object.exists
      BY Zenon, <1>1, SameObject
    <3> QED
      BY Zenon, <1>1, <3>1, <3>2 DEF ObjectTypeOK, ClusterOf
  <2>2. AsCluster!UserWrites("delete") /\ ~o.deleting
    BY Zenon, <1>1, <1>2, <1>5, SameObject DEF Delete
  <2>3. AsCluster!Delete
    BY <2>1, <2>2 DEF AsCluster!Delete, ClusterOf
  <2> QED
    BY <2>3 DEF ClusterStep, AsCluster!Next, AsCluster!User
<1>6. ASSUME NEW kind, Lose(kind), UNCHANGED maps PROVE ClusterStep
  <2>1. /\ object.exists /\ Notify(kind)
        /\ UNCHANGED <<object, maps, seen, pc, local, edits, faults>>
    BY <1>6 DEF Lose
  <2>2. queued' = queued \/ queued' = TRUE
    BY <1>1, <2>1, NotifyWakes
  <2>3. UNCHANGED AsCluster!local
    BY <2>1, SameLocal
  <2> QED
    BY <1>1, <2>1, <2>2, <2>3, OnlyWakes
<1>7. CASE RemoveCronJob
  BY <1>6, <1>7 DEF RemoveCronJob, Lose
<1>8. ASSUME NEW kind \in ServingKinds, RemoveServing(kind) PROVE ClusterStep
  BY <1>6, <1>8 DEF RemoveServing, Lose
<1> QED
  BY <1>3, <1>4, <1>5, <1>7, <1>8 DEF User

(* What the caches hold is as new there as it is here.                     *)
LEMMA SyncImplements ==
  ASSUME TypeOK, NEW kind \in Kinds, Sync(kind)
  PROVE  AsCluster!Sync(kind)
<1> DEFINE View(s) == [pvc |-> Claimed(s.pvc), job |-> Claimed(s.job),
                       dep |-> [p \in {Unnamed} |-> s.dep], ready |-> SetOf(s.ready)]
<1>1. /\ pvc \in [Gen -> PvcState] /\ job \in [Gen -> JobState]
      /\ dep \in 0 .. MaxGen /\ ready \in BOOLEAN
      /\ seen \in [pvc : [Gen -> PvcState], job : [Gen -> JobState],
                   dep : 0 .. MaxGen, ready : BOOLEAN]
  BY DEF TypeOK, ChildrenTypeOK
<1>2. ASSUME NEW S, NEW f \in [Gen -> S], NEW h \in [Gen -> S],
             Claimed(f) = Claimed(h)
      PROVE  f = h
  <2>1. ASSUME NEW g \in Gen PROVE f[g] = h[g]
    BY <1>2, ClaimedAt
  <2> QED
    BY <2>1
<1>3. ASSUME NEW d, NEW e, [p \in {Unnamed} |-> d] = [p \in {Unnamed} |-> e]
      PROVE  d = e
  <2>1. [p \in {Unnamed} |-> d][Unnamed] = d /\ [p \in {Unnamed} |-> e][Unnamed] = e
    OBVIOUS
  <2> QED
    BY <1>3, <2>1
<1>4. SetOf(seen.ready) = SetOf(ready) => seen.ready = ready
  BY <1>1 DEF SetOf
<1>5. AsCluster!Current(kind) = View(Current(kind))
  <2>1. CASE kind = "PersistentVolumeClaim"
    <3>1. Current(kind) = [seen EXCEPT !.pvc = pvc]
      BY <2>1 DEF Current
    <3>2. View([seen EXCEPT !.pvc = pvc]) = [View(seen) EXCEPT !.pvc = Claimed(pvc)]
      BY <1>1
    <3>3. AsCluster!Current(kind) = [View(seen) EXCEPT !.pvc = Claimed(pvc)]
      BY <2>1 DEF AsCluster!Current, SetOf
    <3> QED
      BY <3>1, <3>2, <3>3
  <2>2. CASE kind = "Job"
    <3>1. Current(kind) = [seen EXCEPT !.job = job]
      BY <2>2 DEF Current
    <3>2. View([seen EXCEPT !.job = job]) = [View(seen) EXCEPT !.job = Claimed(job)]
      BY <1>1
    <3>3. AsCluster!Current(kind) = [View(seen) EXCEPT !.job = Claimed(job)]
      BY <2>2 DEF AsCluster!Current, SetOf
    <3> QED
      BY <3>1, <3>2, <3>3
  <2>3. CASE kind = "Deployment"
    <3>1. Current(kind) = [seen EXCEPT !.dep = dep, !.ready = ready]
      BY <2>3 DEF Current
    <3>2. View([seen EXCEPT !.dep = dep, !.ready = ready])
            = [View(seen) EXCEPT !.dep = [p \in {Unnamed} |-> dep],
                                 !.ready = SetOf(ready)]
      <4> DEFINE n == [seen EXCEPT !.dep = dep, !.ready = ready]
                 D == [p \in {Unnamed} |-> dep]
                 e == [View(seen) EXCEPT !.dep = D, !.ready = SetOf(ready)]
                 T == [pvc : {Claimed(seen.pvc)}, job : {Claimed(seen.job)},
                       dep : {[p \in {Unnamed} |-> seen.dep], D},
                       ready : {SetOf(seen.ready), SetOf(ready)}]
      <4>1. /\ n.pvc = seen.pvc /\ n.job = seen.job /\ n.dep = dep /\ n.ready = ready
            /\ View(seen) \in T
        BY <1>1
      <4> HIDE DEF n, D
      <4>2. /\ e \in T /\ e.pvc = Claimed(seen.pvc) /\ e.job = Claimed(seen.job)
            /\ e.dep = D /\ e.ready = SetOf(ready)
        BY <4>1
      <4> HIDE DEF e
      <4>3. e = [pvc |-> Claimed(seen.pvc), job |-> Claimed(seen.job), dep |-> D,
                 ready |-> SetOf(ready)]
        BY <4>2
      <4>4. View(n) = [pvc |-> Claimed(seen.pvc), job |-> Claimed(seen.job), dep |-> D,
                       ready |-> SetOf(ready)]
        BY <4>1 DEF D
      <4> QED
        BY <4>3, <4>4 DEF n, D, e
    <3>3. AsCluster!Current(kind)
            = [View(seen) EXCEPT !.dep = [p \in {Unnamed} |-> dep],
                                 !.ready = SetOf(ready)]
      BY <2>3 DEF AsCluster!Current, SetOf
    <3> QED
      BY <3>1, <3>2, <3>3
  <2> QED
    BY <2>1, <2>2, <2>3 DEF Kinds
<1>6. View(seen) # View(Current(kind))
  <2>1. seen # Current(kind)
    BY DEF Sync
  <2>2. CASE kind = "PersistentVolumeClaim"
    <3>1. Current(kind) = [seen EXCEPT !.pvc = pvc] /\ seen.pvc # pvc
      BY <1>1, <2>1, <2>2 DEF Current
    <3>2. Claimed(seen.pvc) # Claimed(pvc)
      BY <1>1, <1>2, <3>1
    <3> QED
      BY <1>1, <3>1, <3>2
  <2>3. CASE kind = "Job"
    <3>1. Current(kind) = [seen EXCEPT !.job = job] /\ seen.job # job
      BY <1>1, <2>1, <2>3 DEF Current
    <3>2. Claimed(seen.job) # Claimed(job)
      BY <1>1, <1>2, <3>1
    <3> QED
      BY <1>1, <3>1, <3>2
  <2>4. CASE kind = "Deployment"
    <3>1. /\ Current(kind) = [seen EXCEPT !.dep = dep, !.ready = ready]
          /\ seen.dep # dep \/ seen.ready # ready
      BY <1>1, <2>1, <2>4 DEF Current
    <3>2. \/ [p \in {Unnamed} |-> seen.dep] # [p \in {Unnamed} |-> dep]
          \/ SetOf(seen.ready) # SetOf(ready)
      BY <1>3, <1>4, <3>1
    <3> QED
      BY <1>1, <3>1, <3>2
  <2> QED
    BY <2>2, <2>3, <2>4 DEF Kinds
<1>7. UNCHANGED AsCluster!children /\ UNCHANGED AsCluster!local
  BY SameChildren, SameLocal DEF Sync, children
<1>8. queued' = (queued \/ kind \in AsCluster!Watched)
  BY DEF Sync, Watched, BuilderKinds, Kinds, AsCluster!Watched, AsCluster!Kinds
<1>9. View(seen') = View(Current(kind))
  BY DEF Sync
<1> QED
  BY <1>5, <1>6, <1>7, <1>8, <1>9
  DEF Sync, AsCluster!Sync, bounds, AsCluster!bounds, SetOf

LEMMA EnvironmentImplements ==
  ASSUME TypeOK,
         \/ Progress \/ Wake \/ FailWorkers
         \/ \E g \in Gen : FailJob(g)
         \/ \E kind \in Kinds : Sync(kind)
  PROVE  ClusterStep
<1>1. /\ ObjectTypeOK /\ ready \in BOOLEAN /\ dep \in 0 .. MaxGen
      /\ pvc \in [Gen -> PvcState] /\ volume \in [Gen -> OldUrl]
      /\ job \in [Gen -> JobState] /\ source \in [Gen -> OldUrl]
      /\ built \in SUBSET Gen
  BY DEF TypeOK, ChildrenTypeOK
<1>2. ASSUME NEW g \in Gen, BindVolume(g) PROVE ClusterStep
  <2> DEFINE c == <<Unnamed, g>>
  <2>1. c \in AsCluster!Claim /\ Claimed(pvc)[c] = pvc[g]
    BY ClaimedAt
  <2>2. Claimed([pvc EXCEPT ![g] = "Bound"]) = [Claimed(pvc) EXCEPT ![c] = "Bound"]
    BY <1>1, ClaimedExcept
  <2>3. AsCluster!Notify("PersistentVolumeClaim")
    BY <1>2, SameNotify DEF BindVolume, Kinds
  <2>4. UNCHANGED AsCluster!local
    BY <1>2, SameLocal DEF BindVolume
  <2> HIDE DEF c
  <2>5. AsCluster!BindVolume(c)
    BY <1>2, <2>1, <2>2, <2>3, <2>4
    DEF BindVolume, AsCluster!BindVolume, bounds, AsCluster!bounds
  <2> QED
    BY <2>1, <2>5 DEF ClusterStep, AsCluster!Next, AsCluster!Progress
<1>3. ASSUME NEW g \in Gen, CompleteJob(g) PROVE ClusterStep
  <2> DEFINE c == <<Unnamed, g>>
  <2>1. /\ c \in AsCluster!Claim /\ Claimed(pvc)[c] = pvc[g]
        /\ Claimed(job)[c] = job[g] /\ Claimed(source)[c] = source[g]
    BY ClaimedAt
  <2>2. Claimed([job EXCEPT ![g] = "Complete"]) = [Claimed(job) EXCEPT ![c] = "Complete"]
    BY <1>1, ClaimedExcept
  <2>3. Claimed([volume EXCEPT ![g] = source[g]])
          = [Claimed(volume) EXCEPT ![c] = source[g]]
    BY <1>1, ClaimedExcept
  <2>4. ClaimsOf(built \cup {g}) = ClaimsOf(built) \cup {c}
    BY Zenon, <1>1, ClaimsOfExcept
  <2>5. AsCluster!Notify("Job")
    BY <1>3, SameNotify DEF CompleteJob, Kinds
  <2>6. UNCHANGED AsCluster!local
    BY <1>3, SameLocal DEF CompleteJob
  <2> HIDE DEF c
  <2>7. AsCluster!CompleteJob(c)
    BY <1>3, <2>1, <2>2, <2>3, <2>4, <2>5, <2>6
    DEF CompleteJob, AsCluster!CompleteJob, bounds, AsCluster!bounds
  <2> QED
    BY <2>1, <2>7 DEF ClusterStep, AsCluster!Next, AsCluster!Progress
<1>4. ASSUME NEW g \in Gen, FailJob(g) PROVE ClusterStep
  <2> DEFINE c == <<Unnamed, g>>
  <2>1. /\ c \in AsCluster!Claim /\ Claimed(pvc)[c] = pvc[g]
        /\ Claimed(job)[c] = job[g]
    BY ClaimedAt
  <2>2. Claimed([job EXCEPT ![g] = "Failed"]) = [Claimed(job) EXCEPT ![c] = "Failed"]
    BY <1>1, ClaimedExcept
  <2>3. AsCluster!Notify("Job") /\ AsCluster!Fault("job")
    BY <1>4, SameNotify, SameFault DEF FailJob, Kinds
  <2>4. UNCHANGED AsCluster!local
    BY <1>4, SameLocal DEF FailJob
  <2> HIDE DEF c
  <2>5. AsCluster!FailJob(c)
    BY <1>4, <2>1, <2>2, <2>3, <2>4 DEF FailJob, AsCluster!FailJob
  <2> QED
    BY <2>1, <2>5 DEF ClusterStep, AsCluster!Next, AsCluster!Failure
<1>5. CASE StartWorkers
  <2>1. dep \in Gen
    BY <1>1, <1>5, BoundsType DEF StartWorkers, Gen
  <2>2. /\ Claimed(pvc)[<<Unnamed, dep>>] = pvc[dep]
        /\ Claimed(volume)[<<Unnamed, dep>>] = volume[dep]
        /\ [p \in {Unnamed} |-> dep][Unnamed] = dep
    BY <2>1, ClaimedAt
  <2>3. Unnamed \notin SetOf(ready) /\ SetOf(ready)' = SetOf(ready) \cup {Unnamed}
    BY <1>5 DEF StartWorkers, SetOf
  <2>4. AsCluster!Notify("Deployment")
    BY <1>5, SameNotify DEF StartWorkers, Kinds
  <2>5. UNCHANGED AsCluster!local
    BY <1>5, SameLocal DEF StartWorkers
  <2>6. AsCluster!StartWorkers(Unnamed)
    BY <1>5, <2>2, <2>3, <2>4, <2>5
    DEF StartWorkers, AsCluster!StartWorkers, bounds, AsCluster!bounds, SetOf
  <2> QED
    BY <2>6 DEF ClusterStep, AsCluster!Next, AsCluster!Progress
<1>6. CASE FailWorkers
  <2>1. Unnamed \in SetOf(ready) /\ SetOf(ready)' = SetOf(ready) \ {Unnamed}
    BY <1>6 DEF FailWorkers, SetOf
  <2>2. AsCluster!Notify("Deployment") /\ AsCluster!Fault("pods")
    BY <1>6, SameNotify, SameFault DEF FailWorkers, Kinds
  <2>3. UNCHANGED AsCluster!local
    BY <1>6, SameLocal DEF FailWorkers
  <2>4. AsCluster!FailWorkers(Unnamed)
    BY <1>6, <2>1, <2>2, <2>3 DEF FailWorkers, AsCluster!FailWorkers, SetOf
  <2> QED
    BY <2>4 DEF ClusterStep, AsCluster!Next, AsCluster!Failure
<1>7. CASE Wake
  <2>1. UNCHANGED AsCluster!children /\ UNCHANGED AsCluster!local
    BY <1>7, SameChildren, SameLocal DEF Wake, children
  <2>2. AsCluster!Wake
    BY Zenon, <1>1, <1>7, <2>1, SameObject
    DEF Wake, AsCluster!Wake, ClusterOf, bounds, AsCluster!bounds
  <2> QED
    BY <2>2 DEF ClusterStep, AsCluster!Next
<1>8. ASSUME NEW kind \in Kinds, Sync(kind) PROVE ClusterStep
  <2>1. AsCluster!Sync(kind)
    BY <1>8, SyncImplements
  <2> QED
    BY <2>1 DEF ClusterStep, AsCluster!Next, Kinds, AsCluster!Kinds
<1> QED
  BY <1>2, <1>3, <1>4, <1>5, <1>6, <1>7, <1>8 DEF Progress

LEMMA NextImplements ==
  TypeOK /\ PassOK /\ [Next]_vars
    => [AsCluster!Next \/ \E g \in Gen : AutoscalerPanics(g)]_(AsCluster!vars)
<1>1. ASSUME TypeOK, PassOK, Next
      PROVE  ClusterStep \/ \E g \in Gen : AutoscalerPanics(g)
  <2>1. CASE \/ Forget \/ Initialize \/ MarkDeleting \/ Finalize \/ Pause
             \/ Begin \/ Finish \/ Abandon
    BY <1>1, <2>1, ReconcilerImplements DEF ClusterStep
  <2>2. CASE Plan
    BY <1>1, <2>2, PlanImplements
    DEF Plan, Kinds, AsCluster!Kinds, AsCluster!Plan, ClusterStep, AsCluster!Next,
        AsCluster!Reconcile
  <2> QED
    BY <1>1, <2>1, <2>2, BuildImplements, GarbageCollectionImplements,
       UserImplements, EnvironmentImplements
    DEF Next, Reconcile, Failure
<1>2. ASSUME UNCHANGED vars PROVE UNCHANGED AsCluster!vars
  <2>1. UNCHANGED AsCluster!children /\ UNCHANGED AsCluster!local
    BY <1>2, SameChildren, SameLocal DEF vars, children
  <2> QED
    BY <1>2, <2>1 DEF vars, AsCluster!vars, bounds, AsCluster!bounds
<1> QED
  BY <1>1, <1>2 DEF ClusterStep

(* The OSRMInstance controller is the OSRMCluster controller with one      *)
(* profile that has no name: every step it takes, whatever the user does,  *)
(* whatever fails and whatever is read late, is a step of that one or      *)
(* changes nothing of it, except the panic over a missing maxReplicas.     *)
(* OSRMInstanceReconciler, OSRMInstanceResourceBuilder.                    *)
THEOREM ImplementsClusterTheorem == Spec => ImplementsCluster
<1>1. Init => AsCluster!Init
  BY InitImplements
<1>2. Init => TypeOK /\ PassOK
  BY InitTypeOK, InitPassOK
<1>3. TypeOK /\ PassOK /\ [Next]_vars => (TypeOK /\ PassOK)'
  BY NextTypeOK, NextPassOK
<1>4. TypeOK /\ PassOK /\ [Next]_vars
        => [AsCluster!Next \/ \E g \in Gen : AutoscalerPanics(g)]_(AsCluster!vars)
  BY NextImplements
<1> QED
  BY <1>1, <1>2, <1>3, <1>4, PTL DEF Spec, ImplementsCluster

-----------------------------------------------------------------------------
(* What an operator that rests has done.                                   *)

DeployedPhases == {M!WorkersDeployed, M!WorkersRedeployed}

(* Workers that report ready are those of a Deployment.                    *)
ReadyOnlyDeployed == (ready => dep # 0) /\ (seen.ready => seen.dep # 0)

CronJobKept(spec) == IF spec.speedUpdates THEN DepView.dep ELSE 0

(* All objects to serve with are there or their builders are still to run, *)
(* and all builders work on the generation the Deployment is seen to mount.*)
ServedOnceBuilt ==
  /\ DepView.dep # 0
  /\ \A i \in DOMAIN todo : todo[i].gen = DepView.dep
  /\ \A kind \in ServingKinds :
       kind \in serving \/ \E i \in DOMAIN todo : todo[i].kind = kind
  /\ instance.spec.speedUpdates =>
       cron = DepView.dep \/ \E i \in DOMAIN todo : todo[i].kind = "CronJob"

(* The same once all builders have run; the CronJob that is not wanted is  *)
(* to be deleted.                                                          *)
ServedOnceCollected ==
  /\ serving = ServingKinds
  /\ cron = CronJobKept(instance.spec) \/ doomed.cron

(* As long as no event waits for the operator, its copy of the object is   *)
(* the object, and what it has done of its pass still holds: whoever       *)
(* undoes it queues the key.                                               *)
NothingMissed ==
  ~queued =>
    /\ pc \in {"plan", "build", "gcChildren", "gcClaims"} =>
         instance.spec = object.spec /\ instance.phase = object.phase
    /\ pc = "build" /\ instance.phase \in DeployedPhases => ServedOnceBuilt
    /\ pc = "gcChildren" /\ instance.phase \in DeployedPhases => ServedOnceCollected
    /\ pc = "gcClaims" /\ instance.phase \in DeployedPhases =>
         ServedOnceCollected /\ ~doomed.cron
    /\ pc = "idle" /\ Running /\ ~object.paused /\ object.phase \in DeployedPhases =>
         serving = ServingKinds /\ cron = CronJobKept(object.spec)

LEMMA ServingNotLagging ==
  ASSUME NEW kind \in ServingKinds \cup {"CronJob", "OSRMInstance"}, Notify(kind)
  PROVE  queued' = TRUE
BY InstanceAssumption
DEF Notify, Watched, BuilderKinds, ServingKinds

(* A Deployment that changes is seen to change with an event.              *)
LEMMA DeploymentEvent ==
  Notify("Deployment") => queued' \/ "Deployment" \in Lagging
BY DEF Notify, Watched, BuilderKinds, Kinds

LEMMA DepSeen ==
  UNCHANGED <<dep, seen>> => DepView'.dep = DepView.dep
BY DEF DepView

LEMMA InitRest == Init => ReadyOnlyDeployed /\ NothingMissed
BY DEF Init, ReadyOnlyDeployed, NothingMissed

LEMMA NextReadyOnlyDeployed ==
  TypeOK /\ ReadyOnlyDeployed /\ [Next]_vars => ReadyOnlyDeployed'
<1> SUFFICES ASSUME TypeOK, ReadyOnlyDeployed, [Next]_vars PROVE ReadyOnlyDeployed'
  OBVIOUS
<1>1. CASE UNCHANGED <<dep, ready, seen>>
  BY <1>1 DEF ReadyOnlyDeployed
<1>2. ASSUME NEW g \in Gen, BuildDeployment(g) PROVE ReadyOnlyDeployed'
  <2>1. g # 0 /\ UNCHANGED seen
    BY <1>2, BoundsType DEF BuildDeployment, Gen
  <2> QED
    BY <1>2, <2>1 DEF BuildDeployment, ReadyOnlyDeployed
<1>3. CASE StartWorkers \/ FailWorkers
  BY <1>3 DEF StartWorkers, FailWorkers, ReadyOnlyDeployed
<1>4. ASSUME NEW kind \in Kinds, Sync(kind) PROVE ReadyOnlyDeployed'
  <2>1. UNCHANGED <<dep, ready>> /\ seen' = Current(kind)
    BY <1>4 DEF Sync, children, maps
  <2>2. \/ seen'.dep = seen.dep /\ seen'.ready = seen.ready
        \/ seen'.dep = dep /\ seen'.ready = ready
    BY <2>1 DEF Current, Kinds, TypeOK, ChildrenTypeOK
  <2> QED
    BY <2>1, <2>2 DEF ReadyOnlyDeployed
<1>5. CASE \/ Forget \/ Initialize \/ MarkDeleting \/ Finalize \/ Pause \/ Begin
           \/ Plan \/ Finish \/ Abandon \/ GarbageCollection \/ User \/ Wake
           \/ SetLastAppliedSpecAnnotation
           \/ UNCHANGED vars
  <2>1. UNCHANGED <<dep, ready, seen>>
    BY <1>5 DEF Forget, Initialize, MarkDeleting, Finalize, Pause, Begin, Plan,
       PlanWithout, Finish, Abandon, GarbageCollection, DeleteCronJob, ListClaims,
       DeletePersistentVolumeClaim, DeleteJob, User, EditSpec, TogglePause, Delete,
       UserWrites, RemoveCronJob, RemoveServing, Lose, Wake,
       SetLastAppliedSpecAnnotation, children, maps, vars
  <2> QED
    BY <1>1, <2>1
<1>6. ASSUME NEW g \in Gen,
             \/ BuildPersistentVolumeClaim(g) \/ BuildJob(g) \/ BuildCronJob(g)
             \/ \E kind \in ServingKinds : BuildServing(kind, g)
             \/ AutoscalerPanics(g) \/ BindVolume(g) \/ CompleteJob(g) \/ FailJob(g)
      PROVE  ReadyOnlyDeployed'
  <2>1. UNCHANGED <<dep, ready, seen>>
    BY <1>6 DEF BuildPersistentVolumeClaim, BuildJob, BuildCronJob, BuildServing,
       AutoscalerPanics, BindVolume, CompleteJob, FailJob, children, maps
  <2> QED
    BY <1>1, <2>1
<1> QED
  BY <1>2, <1>3, <1>4, <1>5, <1>6 DEF Next, Reconcile, Build, Failure, Progress

(* Steps that leave behind an event, and steps that leave all of it alone. *)
LEMMA EventKeepsNothingMissed == queued' = TRUE => NothingMissed'
BY DEF NothingMissed

LEMMA QuietKeepsNothingMissed ==
  ASSUME NothingMissed, ~queued' => ~queued,
         UNCHANGED <<object, serving, cron, pc, instance, todo, doomed>>,
         ~queued' => DepView'.dep = DepView.dep
  PROVE  NothingMissed'
<1>1. CASE queued'
  BY <1>1 DEF NothingMissed
<1>2. CASE ~queued'
  <2>1. DepView'.dep = DepView.dep /\ ~queued
    BY <1>2
  <2>2. /\ ServedOnceBuilt => ServedOnceBuilt'
        /\ ServedOnceCollected => ServedOnceCollected'
        /\ \A spec : CronJobKept(spec)' = CronJobKept(spec)
        /\ Running' = Running
    BY <2>1 DEF ServedOnceBuilt, ServedOnceCollected, CronJobKept, Running
  <2> HIDE DEF ServedOnceBuilt, ServedOnceCollected, CronJobKept, Running
  <2> QED
    BY <2>1, <2>2 DEF NothingMissed
<1> QED
  BY <1>1, <1>2

LEMMA ReconcilerMissesNothing ==
  ASSUME TypeOK, NothingMissed,
         \/ Forget \/ Initialize \/ MarkDeleting \/ Finalize \/ Pause
         \/ Begin \/ Finish \/ Abandon
  PROVE  NothingMissed'
<1> USE DEF NothingMissed
<1>1. CASE Initialize \/ MarkDeleting \/ Finalize \/ Abandon
  <2>1. queued' = TRUE
    BY <1>1 DEF Initialize, MarkDeleting, Finalize, Abandon, Dequeue, Retry,
       TypeOK, ObjectTypeOK
  <2> QED
    BY <2>1
<1>2. CASE Forget
  BY <1>2 DEF Forget, Dequeue, local, Running
<1>3. CASE Pause
  <2>1. object'.paused = object.paused /\ object.paused /\ pc' = "idle"
    BY <1>3 DEF Pause, Dequeue, TypeOK, ObjectTypeOK, local
  <2> QED
    BY <2>1
<1>4. CASE Begin
  BY <1>4 DEF Begin
<1>5. CASE Finish
  <2>1. /\ pc = "gcClaims" /\ pc' = "idle"
        /\ UNCHANGED <<object, serving, cron, dep, seen, queued>>
    BY <1>5 DEF Finish, Discard, children, maps
  <2>2. DepView'.dep = DepView.dep
    BY <2>1, DepSeen
  <2>3. CronJobKept(object.spec)' = CronJobKept(object.spec)
    BY <2>1, <2>2 DEF CronJobKept
  <2> QED
    BY <2>1, <2>3 DEF ServedOnceCollected
<1> QED
  BY <1>1, <1>2, <1>3, <1>4, <1>5

(* The builders of the phases in which the workers are deployed.           *)
LEMMA AllIsBuilt ==
  ASSUME NEW phase \in DeployedPhases, NEW spec, NEW active \in Gen, NEW future,
         NEW list, list = ResourceBuildersForPhase(phase, spec, active, future)
  PROVE  /\ \A i \in DOMAIN list : list[i].gen = active
         /\ \A kind \in ServingKinds : \E i \in DOMAIN list : list[i].kind = kind
         /\ spec.speedUpdates => \E i \in DOMAIN list : list[i].kind = "CronJob"
<1>1. ResourceBuildersForPhase(phase, spec, active, future)
        = WorkersDeployedPhaseBuilders(spec, active)
  BY DEF ResourceBuildersForPhase, DeployedPhases, M!BuildingMap, M!UpdatingMap,
     M!RedeployingWorkers, M!DeployingWorkers, M!WorkersDeployed, M!WorkersRedeployed
<1> DEFINE s == WorkersDeployedPhaseBuilders(spec, active)
<1>2. /\ 1 \in DOMAIN s /\ s[1] = Builder("Service", active)
      /\ 2 \in DOMAIN s /\ s[2] = Builder("HorizontalPodAutoscaler", active)
      /\ 3 \in DOMAIN s /\ s[3] = Builder("PodDisruptionBudget", active)
  BY WorkersDeployedBuilders
<1>3. \A i \in DOMAIN s : s[i].gen = active
  BY WorkersDeployedBuilders DEF Builder
<1>4. ASSUME spec.speedUpdates
      PROVE  5 \in DOMAIN s /\ s[5] = Builder("CronJob", active)
  BY <1>4, WorkersDeployedBuilders
<1> HIDE DEF s
<1>5. \A kind \in ServingKinds : \E i \in DOMAIN s : s[i].kind = kind
  BY <1>2 DEF ServingKinds, Builder
<1>6. spec.speedUpdates => \E i \in DOMAIN s : s[i].kind = "CronJob"
  BY <1>4 DEF Builder
<1> QED
  BY <1>1, <1>3, <1>5, <1>6 DEF s

LEMMA PlanMissesNothing ==
  ASSUME TypeOK, ReadyOnlyDeployed, NothingMissed, Plan
  PROVE  NothingMissed'
<1>1. CASE queued'
  BY <1>1 DEF NothingMissed
<1>2. CASE ~queued'
  <2>1. PICK lost \in SUBSET Kinds : PlanWithout(lost)
    BY DEF Plan
  <2> DEFINE pvcs == IF "PersistentVolumeClaim" \in lost
                       THEN [g \in Gen |-> "Absent"] ELSE PvcView
             jobs == IF "Job" \in lost THEN [g \in Gen |-> "Absent"] ELSE JobView
             d == IF "Deployment" \in lost THEN [dep |-> 0, ready |-> FALSE]
                    ELSE DepView
             active == GetActiveMapGeneration(d.dep)
             future == GetFutureMapGeneration(pvcs)
             phase == DeterminePhase(instance.spec, instance.lastApplied, active,
                                     future, pvcs, jobs, d.ready)
  <2>2. /\ pc = "plan" /\ pc' = "build" /\ ~queued /\ phase = instance.phase
        /\ object' = [object EXCEPT !.phase = @]
        /\ instance' = [instance EXCEPT !.phase = phase]
        /\ todo' = ResourceBuildersForPhase(phase, instance.spec, active, future)
        /\ UNCHANGED <<children, seen>>
    BY <1>2, <2>1 DEF PlanWithout, Retry
  <2>3. object' = object /\ instance' = instance
    BY <2>2 DEF TypeOK, ObjectTypeOK, ReconcileTypeOK
  <2>4. DepView'.dep = DepView.dep
    BY <2>2, DepSeen DEF children, maps
  <2>5. instance.spec = object.spec /\ instance.phase = object.phase
    BY <2>2 DEF NothingMissed
  <2>6. ASSUME phase \in DeployedPhases PROVE ServedOnceBuilt'
    <3>1. d.ready
      BY <2>6 DEF DeterminePhase, DeployedPhases, M!BuildingMap, M!UpdatingMap,
         M!RedeployingWorkers, M!DeployingWorkers, M!WorkersDeployed,
         M!WorkersRedeployed
    <3>2. d = DepView /\ DepView.dep # 0 /\ DepView.dep \in 0 .. MaxGen
      BY <3>1 DEF ReadyOnlyDeployed, DepView, TypeOK, ChildrenTypeOK
    <3>3. active = DepView.dep /\ active \in Gen
      BY <3>2, BoundsType DEF GetActiveMapGeneration, Gen
    <3> HIDE DEF phase, active, future, d
    <3>4. /\ \A i \in DOMAIN todo' : todo'[i].gen = active
          /\ \A kind \in ServingKinds : \E i \in DOMAIN todo' : todo'[i].kind = kind
          /\ instance.spec.speedUpdates =>
               \E i \in DOMAIN todo' : todo'[i].kind = "CronJob"
      <4>1. /\ phase \in DeployedPhases /\ active \in Gen
            /\ todo' = ResourceBuildersForPhase(phase, instance.spec, active, future)
        BY <2>2, <2>6, <3>3
      <4> DEFINE list == todo'
                 spec == instance.spec
      <4> HIDE DEF list, spec
      <4>2. list = ResourceBuildersForPhase(phase, spec, active, future)
        BY <4>1 DEF list, spec
      <4>3. /\ \A i \in DOMAIN list : list[i].gen = active
            /\ \A kind \in ServingKinds : \E i \in DOMAIN list : list[i].kind = kind
            /\ spec.speedUpdates => \E i \in DOMAIN list : list[i].kind = "CronJob"
        BY <4>1, <4>2, AllIsBuilt
      <4> QED
        BY <4>3 DEF list, spec
    <3> QED
      BY <2>3, <2>4, <3>2, <3>3, <3>4 DEF ServedOnceBuilt
  <2> HIDE DEF phase, active, future, d
  <2> QED
    BY <2>2, <2>3, <2>5, <2>6 DEF NothingMissed
<1> QED
  BY <1>1, <1>2

(* A builder that changes nothing leaves less to build.                    *)
LEMMA BuilderServes ==
  ASSUME TypeOK, NothingMissed, pc = "build", todo # << >>, BuilderDone,
         UNCHANGED object, ~queued' => ~queued,
         ~queued' => DepView'.dep = DepView.dep,
         serving' = serving \cup ({Head(todo).kind} \cap ServingKinds),
         cron' = IF Head(todo).kind = "CronJob" THEN Head(todo).gen ELSE cron
  PROVE  NothingMissed'
<1>1. CASE queued'
  BY <1>1 DEF NothingMissed
<1>2. CASE ~queued'
  <2>1. /\ ~queued /\ pc' = "build" /\ instance' = instance /\ todo' = Tail(todo)
        /\ instance.spec = object.spec /\ instance.phase = object.phase
        /\ DepView'.dep = DepView.dep
    BY <1>2 DEF BuilderDone, NothingMissed
  <2>2. ASSUME instance.phase \in DeployedPhases PROVE ServedOnceBuilt'
    <3>1. ServedOnceBuilt
      BY <2>1, <2>2 DEF NothingMissed
    <3>2. todo \in Seq(BuilderType)
      BY DEF TypeOK, ReconcileTypeOK, BuilderType
    <3>3. ASSUME NEW i \in DOMAIN Tail(todo)
          PROVE  i + 1 \in DOMAIN todo /\ Tail(todo)[i] = todo[i + 1]
      BY <3>2
    <3>4. ASSUME NEW i \in DOMAIN todo, i # 1
          PROVE  i - 1 \in DOMAIN Tail(todo) /\ todo[i] = Tail(todo)[i - 1]
      BY <3>2, <3>4
    <3>5. Head(todo) = todo[1] /\ 1 \in DOMAIN todo
      BY <3>2
    <3> DEFINE t == Tail(todo)
    <3> HIDE DEF t
    <3>6. \A i \in DOMAIN t : t[i].gen = DepView.dep
      BY <3>1, <3>3 DEF ServedOnceBuilt, t
    <3>7. ASSUME NEW kind \in ServingKinds
          PROVE  kind \in serving' \/ \E i \in DOMAIN t : t[i].kind = kind
      <4>1. CASE kind \in serving \/ Head(todo).kind = kind
        BY <4>1
      <4>2. CASE kind \notin serving /\ Head(todo).kind # kind
        <5>1. PICK i \in DOMAIN todo : todo[i].kind = kind
          BY <3>1, <4>2 DEF ServedOnceBuilt
        <5> QED
          BY <3>4, <3>5, <4>2, <5>1 DEF t
      <4> QED
        BY <4>1, <4>2
    <3>8. ASSUME instance.spec.speedUpdates
          PROVE  cron' = DepView.dep \/ \E i \in DOMAIN t : t[i].kind = "CronJob"
      <4>1. CASE Head(todo).kind = "CronJob"
        BY <3>1, <3>5, <4>1 DEF ServedOnceBuilt
      <4>2. CASE Head(todo).kind # "CronJob"
        <5>1. cron = DepView.dep \/ \E i \in DOMAIN todo : todo[i].kind = "CronJob"
          BY <3>1, <3>8 DEF ServedOnceBuilt
        <5>2. ASSUME NEW i \in DOMAIN todo, todo[i].kind = "CronJob"
              PROVE  i - 1 \in DOMAIN t /\ t[i - 1].kind = "CronJob"
          BY <3>4, <3>5, <4>2, <5>2 DEF t
        <5> QED
          BY <4>2, <5>1, <5>2
      <4> QED
        BY <4>1, <4>2
    <3>9. todo' = t /\ DepView.dep # 0
      BY <2>1, <3>1 DEF t, ServedOnceBuilt
    <3> QED
      BY <2>1, <3>6, <3>7, <3>8, <3>9 DEF ServedOnceBuilt
  <2> QED
    BY <2>1, <2>2 DEF NothingMissed
<1> QED
  BY <1>1, <1>2

LEMMA BuildMissesNothing ==
  ASSUME TypeOK, NothingMissed, Build
  PROVE  NothingMissed'
<1>1. /\ queued \in BOOLEAN /\ dep \in 0 .. MaxGen
      /\ "CronJob" \notin ServingKinds /\ Kinds \cap (ServingKinds \cup {"CronJob"}) = {}
  BY DEF TypeOK, ObjectTypeOK, ChildrenTypeOK, ServingKinds, Kinds
<1>2. CASE Retry
  BY <1>2, EventKeepsNothingMissed DEF Retry
<1>3. ASSUME NEW g \in Gen, BuildPersistentVolumeClaim(g) \/ BuildJob(g), ~Retry
      PROVE  NothingMissed'
  <2>1. /\ pc = "build" /\ todo # << >> /\ BuilderDone
        /\ Head(todo).kind \in Kinds
        /\ UNCHANGED queued \/ \E kind : Notify(kind)
        /\ UNCHANGED <<object, serving, cron, dep, seen>>
    BY <1>3 DEF BuildPersistentVolumeClaim, BuildJob, Building, Builder, Kinds
  <2>2. DepView'.dep = DepView.dep
    BY <2>1, DepSeen
  <2>3. ~queued' => ~queued
    BY <1>1, <2>1 DEF Notify
  <2>4. /\ serving' = serving \cup ({Head(todo).kind} \cap ServingKinds)
        /\ cron' = IF Head(todo).kind = "CronJob" THEN Head(todo).gen ELSE cron
    BY <1>1, <2>1
  <2> QED
    BY <2>1, <2>2, <2>3, <2>4, BuilderServes
<1>4. ASSUME NEW g \in Gen, BuildDeployment(g), ~Retry
      PROVE  NothingMissed'
  <2>1. /\ pc = "build" /\ todo # << >> /\ BuilderDone
        /\ Head(todo).kind = "Deployment" /\ dep' = g
        /\ IF dep # g THEN Notify("Deployment") ELSE UNCHANGED queued
        /\ UNCHANGED <<object, serving, cron, seen>>
    BY <1>4 DEF BuildDeployment, Building, Builder
  <2>2. ~queued' => ~queued
    BY <1>1, <2>1 DEF Notify
  <2>3. ~queued' => DepView'.dep = DepView.dep
    BY <2>1, DeploymentEvent DEF DepView
  <2>4. /\ serving' = serving \cup ({Head(todo).kind} \cap ServingKinds)
        /\ cron' = IF Head(todo).kind = "CronJob" THEN Head(todo).gen ELSE cron
    BY <2>1 DEF ServingKinds
  <2> QED
    BY <2>1, <2>2, <2>3, <2>4, BuilderServes
<1>5. ASSUME NEW g \in Gen, NEW kind \in ServingKinds, BuildServing(kind, g)
      PROVE  NothingMissed'
  <2>1. /\ pc = "build" /\ todo # << >> /\ BuilderDone
        /\ Head(todo).kind = kind /\ serving' = serving \cup {kind}
        /\ UNCHANGED queued \/ Notify(kind)
        /\ UNCHANGED <<object, cron, dep, seen>>
    BY <1>5 DEF BuildServing, Building, Builder, maps
  <2>2. ~queued' => ~queued
    BY <1>1, <2>1 DEF Notify
  <2>3. DepView'.dep = DepView.dep
    BY <2>1, DepSeen
  <2>4. /\ serving' = serving \cup ({Head(todo).kind} \cap ServingKinds)
        /\ cron' = IF Head(todo).kind = "CronJob" THEN Head(todo).gen ELSE cron
    BY <1>1, <2>1
  <2> QED
    BY <2>1, <2>2, <2>3, <2>4, BuilderServes
<1>6. ASSUME NEW g \in Gen, BuildCronJob(g)
      PROVE  NothingMissed'
  <2>1. /\ pc = "build" /\ todo # << >> /\ BuilderDone
        /\ Head(todo).kind = "CronJob" /\ Head(todo).gen = g /\ cron' = g
        /\ UNCHANGED queued \/ Notify("CronJob")
        /\ UNCHANGED <<object, serving, dep, seen>>
    BY <1>6 DEF BuildCronJob, Building, Builder, maps
  <2>2. ~queued' => ~queued
    BY <1>1, <2>1 DEF Notify
  <2>3. DepView'.dep = DepView.dep
    BY <2>1, DepSeen
  <2>4. /\ serving' = serving \cup ({Head(todo).kind} \cap ServingKinds)
        /\ cron' = IF Head(todo).kind = "CronJob" THEN Head(todo).gen ELSE cron
    BY <1>1, <2>1
  <2> QED
    BY <2>1, <2>2, <2>3, <2>4, BuilderServes
<1>7. CASE SetLastAppliedSpecAnnotation /\ ~Retry
  <2>1. /\ pc = "build" /\ todo = << >> /\ pc' = "gcChildren"
        /\ queued' = (queued \/ object' # object)
        /\ doomed' = [doomed EXCEPT !.cron =
                        cron # 0 /\ ~CronJobExpected(instance.spec)]
        /\ UNCHANGED <<instance, children, seen>>
    BY <1>7 DEF SetLastAppliedSpecAnnotation
  <2>2. DepView'.dep = DepView.dep /\ UNCHANGED <<serving, cron>>
    BY <2>1, DepSeen DEF children, maps
  <2>3. CASE queued'
    BY <2>3 DEF NothingMissed
  <2>4. CASE ~queued'
    <3>1. /\ ~queued /\ object' = object
          /\ instance.spec = object.spec /\ instance.phase = object.phase
      BY <2>1, <2>4 DEF NothingMissed
    <3>2. ASSUME instance.phase \in DeployedPhases PROVE ServedOnceCollected'
      <4>1. ServedOnceBuilt
        BY <2>1, <3>1, <3>2 DEF NothingMissed
      <4>2. serving = ServingKinds
        <5>1. DOMAIN todo = {}
          BY <2>1
        <5>2. \A kind \in ServingKinds : kind \in serving
          BY <4>1, <5>1 DEF ServedOnceBuilt
        <5> QED
          BY <5>2 DEF TypeOK, ChildrenTypeOK
      <4>3. instance.spec.speedUpdates => cron = DepView.dep
        BY <2>1, <4>1 DEF ServedOnceBuilt
      <4>4. doomed'.cron = (cron # 0 /\ ~instance.spec.speedUpdates)
        BY <2>1 DEF CronJobExpected, TypeOK, ReconcileTypeOK
      <4>5. cron = CronJobKept(instance.spec) \/ doomed'.cron
        BY <4>3, <4>4 DEF CronJobKept
      <4>6. CronJobKept(instance.spec)' = CronJobKept(instance.spec)
        BY <2>1, <2>2 DEF CronJobKept
      <4> QED
        BY <2>2, <4>2, <4>5, <4>6 DEF ServedOnceCollected
    <3> QED
      BY <2>1, <3>1, <3>2 DEF NothingMissed
  <2> QED
    BY <2>3, <2>4
<1>8. ASSUME NEW g \in Gen, AutoscalerPanics(g) PROVE Retry
  BY <1>8 DEF AutoscalerPanics
<1> QED
  BY <1>2, <1>3, <1>4, <1>5, <1>6, <1>7, <1>8 DEF Build

LEMMA GarbageCollectionMissesNothing ==
  ASSUME TypeOK, NothingMissed, GarbageCollection
  PROVE  NothingMissed'
<1>1. queued \in BOOLEAN
  BY DEF TypeOK, ObjectTypeOK
<1>2. CASE DeleteCronJob
  BY <1>2, ServingNotLagging, EventKeepsNothingMissed DEF DeleteCronJob
<1>3. CASE ~DeleteCronJob
  <2>1. UNCHANGED <<object, serving, cron, dep, seen, instance>>
    BY <1>3 DEF GarbageCollection, ListClaims, DeletePersistentVolumeClaim,
       DeleteJob, children, maps
  <2>2. DepView'.dep = DepView.dep
    BY <2>1, DepSeen
  <2>3. ~queued' => ~queued
    BY <1>1, <1>3 DEF GarbageCollection, ListClaims, DeletePersistentVolumeClaim,
       DeleteJob, Notify
  <2>4. /\ pc' = "gcClaims" /\ pc \in {"gcChildren", "gcClaims"}
        /\ pc = "gcChildren" => ~doomed.cron
        /\ doomed'.cron = doomed.cron
    BY <1>3 DEF GarbageCollection, ListClaims, DeletePersistentVolumeClaim,
       DeleteJob, TypeOK, ReconcileTypeOK
  <2>5. ServedOnceCollected => ServedOnceCollected'
    BY <2>1, <2>2, <2>4 DEF ServedOnceCollected, CronJobKept
  <2> HIDE DEF ServedOnceCollected
  <2> QED
    BY <2>1, <2>3, <2>4, <2>5 DEF NothingMissed
<1> QED
  BY <1>2, <1>3

LEMMA OthersMissNothing ==
  ASSUME TypeOK, NothingMissed,
         \/ User \/ Progress \/ Wake \/ FailWorkers
         \/ \E g \in Gen : FailJob(g)
         \/ \E kind \in Kinds : Sync(kind)
         \/ UNCHANGED vars
  PROVE  NothingMissed'
<1>1. queued \in BOOLEAN
  BY DEF TypeOK, ObjectTypeOK
<1>2. CASE User
  <2>1. queued' = TRUE
    BY <1>2, ServingNotLagging
    DEF User, EditSpec, TogglePause, Delete, UserWrites, RemoveCronJob,
        RemoveServing, Lose
  <2> QED
    BY <2>1, EventKeepsNothingMissed
<1>3. CASE Wake
  BY <1>3, EventKeepsNothingMissed DEF Wake
<1>4. ASSUME NEW kind \in Kinds, Sync(kind) PROVE NothingMissed'
  <2>1. queued' = TRUE
    BY <1>1, <1>4 DEF Sync, Watched, BuilderKinds
  <2> QED
    BY <2>1, EventKeepsNothingMissed
<1>5. CASE \/ Progress \/ FailWorkers \/ \E g \in Gen : FailJob(g)
           \/ UNCHANGED vars
  <2>1. /\ UNCHANGED <<object, serving, cron, pc, instance, todo, doomed, dep, seen>>
        /\ UNCHANGED queued \/ \E kind : Notify(kind)
    BY <1>5 DEF Progress, BindVolume, CompleteJob, StartWorkers, FailWorkers, FailJob,
       vars, children, maps, local
  <2>2. DepView'.dep = DepView.dep
    BY <2>1, DepSeen
  <2>3. ~queued' => ~queued
    BY <1>1, <2>1 DEF Notify
  <2> QED
    BY <2>1, <2>2, <2>3, QuietKeepsNothingMissed
<1> QED
  BY <1>2, <1>3, <1>4, <1>5

LEMMA NextNothingMissed ==
  TypeOK /\ ReadyOnlyDeployed /\ NothingMissed /\ [Next]_vars => NothingMissed'
BY ReconcilerMissesNothing, PlanMissesNothing, BuildMissesNothing,
   GarbageCollectionMissesNothing, OthersMissNothing
DEF Next, Reconcile, Failure

LEMMA RestServes ==
  TypeOK /\ NothingMissed => ServingAtRest
<1> SUFFICES ASSUME TypeOK, NothingMissed, Quiescent, Deployed
             PROVE  serving = ServingKinds /\ cron = CronJobWanted
  BY DEF ServingAtRest
<1>1. DepView.dep = dep
  <2>1. "Deployment" \in Lagging => seen = [seen EXCEPT !.dep = dep, !.ready = ready]
    BY DEF Quiescent, Current
  <2>2. "Deployment" \in Lagging => seen.dep = dep
    BY <2>1 DEF TypeOK, ChildrenTypeOK
  <2> QED
    BY <2>2 DEF DepView
<1> QED
  BY <1>1 DEF NothingMissed, Quiescent, Running, Deployed, DeployedPhases,
     CronJobKept, CronJobWanted

(* Whatever was edited, deleted by somebody else, read late or failed: an  *)
(* operator that reports the workers deployed and has nothing left to do   *)
(* has all objects to serve with in place, and a CronJob exactly if speed  *)
(* updates are asked for, on the volume that the workers read.             *)
(* WorkersDeployedPhaseBuilders, GarbageCollection, SetupWithManager.      *)
THEOREM ServesAtRest == Spec => []ServingAtRest
<1>1. Init => TypeOK /\ ReadyOnlyDeployed /\ NothingMissed
  BY InitTypeOK, InitRest
<1>2. TypeOK /\ ReadyOnlyDeployed /\ NothingMissed /\ [Next]_vars
        => (TypeOK /\ ReadyOnlyDeployed /\ NothingMissed)'
  BY NextTypeOK, NextReadyOnlyDeployed, NextNothingMissed
<1>3. TypeOK /\ NothingMissed => ServingAtRest
  BY Zenon, RestServes
<1> QED
  BY <1>1, <1>2, <1>3, PTL DEF Spec

-----------------------------------------------------------------------------
(* What is proved of the OSRMCluster controller holds of this one.         *)

(* The same substitutions as in AsCluster, in the module of the proofs.    *)
Cluster == INSTANCE OSRMClusterSwitch_proofs WITH
  Profiles <- {Unnamed},
  Specs <- {ClusterSpecOf(s) : s \in Specs},
  FirstSpec <- ClusterSpecOf(FirstSpec),
  cluster <- [object EXCEPT !.spec = ClusterSpecOf(@)],
  pvc <- Claimed(pvc), volume <- Claimed(volume),
  job <- Claimed(job), source <- Claimed(source),
  dep <- [p \in {Unnamed} |-> dep],
  ready <- IF ready THEN {Unnamed} ELSE {},
  seen <- [pvc |-> Claimed(seen.pvc), job |-> Claimed(seen.job),
           dep |-> [p \in {Unnamed} |-> seen.dep],
           ready |-> IF seen.ready THEN {Unnamed} ELSE {}],
  pc <- IF pc = "gcChildren" THEN "gcDeployments" ELSE pc,
  instance <- [instance EXCEPT !.spec = ClusterSpecOf(@)],
  todo <- MapBuildersIn(todo),
  doomed <- [dep |-> {}, pvc |-> ClaimsOf(doomed.pvc),
             job |-> ClaimsOf(doomed.job)],
  built <- ClaimsOf(built)

(* The two instances are the same formula.                                 *)
LEMMA SameSteps ==
  [AsCluster!Next]_(AsCluster!vars) => [Cluster!Next]_(Cluster!vars)
BY ZenonT(30)
DEF AsCluster!Next, Cluster!Next, AsCluster!Abandon, Cluster!Abandon,
    AsCluster!Active, Cluster!Active, AsCluster!AllWorkersReady,
    Cluster!AllWorkersReady, AsCluster!Begin, Cluster!Begin,
    AsCluster!BeingDeleted, Cluster!BeingDeleted, AsCluster!BindVolume,
    Cluster!BindVolume, AsCluster!Bound, Cluster!Bound, AsCluster!Build,
    Cluster!Build, AsCluster!BuildDeployment, Cluster!BuildDeployment,
    AsCluster!BuildJob, Cluster!BuildJob, AsCluster!BuildPersistentVolumeClaim,
    Cluster!BuildPersistentVolumeClaim, AsCluster!Builder, Cluster!Builder,
    AsCluster!BuilderDone, Cluster!BuilderDone, AsCluster!Building,
    Cluster!Building, AsCluster!BuildingMap, Cluster!BuildingMap,
    AsCluster!CachesCurrent, Cluster!CachesCurrent, AsCluster!Claim,
    Cluster!Claim, AsCluster!CompleteJob, Cluster!CompleteJob,
    AsCluster!Completed, Cluster!Completed, AsCluster!Conflict,
    Cluster!Conflict, AsCluster!Current, Cluster!Current, AsCluster!Delete,
    Cluster!Delete, AsCluster!DeleteDeployment, Cluster!DeleteDeployment,
    AsCluster!DeleteJob, Cluster!DeleteJob,
    AsCluster!DeletePersistentVolumeClaim, Cluster!DeletePersistentVolumeClaim,
    AsCluster!Deleting, Cluster!Deleting, AsCluster!DepView, Cluster!DepView,
    AsCluster!Deployed, Cluster!Deployed, AsCluster!DeployingWorkers,
    Cluster!DeployingWorkers, AsCluster!DeploymentIsCurrent,
    Cluster!DeploymentIsCurrent, AsCluster!Dequeue, Cluster!Dequeue,
    AsCluster!DeterminePhase, Cluster!DeterminePhase, AsCluster!Discard,
    Cluster!Discard, AsCluster!EditSpec, Cluster!EditSpec, AsCluster!Empty,
    Cluster!Empty, AsCluster!Existing, Cluster!Existing,
    AsCluster!ExpectedClaims, Cluster!ExpectedClaims, AsCluster!FailJob,
    Cluster!FailJob, AsCluster!FailWorkers, Cluster!FailWorkers,
    AsCluster!Failure, Cluster!Failure, AsCluster!Fault, Cluster!Fault,
    AsCluster!Finalize, Cluster!Finalize, AsCluster!Finish, Cluster!Finish,
    AsCluster!FirstDeployed, Cluster!FirstDeployed, AsCluster!Forget,
    Cluster!Forget, AsCluster!GarbageCollection, Cluster!GarbageCollection,
    AsCluster!Gen, Cluster!Gen, AsCluster!GenerationFor, Cluster!GenerationFor,
    AsCluster!GetActiveMapGeneration, Cluster!GetActiveMapGeneration,
    AsCluster!GetFutureMapGeneration, Cluster!GetFutureMapGeneration,
    AsCluster!GetNextMapGeneration, Cluster!GetNextMapGeneration,
    AsCluster!Initialize, Cluster!Initialize,
    AsCluster!IsMapBuildingInProgress, Cluster!IsMapBuildingInProgress,
    AsCluster!JobView, Cluster!JobView, AsCluster!KeptGenerations,
    Cluster!KeptGenerations, AsCluster!Kinds, Cluster!Kinds,
    AsCluster!ListClaims, Cluster!ListClaims, AsCluster!MapBuilders,
    Cluster!MapBuilders, AsCluster!MapUpdateNeeded, Cluster!MapUpdateNeeded,
    AsCluster!MarkDeleting, Cluster!MarkDeleting, AsCluster!NoDeployments,
    Cluster!NoDeployments, AsCluster!NoInstance, Cluster!NoInstance,
    AsCluster!NothingDoomed, Cluster!NothingDoomed, AsCluster!Notify,
    Cluster!Notify, AsCluster!PatientEdit, Cluster!PatientEdit,
    AsCluster!Pause, Cluster!Pause, AsCluster!Plan, Cluster!Plan,
    AsCluster!PlanWithout, Cluster!PlanWithout, AsCluster!ProfileSet,
    Cluster!ProfileSet, AsCluster!Progress, Cluster!Progress,
    AsCluster!PvcView, Cluster!PvcView, AsCluster!ReadyView, Cluster!ReadyView,
    AsCluster!Reconcile, Cluster!Reconcile, AsCluster!RedeployingWorkers,
    Cluster!RedeployingWorkers, AsCluster!RemoveDeployment,
    Cluster!RemoveDeployment, AsCluster!RemoveJob, Cluster!RemoveJob,
    AsCluster!RemovePersistentVolumeClaim, Cluster!RemovePersistentVolumeClaim,
    AsCluster!ReplaceAnnotations, Cluster!ReplaceAnnotations,
    AsCluster!ResourceBuildersForPhase, Cluster!ResourceBuildersForPhase,
    AsCluster!Retry, Cluster!Retry, AsCluster!Running, Cluster!Running,
    AsCluster!SetLastAppliedSpecAnnotation,
    Cluster!SetLastAppliedSpecAnnotation, AsCluster!Settled, Cluster!Settled,
    AsCluster!StartWorkers, Cluster!StartWorkers, AsCluster!Sync, Cluster!Sync,
    AsCluster!Tamper, Cluster!Tamper, AsCluster!TogglePause,
    Cluster!TogglePause, AsCluster!UnexpectedJobs, Cluster!UnexpectedJobs,
    AsCluster!UpdatingMap, Cluster!UpdatingMap, AsCluster!User, Cluster!User,
    AsCluster!UserWrites, Cluster!UserWrites, AsCluster!Wake, Cluster!Wake,
    AsCluster!Watched, Cluster!Watched, AsCluster!WorkerBuilders,
    Cluster!WorkerBuilders, AsCluster!WorkersDeployed, Cluster!WorkersDeployed,
    AsCluster!WorkersRedeployed, Cluster!WorkersRedeployed, AsCluster!bounds,
    Cluster!bounds, AsCluster!children, Cluster!children, AsCluster!local,
    Cluster!local, AsCluster!vars, Cluster!vars

LEMMA SameInit == AsCluster!Init => Cluster!Init
BY DEF AsCluster!Init, Cluster!Init, AsCluster!Claim, Cluster!Claim, AsCluster!Gen,
   Cluster!Gen, AsCluster!NoInstance, Cluster!NoInstance, AsCluster!NothingDoomed,
   Cluster!NothingDoomed, AsCluster!Empty, Cluster!Empty

(* The assumptions about the constants carry over.                         *)
LEMMA ClusterAssumptions ==
  /\ Cluster!UrlAssumption /\ Cluster!SpecsAssumption
  /\ Cluster!LaggingAssumption /\ Cluster!BoundsAssumption
<1>1. <<Unnamed>> \in Seq({Unnamed})
  OBVIOUS
<1>2. ASSUME NEW s \in Specs
      PROVE  ClusterSpecOf(s) \in [url : URLs, profiles : Seq({Unnamed})]
  BY <1>1, InstanceAssumption DEF ClusterSpecOf
<1>3. Cluster!SpecsAssumption
  BY <1>2, InstanceAssumption DEF Cluster!SpecsAssumption
<1> QED
  BY <1>3, InstanceAssumption
  DEF Cluster!UrlAssumption, Cluster!LaggingAssumption, Cluster!BoundsAssumption

(* The panic falls into the builders, before garbage collection.           *)
LEMMA PanicLosesPass ==
  ASSUME PassOK, NEW g \in Gen, AutoscalerPanics(g)
  PROVE  Cluster!PassLost
<1>1. /\ pc = "build" /\ Retry /\ UNCHANGED <<object, children, seen, bounds>>
  BY DEF AutoscalerPanics, Building
<1>2. [dep |-> {}, pvc |-> ClaimsOf(doomed.pvc), job |-> ClaimsOf(doomed.job)]
        = Cluster!NothingDoomed
  BY <1>1 DEF PassOK, ClaimsOf, Cluster!NothingDoomed
<1>3. Cluster!Retry
  BY <1>1, SameRetry
  DEF AsCluster!Retry, AsCluster!Discard, AsCluster!NoInstance,
      AsCluster!NothingDoomed, AsCluster!Empty, Cluster!Retry, Cluster!Discard,
      Cluster!NoInstance, Cluster!NothingDoomed, Cluster!Empty
<1>4. UNCHANGED Cluster!children /\ UNCHANGED Cluster!bounds
  BY <1>1 DEF children, maps, bounds, Cluster!children, Cluster!bounds
<1> QED
  BY <1>1, <1>2, <1>3, <1>4 DEF Cluster!PassLost

LEMMA NextIsClusterStep ==
  TypeOK /\ PassOK /\ [Next]_vars => Cluster!StepOrLoss
<1> SUFFICES ASSUME TypeOK, PassOK, [Next]_vars PROVE Cluster!StepOrLoss
  OBVIOUS
<1>1. CASE \E g \in Gen : AutoscalerPanics(g)
  BY <1>1, PanicLosesPass DEF Cluster!StepOrLoss
<1>2. CASE ~\E g \in Gen : AutoscalerPanics(g)
  <2>1. [AsCluster!Next]_(AsCluster!vars)
    BY <1>2, NextImplements
  <2> QED
    BY <2>1, SameSteps DEF Cluster!StepOrLoss
<1> QED
  BY <1>1, <1>2

LEMMA ClusterInit == Init => Cluster!Init
BY InitImplements, SameInit

LEMMA SoundInit == Init => TypeOK /\ PassOK /\ Cluster!MapsInOrder
BY InitTypeOK, InitPassOK, ClusterInit, ClusterAssumptions, Cluster!InitSound

LEMMA SoundNext ==
  TypeOK /\ PassOK /\ Cluster!MapsInOrder /\ [Next]_vars
    => (TypeOK /\ PassOK /\ Cluster!MapsInOrder)'
<1>1. Cluster!MapsInOrder /\ Cluster!StepOrLoss => Cluster!MapsInOrder'
  BY ClusterAssumptions, Cluster!StepKeepsSound
<1> QED
  BY <1>1, NextTypeOK, NextPassOK, NextIsClusterStep

LEMMA SameMaps ==
  /\ Cluster!Maps!Init => AsCluster!Maps!Init
  /\ [Cluster!Maps!Next]_(Cluster!Maps!vars)
       => [AsCluster!Maps!Next]_(AsCluster!Maps!vars)
  /\ [Cluster!Maps!SafeNext]_(Cluster!Maps!vars)
       => [AsCluster!Maps!SafeNext]_(AsCluster!Maps!vars)
BY Zenon
DEF AsCluster!Maps!Init, Cluster!Maps!Init, AsCluster!Maps!Next,
    Cluster!Maps!Next, AsCluster!Maps!SafeNext, Cluster!Maps!SafeNext,
    AsCluster!Maps!vars, Cluster!Maps!vars, AsCluster!Maps!Build,
    Cluster!Maps!Build, AsCluster!Maps!Discard, Cluster!Maps!Discard,
    AsCluster!Maps!Switch, Cluster!Maps!Switch, AsCluster!Maps!Retire,
    Cluster!Maps!Retire,
    AsCluster!Claim, Cluster!Claim, AsCluster!Gen, Cluster!Gen

LEMMA MapsInit == Init => AsCluster!Maps!Init
BY ClusterInit, ClusterAssumptions, Cluster!InitSwitchesMaps, SameMaps

(* Every behaviour of the controller, with whatever failures and caches,   *)
(* is a behaviour of the blue-green switch of maps.                        *)
THEOREM SwitchesMapsTheorem == Spec => SwitchesMaps
<1>1. TypeOK /\ PassOK /\ Cluster!MapsInOrder /\ [Next]_vars
        => [AsCluster!Maps!Next]_(AsCluster!Maps!vars)
  BY NextIsClusterStep, ClusterAssumptions, Cluster!StepSwitchesMaps, SameMaps
<1> QED
  BY <1>1, SoundInit, SoundNext, MapsInit, PTL
  DEF Spec, SwitchesMaps, AsCluster!SwitchesMaps, AsCluster!Maps!Spec

(* A reconciliation that fails in a List call is not tried again.          *)
ListsSucceed == "list" \notin Failures

LEMMA ClusterMissesNothing ==
  ASSUME ListsSucceed
  PROVE  Spec => [](TypeOK /\ PassOK /\ Cluster!MapsInOrder /\ Cluster!NothingMissed)
<1>1. Init => Cluster!NothingMissed
  BY ClusterInit DEF Cluster!Init, Cluster!NothingMissed
<1>2. Cluster!ListsSucceed
  BY DEF ListsSucceed, Cluster!ListsSucceed
<1>3. Cluster!MapsInOrder /\ Cluster!NothingMissed /\ Cluster!StepOrLoss
        => Cluster!NothingMissed'
  BY <1>2, ClusterAssumptions, Cluster!StepMissesNothing
<1>4. TypeOK /\ PassOK /\ Cluster!MapsInOrder /\ Cluster!NothingMissed /\ [Next]_vars
        => Cluster!NothingMissed'
  BY <1>3, NextIsClusterStep
<1> QED
  BY <1>1, <1>4, SoundInit, SoundNext, PTL DEF Spec

(* No wake-up is missed: at rest the recorded phase is the one a           *)
(* reconciliation would determine.                                         *)
THEOREM QuiescentPhaseTheorem ==
  ASSUME ListsSucceed PROVE Spec => []QuiescentPhase
<1>1. Cluster!MapsInOrder /\ Cluster!NothingMissed => Cluster!QuiescentPhase
  BY ClusterAssumptions, Cluster!RestingPhase DEF Cluster!MapsInOrder
<1>2. Cluster!QuiescentPhase => QuiescentPhase
  BY Zenon
  DEF QuiescentPhase, AsCluster!QuiescentPhase, Cluster!QuiescentPhase,
      AsCluster!Quiescent, Cluster!Quiescent, AsCluster!CachesCurrent,
      Cluster!CachesCurrent, AsCluster!Current, Cluster!Current,
      AsCluster!Running, Cluster!Running, AsCluster!BeingDeleted,
      Cluster!BeingDeleted, AsCluster!Active, Cluster!Active,
      AsCluster!GetActiveMapGeneration, Cluster!GetActiveMapGeneration,
      AsCluster!FirstDeployed, Cluster!FirstDeployed, AsCluster!ProfileSet,
      Cluster!ProfileSet, AsCluster!Existing, Cluster!Existing,
      AsCluster!Claim, Cluster!Claim, AsCluster!Gen, Cluster!Gen,
      AsCluster!Empty, Cluster!Empty, AsCluster!WorkersDeployed,
      Cluster!WorkersDeployed, AsCluster!WorkersRedeployed,
      Cluster!WorkersRedeployed, AsCluster!Future, Cluster!Future,
      AsCluster!GetFutureMapGeneration, Cluster!GetFutureMapGeneration,
      AsCluster!DeterminePhase, Cluster!DeterminePhase,
      AsCluster!IsMapBuildingInProgress, Cluster!IsMapBuildingInProgress,
      AsCluster!MapUpdateNeeded, Cluster!MapUpdateNeeded,
      AsCluster!AllWorkersReady, Cluster!AllWorkersReady, AsCluster!Bound,
      Cluster!Bound, AsCluster!Completed, Cluster!Completed,
      AsCluster!BuildingMap, Cluster!BuildingMap, AsCluster!UpdatingMap,
      Cluster!UpdatingMap, AsCluster!DeployingWorkers,
      Cluster!DeployingWorkers, AsCluster!RedeployingWorkers,
      Cluster!RedeployingWorkers
<1> QED
  BY <1>1, <1>2, ClusterMissesNothing, PTL

(* At rest nothing is left of the generations that were replaced.          *)
THEOREM NoLeftoversTheorem ==
  ASSUME ListsSucceed PROVE Spec => []NoLeftovers
<1>1. Cluster!MapsInOrder /\ Cluster!NothingMissed => Cluster!NoLeftovers
  BY ClusterAssumptions, Cluster!NothingLeft DEF Cluster!MapsInOrder
<1>2. Cluster!NoLeftovers => NoLeftovers
  BY Zenon
  DEF NoLeftovers, AsCluster!NoLeftovers, Cluster!NoLeftovers,
      AsCluster!Quiescent, Cluster!Quiescent, AsCluster!CachesCurrent,
      Cluster!CachesCurrent, AsCluster!Current, Cluster!Current,
      AsCluster!Running, Cluster!Running, AsCluster!BeingDeleted,
      Cluster!BeingDeleted, AsCluster!Active, Cluster!Active,
      AsCluster!GetActiveMapGeneration, Cluster!GetActiveMapGeneration,
      AsCluster!FirstDeployed, Cluster!FirstDeployed, AsCluster!ProfileSet,
      Cluster!ProfileSet, AsCluster!Existing, Cluster!Existing,
      AsCluster!Claim, Cluster!Claim, AsCluster!Gen, Cluster!Gen,
      AsCluster!Empty, Cluster!Empty, AsCluster!WorkersDeployed,
      Cluster!WorkersDeployed, AsCluster!WorkersRedeployed,
      Cluster!WorkersRedeployed
<1> QED
  BY <1>1, <1>2, ClusterMissesNothing, PTL

(* Nobody disturbs the switch of maps: no call of a reconciliation fails   *)
(* and the caches keep up.  "tamper" (somebody else deletes volumes, Jobs  *)
(* or the Deployment) is an operation of OSRMCluster only; Services,       *)
(* budgets, autoscalers and CronJobs may be deleted at any moment.         *)
Undisturbed ==
  /\ Lagging = {}
  /\ Failures \cap {"call", "collect", "list"} = {}
  /\ "tamper" \notin UserOps

(* The one Deployment cannot be of another generation than the others, so  *)
(* a panic that loses its builder does no harm.                            *)
LEMMA ClusterUndisturbed ==
  ASSUME Undisturbed
  PROVE  Cluster!Undisturbed /\ \A p, q \in Cluster!Served : p = q
<1>1. \A s \in Specs : ClusterSpecOf(s).profiles = <<Unnamed>>
  BY DEF ClusterSpecOf
<1>2. ClusterSpecOf(FirstSpec).profiles = <<Unnamed>>
  BY DEF ClusterSpecOf
<1>3. Cluster!Served = {Unnamed}
  BY <1>2 DEF Cluster!Served, Cluster!ProfileSet
<1>4. Cluster!Undisturbed
  BY <1>1, <1>2 DEF Undisturbed, Cluster!Undisturbed
<1> QED
  BY <1>3, <1>4

(* The map in use is neither rebuilt nor discarded, and workers only move  *)
(* forward, to a map that is still there: with edits, pauses, deletes,     *)
(* failed Jobs, failed pods and panics at any moment.                      *)
THEOREM SwitchesMapsSafelyTheorem ==
  ASSUME Undisturbed PROVE Spec => SwitchesMapsSafely
<1>1. Init => Cluster!SwitchInv
  BY ClusterInit, ClusterAssumptions, Cluster!InitSwitch
<1>2. Cluster!MapsInOrder /\ Cluster!SwitchInv /\ Cluster!StepOrLoss
        => /\ Cluster!SwitchInv'
           /\ [Cluster!Maps!SafeNext]_(Cluster!Maps!vars)
  BY ClusterUndisturbed, ClusterAssumptions, Cluster!StepKeepsSwitch
<1>3. TypeOK /\ PassOK /\ Cluster!MapsInOrder /\ Cluster!SwitchInv /\ [Next]_vars
        => /\ Cluster!SwitchInv'
           /\ [AsCluster!Maps!SafeNext]_(AsCluster!Maps!vars)
  BY <1>2, NextIsClusterStep, SameMaps
<1> QED
  BY <1>1, <1>3, SoundInit, SoundNext, MapsInit, PTL
  DEF Spec, SwitchesMapsSafely, AsCluster!SwitchesMapsSafely, AsCluster!Maps!SafeSpec
=============================================================================
