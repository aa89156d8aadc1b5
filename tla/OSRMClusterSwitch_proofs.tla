---------------------- MODULE OSRMClusterSwitch_proofs ----------------------
(***************************************************************************)
(* The blue-green switch of maps is safe when nobody disturbs it: the      *)
(* profiles stay, no call of a reconciliation fails, nobody else deletes   *)
(* children and the caches keep up.  Edits of the extract, pauses, deletes *)
(* and lost annotations at any moment, failed Jobs and failed pods do not  *)
(* harm it, with any number of profiles, extracts, edits and generations.  *)
(***************************************************************************)
EXTENDS OSRMCluster_proofs, SequenceLemmas

Undisturbed ==
  /\ Lagging = {}
  /\ Failures \cap {"call", "collect", "list"} = {}
  /\ "tamper" \notin UserOps
  /\ \A s \in Specs : s.profiles = FirstSpec.profiles

Served == ProfileSet(FirstSpec.profiles)

ProfilesStay ==
  /\ cluster.spec.profiles = FirstSpec.profiles
  /\ instance.spec.profiles = FirstSpec.profiles

(* The claims the builders still to run will have Deployments mount.       *)
Targets == {todo[i].claim : i \in {j \in DOMAIN todo : todo[j].kind = "Deployment"}}
Waiting == {c[1] : c \in Targets}

(* The volume of a claim holds a map, and the Job that built it is done.   *)
Sound(c) == pvc[c] = "Bound" /\ volume[c] # NoUrl /\ job[c] = "Complete"

MountedSound == \A p \in Profiles : dep[p] # 0 => Sound(<<p, dep[p]>>)

(* A Job that is done has a volume with its map, until both are collected. *)
JobsFilled ==
  \A c \in Claim :
    job[c] = "Complete" =>
      (pvc[c] = "Bound" /\ volume[c] # NoUrl) \/ c \in doomed.job

(* The Deployments move to one generation, and never backwards.            *)
TargetsSound ==
  /\ Waiting \subseteq Served
  /\ \A c \in Targets : Sound(c) /\ dep[c[1]] <= c[2]
  /\ \A c, d \in Targets : c[2] = d[2]
  /\ \A c \in Targets : \A p \in Served : p \in Waiting \/ dep[p] = c[2]

(* But for those that wait to be moved all Deployments mount the same      *)
(* generation, and there are none of other profiles.                       *)
OneGeneration ==
  /\ \A p \in Profiles : p \notin Served => dep[p] = 0
  /\ \A p, q \in Served : p \in Waiting \/ q \in Waiting \/ dep[p] = dep[q]

(* What garbage collection is about to delete is not mounted, and no Job   *)
(* is left of a volume that goes.                                          *)
DoomedUnused ==
  /\ \A p \in Profiles :
       dep[p] # 0 => <<p, dep[p]>> \notin doomed.pvc \cup doomed.job
  /\ \A c \in doomed.pvc : job[c] # "Absent" => c \in doomed.job

WorkInItsPlace ==
  /\ pc # "build" => todo = << >>
  /\ pc # "gcClaims" => doomed.pvc = {} /\ doomed.job = {}
  /\ doomed.dep = {}

SwitchInv ==
  /\ ProfilesStay /\ MountedSound /\ JobsFilled /\ TargetsSound
  /\ OneGeneration /\ DoomedUnused /\ WorkInItsPlace /\ JobsHaveSource

-----------------------------------------------------------------------------
(* The decisions, once more: which generation is active, which is newest.  *)

(* A set of generations has a greatest one.                                *)
LEMMA GreatestGeneration ==
  ASSUME NEW T \in SUBSET Gen, T # {}
  PROVE  \E x \in T : \A y \in T : y <= x
<1> DEFINE R == {MaxGen - y : y \in T}
<1>1. MaxGen \in Nat /\ \A y \in T : y \in Nat /\ y <= MaxGen
  BY BoundsAssumption DEF Gen
<1>2. R \subseteq Nat /\ R # {}
  BY <1>1
<1>3. PICK z \in R : \A r \in R : z <= r
  BY <1>2, LeastNatural
<1>4. PICK x \in T : z = MaxGen - x
  OBVIOUS
<1>5. ASSUME NEW y \in T PROVE y <= x
  <2>1. z <= MaxGen - y
    BY <1>3
  <2> QED
    BY <1>1, <1>4, <2>1
<1> QED
  BY <1>5

(* The future generation is at least that of every claim.                  *)
LEMMA FutureIsNewest ==
  ASSUME NEW pvcs \in SUBSET Claim
  PROVE  LET future == GetFutureMapGeneration(pvcs)
         IN  /\ future \in Gen
             /\ \A c \in pvcs : c[2] <= future
             /\ future = 1 \/ \E c \in pvcs : future = c[2]
<1> DEFINE gens == {1} \cup {c[2] : c \in pvcs}
<1>1. gens \in SUBSET Gen /\ gens # {}
  BY BoundsAssumption DEF Gen, Claim
<1>2. \E g \in gens : \A h \in gens : h <= g
  BY <1>1, GreatestGeneration
<1>3. /\ GetFutureMapGeneration(pvcs) \in gens
      /\ \A h \in gens : h <= GetFutureMapGeneration(pvcs)
  BY <1>2 DEF GetFutureMapGeneration
<1> QED
  BY <1>1, <1>3

(* When all Deployments mount the same generation that is the active one.  *)
LEMMA ActiveIsMounted ==
  ASSUME NEW profiles \in Seq(Profiles), NEW d \in [Profiles -> 0 .. MaxGen],
         \A p, q \in ProfileSet(profiles) : d[p] = d[q],
         NEW r \in ProfileSet(profiles)
  PROVE  GetActiveMapGeneration(profiles, d) = IF d[r] = 0 THEN 1 ELSE d[r]
<1>1. \A i \in DOMAIN profiles : d[profiles[i]] = d[r]
  BY DEF ProfileSet
<1>2. CASE d[r] = 0
  BY <1>1, <1>2 DEF GetActiveMapGeneration, FirstDeployed
<1>3. CASE d[r] # 0
  <2>1. 1 \in DOMAIN profiles /\ \A i \in DOMAIN profiles : 1 <= i
    BY DEF ProfileSet
  <2>2. FirstDeployed(profiles, d, 1)
    BY <1>1, <1>3, <2>1 DEF FirstDeployed
  <2> DEFINE first == CHOOSE i \in DOMAIN profiles : FirstDeployed(profiles, d, i)
  <2>3. first \in DOMAIN profiles
    BY <2>1, <2>2
  <2>4. d[profiles[first]] = d[r]
    BY <1>1, <2>3
  <2> HIDE DEF first
  <2> QED
    BY <1>3, <2>1, <2>2, <2>4 DEF GetActiveMapGeneration, first
<1> QED
  BY <1>2, <1>3

-----------------------------------------------------------------------------
(* What steps do to the invariant.                                         *)

LEMMA NothingLags ==
  ASSUME Undisturbed
  PROVE  PvcView = pvc /\ JobView = job /\ DepView = dep /\ ReadyView = ready
BY DEF Undisturbed, PvcView, JobView, DepView, ReadyView

LEMMA NoFailedCalls ==
  ASSUME Undisturbed
  PROVE  ~Abandon /\ \A lost \in SUBSET Kinds : PlanWithout(lost) => lost = {}
BY DEF Undisturbed, Abandon, Fault, PlanWithout

(* A builder that has run is no longer among those to run.                 *)
LEMMA BuilderLeaves ==
  ASSUME TypeOK, NEW kind, NEW c, Building(kind, c), todo' = Tail(todo)
  PROVE  /\ kind # "Deployment" => Targets' = Targets
         /\ kind = "Deployment" => Targets = Targets' \cup {c}
<1> DEFINE Deployments(t) == {j \in DOMAIN t : t[j].kind = "Deployment"}
<1>1. todo \in Seq(BuilderType) /\ todo # << >>
  BY DEF TypeOK, ReconcileTypeOK, BuilderType, Building
<1>2. 1 \in DOMAIN todo /\ todo[1] = [kind |-> kind, claim |-> c]
  BY <1>1 DEF Building
<1>3. \A i \in DOMAIN todo' : i + 1 \in DOMAIN todo /\ todo'[i] = todo[i + 1]
  BY <1>1
<1>4. \A i \in DOMAIN todo : i # 1 => i - 1 \in DOMAIN todo' /\ todo[i] = todo'[i - 1]
  BY <1>1
<1>5. Targets' \subseteq Targets
  BY <1>3 DEF Targets
<1>6. Targets \subseteq Targets' \cup (IF kind = "Deployment" THEN {c} ELSE {})
  <2> SUFFICES ASSUME NEW i \in DOMAIN todo, todo[i].kind = "Deployment"
               PROVE  todo[i].claim \in Targets'
                        \cup (IF kind = "Deployment" THEN {c} ELSE {})
    BY DEF Targets
  <2>1. CASE i = 1
    BY <1>2, <2>1
  <2>2. CASE i # 1
    BY <1>4, <2>2 DEF Targets
  <2> QED
    BY <2>1, <2>2
<1>7. kind = "Deployment" => c \in Targets
  BY <1>2 DEF Targets
<1> QED
  BY <1>5, <1>6, <1>7

LEMMA NoTargets == todo = << >> => Targets = {} /\ Waiting = {}
BY DEF Targets, Waiting

LEMMA TargetsAreClaims == TypeOK => Targets \subseteq Claim
<1> SUFFICES ASSUME TypeOK, NEW i \in DOMAIN todo PROVE todo[i].claim \in Claim
  BY DEF Targets
<1>1. todo \in Seq(BuilderType)
  BY DEF TypeOK, ReconcileTypeOK, BuilderType
<1>2. todo[i] \in BuilderType
  BY <1>1
<1> QED
  BY <1>2 DEF BuilderType

(* A step that moves no Deployment, leaves the builders of Deployments     *)
(* alone and harms no map in its place.                                    *)
LEMMA MapsKept ==
  ASSUME TypeOK, SwitchInv, UNCHANGED dep, Targets' = Targets,
         UNCHANGED <<doomed.pvc, doomed.job>>,
         ProfilesStay', WorkInItsPlace', JobsFilled', JobsHaveSource',
         \A c \in Claim : Sound(c) => Sound(c)',
         \A c \in Claim : job'[c] # "Absent" =>
                            job[c] # "Absent" \/ c \notin doomed.pvc
  PROVE  SwitchInv'
<1>1. Waiting' = Waiting
  BY DEF Waiting
<1>2. Targets \subseteq Claim /\ dep \in [Profiles -> 0 .. MaxGen]
  BY TargetsAreClaims DEF TypeOK, ChildrenTypeOK
<1>3. MountedSound'
  <2> SUFFICES ASSUME NEW p \in Profiles, dep[p] # 0 PROVE Sound(<<p, dep[p]>>)'
    BY DEF MountedSound
  <2>1. <<p, dep[p]>> \in Claim
    BY <1>2 DEF Claim, Gen
  <2>2. Sound(<<p, dep[p]>>)
    BY DEF SwitchInv, MountedSound
  <2>3. Sound(<<p, dep[p]>>) => pvc'[<<p, dep[p]>>] = "Bound"
          /\ volume'[<<p, dep[p]>>] # NoUrl /\ job'[<<p, dep[p]>>] = "Complete"
    BY <2>1 DEF Sound
  <2> QED
    BY <2>2, <2>3 DEF Sound
<1>4. TargetsSound'
  <2>1. \A c \in Targets : Sound(c)'
    BY <1>2 DEF SwitchInv, TargetsSound
  <2> QED
    BY <1>1, <2>1 DEF SwitchInv, TargetsSound
<1>5. OneGeneration'
  BY <1>1 DEF SwitchInv, OneGeneration
<1>6. DoomedUnused'
  <2>1. doomed.pvc \subseteq Claim
    BY DEF TypeOK, ReconcileTypeOK
  <2> QED
    BY <2>1 DEF SwitchInv, DoomedUnused
<1> QED
  BY <1>3, <1>4, <1>5, <1>6 DEF SwitchInv

(* A step that touches neither the children nor the work to be done.       *)
LEMMA WorkKept ==
  ASSUME TypeOK, SwitchInv, JobsHaveSource',
         UNCHANGED <<pvc, volume, job, dep, todo, doomed.pvc, doomed.job>>,
         ProfilesStay', WorkInItsPlace'
  PROVE  SwitchInv'
<1>1. Targets' = Targets
  BY DEF Targets
<1>2. JobsFilled' /\ \A c \in Claim : Sound(c) => Sound(c)'
  BY DEF SwitchInv, JobsFilled, Sound
<1> QED
  BY <1>1, <1>2, MapsKept

-----------------------------------------------------------------------------
(* The invariant is inductive: one lemma per group of actions.             *)

(* The beginning and the end of a reconciliation.                          *)
LEMMA BoundaryKeepsSwitch ==
  ASSUME TypeOK, Undisturbed, SwitchInv, JobsHaveSource',
         \/ Forget \/ Initialize \/ MarkDeleting \/ Finalize \/ Pause \/ Begin
         \/ Finish \/ SetLastAppliedSpecAnnotation \/ Wake
  PROVE  SwitchInv'
<1> USE DEF children, local, ProfilesStay, WorkInItsPlace
<1>1. UNCHANGED <<pvc, volume, job, dep>>
  BY DEF Forget, Initialize, MarkDeleting, Finalize, Pause, Begin, Finish,
         SetLastAppliedSpecAnnotation, Wake
<1>2. CASE Forget \/ Initialize \/ Pause \/ Begin \/ Wake
  <2>1. UNCHANGED <<todo, doomed>> /\ ProfilesStay' /\ WorkInItsPlace'
    BY <1>2
    DEF Forget, Initialize, Pause, Begin, Wake, Dequeue, SwitchInv, TypeOK,
        ObjectTypeOK
  <2> QED
    BY <1>1, <2>1, WorkKept
<1>3. CASE MarkDeleting
  <2>1. UNCHANGED <<todo, doomed>> /\ ProfilesStay' /\ WorkInItsPlace'
    BY <1>3 DEF MarkDeleting, Dequeue, SwitchInv, TypeOK, ObjectTypeOK
  <2> QED
    BY <1>1, <2>1, WorkKept
<1>4. ASSUME Discard, todo = << >>, doomed.pvc = {}, doomed.job = {},
             cluster'.spec = cluster.spec
      PROVE  SwitchInv'
  <2>1. UNCHANGED <<todo, doomed.pvc, doomed.job>> /\ ProfilesStay' /\ WorkInItsPlace'
    BY <1>4 DEF Discard, NothingDoomed, NoInstance, SwitchInv
  <2> QED
    BY <1>1, <2>1, WorkKept
<1>5. CASE Finalize
  <2>1. Discard /\ pc = "finalize" /\ cluster'.spec = cluster.spec
    BY <1>5 DEF Finalize, Retry, TypeOK, ObjectTypeOK
  <2> QED
    BY <1>4, <2>1 DEF SwitchInv
<1>6. CASE Finish
  BY <1>4, <1>6 DEF Finish, SwitchInv
<1>7. CASE SetLastAppliedSpecAnnotation
  <2>1. CASE Retry
    BY <1>4, <1>7, <2>1
    DEF SetLastAppliedSpecAnnotation, Retry, SwitchInv, TypeOK, ObjectTypeOK
  <2>2. CASE ~Retry
    <3>1. /\ UNCHANGED <<todo, instance>> /\ pc = "build" /\ pc' = "gcDeployments"
          /\ cluster'.spec = cluster.spec /\ todo = << >>
          /\ doomed'.pvc = {} /\ doomed'.job = {}
      BY <1>7, <2>2
      DEF SetLastAppliedSpecAnnotation, NothingDoomed, TypeOK, ObjectTypeOK
    <3>2. doomed'.dep = {}
      <4>1. Waiting = {} /\ instance.spec.profiles = FirstSpec.profiles
        BY <3>1, NoTargets DEF SwitchInv, ProfilesStay
      <4>2. \A p \in Profiles : dep[p] # 0 => p \in Served
        BY DEF SwitchInv, OneGeneration
      <4>3. DepView = dep
        BY NothingLags
      <4> QED
        BY <1>7, <2>2, <4>1, <4>2, <4>3
        DEF SetLastAppliedSpecAnnotation, NothingDoomed, Served
    <3>3. ProfilesStay' /\ WorkInItsPlace'
      BY <3>1, <3>2 DEF SwitchInv, ProfilesStay, WorkInItsPlace
    <3> QED
      BY <1>1, <3>1, <3>3, WorkKept DEF SwitchInv, WorkInItsPlace
  <2> QED
    BY <2>1, <2>2
<1> QED
  BY <1>2, <1>3, <1>5, <1>6, <1>7

(* The user, whose edits keep the profiles.                                *)
LEMMA UserKeepsSwitch ==
  ASSUME TypeOK, Undisturbed, SwitchInv, JobsHaveSource', User
  PROVE  SwitchInv'
<1> USE DEF children
<1>1. EditSpec \/ PatientEdit \/ TogglePause \/ ReplaceAnnotations \/ Delete
  BY DEF User, RemoveDeployment, RemovePersistentVolumeClaim, RemoveJob, Tamper,
         Undisturbed
<1>2. UNCHANGED <<pvc, volume, job, dep, todo, doomed, pc, instance>>
  BY <1>1
  DEF EditSpec, PatientEdit, TogglePause, ReplaceAnnotations, Delete, UserWrites
<1>3. cluster'.spec = cluster.spec \/ cluster'.spec \in Specs
  BY <1>1
  DEF EditSpec, PatientEdit, TogglePause, ReplaceAnnotations, Delete, TypeOK,
      ObjectTypeOK
<1>4. ProfilesStay' /\ WorkInItsPlace'
  BY <1>2, <1>3 DEF Undisturbed, SwitchInv, ProfilesStay, WorkInItsPlace
<1> QED
  BY <1>2, <1>4, WorkKept

(* Kubernetes and the map builder.                                         *)
LEMMA ProgressKeepsSwitch ==
  ASSUME TypeOK, SwitchInv, JobsHaveSource',
         \/ Progress
         \/ \E c \in Claim : FailJob(c)
         \/ \E p \in Profiles : FailWorkers(p)
  PROVE  SwitchInv'
<1> USE DEF local
<1>1. UNCHANGED <<cluster, pc, local, dep>>
  BY DEF Progress, BindVolume, CompleteJob, StartWorkers, FailJob, FailWorkers
<1>2. Targets' = Targets /\ ProfilesStay' /\ WorkInItsPlace'
  BY <1>1 DEF Targets, SwitchInv, ProfilesStay, WorkInItsPlace
<1>3. ASSUME NEW c \in Claim, BindVolume(c) PROVE SwitchInv'
  BY <1>1, <1>2, <1>3, MapsKept
  DEF BindVolume, SwitchInv, JobsFilled, Sound, TypeOK, ChildrenTypeOK
<1>4. ASSUME NEW c \in Claim, CompleteJob(c) PROVE SwitchInv'
  <2>1. source[c] # NoUrl
    BY <1>4, UrlAssumption DEF CompleteJob, SwitchInv, JobsHaveSource
  <2>2. JobsFilled'
    BY <1>1, <1>4, <2>1
    DEF CompleteJob, SwitchInv, JobsFilled, TypeOK, ChildrenTypeOK
  <2>3. \A d \in Claim : Sound(d) => Sound(d)'
    BY <1>4 DEF CompleteJob, Sound, TypeOK, ChildrenTypeOK
  <2>4. \A d \in Claim : job'[d] # "Absent" => job[d] # "Absent"
    BY <1>4 DEF CompleteJob, TypeOK, ChildrenTypeOK
  <2> QED
    BY <1>1, <1>2, <2>2, <2>3, <2>4, MapsKept
<1>5. ASSUME NEW c \in Claim, FailJob(c) PROVE SwitchInv'
  BY <1>1, <1>2, <1>5, MapsKept
  DEF FailJob, SwitchInv, JobsFilled, Sound, TypeOK, ChildrenTypeOK
<1>6. ASSUME NEW p \in Profiles, StartWorkers(p) \/ FailWorkers(p) PROVE SwitchInv'
  BY <1>1, <1>2, <1>6, WorkKept DEF StartWorkers, FailWorkers
<1> QED
  BY <1>3, <1>4, <1>5, <1>6 DEF Progress

(* The builders.                                                           *)
LEMMA BuildKeepsSwitch ==
  ASSUME TypeOK, Undisturbed, SwitchInv, JobsHaveSource', Build
  PROVE  SwitchInv'
<1> USE DEF children
<1>1. CASE SetLastAppliedSpecAnnotation
  BY <1>1, BoundaryKeepsSwitch
<1>2. PvcView = pvc /\ JobView = job /\ DepView = dep /\ ReadyView = ready
  BY NothingLags
<1>3. ASSUME NEW c \in Claim, BuildPersistentVolumeClaim(c) PROVE SwitchInv'
  <2>1. /\ BuilderDone /\ Building("PersistentVolumeClaim", c)
        /\ UNCHANGED <<cluster, volume, job, dep>>
        /\ pvc' = pvc \/ (pvc[c] = "Absent" /\ pvc' = [pvc EXCEPT ![c] = "Pending"])
    BY <1>2, <1>3 DEF BuildPersistentVolumeClaim
  <2>2. ProfilesStay' /\ WorkInItsPlace' /\ UNCHANGED doomed
    BY <2>1 DEF BuilderDone, Building, SwitchInv, ProfilesStay, WorkInItsPlace
  <2>3. Targets' = Targets
    BY <2>1, BuilderLeaves DEF BuilderDone
  <2>4. JobsFilled' /\ \A d \in Claim : Sound(d) => Sound(d)'
    BY <2>1, <2>2 DEF SwitchInv, JobsFilled, Sound, TypeOK, ChildrenTypeOK
  <2> QED
    BY <2>1, <2>2, <2>3, <2>4, MapsKept
<1>4. ASSUME NEW c \in Claim, BuildJob(c) PROVE SwitchInv'
  <2>1. /\ BuilderDone /\ Building("Job", c)
        /\ UNCHANGED <<cluster, pvc, volume, dep>>
        /\ job' = job \/ (job[c] = "Absent" /\ job' = [job EXCEPT ![c] = "Active"])
    BY <1>2, <1>4 DEF BuildJob
  <2>2. ProfilesStay' /\ WorkInItsPlace' /\ UNCHANGED doomed /\ doomed.pvc = {}
    BY <2>1 DEF BuilderDone, Building, SwitchInv, ProfilesStay, WorkInItsPlace
  <2>3. Targets' = Targets
    BY <2>1, BuilderLeaves DEF BuilderDone
  <2>4. JobsFilled' /\ \A d \in Claim : Sound(d) => Sound(d)'
    BY <2>1, <2>2 DEF SwitchInv, JobsFilled, Sound, TypeOK, ChildrenTypeOK
  <2> QED
    BY <2>1, <2>2, <2>3, <2>4, MapsKept
<1>5. ASSUME NEW c \in Claim, BuildDeployment(c) PROVE SwitchInv'
  <2>1. /\ BuilderDone /\ Building("Deployment", c)
        /\ UNCHANGED <<cluster, pvc, volume, job>>
        /\ dep' = [dep EXCEPT ![c[1]] = c[2]]
    BY <1>2, <1>5 DEF BuildDeployment, DeploymentIsCurrent
  <2>2. ProfilesStay' /\ WorkInItsPlace' /\ UNCHANGED doomed
    BY <2>1 DEF BuilderDone, Building, SwitchInv, ProfilesStay, WorkInItsPlace
  <2>3. doomed.pvc = {} /\ doomed.job = {}
    BY <2>1 DEF Building, SwitchInv, WorkInItsPlace
  <2>4. Targets = Targets' \cup {c} /\ Targets \subseteq Claim
    BY <2>1, BuilderLeaves, TargetsAreClaims DEF BuilderDone
  <2>5. Waiting = Waiting' \cup {c[1]}
    BY <2>4 DEF Waiting
  <2>6. /\ c = <<c[1], c[2]>> /\ c[1] \in Profiles /\ c[2] \in Nat
        /\ dep \in [Profiles -> Nat] /\ \A d \in Targets : d[1] \in Profiles
    BY <2>4, BoundsAssumption DEF Claim, Gen, TypeOK, ChildrenTypeOK
  <2>7. \A d : Sound(d)' <=> Sound(d)
    BY <2>1 DEF Sound
  <2>8. MountedSound'
    BY <2>1, <2>4, <2>6, <2>7 DEF SwitchInv, MountedSound, TargetsSound
  <2>9. TargetsSound'
    <3>1. \A d \in Targets' : Sound(d)' /\ dep'[d[1]] <= d[2]
      BY <2>1, <2>4, <2>6, <2>7 DEF SwitchInv, TargetsSound
    <3>2. \A d \in Targets' : \A p \in Served : p \in Waiting' \/ dep'[p] = d[2]
      <4> SUFFICES ASSUME NEW d \in Targets', NEW p \in Served, p \notin Waiting'
                   PROVE  dep'[p] = d[2]
        OBVIOUS
      <4>1. c[2] = d[2]
        BY <2>4 DEF SwitchInv, TargetsSound
      <4>2. p \in Profiles
        BY SpecsAssumption DEF Served, ProfileSet
      <4>3. p = c[1] \/ dep[p] = d[2]
        BY <2>4, <2>5 DEF SwitchInv, TargetsSound
      <4> QED
        BY <2>1, <2>6, <4>1, <4>2, <4>3
    <3> QED
      BY <2>4, <2>5, <3>1, <3>2 DEF SwitchInv, TargetsSound
  <2>10. OneGeneration'
    <3>1. \A p \in Served : p \in Profiles
      BY SpecsAssumption DEF Served, ProfileSet
    <3>2. ASSUME NEW p \in Served PROVE p \in Waiting' \/ dep'[p] = c[2]
      BY <2>1, <2>4, <2>5, <2>6, <3>1, <3>2 DEF SwitchInv, TargetsSound
    <3>3. c[1] \in Served
      BY <2>5 DEF SwitchInv, TargetsSound
    <3> QED
      BY <2>1, <2>6, <3>2, <3>3 DEF SwitchInv, OneGeneration
  <2>11. DoomedUnused'
    BY <2>2, <2>3 DEF DoomedUnused
  <2>12. JobsFilled'
    BY <2>1, <2>2 DEF SwitchInv, JobsFilled
  <2> QED
    BY <2>2, <2>8, <2>9, <2>10, <2>11, <2>12 DEF SwitchInv
<1> QED
  BY <1>1, <1>3, <1>4, <1>5 DEF Build

(* Only the phases of workers have builders of Deployments, and those have *)
(* the Deployment of every profile mount generation g.                     *)
MoveAll(builders, phase, profiles, g) ==
  /\ \A i \in DOMAIN builders :
       builders[i].kind = "Deployment" =>
         /\ phase \in WorkerPhases
         /\ \E p \in ProfileSet(profiles) : builders[i].claim = <<p, g>>
  /\ phase \in WorkerPhases =>
       \A p \in ProfileSet(profiles) :
         \E i \in DOMAIN builders :
           builders[i].kind = "Deployment" /\ builders[i].claim = <<p, g>>

(* The claims the builders of a phase will have Deployments mount.         *)
LEMMA TargetsOfPhase ==
  ASSUME NEW profiles \in Seq(Profiles), NEW phase, NEW active \in Gen, NEW future,
         phase = UpdatingMap => GetNextMapGeneration(active) \in Gen,
         NEW g, g = GenerationFor(phase, active, future),
         NEW builders,
         builders = ResourceBuildersForPhase(phase, profiles, active, future)
  PROVE  MoveAll(builders, phase, profiles, g)
<1> USE DEF MoveAll, WorkerPhases, UpdatingMap, BuildingMap, RedeployingWorkers,
            DeployingWorkers, WorkersDeployed, WorkersRedeployed
<1>1. CASE phase \in {BuildingMap, UpdatingMap}
  <2>1. builders = MapBuilders(profiles, g)
    BY <1>1 DEF ResourceBuildersForPhase
  <2>2. g \in Gen
    BY <1>1 DEF GenerationFor
  <2>3. \A i \in DOMAIN builders : builders[i].kind # "Deployment"
    BY <2>1, <2>2, MapBuildersType
  <2> QED
    BY <1>1, <2>3
<1>2. CASE phase \in WorkerPhases
  <2>1. builders = [k \in 1 .. Len(profiles) |-> Builder("Deployment", profiles[k], g)]
    BY <1>2 DEF ResourceBuildersForPhase, WorkerBuilders
  <2>2. /\ DOMAIN builders = DOMAIN profiles
        /\ \A k \in DOMAIN profiles : /\ builders[k].kind = "Deployment"
                                      /\ builders[k].claim = <<profiles[k], g>>
    BY <2>1 DEF Builder
  <2>3. /\ \A i \in DOMAIN builders :
             \E p \in ProfileSet(profiles) : builders[i].claim = <<p, g>>
        /\ \A p \in ProfileSet(profiles) :
             \E i \in DOMAIN builders :
               builders[i].kind = "Deployment" /\ builders[i].claim = <<p, g>>
    BY <2>2 DEF ProfileSet
  <2> QED
    BY <1>2, <2>3
<1>3. CASE phase \notin {BuildingMap, UpdatingMap} /\ phase \notin WorkerPhases
  <2>1. builders = << >>
    BY <1>3 DEF ResourceBuildersForPhase
  <2> QED
    BY <1>3, <2>1
<1> QED
  BY <1>1, <1>2, <1>3

(* The generation a plan moves workers to is not behind the one they use.  *)
LEMMA PlanGoesForward ==
  ASSUME TypeOK, SwitchInv, todo = << >>, NEW p \in Served
  PROVE  LET active == GetActiveMapGeneration(FirstSpec.profiles, dep)
             future == GetFutureMapGeneration(Existing(pvc))
         IN  /\ active = IF dep[p] = 0 THEN 1 ELSE dep[p]
             /\ future \in Gen
             /\ dep[p] <= active /\ dep[p] <= future
<1>1. /\ FirstSpec.profiles \in Seq(Profiles) /\ p \in Profiles
      /\ dep \in [Profiles -> 0 .. MaxGen]
  BY SpecsAssumption DEF Served, ProfileSet, TypeOK, ChildrenTypeOK
<1>2. \A q, r \in Served : dep[q] = dep[r]
  BY NoTargets DEF SwitchInv, OneGeneration
<1>3. GetActiveMapGeneration(FirstSpec.profiles, dep) = IF dep[p] = 0 THEN 1 ELSE dep[p]
  BY <1>1, <1>2, ActiveIsMounted DEF Served
<1>4. dep[p] # 0 => <<p, dep[p]>> \in Existing(pvc)
  BY <1>1 DEF SwitchInv, MountedSound, Sound, Existing, Claim, Gen
<1>5. LET future == GetFutureMapGeneration(Existing(pvc))
      IN  future \in Gen /\ \A c \in Existing(pvc) : c[2] <= future
  BY FutureIsNewest DEF Existing
<1>6. dep[p] \in Nat /\ \A g \in Gen : g \in Nat
  BY <1>1, BoundsAssumption DEF Gen
<1>7. dep[p] <= GetFutureMapGeneration(Existing(pvc))
  BY <1>4, <1>5, <1>6
<1> QED
  BY <1>3, <1>5, <1>6, <1>7

LEMMA PlanKeepsSwitch ==
  ASSUME TypeOK, Undisturbed, SwitchInv, JobsHaveSource', Plan
  PROVE  SwitchInv'
<1> DEFINE profiles == instance.spec.profiles
           active   == GetActiveMapGeneration(profiles, dep)
           future   == GetFutureMapGeneration(Existing(pvc))
           phase    == DeterminePhase(instance.spec, instance.lastApplied, active,
                                      future, Bound(pvc), Completed(job), ready)
           g        == GenerationFor(phase, active, future)
           builders == ResourceBuildersForPhase(phase, profiles, active, future)
<1>1. PlanWithout({})
  BY NoFailedCalls DEF Plan
<1>2. PvcView = pvc /\ JobView = job /\ DepView = dep /\ ReadyView = ready
  BY NothingLags
<1>3. /\ pc = "plan" /\ UNCHANGED children
      /\ \/ Retry /\ UNCHANGED cluster
         \/ /\ phase = UpdatingMap => GetNextMapGeneration(active) \in Gen
            /\ cluster' = IF phase = instance.phase THEN cluster
                          ELSE [cluster EXCEPT !.phase = phase]
            /\ instance' = [instance EXCEPT !.phase = phase]
            /\ todo' = builders
            /\ pc' = "build" /\ UNCHANGED doomed
  BY <1>1, <1>2 DEF PlanWithout
<1>4. /\ todo = << >> /\ doomed.pvc = {} /\ doomed.job = {}
      /\ Targets = {} /\ Waiting = {}
  BY <1>3, NoTargets DEF SwitchInv, WorkInItsPlace
<1>5. profiles = FirstSpec.profiles /\ profiles \in Seq(Profiles)
  BY SpecsAssumption DEF SwitchInv, ProfilesStay
<1>6. active \in Gen
  BY <1>5, ActiveIsGeneration DEF TypeOK, ChildrenTypeOK
<1>7. phase \in WorkerPhases =>
        \A p \in ProfileSet(profiles) : <<p, g>> \in Bound(pvc) \cap Completed(job)
  BY PhaseOfWorkers
<1>8. \A p \in Served : dep[p] <= active /\ dep[p] <= future
  BY <1>4, <1>5, PlanGoesForward
<1> HIDE DEF active, future, phase, builders, profiles
<1>9. CASE Retry /\ UNCHANGED cluster
  <2>1. UNCHANGED <<todo, doomed.pvc, doomed.job>> /\ ProfilesStay' /\ WorkInItsPlace'
    BY <1>4, <1>9
    DEF Retry, Discard, NothingDoomed, NoInstance, SwitchInv, ProfilesStay,
        WorkInItsPlace
  <2> QED
    BY <1>3, <2>1, WorkKept DEF children
<1>10. CASE ~(Retry /\ UNCHANGED cluster)
  <2>1. /\ phase = UpdatingMap => GetNextMapGeneration(active) \in Gen
        /\ todo' = builders /\ pc' = "build" /\ UNCHANGED doomed
        /\ cluster'.spec = cluster.spec /\ instance'.spec = instance.spec
    BY <1>3, <1>10 DEF TypeOK, ObjectTypeOK, ReconcileTypeOK
  <2>2. ProfilesStay' /\ WorkInItsPlace'
    BY <1>4, <2>1 DEF SwitchInv, ProfilesStay, WorkInItsPlace
  <2>3. MoveAll(builders, phase, profiles, g)
    <3>1. g = GenerationFor(phase, active, future)
      OBVIOUS
    <3>2. builders = ResourceBuildersForPhase(phase, profiles, active, future)
      BY DEF builders
    <3>3. phase = UpdatingMap => GetNextMapGeneration(active) \in Gen
      BY <2>1
    <3> HIDE DEF g
    <3> QED
      BY <1>5, <1>6, <3>1, <3>2, <3>3, TargetsOfPhase
  <2>4. JobsFilled' /\ \A c \in Claim : Sound(c) => Sound(c)'
    BY <1>3, <2>1 DEF children, SwitchInv, JobsFilled, Sound
  <2>5. CASE phase \notin WorkerPhases
    <3>1. Targets' = {}
      BY <2>1, <2>3, <2>5 DEF Targets, MoveAll
    <3> QED
      BY <1>3, <1>4, <2>1, <2>2, <2>4, <3>1, MapsKept DEF children
  <2>6. CASE phase \in WorkerPhases
    <3> HIDE DEF g
    <3>0. PICK h : h = g
      OBVIOUS
    <3>1. Targets' = {<<p, h>> : p \in Served} /\ Waiting' = Served
      <4>1. Targets' = {<<p, h>> : p \in Served}
        <5>1. ProfileSet(profiles) = Served
          BY <1>5 DEF Served
        <5>2. \A c \in Targets' : \E p \in Served : c = <<p, h>>
          <6> SUFFICES ASSUME NEW i \in DOMAIN builders,
                              builders[i].kind = "Deployment"
                       PROVE  \E p \in Served : builders[i].claim = <<p, h>>
            BY <2>1 DEF Targets
          <6> QED
            BY <2>3, <3>0, <5>1 DEF MoveAll
        <5>3. \A p \in Served : <<p, h>> \in Targets'
          BY <2>1, <2>3, <2>6, <3>0, <5>1 DEF Targets, MoveAll
        <5> QED
          BY <5>2, <5>3
      <4>2. \A p \in Served : <<p, h>>[1] = p
        OBVIOUS
      <4>3. {c[1] : c \in Targets'} = Served
        BY <4>1, <4>2
      <4> QED
        BY <4>1, <4>3 DEF Waiting
    <3>2. h \in {active, future}
      BY <2>6, <3>0
      DEF g, GenerationFor, WorkerPhases, UpdatingMap, RedeployingWorkers,
          DeployingWorkers, WorkersDeployed, WorkersRedeployed
    <3>3. ASSUME NEW p \in Served PROVE Sound(<<p, h>>)' /\ dep'[p] <= h
      <4>1. <<p, h>> \in Claim /\ pvc[<<p, h>>] = "Bound" /\ job[<<p, h>>] = "Complete"
        BY <1>5, <1>7, <2>6, <3>0 DEF Served, Bound, Completed
      <4>2. volume[<<p, h>>] # NoUrl
        BY <1>4, <4>1 DEF SwitchInv, JobsFilled
      <4>3. Sound(<<p, h>>)'
        BY <1>3, <4>1, <4>2 DEF children, Sound
      <4>4. dep'[p] <= h
        BY <1>3, <1>8, <3>2 DEF children
      <4> QED
        BY <4>3, <4>4
    <3>4. TargetsSound'
      <4>1. \A c \in Targets' : c[1] \in Served /\ c[2] = h /\ c = <<c[1], h>>
        BY <3>1
      <4>2. \A c \in Targets' : Sound(c)' /\ dep'[c[1]] <= c[2]
        BY <3>3, <4>1
      <4> QED
        BY <3>1, <4>1, <4>2 DEF TargetsSound
    <3>5. OneGeneration' /\ MountedSound' /\ DoomedUnused'
      BY <1>3, <2>1, <3>1
      DEF children, SwitchInv, OneGeneration, MountedSound, Sound, DoomedUnused
    <3> QED
      BY <2>2, <2>4, <3>4, <3>5 DEF SwitchInv
  <2> QED
    BY <2>5, <2>6
<1> QED
  BY <1>9, <1>10

(* Garbage collection: what a Deployment mounts is of the active           *)
(* generation, and that is kept in every phase.                            *)
LEMMA CollectKeepsSwitch ==
  ASSUME TypeOK, Undisturbed, SwitchInv, JobsHaveSource', GarbageCollection
  PROVE  SwitchInv'
<1> USE DEF children
<1>1. PvcView = pvc /\ JobView = job /\ DepView = dep /\ ReadyView = ready
  BY NothingLags
<1>2. pc \in {"gcDeployments", "gcClaims"} /\ UNCHANGED <<cluster, instance, todo>>
  BY DEF GarbageCollection, DeleteDeployment, ListClaims,
         DeletePersistentVolumeClaim, DeleteJob
<1>3. todo = << >> /\ Targets = {} /\ Waiting = {} /\ UNCHANGED <<Targets, Waiting>>
  BY <1>2, NoTargets DEF SwitchInv, WorkInItsPlace, Targets, Waiting
<1>4. ProfilesStay' /\ TargetsSound'
  BY <1>2, <1>3 DEF SwitchInv, ProfilesStay, TargetsSound
<1>5. doomed \in [dep : SUBSET Profiles, pvc : SUBSET Claim, job : SUBSET Claim]
  BY DEF TypeOK, ReconcileTypeOK
<1>6. ASSUME NEW p \in Profiles PROVE ~DeleteDeployment(p)
  BY DEF DeleteDeployment, SwitchInv, WorkInItsPlace
<1>7. \A p \in Profiles : dep[p] # 0 => <<p, dep[p]>> \in Claim
  BY DEF TypeOK, ChildrenTypeOK, Claim, Gen
<1>8. CASE ListClaims
  <2> DEFINE active   == GetActiveMapGeneration(instance.spec.profiles, dep)
             future   == GetFutureMapGeneration(Existing(pvc))
             expected == ExpectedClaims(instance.spec.profiles, instance.phase,
                                        active, future)
  <2>1. /\ UNCHANGED children /\ pc' = "gcClaims"
        /\ doomed'.dep = doomed.dep
        /\ doomed'.pvc = Existing(pvc) \ expected
        /\ doomed'.job = Existing(job) \ expected
    BY <1>1, <1>5, <1>8 DEF ListClaims, UnexpectedJobs
  <2>2. instance.spec.profiles = FirstSpec.profiles
    BY DEF SwitchInv, ProfilesStay
  <2>3. ASSUME NEW p \in Profiles, dep[p] # 0 PROVE <<p, dep[p]>> \in expected
    <3>1. p \in Served
      BY <2>3 DEF SwitchInv, OneGeneration
    <3>2. active = dep[p]
      BY <1>3, <2>2, <2>3, <3>1, PlanGoesForward
    <3>3. dep[p] \in KeptGenerations(instance.phase, active, future)
      BY <3>2 DEF KeptGenerations
    <3> QED
      BY <2>2, <3>1, <3>3 DEF ExpectedClaims, Served
  <2> HIDE DEF expected
  <2>4. DoomedUnused'
    <3>1. \A p \in Profiles :
            dep'[p] # 0 => <<p, dep'[p]>> \notin doomed'.pvc \cup doomed'.job
      BY <2>1, <2>3
    <3>2. \A c \in doomed'.pvc : job'[c] # "Absent" => c \in doomed'.job
      BY <2>1 DEF Existing
    <3> QED
      BY <3>1, <3>2 DEF DoomedUnused
  <2>5. JobsFilled'
    <3>1. doomed.job = {}
      BY <1>8 DEF ListClaims, SwitchInv, WorkInItsPlace
    <3> QED
      BY <2>1, <3>1 DEF SwitchInv, JobsFilled
  <2>6. MountedSound' /\ OneGeneration' /\ WorkInItsPlace'
    BY <1>2, <1>3, <2>1
    DEF SwitchInv, MountedSound, Sound, OneGeneration, WorkInItsPlace
  <2> QED
    BY <1>4, <2>4, <2>5, <2>6 DEF SwitchInv
<1>9. ASSUME NEW c \in Claim, DeletePersistentVolumeClaim(c) PROVE SwitchInv'
  <2>1. /\ pc' = pc /\ pc = "gcClaims" /\ UNCHANGED <<job, dep>>
        /\ c \in doomed.pvc
        /\ doomed'.pvc = doomed.pvc \ {c} /\ UNCHANGED <<doomed.job, doomed.dep>>
        /\ \A d \in Claim : d # c => UNCHANGED <<pvc[d], volume[d]>>
    BY <1>5, <1>9 DEF DeletePersistentVolumeClaim, TypeOK, ChildrenTypeOK
  <2>2. \A p \in Profiles : dep[p] # 0 => <<p, dep[p]>> # c
    BY <2>1 DEF SwitchInv, DoomedUnused
  <2>3. MountedSound'
    BY <1>7, <2>1, <2>2 DEF SwitchInv, MountedSound, Sound
  <2>4. JobsFilled'
    BY <2>1 DEF SwitchInv, JobsFilled, DoomedUnused
  <2>5. DoomedUnused'
    BY <2>1 DEF SwitchInv, DoomedUnused
  <2>6. OneGeneration' /\ WorkInItsPlace'
    BY <1>2, <1>3, <2>1 DEF SwitchInv, OneGeneration, WorkInItsPlace
  <2> QED
    BY <1>4, <2>3, <2>4, <2>5, <2>6 DEF SwitchInv
<1>10. ASSUME NEW c \in Claim, DeleteJob(c) PROVE SwitchInv'
  <2>1. /\ pc' = pc /\ pc = "gcClaims" /\ UNCHANGED <<pvc, volume, dep>>
        /\ doomed.pvc = {} /\ c \in doomed.job /\ job'[c] = "Absent"
        /\ doomed'.job = doomed.job \ {c} /\ UNCHANGED <<doomed.pvc, doomed.dep>>
        /\ \A d \in Claim : d # c => UNCHANGED job[d]
    BY <1>5, <1>10 DEF DeleteJob, TypeOK, ChildrenTypeOK
  <2>2. \A p \in Profiles : dep[p] # 0 => <<p, dep[p]>> # c
    BY <2>1 DEF SwitchInv, DoomedUnused
  <2>3. MountedSound'
    BY <1>7, <2>1, <2>2 DEF SwitchInv, MountedSound, Sound
  <2>4. JobsFilled'
    BY <2>1 DEF SwitchInv, JobsFilled
  <2>5. DoomedUnused'
    BY <2>1 DEF SwitchInv, DoomedUnused
  <2>6. OneGeneration' /\ WorkInItsPlace'
    BY <1>2, <1>3, <2>1 DEF SwitchInv, OneGeneration, WorkInItsPlace
  <2> QED
    BY <1>4, <2>3, <2>4, <2>5, <2>6 DEF SwitchInv
<1> QED
  BY <1>6, <1>8, <1>9, <1>10 DEF GarbageCollection

LEMMA InitSwitch == Init => SwitchInv
<1> SUFFICES ASSUME Init PROVE SwitchInv
  OBVIOUS
<1>1. Targets = {} /\ Waiting = {}
  BY NoTargets DEF Init
<1>2. \A p \in Served : p \in Profiles
  BY SpecsAssumption DEF Served, ProfileSet
<1>3. ProfilesStay /\ WorkInItsPlace /\ DoomedUnused
  BY DEF Init, NoInstance, NothingDoomed, ProfilesStay, WorkInItsPlace, DoomedUnused
<1>4. MountedSound /\ JobsFilled /\ JobsHaveSource
  BY DEF Init, MountedSound, JobsFilled, JobsHaveSource
<1>5. TargetsSound /\ OneGeneration
  BY <1>1, <1>2 DEF Init, TargetsSound, OneGeneration
<1> QED
  BY <1>3, <1>4, <1>5 DEF SwitchInv

LEMMA NextKeepsSwitch ==
  ASSUME Undisturbed
  PROVE  TypeOK /\ SwitchInv /\ [Next]_vars => SwitchInv'
<1> SUFFICES ASSUME TypeOK, SwitchInv, [Next]_vars PROVE SwitchInv'
  OBVIOUS
<1>1. JobsHaveSource'
  BY NextJobsHaveSource DEF SwitchInv
<1>2. ~Abandon /\ \A kind \in Kinds : ~Sync(kind)
  BY NoFailedCalls DEF Undisturbed, Sync
<1>3. CASE UNCHANGED vars
  BY <1>1, <1>3, WorkKept
  DEF vars, children, local, SwitchInv, ProfilesStay, WorkInItsPlace
<1>4. CASE Next
  BY <1>1, <1>2, <1>4, BoundaryKeepsSwitch, PlanKeepsSwitch, BuildKeepsSwitch,
     CollectKeepsSwitch, UserKeepsSwitch, ProgressKeepsSwitch
  DEF Next, Reconcile, Failure
<1> QED
  BY <1>3, <1>4

(* The inductive invariant: what is mounted, is about to be mounted and is *)
(* about to be deleted, in every state of an undisturbed operator.         *)
THEOREM SwitchInvariant ==
  ASSUME Undisturbed PROVE Spec => [](TypeOK /\ SwitchInv)
<1>1. TypeOK /\ SwitchInv /\ [Next]_vars => SwitchInv'
  BY NextKeepsSwitch
<1> QED
  BY <1>1, InitTypeOK, NextTypeOK, InitSwitch, PTL DEF Spec

(* Every volume a Deployment mounts exists and holds a map.                *)
THEOREM WorkersHaveMapTheorem ==
  ASSUME Undisturbed PROVE Spec => []WorkersHaveMap
<1>1. SwitchInv => WorkersHaveMap
  BY DEF SwitchInv, MountedSound, Sound, WorkersHaveMap
<1> QED
  BY <1>1, SwitchInvariant, PTL

(* No map is built into a volume that workers mount.                       *)
THEOREM MountedVolumesQuietTheorem ==
  ASSUME Undisturbed PROVE Spec => []MountedVolumesQuiet
<1>1. SwitchInv => MountedVolumesQuiet
  BY DEF SwitchInv, MountedSound, Sound, MountedVolumesQuiet
<1> QED
  BY <1>1, SwitchInvariant, PTL

-----------------------------------------------------------------------------
(* The safe blue-green switch.                                             *)

LEMMA NextSwitchesSafely ==
  ASSUME Undisturbed
  PROVE  TypeOK /\ SwitchInv /\ BuiltBeforeDeployed /\ [Next]_vars
           => [Maps!SafeNext]_(Maps!vars)
<1> SUFFICES ASSUME TypeOK, SwitchInv, BuiltBeforeDeployed, [Next]_vars
             PROVE  [Maps!SafeNext]_(Maps!vars)
  OBVIOUS
<1> USE DEF children, local
<1>0. ASSUME NEW c \in Claim
      PROVE  c[1] \in Profiles /\ c[2] \in Gen /\ c = <<c[1], c[2]>>
  BY DEF Claim
<1>1. ASSUME NEW c \in Claim, CompleteJob(c) PROVE Maps!SafeNext
  <2>1. dep[c[1]] # c[2]
    <3>1. job[c] = "Active" /\ c[2] # 0
      BY <1>0, <1>1, BoundsAssumption DEF CompleteJob, Gen
    <3> QED
      BY <1>0, <3>1 DEF SwitchInv, MountedSound, Sound
  <2>2. Maps!Build(c[1], c[2])
    BY <1>1, CompletedJobStoresMap DEF SwitchInv
  <2> QED
    BY <1>0, <2>1, <2>2 DEF Maps!SafeNext
<1>2. ASSUME NEW c \in Claim, DeletePersistentVolumeClaim(c) PROVE Maps!SafeNext
  <2>1. dep[c[1]] # c[2]
    <3>1. c \in doomed.pvc /\ c[2] # 0
      BY <1>0, <1>2, BoundsAssumption DEF DeletePersistentVolumeClaim, Gen
    <3> QED
      BY <1>0, <3>1 DEF SwitchInv, DoomedUnused
  <2>2. Maps!Discard(c[1], c[2])
    BY <1>2, DeletedVolumeDiscardsMap
  <2> QED
    BY <1>0, <2>1, <2>2 DEF Maps!SafeNext
<1>3. ASSUME NEW c \in Claim, BuildDeployment(c) PROVE [Maps!SafeNext]_(Maps!vars)
  <2>1. c \in Targets
    <3>1. todo \in Seq(BuilderType) /\ todo # << >>
      BY <1>3 DEF TypeOK, ReconcileTypeOK, BuilderType, BuildDeployment, Building
    <3>2. 1 \in DOMAIN todo /\ todo[1] = [kind |-> "Deployment", claim |-> c]
      BY <1>3, <3>1 DEF BuildDeployment, Building
    <3> QED
      BY <3>2 DEF Targets
  <2>2. volume[c] # NoUrl /\ dep[c[1]] <= c[2]
    BY <2>1 DEF SwitchInv, TargetsSound, Sound
  <2>3. CASE UNCHANGED Maps!vars
    BY <2>3
  <2>4. CASE Maps!Switch(c[1], c[2])
    <3>1. <<c[1], c[2]>> \in {d \in Claim : volume[d] # NoUrl}
      BY <1>0, <2>2
    <3> QED
      BY <1>0, <2>2, <2>4, <3>1 DEF Maps!SafeNext
  <2> QED
    BY <1>3, <2>3, <2>4, DeploymentSwitchesMap
<1>4. ASSUME NEW p \in Profiles, DeleteDeployment(p) PROVE Maps!SafeNext
  <2>1. Maps!Retire(p)
    BY <1>4 DEF DeleteDeployment, Maps!Retire
  <2> QED
    BY <2>1 DEF Maps!SafeNext
<1>5. CASE \/ Forget \/ Initialize \/ MarkDeleting \/ Finalize \/ Pause \/ Begin
           \/ Plan \/ SetLastAppliedSpecAnnotation \/ ListClaims \/ Finish
           \/ Abandon \/ Wake \/ UNCHANGED vars
           \/ \E kind \in Kinds : Sync(kind)
  BY <1>5, MapsStutter
  DEF Forget, Initialize, MarkDeleting, Finalize, Pause, Begin, Plan, PlanWithout,
      SetLastAppliedSpecAnnotation, ListClaims, Finish, Abandon, Wake, Sync, vars
<1>6. CASE \/ \E c \in Claim : \/ BuildPersistentVolumeClaim(c) \/ BuildJob(c)
                               \/ DeleteJob(c) \/ FailJob(c) \/ BindVolume(c)
           \/ \E p \in Profiles : StartWorkers(p) \/ FailWorkers(p)
  BY <1>6, MapsStutter
  DEF BuildPersistentVolumeClaim, BuildJob, DeleteJob, FailJob, BindVolume,
      StartWorkers, FailWorkers
<1>7. CASE User
  <2>1. EditSpec \/ PatientEdit \/ TogglePause \/ ReplaceAnnotations \/ Delete
    BY <1>7 DEF User, RemoveDeployment, RemovePersistentVolumeClaim, RemoveJob,
                Tamper, Undisturbed
  <2> QED
    BY <2>1, MapsStutter
    DEF EditSpec, PatientEdit, TogglePause, ReplaceAnnotations, Delete, UserWrites
<1> QED
  BY <1>1, <1>2, <1>3, <1>4, <1>5, <1>6, <1>7
  DEF Next, Reconcile, Build, GarbageCollection, Progress, Failure

(* An undisturbed operator is a safe blue-green switch: what is served is  *)
(* neither rebuilt nor collected, and workers only move forward, to a map  *)
(* that is still there.                                                    *)
THEOREM ImplementsSafeSwitch ==
  ASSUME Undisturbed PROVE Spec => SwitchesMapsSafely
<1>1. TypeOK /\ SwitchInv /\ BuiltBeforeDeployed /\ [Next]_vars
        => [Maps!SafeNext]_(Maps!vars)
  BY NextSwitchesSafely
<1>2. Init => Maps!Init
  BY InitSwitchesMaps
<1> QED
  BY <1>1, <1>2, SwitchInvariant, BuiltInvariant, PTL
  DEF Spec, SwitchesMapsSafely, Maps!SafeSpec

-----------------------------------------------------------------------------
(* Blue and green only: no volume is asked for beyond the generation that  *)
(* follows the one the workers use.                                        *)

VolumesPlanned ==
  {todo[i].claim :
     i \in {j \in DOMAIN todo : todo[j].kind = "PersistentVolumeClaim"}}

Base(p) == IF dep[p] = 0 THEN 1 ELSE dep[p]

WithinReach(c) == c[1] \in Served /\ \A p \in Served : c[2] <= Base(p) + 1

NoFurther == \A c \in Existing(pvc) \cup VolumesPlanned : WithinReach(c)

LEMMA ReachKept ==
  ASSUME TypeOK, NoFurther,
         Existing(pvc)' \subseteq Existing(pvc) \cup VolumesPlanned,
         VolumesPlanned' \subseteq VolumesPlanned,
         VolumesPlanned \subseteq Claim,
         \A p \in Served : UNCHANGED dep[p] \/ (dep'[p] \in Gen /\ dep[p] <= dep'[p])
  PROVE  NoFurther'
<1>1. SUFFICES ASSUME NEW c \in Existing(pvc) \cup VolumesPlanned, NEW p \in Served
               PROVE  c[2] <= Base(p)' + 1
  BY DEF NoFurther, WithinReach
<1>2. c[2] <= Base(p) + 1 /\ c[2] \in Nat
  BY <1>1, BoundsAssumption DEF NoFurther, WithinReach, Existing, Claim, Gen
<1>3. p \in Profiles /\ dep[p] \in Nat
  BY SpecsAssumption, BoundsAssumption
  DEF Served, ProfileSet, TypeOK, ChildrenTypeOK
<1>4. dep'[p] = dep[p] \/ (dep'[p] \in Nat \ {0} /\ dep[p] <= dep'[p])
  BY <1>1, BoundsAssumption DEF Gen
<1>5. Base(p) \in Nat /\ Base(p)' \in Nat /\ Base(p) <= Base(p)'
  BY <1>3, <1>4 DEF Base
<1> QED
  BY <1>2, <1>5

LEMMA PlannedAreClaims == TypeOK => VolumesPlanned \subseteq Claim
<1> SUFFICES ASSUME TypeOK, NEW i \in DOMAIN todo PROVE todo[i].claim \in Claim
  BY DEF VolumesPlanned
<1>1. todo \in Seq(BuilderType)
  BY DEF TypeOK, ReconcileTypeOK, BuilderType
<1>2. todo[i] \in BuilderType
  BY <1>1
<1> QED
  BY <1>2 DEF BuilderType

LEMMA FewerPlanned ==
  ASSUME TypeOK, TodoShrinks PROVE VolumesPlanned' \subseteq VolumesPlanned
<1>1. todo \in Seq(BuilderType)
  BY DEF TypeOK, ReconcileTypeOK, BuilderType
<1>2. CASE todo' \in {todo, << >>}
  BY <1>2 DEF VolumesPlanned
<1>3. CASE todo # << >> /\ todo' = Tail(todo)
  <2>1. \A i \in DOMAIN todo' : i + 1 \in DOMAIN todo /\ todo'[i] = todo[i + 1]
    BY <1>1, <1>3
  <2> QED
    BY <2>1 DEF VolumesPlanned
<1> QED
  BY <1>2, <1>3 DEF TodoShrinks

(* A builder is run for a claim that was planned.                          *)
LEMMA BuiltWasPlanned ==
  ASSUME TypeOK, NEW kind, NEW c, Building(kind, c)
  PROVE  /\ kind = "Deployment" => c \in Targets
         /\ kind = "PersistentVolumeClaim" => c \in VolumesPlanned
<1>1. todo \in Seq(BuilderType) /\ todo # << >>
  BY DEF TypeOK, ReconcileTypeOK, BuilderType, Building
<1>2. 1 \in DOMAIN todo /\ todo[1] = [kind |-> kind, claim |-> c]
  BY <1>1 DEF Building
<1> QED
  BY <1>2 DEF Targets, VolumesPlanned

(* The volumes of a phase are of the active generation or the next one.    *)
Within(builders, profiles, active) ==
  \A i \in DOMAIN builders :
    builders[i].kind = "PersistentVolumeClaim" =>
      \E p \in ProfileSet(profiles) : \E g \in {active, active + 1} :
        builders[i].claim = <<p, g>>

LEMMA VolumesOfPhase ==
  ASSUME NEW profiles \in Seq(Profiles), NEW phase, NEW active, NEW future
  PROVE  Within(ResourceBuildersForPhase(phase, profiles, active, future),
                profiles, active)
<1> DEFINE g == GenerationFor(phase, active, future)
           n == Len(profiles)
           builders == ResourceBuildersForPhase(phase, profiles, active, future)
<1> USE DEF UpdatingMap, BuildingMap, RedeployingWorkers, DeployingWorkers,
            WorkersDeployed, WorkersRedeployed
<1>1. CASE phase \in {BuildingMap, UpdatingMap}
  <2>1. builders = MapBuilders(profiles, g) /\ g \in {active, active + 1}
    BY <1>1 DEF ResourceBuildersForPhase, GenerationFor, GetNextMapGeneration
  <2> HIDE DEF builders, g
  <2>2. ASSUME NEW k \in 1 .. 2 * n
        PROVE  /\ (k + 1) \div 2 \in 1 .. n
               /\ MapBuilders(profiles, g)[k].claim = <<profiles[(k + 1) \div 2], g>>
    BY DEF MapBuilders, Builder
  <2>3. DOMAIN builders = 1 .. 2 * n
    BY <2>1 DEF MapBuilders
  <2>4. ASSUME NEW i \in DOMAIN builders
        PROVE  \E p \in ProfileSet(profiles) : builders[i].claim = <<p, g>>
    BY <2>1, <2>2, <2>3 DEF ProfileSet
  <2> QED
    BY <2>1, <2>4 DEF Within, builders
<1>2. CASE phase \notin {BuildingMap, UpdatingMap}
  <2>1. builders = WorkerBuilders(profiles, g) \/ builders = << >>
    BY <1>2 DEF ResourceBuildersForPhase
  <2> HIDE DEF builders, g
  <2>2. \A i \in DOMAIN builders : builders[i].kind = "Deployment"
    BY <2>1 DEF WorkerBuilders, Builder
  <2> QED
    BY <2>2 DEF Within, builders
<1> QED
  BY <1>1, <1>2

LEMMA NextNoFurther ==
  ASSUME Undisturbed
  PROVE  TypeOK /\ SwitchInv /\ NoFurther /\ [Next]_vars => NoFurther'
<1> SUFFICES ASSUME TypeOK, SwitchInv, NoFurther, [Next]_vars PROVE NoFurther'
  OBVIOUS
<1> USE DEF children, local
<1>1. VolumesPlanned \subseteq Claim
  BY PlannedAreClaims
<1>2. PvcView = pvc /\ JobView = job /\ DepView = dep /\ ReadyView = ready
  BY NothingLags
<1>3. ASSUME UNCHANGED <<pvc, dep>>, TodoShrinks PROVE NoFurther'
  BY <1>1, <1>3, FewerPlanned, ReachKept DEF Existing
<1>4. CASE Plan
  <2> DEFINE profiles == FirstSpec.profiles
             active   == GetActiveMapGeneration(profiles, dep)
             future   == GetFutureMapGeneration(Existing(pvc))
             phase    == DeterminePhase(instance.spec, instance.lastApplied, active,
                                        future, Bound(pvc), Completed(job), ready)
             builders == ResourceBuildersForPhase(phase, profiles, active, future)
  <2>1. PlanWithout({}) /\ instance.spec.profiles = profiles
    BY <1>4, NoFailedCalls DEF Plan, SwitchInv, ProfilesStay
  <2>2. pc = "plan" /\ UNCHANGED <<pvc, dep>> /\ todo' \in {<< >>, builders}
    BY <1>2, <2>1 DEF PlanWithout, Retry, Discard
  <2>3. todo = << >>
    BY <2>2 DEF SwitchInv, WorkInItsPlace
  <2>4. Within(builders, profiles, active)
    BY SpecsAssumption, VolumesOfPhase
  <2>5. \A p \in Served : active = Base(p)
    BY <2>3, PlanGoesForward DEF Base
  <2>6. \A p \in Served : Base(p)' = Base(p)
    BY <2>2 DEF Base
  <2> HIDE DEF builders, active, profiles
  <2>7. ASSUME NEW c \in VolumesPlanned' PROVE WithinReach(c)'
    <3>1. PICK i \in DOMAIN builders :
            builders[i].kind = "PersistentVolumeClaim" /\ c = builders[i].claim
      BY <2>2 DEF VolumesPlanned
    <3>2. PICK p \in ProfileSet(profiles), g \in {active, active + 1} : c = <<p, g>>
      BY <2>4, <3>1 DEF Within
    <3>3. p \in Served
      BY <3>2 DEF Served, profiles
    <3>4. \A q \in Served : Base(q) \in Nat
      BY SpecsAssumption, BoundsAssumption
      DEF Base, Served, ProfileSet, TypeOK, ChildrenTypeOK
    <3>5. \A q \in Served : g <= Base(q)' + 1
      BY <2>5, <2>6, <3>2, <3>4
    <3> QED
      BY <3>2, <3>3, <3>5 DEF WithinReach
  <2>8. ASSUME NEW c \in Existing(pvc)' PROVE WithinReach(c)'
    <3>1. c \in Existing(pvc)
      BY <2>2, <2>8 DEF Existing
    <3> QED
      BY <2>6, <3>1 DEF NoFurther, WithinReach
  <2> QED
    BY <2>7, <2>8 DEF NoFurther
<1>5. ASSUME NEW c \in Claim, BuildPersistentVolumeClaim(c) PROVE NoFurther'
  <2>1. c \in VolumesPlanned
    BY <1>5, BuiltWasPlanned DEF BuildPersistentVolumeClaim
  <2>2. Existing(pvc)' \subseteq Existing(pvc) \cup {c}
    BY <1>5 DEF BuildPersistentVolumeClaim, Existing, TypeOK, ChildrenTypeOK
  <2>3. TodoShrinks /\ UNCHANGED dep
    BY <1>5
    DEF BuildPersistentVolumeClaim, Building, BuilderDone, Retry, Discard, TodoShrinks
  <2> QED
    BY <1>1, <2>1, <2>2, <2>3, FewerPlanned, ReachKept
<1>6. ASSUME NEW c \in Claim, BuildDeployment(c) PROVE NoFurther'
  <2>1. c \in Targets
    BY <1>6, BuiltWasPlanned DEF BuildDeployment
  <2>2. TodoShrinks /\ UNCHANGED pvc
    BY <1>6
    DEF BuildDeployment, Building, BuilderDone, Retry, Discard, TodoShrinks
  <2>3. dep[c[1]] <= c[2] /\ c[2] \in Gen
    BY <2>1 DEF SwitchInv, TargetsSound, Claim
  <2>4. \A p \in Profiles : UNCHANGED dep[p] \/ (p = c[1] /\ dep'[p] = c[2])
    BY <1>6 DEF BuildDeployment, TypeOK, ChildrenTypeOK
  <2>5. \A p \in Served : p \in Profiles
    BY SpecsAssumption DEF Served, ProfileSet
  <2> QED
    BY <1>1, <2>2, <2>3, <2>4, <2>5, FewerPlanned, ReachKept DEF Existing
<1>7. ASSUME NEW c \in Claim, DeletePersistentVolumeClaim(c) \/ BindVolume(c)
      PROVE  NoFurther'
  <2>1. Existing(pvc)' \subseteq Existing(pvc)
    BY <1>7
    DEF DeletePersistentVolumeClaim, BindVolume, Existing, TypeOK, ChildrenTypeOK
  <2>2. TodoShrinks /\ UNCHANGED dep
    BY <1>7 DEF DeletePersistentVolumeClaim, BindVolume, TodoShrinks
  <2> QED
    BY <1>1, <2>1, <2>2, FewerPlanned, ReachKept
<1>8. ASSUME NEW c \in Claim, BuildJob(c) PROVE NoFurther'
  BY <1>3, <1>8 DEF BuildJob, Building, BuilderDone, Retry, Discard, TodoShrinks
<1>9. CASE \/ Forget \/ Initialize \/ MarkDeleting \/ Finalize \/ Pause \/ Begin
           \/ SetLastAppliedSpecAnnotation \/ ListClaims \/ Finish
           \/ Abandon \/ Wake \/ UNCHANGED vars
           \/ \E kind \in Kinds : Sync(kind)
  BY <1>3, <1>9
  DEF Forget, Initialize, MarkDeleting, Finalize, Pause, Begin, Retry, Discard,
      SetLastAppliedSpecAnnotation, ListClaims, Finish, Abandon, Wake, Sync, vars,
      TodoShrinks
<1>10. CASE \/ \E c \in Claim : DeleteJob(c) \/ FailJob(c) \/ CompleteJob(c)
            \/ \E p \in Profiles : StartWorkers(p) \/ FailWorkers(p)
  BY <1>3, <1>10
  DEF DeleteJob, FailJob, CompleteJob, StartWorkers, FailWorkers, TodoShrinks
<1>11. ASSUME NEW p \in Profiles PROVE ~DeleteDeployment(p)
  BY DEF DeleteDeployment, SwitchInv, WorkInItsPlace
<1>12. CASE User
  <2>1. EditSpec \/ PatientEdit \/ TogglePause \/ ReplaceAnnotations \/ Delete
    BY <1>12 DEF User, RemoveDeployment, RemovePersistentVolumeClaim, RemoveJob,
                 Tamper, Undisturbed
  <2> QED
    BY <1>3, <2>1
    DEF EditSpec, PatientEdit, TogglePause, ReplaceAnnotations, Delete, UserWrites,
        TodoShrinks
<1> QED
  BY <1>4, <1>5, <1>6, <1>7, <1>8, <1>9, <1>10, <1>11, <1>12
  DEF Next, Reconcile, Build, GarbageCollection, Progress, Failure

LEMMA BlueAndGreen ==
  TypeOK /\ SwitchInv /\ NoFurther /\ NothingMissed => BlueAndGreenOnly
<1> SUFFICES ASSUME TypeOK, SwitchInv, NoFurther, NothingMissed, Quiescent,
                    NEW c \in Existing(pvc)
             PROVE  c \in ProfileSet(cluster.spec.profiles) \X {Active, Active + 1}
  BY DEF BlueAndGreenOnly
<1>1. PvcView = pvc /\ JobView = job /\ DepView = dep /\ ReadyView = ready
  BY CurrentViews DEF Quiescent
<1>2. cluster.spec.profiles = FirstSpec.profiles /\ todo = << >>
  BY DEF SwitchInv, ProfilesStay, WorkInItsPlace, Quiescent
<1>3. c \in ProfileSet(cluster.spec.profiles) \X {Active, Future}
  <2>1. c \in ExpectedNow
    BY <1>1 DEF NothingMissed, Quiescent, VolumesCollected, Existing
  <2>2. ActiveSeen = Active /\ FutureSeen = Future
    BY <1>1 DEF ActiveSeen, FutureSeen, Active, Future
  <2> QED
    BY <2>1, <2>2 DEF ExpectedNow, ExpectedClaims, KeptGenerations
<1>4. c[1] \in Served /\ c[2] \in {Active, Future} /\ c = <<c[1], c[2]>>
  BY <1>2, <1>3 DEF Served
<1>5. /\ Active = Base(c[1]) /\ Active \in Nat
      /\ Future \in Gen /\ dep[c[1]] <= Future
  <2>1. Active = Base(c[1]) /\ Future \in Gen /\ dep[c[1]] <= Future
    BY <1>2, <1>4, PlanGoesForward DEF Active, Future, Base
  <2>2. c[1] \in Profiles
    BY <1>4, SpecsAssumption DEF Served, ProfileSet
  <2> QED
    BY <2>1, <2>2, BoundsAssumption DEF Base, TypeOK, ChildrenTypeOK
<1>6. Active <= Future
  <2>1. Future \in Nat /\ 1 <= Future
    BY <1>5, BoundsAssumption DEF Gen
  <2> QED
    BY <1>5, <2>1 DEF Base
<1>7. c[2] <= Active + 1
  BY <1>4, <1>5 DEF NoFurther, WithinReach
<1>8. c[2] \in {Active, Active + 1}
  <2>1. Future \in Nat
    BY <1>5, BoundsAssumption DEF Gen
  <2> QED
    BY <1>4, <1>5, <1>6, <1>7, <2>1
<1> QED
  BY <1>3, <1>4, <1>8

(* While an undisturbed operator waits there are only the map that is      *)
(* served and the one that is to replace it, and only for its profiles.    *)
THEOREM BlueAndGreenTheorem ==
  ASSUME Undisturbed PROVE Spec => []BlueAndGreenOnly
<1>1. ListsSucceed
  BY DEF Undisturbed, ListsSucceed
<1>2. Init => NoFurther
  BY DEF Init, NoFurther, Existing, VolumesPlanned
<1>3. TypeOK /\ SwitchInv /\ NoFurther /\ [Next]_vars => NoFurther'
  BY NextNoFurther
<1>4. Spec => []NoFurther
  BY <1>2, <1>3, SwitchInvariant, PTL DEF Spec
<1>5. Spec => []NothingMissed
  BY <1>1, NothingMissedInvariant
<1> QED
  BY <1>4, <1>5, SwitchInvariant, BlueAndGreen, PTL

-----------------------------------------------------------------------------
(* What the proofs about OSRMInstance take from here.  Its controller has  *)
(* one step more, a builder that panics: the reconciliation is given up    *)
(* before it collects garbage, and no failure is counted.                  *)

PassLost ==
  /\ Retry /\ doomed = NothingDoomed
  /\ UNCHANGED <<cluster, children, seen, bounds>>

StepOrLoss == [Next]_vars \/ PassLost

MapsInOrder == TypeOK /\ BuiltBeforeDeployed /\ JobsHaveSource /\ ReadyExists

LEMMA InitSound == Init => MapsInOrder
BY InitTypeOK, InitBuilt, InitSwitchesMaps
DEF MapsInOrder, ReadyExists, Init

LEMMA LossKeepsSound == MapsInOrder /\ PassLost => MapsInOrder'
<1> SUFFICES ASSUME MapsInOrder, PassLost PROVE MapsInOrder'
  OBVIOUS
<1> USE DEF MapsInOrder, PassLost, children, bounds
<1>1. TypeOK'
  <2>1. ReconcileTypeOK' /\ queued' \in BOOLEAN
    BY RetryType
  <2>2. ObjectTypeOK' /\ ChildrenTypeOK'
    BY <2>1 DEF TypeOK, ObjectTypeOK, ChildrenTypeOK
  <2> QED
    BY <2>1, <2>2 DEF TypeOK, ObjectTypeOK
<1>2. BuiltBeforeDeployed'
  BY QuietStep DEF Retry, Discard, TodoShrinks
<1>3. JobsHaveSource' /\ ReadyExists'
  BY DEF JobsHaveSource, ReadyExists
<1> QED
  BY <1>1, <1>2, <1>3

LEMMA StepKeepsSound == MapsInOrder /\ StepOrLoss => MapsInOrder'
BY NextTypeOK, NextBuilt, NextJobsHaveSource, NextReadyExists, LossKeepsSound
DEF MapsInOrder, StepOrLoss

LEMMA StepSwitchesMaps == MapsInOrder /\ StepOrLoss => [Maps!Next]_(Maps!vars)
<1>1. PassLost => UNCHANGED Maps!vars
  BY MapsStutter DEF PassLost, children
<1> QED
  BY <1>1, NextSwitchesMaps DEF MapsInOrder, StepOrLoss

LEMMA StepMissesNothing ==
  ASSUME ListsSucceed
  PROVE  MapsInOrder /\ NothingMissed /\ StepOrLoss => NothingMissed'
<1>1. PassLost => NothingMissed'
  BY DEF PassLost, Retry, NothingMissed
<1> QED
  BY <1>1, NextNothingMissed DEF MapsInOrder, StepOrLoss

(* With several profiles a pass that stops half way would leave Deployments*)
(* of two generations behind.                                              *)
LEMMA StepKeepsSwitch ==
  ASSUME Undisturbed, \A p, q \in Served : p = q
  PROVE  MapsInOrder /\ SwitchInv /\ StepOrLoss
           => SwitchInv' /\ [Maps!SafeNext]_(Maps!vars)
<1>1. ASSUME MapsInOrder, SwitchInv, PassLost PROVE SwitchInv'
  <2> USE DEF PassLost, children
  <2>1. /\ UNCHANGED <<pvc, volume, job, dep, doomed>> /\ todo' = << >>
        /\ JobsHaveSource'
    BY <1>1, LossKeepsSound DEF MapsInOrder, Retry, Discard
  <2>2. ProfilesStay' /\ WorkInItsPlace'
    BY <1>1, <2>1
    DEF SwitchInv, ProfilesStay, WorkInItsPlace, Retry, Discard, NoInstance,
        NothingDoomed
  <2>3. MountedSound' /\ JobsFilled' /\ DoomedUnused'
    BY <1>1, <2>1 DEF SwitchInv, MountedSound, JobsFilled, DoomedUnused, Sound
  <2>4. Targets' = {} /\ Waiting' = {}
    BY <2>1 DEF Targets, Waiting
  <2>5. TargetsSound' /\ OneGeneration'
    BY <1>1, <2>1, <2>4 DEF SwitchInv, TargetsSound, OneGeneration
  <2> QED
    BY <2>1, <2>2, <2>3, <2>5 DEF SwitchInv
<1>2. PassLost => UNCHANGED Maps!vars
  BY MapsStutter DEF PassLost, children
<1> QED
  BY <1>1, <1>2, NextKeepsSwitch, NextSwitchesSafely DEF MapsInOrder, StepOrLoss
=============================================================================
