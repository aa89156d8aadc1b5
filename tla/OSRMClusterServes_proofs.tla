---------------------- MODULE OSRMClusterServes_proofs ----------------------
(***************************************************************************)
(* A patient user is served the extract asked for (ServesSpec).            *)
(*                                                                         *)
(* The invariant tells three situations apart while the object lives.      *)
(*  - NoWorkers: no workers of the profiles asked for exist, and only the  *)
(*    extract asked for has been built from.                               *)
(*  - NewExtract(g): all workers have generation g and another extract is  *)
(*    being built as generation g + 1.                                     *)
(*  - Recorded(g): the extract asked for is recorded and is that of        *)
(*    generation g, to which the workers move, and stay there.             *)
(* The first Deployment leads from the first to the third, the user's next *)
(* extract from the third to the second, the annotation from the second to *)
(* the third, and the exchange of all profiles from the third to the       *)
(* first.  All that Kubernetes, the caches and a pass that is lost do      *)
(* stays where it is: that is Drift.                                       *)
(***************************************************************************)
EXTENDS OSRMClusterSwitch_proofs

(* A user who changes one thing at a time and waits for the operator to be *)
(* done, while lists succeed and the volumes are read as they are. Calls   *)
(* may fail at any moment, Jobs and pods too, the caches of Jobs and       *)
(* Deployments may be behind, and the object may be deleted.               *)
Patient ==
  /\ UserOps \subseteq {"patientEdit", "delete"}
  /\ "list" \notin Failures
  /\ "PersistentVolumeClaim" \notin Lagging

(* The object is there to stay.                                            *)
Live == cluster.exists /\ ~cluster.deleting

(* The profiles asked for.                                                 *)
Asked == ProfileSet(cluster.spec.profiles)

(* Garbage collection is under way.                                        *)
Collecting == pc \in {"gcDeployments", "gcClaims"}

(* Nobody writes the object during a pass: its copy is the object, its     *)
(* work and what it has doomed are its own.                                *)
Orderly ==
  /\ pc # "finalize" /\ ~stale /\ ~cluster.paused
  /\ ~cluster.finalizer => queued
  /\ pc # "idle" => instance.spec = cluster.spec /\ instance.phase = cluster.phase
  /\ pc \in {"plan", "build"} => instance.lastApplied = cluster.lastApplied
  /\ pc # "build" => todo = << >>
  /\ ~Collecting => doomed = NothingDoomed
  /\ pc # "gcClaims" => doomed.pvc = {} /\ doomed.job = {}
  /\ \A i \in DOMAIN todo :
       todo[i].kind = "Deployment" <=> instance.phase \in WorkerPhases

(* Neither the volume nor the Job of the claim knows another extract than  *)
(* the one asked for.                                                      *)
Clean(c) ==
  {volume[c], source[c]} \subseteq {cluster.spec.url, NoUrl}

(* A Job of the claim that is done, or seen to be, has filled the volume.  *)
Filled(c) ==
  job[c] = "Complete" \/ JobView[c] = "Complete"
    => job[c] = "Complete" /\ volume[c] # NoUrl

(* The claim has a map, and the controller sees that.                      *)
HasMap(c) == pvc[c] = "Bound" /\ job[c] = "Complete" /\ JobView[c] = "Complete"

(* A builder of this kind is still to run for the claim.                   *)
ToBuild(kind, c) ==
  \E i \in DOMAIN todo : todo[i].kind = kind /\ todo[i].claim = c

(* All builders to run are for these claims.                               *)
WorkIsOf(claims) == \A i \in DOMAIN todo : todo[i].claim \in claims

(* Garbage collection leaves the claim alone.                              *)
Kept(c) == c \notin doomed.pvc \cup doomed.job

(* The first workers are about to be created, with generation g. That is   *)
(* the first generation, or the second when the annotation of the first    *)
(* was lost and its map was there before the next pass.                    *)
FirstWorkers(g) ==
  /\ cluster.lastApplied = cluster.spec.url
  /\ Asked # {}
  /\ WorkIsOf(Asked \X {g})
  /\ \A p \in Asked : ToBuild("Deployment", <<p, g>>) /\ pvc[<<p, g>>] # "Absent"
  /\ \A c \in Claim : pvc[c] # "Absent" => c[2] <= g
  /\ g = 2 => /\ instance.phase = RedeployingWorkers
              /\ \A p \in Asked : HasMap(<<p, 1>>)

(* No workers of the profiles asked for exist or are seen, and no extract  *)
(* but the one asked for is to be found: the object is new, had no         *)
(* profiles until now, or has had all of them exchanged.                   *)
NoWorkers ==
  /\ \A c \in Claim : Clean(c)
  /\ \A p \in Asked : dep[p] = 0 /\ DepView[p] = 0
  /\ \A c \in Claim : pvc[c] # "Absent" /\ c[1] \in Asked => c[2] \in {1, 2}
  /\ WorkIsOf(Asked \X {1, 2})
  /\ \A p \in Asked :
       /\ JobView[<<p, 1>>] = "Complete" => job[<<p, 1>>] = "Complete"
       /\ Kept(<<p, 1>>)
  /\ pc = "build" /\ instance.phase \in WorkerPhases =>
       \E g \in {1, 2} : FirstWorkers(g)

(* All workers have generation g, with a map of the last extract, and the  *)
(* user asks for another one, which is being built as generation g + 1 and *)
(* is not recorded yet.                                                    *)
NewExtract(g) ==
  /\ cluster.lastApplied # cluster.spec.url
  /\ Asked # {}
  /\ \A p \in Asked : dep[p] = g /\ DepView[p] = g /\ HasMap(<<p, g>>)
  /\ \A c \in Claim : c[2] = g + 1 => Clean(c) /\ Filled(c)
  /\ \A c \in Claim : pvc[c] # "Absent" => c[2] <= g + 1
  /\ WorkIsOf(Asked \X {g + 1})
  /\ pc = "build" =>
       /\ instance.phase = UpdatingMap
       /\ g + 1 \in Gen
       /\ \A p \in Asked : \/ pvc[<<p, g + 1>>] # "Absent"
                           \/ ToBuild("PersistentVolumeClaim", <<p, g + 1>>)
  /\ ~Collecting

(* Some workers have yet to move to generation g.                          *)
Moving(g) == \E p \in Asked : dep[p] \notin {0, g}

(* The extract asked for is recorded. Generation g is the newest and of    *)
(* that extract; it is active, or about to be, and then the active one is  *)
(* there until the switch is over. Workers that report ready with          *)
(* generation g had their volume filled.                                   *)
Recorded(g) ==
  /\ cluster.lastApplied = cluster.spec.url
  /\ \A c \in Claim : c[2] = g => Clean(c)
  /\ \A c \in Claim : pvc[c] # "Absent" => c[2] <= g
  /\ \E p \in Asked : dep[p] # 0
  /\ \E p \in Asked : pvc[<<p, g>>] # "Absent"
  /\ \A p \in Asked : dep[p] \in {DepView[p], g}
  /\ ActiveSeen # g =>
       /\ g = ActiveSeen + 1
       /\ \A p \in Asked : HasMap(<<p, ActiveSeen>>) /\ Kept(<<p, ActiveSeen>>)
  /\ Moving(g) => \A p \in Asked : Filled(<<p, g>>)
  /\ \A p \in Asked \cap ready : dep[p] = g => volume[<<p, g>>] # NoUrl
  /\ WorkIsOf(Asked \X {g})
  /\ \A p \in Asked : p \notin doomed.dep /\ Kept(<<p, g>>)
  /\ pc = "build" /\ instance.phase \in WorkerPhases =>
       /\ \A p \in Asked : dep[p] = g \/ ToBuild("Deployment", <<p, g>>)
       /\ Moving(g) => \A p \in Asked : JobView[<<p, g>>] = "Complete"
  /\ pc = "build" \/ Collecting =>
       \/ ActiveSeen = g
       \/ instance.phase \in {UpdatingMap, RedeployingWorkers, DeployingWorkers}
  /\ Collecting \/ (pc = "idle" /\ ~queued) =>
       (cluster.phase \in WorkerPhases => \A p \in Asked : dep[p] = g)

(* One generation is in service or on its way into it.                     *)
Serving == \E g \in Gen : NewExtract(g) \/ Recorded(g)

(* The inductive invariant.                                                *)
PatientInv == Live => Orderly /\ (NoWorkers \/ Serving)

-----------------------------------------------------------------------------
(* The profiles asked for are profiles.                                    *)
LEMMA AskedAreProfiles == TypeOK => Asked \subseteq Profiles
BY DEF Asked, ProfileSet, TypeOK, ObjectTypeOK, ClusterSpec

(* The active generation follows the Deployments of the profiles.          *)
LEMMA ActiveAdvances ==
  ASSUME NEW profiles \in Seq(Profiles), NEW d \in [Profiles -> 0 .. MaxGen],
         NEW e \in [Profiles -> 0 .. MaxGen], NEW g \in Gen,
         \A p \in ProfileSet(profiles) : e[p] \in {d[p], g}
  PROVE  GetActiveMapGeneration(profiles, e)
           \in {GetActiveMapGeneration(profiles, d), g}
<1>0. g # 0 /\ \A i \in DOMAIN profiles : profiles[i] \in ProfileSet(profiles)
  BY DEF Gen, ProfileSet
<1>1. ASSUME NEW i \in DOMAIN profiles, FirstDeployed(profiles, e, i)
      PROVE  e[profiles[i]] \in {GetActiveMapGeneration(profiles, d), g}
  <2>1. \A j \in DOMAIN profiles : j < i => d[profiles[j]] = 0
    BY <1>0, <1>1 DEF FirstDeployed
  <2>2. CASE e[profiles[i]] = g
    BY <2>2
  <2>3. CASE e[profiles[i]] # g
    <3>1. e[profiles[i]] = d[profiles[i]]
      BY <1>0, <2>3
    <3>2. FirstDeployed(profiles, d, i)
      BY <1>1, <2>1, <3>1 DEF FirstDeployed
    <3>3. ASSUME NEW j \in DOMAIN profiles, FirstDeployed(profiles, d, j)
          PROVE  j = i
      <4>1. ~(i < j) /\ ~(j < i) /\ i \in Nat /\ j \in Nat
        BY <3>2, <3>3 DEF FirstDeployed
      <4> QED
        BY <4>1
    <3>4. GetActiveMapGeneration(profiles, d) = d[profiles[i]]
      BY <3>2, <3>3 DEF GetActiveMapGeneration
    <3> QED
      BY <3>1, <3>4
  <2> QED
    BY <2>2, <2>3
<1>2. CASE \E i \in DOMAIN profiles : FirstDeployed(profiles, e, i)
  <2> DEFINE first == CHOOSE i \in DOMAIN profiles : FirstDeployed(profiles, e, i)
  <2>1. first \in DOMAIN profiles /\ FirstDeployed(profiles, e, first)
    BY <1>2
  <2>2. GetActiveMapGeneration(profiles, e) = e[profiles[first]]
    BY <1>2 DEF GetActiveMapGeneration
  <2> HIDE DEF first
  <2> QED
    BY <1>1, <2>1, <2>2
<1>3. CASE ~ \E i \in DOMAIN profiles : FirstDeployed(profiles, e, i)
  <2>1. GetActiveMapGeneration(profiles, e) = 1
    BY <1>3 DEF GetActiveMapGeneration
  <2>2. ASSUME NEW i \in DOMAIN profiles PROVE e[profiles[i]] = 0
    <3> DEFINE S == {j \in DOMAIN profiles : e[profiles[j]] # 0}
    <3>1. CASE S = {}
      BY <3>1
    <3>2. CASE S # {}
      <4>1. S \subseteq Nat
        OBVIOUS
      <4>2. PICK m \in S : \A j \in S : m <= j
        BY <3>2, <4>1, LeastNatural
      <4>3. FirstDeployed(profiles, e, m)
        BY <4>1, <4>2 DEF FirstDeployed
      <4> QED
        BY <1>3, <4>3
    <3> QED
      BY <3>1, <3>2
  <2>3. \A i \in DOMAIN profiles : d[profiles[i]] = 0
    BY <1>0, <2>2
  <2>4. GetActiveMapGeneration(profiles, d) = 1
    BY <2>3 DEF GetActiveMapGeneration, FirstDeployed
  <2> QED
    BY <2>1, <2>4
<1> QED
  BY <1>2, <1>3

-----------------------------------------------------------------------------
(* What Kubernetes, the caches, and the beginning and the end of a         *)
(* reconciliation do: children come along, views catch up, and the work    *)
(* goes on or is dropped.                                                  *)
Drift ==
  /\ cluster'.spec = cluster.spec
  /\ cluster'.lastApplied = cluster.lastApplied
  /\ cluster'.phase = cluster.phase
  /\ UNCHANGED <<dep, source>>
  /\ DepView' \in {DepView, dep}
  /\ \A c \in Claim :
       /\ pvc[c] = "Absent" <=> pvc'[c] = "Absent"
       /\ pvc[c] = "Bound" => pvc'[c] = "Bound"
       /\ job[c] = "Complete" => job'[c] = "Complete"
       /\ job'[c] = "Complete" => job[c] = "Complete" \/ volume'[c] # NoUrl
       /\ JobView'[c] \in {JobView[c], job'[c]}
       /\ volume'[c] = volume[c] \/ (volume'[c] = source[c] /\ source[c] # NoUrl)
  /\ \A p \in ready' : p \in ready \/ volume[<<p, dep[p]>>] # NoUrl
  /\ \/ UNCHANGED <<pc, todo, doomed, instance>>
     \/ pc' \in {"idle", "plan"} /\ todo' = << >> /\ doomed' = NothingDoomed
  /\ pc' = "idle" /\ ~queued' => Collecting \/ (pc = "idle" /\ ~queued)

(* What drifting does to a claim: a map stays, a filled volume stays       *)
(* filled, and what was not doomed is not.                                 *)
LEMMA DriftingClaims ==
  ASSUME TypeOK, Drift
  PROVE  /\ Asked' = Asked
         /\ \A c \in Claim : /\ Clean(c) => Clean(c)'
                             /\ HasMap(c) => HasMap(c)'
                             /\ Filled(c) => Filled(c)'
                             /\ Kept(c) => Kept(c)'
                             /\ volume[c] # NoUrl => volume'[c] # NoUrl
                             /\ JobView[c] = "Complete" /\ job[c] = "Complete"
                                  => JobView'[c] = "Complete"
                             /\ JobView'[c] = "Complete"
                                  => JobView[c] = "Complete" \/ job'[c] = "Complete"
<1>1. Asked' = Asked
  BY DEF Drift, Asked
<1>2. ASSUME NEW c \in Claim PROVE Clean(c) => Clean(c)'
  BY DEF Drift, Clean
<1>3. ASSUME NEW c \in Claim
      PROVE  /\ HasMap(c) => HasMap(c)'
             /\ Filled(c) => Filled(c)'
             /\ volume[c] # NoUrl => volume'[c] # NoUrl
             /\ JobView[c] = "Complete" /\ job[c] = "Complete"
                  => JobView'[c] = "Complete"
             /\ JobView'[c] = "Complete"
                  => JobView[c] = "Complete" \/ job'[c] = "Complete"
  BY DEF Drift, HasMap, Filled
<1>4. ASSUME NEW c \in Claim PROVE Kept(c) => Kept(c)'
  BY DEF Drift, Kept, NothingDoomed
<1> QED
  BY <1>1, <1>2, <1>3, <1>4

(* No builder is added, and a pass that goes on is the one it was.         *)
LEMMA DriftingWork ==
  ASSUME Drift
  PROVE  /\ \A claims : WorkIsOf(claims) => WorkIsOf(claims)'
         /\ pc' \in {"build", "gcDeployments", "gcClaims"} =>
              /\ pc' = pc /\ instance' = instance
              /\ \A kind, c : ToBuild(kind, c) => ToBuild(kind, c)'
         /\ Collecting' => Collecting
BY DEF Drift, WorkIsOf, ToBuild, Collecting

(* The builders to run are builders of claims.                             *)
LEMMA WorkIsTyped ==
  TypeOK => WorkIsOf(Claim) /\ \A i \in DOMAIN todo : todo[i].kind \in Kinds
<1> SUFFICES ASSUME TypeOK, NEW i \in DOMAIN todo
             PROVE  todo[i].kind \in Kinds /\ todo[i].claim \in Claim
  BY DEF WorkIsOf
<1>1. todo \in Seq(BuilderType)
  BY DEF TypeOK, ReconcileTypeOK, BuilderType
<1>2. todo[i] \in BuilderType
  BY <1>1
<1> QED
  BY <1>2 DEF BuilderType

(* A builder that has run was the first of those to run.                   *)
LEMMA BuilderRuns ==
  ASSUME TypeOK, NEW kind, NEW c, Building(kind, c), todo' = Tail(todo)
  PROVE  /\ \E i \in DOMAIN todo : todo[i].kind = kind /\ todo[i].claim = c
         /\ c \in Claim
         /\ \A i \in DOMAIN todo' : i + 1 \in DOMAIN todo /\ todo'[i] = todo[i + 1]
         /\ \A claims : WorkIsOf(claims) => c \in claims
         /\ \A k, d : ToBuild(k, d) => ToBuild(k, d)' \/ (k = kind /\ d = c)
<1>1. todo \in Seq(BuilderType) /\ todo # << >>
  BY DEF TypeOK, ReconcileTypeOK, BuilderType, Building
<1>2. 1 \in DOMAIN todo /\ todo[1] = [kind |-> kind, claim |-> c]
  BY <1>1 DEF Building
<1>3. \A i \in DOMAIN todo' : i + 1 \in DOMAIN todo /\ todo'[i] = todo[i + 1]
  BY <1>1
<1>4. \A i \in DOMAIN todo : i # 1 => i - 1 \in DOMAIN todo' /\ todo[i] = todo'[i - 1]
  BY <1>1
<1>5. todo[1].kind = kind /\ todo[1].claim = c
  BY <1>2
<1>6. ASSUME NEW k, NEW d, ToBuild(k, d) PROVE ToBuild(k, d)' \/ (k = kind /\ d = c)
  <2>1. PICK i \in DOMAIN todo : todo[i].kind = k /\ todo[i].claim = d
    BY <1>6 DEF ToBuild
  <2>2. CASE i = 1
    BY <1>5, <2>1, <2>2
  <2>3. CASE i # 1
    BY <1>4, <2>1, <2>3 DEF ToBuild
  <2> QED
    BY <2>2, <2>3
<1>7. \A claims : WorkIsOf(claims) => c \in claims
  BY <1>2, <1>5 DEF WorkIsOf
<1>8. c \in Claim
  BY <1>7, WorkIsTyped
<1> QED
  BY <1>2, <1>3, <1>5, <1>6, <1>7, <1>8

(* The builders stay within the profiles asked for.                        *)
LEMMA DriftingWorkOfAsked ==
  ASSUME Drift, NEW gens, WorkIsOf(Asked \X gens)
  PROVE  WorkIsOf(Asked \X gens)'
<1>1. Asked' = Asked
  BY DEF Drift, Asked
<1>2. todo' = todo \/ todo' = << >>
  BY DEF Drift
<1> QED
  BY <1>1, <1>2 DEF WorkIsOf

(* Nothing that drifts starts workers.                                     *)
LEMMA DriftKeepsNoWorkers ==
  ASSUME TypeOK, Drift, NoWorkers
  PROVE  NoWorkers'
<1>0. Asked \subseteq Profiles /\ 1 \in Gen
  BY AskedAreProfiles, BoundsAssumption DEF Gen
<1>1. \A p \in Asked : <<p, 1>> \in Claim
  BY <1>0 DEF Claim
<1>2. Asked' = Asked
  BY DriftingClaims
<1>3. \A c \in Claim : Clean(c)'
  BY DriftingClaims DEF NoWorkers
<1>4. \A p \in Asked : dep'[p] = 0 /\ DepView'[p] = 0
  BY DEF NoWorkers, Drift
<1>5. \A c \in Claim : pvc'[c] # "Absent" /\ c[1] \in Asked => c[2] \in {1, 2}
  BY DEF NoWorkers, Drift
<1>6. WorkIsOf(Asked \X {1, 2})'
  BY DriftingWorkOfAsked DEF NoWorkers
<1>7. ASSUME NEW p \in Asked
      PROVE  /\ JobView'[<<p, 1>>] = "Complete" => job'[<<p, 1>>] = "Complete"
             /\ Kept(<<p, 1>>)'
  <2>1. /\ JobView[<<p, 1>>] = "Complete" => job[<<p, 1>>] = "Complete"
        /\ Kept(<<p, 1>>)
    BY DEF NoWorkers
  <2>2. <<p, 1>> \in Claim
    BY <1>1
  <2>3. job[<<p, 1>>] = "Complete" => job'[<<p, 1>>] = "Complete"
    BY <2>2 DEF Drift
  <2>4. Kept(<<p, 1>>)'
    BY <2>1, <2>2, DriftingClaims DEF Kept
  <2> QED
    BY <2>1, <2>2, <2>3, <2>4, DriftingClaims
<1>8. ASSUME pc' = "build", instance'.phase \in WorkerPhases
      PROVE  \E g \in {1, 2} : FirstWorkers(g)'
  <2>1. pc = "build" /\ instance' = instance
    BY <1>8, DriftingWork
  <2>2. PICK g \in {1, 2} : FirstWorkers(g)
    BY <1>8, <2>1 DEF NoWorkers
  <2>3. cluster'.lastApplied = cluster'.spec.url /\ Asked' # {}
    BY <1>2, <2>2 DEF FirstWorkers, Drift
  <2>4. WorkIsOf(Asked \X {g})'
    BY <2>2, DriftingWorkOfAsked DEF FirstWorkers
  <2>5. ASSUME NEW p \in Asked
        PROVE  ToBuild("Deployment", <<p, g>>)' /\ pvc'[<<p, g>>] # "Absent"
    <3>1. ToBuild("Deployment", <<p, g>>) /\ pvc[<<p, g>>] # "Absent"
      BY <2>2 DEF FirstWorkers
    <3>2. ToBuild("Deployment", <<p, g>>)'
      BY <1>8, <2>1, <3>1 DEF Drift, ToBuild
    <3>3. <<p, g>> \in Claim
      BY <3>1, WorkIsTyped DEF ToBuild, WorkIsOf
    <3> QED
      BY <3>1, <3>2, <3>3 DEF Drift
  <2>6. \A c \in Claim : pvc'[c] # "Absent" => c[2] <= g
    BY <2>2 DEF FirstWorkers, Drift
  <2>7. g = 2 => /\ instance'.phase = RedeployingWorkers
                 /\ \A p \in Asked : HasMap(<<p, 1>>)'
    <3>1. ASSUME g = 2, NEW p \in Asked PROVE HasMap(<<p, 1>>)'
      <4>1. HasMap(<<p, 1>>) /\ <<p, 1>> \in Claim
        BY <1>1, <2>2, <3>1 DEF FirstWorkers
      <4> QED
        BY <4>1, DriftingClaims DEF HasMap
    <3> QED
      BY <2>1, <2>2, <3>1 DEF FirstWorkers
  <2> QED
    BY <1>2, <2>3, <2>4, <2>5, <2>6, <2>7 DEF FirstWorkers
<1> QED
  BY <1>2, <1>3, <1>4, <1>5, <1>6, <1>7, <1>8 DEF NoWorkers

(* Nothing that drifts disturbs the building of a new extract.             *)
LEMMA DriftKeepsNewExtract ==
  ASSUME TypeOK, Drift, NEW g \in Gen, NewExtract(g)
  PROVE  NewExtract(g)'
<1>1. Asked' = Asked /\ \A p \in Asked : <<p, g>> \in Claim
  BY AskedAreProfiles, DriftingClaims DEF Claim
<1>2. cluster'.lastApplied # cluster'.spec.url /\ Asked' # {} /\ ~Collecting'
  BY <1>1, DriftingWork DEF NewExtract, Drift
<1>3. ASSUME NEW p \in Asked
      PROVE  dep'[p] = g /\ DepView'[p] = g /\ HasMap(<<p, g>>)'
  <2>1. HasMap(<<p, g>>) /\ <<p, g>> \in Claim
    BY <1>1 DEF NewExtract
  <2>2. HasMap(<<p, g>>)'
    BY <2>1, DriftingClaims DEF HasMap
  <2> QED
    BY <2>2 DEF NewExtract, Drift
<1>4. \A c \in Claim : c[2] = g + 1 => Clean(c)' /\ Filled(c)'
  BY DriftingClaims DEF NewExtract
<1>5. \A c \in Claim : pvc'[c] # "Absent" => c[2] <= g + 1
  BY DEF NewExtract, Drift
<1>6. WorkIsOf(Asked \X {g + 1})'
  BY DriftingWorkOfAsked DEF NewExtract
<1>7. ASSUME pc' = "build"
      PROVE  /\ instance'.phase = UpdatingMap
             /\ g + 1 \in Gen
             /\ \A p \in Asked : \/ pvc'[<<p, g + 1>>] # "Absent"
                                 \/ ToBuild("PersistentVolumeClaim", <<p, g + 1>>)'
  <2>1. pc = "build" /\ UNCHANGED <<todo, instance>>
    BY <1>7 DEF Drift
  <2>2. /\ instance.phase = UpdatingMap
        /\ g + 1 \in Gen
        /\ \A p \in Asked : \/ pvc[<<p, g + 1>>] # "Absent"
                            \/ ToBuild("PersistentVolumeClaim", <<p, g + 1>>)
    BY <2>1 DEF NewExtract
  <2>3. ASSUME NEW p \in Asked
        PROVE  \/ pvc'[<<p, g + 1>>] # "Absent"
               \/ ToBuild("PersistentVolumeClaim", <<p, g + 1>>)'
    <3>1. <<p, g + 1>> \in Claim
      BY <2>2, AskedAreProfiles DEF Claim
    <3>2. CASE pvc[<<p, g + 1>>] # "Absent"
      BY <3>1, <3>2 DEF Drift
    <3>3. CASE ToBuild("PersistentVolumeClaim", <<p, g + 1>>)
      BY <2>1, <3>3 DEF ToBuild
    <3> QED
      BY <2>2, <3>2, <3>3
  <2> QED
    BY <2>1, <2>2, <2>3
<1> QED
  BY <1>1, <1>2, <1>3, <1>4, <1>5, <1>6, <1>7 DEF NewExtract

(* The active generation a controller sees stays, or catches up.           *)
LEMMA ViewAdvances ==
  ASSUME TypeOK, TypeOK', cluster'.spec = cluster.spec, NEW g \in Gen,
         \A p \in Asked : DepView'[p] \in {DepView[p], g}
  PROVE  ActiveSeen' \in {ActiveSeen, g}
<1>1. cluster.spec.profiles \in Seq(Profiles)
  BY DEF TypeOK, ObjectTypeOK, ClusterSpec
<1>2. DepView \in [Profiles -> 0 .. MaxGen] /\ DepView' \in [Profiles -> 0 .. MaxGen]
  BY DEF TypeOK, ChildrenTypeOK, DepView
<1>3. PICK profiles, d, e : /\ profiles = cluster.spec.profiles
                            /\ d = DepView /\ e = DepView'
  OBVIOUS
<1>4. GetActiveMapGeneration(profiles, e) \in {GetActiveMapGeneration(profiles, d), g}
  BY <1>1, <1>2, <1>3, ActiveAdvances DEF Asked
<1> QED
  BY <1>3, <1>4 DEF ActiveSeen

(* The active generation seen is a generation.                             *)
LEMMA ActiveSeenIsGeneration == TypeOK => ActiveSeen \in Gen
BY ActiveIsGeneration
DEF ActiveSeen, TypeOK, ObjectTypeOK, ChildrenTypeOK, ClusterSpec, DepView

(* Nothing that drifts takes a recorded extract out of service.            *)
LEMMA DriftKeepsRecorded ==
  ASSUME TypeOK, TypeOK', Drift, NEW g \in Gen, Recorded(g)
  PROVE  Recorded(g)'
<1>1. /\ Asked' = Asked /\ Asked \subseteq Profiles
      /\ \A p \in Asked : <<p, g>> \in Claim /\ <<p, ActiveSeen>> \in Claim
  BY AskedAreProfiles, DriftingClaims, ActiveSeenIsGeneration DEF Claim
<1>2. cluster'.lastApplied = cluster'.spec.url /\ UNCHANGED dep
  BY DEF Recorded, Drift
<1>3. \A c \in Claim : c[2] = g => Clean(c)'
  BY DriftingClaims DEF Recorded
<1>4. \A c \in Claim : pvc'[c] # "Absent" => c[2] <= g
  BY DEF Recorded, Drift
<1>5. (\E p \in Asked : dep'[p] # 0) /\ (\E p \in Asked : pvc'[<<p, g>>] # "Absent")
  BY <1>1 DEF Recorded, Drift
<1>6. \A p \in Asked : dep'[p] \in {DepView'[p], g}
  BY DEF Recorded, Drift
<1>7. ActiveSeen' \in {ActiveSeen, g}
  <2>1. \A p \in Asked : DepView'[p] \in {DepView[p], g}
    BY DEF Recorded, Drift
  <2> QED
    BY <2>1, ViewAdvances DEF Drift
<1>8. ASSUME ActiveSeen' # g
      PROVE  /\ g = ActiveSeen' + 1
             /\ \A p \in Asked : HasMap(<<p, ActiveSeen>>)' /\ Kept(<<p, ActiveSeen>>)'
  <2>1. ActiveSeen' = ActiveSeen
    BY <1>7, <1>8
  <2>2. PICK a : a = ActiveSeen
    OBVIOUS
  <2>3. g = a + 1 /\ \A p \in Asked : HasMap(<<p, a>>) /\ Kept(<<p, a>>)
    BY <1>8, <2>1, <2>2 DEF Recorded
  <2>4. ASSUME NEW p \in Asked PROVE HasMap(<<p, a>>)' /\ Kept(<<p, a>>)'
    <3>1. <<p, a>> \in Claim
      BY <1>1, <2>2
    <3> QED
      BY <2>3, <3>1, DriftingClaims DEF HasMap, Kept
  <2> QED
    BY <2>1, <2>2, <2>3, <2>4
<1>9. Moving(g)' => Moving(g)
  BY <1>1, <1>2 DEF Moving
<1>10. ASSUME Moving(g), NEW p \in Asked PROVE Filled(<<p, g>>)'
  <2>1. Filled(<<p, g>>) /\ <<p, g>> \in Claim
    BY <1>1, <1>10 DEF Recorded
  <2> QED
    BY <2>1, DriftingClaims DEF Filled
<1>11. ASSUME NEW p \in Asked, p \in ready', dep'[p] = g
       PROVE  volume'[<<p, g>>] # NoUrl
  <2>1. dep[p] = g /\ <<p, g>> \in Claim
    BY <1>1, <1>2, <1>11
  <2>2. p \in ready \/ volume[<<p, dep[p]>>] # NoUrl
    BY <1>11 DEF Drift
  <2>3. p \in ready => volume[<<p, g>>] # NoUrl
    BY <2>1 DEF Recorded
  <2>4. volume[<<p, g>>] # NoUrl
    BY <2>1, <2>2, <2>3
  <2> QED
    BY <2>1, <2>4, DriftingClaims
<1>12. WorkIsOf(Asked \X {g})'
  BY DriftingWorkOfAsked DEF Recorded
<1>13. ASSUME NEW p \in Asked PROVE p \notin doomed'.dep /\ Kept(<<p, g>>)'
  BY <1>1 DEF Recorded, Drift, NothingDoomed, Kept
<1>14. ASSUME pc' = "build", instance'.phase \in WorkerPhases
       PROVE  /\ \A p \in Asked : dep'[p] = g \/ ToBuild("Deployment", <<p, g>>)'
              /\ Moving(g) => \A p \in Asked : JobView'[<<p, g>>] = "Complete"
  <2>1. pc = "build" /\ UNCHANGED <<todo, instance>>
    BY <1>14 DEF Drift
  <2>2. /\ \A p \in Asked : dep[p] = g \/ ToBuild("Deployment", <<p, g>>)
        /\ Moving(g) => \A p \in Asked : JobView[<<p, g>>] = "Complete"
    BY <1>14, <2>1 DEF Recorded
  <2>3. ASSUME Moving(g), NEW p \in Asked PROVE JobView'[<<p, g>>] = "Complete"
    <3>1. Filled(<<p, g>>) /\ <<p, g>> \in Claim
      BY <1>1, <2>3 DEF Recorded
    <3>2. JobView[<<p, g>>] = "Complete" /\ job[<<p, g>>] = "Complete"
      BY <2>2, <2>3, <3>1 DEF Filled
    <3> QED
      BY <3>1, <3>2, DriftingClaims
  <2>4. \A p \in Asked : dep'[p] = g \/ ToBuild("Deployment", <<p, g>>)'
    BY <1>2, <2>1, <2>2 DEF ToBuild
  <2> QED
    BY <2>2, <2>3, <2>4
<1>15. ASSUME pc' = "build" \/ Collecting'
       PROVE  \/ ActiveSeen' = g
              \/ instance'.phase \in {UpdatingMap, RedeployingWorkers, DeployingWorkers}
  <2>1. pc' = pc /\ instance' = instance
    BY <1>15 DEF Drift, Collecting
  <2> QED
    BY <1>7, <1>15, <2>1 DEF Recorded, Collecting
<1>16. ASSUME Collecting' \/ (pc' = "idle" /\ ~queued'), cluster'.phase \in WorkerPhases
       PROVE  \A p \in Asked : dep'[p] = g
  <2>1. Collecting \/ (pc = "idle" /\ ~queued)
    BY <1>16, DriftingWork DEF Drift
  <2>2. cluster.phase \in WorkerPhases
    BY <1>16 DEF Drift
  <2> QED
    BY <1>2, <2>1, <2>2 DEF Recorded
<1> QED
  BY <1>1, <1>2, <1>3, <1>4, <1>5, <1>6, <1>8, <1>9, <1>10, <1>11, <1>12, <1>13,
     <1>14, <1>15, <1>16
  DEF Recorded

(* When children and caches stay, so do the views of them.                 *)
LEMMA ChildrenStay ==
  ASSUME UNCHANGED <<children, seen>>
  PROVE  /\ UNCHANGED <<pvc, volume, job, source, dep, ready, JobView, DepView>>
         /\ ReadyView' = ReadyView /\ PvcView' = PvcView
BY DEF children, JobView, DepView, ReadyView, PvcView

(* A pass that ends early, or at its end, leaves only drift behind.        *)
LEMMA LostPassDrifts ==
  ASSUME Discard, queued' \/ Collecting \/ (pc = "idle" /\ ~queued),
         UNCHANGED <<children, seen>>,
         cluster'.spec = cluster.spec, cluster'.lastApplied = cluster.lastApplied,
         cluster'.phase = cluster.phase
  PROVE  Drift
BY ChildrenStay DEF Drift, Discard

(* The beginning and the end of a reconciliation drift.                    *)
LEMMA BoundaryDrifts ==
  ASSUME TypeOK, Orderly,
         Initialize \/ Begin \/ Finish \/ Wake \/ Abandon \/ UNCHANGED vars
  PROVE  Drift
<1> USE DEF local
<1>1. UNCHANGED <<children, seen>>
  BY DEF Initialize, Begin, Finish, Wake, Abandon, vars
<1>2. /\ cluster'.spec = cluster.spec /\ cluster'.lastApplied = cluster.lastApplied
      /\ cluster'.phase = cluster.phase
  BY DEF Initialize, Begin, Finish, Wake, Abandon, vars, TypeOK, ObjectTypeOK
<1>3. CASE Finish \/ Abandon
  BY <1>1, <1>2, <1>3, LostPassDrifts DEF Finish, Abandon, Retry, Collecting
<1>4. CASE Initialize \/ Begin \/ Wake \/ UNCHANGED vars
  <2>1. \/ UNCHANGED <<pc, todo, doomed, instance>>
        \/ pc' = "plan" /\ todo' = << >> /\ doomed' = NothingDoomed
    BY <1>4 DEF Initialize, Begin, Dequeue, Wake, vars, Orderly, Collecting
  <2>2. pc' = "idle" /\ ~queued' => pc = "idle" /\ ~queued
    BY <1>4 DEF Initialize, Begin, Wake, vars
  <2> QED
    BY <1>1, <1>2, <2>1, <2>2, ChildrenStay DEF Drift
<1> QED
  BY <1>3, <1>4

(* Kubernetes drifts: volumes are bound, Jobs end, workers come and go.    *)
LEMMA KubernetesDrifts ==
  ASSUME TypeOK, JobsHaveSource,
         \/ Progress
         \/ \E c \in Claim : FailJob(c)
         \/ \E p \in Profiles : FailWorkers(p)
  PROVE  Drift
<1> USE DEF local
<1>1. UNCHANGED <<cluster, seen, dep, source, pc, todo, doomed, instance>>
  BY DEF Progress, BindVolume, CompleteJob, StartWorkers, FailJob, FailWorkers
<1>2. queued => queued'
  BY DEF Progress, BindVolume, CompleteJob, StartWorkers, FailJob, FailWorkers, Notify
<1>3. /\ DepView' \in {DepView, dep}
      /\ \A c \in Claim : JobView'[c] \in {JobView[c], job'[c]}
  BY <1>1 DEF DepView, JobView
<1>4. ASSUME NEW c \in Claim, BindVolume(c) PROVE Drift
  BY <1>1, <1>2, <1>3, <1>4 DEF BindVolume, Drift, TypeOK, ChildrenTypeOK
<1>5. ASSUME NEW c \in Claim, CompleteJob(c) PROVE Drift
  <2>1. source[c] # NoUrl
    BY <1>5, UrlAssumption DEF CompleteJob, JobsHaveSource
  <2> QED
    BY <1>1, <1>2, <1>3, <1>5, <2>1 DEF CompleteJob, Drift, TypeOK, ChildrenTypeOK
<1>6. ASSUME NEW c \in Claim, FailJob(c) PROVE Drift
  BY <1>1, <1>2, <1>3, <1>6 DEF FailJob, Drift, TypeOK, ChildrenTypeOK
<1>7. ASSUME NEW p \in Profiles, StartWorkers(p) \/ FailWorkers(p) PROVE Drift
  BY <1>1, <1>2, <1>3, <1>7 DEF StartWorkers, FailWorkers, Drift
<1> QED
  BY <1>4, <1>5, <1>6, <1>7 DEF Progress

(* A cache that catches up drifts.                                         *)
LEMMA SyncDrifts ==
  ASSUME TypeOK, NEW kind \in Kinds, Sync(kind)
  PROVE  Drift
<1> USE DEF local
<1>1. /\ UNCHANGED <<cluster, children, pc, todo, doomed, instance>>
      /\ queued => queued'
  BY DEF Sync
<1>2. UNCHANGED <<pvc, volume, job, source, dep, ready>>
  BY <1>1 DEF children
<1>3. seen'.dep \in {seen.dep, dep} /\ seen'.job \in {seen.job, job}
  BY DEF Sync, Current, Kinds, TypeOK, ChildrenTypeOK
<1>4. /\ DepView' \in {DepView, dep}
      /\ \A c \in Claim : JobView'[c] \in {JobView[c], job'[c]}
  BY <1>2, <1>3 DEF DepView, JobView
<1> QED
  BY <1>1, <1>2, <1>4 DEF Drift

-----------------------------------------------------------------------------
(* Nothing doomed means no Deployment, volume or Job.                      *)
LEMMA NothingDoomedIsEmpty ==
  NothingDoomed.dep = {} /\ NothingDoomed.pvc = {} /\ NothingDoomed.job = {}
BY DEF NothingDoomed

(* A pass that is over leaves everything in order.                         *)
LEMMA DiscardIsOrderly ==
  ASSUME Discard, ~cluster'.paused, ~cluster'.finalizer => queued'
  PROVE  Orderly'
BY NothingDoomedIsEmpty DEF Discard, Orderly, Collecting

(* What happens outside the controller leaves a pass in order.             *)
LEMMA WorkIsOrderly ==
  ASSUME TypeOK, Orderly, UNCHANGED <<cluster, pc, local>>, queued => queued'
  PROVE  Orderly'
BY DEF Orderly, local, Collecting

(* The builders and the annotation leave a pass in order.                  *)
LEMMA BuildIsOrderly ==
  ASSUME TypeOK, Orderly, Build
  PROVE  Orderly'
<1>1. CASE SetLastAppliedSpecAnnotation
  <2>1. ~stale /\ pc = "build"
    BY <1>1 DEF Orderly, SetLastAppliedSpecAnnotation
  <2>2. /\ cluster' = [cluster EXCEPT !.lastApplied = instance.spec.url]
        /\ queued => queued'
        /\ pc' = "gcDeployments"
        /\ doomed' = [NothingDoomed EXCEPT !.dep =
             {p \in Profiles : DepView[p] # 0}
               \ ProfileSet(instance.spec.profiles)]
        /\ UNCHANGED <<instance, stale, todo>> /\ todo = << >>
    BY <1>1, <2>1 DEF SetLastAppliedSpecAnnotation, Conflict
  <2>3. /\ cluster'.paused = cluster.paused /\ cluster'.finalizer = cluster.finalizer
        /\ cluster'.spec = cluster.spec /\ cluster'.phase = cluster.phase
    BY <2>2 DEF TypeOK, ObjectTypeOK
  <2>4. doomed'.pvc = {} /\ doomed'.job = {}
    BY <2>2 DEF NothingDoomed
  <2> QED
    BY <2>1, <2>2, <2>3, <2>4 DEF Orderly, Collecting
<1>2. CASE \E c \in Claim : \/ BuildPersistentVolumeClaim(c) \/ BuildJob(c)
                            \/ BuildDeployment(c)
  <2>1. cluster' = cluster /\ pc = "build"
    BY <1>2
    DEF BuildPersistentVolumeClaim, BuildJob, BuildDeployment, Building
  <2>2. \/ Discard /\ queued'
        \/ UNCHANGED <<pc, instance, stale, doomed>> /\ (queued => queued')
    BY <1>2
    DEF BuildPersistentVolumeClaim, BuildJob, BuildDeployment, BuilderDone, Retry,
        Notify
  <2>3. CASE Discard /\ queued'
    BY <2>1, <2>3, DiscardIsOrderly DEF Orderly
  <2>4. CASE ~(Discard /\ queued')
    <3>1. UNCHANGED <<pc, instance, stale, doomed>> /\ (queued => queued')
      BY <2>2, <2>4
    <3>2. \E kind \in Kinds, c \in Claim : Building(kind, c) /\ todo' = Tail(todo)
      BY <1>2, <2>4
      DEF BuildPersistentVolumeClaim, BuildJob, BuildDeployment, BuilderDone, Retry,
          Kinds
    <3>3. \A i \in DOMAIN todo' : i + 1 \in DOMAIN todo /\ todo'[i] = todo[i + 1]
      BY <3>2, BuilderRuns
    <3> QED
      BY <2>1, <3>1, <3>3 DEF Orderly, Collecting
  <2> QED
    BY <2>3, <2>4
<1> QED
  BY <1>1, <1>2 DEF Build

(* Garbage collection leaves a pass in order.                              *)
LEMMA CollectionIsOrderly ==
  ASSUME TypeOK, Orderly, GarbageCollection
  PROVE  Orderly'
<1>1. /\ UNCHANGED <<cluster, instance, stale, todo>> /\ (queued => queued')
      /\ Collecting /\ pc' \in {pc, "gcClaims"}
      /\ pc' # "gcClaims" => UNCHANGED <<doomed.pvc, doomed.job>>
  <2>1. ASSUME NEW p \in Profiles, DeleteDeployment(p)
        PROVE  UNCHANGED <<doomed.pvc, doomed.job>>
    BY <2>1 DEF DeleteDeployment, TypeOK, ReconcileTypeOK
  <2>2. /\ UNCHANGED <<cluster, instance, stale, todo>> /\ Collecting
        /\ \/ pc' = "gcClaims"
           \/ pc' = pc /\ \E p \in Profiles : DeleteDeployment(p)
    BY DEF GarbageCollection, DeleteDeployment, ListClaims,
           DeletePersistentVolumeClaim, DeleteJob, Collecting
  <2>3. queued => queued'
    BY DEF GarbageCollection, DeleteDeployment, ListClaims,
           DeletePersistentVolumeClaim, DeleteJob, Notify
  <2> QED
    BY <2>1, <2>2, <2>3
<1> QED
  BY <1>1 DEF Orderly, Collecting

-----------------------------------------------------------------------------
(* Every profile of the spec has a bound volume of generation g and, as    *)
(* far as the controller sees, the Job is done.                            *)
Usable(g) ==
  \A p \in Asked : pvc[<<p, g>>] = "Bound" /\ JobView[<<p, g>>] = "Complete"

(* The phase is chosen with the active generation a and the newest one f,  *)
(* and its builders work on generation g.                                  *)
Chosen(a, f, g, phase) ==
  \/ Asked = {} /\ phase = Empty
  \/ Asked # {} /\ ~Usable(a) /\ phase = BuildingMap /\ g = a
  \/ /\ Asked # {} /\ Usable(a) /\ phase = UpdatingMap /\ g = a + 1 /\ g \in Gen
     /\ cluster.lastApplied # cluster.spec.url \/ ~Usable(f)
  \/ /\ Asked # {} /\ Usable(a) /\ Usable(f) /\ phase \in WorkerPhases /\ g = f
     /\ cluster.lastApplied = cluster.spec.url
     /\ a # f => phase = RedeployingWorkers

(* A map of generation g is to be built for every profile.                 *)
MapWork(g) ==
  /\ WorkIsOf(Asked \X {g}) /\ \A i \in DOMAIN todo : todo[i].kind # "Deployment"
  /\ \A p \in Asked : ToBuild("PersistentVolumeClaim", <<p, g>>)

(* Every profile is to have workers of generation g.                       *)
WorkerWork(g) ==
  /\ WorkIsOf(Asked \X {g}) /\ \A i \in DOMAIN todo : todo[i].kind = "Deployment"
  /\ \A p \in Asked : ToBuild("Deployment", <<p, g>>)

(* What a plan has done: the phase is chosen from the active generation a  *)
(* and the newest f, and generation g is to be worked on.                  *)
Planned(a, f, g, phase) ==
  /\ a = ActiveSeen /\ Chosen(a, f, g, phase)
  /\ f \in Gen /\ \A c \in Claim : pvc[c] # "Absent" => c[2] <= f
  /\ f = 1 \/ \E c \in Claim : pvc[c] # "Absent" /\ f = c[2]
  /\ pc = "plan" /\ pc' = "build" /\ instance'.phase = phase
  /\ cluster'.spec = cluster.spec /\ cluster'.lastApplied = cluster.lastApplied
  /\ UNCHANGED <<children, seen, doomed>>
  /\ phase = Empty => todo' = << >>
  /\ phase \in {BuildingMap, UpdatingMap} => MapWork(g)'
  /\ phase \in WorkerPhases => WorkerWork(g)'

(* The builders of a map are those of volumes and Jobs of one generation,  *)
(* and no profile's volume is forgotten.                                   *)
LEMMA MapBuildersWork ==
  ASSUME NEW profiles \in Seq(Profiles), NEW g
  PROVE  LET work == MapBuilders(profiles, g)
         IN  /\ \A i \in DOMAIN work :
                  /\ work[i].kind \in {"PersistentVolumeClaim", "Job"}
                  /\ work[i].claim \in ProfileSet(profiles) \X {g}
             /\ \A p \in ProfileSet(profiles) : \E i \in DOMAIN work :
                  work[i].kind = "PersistentVolumeClaim" /\ work[i].claim = <<p, g>>
<1> DEFINE n == Len(profiles)
           work == MapBuilders(profiles, g)
<1>1. n \in Nat /\ DOMAIN profiles = 1 .. n /\ DOMAIN work = 1 .. 2 * n
  BY DEF MapBuilders
<1>2. ASSUME NEW k \in 1 .. 2 * n
      PROVE  /\ (k + 1) \div 2 \in 1 .. n
             /\ work[k].claim = <<profiles[(k + 1) \div 2], g>>
             /\ work[k].kind = IF k % 2 = 1 THEN "PersistentVolumeClaim" ELSE "Job"
  BY DEF MapBuilders, Builder
<1>3. ASSUME NEW j \in 1 .. n
      PROVE  /\ 2 * j - 1 \in 1 .. 2 * n
             /\ (2 * j - 1) % 2 = 1 /\ (2 * j - 1 + 1) \div 2 = j
  BY <1>1
<1> HIDE DEF work, n
<1>4. ASSUME NEW i \in DOMAIN work
      PROVE  /\ work[i].kind \in {"PersistentVolumeClaim", "Job"}
             /\ work[i].claim \in ProfileSet(profiles) \X {g}
  <2>1. PICK p \in ProfileSet(profiles) : work[i].claim = <<p, g>>
    BY <1>1, <1>2 DEF ProfileSet
  <2>2. work[i].kind \in {"PersistentVolumeClaim", "Job"}
    BY <1>1, <1>2
  <2> QED
    BY <2>1, <2>2
<1>5. ASSUME NEW p \in ProfileSet(profiles)
      PROVE  \E i \in DOMAIN work :
               work[i].kind = "PersistentVolumeClaim" /\ work[i].claim = <<p, g>>
  <2>1. PICK j \in 1 .. n : profiles[j] = p
    BY <1>1 DEF ProfileSet
  <2>2. PICK k \in 1 .. 2 * n : k % 2 = 1 /\ (k + 1) \div 2 = j
    BY <1>3
  <2> QED
    BY <1>1, <1>2, <2>1, <2>2
<1> QED
  BY <1>4, <1>5 DEF work

(* The builders of workers are those of Deployments of one generation, and *)
(* no profile's is forgotten.                                              *)
LEMMA WorkerBuildersWork ==
  ASSUME NEW profiles \in Seq(Profiles), NEW g
  PROVE  LET work == WorkerBuilders(profiles, g)
         IN  /\ \A i \in DOMAIN work :
                  /\ work[i].kind = "Deployment"
                  /\ work[i].claim \in ProfileSet(profiles) \X {g}
             /\ \A p \in ProfileSet(profiles) : \E i \in DOMAIN work :
                  work[i].kind = "Deployment" /\ work[i].claim = <<p, g>>
<1> DEFINE work == WorkerBuilders(profiles, g)
<1>1. /\ DOMAIN work = DOMAIN profiles
      /\ \A k \in DOMAIN profiles : /\ work[k].kind = "Deployment"
                                    /\ work[k].claim = <<profiles[k], g>>
  BY DEF WorkerBuilders, Builder
<1> HIDE DEF work
<1>2. \A k \in DOMAIN profiles : profiles[k] \in ProfileSet(profiles)
  BY DEF ProfileSet
<1>3. \A p \in ProfileSet(profiles) : \E k \in DOMAIN profiles : profiles[k] = p
  BY DEF ProfileSet
<1>4. ASSUME NEW i \in DOMAIN work PROVE work[i].claim \in ProfileSet(profiles) \X {g}
  <2>1. PICK p \in ProfileSet(profiles) : work[i].claim = <<p, g>>
    BY <1>1, <1>2
  <2> QED
    BY <2>1
<1>5. ASSUME NEW p \in ProfileSet(profiles)
      PROVE  \E i \in DOMAIN work :
               work[i].kind = "Deployment" /\ work[i].claim = <<p, g>>
  BY <1>1, <1>3
<1> QED
  BY <1>1, <1>4, <1>5 DEF work

(* The early returns of DeterminePhase, as Chosen states them.             *)
LEMMA PhaseChosen ==
  ASSUME TypeOK, NEW a, NEW f, NEW isReady, NEW phase,
         phase = DeterminePhase(cluster.spec, cluster.lastApplied, a, f, Bound(pvc),
                                Completed(JobView), isReady),
         a \in Gen, f \in Gen,
         phase = UpdatingMap => GetNextMapGeneration(a) \in Gen
  PROVE  Chosen(a, f, GenerationFor(phase, a, f), phase)
<1> DEFINE InProgress(h) == IsMapBuildingInProgress(cluster.spec.profiles,
                                Bound(pvc), Completed(JobView), h)
<1>1. cluster.spec.profiles = << >> <=> Asked = {}
  <2>1. cluster.spec.profiles \in Seq(Profiles)
    BY DEF TypeOK, ObjectTypeOK, ClusterSpec
  <2>2. CASE cluster.spec.profiles = << >>
    BY <2>2 DEF Asked, ProfileSet
  <2>3. CASE cluster.spec.profiles # << >>
    <3>1. 1 \in DOMAIN cluster.spec.profiles
      BY <2>1, <2>3
    <3> QED
      BY <2>3, <3>1 DEF Asked, ProfileSet
  <2> QED
    BY <2>2, <2>3
<1>2. ASSUME NEW h \in Gen PROVE InProgress(h) <=> ~Usable(h)
  <2>1. \A p \in Asked : <<p, h>> \in Claim
    BY AskedAreProfiles DEF Claim
  <2> QED
    BY <2>1 DEF IsMapBuildingInProgress, Usable, Bound, Completed, Asked
<1> USE DEF Empty, BuildingMap, UpdatingMap, RedeployingWorkers, DeployingWorkers,
            WorkersDeployed, WorkersRedeployed, WorkerPhases
<1>3. CASE cluster.spec.profiles = << >>
  BY <1>1, <1>3 DEF DeterminePhase, Chosen
<1> HIDE DEF InProgress
<1>4. CASE cluster.spec.profiles # << >> /\ InProgress(a)
  <2>1. phase = BuildingMap
    BY <1>4 DEF DeterminePhase, InProgress
  <2> QED
    BY <1>1, <1>2, <1>4, <2>1 DEF Chosen, GenerationFor
<1>5. CASE /\ cluster.spec.profiles # << >> /\ ~InProgress(a)
           /\ cluster.spec.url # cluster.lastApplied \/ InProgress(f)
  <2>1. phase = UpdatingMap
    BY <1>5 DEF DeterminePhase, InProgress, MapUpdateNeeded
  <2> QED
    BY <1>1, <1>2, <1>5, <2>1 DEF Chosen, GenerationFor, GetNextMapGeneration
<1>6. CASE /\ cluster.spec.profiles # << >> /\ ~InProgress(a)
           /\ cluster.spec.url = cluster.lastApplied /\ ~InProgress(f)
  <2>1. /\ phase \in WorkerPhases
        /\ a # f => phase = RedeployingWorkers
    BY <1>6 DEF DeterminePhase, InProgress, MapUpdateNeeded
  <2>2. GenerationFor(phase, a, f) = f
    BY <2>1 DEF GenerationFor
  <2> QED
    BY <1>1, <1>2, <1>6, <2>1, <2>2 DEF Chosen
<1> QED
  BY <1>3, <1>4, <1>5, <1>6

(* The builders of the phase, as MapWork and WorkerWork state them.        *)
LEMMA PlannedWork ==
  ASSUME TypeOK, NEW a, NEW f, NEW g, NEW phase, g = GenerationFor(phase, a, f),
         cluster'.spec = cluster.spec,
         todo' = ResourceBuildersForPhase(phase, cluster.spec.profiles, a, f)
  PROVE  /\ phase = Empty => todo' = << >>
         /\ phase \in {BuildingMap, UpdatingMap} => MapWork(g)'
         /\ phase \in WorkerPhases => WorkerWork(g)'
<1> USE DEF Empty, BuildingMap, UpdatingMap, RedeployingWorkers, DeployingWorkers,
            WorkersDeployed, WorkersRedeployed, WorkerPhases
<1>1. PICK profiles \in Seq(Profiles) : profiles = cluster.spec.profiles
  BY DEF TypeOK, ObjectTypeOK, ClusterSpec
<1>2. Asked' = ProfileSet(profiles)
  BY <1>1 DEF Asked
<1>3. phase = Empty => todo' = << >>
  BY DEF ResourceBuildersForPhase
<1>4. ASSUME phase \in {BuildingMap, UpdatingMap} PROVE MapWork(g)'
  <2>1. todo' = MapBuilders(profiles, g)
    BY <1>1, <1>4 DEF ResourceBuildersForPhase
  <2> QED
    BY <1>2, <2>1, MapBuildersWork DEF MapWork, WorkIsOf, ToBuild
<1>5. ASSUME phase \in WorkerPhases PROVE WorkerWork(g)'
  <2>1. todo' = WorkerBuilders(profiles, g)
    BY <1>1, <1>5 DEF ResourceBuildersForPhase
  <2> QED
    BY <1>2, <2>1, WorkerBuildersWork DEF WorkerWork, WorkIsOf, ToBuild
<1> QED
  BY <1>3, <1>4, <1>5

(* Without failing lists and with volumes read as they are, a plan is what *)
(* Planned states.                                                         *)
LEMMA PlanOutcome ==
  ASSUME TypeOK, Patient, Orderly, Plan
  PROVE  \E a, f, g, phase : Planned(a, f, g, phase)
<1>1. PICK lost \in SUBSET Kinds : PlanWithout(lost)
  BY DEF Plan
<1>2. lost = {}
  BY <1>1 DEF PlanWithout, Fault, Patient
<1>3. PvcView = pvc
  BY DEF Patient, PvcView
<1>4. /\ pc = "plan" /\ ~stale /\ UNCHANGED <<children, seen>>
      /\ instance.spec = cluster.spec /\ instance.lastApplied = cluster.lastApplied
  BY <1>1 DEF PlanWithout, Orderly
<1>5. PICK a : a = ActiveSeen
  OBVIOUS
<1>6. PICK f : f = GetFutureMapGeneration(Existing(pvc))
  OBVIOUS
<1>7. PICK phase : phase = DeterminePhase(cluster.spec, cluster.lastApplied, a, f,
                             Bound(pvc), Completed(JobView), ReadyView)
  OBVIOUS
<1>8. PICK g : g = GenerationFor(phase, a, f)
  OBVIOUS
<1>9. /\ phase = UpdatingMap => GetNextMapGeneration(a) \in Gen
      /\ cluster' = IF phase = instance.phase THEN cluster
                    ELSE [cluster EXCEPT !.phase = phase]
      /\ instance' = [instance EXCEPT !.phase = phase]
      /\ todo' = ResourceBuildersForPhase(phase, cluster.spec.profiles, a, f)
      /\ pc' = "build" /\ UNCHANGED doomed
  BY <1>1, <1>2, <1>3, <1>4, <1>5, <1>6, <1>7 DEF PlanWithout, Conflict, ActiveSeen
<1>10. a \in Gen
  BY <1>5, ActiveSeenIsGeneration
<1>11. /\ f \in Gen /\ \A c \in Claim : pvc[c] # "Absent" => c[2] <= f
       /\ f = 1 \/ \E c \in Claim : pvc[c] # "Absent" /\ f = c[2]
  BY <1>6, FutureIsNewest DEF Existing
<1>12. Chosen(a, f, g, phase)
  BY <1>7, <1>8, <1>9, <1>10, <1>11, PhaseChosen
<1>13. /\ cluster'.spec = cluster.spec /\ cluster'.lastApplied = cluster.lastApplied
       /\ instance'.phase = phase
  BY <1>9 DEF TypeOK, ObjectTypeOK, ReconcileTypeOK
<1>14. /\ phase = Empty => todo' = << >>
       /\ phase \in {BuildingMap, UpdatingMap} => MapWork(g)'
       /\ phase \in WorkerPhases => WorkerWork(g)'
  BY <1>8, <1>9, <1>13, PlannedWork
<1> QED
  BY <1>4, <1>5, <1>9, <1>11, <1>12, <1>13, <1>14 DEF Planned

(* Deployments are built in the phases of workers, and only there.         *)
LEMMA PlannedKinds ==
  ASSUME NEW a, NEW f, NEW g, NEW phase, Planned(a, f, g, phase)
  PROVE  \A i \in DOMAIN todo' :
           todo'[i].kind = "Deployment" <=> instance'.phase \in WorkerPhases
<1> USE DEF Empty, BuildingMap, UpdatingMap, RedeployingWorkers, DeployingWorkers,
            WorkersDeployed, WorkersRedeployed, WorkerPhases
<1>1. instance'.phase = phase /\ Chosen(a, f, g, phase)
  BY DEF Planned
<1>2. CASE phase = Empty
  BY <1>2 DEF Planned
<1>3. CASE phase \in {BuildingMap, UpdatingMap}
  BY <1>1, <1>3 DEF Planned, MapWork
<1>4. CASE phase \in WorkerPhases
  BY <1>1, <1>4 DEF Planned, WorkerWork
<1> QED
  BY <1>1, <1>2, <1>3, <1>4 DEF Chosen

(* As long as the object lives its passes are in order.                    *)
LEMMA NextOrderly ==
  ASSUME TypeOK, Patient, Live, Orderly, Live', [Next]_vars
  PROVE  Orderly'
<1> USE DEF children, local
<1>1. CASE Initialize
  BY <1>1 DEF Initialize, Dequeue, Orderly, Collecting, TypeOK, ObjectTypeOK
<1>2. CASE Begin
  BY <1>2 DEF Begin, Dequeue, Orderly, Collecting, Running
<1>3. CASE Plan
  <2>1. pc = "plan" /\ ~cluster.paused
    BY <1>3 DEF Plan, PlanWithout, Orderly
  <2>2. CASE Retry /\ UNCHANGED cluster
    BY <2>1, <2>2, DiscardIsOrderly DEF Retry
  <2>3. CASE ~(Retry /\ UNCHANGED cluster)
    <3>1. PICK phase \in Phase :
            /\ cluster' = IF phase = instance.phase THEN cluster
                          ELSE [cluster EXCEPT !.phase = phase]
            /\ queued' = (queued \/ phase # instance.phase)
            /\ instance' = [instance EXCEPT !.phase = phase]
            /\ pc' = "build"
            /\ UNCHANGED <<stale, doomed>>
      BY <1>3, <2>3, PlanDecides
    <3>2. /\ cluster'.spec = cluster.spec /\ cluster'.lastApplied = cluster.lastApplied
          /\ cluster'.paused = cluster.paused /\ cluster'.finalizer = cluster.finalizer
          /\ instance'.spec = instance.spec
          /\ instance'.lastApplied = instance.lastApplied
          /\ instance'.phase = phase
          /\ phase # instance.phase => cluster'.phase = phase
          /\ phase = instance.phase => cluster'.phase = cluster.phase
      BY <3>1 DEF TypeOK, ObjectTypeOK, ReconcileTypeOK
    <3>3. \A i \in DOMAIN todo' :
            todo'[i].kind = "Deployment" <=> instance'.phase \in WorkerPhases
      BY <1>3, PlanOutcome, PlannedKinds
    <3> QED
      BY <2>1, <3>1, <3>2, <3>3 DEF Orderly, Collecting
  <2> QED
    BY <2>2, <2>3
<1>4. CASE Finish \/ Abandon
  BY <1>4, DiscardIsOrderly DEF Finish, Abandon, Retry, Orderly
<1>5. CASE \/ Wake \/ Progress \/ UNCHANGED vars
           \/ \E kind \in Kinds : Sync(kind)
           \/ \E c \in Claim : FailJob(c)
           \/ \E p \in Profiles : FailWorkers(p)
  <2>1. CASE Wake \/ UNCHANGED vars
    BY <2>1, WorkIsOrderly DEF Wake, vars
  <2>3. ASSUME NEW kind \in Kinds, Sync(kind) PROVE Orderly'
    BY <2>3, WorkIsOrderly DEF Sync
  <2>2. CASE \/ Progress
             \/ \E c \in Claim : FailJob(c)
             \/ \E p \in Profiles : FailWorkers(p)
    <3>1. UNCHANGED <<cluster, pc, local>> /\ (queued => queued')
      BY <2>2
      DEF Progress, BindVolume, CompleteJob, StartWorkers, FailJob, FailWorkers,
          Notify
    <3> QED
      BY <3>1, WorkIsOrderly
  <2> QED
    BY <1>5, <2>1, <2>2, <2>3
<1>6. CASE User
  <2>1. PatientEdit \/ Delete
    BY <1>6
    DEF User, Patient, EditSpec, TogglePause, ReplaceAnnotations, UserWrites,
        RemoveDeployment, RemovePersistentVolumeClaim, RemoveJob, Tamper
  <2>2. CASE PatientEdit
    <3>1. /\ pc = "idle" /\ UNCHANGED <<pc, instance, todo, doomed>>
          /\ ~stale' /\ queued'
      BY <2>2, WritesWake DEF PatientEdit, UserWrites
    <3>2. cluster'.paused = cluster.paused
      BY <2>2 DEF PatientEdit, TypeOK, ObjectTypeOK
    <3> QED
      BY <3>1, <3>2 DEF Orderly, Collecting
  <2>3. CASE Delete
    BY <2>3 DEF Delete, Live, TypeOK, ObjectTypeOK
  <2> QED
    BY <2>1, <2>2, <2>3
<1>7. ~(Forget \/ MarkDeleting \/ Finalize \/ Pause)
  BY DEF Forget, MarkDeleting, Finalize, Pause, BeingDeleted, Live, Orderly
<1>8. CASE Build \/ GarbageCollection
  BY <1>8, BuildIsOrderly, CollectionIsOrderly
<1> HIDE DEF children, local
<1>9. CASE Reconcile
  BY <1>1, <1>2, <1>3, <1>4, <1>7, <1>8, <1>9 DEF Reconcile
<1>10. CASE Failure
  BY <1>4, <1>5, <1>10 DEF Failure
<1> QED
  BY <1>5, <1>6, <1>9, <1>10 DEF Next

-----------------------------------------------------------------------------
(* Before the first workers.                                               *)

(* Without Deployments the active generation is the first.                 *)
LEMMA ActiveOfNone ==
  ASSUME \A p \in Asked : DepView[p] = 0
  PROVE  ActiveSeen = 1
BY DEF ActiveSeen, Asked, ProfileSet, GetActiveMapGeneration, FirstDeployed

(* The first workers are planned only when their maps are there.           *)
LEMMA PlanKeepsNoWorkers ==
  ASSUME TypeOK, NoWorkers, NEW a, NEW f, NEW g, NEW phase, Planned(a, f, g, phase)
  PROVE  NoWorkers'
<1> USE DEF Empty, BuildingMap, UpdatingMap, RedeployingWorkers, DeployingWorkers,
            WorkersDeployed, WorkersRedeployed, WorkerPhases
<1>1. Asked' = Asked /\ UNCHANGED <<pvc, volume, job, source, dep, JobView, DepView>>
  BY ChildrenStay DEF Planned, Asked
<1>2. a = 1
  BY ActiveOfNone DEF NoWorkers, Planned
<1>3. Chosen(a, f, g, phase) /\ f \in Gen
  BY DEF Planned
<1>4. ASSUME phase \in WorkerPhases PROVE g \in {1, 2} /\ FirstWorkers(g)'
  <2>1. /\ Asked # {} /\ Usable(1) /\ Usable(f) /\ g = f
        /\ cluster.lastApplied = cluster.spec.url
        /\ g # 1 => phase = RedeployingWorkers
    BY <1>2, <1>3, <1>4 DEF Chosen
  <2>2. PICK p \in Asked : TRUE
    BY <2>1
  <2>3. pvc[<<p, f>>] = "Bound" /\ <<p, f>> \in Claim
    BY <1>3, <2>1, AskedAreProfiles DEF Usable, Claim
  <2>4. <<p, f>>[1] = p /\ <<p, f>>[2] = f
    OBVIOUS
  <2>5. g \in {1, 2}
    BY <2>1, <2>3, <2>4 DEF NoWorkers
  <2>6. WorkerWork(g)'
    BY <1>4 DEF Planned
  <2>7. cluster'.lastApplied = cluster'.spec.url /\ instance'.phase = phase
    BY <2>1 DEF Planned
  <2>8. \A c \in Claim : pvc'[c] # "Absent" => c[2] <= g
    BY <1>1, <2>1 DEF Planned
  <2>9. \A q \in Asked : pvc'[<<q, g>>] # "Absent"
    BY <1>1, <2>1 DEF Usable
  <2>10. \A q \in Asked : HasMap(<<q, 1>>)'
    BY <1>1, <2>1 DEF Usable, HasMap, NoWorkers
  <2> QED
    BY <1>1, <2>1, <2>5, <2>6, <2>7, <2>8, <2>9, <2>10 DEF WorkerWork, FirstWorkers
<1>5. WorkIsOf(Asked \X {1, 2})'
  <2>1. CASE phase = Empty
    BY <2>1 DEF Planned, WorkIsOf
  <2>2. CASE phase \in {BuildingMap, UpdatingMap}
    <3>1. g \in {1, 2}
      BY <1>2, <1>3, <2>2 DEF Chosen
    <3>2. MapWork(g)'
      BY <2>2 DEF Planned
    <3> QED
      BY <1>1, <3>1, <3>2 DEF MapWork, WorkIsOf, Kinds
  <2>3. CASE phase \in WorkerPhases
    BY <1>1, <1>4, <2>3 DEF FirstWorkers, WorkIsOf, Kinds
  <2> QED
    BY <1>3, <2>1, <2>2, <2>3 DEF Chosen
<1>6. \A c \in Claim : Clean(c)'
  BY <1>1 DEF NoWorkers, Clean, Planned
<1>7. \A p \in Asked :
        /\ dep'[p] = 0 /\ DepView'[p] = 0
        /\ JobView'[<<p, 1>>] = "Complete" => job'[<<p, 1>>] = "Complete"
        /\ Kept(<<p, 1>>)'
  BY <1>1 DEF NoWorkers, Kept, Planned
<1>8. \A c \in Claim : pvc'[c] # "Absent" /\ c[1] \in Asked => c[2] \in {1, 2}
  BY <1>1 DEF NoWorkers
<1>9. pc' = "build" /\ instance'.phase \in WorkerPhases =>
        \E h \in {1, 2} : FirstWorkers(h)'
  BY <1>4 DEF Planned
<1> QED
  BY <1>1, <1>5, <1>6, <1>7, <1>8, <1>9 DEF NoWorkers
(* What the builder of a volume, of a Job and of a Deployment does, unless *)
(* the pass is lost.                                                       *)
LEMMA VolumeBuilt ==
  ASSUME TypeOK, Patient, NEW c \in Claim, BuildPersistentVolumeClaim(c)
  PROVE  \/ Drift
         \/ /\ Building("PersistentVolumeClaim", c) /\ todo' = Tail(todo)
            /\ UNCHANGED <<cluster, volume, job, source, dep, ready, pc, instance,
                           doomed, JobView, DepView>>
            /\ \/ pvc' = pvc /\ pvc[c] # "Absent"
               \/ pvc[c] = "Absent" /\ pvc' = [pvc EXCEPT ![c] = "Pending"]
<1>1. CASE Retry /\ UNCHANGED pvc
  <2>1. UNCHANGED <<children, seen, cluster>>
    BY <1>1 DEF BuildPersistentVolumeClaim, children
  <2> QED
    BY <1>1, <2>1, LostPassDrifts DEF Retry
<1>2. CASE ~(Retry /\ UNCHANGED pvc)
  <2>1. PvcView = pvc
    BY DEF Patient, PvcView
  <2>2. UNCHANGED <<JobView, DepView>>
    BY DEF BuildPersistentVolumeClaim, JobView, DepView
  <2> QED
    BY <1>2, <2>1, <2>2 DEF BuildPersistentVolumeClaim, BuilderDone
<1> QED
  BY <1>1, <1>2

(* The same for the builder of a Job.                                      *)
LEMMA JobBuilt ==
  ASSUME TypeOK, Orderly, NEW c \in Claim, BuildJob(c)
  PROVE  \/ Drift
         \/ /\ Building("Job", c) /\ todo' = Tail(todo)
            /\ UNCHANGED <<cluster, pvc, volume, dep, ready, pc, instance, doomed,
                           DepView>>
            /\ \/ UNCHANGED <<job, source, JobView>>
               \/ /\ job' = [job EXCEPT ![c] = "Active"] /\ JobView[c] = "Absent"
                  /\ source' = [source EXCEPT ![c] = cluster.spec.url]
                  /\ JobView'[c] \in {"Absent", "Active"}
                  /\ \A d \in Claim : d # c => JobView'[d] = JobView[d]
<1>1. CASE Retry /\ UNCHANGED <<job, source>>
  <2>1. UNCHANGED <<children, seen, cluster>>
    BY <1>1 DEF BuildJob, children
  <2> QED
    BY <1>1, <2>1, LostPassDrifts DEF Retry
<1>2. CASE ~(Retry /\ UNCHANGED <<job, source>>)
  <2>1. instance.spec = cluster.spec
    BY DEF BuildJob, Building, Orderly
  <2>2. /\ Building("Job", c) /\ todo' = Tail(todo)
        /\ UNCHANGED <<cluster, pvc, volume, dep, ready, pc, instance, doomed, seen>>
        /\ \/ UNCHANGED <<job, source>>
           \/ /\ job' = [job EXCEPT ![c] = "Active"] /\ JobView[c] = "Absent"
              /\ source' = [source EXCEPT ![c] = cluster.spec.url]
    BY <1>2, <2>1 DEF BuildJob, BuilderDone
  <2>3. DepView' = DepView /\ (job' = job => JobView' = JobView)
    BY <2>2 DEF DepView, JobView
  <2>4. ASSUME job' = [job EXCEPT ![c] = "Active"], JobView[c] = "Absent"
        PROVE  /\ JobView'[c] \in {"Absent", "Active"}
               /\ \A d \in Claim : d # c => JobView'[d] = JobView[d]
    BY <2>2, <2>4 DEF JobView, TypeOK, ChildrenTypeOK
  <2> QED
    BY <2>2, <2>3, <2>4
<1> QED
  BY <1>1, <1>2

(* The same for the builder of a Deployment.                               *)
LEMMA DeploymentBuilt ==
  ASSUME TypeOK, NEW c \in Claim, BuildDeployment(c)
  PROVE  \/ Drift
         \/ /\ Building("Deployment", c) /\ todo' = Tail(todo)
            /\ UNCHANGED <<cluster, pvc, volume, job, source, pc, instance, doomed,
                           JobView>>
            /\ DepView[c[1]] = dep[c[1]]
            /\ dep' = [dep EXCEPT ![c[1]] = c[2]] /\ ready' \subseteq ready
            /\ DepView' \in {DepView, dep'}
<1>1. CASE Retry /\ UNCHANGED <<dep, ready>>
  <2>1. UNCHANGED <<children, seen, cluster>>
    BY <1>1 DEF BuildDeployment, children
  <2> QED
    BY <1>1, <2>1, LostPassDrifts DEF Retry
<1>2. CASE ~(Retry /\ UNCHANGED <<dep, ready>>)
  <2>1. UNCHANGED JobView /\ (DepView' = DepView \/ DepView' = dep')
    BY DEF BuildDeployment, JobView, DepView
  <2> QED
    BY <1>2, <2>1 DEF BuildDeployment, BuilderDone, DeploymentIsCurrent
<1> QED
  BY <1>1, <1>2

(* No map is built and no Deployment moved with a builder of another kind. *)
LEMMA PhaseOfBuilder ==
  ASSUME TypeOK, Orderly, NEW kind, NEW c, Building(kind, c), todo' = Tail(todo)
  PROVE  /\ pc = "build" /\ doomed = NothingDoomed
         /\ kind = "Deployment" <=> instance.phase \in WorkerPhases
<1>1. \E i \in DOMAIN todo : todo[i].kind = kind /\ todo[i].claim = c
  BY BuilderRuns
<1> QED
  BY <1>1 DEF Orderly, Building, Collecting

(* A builder that has run leaves the others within their claims.           *)
LEMMA FewerWork ==
  ASSUME TypeOK, NEW kind, NEW c, Building(kind, c), todo' = Tail(todo),
         Asked' = Asked, NEW gens, WorkIsOf(Asked \X gens)
  PROVE  WorkIsOf(Asked \X gens)' /\ c \in Asked \X gens
<1>1. /\ \A i \in DOMAIN todo' : i + 1 \in DOMAIN todo /\ todo'[i] = todo[i + 1]
      /\ \A claims : WorkIsOf(claims) => c \in claims
  BY BuilderRuns
<1> QED
  BY <1>1 DEF WorkIsOf

(* The builder of a volume starts no workers.                              *)
LEMMA VolumeBuilderKeepsNoWorkers ==
  ASSUME TypeOK, Patient, Orderly, NoWorkers, NEW c \in Claim,
         BuildPersistentVolumeClaim(c)
  PROVE  NoWorkers'
<1>1. CASE Drift
  BY <1>1, DriftKeepsNoWorkers
<1>2. CASE ~Drift
  <2>1. /\ Building("PersistentVolumeClaim", c) /\ todo' = Tail(todo)
        /\ UNCHANGED <<cluster, volume, job, source, dep, ready, pc, instance,
                       doomed, JobView, DepView>>
        /\ pvc' = pvc \/ pvc' = [pvc EXCEPT ![c] = "Pending"]
    BY <1>2, VolumeBuilt
  <2>2. Asked' = Asked
    BY <2>1 DEF Asked
  <2>3. c \in Asked \X {1, 2} /\ WorkIsOf(Asked \X {1, 2})'
    BY <2>1, <2>2, FewerWork DEF NoWorkers
  <2>4. instance.phase \notin WorkerPhases
    BY <2>1, PhaseOfBuilder
  <2>5. \A d \in Claim : pvc'[d] # "Absent" /\ d[1] \in Asked => d[2] \in {1, 2}
    BY <2>1, <2>3 DEF NoWorkers, TypeOK, ChildrenTypeOK
  <2> QED
    BY <2>1, <2>2, <2>3, <2>4, <2>5 DEF NoWorkers, Clean, Kept
<1> QED
  BY <1>1, <1>2

(* The builder of a Job starts no workers, and builds the extract asked    *)
(* for.                                                                    *)
LEMMA JobBuilderKeepsNoWorkers ==
  ASSUME TypeOK, Orderly, NoWorkers, NEW c \in Claim, BuildJob(c)
  PROVE  NoWorkers'
<1>1. CASE Drift
  BY <1>1, DriftKeepsNoWorkers
<1>2. CASE ~Drift
  <2>1. /\ Building("Job", c) /\ todo' = Tail(todo)
        /\ UNCHANGED <<cluster, pvc, volume, dep, ready, pc, instance, doomed,
                       DepView>>
        /\ \/ UNCHANGED <<job, source, JobView>>
           \/ /\ job' = [job EXCEPT ![c] = "Active"]
              /\ source' = [source EXCEPT ![c] = cluster.spec.url]
              /\ JobView'[c] \in {"Absent", "Active"}
              /\ \A d \in Claim : d # c => JobView'[d] = JobView[d]
    BY <1>2, JobBuilt
  <2>2. Asked' = Asked /\ \A p \in Asked : <<p, 1>> \in Claim
    BY <2>1, AskedAreProfiles, BoundsAssumption DEF Asked, Claim, Gen
  <2>3. WorkIsOf(Asked \X {1, 2})'
    BY <2>1, <2>2, FewerWork DEF NoWorkers
  <2>4. instance.phase \notin WorkerPhases
    BY <2>1, PhaseOfBuilder
  <2>5. \A d \in Claim : Clean(d)'
    BY <2>1 DEF NoWorkers, Clean, TypeOK, ChildrenTypeOK
  <2>6. ASSUME NEW p \in Asked
        PROVE  JobView'[<<p, 1>>] = "Complete" => job'[<<p, 1>>] = "Complete"
    <3>1. JobView[<<p, 1>>] = "Complete" => job[<<p, 1>>] = "Complete"
      BY DEF NoWorkers
    <3>2. CASE <<p, 1>> = c /\ ~UNCHANGED <<job, source, JobView>>
      BY <2>1, <3>2
    <3>3. CASE <<p, 1>> # c \/ UNCHANGED <<job, source, JobView>>
      BY <2>1, <2>2, <3>1, <3>3 DEF TypeOK, ChildrenTypeOK
    <3> QED
      BY <3>2, <3>3
  <2> QED
    BY <2>1, <2>2, <2>3, <2>4, <2>5, <2>6 DEF NoWorkers, Kept
<1> QED
  BY <1>1, <1>2

(* The first Deployment puts the generation into service.                  *)
LEMMA FirstDeploymentServes ==
  ASSUME TypeOK, TypeOK', ReadyExists, Orderly, NoWorkers, NEW c \in Claim,
         BuildDeployment(c)
  PROVE  NoWorkers' \/ Serving'
<1>1. CASE Drift
  BY <1>1, DriftKeepsNoWorkers
<1>2. CASE ~Drift
  <2>1. /\ Building("Deployment", c) /\ todo' = Tail(todo)
        /\ UNCHANGED <<cluster, pvc, volume, job, source, pc, instance, doomed,
                       JobView>>
        /\ dep' = [dep EXCEPT ![c[1]] = c[2]] /\ ready' \subseteq ready
        /\ DepView' = DepView \/ DepView' = dep'
    BY <1>2, DeploymentBuilt
  <2>2. Asked' = Asked /\ Asked \subseteq Profiles /\ ActiveSeen = 1
    BY <2>1, AskedAreProfiles, ActiveOfNone DEF Asked, NoWorkers
  <2>3. pc = "build" /\ doomed = NothingDoomed /\ instance.phase \in WorkerPhases
    BY <2>1, PhaseOfBuilder
  <2>4. PICK g \in {1, 2} : FirstWorkers(g)
    BY <2>3 DEF NoWorkers
  <2>5. c \in Asked \X {g} /\ WorkIsOf(Asked \X {g})'
    BY <2>1, <2>2, <2>4, FewerWork DEF FirstWorkers
  <2>6. PICK p \in Asked : c = <<p, g>>
    BY <2>5
  <2>7. g \in Gen /\ c[1] = p /\ c[2] = g
    BY <2>6 DEF Claim
  <2>8. /\ dep'[p] = g /\ \A q \in Asked : q # p => dep'[q] = 0
        /\ \A q \in Asked : DepView'[q] \in {0, dep'[q]}
    BY <2>1, <2>2, <2>7 DEF NoWorkers, TypeOK, ChildrenTypeOK
  <2>9. ActiveSeen' \in {1, g}
    <3>1. \A q \in Asked : DepView'[q] \in {DepView[q], g}
      BY <2>8 DEF NoWorkers
    <3> QED
      BY <2>1, <2>2, <2>7, <3>1, ViewAdvances
  <2>10. ~Moving(g)'
    BY <2>2, <2>8 DEF Moving
  <2>11. \A q \in Asked : q \notin ready'
    BY <2>1 DEF ReadyExists, NoWorkers
  <2>12. \A d : Kept(d)' /\ \A q \in Asked : q \notin doomed'.dep
    BY <2>1, <2>3, NothingDoomedIsEmpty DEF Kept
  <2>13. \A q \in Asked : dep'[q] = g \/ ToBuild("Deployment", <<q, g>>)'
    <3> TAKE q \in Asked
    <3>1. ToBuild("Deployment", <<q, g>>)
      BY <2>4 DEF FirstWorkers
    <3>2. ToBuild("Deployment", <<q, g>>)' \/ <<q, g>> = c
      BY <2>1, <3>1, BuilderRuns
    <3> QED
      BY <2>6, <2>8, <3>2
  <2>14. /\ cluster'.lastApplied = cluster'.spec.url
         /\ \A d \in Claim : Clean(d)'
         /\ \A d \in Claim : pvc'[d] # "Absent" => d[2] <= g
         /\ pvc'[<<p, g>>] # "Absent"
    BY <2>1, <2>4 DEF FirstWorkers, NoWorkers, Clean
  <2>15. ActiveSeen' # g =>
           /\ g = ActiveSeen' + 1 /\ instance'.phase = RedeployingWorkers
           /\ \A q \in Asked : HasMap(<<q, ActiveSeen>>)' /\ Kept(<<q, ActiveSeen>>)'
    <3> SUFFICES ASSUME ActiveSeen' # g
                 PROVE  /\ g = ActiveSeen' + 1 /\ instance'.phase = RedeployingWorkers
                        /\ \A q \in Asked : HasMap(<<q, ActiveSeen>>)'
                                            /\ Kept(<<q, ActiveSeen>>)'
      OBVIOUS
    <3>1. g = 2 /\ ActiveSeen' = 1
      BY <2>9
    <3>2. instance.phase = RedeployingWorkers /\ \A q \in Asked : HasMap(<<q, 1>>)
      BY <2>4, <3>1 DEF FirstWorkers
    <3> QED
      BY <2>1, <2>12, <3>1, <3>2 DEF HasMap
  <2>16. Recorded(g)'
    BY <2>1, <2>2, <2>3, <2>5, <2>7, <2>8, <2>10, <2>11, <2>12, <2>13, <2>14, <2>15
    DEF Recorded, Collecting
  <2> QED
    BY <2>7, <2>16 DEF Serving
<1> QED
  BY <1>1, <1>2
(* What the end of a reconciliation does: the annotation, then garbage     *)
(* collection.                                                             *)
LEMMA SpecRecorded ==
  ASSUME TypeOK, Orderly, SetLastAppliedSpecAnnotation
  PROVE  /\ pc = "build" /\ todo = << >> /\ pc' = "gcDeployments"
         /\ UNCHANGED <<pvc, volume, job, source, dep, ready, JobView, DepView,
                        instance, todo>>
         /\ cluster'.spec = cluster.spec /\ cluster'.phase = cluster.phase
         /\ cluster'.lastApplied = cluster.spec.url
         /\ instance.phase = cluster.phase
         /\ doomed'.pvc = {} /\ doomed'.job = {} /\ doomed'.dep \cap Asked = {}
<1>1. ~stale /\ instance.spec = cluster.spec /\ instance.phase = cluster.phase
  BY DEF Orderly, SetLastAppliedSpecAnnotation
<1>2. /\ cluster' = [cluster EXCEPT !.lastApplied = cluster.spec.url]
      /\ doomed' = [NothingDoomed EXCEPT !.dep =
           {p \in Profiles : DepView[p] # 0} \ Asked]
      /\ UNCHANGED <<instance, todo>> /\ pc' = "gcDeployments"
  BY <1>1 DEF SetLastAppliedSpecAnnotation, Conflict, Asked
<1>3. /\ cluster'.spec = cluster.spec /\ cluster'.phase = cluster.phase
      /\ cluster'.lastApplied = cluster.spec.url
  BY <1>2 DEF TypeOK, ObjectTypeOK
<1>4. doomed'.pvc = {} /\ doomed'.job = {} /\ doomed'.dep \cap Asked = {}
  BY <1>2 DEF NothingDoomed
<1> QED
  BY <1>1, <1>2, <1>3, <1>4, ChildrenStay DEF SetLastAppliedSpecAnnotation

(* What the deletion of a Deployment does.                                 *)
LEMMA DeploymentDeleted ==
  ASSUME TypeOK, NEW p \in Profiles, DeleteDeployment(p)
  PROVE  /\ Collecting /\ pc' = pc /\ p \in doomed.dep
         /\ UNCHANGED <<cluster, pvc, volume, job, source, JobView, instance, todo>>
         /\ dep' = [dep EXCEPT ![p] = 0] /\ ready' \subseteq ready
         /\ DepView' = DepView \/ DepView' = dep'
         /\ doomed'.pvc = doomed.pvc /\ doomed'.job = doomed.job
         /\ doomed'.dep \subseteq doomed.dep
<1>1. UNCHANGED JobView /\ (DepView' = DepView \/ DepView' = dep')
  BY DEF DeleteDeployment, JobView, DepView
<1> QED
  BY <1>1 DEF DeleteDeployment, Collecting, TypeOK, ReconcileTypeOK

(* What the deletion of a volume does.                                     *)
LEMMA VolumeDeleted ==
  ASSUME TypeOK, NEW c \in Claim, DeletePersistentVolumeClaim(c)
  PROVE  /\ Collecting /\ pc' = pc /\ ~Kept(c)
         /\ UNCHANGED <<cluster, job, source, dep, ready, JobView, DepView, instance,
                        todo>>
         /\ pvc' = [pvc EXCEPT ![c] = "Absent"]
         /\ volume' = [volume EXCEPT ![c] = NoUrl]
         /\ doomed'.dep = doomed.dep
         /\ \A d \in Claim : Kept(d) => Kept(d)'
<1>1. UNCHANGED <<JobView, DepView>>
  BY DEF DeletePersistentVolumeClaim, JobView, DepView
<1>2. /\ doomed'.dep = doomed.dep /\ doomed'.job = doomed.job
      /\ doomed'.pvc = doomed.pvc \ {c}
  BY DEF DeletePersistentVolumeClaim, TypeOK, ReconcileTypeOK
<1> QED
  BY <1>1, <1>2 DEF DeletePersistentVolumeClaim, Collecting, Kept

(* What the deletion of a Job does.                                        *)
LEMMA JobDeleted ==
  ASSUME TypeOK, NEW c \in Claim, DeleteJob(c)
  PROVE  /\ Collecting /\ pc' = pc /\ ~Kept(c)
         /\ UNCHANGED <<cluster, pvc, volume, dep, ready, DepView, instance, todo>>
         /\ job' = [job EXCEPT ![c] = "Absent"]
         /\ source' = [source EXCEPT ![c] = NoUrl]
         /\ \A d \in Claim : d # c => JobView'[d] = JobView[d]
         /\ doomed'.dep = doomed.dep
         /\ \A d \in Claim : Kept(d) => Kept(d)'
<1>1. UNCHANGED DepView /\ \A d \in Claim : d # c => JobView'[d] = JobView[d]
  BY DEF DeleteJob, JobView, DepView, TypeOK, ChildrenTypeOK
<1>2. /\ doomed'.dep = doomed.dep /\ doomed'.pvc = doomed.pvc
      /\ doomed'.job = doomed.job \ {c}
  BY DEF DeleteJob, TypeOK, ReconcileTypeOK
<1> QED
  BY <1>1, <1>2 DEF DeleteJob, Collecting, Kept

(* The list garbage collection works from spares the active generation     *)
(* and, in the phases of a switch, the newest.                             *)
LEMMA ClaimsListed ==
  ASSUME TypeOK, Patient, Orderly, ListClaims
  PROVE  /\ pc = "gcDeployments" /\ pc' = "gcClaims" /\ doomed'.dep = doomed.dep
         /\ UNCHANGED <<cluster, pvc, volume, job, source, dep, ready, JobView,
                        DepView, instance, todo>>
         /\ ActiveSeen' = ActiveSeen /\ \A p \in Asked : Kept(<<p, ActiveSeen>>)'
         /\ \E f \in Gen :
              /\ \A c \in Claim : pvc[c] # "Absent" => c[2] <= f
              /\ f = 1 \/ \E c \in Claim : pvc[c] # "Absent" /\ f = c[2]
              /\ instance.phase \in {UpdatingMap, RedeployingWorkers, DeployingWorkers}
                   => \A p \in Asked : Kept(<<p, f>>)'
<1>1. PvcView = pvc
  BY DEF Patient, PvcView
<1>2. instance.spec = cluster.spec
  BY DEF Orderly, ListClaims
<1>3. PICK a : a = ActiveSeen
  OBVIOUS
<1>4. PICK f : f = GetFutureMapGeneration(Existing(pvc))
  OBVIOUS
<1>5. PICK phase : phase = instance.phase
  OBVIOUS
<1>6. PICK expected : expected = Asked \X KeptGenerations(phase, a, f)
  OBVIOUS
<1>7. /\ doomed' = [doomed EXCEPT !.pvc = Existing(pvc) \ expected,
                                  !.job = UnexpectedJobs(expected)]
  BY <1>1, <1>2, <1>3, <1>4, <1>5, <1>6
  DEF ListClaims, ActiveSeen, ExpectedClaims, Asked
<1>8. /\ doomed'.dep = doomed.dep
      /\ doomed'.pvc \cap expected = {} /\ doomed'.job \cap expected = {}
  BY <1>7 DEF UnexpectedJobs, TypeOK, ReconcileTypeOK
<1>9. /\ a \in KeptGenerations(phase, a, f)
      /\ phase \in {UpdatingMap, RedeployingWorkers, DeployingWorkers}
           => f \in KeptGenerations(phase, a, f)
  BY DEF KeptGenerations
<1>10. \A p \in Asked : Kept(<<p, a>>)'
  BY <1>6, <1>8, <1>9 DEF Kept
<1>11. phase \in {UpdatingMap, RedeployingWorkers, DeployingWorkers}
         => \A p \in Asked : Kept(<<p, f>>)'
  BY <1>6, <1>8, <1>9 DEF Kept
<1>12. /\ f \in Gen /\ \A c \in Claim : pvc[c] # "Absent" => c[2] <= f
       /\ f = 1 \/ \E c \in Claim : pvc[c] # "Absent" /\ f = c[2]
  BY <1>4, FutureIsNewest DEF Existing
<1>13. /\ pc = "gcDeployments" /\ pc' = "gcClaims"
       /\ UNCHANGED <<cluster, instance, todo, children, seen>>
  BY DEF ListClaims
<1>14. UNCHANGED <<pvc, volume, job, source, dep, ready, JobView, DepView>>
  BY <1>13, ChildrenStay
<1>15. ActiveSeen' = a
  BY <1>3, <1>13, <1>14 DEF ActiveSeen
<1> QED
  BY <1>3, <1>5, <1>8, <1>10, <1>11, <1>12, <1>13, <1>14, <1>15

(* Neither the annotation nor garbage collection starts workers, and the   *)
(* first generation is not collected.                                      *)
LEMMA EndKeepsNoWorkers ==
  ASSUME TypeOK, Patient, Orderly, NoWorkers,
         SetLastAppliedSpecAnnotation \/ GarbageCollection
  PROVE  NoWorkers'
<1>0. Asked \subseteq Profiles /\ \A p \in Asked : <<p, 1>> \in Claim
  BY AskedAreProfiles, BoundsAssumption DEF Claim, Gen
<1>1. CASE SetLastAppliedSpecAnnotation
  <2>1. /\ pc' = "gcDeployments"
        /\ UNCHANGED <<pvc, volume, job, source, dep, JobView, DepView, todo>>
        /\ cluster'.spec = cluster.spec
        /\ doomed'.pvc = {} /\ doomed'.job = {}
    BY <1>1, SpecRecorded
  <2> QED
    BY <2>1 DEF NoWorkers, Asked, Clean, WorkIsOf, Kept
<1>2. ASSUME NEW p \in Profiles, DeleteDeployment(p) PROVE NoWorkers'
  <2>1. /\ Collecting /\ pc' = pc
        /\ UNCHANGED <<cluster, pvc, volume, job, source, JobView, todo>>
        /\ dep' = [dep EXCEPT ![p] = 0]
        /\ DepView' = DepView \/ DepView' = dep'
        /\ doomed'.pvc = doomed.pvc /\ doomed'.job = doomed.job
    BY <1>2, DeploymentDeleted
  <2>2. \A q \in Asked : dep'[q] = 0 /\ DepView'[q] = 0
    BY <1>0, <2>1 DEF NoWorkers, TypeOK, ChildrenTypeOK
  <2> QED
    BY <2>1, <2>2 DEF NoWorkers, Asked, Clean, WorkIsOf, Kept, Collecting
<1>3. CASE ListClaims
  <2>1. /\ pc' = "gcClaims"
        /\ UNCHANGED <<cluster, pvc, volume, job, source, dep, JobView, DepView, todo>>
        /\ ActiveSeen' = ActiveSeen /\ \A p \in Asked : Kept(<<p, ActiveSeen>>)'
    BY <1>3, ClaimsListed
  <2>2. ActiveSeen = 1
    BY ActiveOfNone DEF NoWorkers
  <2>3. \A p \in Asked : Kept(<<p, 1>>)'
    BY <2>1, <2>2
  <2> QED
    BY <2>1, <2>3 DEF NoWorkers, Asked, Clean, WorkIsOf
<1>4. ASSUME NEW c \in Claim, DeletePersistentVolumeClaim(c) PROVE NoWorkers'
  <2>1. /\ Collecting /\ pc' = pc
        /\ UNCHANGED <<cluster, job, source, dep, JobView, DepView, todo>>
        /\ pvc' = [pvc EXCEPT ![c] = "Absent"]
        /\ volume' = [volume EXCEPT ![c] = NoUrl]
        /\ \A d \in Claim : Kept(d) => Kept(d)'
    BY <1>4, VolumeDeleted
  <2>2. /\ \A d \in Claim : Clean(d)'
        /\ \A d \in Claim : pvc'[d] # "Absent" => pvc[d] # "Absent"
    BY <2>1 DEF NoWorkers, Clean, TypeOK, ChildrenTypeOK
  <2>3. \A p \in Asked : Kept(<<p, 1>>)'
    BY <1>0, <2>1 DEF NoWorkers
  <2> QED
    BY <2>1, <2>2, <2>3 DEF NoWorkers, Asked, WorkIsOf, Collecting
<1>5. ASSUME NEW c \in Claim, DeleteJob(c) PROVE NoWorkers'
  <2>1. /\ Collecting /\ pc' = pc /\ ~Kept(c)
        /\ UNCHANGED <<cluster, pvc, volume, dep, DepView, todo>>
        /\ job' = [job EXCEPT ![c] = "Absent"]
        /\ source' = [source EXCEPT ![c] = NoUrl]
        /\ \A d \in Claim : d # c => JobView'[d] = JobView[d]
        /\ \A d \in Claim : Kept(d) => Kept(d)'
    BY <1>5, JobDeleted
  <2>2. \A d \in Claim : Clean(d)'
    BY <2>1 DEF NoWorkers, Clean, TypeOK, ChildrenTypeOK
  <2>3. \A p \in Asked : Kept(<<p, 1>>)' /\ <<p, 1>> # c
    BY <1>0, <2>1 DEF NoWorkers
  <2>4. \A p \in Asked : JobView'[<<p, 1>>] = "Complete" => job'[<<p, 1>>] = "Complete"
    BY <1>0, <2>1, <2>3 DEF NoWorkers, TypeOK, ChildrenTypeOK
  <2> QED
    BY <2>1, <2>2, <2>3, <2>4 DEF NoWorkers, Asked, WorkIsOf, Collecting
<1> QED
  BY <1>1, <1>2, <1>3, <1>4, <1>5 DEF GarbageCollection

-----------------------------------------------------------------------------
(* While a new extract is built.                                           *)

(* When those of the profiles that have a Deployment mount one generation, *)
(* that is the active one.                                                 *)
LEMMA ActiveOfSome ==
  ASSUME NEW profiles \in Seq(Profiles), NEW d \in [Profiles -> 0 .. MaxGen],
         NEW g \in Gen, \A p \in ProfileSet(profiles) : d[p] \in {0, g},
         \E p \in ProfileSet(profiles) : d[p] = g
  PROVE  GetActiveMapGeneration(profiles, d) = g
<1> DEFINE S == {j \in DOMAIN profiles : d[profiles[j]] = g}
           first == CHOOSE i \in DOMAIN profiles : FirstDeployed(profiles, d, i)
<1>1. /\ g # 0 /\ S \subseteq Nat /\ S # {}
      /\ \A i \in DOMAIN profiles : d[profiles[i]] \in {0, g}
  BY DEF Gen, ProfileSet
<1>2. PICK m \in S : \A j \in S : m <= j
  BY <1>1, LeastNatural
<1>3. m \in DOMAIN profiles /\ FirstDeployed(profiles, d, m)
  BY <1>1, <1>2 DEF FirstDeployed
<1>4. first \in DOMAIN profiles /\ FirstDeployed(profiles, d, first)
  BY <1>3
<1>5. d[profiles[first]] = g
  BY <1>1, <1>4 DEF FirstDeployed
<1>6. GetActiveMapGeneration(profiles, d) = d[profiles[first]]
  BY <1>3 DEF GetActiveMapGeneration
<1> QED
  BY <1>5, <1>6

(* When all Deployments seen mount one generation that is the active one.  *)
LEMMA ActiveOfAll ==
  ASSUME TypeOK, NEW g \in Gen, Asked # {}, \A p \in Asked : DepView[p] = g
  PROVE  ActiveSeen = g
<1>1. cluster.spec.profiles \in Seq(Profiles)
  BY DEF TypeOK, ObjectTypeOK, ClusterSpec
<1>2. DepView \in [Profiles -> 0 .. MaxGen]
  BY DEF TypeOK, ChildrenTypeOK, DepView
<1>3. PICK profiles, d : profiles = cluster.spec.profiles /\ d = DepView
  OBVIOUS
<1>4. /\ \A p \in ProfileSet(profiles) : d[p] \in {0, g}
      /\ \E p \in ProfileSet(profiles) : d[p] = g
  BY <1>3 DEF Asked
<1>5. GetActiveMapGeneration(profiles, d) = g
  BY <1>1, <1>2, <1>3, <1>4, ActiveOfSome
<1> QED
  BY <1>3, <1>5 DEF ActiveSeen

(* With a map in service and a new extract asked for, the next map is      *)
(* planned, and nothing else.                                              *)
LEMMA PlanKeepsNewExtract ==
  ASSUME TypeOK, NEW g \in Gen, NewExtract(g), NEW a, NEW f, NEW h, NEW phase,
         Planned(a, f, h, phase)
  PROVE  NewExtract(g)'
<1> USE DEF Empty, BuildingMap, UpdatingMap, RedeployingWorkers, DeployingWorkers,
            WorkersDeployed, WorkersRedeployed, WorkerPhases
<1>1. Asked' = Asked /\ UNCHANGED <<pvc, volume, job, source, dep, JobView, DepView>>
  BY ChildrenStay DEF Planned, Asked
<1>2. a = g
  BY ActiveOfAll DEF NewExtract, Planned
<1>3. Usable(a)
  BY <1>2 DEF NewExtract, HasMap, Usable
<1>4. phase = UpdatingMap /\ h = g + 1 /\ h \in Gen
  BY <1>2, <1>3 DEF Planned, Chosen, NewExtract
<1>5. MapWork(g + 1)' /\ instance'.phase = UpdatingMap
  BY <1>4 DEF Planned
<1>6. /\ WorkIsOf(Asked \X {g + 1})'
      /\ \A p \in Asked : ToBuild("PersistentVolumeClaim", <<p, g + 1>>)'
  BY <1>1, <1>5 DEF MapWork
<1>7. pc' = "build" /\ cluster'.spec = cluster.spec
      /\ cluster'.lastApplied = cluster.lastApplied
  BY DEF Planned
<1> QED
  BY <1>1, <1>4, <1>5, <1>6, <1>7
  DEF NewExtract, HasMap, Clean, Filled, Collecting

(* The builders work on the next generation and leave the one in service   *)
(* alone.                                                                  *)
LEMMA BuildersKeepNewExtract ==
  ASSUME TypeOK, Patient, Orderly, NEW g \in Gen, NewExtract(g), NEW c \in Claim,
         BuildPersistentVolumeClaim(c) \/ BuildJob(c) \/ BuildDeployment(c)
  PROVE  NewExtract(g)'
<1>0. Asked \subseteq Profiles /\ \A p \in Asked : <<p, g>> \in Claim
  BY AskedAreProfiles DEF Claim
<1>1. CASE Drift
  BY <1>1, DriftKeepsNewExtract
<1>2. CASE ~Drift /\ BuildPersistentVolumeClaim(c)
  <2>1. /\ Building("PersistentVolumeClaim", c) /\ todo' = Tail(todo)
        /\ UNCHANGED <<cluster, volume, job, source, dep, pc, instance, JobView,
                       DepView>>
        /\ \/ pvc' = pvc /\ pvc[c] # "Absent"
           \/ pvc[c] = "Absent" /\ pvc' = [pvc EXCEPT ![c] = "Pending"]
    BY <1>2, VolumeBuilt
  <2>2. Asked' = Asked /\ pc = "build"
    BY <2>1 DEF Asked, Building
  <2>3. c \in Asked \X {g + 1} /\ WorkIsOf(Asked \X {g + 1})'
    BY <2>1, <2>2, FewerWork DEF NewExtract
  <2>4. /\ \A d \in Claim : pvc'[d] # "Absent" => c = d \/ pvc[d] # "Absent"
        /\ \A d \in Claim : pvc[d] = "Bound" => pvc'[d] = "Bound"
        /\ \A d \in Claim : pvc[d] # "Absent" => pvc'[d] # "Absent"
        /\ pvc'[c] # "Absent"
    BY <2>1 DEF TypeOK, ChildrenTypeOK
  <2>5. c[2] = g + 1
    BY <2>3
  <2>6. g + 1 \in Gen /\ instance'.phase = UpdatingMap
    BY <2>1, <2>2 DEF NewExtract
  <2>7. ASSUME NEW p \in Asked
        PROVE  \/ pvc'[<<p, g + 1>>] # "Absent"
               \/ ToBuild("PersistentVolumeClaim", <<p, g + 1>>)'
    <3>1. <<p, g + 1>> \in Claim
      BY <1>0, <2>6 DEF Claim
    <3>2. \/ pvc[<<p, g + 1>>] # "Absent"
          \/ ToBuild("PersistentVolumeClaim", <<p, g + 1>>)
      BY <2>2 DEF NewExtract
    <3>3. ToBuild("PersistentVolumeClaim", <<p, g + 1>>)
            => ToBuild("PersistentVolumeClaim", <<p, g + 1>>)' \/ <<p, g + 1>> = c
      BY <2>1, BuilderRuns
    <3> QED
      BY <2>4, <3>1, <3>2, <3>3
  <2>8. \A p \in Asked : HasMap(<<p, g>>)'
    BY <1>0, <2>1, <2>4 DEF NewExtract, HasMap
  <2>9. \A d \in Claim : pvc'[d] # "Absent" => d[2] <= g + 1
    BY <2>4, <2>5 DEF NewExtract, Gen
  <2> QED
    BY <2>1, <2>2, <2>3, <2>6, <2>7, <2>8, <2>9
    DEF NewExtract, Clean, Filled, Collecting
<1>3. CASE ~Drift /\ BuildJob(c)
  <2>1. /\ Building("Job", c) /\ todo' = Tail(todo)
        /\ UNCHANGED <<cluster, pvc, volume, dep, pc, instance, DepView>>
        /\ \/ UNCHANGED <<job, source, JobView>>
           \/ /\ job' = [job EXCEPT ![c] = "Active"]
              /\ source' = [source EXCEPT ![c] = cluster.spec.url]
              /\ JobView'[c] \in {"Absent", "Active"}
              /\ \A d \in Claim : d # c => JobView'[d] = JobView[d]
    BY <1>3, JobBuilt
  <2>2. Asked' = Asked /\ pc = "build"
    BY <2>1 DEF Asked, Building
  <2>3. c \in Asked \X {g + 1} /\ WorkIsOf(Asked \X {g + 1})'
    BY <2>1, <2>2, FewerWork DEF NewExtract
  <2>4. c[2] = g + 1 /\ g \in Nat
    BY <2>3 DEF Gen
  <2>5. \A d \in Claim : d[2] = g + 1 => Clean(d)' /\ Filled(d)'
    BY <2>1 DEF NewExtract, Clean, Filled, TypeOK, ChildrenTypeOK
  <2>6. ASSUME NEW p \in Asked PROVE HasMap(<<p, g>>)'
    <3>1. HasMap(<<p, g>>) /\ <<p, g>> \in Claim
      BY <1>0 DEF NewExtract
    <3>2. <<p, g>> # c
      BY <2>4
    <3> QED
      BY <2>1, <3>1, <3>2 DEF HasMap, TypeOK, ChildrenTypeOK
  <2>7. ASSUME NEW p \in Asked
        PROVE  \/ pvc'[<<p, g + 1>>] # "Absent"
               \/ ToBuild("PersistentVolumeClaim", <<p, g + 1>>)'
    <3>1. \/ pvc[<<p, g + 1>>] # "Absent"
          \/ ToBuild("PersistentVolumeClaim", <<p, g + 1>>)
      BY <2>2 DEF NewExtract
    <3>2. ToBuild("PersistentVolumeClaim", <<p, g + 1>>)
            => ToBuild("PersistentVolumeClaim", <<p, g + 1>>)'
      BY <2>1, BuilderRuns
    <3> QED
      BY <2>1, <3>1, <3>2
  <2> QED
    BY <2>1, <2>2, <2>3, <2>5, <2>6, <2>7 DEF NewExtract, Collecting
<1>4. CASE ~Drift /\ BuildDeployment(c)
  <2>1. Building("Deployment", c) /\ todo' = Tail(todo)
    BY <1>4, DeploymentBuilt
  <2>2. instance.phase \in WorkerPhases /\ pc = "build"
    BY <2>1, PhaseOfBuilder
  <2> QED
    BY <2>2
    DEF NewExtract, WorkerPhases, UpdatingMap, RedeployingWorkers, DeployingWorkers,
        WorkersDeployed, WorkersRedeployed
<1> QED
  BY <1>1, <1>2, <1>3, <1>4

(* The new extract is recorded when its volumes and Jobs exist.            *)
LEMMA NewExtractIsRecorded ==
  ASSUME TypeOK, Orderly, NEW g \in Gen, NewExtract(g), SetLastAppliedSpecAnnotation
  PROVE  g + 1 \in Gen /\ Recorded(g + 1)'
<1>0. Asked \subseteq Profiles /\ g \in Nat /\ g # 0 /\ g + 1 # g
  BY AskedAreProfiles DEF Gen
<1>1. /\ pc = "build" /\ todo = << >> /\ pc' = "gcDeployments"
      /\ UNCHANGED <<pvc, volume, job, source, dep, ready, JobView, DepView,
                     instance, todo>>
      /\ cluster'.spec = cluster.spec /\ cluster'.phase = cluster.phase
      /\ cluster'.lastApplied = cluster.spec.url
      /\ instance.phase = cluster.phase
      /\ doomed'.pvc = {} /\ doomed'.job = {} /\ doomed'.dep \cap Asked = {}
  BY SpecRecorded
<1>2. Asked' = Asked /\ \A d : Kept(d)'
  BY <1>1 DEF Asked, Kept
<1>3. /\ instance.phase = UpdatingMap /\ g + 1 \in Gen
      /\ \A p \in Asked : pvc[<<p, g + 1>>] # "Absent"
  BY <1>1 DEF NewExtract, ToBuild
<1>4. ActiveSeen' = g
  <2>1. ActiveSeen = g
    BY ActiveOfAll DEF NewExtract
  <2> QED
    BY <1>1, <2>1 DEF ActiveSeen
<1>5. PICK p \in Asked : dep[p] = g
  BY DEF NewExtract
<1>6. /\ \A q \in Asked : dep[q] = g /\ DepView[q] = g /\ HasMap(<<q, g>>)'
      /\ \A q \in Asked : <<q, g + 1>> \in Claim /\ <<q, g + 1>>[2] = g + 1
      /\ \A d \in Claim : d[2] = g + 1 => Clean(d)' /\ Filled(d)'
      /\ \A d \in Claim : pvc'[d] # "Absent" => d[2] <= g + 1
  BY <1>0, <1>1, <1>3 DEF NewExtract, HasMap, Clean, Filled, Claim
<1>7. WorkIsOf(Asked \X {g + 1})'
  BY <1>1 DEF WorkIsOf
<1>8. cluster'.phase \notin WorkerPhases
  BY <1>1, <1>3
  DEF WorkerPhases, UpdatingMap, RedeployingWorkers, DeployingWorkers,
      WorkersDeployed, WorkersRedeployed
<1>9. \A q \in Asked : Filled(<<q, g + 1>>)'
  BY <1>6
<1> QED
  BY <1>0, <1>1, <1>2, <1>3, <1>4, <1>5, <1>6, <1>7, <1>8, <1>9 DEF Recorded
-----------------------------------------------------------------------------
(* While the recorded extract is built and brought into service.           *)

(* A recorded generation is one of claims that exist.                      *)
LEMMA RecordedClaims ==
  ASSUME TypeOK, NEW g \in Gen, Recorded(g)
  PROVE  /\ Asked \subseteq Profiles /\ Asked # {} /\ ActiveSeen \in Gen
         /\ \A p \in Asked : <<p, g>> \in Claim /\ <<p, ActiveSeen>> \in Claim
         /\ \E c \in Claim : pvc[c] # "Absent" /\ c[2] = g
<1>1. Asked \subseteq Profiles /\ Asked # {} /\ ActiveSeen \in Gen
  BY AskedAreProfiles, ActiveSeenIsGeneration DEF Recorded
<1>2. \A p \in Asked : <<p, g>> \in Claim /\ <<p, ActiveSeen>> \in Claim
  BY <1>1 DEF Claim
<1>3. PICK p \in Asked : pvc[<<p, g>>] # "Absent"
  BY DEF Recorded
<1>4. <<p, g>>[2] = g
  OBVIOUS
<1> QED
  BY <1>1, <1>2, <1>3, <1>4

(* The newest generation is the recorded one.                              *)
LEMMA NewestIsRecorded ==
  ASSUME TypeOK, NEW g \in Gen, Recorded(g), NEW f \in Gen,
         \A c \in Claim : pvc[c] # "Absent" => c[2] <= f,
         f = 1 \/ \E c \in Claim : pvc[c] # "Absent" /\ f = c[2]
  PROVE  f = g
<1>1. PICK c \in Claim : pvc[c] # "Absent" /\ c[2] = g
  BY RecordedClaims
<1>2. g <= f
  BY <1>1
<1>3. f <= g
  BY DEF Recorded, Gen
<1> QED
  BY <1>2, <1>3 DEF Gen

(* Whatever the phase, its builders work on the recorded generation.       *)
LEMMA PlanKeepsRecorded ==
  ASSUME TypeOK, NEW g \in Gen, Recorded(g), NEW a, NEW f, NEW h, NEW phase,
         Planned(a, f, h, phase)
  PROVE  Recorded(g)'
<1> USE DEF Empty, BuildingMap, UpdatingMap, RedeployingWorkers, DeployingWorkers,
            WorkersDeployed, WorkersRedeployed, WorkerPhases
<1>1. /\ Asked' = Asked
      /\ UNCHANGED <<pvc, volume, job, source, dep, ready, JobView, DepView>>
  BY ChildrenStay DEF Planned, Asked
<1>2. /\ pc' = "build" /\ instance'.phase = phase /\ UNCHANGED doomed
      /\ cluster'.spec = cluster.spec /\ cluster'.lastApplied = cluster.lastApplied
      /\ a = ActiveSeen /\ Chosen(a, f, h, phase)
  BY DEF Planned
<1>3. f = g
  BY NewestIsRecorded DEF Planned
<1>4. a # g => g = a + 1 /\ Usable(a)
  BY <1>2 DEF Recorded, HasMap, Usable
<1>5. Asked # {} /\ cluster.lastApplied = cluster.spec.url
  BY RecordedClaims DEF Recorded
<1>6. h = g /\ (a = g \/ phase \in {UpdatingMap, RedeployingWorkers, DeployingWorkers})
  BY <1>2, <1>3, <1>4, <1>5 DEF Chosen
<1>7. WorkIsOf(Asked \X {g})'
  <2>1. CASE phase \in {BuildingMap, UpdatingMap}
    BY <1>1, <1>6, <2>1 DEF Planned, MapWork
  <2>2. CASE phase \in WorkerPhases
    BY <1>1, <1>6, <2>2 DEF Planned, WorkerWork
  <2> QED
    BY <1>2, <1>5, <2>1, <2>2 DEF Chosen
<1>8. ASSUME phase \in WorkerPhases
      PROVE  \A p \in Asked : /\ ToBuild("Deployment", <<p, g>>)'
                              /\ JobView'[<<p, g>>] = "Complete"
  <2>1. WorkerWork(h)' /\ Usable(f)
    BY <1>2, <1>8 DEF Planned, Chosen
  <2> QED
    BY <1>1, <1>3, <1>6, <2>1 DEF WorkerWork, Usable
<1>9. ActiveSeen' = ActiveSeen
  BY <1>1, <1>2 DEF ActiveSeen
<1>10. /\ \A c : Clean(c) => Clean(c)'
       /\ \A c : HasMap(c) => HasMap(c)'
       /\ \A c : Kept(c) => Kept(c)'
       /\ \A c : Filled(c) => Filled(c)'
       /\ Moving(g)' => Moving(g)
  BY <1>1, <1>2 DEF Clean, HasMap, Kept, Filled, Moving
<1>11. /\ pc' = "build" /\ instance'.phase \in WorkerPhases =>
            /\ \A p \in Asked : dep'[p] = g \/ ToBuild("Deployment", <<p, g>>)'
            /\ Moving(g)' => \A p \in Asked : JobView'[<<p, g>>] = "Complete"
       /\ pc' = "build" \/ Collecting' =>
            \/ ActiveSeen' = g
            \/ instance'.phase \in {UpdatingMap, RedeployingWorkers, DeployingWorkers}
       /\ ~(Collecting' \/ (pc' = "idle" /\ ~queued'))
  BY <1>2, <1>6, <1>8, <1>9 DEF Collecting
<1>12. ActiveSeen' # g =>
         /\ g = ActiveSeen' + 1
         /\ \A p \in Asked : HasMap(<<p, ActiveSeen>>)' /\ Kept(<<p, ActiveSeen>>)'
  BY <1>9, <1>10 DEF Recorded
<1> HIDE DEF Empty, BuildingMap, UpdatingMap, RedeployingWorkers, DeployingWorkers,
             WorkersDeployed, WorkersRedeployed, WorkerPhases
<1> QED
  BY <1>1, <1>2, <1>7, <1>9, <1>10, <1>11, <1>12 DEF Recorded

(* The builder of a volume keeps the recorded generation.                  *)
LEMMA VolumeBuilderKeepsRecorded ==
  ASSUME TypeOK, Patient, Orderly, NEW g \in Gen, Recorded(g), NEW c \in Claim,
         BuildPersistentVolumeClaim(c), ~Drift
  PROVE  Recorded(g)'
<1>1. /\ Building("PersistentVolumeClaim", c) /\ todo' = Tail(todo)
      /\ UNCHANGED <<cluster, volume, job, source, dep, ready, pc, instance, doomed,
                     JobView, DepView>>
      /\ \/ pvc' = pvc /\ pvc[c] # "Absent"
         \/ pvc[c] = "Absent" /\ pvc' = [pvc EXCEPT ![c] = "Pending"]
  BY VolumeBuilt
<1>2. Asked' = Asked /\ ActiveSeen' = ActiveSeen
  BY <1>1 DEF Asked, ActiveSeen
<1>3. c \in Asked \X {g} /\ WorkIsOf(Asked \X {g})'
  BY <1>1, <1>2, FewerWork DEF Recorded
<1>4. pc = "build" /\ instance.phase \notin WorkerPhases
  BY <1>1, PhaseOfBuilder
<1>5. /\ \A d \in Claim : pvc'[d] # "Absent" => c = d \/ pvc[d] # "Absent"
      /\ \A d \in Claim : pvc[d] = "Bound" => pvc'[d] = "Bound"
      /\ \A d \in Claim : pvc[d] # "Absent" => pvc'[d] # "Absent"
  BY <1>1 DEF TypeOK, ChildrenTypeOK
<1>6. \A d \in Claim : pvc'[d] # "Absent" => d[2] <= g
  <2>1. c[2] = g
    BY <1>3
  <2> QED
    BY <1>5, <2>1 DEF Recorded, Gen
<1>7. \A d \in Claim : HasMap(d) => HasMap(d)'
  BY <1>1, <1>5 DEF HasMap
<1>8. ActiveSeen' # g =>
        /\ g = ActiveSeen' + 1
        /\ \A p \in Asked : HasMap(<<p, ActiveSeen>>)' /\ Kept(<<p, ActiveSeen>>)'
  BY <1>1, <1>2, <1>7, RecordedClaims DEF Recorded, Kept
<1>9. /\ \A d : Clean(d) => Clean(d)'
      /\ \A d : Kept(d) => Kept(d)'
      /\ \A d : Filled(d) => Filled(d)'
      /\ Moving(g)' => Moving(g)
  BY <1>1, <1>2 DEF Clean, Kept, Filled, Moving
<1>10. \E p \in Asked : pvc'[<<p, g>>] # "Absent"
  BY <1>5, RecordedClaims DEF Recorded
<1> QED
  BY <1>1, <1>2, <1>3, <1>4, <1>6, <1>8, <1>9, <1>10 DEF Recorded, Collecting

(* The builder of a Job keeps the recorded generation, and builds the      *)
(* extract asked for.                                                      *)
LEMMA JobBuilderKeepsRecorded ==
  ASSUME TypeOK, Orderly, NEW g \in Gen, Recorded(g), NEW c \in Claim, BuildJob(c),
         ~Drift
  PROVE  Recorded(g)'
<1>1. /\ Building("Job", c) /\ todo' = Tail(todo)
      /\ UNCHANGED <<cluster, pvc, volume, dep, ready, pc, instance, doomed, DepView>>
      /\ \/ UNCHANGED <<job, source, JobView>>
         \/ /\ job' = [job EXCEPT ![c] = "Active"]
            /\ source' = [source EXCEPT ![c] = cluster.spec.url]
            /\ JobView'[c] \in {"Absent", "Active"}
            /\ \A d \in Claim : d # c => JobView'[d] = JobView[d]
  BY JobBuilt
<1>2. Asked' = Asked /\ ActiveSeen' = ActiveSeen
  BY <1>1 DEF Asked, ActiveSeen
<1>3. c \in Asked \X {g} /\ WorkIsOf(Asked \X {g})'
  BY <1>1, <1>2, FewerWork DEF Recorded
<1>4. pc = "build" /\ instance.phase \notin WorkerPhases
  BY <1>1, PhaseOfBuilder
<1>5. \A d \in Claim : d # c => job'[d] = job[d] /\ JobView'[d] = JobView[d]
  BY <1>1 DEF TypeOK, ChildrenTypeOK
<1>6. \A d \in Claim : (Clean(d) => Clean(d)') /\ (Filled(d) => Filled(d)')
  BY <1>1 DEF Clean, Filled, TypeOK, ChildrenTypeOK
<1>7. ActiveSeen' # g =>
        /\ g = ActiveSeen' + 1
        /\ \A p \in Asked : HasMap(<<p, ActiveSeen>>)' /\ Kept(<<p, ActiveSeen>>)'
  <2> SUFFICES ASSUME ActiveSeen' # g, NEW p \in Asked
               PROVE  /\ g = ActiveSeen' + 1
                      /\ HasMap(<<p, ActiveSeen>>)' /\ Kept(<<p, ActiveSeen>>)'
    BY RecordedClaims
  <2>1. PICK a : a = ActiveSeen
    OBVIOUS
  <2>2. g = a + 1 /\ HasMap(<<p, a>>) /\ Kept(<<p, a>>) /\ <<p, a>> \in Claim
    BY <1>2, <2>1, RecordedClaims DEF Recorded
  <2>3. <<p, a>> # c
    BY <1>2, <1>3, <2>1
  <2>4. HasMap(<<p, a>>)' /\ Kept(<<p, a>>)'
    BY <1>1, <1>5, <2>2, <2>3 DEF HasMap, Kept
  <2> QED
    BY <1>2, <2>1, <2>2, <2>4
<1>8. (\A d : Kept(d) => Kept(d)') /\ (Moving(g)' => Moving(g))
  BY <1>1, <1>2 DEF Kept, Moving
<1>9. /\ \A d \in Claim : d[2] = g => Clean(d)'
      /\ Moving(g)' => \A p \in Asked : Filled(<<p, g>>)'
  BY <1>6, <1>8, RecordedClaims DEF Recorded
<1> QED
  BY <1>1, <1>2, <1>3, <1>4, <1>7, <1>8, <1>9 DEF Recorded, Collecting

(* A Deployment that moves while its old pods still report ready moves to  *)
(* a volume that has been filled.                                          *)
LEMMA DeploymentBuilderKeepsRecorded ==
  ASSUME TypeOK, TypeOK', ReadyExists, Orderly, NEW g \in Gen, Recorded(g),
         NEW c \in Claim, BuildDeployment(c), ~Drift
  PROVE  Recorded(g)'
<1>1. /\ Building("Deployment", c) /\ todo' = Tail(todo)
      /\ UNCHANGED <<cluster, pvc, volume, job, source, pc, instance, doomed, JobView>>
      /\ dep' = [dep EXCEPT ![c[1]] = c[2]] /\ ready' \subseteq ready
      /\ DepView' = DepView \/ DepView' = dep'
  BY DeploymentBuilt
<1>2. Asked' = Asked /\ Asked \subseteq Profiles
  BY <1>1, RecordedClaims DEF Asked
<1>3. c \in Asked \X {g} /\ WorkIsOf(Asked \X {g})'
  BY <1>1, <1>2, FewerWork DEF Recorded
<1>4. PICK p \in Asked : c = <<p, g>>
  BY <1>3
<1>5. pc = "build" /\ doomed = NothingDoomed /\ instance.phase \in WorkerPhases
  BY <1>1, PhaseOfBuilder
<1>6. dep'[p] = g /\ \A q \in Asked : q # p => dep'[q] = dep[q]
  <2>1. c[1] = p /\ c[2] = g
    BY <1>4
  <2> QED
    BY <1>1, <1>2, <2>1 DEF TypeOK, ChildrenTypeOK
<1>7. \A q \in Asked : dep'[q] \in {DepView'[q], g} /\ DepView'[q] \in {DepView[q], g}
  BY <1>1, <1>6 DEF Recorded
<1>8. ActiveSeen' \in {ActiveSeen, g}
  BY <1>1, <1>7, ViewAdvances
<1>9. Moving(g)' => Moving(g)
  BY <1>2, <1>6 DEF Moving
<1>10. /\ \A d : Clean(d) => Clean(d)'
       /\ \A d : HasMap(d) => HasMap(d)'
       /\ \A d : Kept(d) => Kept(d)'
       /\ \A d : Filled(d) => Filled(d)'
  BY <1>1 DEF Clean, HasMap, Kept, Filled
<1>11. \A q \in Asked : dep'[q] = g \/ ToBuild("Deployment", <<q, g>>)'
  <2> TAKE q \in Asked
  <2>1. dep[q] = g \/ ToBuild("Deployment", <<q, g>>)
    BY <1>5 DEF Recorded
  <2>2. ToBuild("Deployment", <<q, g>>)
          => ToBuild("Deployment", <<q, g>>)' \/ <<q, g>> = c
    BY <1>1, BuilderRuns
  <2> QED
    BY <1>4, <1>6, <2>1, <2>2
<1>12. Moving(g) => \A q \in Asked : Filled(<<q, g>>) /\ JobView[<<q, g>>] = "Complete"
  BY <1>5 DEF Recorded
<1>13. ASSUME NEW q \in Asked, q \in ready', dep'[q] = g PROVE volume'[<<q, g>>] # NoUrl
  <2>1. q \in ready /\ dep[q] # 0
    BY <1>1, <1>13 DEF ReadyExists
  <2>2. CASE dep[q] = g
    BY <1>1, <2>1, <2>2 DEF Recorded
  <2>3. CASE dep[q] # g
    <3>1. Moving(g)
      BY <2>1, <2>3 DEF Moving
    <3> QED
      BY <1>1, <1>12, <3>1 DEF Filled
  <2> QED
    BY <2>2, <2>3
<1>14. ActiveSeen' # g =>
         /\ g = ActiveSeen' + 1
         /\ \A q \in Asked : HasMap(<<q, ActiveSeen>>)' /\ Kept(<<q, ActiveSeen>>)'
  <2> SUFFICES ASSUME ActiveSeen' # g
               PROVE  /\ g = ActiveSeen' + 1
                      /\ \A q \in Asked : HasMap(<<q, ActiveSeen>>)'
                                          /\ Kept(<<q, ActiveSeen>>)'
    OBVIOUS
  <2>1. ActiveSeen' = ActiveSeen
    BY <1>8
  <2> QED
    BY <1>10, <2>1 DEF Recorded
<1>15. \/ ActiveSeen' = g
       \/ instance'.phase \in {UpdatingMap, RedeployingWorkers, DeployingWorkers}
  BY <1>1, <1>5, <1>8 DEF Recorded
<1>16. (\E q \in Asked : dep'[q] # 0) /\ \A q \in Asked : q \notin doomed'.dep
  BY <1>1, <1>5, <1>6, NothingDoomedIsEmpty DEF Gen
<1> QED
  BY <1>1, <1>2, <1>3, <1>5, <1>7, <1>9, <1>10, <1>11, <1>12, <1>13, <1>14, <1>15,
     <1>16
  DEF Recorded, Collecting

(* The annotation is written when all Deployments have been.               *)
LEMMA SpecRecordedKeepsRecorded ==
  ASSUME TypeOK, Orderly, NEW g \in Gen, Recorded(g), SetLastAppliedSpecAnnotation
  PROVE  Recorded(g)'
<1>1. /\ pc = "build" /\ todo = << >> /\ pc' = "gcDeployments"
      /\ UNCHANGED <<pvc, volume, job, source, dep, ready, JobView, DepView,
                     instance, todo>>
      /\ cluster'.spec = cluster.spec /\ cluster'.phase = cluster.phase
      /\ cluster'.lastApplied = cluster.spec.url
      /\ instance.phase = cluster.phase
      /\ doomed'.pvc = {} /\ doomed'.job = {} /\ doomed'.dep \cap Asked = {}
  BY SpecRecorded
<1>2. Asked' = Asked /\ ActiveSeen' = ActiveSeen /\ \A d : Kept(d)'
  BY <1>1 DEF Asked, ActiveSeen, Kept
<1>3. /\ \A d : Clean(d) => Clean(d)'
      /\ \A d : HasMap(d) => HasMap(d)'
      /\ \A d : Filled(d) => Filled(d)'
      /\ Moving(g)' => Moving(g)
  BY <1>1, <1>2 DEF Clean, HasMap, Filled, Moving
<1>4. cluster'.phase \in WorkerPhases => \A p \in Asked : dep'[p] = g
  BY <1>1 DEF Recorded, ToBuild
<1>5. \/ ActiveSeen' = g
      \/ instance'.phase \in {UpdatingMap, RedeployingWorkers, DeployingWorkers}
  BY <1>1, <1>2 DEF Recorded
<1>6. WorkIsOf(Asked \X {g})'
  BY <1>1, <1>2 DEF WorkIsOf
<1> QED
  BY <1>1, <1>2, <1>3, <1>4, <1>5, <1>6 DEF Recorded

(* Garbage collection spares the recorded generation and the active one.   *)
LEMMA CollectionKeepsRecorded ==
  ASSUME TypeOK, TypeOK', Patient, Orderly, NEW g \in Gen, Recorded(g),
         GarbageCollection
  PROVE  Recorded(g)'
<1>0. /\ Asked \subseteq Profiles
      /\ \A p \in Asked : <<p, g>> \in Claim /\ <<p, ActiveSeen>> \in Claim
  BY RecordedClaims
<1>1. ASSUME NEW r \in Profiles, DeleteDeployment(r) PROVE Recorded(g)'
  <2>1. /\ Collecting /\ pc' = pc /\ r \in doomed.dep
        /\ UNCHANGED <<cluster, pvc, volume, job, source, JobView, instance, todo>>
        /\ dep' = [dep EXCEPT ![r] = 0] /\ ready' \subseteq ready
        /\ DepView' = DepView \/ DepView' = dep'
        /\ doomed'.pvc = doomed.pvc /\ doomed'.job = doomed.job
        /\ doomed'.dep \subseteq doomed.dep
    BY <1>1, DeploymentDeleted
  <2>2. Asked' = Asked /\ \A p \in Asked : dep'[p] = dep[p]
    BY <1>0, <2>1 DEF Asked, Recorded, TypeOK, ChildrenTypeOK
  <2>3. \A p \in Asked : dep'[p] \in {DepView'[p], g} /\ DepView'[p] \in {DepView[p], g}
    BY <2>1, <2>2 DEF Recorded
  <2>4. ActiveSeen' \in {ActiveSeen, g}
    BY <2>1, <2>3, ViewAdvances
  <2>5. /\ \A d : Clean(d) => Clean(d)'
        /\ \A d : HasMap(d) => HasMap(d)'
        /\ \A d : Kept(d) => Kept(d)'
        /\ \A d : Filled(d) => Filled(d)'
        /\ Moving(g)' <=> Moving(g)
        /\ WorkIsOf(Asked \X {g})'
    BY <2>1, <2>2 DEF Clean, HasMap, Kept, Filled, Moving, WorkIsOf, Recorded
  <2>6. ActiveSeen' # g =>
          /\ g = ActiveSeen' + 1
          /\ \A p \in Asked : HasMap(<<p, ActiveSeen>>)' /\ Kept(<<p, ActiveSeen>>)'
    <3> SUFFICES ASSUME ActiveSeen' # g
                 PROVE  /\ g = ActiveSeen' + 1
                        /\ \A p \in Asked : HasMap(<<p, ActiveSeen>>)'
                                            /\ Kept(<<p, ActiveSeen>>)'
      OBVIOUS
    <3>1. ActiveSeen' = ActiveSeen
      BY <2>4
    <3> QED
      BY <2>5, <3>1 DEF Recorded
  <2>7. \/ ActiveSeen' = g
        \/ instance'.phase \in {UpdatingMap, RedeployingWorkers, DeployingWorkers}
    BY <2>1, <2>4 DEF Recorded
  <2>8. cluster'.phase \in WorkerPhases => \A p \in Asked : dep'[p] = g
    BY <2>1, <2>2 DEF Recorded
  <2>9. pc' # "build"
    BY <2>1 DEF Collecting
  <2> QED
    BY <2>1, <2>2, <2>3, <2>5, <2>6, <2>7, <2>8, <2>9 DEF Recorded
<1>2. CASE ListClaims
  <2>1. /\ pc = "gcDeployments" /\ pc' = "gcClaims" /\ doomed'.dep = doomed.dep
        /\ UNCHANGED <<cluster, pvc, volume, job, source, dep, ready, JobView,
                       DepView, instance, todo>>
        /\ ActiveSeen' = ActiveSeen /\ \A p \in Asked : Kept(<<p, ActiveSeen>>)'
    BY <1>2, ClaimsListed
  <2>2. PICK f \in Gen :
          /\ \A c \in Claim : pvc[c] # "Absent" => c[2] <= f
          /\ f = 1 \/ \E c \in Claim : pvc[c] # "Absent" /\ f = c[2]
          /\ instance.phase \in {UpdatingMap, RedeployingWorkers, DeployingWorkers}
               => \A p \in Asked : Kept(<<p, f>>)'
    BY <1>2, ClaimsListed
  <2>3. f = g
    BY <2>2, NewestIsRecorded
  <2>4. \/ ActiveSeen = g
        \/ instance.phase \in {UpdatingMap, RedeployingWorkers, DeployingWorkers}
    BY <2>1 DEF Recorded, Collecting
  <2>5. \A p \in Asked : Kept(<<p, g>>)'
    BY <2>1, <2>2, <2>3, <2>4
  <2>6. Asked' = Asked /\ WorkIsOf(Asked \X {g})'
    BY <2>1 DEF Asked, Recorded, WorkIsOf
  <2>7. /\ \A d : Clean(d) => Clean(d)'
        /\ \A d : HasMap(d) => HasMap(d)'
        /\ \A d : Filled(d) => Filled(d)'
        /\ Moving(g)' <=> Moving(g)
    BY <2>1, <2>6 DEF Clean, HasMap, Filled, Moving
  <2>8. Collecting
    BY <2>1 DEF Collecting
  <2> QED
    BY <2>1, <2>4, <2>5, <2>6, <2>7, <2>8 DEF Recorded
<1>3. ASSUME NEW c \in Claim, DeletePersistentVolumeClaim(c) PROVE Recorded(g)'
  <2>1. /\ Collecting /\ pc' = pc /\ ~Kept(c)
        /\ UNCHANGED <<cluster, job, source, dep, ready, JobView, DepView, instance,
                       todo>>
        /\ pvc' = [pvc EXCEPT ![c] = "Absent"]
        /\ volume' = [volume EXCEPT ![c] = NoUrl]
        /\ doomed'.dep = doomed.dep
        /\ \A d \in Claim : Kept(d) => Kept(d)'
    BY <1>3, VolumeDeleted
  <2>2. Asked' = Asked /\ ActiveSeen' = ActiveSeen /\ WorkIsOf(Asked \X {g})'
    BY <2>1 DEF Asked, ActiveSeen, Recorded, WorkIsOf
  <2>3. \A p \in Asked : <<p, g>> # c /\ Kept(<<p, g>>)'
    BY <1>0, <2>1 DEF Recorded
  <2>4. \A d \in Claim : d # c => pvc'[d] = pvc[d] /\ volume'[d] = volume[d]
    BY <2>1 DEF TypeOK, ChildrenTypeOK
  <2>5. \A p \in Asked : /\ pvc'[<<p, g>>] = pvc[<<p, g>>]
                         /\ volume'[<<p, g>>] = volume[<<p, g>>]
    BY <1>0, <2>3, <2>4
  <2>6. /\ \A d \in Claim : Clean(d) => Clean(d)'
        /\ \A d \in Claim : pvc'[d] # "Absent" => pvc[d] # "Absent"
        /\ Moving(g)' => Moving(g)
    BY <2>1, <2>2 DEF Clean, Moving, TypeOK, ChildrenTypeOK
  <2>7. \A p \in Asked : Filled(<<p, g>>) => Filled(<<p, g>>)'
    BY <2>1, <2>5 DEF Filled
  <2>8. ActiveSeen' # g =>
          /\ g = ActiveSeen' + 1
          /\ \A p \in Asked : HasMap(<<p, ActiveSeen>>)' /\ Kept(<<p, ActiveSeen>>)'
    <3> SUFFICES ASSUME ActiveSeen' # g, NEW p \in Asked
                 PROVE  /\ g = ActiveSeen' + 1
                        /\ HasMap(<<p, ActiveSeen>>)' /\ Kept(<<p, ActiveSeen>>)'
      BY RecordedClaims
    <3>1. PICK a : a = ActiveSeen
      OBVIOUS
    <3>2. g = a + 1 /\ HasMap(<<p, a>>) /\ Kept(<<p, a>>) /\ <<p, a>> \in Claim
      BY <1>0, <2>2, <3>1 DEF Recorded
    <3>3. HasMap(<<p, a>>)' /\ Kept(<<p, a>>)'
      BY <2>1, <2>4, <3>2 DEF HasMap
    <3> QED
      BY <2>2, <3>1, <3>2, <3>3
  <2>9. pc' # "build"
    BY <2>1 DEF Collecting
  <2> QED
    BY <2>1, <2>2, <2>3, <2>5, <2>6, <2>7, <2>8, <2>9 DEF Recorded
<1>4. ASSUME NEW c \in Claim, DeleteJob(c) PROVE Recorded(g)'
  <2>1. /\ Collecting /\ pc' = pc /\ ~Kept(c)
        /\ UNCHANGED <<cluster, pvc, volume, dep, ready, DepView, instance, todo>>
        /\ job' = [job EXCEPT ![c] = "Absent"]
        /\ source' = [source EXCEPT ![c] = NoUrl]
        /\ \A d \in Claim : d # c => JobView'[d] = JobView[d]
        /\ doomed'.dep = doomed.dep
        /\ \A d \in Claim : Kept(d) => Kept(d)'
    BY <1>4, JobDeleted
  <2>2. Asked' = Asked /\ ActiveSeen' = ActiveSeen /\ WorkIsOf(Asked \X {g})'
    BY <2>1 DEF Asked, ActiveSeen, Recorded, WorkIsOf
  <2>3. \A p \in Asked : <<p, g>> # c /\ Kept(<<p, g>>)'
    BY <1>0, <2>1 DEF Recorded
  <2>4. \A d \in Claim : d # c => job'[d] = job[d] /\ JobView'[d] = JobView[d]
    BY <2>1 DEF TypeOK, ChildrenTypeOK
  <2>5. \A p \in Asked : /\ job'[<<p, g>>] = job[<<p, g>>]
                         /\ JobView'[<<p, g>>] = JobView[<<p, g>>]
    BY <1>0, <2>3, <2>4
  <2>6. /\ \A d \in Claim : Clean(d) => Clean(d)'
        /\ Moving(g)' => Moving(g)
    BY <2>1, <2>2 DEF Clean, Moving, TypeOK, ChildrenTypeOK
  <2>7. \A p \in Asked : Filled(<<p, g>>) => Filled(<<p, g>>)'
    BY <2>1, <2>5 DEF Filled
  <2>8. ActiveSeen' # g =>
          /\ g = ActiveSeen' + 1
          /\ \A p \in Asked : HasMap(<<p, ActiveSeen>>)' /\ Kept(<<p, ActiveSeen>>)'
    <3> SUFFICES ASSUME ActiveSeen' # g, NEW p \in Asked
                 PROVE  /\ g = ActiveSeen' + 1
                        /\ HasMap(<<p, ActiveSeen>>)' /\ Kept(<<p, ActiveSeen>>)'
      BY RecordedClaims
    <3>1. PICK a : a = ActiveSeen
      OBVIOUS
    <3>2. g = a + 1 /\ HasMap(<<p, a>>) /\ Kept(<<p, a>>) /\ <<p, a>> \in Claim
      BY <1>0, <2>2, <3>1 DEF Recorded
    <3>3. HasMap(<<p, a>>)' /\ Kept(<<p, a>>)'
      BY <2>1, <2>4, <3>2 DEF HasMap
    <3> QED
      BY <2>2, <3>1, <3>2, <3>3
  <2>9. pc' # "build"
    BY <2>1 DEF Collecting
  <2> QED
    BY <2>1, <2>2, <2>3, <2>6, <2>7, <2>8, <2>9 DEF Recorded
<1> QED
  BY <1>1, <1>2, <1>3, <1>4 DEF GarbageCollection
-----------------------------------------------------------------------------
(* At rest, and the user's next wish.                                      *)

(* What does not exist is blank: the deletion of a Job forgets what it was *)
(* built from, the deletion of a volume its map.                           *)
AbsentIsBlank ==
  \A c \in Claim : /\ job[c] = "Absent" => source[c] = NoUrl
                   /\ pvc[c] = "Absent" => volume[c] = NoUrl

(* No step leaves an extract behind without its object.                    *)
LEMMA NextAbsentIsBlank == TypeOK /\ AbsentIsBlank /\ [Next]_vars => AbsentIsBlank'
<1> SUFFICES ASSUME TypeOK, AbsentIsBlank, [Next]_vars PROVE AbsentIsBlank'
  OBVIOUS
<1> USE DEF AbsentIsBlank, children
<1>1. CASE UNCHANGED <<pvc, volume, job, source>>
  BY <1>1
<1>2. ASSUME NEW c \in Claim,
             \/ BuildPersistentVolumeClaim(c) \/ BuildJob(c)
             \/ DeletePersistentVolumeClaim(c) \/ DeleteJob(c)
      PROVE  AbsentIsBlank'
  BY <1>2
  DEF BuildPersistentVolumeClaim, BuildJob, DeletePersistentVolumeClaim, DeleteJob,
      TypeOK, ChildrenTypeOK
<1>3. ASSUME NEW c \in Claim,
             \/ RemovePersistentVolumeClaim(c) \/ RemoveJob(c)
             \/ BindVolume(c) \/ CompleteJob(c) \/ FailJob(c)
      PROVE  AbsentIsBlank'
  BY <1>3
  DEF RemovePersistentVolumeClaim, RemoveJob, BindVolume, CompleteJob, FailJob,
      TypeOK, ChildrenTypeOK
<1>4. CASE \/ Forget \/ Initialize \/ MarkDeleting \/ Finalize \/ Pause \/ Begin
           \/ Plan \/ SetLastAppliedSpecAnnotation \/ ListClaims \/ Finish
           \/ Abandon \/ Wake \/ UNCHANGED vars
           \/ \E kind \in Kinds : Sync(kind)
  BY <1>1, <1>4
  DEF Forget, Initialize, MarkDeleting, Finalize, Pause, Begin, Plan, PlanWithout,
      SetLastAppliedSpecAnnotation, ListClaims, Finish, Abandon, Wake, Sync, vars
<1>5. CASE \/ \E c \in Claim : BuildDeployment(c)
           \/ \E p \in Profiles : \/ DeleteDeployment(p) \/ RemoveDeployment(p)
                                  \/ StartWorkers(p) \/ FailWorkers(p)
  BY <1>1, <1>5
  DEF BuildDeployment, DeleteDeployment, RemoveDeployment, StartWorkers, FailWorkers
<1>6. CASE EditSpec \/ PatientEdit \/ TogglePause \/ ReplaceAnnotations \/ Delete
  BY <1>1, <1>6
  DEF EditSpec, PatientEdit, TogglePause, ReplaceAnnotations, Delete, UserWrites
<1> QED
  BY <1>2, <1>3, <1>4, <1>5, <1>6
  DEF Next, Reconcile, Build, GarbageCollection, User, Progress, Failure

(* At rest, in a phase that says so, the children are those of the         *)
(* profiles asked for and of the active generation.                        *)
LEMMA AllAtRest ==
  ASSUME TypeOK, NothingMissed, ReadyExists, Quiescent,
         cluster.phase \in {Empty, WorkersDeployed, WorkersRedeployed}
  PROVE  /\ JobView = job /\ DepView = dep /\ Asked \subseteq ready
         /\ \A p \in Asked : /\ pvc[<<p, ActiveSeen>>] = "Bound"
                             /\ job[<<p, ActiveSeen>>] = "Complete"
         /\ \A c \in Claim : pvc[c] # "Absent" \/ job[c] # "Absent"
                               => c \in Asked \X {ActiveSeen}
         /\ \A p \in Profiles : dep[p] # 0 <=> p \in Asked
<1>1. PvcView = pvc /\ JobView = job /\ DepView = dep /\ ReadyView = ready
  BY CurrentViews DEF Quiescent
<1>2. ActiveSeen = Active /\ cluster.phase = PhaseNow
  BY <1>1 DEF ActiveSeen, Active, NothingMissed, Quiescent
<1>3. /\ ProfileSet(cluster.spec.profiles) \subseteq ready
      /\ \A p \in ProfileSet(cluster.spec.profiles) :
           <<p, ActiveSeen>> \in Bound(pvc) \cap Completed(job)
  BY <1>1, <1>2, PhaseOfRest DEF PhaseNow
<1>4. NoLeftovers
  BY NothingLeft
<1>5. /\ Existing(pvc) = Asked \X {ActiveSeen}
      /\ {c \in Claim : job[c] # "Absent"} = Asked \X {ActiveSeen}
      /\ {p \in Profiles : dep[p] # 0} = Asked
  BY <1>2, <1>4 DEF NoLeftovers, Asked
<1>6. \A p \in Asked : /\ pvc[<<p, ActiveSeen>>] = "Bound"
                       /\ job[<<p, ActiveSeen>>] = "Complete"
  BY <1>3 DEF Bound, Completed, Asked
<1>7. \A c \in Claim : pvc[c] # "Absent" \/ job[c] # "Absent"
                         => c \in Asked \X {ActiveSeen}
  BY <1>5 DEF Existing
<1>8. \A p \in Profiles : dep[p] # 0 <=> p \in Asked
  BY <1>5
<1> QED
  BY <1>1, <1>3, <1>6, <1>7, <1>8 DEF Asked

(* Without workers there is rest only when none are asked for.             *)
LEMMA NoWorkersAtRest ==
  ASSUME TypeOK, NothingMissed, ReadyExists, Quiescent, NoWorkers,
         cluster.phase \in {Empty, WorkersDeployed, WorkersRedeployed}
  PROVE  Asked = {}
<1>1. \A p \in Asked : p \in Profiles /\ dep[p] = 0
  BY AskedAreProfiles DEF NoWorkers
<1>2. \A p \in Profiles : dep[p] # 0 <=> p \in Asked
  BY AllAtRest
<1> QED
  BY <1>1, <1>2

(* A new extract is no rest.                                               *)
LEMMA NewExtractIsNoRest ==
  ASSUME TypeOK, NothingMissed, Quiescent, NEW g, NewExtract(g)
  PROVE  ~Deployed
<1>1. cluster.phase = PhaseNow /\ cluster.spec.url # cluster.lastApplied
  BY DEF NothingMissed, Quiescent, NewExtract
<1> QED
  BY <1>1
  DEF PhaseNow, DeterminePhase, MapUpdateNeeded, Deployed, Empty, BuildingMap,
      UpdatingMap, WorkersDeployed, WorkersRedeployed

(* A recorded generation at rest is in service everywhere.                 *)
LEMMA RecordedAtRest ==
  ASSUME TypeOK, NothingMissed, ReadyExists, Quiescent, Deployed,
         NEW g \in Gen, Recorded(g)
  PROVE  /\ ActiveSeen = g /\ JobView = job /\ DepView = dep
         /\ \A p \in Asked : dep[p] = g /\ HasMap(<<p, g>>) /\ volume[<<p, g>>] # NoUrl
         /\ \A c \in Claim : pvc[c] # "Absent" \/ job[c] # "Absent"
                               => c \in Asked \X {g}
         /\ \A p \in Profiles : dep[p] # 0 <=> p \in Asked
<1>1. cluster.phase \in WorkerPhases
  BY DEF Deployed, WorkerPhases
<1>2. /\ JobView = job /\ DepView = dep /\ Asked \subseteq ready
      /\ \A p \in Asked : /\ pvc[<<p, ActiveSeen>>] = "Bound"
                          /\ job[<<p, ActiveSeen>>] = "Complete"
      /\ \A c \in Claim : pvc[c] # "Absent" \/ job[c] # "Absent"
                            => c \in Asked \X {ActiveSeen}
      /\ \A p \in Profiles : dep[p] # 0 <=> p \in Asked
  BY AllAtRest DEF Deployed
<1>3. \A p \in Asked : dep[p] = g
  BY <1>1 DEF Recorded, Quiescent
<1>4. ActiveSeen = g
  BY <1>2, <1>3, ActiveOfAll, RecordedClaims
<1>5. \A p \in Asked : HasMap(<<p, g>>) /\ volume[<<p, g>>] # NoUrl
  BY <1>2, <1>3, <1>4 DEF HasMap, Recorded
<1> QED
  BY <1>2, <1>3, <1>4, <1>5

(* What a patient edit finds and does.                                     *)
LEMMA PatientEditSteps ==
  ASSUME TypeOK, Live, Orderly, PatientEdit
  PROVE  /\ Quiescent /\ Settled /\ pc' = "idle" /\ queued'
         /\ pc = "idle" /\ todo' = << >> /\ doomed' = NothingDoomed
         /\ UNCHANGED <<pvc, volume, job, source, dep, ready, JobView, DepView>>
         /\ cluster'.lastApplied = cluster.lastApplied
         /\ cluster'.spec \in ClusterSpec /\ cluster'.spec # cluster.spec
         /\ \/ cluster'.spec.url = cluster.spec.url
            \/ cluster'.spec.profiles = cluster.spec.profiles
         /\ cluster.phase \in {Empty, WorkersDeployed, WorkersRedeployed}
<1>1. /\ pc = "idle" /\ ~queued /\ CachesCurrent /\ Settled
      /\ UNCHANGED <<children, seen, pc, todo, doomed>>
  BY DEF PatientEdit, UserWrites
<1>2. Quiescent
  BY <1>1 DEF Quiescent, Running, BeingDeleted, Live, Orderly
<1>3. PICK s \in Specs \ {cluster.spec} :
        /\ s.url = cluster.spec.url \/ s.profiles = cluster.spec.profiles
        /\ cluster' = [cluster EXCEPT !.spec = s]
  BY DEF PatientEdit
<1>4. cluster'.spec = s /\ cluster'.lastApplied = cluster.lastApplied
  BY <1>3 DEF TypeOK, ObjectTypeOK
<1>5. s \in ClusterSpec
  BY <1>3, SpecsType
<1>6. UNCHANGED <<pvc, volume, job, source, dep, ready, JobView, DepView>>
  BY <1>1, ChildrenStay
<1>7. queued'
  BY WritesWake DEF PatientEdit
<1>8. todo' = << >> /\ doomed' = NothingDoomed
  BY <1>1 DEF Orderly, Collecting
<1>9. cluster.phase \in {Empty, WorkersDeployed, WorkersRedeployed}
  BY <1>1 DEF Settled, Live, Orderly, Deployed
<1> QED
  BY <1>1, <1>2, <1>3, <1>4, <1>5, <1>6, <1>7, <1>8, <1>9

(* Profiles are all exchanged: the new ones start from nothing.            *)
LEMMA EditWithoutWorkers ==
  ASSUME TypeOK, Live, Orderly, PatientEdit, CachesCurrent,
         \A c \in Claim : Clean(c)',
         \A p \in Asked' : dep[p] = 0,
         \A c \in Claim : pvc[c] # "Absent" => c[1] \notin Asked'
  PROVE  NoWorkers'
<1>1. /\ pc' = "idle" /\ todo' = << >> /\ doomed' = NothingDoomed
      /\ UNCHANGED <<pvc, job, dep, JobView, DepView>>
  BY PatientEditSteps
<1>2. JobView = job /\ DepView = dep
  BY CurrentViews
<1> QED
  BY <1>1, <1>2, NothingDoomedIsEmpty DEF NoWorkers, WorkIsOf, Kept

(* A patient edit of what is served: another extract is to be built; other *)
(* profiles start from nothing; or some profiles go on and others join     *)
(* them.                                                                   *)
LEMMA EditOfServed ==
  ASSUME TypeOK, NothingMissed, ReadyExists, AbsentIsBlank, Live, Orderly, PatientEdit,
         NEW g \in Gen, Recorded(g), TypeOK'
  PROVE  NoWorkers' \/ Serving'
<1>1. /\ Quiescent /\ Settled /\ pc' = "idle" /\ queued'
      /\ todo' = << >> /\ doomed' = NothingDoomed
      /\ UNCHANGED <<pvc, volume, job, source, dep, ready, JobView, DepView>>
      /\ cluster'.lastApplied = cluster.lastApplied
      /\ cluster'.spec \in ClusterSpec /\ cluster'.spec # cluster.spec
      /\ \/ cluster'.spec.url = cluster.spec.url
         \/ cluster'.spec.profiles = cluster.spec.profiles
  BY PatientEditSteps
<1>2. Deployed
  <2>1. cluster.spec.profiles # << >>
    BY RecordedClaims DEF Asked, ProfileSet
  <2> QED
    BY <1>1, <2>1 DEF Settled, Live, Orderly
<1>3. /\ JobView = job /\ DepView = dep
      /\ \A p \in Asked : dep[p] = g /\ HasMap(<<p, g>>) /\ volume[<<p, g>>] # NoUrl
      /\ \A c \in Claim : pvc[c] # "Absent" \/ job[c] # "Absent" => c \in Asked \X {g}
      /\ \A p \in Profiles : dep[p] # 0 <=> p \in Asked
  BY <1>1, <1>2, RecordedAtRest
<1>4. Asked' \subseteq Profiles
  BY <1>1 DEF Asked, ProfileSet, ClusterSpec
<1>5. \A c \in Claim : c[2] # g => /\ pvc[c] = "Absent" /\ job[c] = "Absent"
                                   /\ volume[c] = NoUrl /\ source[c] = NoUrl
  BY <1>3 DEF AbsentIsBlank
<1>6. g \in Nat /\ cluster.lastApplied = cluster.spec.url
  BY DEF Gen, Recorded
<1>7. CASE cluster'.spec.url # cluster.spec.url
  <2>1. Asked' = Asked /\ Asked # {}
    BY <1>1, <1>7, RecordedClaims DEF Asked
  <2>2. \A p \in Asked : HasMap(<<p, g>>)'
    BY <1>1, <1>3 DEF HasMap
  <2>3. \A c \in Claim : c[2] = g + 1 => Clean(c)' /\ Filled(c)'
    BY <1>1, <1>3, <1>5, <1>6 DEF Clean, Filled
  <2>4. \A c \in Claim : pvc'[c] # "Absent" => c[2] <= g + 1
    BY <1>1, <1>5, <1>6
  <2>5. NewExtract(g)'
    BY <1>1, <1>3, <1>6, <1>7, <2>1, <2>2, <2>3, <2>4
    DEF NewExtract, WorkIsOf, Collecting
  <2> QED
    BY <2>5 DEF Serving
<1>8. CASE cluster'.spec.url = cluster.spec.url /\ Asked \cap Asked' = {}
  <2>1. \A c \in Claim : Clean(c)'
    <3>1. \A c \in Claim : c[2] = g => Clean(c)
      BY DEF Recorded
    <3> QED
      BY <1>1, <1>5, <1>8, <3>1 DEF Clean
  <2>2. \A p \in Asked' : dep[p] = 0
    BY <1>3, <1>4, <1>8
  <2>3. \A c \in Claim : pvc[c] # "Absent" => c[1] \notin Asked'
    BY <1>3, <1>8
  <2> QED
    BY <1>1, <2>1, <2>2, <2>3, EditWithoutWorkers DEF Quiescent
<1>9. CASE cluster'.spec.url = cluster.spec.url /\ Asked \cap Asked' # {}
  <2>1. PICK r \in Asked \cap Asked' : TRUE
    BY <1>9
  <2>2. dep[r] = g /\ g # 0 /\ HasMap(<<r, g>>)
    BY <1>3, <2>1 DEF Gen
  <2>3. \A p \in Asked' : dep[p] \in {0, g}
    BY <1>3, <1>4
  <2>4. ActiveSeen' = g
    <3>1. PICK profiles, d : profiles = cluster'.spec.profiles /\ d = DepView'
      OBVIOUS
    <3>2. profiles \in Seq(Profiles) /\ d \in [Profiles -> 0 .. MaxGen] /\ d = dep
      BY <1>1, <1>3, <3>1 DEF TypeOK, ChildrenTypeOK, ClusterSpec
    <3>3. Asked' = ProfileSet(profiles)
      BY <3>1 DEF Asked
    <3>4. GetActiveMapGeneration(profiles, d) = g
      BY <2>1, <2>2, <2>3, <3>2, <3>3, ActiveOfSome
    <3> QED
      BY <3>1, <3>4 DEF ActiveSeen
  <2>5. \A c \in Claim : c[2] = g => Clean(c)'
    BY <1>1, <1>9 DEF Clean, Recorded
  <2>6. \A p \in Asked' : dep[p] = g => p \in Asked
    BY <1>3, <1>4, <2>2
  <2>7. ~Moving(g)'
    BY <1>1, <2>3 DEF Moving
  <2>8. /\ WorkIsOf(Asked \X {g})'
        /\ \A p \in Asked' : p \notin doomed'.dep /\ Kept(<<p, g>>)'
    BY <1>1, NothingDoomedIsEmpty DEF WorkIsOf, Kept
  <2>9. \A c \in Claim : pvc'[c] # "Absent" => c[2] <= g
    BY <1>1 DEF Recorded
  <2>10. \A p \in Asked' \cap ready' : dep'[p] = g => volume'[<<p, g>>] # NoUrl
    BY <1>1, <1>3, <2>6
  <2>11. pvc'[<<r, g>>] # "Absent" /\ dep'[r] # 0 /\ r \in Asked'
    BY <1>1, <2>1, <2>2 DEF HasMap
  <2>12. \A p \in Asked' : dep'[p] \in {DepView'[p], g}
    BY <1>1, <1>3
  <2>13. Recorded(g)'
    BY <1>1, <1>6, <1>9, <2>4, <2>5, <2>7, <2>8, <2>9, <2>10, <2>11, <2>12
    DEF Recorded, Collecting
  <2> QED
    BY <2>13 DEF Serving
<1> QED
  BY <1>7, <1>8, <1>9

(* A patient edit keeps the invariant.                                     *)
LEMMA EditKeepsServing ==
  ASSUME TypeOK, TypeOK', NothingMissed, ReadyExists, AbsentIsBlank, Live, Orderly,
         PatientEdit, NoWorkers \/ Serving
  PROVE  NoWorkers' \/ Serving'
<1>1. /\ Quiescent /\ Settled
      /\ UNCHANGED <<pvc, volume, job, source, dep>>
      /\ cluster.phase \in {Empty, WorkersDeployed, WorkersRedeployed}
  BY PatientEditSteps
<1>2. CASE NoWorkers
  <2>1. Asked = {}
    BY <1>1, <1>2, NoWorkersAtRest
  <2>2. /\ \A c \in Claim : pvc[c] = "Absent" /\ job[c] = "Absent"
        /\ \A p \in Profiles : dep[p] = 0
    BY <1>1, <2>1, AllAtRest
  <2>3. \A c \in Claim : Clean(c)'
    BY <1>1, <2>2 DEF Clean, AbsentIsBlank
  <2>4. Asked' \subseteq Profiles
    BY DEF Asked, ProfileSet, TypeOK, ObjectTypeOK, ClusterSpec
  <2>5. \A p \in Asked' : dep[p] = 0
    BY <2>2, <2>4
  <2> QED
    BY <1>1, <2>2, <2>3, <2>5, EditWithoutWorkers DEF Quiescent
<1>3. ASSUME NEW g \in Gen, NewExtract(g) PROVE FALSE
  <2>1. cluster.spec.profiles # << >>
    BY <1>3 DEF NewExtract, Asked, ProfileSet
  <2>2. Deployed
    BY <1>1, <2>1 DEF Settled, Live, Orderly
  <2> QED
    BY <1>1, <1>3, <2>2, NewExtractIsNoRest
<1>4. ASSUME NEW g \in Gen, Recorded(g) PROVE NoWorkers' \/ Serving'
  BY <1>4, EditOfServed
<1> QED
  BY <1>2, <1>3, <1>4 DEF Serving
-----------------------------------------------------------------------------
(* All steps together.                                                     *)

(* What the invariant rests on, and holds without it.                      *)
PatientSound ==
  /\ TypeOK /\ NothingMissed /\ ReadyExists /\ JobsHaveSource /\ AbsentIsBlank

(* The invariant survives what drifts.                                     *)
LEMMA DriftKeepsServing ==
  ASSUME TypeOK, TypeOK', Drift, NoWorkers \/ Serving
  PROVE  NoWorkers' \/ Serving'
BY DriftKeepsNoWorkers, DriftKeepsNewExtract, DriftKeepsRecorded DEF Serving

(* The invariant survives the builders and the annotation.                 *)
LEMMA BuildKeepsServing ==
  ASSUME TypeOK, TypeOK', ReadyExists, Patient, Orderly, NoWorkers \/ Serving, Build
  PROVE  NoWorkers' \/ Serving'
<1>1. CASE Drift
  BY <1>1, DriftKeepsServing
<1>2. ASSUME ~Drift, NEW c \in Claim,
             \/ BuildPersistentVolumeClaim(c) \/ BuildJob(c) \/ BuildDeployment(c)
      PROVE  NoWorkers' \/ Serving'
  <2>1. CASE NoWorkers
    BY <1>2, <2>1, VolumeBuilderKeepsNoWorkers, JobBuilderKeepsNoWorkers,
       FirstDeploymentServes
  <2>2. ASSUME NEW g \in Gen, NewExtract(g) PROVE NewExtract(g)'
    BY <1>2, <2>2, BuildersKeepNewExtract
  <2>3. ASSUME NEW g \in Gen, Recorded(g) PROVE Recorded(g)'
    BY <1>2, <2>3, VolumeBuilderKeepsRecorded, JobBuilderKeepsRecorded,
       DeploymentBuilderKeepsRecorded
  <2> QED
    BY <2>1, <2>2, <2>3 DEF Serving
<1>3. CASE SetLastAppliedSpecAnnotation
  <2>1. CASE NoWorkers
    BY <1>3, <2>1, EndKeepsNoWorkers
  <2>2. ASSUME NEW g \in Gen, NewExtract(g) PROVE Serving'
    BY <1>3, <2>2, NewExtractIsRecorded DEF Serving
  <2>3. ASSUME NEW g \in Gen, Recorded(g) PROVE Serving'
    BY <1>3, <2>3, SpecRecordedKeepsRecorded DEF Serving
  <2> QED
    BY <2>1, <2>2, <2>3 DEF Serving
<1> QED
  BY <1>1, <1>2, <1>3 DEF Build

(* The invariant survives garbage collection.                              *)
LEMMA CollectionKeepsServing ==
  ASSUME TypeOK, TypeOK', Patient, Orderly, NoWorkers \/ Serving, GarbageCollection
  PROVE  NoWorkers' \/ Serving'
<1>1. CASE NoWorkers
  BY <1>1, EndKeepsNoWorkers
<1>2. ASSUME NEW g \in Gen, NewExtract(g) PROVE FALSE
  BY <1>2
  DEF NewExtract, Collecting, GarbageCollection, DeleteDeployment, ListClaims,
      DeletePersistentVolumeClaim, DeleteJob
<1>3. ASSUME NEW g \in Gen, Recorded(g) PROVE Serving'
  BY <1>3, CollectionKeepsRecorded DEF Serving
<1> QED
  BY <1>1, <1>2, <1>3 DEF Serving

(* The invariant survives a plan.                                          *)
LEMMA PlanKeepsServing ==
  ASSUME TypeOK, TypeOK', Patient, Orderly, NoWorkers \/ Serving, Plan
  PROVE  NoWorkers' \/ Serving'
<1>1. PICK a, f, g, phase : Planned(a, f, g, phase)
  BY PlanOutcome
<1>2. CASE NoWorkers
  BY <1>1, <1>2, PlanKeepsNoWorkers
<1>3. ASSUME NEW h \in Gen, NewExtract(h) PROVE Serving'
  BY <1>1, <1>3, PlanKeepsNewExtract DEF Serving
<1>4. ASSUME NEW h \in Gen, Recorded(h) PROVE Serving'
  BY <1>1, <1>4, PlanKeepsRecorded DEF Serving
<1> QED
  BY <1>2, <1>3, <1>4 DEF Serving

(* What is being deleted, or gone, stays so.                               *)
LEMMA LiveBefore ==
  ASSUME TypeOK, [Next]_vars, Live'
  PROVE  Live
<1> USE DEF Live, TypeOK, ObjectTypeOK, children, local
<1>1. CASE UNCHANGED cluster
  BY <1>1
<1>2. CASE Initialize \/ MarkDeleting \/ Finalize \/ Pause
  BY <1>2 DEF Initialize, MarkDeleting, Finalize, Pause
<1>3. CASE Plan \/ SetLastAppliedSpecAnnotation
  BY <1>3 DEF Plan, PlanWithout, SetLastAppliedSpecAnnotation
<1>4. CASE EditSpec \/ PatientEdit \/ TogglePause \/ ReplaceAnnotations \/ Delete
  BY <1>4 DEF EditSpec, PatientEdit, TogglePause, ReplaceAnnotations, Delete
<1> HIDE DEF Live, TypeOK, ObjectTypeOK, children, local
<1>5. CASE \/ Forget \/ Begin \/ GarbageCollection \/ Finish \/ Failure \/ Progress
           \/ Wake \/ UNCHANGED vars
           \/ \E kind \in Kinds : Sync(kind)
  <2>1. UNCHANGED cluster
    BY <1>5
    DEF Forget, Begin, GarbageCollection, DeleteDeployment, ListClaims,
        DeletePersistentVolumeClaim, DeleteJob, Finish, Failure, Abandon, FailJob,
        FailWorkers, Progress, BindVolume, CompleteJob, StartWorkers, Wake, Sync, vars
  <2> QED
    BY <1>1, <2>1
<1>6. CASE \/ \E c \in Claim : \/ BuildPersistentVolumeClaim(c) \/ BuildJob(c)
                              \/ BuildDeployment(c)
                              \/ RemovePersistentVolumeClaim(c) \/ RemoveJob(c)
           \/ \E p \in Profiles : RemoveDeployment(p)
  <2>1. UNCHANGED cluster
    BY <1>6
    DEF BuildPersistentVolumeClaim, BuildJob, BuildDeployment, Tamper,
        RemovePersistentVolumeClaim, RemoveJob, RemoveDeployment
  <2> QED
    BY <1>1, <2>1
<1> QED
  BY <1>2, <1>3, <1>4, <1>5, <1>6 DEF Next, Reconcile, Build, User

(* The invariant survives every step a patient user and the cluster take.  *)
LEMMA NextPatientInv ==
  ASSUME Patient
  PROVE  PatientSound /\ TypeOK' /\ PatientInv /\ [Next]_vars => PatientInv'
<1> SUFFICES ASSUME PatientSound, TypeOK', PatientInv, [Next]_vars, Live'
             PROVE  Orderly' /\ (NoWorkers' \/ Serving')
  BY DEF PatientInv
<1> USE DEF PatientSound
<1>1. Live
  BY LiveBefore
<1>2. Orderly /\ (NoWorkers \/ Serving)
  BY <1>1 DEF PatientInv
<1>3. Orderly'
  BY <1>1, <1>2, NextOrderly
<1>4. CASE Initialize \/ Begin \/ Finish \/ Wake \/ Abandon \/ UNCHANGED vars
  BY <1>2, <1>3, <1>4, BoundaryDrifts, DriftKeepsServing
<1>5. CASE \/ Progress
           \/ \E c \in Claim : FailJob(c)
           \/ \E p \in Profiles : FailWorkers(p)
  BY <1>2, <1>3, <1>5, KubernetesDrifts, DriftKeepsServing
<1>6. ASSUME NEW kind \in Kinds, Sync(kind) PROVE NoWorkers' \/ Serving'
  BY <1>2, <1>6, SyncDrifts, DriftKeepsServing
<1>7. CASE Plan
  BY <1>2, <1>3, <1>7, PlanKeepsServing
<1>8. CASE Build
  BY <1>2, <1>3, <1>8, BuildKeepsServing
<1>9. CASE GarbageCollection
  BY <1>2, <1>3, <1>9, CollectionKeepsServing
<1>10. CASE User
  <2>1. PatientEdit \/ Delete
    BY <1>10
    DEF User, Patient, EditSpec, TogglePause, ReplaceAnnotations, UserWrites,
        RemoveDeployment, RemovePersistentVolumeClaim, RemoveJob, Tamper
  <2>2. ~Delete
    BY DEF Delete, Live, TypeOK, ObjectTypeOK
  <2> QED
    BY <1>1, <1>2, <1>3, <2>1, <2>2, EditKeepsServing
<1>11. ~(Forget \/ MarkDeleting \/ Finalize \/ Pause)
  BY <1>1, <1>2 DEF Forget, MarkDeleting, Finalize, Pause, BeingDeleted, Live, Orderly
<1> HIDE DEF PatientSound
<1>12. CASE Reconcile
  BY <1>4, <1>7, <1>8, <1>9, <1>11, <1>12 DEF Reconcile
<1>13. CASE Failure
  BY <1>4, <1>5, <1>13 DEF Failure
<1> QED
  BY <1>3, <1>4, <1>5, <1>6, <1>10, <1>12, <1>13 DEF Next

(* The invariant holds of a new object, which has no workers.              *)
LEMMA InitPatientInv == Init => PatientInv
<1> SUFFICES ASSUME Init PROVE Orderly /\ NoWorkers
  BY DEF PatientInv
<1>1. Orderly
  <2>1. DOMAIN todo = {}
    BY DEF Init
  <2> QED
    BY <2>1 DEF Init, Orderly, Collecting, NothingDoomed
<1>2. DepView = dep /\ JobView = job
  BY DEF Init, DepView, JobView
<1>3. Asked \subseteq Profiles /\ \A p \in Asked : <<p, 1>> \in Claim
  BY InitTypeOK, AskedAreProfiles, BoundsAssumption DEF Claim, Gen
<1> QED
  BY <1>1, <1>2, <1>3, NothingDoomedIsEmpty DEF Init, NoWorkers, Clean, WorkIsOf, Kept

(* The invariant says what is served at rest.                              *)
LEMMA ServedIsAsked ==
  ASSUME PatientSound, PatientInv
  PROVE  ServesSpec
<1> USE DEF PatientSound
<1> SUFFICES ASSUME Quiescent, Deployed, NEW p \in Asked
             PROVE  volume[<<p, dep[p]>>] = cluster.spec.url
  BY DEF ServesSpec, Asked
<1>1. NoWorkers \/ Serving
  BY DEF PatientInv, Live, Quiescent, Running, BeingDeleted
<1>2. PICK g \in Gen : Recorded(g)
  BY <1>1, NoWorkersAtRest, NewExtractIsNoRest DEF Serving, Deployed
<1>3. dep[p] = g /\ volume[<<p, g>>] # NoUrl
  BY <1>2, RecordedAtRest
<1>4. Clean(<<p, g>>)
  <2>1. <<p, g>> \in Claim /\ <<p, g>>[2] = g
    BY <1>2, RecordedClaims
  <2> QED
    BY <1>2, <2>1 DEF Recorded
<1> QED
  BY <1>3, <1>4 DEF Clean

(* A user who changes one thing at a time, and the next only when the      *)
(* operator reports the last as deployed and rests, is served the extract  *)
(* asked for, whatever Kubernetes, the caches of Jobs and Deployments, and *)
(* failed calls do in between.                                             *)
THEOREM ServesSpecTheorem ==
  ASSUME Patient
  PROVE  Spec => []ServesSpec
<1>1. Spec => []NothingMissed
  BY NothingMissedInvariant DEF Patient, ListsSucceed
<1>2. Init => ReadyExists /\ JobsHaveSource /\ AbsentIsBlank
  BY DEF Init, ReadyExists, JobsHaveSource, AbsentIsBlank
<1>3. Spec => [](TypeOK /\ ReadyExists /\ JobsHaveSource /\ AbsentIsBlank)
  BY <1>2, InitTypeOK, NextTypeOK, NextReadyExists, NextJobsHaveSource,
     NextAbsentIsBlank, PTL DEF Spec
<1>4. Spec => []PatientSound
  BY <1>1, <1>3, PTL DEF PatientSound
<1>5. PatientSound => TypeOK
  BY DEF PatientSound
<1>6. PatientSound /\ TypeOK' /\ PatientInv /\ [Next]_vars => PatientInv'
  BY NextPatientInv
<1>7. PatientSound /\ PatientInv => ServesSpec
  BY ServedIsAsked
<1> QED
  BY <1>4, <1>5, <1>6, <1>7, InitPatientInv, PTL DEF Spec
=============================================================================
