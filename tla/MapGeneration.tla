--------------------------- MODULE MapGeneration ---------------------------
(***************************************************************************)
(* The pure decisions of the operator: which map generation is active,     *)
(* which one is the newest, the phase a reconciliation is in, the child    *)
(* objects the phase builds, and the claims garbage collection keeps.      *)
(*                                                                         *)
(* A claim is a pair <<profile, generation>>: the code's name for the      *)
(* PersistentVolumeClaim and the Job of that profile and generation        *)
(* ("<cluster>-<profile>-<generation>").  A profile's Deployment is named  *)
(* after the profile alone; dep[p] is the generation its pod template      *)
(* mounts, 0 when there is no Deployment.                                  *)
(***************************************************************************)
EXTENDS Integers, Sequences

Empty              == "Empty"
BuildingMap        == "BuildingMap"
UpdatingMap        == "UpdatingMap"
RedeployingWorkers == "RedeployingWorkers"
DeployingWorkers   == "DeployingWorkers"
WorkersDeployed    == "WorkersDeployed"
WorkersRedeployed  == "WorkersRedeployed"
Deleting           == "Deleting"

Phase == {Empty, BuildingMap, UpdatingMap, RedeployingWorkers,
          DeployingWorkers, WorkersDeployed, WorkersRedeployed, Deleting}

ProfileSet(profiles) == {profiles[i] : i \in DOMAIN profiles}

(* Mutant of FirstDeployed: a profile without a Deployment counts.         *)
FirstProfile(profiles, dep, i) == i = 1 /\ i \in DOMAIN profiles

(* The profile at position i is the first one that has a Deployment.       *)
FirstDeployed(profiles, dep, i) ==
  /\ i \in DOMAIN profiles
  /\ dep[profiles[i]] # 0
  /\ \A j \in DOMAIN profiles : j < i => dep[profiles[j]] = 0

(* The generation of the first Deployment found in profile order, 1 when   *)
(* none is found.                                                          *)
GetActiveMapGeneration(profiles, dep) ==
  IF \E i \in DOMAIN profiles : FirstDeployed(profiles, dep, i)
    THEN dep[profiles[CHOOSE i \in DOMAIN profiles :
                        FirstDeployed(profiles, dep, i)]]
    ELSE 1

(* The highest generation among all the claims, at least 1.                *)
GetFutureMapGeneration(pvcs) ==
  LET gens == {1} \cup {c[2] : c \in pvcs}
  IN  CHOOSE g \in gens : \A h \in gens : h <= g

(* Mutant of IsMapBuildingInProgress: the Jobs are not looked at.          *)
SomeVolumeUnbound(profiles, bound, completed, g) ==
  \E p \in ProfileSet(profiles) : <<p, g>> \notin bound

(* Some profile has no bound volume or no completed Job at generation g.   *)
IsMapBuildingInProgress(profiles, bound, completed, g) ==
  \E p \in ProfileSet(profiles) : <<p, g>> \notin bound \cap completed

AllWorkersReady(profiles, ready) == ProfileSet(profiles) \subseteq ready

(* Mutants of MapUpdateNeeded: one half of the condition is missing.       *)
ExtractChanged(spec, oldUrl, futureInProgress) == spec.url # oldUrl
FutureInProgress(spec, oldUrl, futureInProgress) == futureInProgress

MapUpdateNeeded(spec, oldUrl, futureInProgress) ==
  spec.url # oldUrl \/ futureInProgress

(* The early returns of DeterminePhase, in their order.                    *)
DeterminePhase(spec, oldUrl, active, future, bound, completed, ready) ==
  LET InProgress(g) ==
        IsMapBuildingInProgress(spec.profiles, bound, completed, g)
  IN  IF spec.profiles = << >> THEN Empty
      ELSE IF InProgress(active) THEN BuildingMap
      ELSE IF MapUpdateNeeded(spec, oldUrl, InProgress(future))
        THEN UpdatingMap
      ELSE IF active # future THEN RedeployingWorkers
      ELSE IF AllWorkersReady(spec.profiles, ready)
        THEN IF active > 1 THEN WorkersRedeployed ELSE WorkersDeployed
        ELSE IF active > 1 THEN RedeployingWorkers ELSE DeployingWorkers

GetNextMapGeneration(g) == g + 1

Builder(kind, profile, g) == [kind |-> kind, claim |-> <<profile, g>>]

(* For every profile its volume, then the Job that fills it.               *)
MapBuilders(profiles, g) ==
  [k \in 1 .. 2 * Len(profiles) |->
     Builder(IF k % 2 = 1 THEN "PersistentVolumeClaim" ELSE "Job",
             profiles[(k + 1) \div 2], g)]

(* For every profile the Deployment that mounts generation g.              *)
WorkerBuilders(profiles, g) ==
  [k \in 1 .. Len(profiles) |-> Builder("Deployment", profiles[k], g)]

(* Mutant of GenerationFor: the workers' generation is forgotten once they *)
(* are deployed.                                                           *)
GenerationForgotten(phase, active, future) ==
  IF phase = UpdatingMap THEN GetNextMapGeneration(active)
  ELSE IF phase = RedeployingWorkers THEN future
  ELSE IF phase = WorkersRedeployed THEN 1 ELSE active

(* The generation the phase's builders work on.                            *)
GenerationFor(phase, active, future) ==
  IF phase = UpdatingMap THEN GetNextMapGeneration(active)
  ELSE IF phase = RedeployingWorkers THEN future ELSE active

ResourceBuildersForPhase(phase, profiles, active, future) ==
  LET g == GenerationFor(phase, active, future)
  IN  CASE phase \in {BuildingMap, UpdatingMap} -> MapBuilders(profiles, g)
      []   phase \in {RedeployingWorkers, DeployingWorkers, WorkersDeployed,
                      WorkersRedeployed} -> WorkerBuilders(profiles, g)
      []   OTHER -> << >>

(* Mutants of KeptGenerations: only the newest; every one so far.          *)
NewestKept(phase, active, future) == {future}
AllKept(phase, active, future) == 1 .. future

(* Garbage collection keeps the active generation and, in the phases of a  *)
(* blue-green switch, the newest one.                                      *)
KeptGenerations(phase, active, future) ==
  IF phase \in {UpdatingMap, RedeployingWorkers, DeployingWorkers}
    THEN {active, future} ELSE {active}

ExpectedClaims(profiles, phase, active, future) ==
  ProfileSet(profiles) \X KeptGenerations(phase, active, future)
=============================================================================
