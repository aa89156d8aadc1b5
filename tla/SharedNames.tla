---------------------------- MODULE SharedNames ----------------------------
(***************************************************************************)
(* Several OSRMClusters and OSRMInstances in one namespace, at the level   *)
(* of names, labels and owners.  The name of a child is its object's name  *)
(* followed by a service and a suffix, most of them empty, so that the     *)
(* workers of profile "car" of OSRMCluster "osrm" and the gateway of       *)
(* OSRMCluster "osrm-car", or the workers of OSRMInstance "osrm-car", want *)
(* the same names.  Objects of both kinds may also share a name, hence a   *)
(* label.  The user deletes objects and creates them again, also before    *)
(* Kubernetes has removed the children of the deleted one.                 *)
(*                                                                         *)
(* Each controller reconciles one object at a time; the two run side by    *)
(* side.  Here a reconciliation may start at any time: that the work queue *)
(* misses no event is the other modules' subject.  Left out: edits,        *)
(* lagging caches, and the children nobody else has the name or the kind   *)
(* of, or that only repeat a Service's (ConfigMap, PodDisruptionBudget,    *)
(* autoscaler, CronJob).  A volume is bound when it is created, and the    *)
(* pods of a Deployment are ready when their volume holds a map.           *)
(***************************************************************************)
EXTENDS MapGeneration, SequencesExt, TLC

CONSTANTS
  Namespaces,  \* sets of objects [kind, name, profiles] a user may work with
  MaxGen,      \* bound on map generations
  MaxLives,    \* bound on the creations of objects
  MaxFaults    \* bound on failed calls and crashes

VARIABLES
  manifests,  \* the objects the user of this behaviour works with
  existing,   \* those that exist
  deleting,   \* those with a deletion timestamp
  recorded,   \* those whose last applied spec is the current one
  children,   \* what the controllers created in the namespace
  pass,       \* controller |-> its reconciliation
  lives,      \* the objects created so far, in their order
  faults

objects == <<manifests, existing, deleting, recorded, lives>>
vars == <<objects, children, pass, faults>>

Controllers == {"OSRMCluster", "OSRMInstance"}
Objects == UNION Namespaces
Gen == 1 .. MaxGen
ServingKinds == {"Deployment", "Service"}

(* The profiles of an object are a list; an OSRMInstance has one, unnamed. *)
ASSUME ObjectsAssumption ==
  \A o \in Objects :
    /\ o.kind \in Controllers /\ o.name \in Seq(Range(o.name))
    /\ o.profiles \in Seq(ProfileSet(o.profiles))

(* A numeral is not empty and is the numeral of one number.                *)
ASSUME NumeralsAssumption ==
  \A g, h \in Gen : ToString(g) # "" /\ (ToString(g) = ToString(h) => g = h)

ASSUME BoundsAssumption ==
  MaxGen \in Nat /\ MaxLives \in Nat /\ MaxFaults \in Nat

Part(s) == IF s = "" THEN << >> ELSE <<s>>

(* Names are sequences of what stands between the hyphens; an empty        *)
(* service or suffix leaves nothing behind.                                *)
ChildResourceName(o, service, suffix) ==
  o.name \o Part(service) \o Part(suffix)

ClaimName(o, p, g) == ChildResourceName(o, p, ToString(g))
WorkerName(o, p) == ChildResourceName(o, p, "")
GatewayName(o) == ChildResourceName(o, "", "")

GenerationOf(name) == CHOOSE g \in Gen : ToString(g) = Last(name)

(* orphan: the owner it refers to by its uid is gone; mount: the volume a  *)
(* Deployment's pods mount, << >> in the gateway; map: whose map a volume  *)
(* holds; done: the Job has completed.                                     *)
NewChild(kind, name, o, mount) ==
  [kind |-> kind, name |-> name, owner |-> o, orphan |-> FALSE,
   mount |-> mount, map |-> {}, done |-> FALSE]

Idle == [step |-> "idle", of |-> {}, phase |-> Empty, todo |-> << >>,
         jobs |-> {}]

TypeOK ==
  /\ manifests \in Namespaces
  /\ existing \subseteq manifests
  /\ deleting \subseteq existing /\ recorded \subseteq existing
  /\ \A c \in children :
       /\ c.owner \in manifests
       /\ ~c.orphan => c.owner \in existing
       /\ c.map \subseteq manifests
       /\ c.mount # << >> => c.kind = "Deployment"
       /\ \A d \in children : c.kind = d.kind /\ c.name = d.name => c = d
  /\ \A k \in Controllers :
       /\ pass[k].step \in {"idle", "build", "collect", "jobs"}
       /\ pass[k].of \subseteq {o \in existing : o.kind = k}
       /\ pass[k].phase \in Phase
  /\ lives \in Seq(manifests) /\ Len(lives) <= MaxLives
  /\ faults \in 0 .. MaxFaults

Init ==
  /\ manifests \in Namespaces
  /\ existing = {} /\ deleting = {} /\ recorded = {} /\ children = {}
  /\ pass = [k \in Controllers |-> Idle]
  /\ lives = << >> /\ faults = 0

-----------------------------------------------------------------------------
(* What a reconciliation of o reads: volumes and Jobs by label, wherever   *)
(* they come from, Deployments by name, whoever owns them.                 *)

Named(kind, name) == {c \in children : c.kind = kind /\ c.name = name}

(* Mutant of Labelled: the lists have no selector.                         *)
OfKind(o, kind) == {c \in children : c.kind = kind}

(* A child carries the name of the object that last wrote it as its label. *)
Labelled(o, kind) ==
  {c \in children : c.kind = kind /\ c.owner.name = o.name}

Volumes(o) == Labelled(o, "PersistentVolumeClaim")

MapStarted(o, cs) ==
  {claim \in ProfileSet(o.profiles) \X Gen :
     \E c \in cs : c.name = ClaimName(o, claim[1], claim[2])}

Completed(o) == MapStarted(o, {j \in Labelled(o, "Job") : j.done})

Worker(o, p) == Named("Deployment", WorkerName(o, p))

MountedGeneration(d) == IF d.mount = << >> THEN 1 ELSE GenerationOf(d.mount)

Deployed(o) ==
  [p \in ProfileSet(o.profiles) |->
     IF Worker(o, p) = {} THEN 0
     ELSE MountedGeneration(CHOOSE d \in Worker(o, p) : TRUE)]

Ready(d) ==
  d.mount = << >>
    \/ \E v \in Named("PersistentVolumeClaim", d.mount) : v.map # {}

ReadyProfiles(o) ==
  {p \in ProfileSet(o.profiles) : \E d \in Worker(o, p) : Ready(d)}

(* The OSRMCluster controller takes the first Deployment's volume for a    *)
(* claim; the gateway of another OSRMCluster has none, and the             *)
(* reconciliation panics, which leaves the key in the queue.               *)
Panics(o) ==
  /\ o.kind = "OSRMCluster"
  /\ \E i \in DOMAIN o.profiles :
       /\ FirstDeployed(o.profiles, Deployed(o), i)
       /\ \E d \in Worker(o, o.profiles[i]) : d.mount = << >>

Active(o) == GetActiveMapGeneration(o.profiles, Deployed(o))

Future(o) ==
  GetFutureMapGeneration({<<c.name, GenerationOf(c.name)>> : c \in Volumes(o)})

PhaseOf(o) ==
  DeterminePhase([url |-> "extract", profiles |-> o.profiles],
                 IF o \in recorded THEN "extract" ELSE "none",
                 Active(o), Future(o), MapStarted(o, Volumes(o)),
                 Completed(o), ReadyProfiles(o))

-----------------------------------------------------------------------------
(* The builders of a phase, by kind and name.                              *)

Build(kind, name, mount) == [kind |-> kind, name |-> name, mount |-> mount]

WorkerDeployment(o, p, g) ==
  Build("Deployment", WorkerName(o, p), ClaimName(o, p, g))
WorkerService(o, p) == Build("Service", WorkerName(o, p), << >>)

MapPhase(o, g) ==
  LET bs == MapBuilders(o.profiles, g)
  IN  [i \in DOMAIN bs |->
         Build(bs[i].kind, ClaimName(o, bs[i].claim[1], g), << >>)]

(* For every profile what first and second build of it.                    *)
ForEach(o, first(_), second(_)) ==
  [i \in 1 .. 2 * Len(o.profiles) |->
     LET p == o.profiles[(i + 1) \div 2]
     IN  IF i % 2 = 1 THEN first(p) ELSE second(p)]

Gateway(o) ==
  IF o.kind = "OSRMInstance" THEN << >>
  ELSE <<Build("Service", GatewayName(o), << >>),
         Build("Deployment", GatewayName(o), << >>)>>

ServingPhase(o, phase, g) ==
  LET Deployment(p) == WorkerDeployment(o, p, g)
      Service(p) == WorkerService(o, p)
  IN  IF phase = DeployingWorkers THEN ForEach(o, Deployment, Service)
      ELSE IF phase = RedeployingWorkers
        THEN [i \in DOMAIN o.profiles |-> Deployment(o.profiles[i])]
      ELSE ForEach(o, Service, Deployment) \o Gateway(o)

Builders(o, phase, g) ==
  IF phase = Empty THEN << >>
  ELSE IF phase \in {BuildingMap, UpdatingMap} THEN MapPhase(o, g)
  ELSE ServingPhase(o, phase, g)

-----------------------------------------------------------------------------
(* Reconciliations.                                                        *)

Goto(k, step) == pass' = [pass EXCEPT ![k].step = step]
Done(k) == pass' = [pass EXCEPT ![k] = Idle]

(* Mutant of Finalize: it does not wait for the reconciliation under way.  *)
FinalizeAtOnce(k, o) ==
  /\ o.kind = k /\ o \in deleting
  /\ existing' = existing \ {o}
  /\ deleting' = deleting \ {o}
  /\ recorded' = recorded \ {o}
  /\ children' = {[c EXCEPT !.orphan = @ \/ c.owner = o] : c \in children}
  /\ UNCHANGED <<manifests, lives, pass, faults>>

(* cleanup removes the finalizer and with it the object; the children are  *)
(* left to Kubernetes.                                                     *)
Finalize(k, o) ==
  /\ o.kind = k /\ pass[k].step = "idle" /\ o \in deleting
  /\ existing' = existing \ {o}
  /\ deleting' = deleting \ {o}
  /\ recorded' = recorded \ {o}
  /\ children' = {[c EXCEPT !.orphan = @ \/ c.owner = o] : c \in children}
  /\ UNCHANGED <<manifests, lives, pass, faults>>

(* A reconciliation that panics here starts again.                         *)
Plan(k, o) ==
  LET phase == PhaseOf(o)
      g == GenerationFor(phase, Active(o), Future(o))
  IN  /\ o.kind = k /\ pass[k].step = "idle" /\ o \in existing \ deleting
      /\ ~Panics(o)
      /\ g \in Gen
      /\ pass' = [pass EXCEPT ![k] = [step |-> "build", of |-> {o},
                    phase |-> phase, todo |-> Builders(o, phase, g),
                    jobs |-> {}]]
      /\ UNCHANGED <<objects, children, faults>>

At(k, o, step) == o \in pass[k].of /\ pass[k].step = step

Building(k, o) == At(k, o, "build") /\ pass[k].todo # << >>

BuilderDone(k) == pass' = [pass EXCEPT ![k].todo = Tail(@)]

Create(k, o) ==
  LET b == Head(pass[k].todo) IN
  /\ Building(k, o) /\ Named(b.kind, b.name) = {}
  /\ children' = children \cup {NewChild(b.kind, b.name, o, b.mount)}
  /\ BuilderDone(k)
  /\ UNCHANGED <<objects, faults>>

(* Mutant of OwnedBy: the owner is not looked at.                          *)
Anybody(c, o) == TRUE

(* Ownership is compared by kind and name: what an object of this name had *)
(* before it was deleted counts as its own.                                *)
OwnedBy(c, o) == c.owner = o

(* An update also refers the child to the owner's present uid.             *)
Update(k, o) ==
  LET b == Head(pass[k].todo) IN
  /\ Building(k, o)
  /\ \E c \in Named(b.kind, b.name) :
       /\ OwnedBy(c, o)
       /\ children' = (children \ {c}) \cup
            {[c EXCEPT !.owner = o, !.orphan = FALSE, !.mount = b.mount]}
  /\ BuilderDone(k)
  /\ UNCHANGED <<objects, faults>>

(* Another object controls the child of this name: the reconciliation ends *)
(* with an error before it records anything or collects garbage.           *)
AlreadyOwned(k, o) ==
  LET b == Head(pass[k].todo) IN
  /\ Building(k, o)
  /\ \E c \in Named(b.kind, b.name) : ~OwnedBy(c, o)
  /\ Done(k)
  /\ UNCHANGED <<objects, children, faults>>

(* The annotation is written with the resource version that was read.      *)
SetLastAppliedSpec(k, o) ==
  /\ At(k, o, "build") /\ pass[k].todo = << >>
  /\ \/ o \in deleting /\ Done(k) /\ UNCHANGED recorded
     \/ o \notin deleting /\ Goto(k, "collect") /\ recorded' = recorded \cup {o}
  /\ UNCHANGED <<manifests, existing, deleting, lives, children, faults>>

(* Mutant of ExpectedNames: the gateway is forgotten.                      *)
WorkersExpected(o) == {WorkerName(o, p) : p \in ProfileSet(o.profiles)}

ExpectedNames(o) ==
  {WorkerName(o, p) : p \in ProfileSet(o.profiles)} \cup
    {b.name : b \in Range(Gateway(o))}

(* What bears the label but not one of the expected names, and what is not *)
(* of an expected generation.                                              *)
UnexpectedServing(o) ==
  {c \in UNION {Labelled(o, kind) : kind \in ServingKinds} :
     c.name \notin ExpectedNames(o)}

Unexpected(o, phase, kind) ==
  LET kept == {ClaimName(o, c[1], c[2]) :
        c \in ExpectedClaims(o.profiles, phase, Active(o), Future(o))}
  IN  {c \in Labelled(o, kind) : c.name \notin kept}

(* Garbage collection: Deployments and Services, then, from fresh lists,   *)
(* the volumes, and at last the Jobs.  Deletions are by name.              *)
Collect(k, o) ==
  LET phase == pass[k].phase IN
  /\ At(k, o, "collect")
  /\ \/ /\ Panics(o) /\ Done(k)
        /\ children' = children \ UnexpectedServing(o)
     \/ /\ ~Panics(o)
        /\ children' = children \ (UnexpectedServing(o) \cup
                          Unexpected(o, phase, "PersistentVolumeClaim"))
        /\ pass' = [pass EXCEPT ![k].step = "jobs", ![k].jobs =
             {j.name : j \in Unexpected(o, phase, "Job")}]
  /\ UNCHANGED <<objects, faults>>

CollectJobs(k, o) ==
  /\ At(k, o, "jobs")
  /\ children' = {c \in children : c.kind = "Job" => c.name \notin pass[k].jobs}
  /\ Done(k)
  /\ UNCHANGED <<objects, faults>>

(* A call fails or the process dies.                                       *)
Abandon(k, o) ==
  /\ o \in pass[k].of /\ faults < MaxFaults
  /\ faults' = faults + 1
  /\ Done(k)
  /\ UNCHANGED <<objects, children>>

Reconcile(k) ==
  \E o \in manifests :
    \/ Finalize(k, o) \/ Plan(k, o) \/ Create(k, o) \/ Update(k, o)
    \/ AlreadyOwned(k, o) \/ SetLastAppliedSpec(k, o)
    \/ Collect(k, o) \/ CollectJobs(k, o)

-----------------------------------------------------------------------------
(* Kubernetes and the user.                                                *)

(* A Job fills the volume of its own name, whoever owns it.                *)
JobCompletes(o) ==
  \E j \in children, v \in children :
    /\ j.kind = "Job" /\ ~j.done /\ j.owner = o
    /\ v.kind = "PersistentVolumeClaim" /\ v.name = j.name
    /\ children' = (children \ {j, v}) \cup
                     {[j EXCEPT !.done = TRUE], [v EXCEPT !.map = {j.owner}]}
    /\ UNCHANGED <<objects, pass, faults>>

(* Orphans are removed in any order, some time.                            *)
CollectOrphan ==
  \E c \in children :
    /\ c.orphan
    /\ children' = children \ {c}
    /\ UNCHANGED <<objects, pass, faults>>

UserCreates(o) ==
  /\ o \notin existing /\ Len(lives) < MaxLives
  /\ lives' = Append(lives, o)
  /\ existing' = existing \cup {o}
  /\ UNCHANGED <<manifests, deleting, recorded, children, pass, faults>>

UserDeletes(o) ==
  /\ o \in existing \ deleting
  /\ deleting' = deleting \cup {o}
  /\ UNCHANGED <<manifests, existing, recorded, lives, children, pass, faults>>

Next ==
  \/ \E k \in Controllers : Reconcile(k)
  \/ \E k \in Controllers, o \in manifests : Abandon(k, o)
  \/ \E o \in manifests : JobCompletes(o) \/ UserCreates(o) \/ UserDeletes(o)
  \/ CollectOrphan

Spec == Init /\ [][Next]_vars

(* Some reconciliation goes on, some Job completes, some orphan is         *)
(* removed; users owe nothing.                                             *)
FairSpec ==
  /\ Spec
  /\ WF_vars(\E k \in Controllers : Reconcile(k))
  /\ WF_vars(\E o \in manifests : JobCompletes(o))
  /\ WF_vars(CollectOrphan)

-----------------------------------------------------------------------------
(* A reconciliation changes or deletes no child of another object, neither *)
(* by taking over a child whose name it wants too nor by collecting it,    *)
(* whatever was deleted, created again or left behind meanwhile.  Except a *)
(* Job that has taken the name of one it listed to delete.                 *)
KeepsToOwn ==
  [][\A k \in Controllers : pass'[k] # pass[k] =>
       \A c \in children \ children', o \in pass[k].of :
         c.owner = o \/ (c.kind = "Job" /\ c.name \in pass[k].jobs)]_vars

(* "Always keep the active generation (what deployments are currently      *)
(* using)": no reconciliation deletes the volume of a Deployment that      *)
(* stays.                                                                  *)
KeepsActive ==
  [][\A d \in children, v \in children :
       (/\ d.kind = "Deployment" /\ d \in children'
        /\ v.kind = "PersistentVolumeClaim" /\ v.name = d.mount
        /\ pass' # pass)
         => \E w \in children' : w.kind = v.kind /\ w.name = v.name]_vars

CreatedOnce(o) ==
  \A i, j \in DOMAIN lives : lives[i] = o /\ lives[j] = o => i = j

(* No Deployment of an object that is in its first life mounts a volume    *)
(* with the map of another object: neither the names they compete for, nor *)
(* the Jobs that fill whatever volume has their name, nor what other       *)
(* objects leave behind bring it there.  (One that was created again may   *)
(* deploy on a volume of its former self, which then goes, and its name to *)
(* another object.)                                                        *)
NeverForeignMap ==
  \A d \in children, v \in children :
    (/\ d.kind = "Deployment" /\ ~d.orphan /\ CreatedOnce(d.owner)
     /\ v.kind = "PersistentVolumeClaim" /\ v.name = d.mount)
      => v.map \subseteq {d.owner}

Owns(o, kind, name) ==
  \E c \in Named(kind, name) : c.owner = o /\ ~c.orphan

Serves(o) ==
  /\ \A p \in ProfileSet(o.profiles) :
       /\ Owns(o, "Service", WorkerName(o, p))
       /\ \E d \in Worker(o, p) : d.owner = o /\ ~d.orphan /\ Ready(d)
  /\ o.kind = "OSRMCluster" =>
       \A kind \in ServingKinds : Owns(o, kind, GatewayName(o))

(* A volume of o is empty although the Job of its name has completed: for  *)
(* an earlier volume of that name.                                         *)
TakenForBuilt(o) ==
  \E v \in Volumes(o) :
    v.map = {} /\ \E j \in Named("Job", v.name) : v.owner = o /\ j.done

Alone(o) == existing = {o} /\ o \notin deleting

(* Whatever two objects did to each other, once the other one is gone for  *)
(* good the one that stays serves with children of its own, unless it      *)
(* found the completed Job of an earlier volume in its way.                *)
SurvivorServes ==
  <>[](\E o \in Objects : Alone(o))
    => <>[](\A o \in Objects : Alone(o) => Serves(o) \/ TakenForBuilt(o))
=============================================================================
