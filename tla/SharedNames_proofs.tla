------------------------- MODULE SharedNames_proofs -------------------------
(***************************************************************************)
(* Objects that want the same names keep to their own children and, in     *)
(* their first life, serve their own maps, with any number of objects,     *)
(* profiles, generations, creations and faults, unless they have a name in *)
(* common.                                                                 *)
(***************************************************************************)
EXTENDS SharedNames, SequenceLemmas

(* A list of builders; only those of Deployments mount a volume.           *)
ListsBuilders(todo) ==
  \E B : /\ todo \in Seq(B)
         /\ \A b \in B : b.mount # << >> => b.kind = "Deployment"

ObjectsOK ==
  /\ manifests \in Namespaces /\ existing \subseteq manifests
  /\ deleting \subseteq existing /\ recorded \subseteq existing
  /\ lives \in Seq(manifests) /\ Len(lives) <= MaxLives
  /\ faults \in 0 .. MaxFaults

ChildFits(c) ==
  /\ c = [kind |-> c.kind, name |-> c.name, owner |-> c.owner,
          orphan |-> c.orphan, mount |-> c.mount, map |-> c.map,
          done |-> c.done]
  /\ c.owner \in manifests
  /\ c.orphan \in BOOLEAN /\ (~c.orphan => c.owner \in existing)
  /\ c.map \subseteq manifests
  /\ c.mount # << >> => c.kind = "Deployment"

SameName(c, d) == c.kind = d.kind /\ c.name = d.name

ChildrenOK ==
  \A c \in children :
    ChildFits(c) /\ \A d \in children : SameName(c, d) => c = d

(* A reconciliation is of one object, which cannot go while it runs, and   *)
(* of none when it is over.                                                *)
PassFits(k, r) ==
  /\ r = [step |-> r.step, of |-> r.of, phase |-> r.phase, todo |-> r.todo,
          jobs |-> r.jobs]
  /\ r.step \in {"idle", "build", "collect", "jobs"}
  /\ r.of \subseteq {o \in existing : o.kind = k}
  /\ r.phase \in Phase
  /\ ListsBuilders(r.todo)
  /\ r.step = "idle" => r.of = {}
  /\ \A o, q \in r.of : o = q

PassesOK ==
  /\ pass = [k \in Controllers |-> pass[k]]
  /\ \A k \in Controllers : PassFits(k, pass[k])

NamesInv == ObjectsOK /\ ChildrenOK /\ PassesOK

LEMMA InvariantTypes == NamesInv => TypeOK
BY DEF NamesInv, ObjectsOK, ChildrenOK, ChildFits, SameName, PassesOK, PassFits,
   TypeOK

-----------------------------------------------------------------------------
(* The builders.                                                           *)

LEMMA ListOf ==
  ASSUME NEW B, NEW m \in Nat, NEW s, s = [i \in 1 .. m |-> s[i]],
         \A i \in 1 .. m : s[i] \in B
  PROVE  s \in Seq(B)
OBVIOUS

LEMMA NoBuilders == ListsBuilders(<< >>)
<1>1. << >> \in Seq({})
  OBVIOUS
<1> QED
  BY <1>1 DEF ListsBuilders

LEMMA RestOfBuilders ==
  ASSUME NEW todo, ListsBuilders(todo), todo # << >>
  PROVE  /\ ListsBuilders(Tail(todo))
         /\ Head(todo).mount # << >> => Head(todo).kind = "Deployment"
<1>1. PICK B : /\ todo \in Seq(B)
               /\ \A b \in B : b.mount # << >> => b.kind = "Deployment"
  BY DEF ListsBuilders
<1>2. Head(todo) \in B /\ Tail(todo) \in Seq(B)
  BY <1>1
<1> QED
  BY <1>1, <1>2 DEF ListsBuilders

LEMMA BuildersMount ==
  ASSUME NEW o \in Objects, NEW phase, NEW g
  PROVE  ListsBuilders(Builders(o, phase, g))
<1> DEFINE P == ProfileSet(o.profiles)
           n == Len(o.profiles)
           worker(p) == WorkerDeployment(o, p, g)
           service(p) == WorkerService(o, p)
           W == {worker(p) : p \in P}
           S == {service(p) : p \in P}
           G == {Build("Service", GatewayName(o), << >>),
                 Build("Deployment", GatewayName(o), << >>)}
           B == W \cup S \cup G
<1>1. o.profiles \in Seq(P)
  BY ObjectsAssumption
<1>2. n \in Nat /\ \A i \in 1 .. n : o.profiles[i] \in P
  BY <1>1
<1>3. \A i \in 1 .. 2 * n : (i + 1) \div 2 \in 1 .. n
  BY <1>2
<1>4. \A b \in B : b.mount # << >> => b.kind = "Deployment"
  BY DEF WorkerDeployment, WorkerService, Build
<1>0. CASE phase = Empty
  BY <1>0, NoBuilders DEF Builders
<1>5. CASE phase # Empty /\ phase \in {BuildingMap, UpdatingMap}
  <2> DEFINE M == {b \in {Build(kind, ClaimName(o, p, g), << >>) :
                           kind \in {"PersistentVolumeClaim", "Job"}, p \in P} : TRUE}
             bs == MapBuilders(o.profiles, g)
  <2>1. DOMAIN bs = 1 .. 2 * n
    BY DEF MapBuilders
  <2>2. ASSUME NEW i \in 1 .. 2 * n
        PROVE  /\ bs[i].kind \in {"PersistentVolumeClaim", "Job"}
               /\ bs[i].claim[1] \in P
    BY <1>2, <1>3 DEF MapBuilders, Builder
  <2> DEFINE s == [i \in 1 .. 2 * n |->
                     Build(bs[i].kind, ClaimName(o, bs[i].claim[1], g), << >>)]
  <2>3. Builders(o, phase, g) = s
    BY <1>5, <2>1 DEF Builders, MapPhase
  <2>4. \A i \in 1 .. 2 * n : s[i] \in M
    BY <2>2
  <2>5. s \in Seq(M)
    <3>1. 2 * n \in Nat /\ s = [i \in 1 .. 2 * n |-> s[i]]
      BY <1>2
    <3> HIDE DEF M, s
    <3> QED
      BY <2>4, <3>1, ListOf
  <2>6. \A b \in M : b.mount = << >>
    BY DEF Build
  <2> HIDE DEF M, s
  <2> QED
    BY <2>3, <2>5, <2>6 DEF ListsBuilders
<1>6. CASE phase # Empty /\ phase \notin {BuildingMap, UpdatingMap}
  <2>2. [i \in DOMAIN o.profiles |-> worker(o.profiles[i])] \in Seq(B)
    <3> DEFINE s == [i \in DOMAIN o.profiles |-> worker(o.profiles[i])]
    <3>1. DOMAIN o.profiles = 1 .. n
      BY <1>1 DEF n
    <3>2. s = [i \in 1 .. n |-> s[i]] /\ \A i \in 1 .. n : s[i] \in B
      BY <1>2, <3>1
    <3> HIDE DEF B, s
    <3>3. s \in Seq(B)
      BY <1>2, <3>2, ListOf
    <3> QED
      BY <3>3 DEF s
  <2>3. Gateway(o) \in Seq(B)
    <3>1. /\ Build("Service", GatewayName(o), << >>) \in B
          /\ Build("Deployment", GatewayName(o), << >>) \in B
      OBVIOUS
    <3> HIDE DEF B
    <3> QED
      BY <3>1 DEF Gateway
  <2>4. \A p \in P : worker(p) \in B /\ service(p) \in B
    OBVIOUS
  <2>5. ForEach(o, worker, service) \in Seq(B)
    <3> DEFINE s == ForEach(o, worker, service)
    <3>1. 2 * n \in Nat /\ s = [i \in 1 .. 2 * n |-> s[i]]
      BY <1>2 DEF ForEach
    <3>2. \A i \in 1 .. 2 * n : s[i] \in B
      BY <1>2, <1>3, <2>4 DEF ForEach
    <3> HIDE DEF B, s
    <3>3. s \in Seq(B)
      BY <3>1, <3>2, ListOf
    <3> QED
      BY <3>3 DEF s
  <2>6. ForEach(o, service, worker) \in Seq(B)
    <3> DEFINE s == ForEach(o, service, worker)
    <3>1. 2 * n \in Nat /\ s = [i \in 1 .. 2 * n |-> s[i]]
      BY <1>2 DEF ForEach
    <3>2. \A i \in 1 .. 2 * n : s[i] \in B
      BY <1>2, <1>3, <2>4 DEF ForEach
    <3> HIDE DEF B, s
    <3>3. s \in Seq(B)
      BY <3>1, <3>2, ListOf
    <3> QED
      BY <3>3 DEF s
  <2>7. ServingPhase(o, phase, g) \in Seq(B)
    <3>1. CASE phase = DeployingWorkers
      <4>1. ServingPhase(o, phase, g) = ForEach(o, worker, service)
        BY <3>1 DEF ServingPhase
      <4> QED
        BY <2>5, <4>1
    <3>2. CASE phase = RedeployingWorkers
      BY <2>2, <3>2 DEF ServingPhase, DeployingWorkers, RedeployingWorkers
    <3>3. CASE phase \notin {DeployingWorkers, RedeployingWorkers}
      <4>1. ServingPhase(o, phase, g) = ForEach(o, service, worker) \o Gateway(o)
        BY <3>3 DEF ServingPhase
      <4> HIDE DEF B
      <4> QED
        BY <2>3, <2>6, <4>1
    <3> QED
      BY <3>1, <3>2, <3>3
  <2> QED
    BY <1>4, <1>6, <2>7 DEF Builders, ListsBuilders
<1> QED
  BY <1>0, <1>5, <1>6

LEMMA PhaseType == ASSUME NEW o PROVE PhaseOf(o) \in Phase
BY DEF PhaseOf, DeterminePhase, Phase, Empty, BuildingMap, UpdatingMap,
   RedeployingWorkers, DeployingWorkers, WorkersDeployed, WorkersRedeployed

-----------------------------------------------------------------------------
(* What a step does to the children and to the reconciliations.            *)

LEMMA IdleFits == ASSUME NEW k PROVE PassFits(k, Idle)
BY NoBuilders DEF Idle, PassFits, Phase

LEMMA PassReplaced ==
  ASSUME PassesOK, NEW k \in Controllers, NEW r, PassFits(k, r),
         pass' = [pass EXCEPT ![k] = r], UNCHANGED existing
  PROVE  PassesOK'
<1>1. /\ pass' = [j \in Controllers |-> pass'[j]]
      /\ pass'[k] = r /\ \A j \in Controllers \ {k} : pass'[j] = pass[j]
  BY DEF PassesOK
<1>2. ASSUME NEW j \in Controllers PROVE PassFits(j, pass[j])'
  BY <1>1 DEF PassesOK, PassFits
<1> QED
  BY <1>1, <1>2 DEF PassesOK

LEMMA PassKept ==
  ASSUME PassesOK, UNCHANGED pass, existing \subseteq existing'
  PROVE  PassesOK'
BY DEF PassesOK, PassFits

LEMMA ChildrenGone ==
  ASSUME ChildrenOK, children' \subseteq children, UNCHANGED manifests,
         existing \subseteq existing'
  PROVE  ChildrenOK'
BY DEF ChildrenOK, ChildFits

LEMMA ObjectsKept ==
  ASSUME ObjectsOK, UNCHANGED <<objects, faults>>
  PROVE  ObjectsOK'
BY DEF ObjectsOK, objects

LEMMA InitNames == Init => NamesInv
<1> SUFFICES ASSUME Init PROVE NamesInv
  OBVIOUS
<1>1. ObjectsOK
  BY BoundsAssumption DEF Init, ObjectsOK
<1>2. ChildrenOK
  BY DEF Init, ChildrenOK
<1>3. PassesOK
  BY IdleFits DEF Init, PassesOK
<1> QED
  BY <1>1, <1>2, <1>3 DEF NamesInv

-----------------------------------------------------------------------------
(* The steps of a reconciliation.                                          *)

LEMMA FinalizeKeepsNames ==
  ASSUME NamesInv, NEW k \in Controllers, NEW o \in manifests, Finalize(k, o)
  PROVE  NamesInv'
<1> USE DEF Finalize
<1> DEFINE left(c) == [c EXCEPT !.orphan = @ \/ c.owner = o]
<1>1. ObjectsOK'
  BY DEF NamesInv, ObjectsOK
<1>2. ASSUME NEW c \in children
      PROVE  /\ ChildFits(left(c))'
             /\ left(c).kind = c.kind /\ left(c).name = c.name
  <2>1. ChildFits(c)
    BY DEF NamesInv, ChildrenOK
  <2>2. /\ left(c).kind = c.kind /\ left(c).name = c.name
        /\ left(c).owner = c.owner /\ left(c).mount = c.mount
        /\ left(c).map = c.map /\ left(c).done = c.done
        /\ left(c).orphan = (c.orphan \/ c.owner = o)
        /\ left(c) = [kind |-> c.kind, name |-> c.name, owner |-> c.owner,
                      orphan |-> (c.orphan \/ c.owner = o), mount |-> c.mount,
                      map |-> c.map, done |-> c.done]
    BY <2>1 DEF ChildFits
  <2> HIDE DEF left
  <2> QED
    BY <2>1, <2>2 DEF ChildFits
<1>3. ChildrenOK'
  <2>1. children' = {left(c) : c \in children}
    OBVIOUS
  <2> HIDE DEF left, Finalize
  <2> QED
    BY <1>2, <2>1 DEF NamesInv, ChildrenOK, SameName
<1>4. PassesOK'
  BY DEF NamesInv, PassesOK, PassFits
<1> QED
  BY <1>1, <1>3, <1>4 DEF NamesInv

LEMMA PlanKeepsNames ==
  ASSUME NamesInv, NEW k \in Controllers, NEW o \in manifests, Plan(k, o)
  PROVE  NamesInv'
<1> DEFINE g == GenerationFor(PhaseOf(o), Active(o), Future(o))
           r == [step |-> "build", of |-> {o}, phase |-> PhaseOf(o),
                 todo |-> Builders(o, PhaseOf(o), g), jobs |-> {}]
<1>1. /\ pass' = [pass EXCEPT ![k] = r] /\ o.kind = k /\ o \in existing
      /\ UNCHANGED <<objects, children, faults>>
  BY DEF Plan
<1>2. o \in Objects
  BY DEF NamesInv, ObjectsOK, Objects
<1>3. PassFits(k, r)
  BY <1>1, <1>2, BuildersMount, PhaseType DEF PassFits
<1>4. PassesOK'
  BY <1>1, <1>3, PassReplaced DEF NamesInv, objects
<1> QED
  BY <1>1, <1>4, ObjectsKept, ChildrenGone DEF NamesInv, objects

(* The object of a reconciliation exists and is the only one it is of.     *)
LEMMA OneAtATime ==
  ASSUME NamesInv, NEW k \in Controllers, NEW o \in pass[k].of
  PROVE  o \in existing /\ o \in manifests /\ o.kind = k /\ pass[k].of = {o}
BY DEF NamesInv, ObjectsOK, PassesOK, PassFits

LEMMA DoneKeepsPasses ==
  ASSUME NamesInv, NEW k \in Controllers, Done(k), UNCHANGED existing
  PROVE  PassesOK'
BY IdleFits, PassReplaced DEF NamesInv, Done

LEMMA BuilderDoneKeepsPasses ==
  ASSUME NamesInv, NEW k \in Controllers, NEW o, Building(k, o), BuilderDone(k),
         UNCHANGED existing
  PROVE  /\ PassesOK'
         /\ Head(pass[k].todo).mount # << >>
              => Head(pass[k].todo).kind = "Deployment"
<1> DEFINE r == [pass[k] EXCEPT !.todo = Tail(@)]
<1>1. PassFits(k, pass[k]) /\ pass[k].todo # << >>
  BY DEF NamesInv, PassesOK, Building
<1>2. /\ ListsBuilders(Tail(pass[k].todo))
      /\ Head(pass[k].todo).mount # << >>
           => Head(pass[k].todo).kind = "Deployment"
  BY <1>1, RestOfBuilders DEF PassFits
<1>3. PassFits(k, r)
  <2>1. r = [step |-> pass[k].step, of |-> pass[k].of, phase |-> pass[k].phase,
             todo |-> Tail(pass[k].todo), jobs |-> pass[k].jobs]
    BY <1>1 DEF PassFits
  <2> QED
    BY <1>1, <1>2, <2>1 DEF PassFits
<1>4. pass' = [pass EXCEPT ![k] = r]
  BY DEF BuilderDone
<1> QED
  BY <1>2, <1>3, <1>4, PassReplaced DEF NamesInv

(* New children in the place of old ones, with names nobody else has.      *)
LEMMA ChildrenReplaced ==
  ASSUME ChildrenOK, NEW old, NEW new,
         \A m \in new : ChildFits(m) /\ \A d \in new : SameName(m, d) => m = d,
         \A m \in new, d \in children \ old : ~SameName(m, d),
         children' = (children \ old) \cup new,
         UNCHANGED <<manifests, existing>>
  PROVE  ChildrenOK'
<1>1. \A c \in children' : ChildFits(c)'
  BY DEF ChildrenOK, ChildFits
<1>2. \A c, d \in children' : SameName(c, d) => c = d
  <2>1. \A c, d : SameName(c, d) => SameName(d, c)
    BY DEF SameName
  <2> QED
    BY <2>1 DEF ChildrenOK
<1> QED
  BY <1>1, <1>2 DEF ChildrenOK, SameName

LEMMA CreateKeepsNames ==
  ASSUME NamesInv, NEW k \in Controllers, NEW o \in manifests, Create(k, o)
  PROVE  NamesInv'
<1> DEFINE b == Head(pass[k].todo)
<1>1. /\ Building(k, o) /\ BuilderDone(k) /\ UNCHANGED <<objects, faults>>
      /\ Named(b.kind, b.name) = {}
  BY DEF Create
<1>2. PassesOK' /\ (b.mount # << >> => b.kind = "Deployment")
  BY <1>1, BuilderDoneKeepsPasses DEF objects
<1>3. o \in existing
  BY <1>1, OneAtATime DEF Building, At
<1>4. PICK n : n = NewChild(b.kind, b.name, o, b.mount)
  OBVIOUS
<1>5. ChildFits(n)
  BY <1>2, <1>3, <1>4 DEF ChildFits, NewChild
<1>6. \A c \in children : ~SameName(n, c)
  BY <1>1, <1>4 DEF Named, SameName, NewChild
<1>7. children' = (children \ {}) \cup {n}
  BY <1>4 DEF Create
<1>8. ChildrenOK'
  <2>0. PICK old, new : old = {} /\ new = {n}
    OBVIOUS
  <2>1. \A m \in new : ChildFits(m) /\ \A d \in new : SameName(m, d) => m = d
    BY <1>5, <2>0
  <2>2. \A m \in new, d \in children \ old : ~SameName(m, d)
    BY <1>6, <2>0
  <2>3. /\ ChildrenOK /\ UNCHANGED <<manifests, existing>>
        /\ children' = (children \ old) \cup new
    BY <1>1, <1>7, <2>0 DEF NamesInv, objects
  <2> QED
    BY <2>1, <2>2, <2>3, ChildrenReplaced
<1> QED
  BY <1>1, <1>2, <1>8, ObjectsKept DEF NamesInv

LEMMA UpdateKeepsNames ==
  ASSUME NamesInv, NEW k \in Controllers, NEW o \in manifests, Update(k, o)
  PROVE  NamesInv'
<1> DEFINE b == Head(pass[k].todo)
<1>1. Building(k, o) /\ BuilderDone(k) /\ UNCHANGED <<objects, faults>>
  BY DEF Update
<1>2. PassesOK' /\ (b.mount # << >> => b.kind = "Deployment")
  BY <1>1, BuilderDoneKeepsPasses DEF objects
<1>3. o \in existing
  BY <1>1, OneAtATime DEF Building, At
<1>4. PICK c \in children :
        /\ c.kind = b.kind /\ c.name = b.name
        /\ children' = (children \ {c}) \cup
             {[c EXCEPT !.owner = o, !.orphan = FALSE, !.mount = b.mount]}
  BY DEF Update, Named
<1>5. ChildFits(c)
  BY DEF NamesInv, ChildrenOK
<1>6. PICK n :
        n = [c EXCEPT !.owner = o, !.orphan = FALSE, !.mount = b.mount]
  OBVIOUS
<1>7. children' = (children \ {c}) \cup {n}
  BY <1>4, <1>6
<1>8. ChildFits(n) /\ SameName(n, c)
  <2>1. n = [kind |-> c.kind, name |-> c.name, owner |-> o, orphan |-> FALSE,
             mount |-> b.mount, map |-> c.map, done |-> c.done]
    BY <1>5, <1>6 DEF ChildFits
  <2> QED
    BY <1>2, <1>3, <1>4, <1>5, <2>1 DEF ChildFits, SameName
<1>9. \A d \in children \ {c} : ~SameName(n, d)
  BY <1>8 DEF NamesInv, ChildrenOK, SameName
<1>10. ChildrenOK'
  <2>0. PICK old, new : old = {c} /\ new = {n}
    OBVIOUS
  <2>1. \A m \in new : ChildFits(m) /\ \A d \in new : SameName(m, d) => m = d
    BY <1>8, <2>0
  <2>2. \A m \in new, d \in children \ old : ~SameName(m, d)
    BY <1>9, <2>0
  <2>3. /\ ChildrenOK /\ UNCHANGED <<manifests, existing>>
        /\ children' = (children \ old) \cup new
    BY <1>1, <1>7, <2>0 DEF NamesInv, objects
  <2> QED
    BY <2>1, <2>2, <2>3, ChildrenReplaced
<1> QED
  BY <1>1, <1>2, <1>10, ObjectsKept DEF NamesInv

LEMMA AlreadyOwnedKeepsNames ==
  ASSUME NamesInv, NEW k \in Controllers, NEW o, AlreadyOwned(k, o)
  PROVE  NamesInv'
<1>1. Done(k) /\ UNCHANGED <<objects, children, faults>>
  BY DEF AlreadyOwned
<1> QED
  BY <1>1, DoneKeepsPasses, ObjectsKept, ChildrenGone DEF NamesInv, objects

LEMMA GotoKeepsPasses ==
  ASSUME NamesInv, NEW k \in Controllers, NEW step \in {"collect", "jobs"},
         NEW jobs, UNCHANGED existing,
         pass' = [pass EXCEPT ![k] = [pass[k] EXCEPT !.step = step, !.jobs = jobs]]
  PROVE  PassesOK'
<1>1. PassFits(k, pass[k])
  BY DEF NamesInv, PassesOK
<1>2. PICK r : r = [pass[k] EXCEPT !.step = step, !.jobs = jobs]
  OBVIOUS
<1>3. r = [step |-> step, of |-> pass[k].of, phase |-> pass[k].phase,
           todo |-> pass[k].todo, jobs |-> jobs]
  BY <1>1, <1>2 DEF PassFits
<1>4. PassFits(k, r)
  BY <1>1, <1>3 DEF PassFits
<1> QED
  BY <1>2, <1>4, PassReplaced DEF NamesInv

LEMMA RecordKeepsNames ==
  ASSUME NamesInv, NEW k \in Controllers, NEW o, SetLastAppliedSpec(k, o)
  PROVE  NamesInv'
<1>1. UNCHANGED <<manifests, existing, deleting, lives, children, faults>>
  BY DEF SetLastAppliedSpec
<1>2. o \in existing
  BY OneAtATime DEF SetLastAppliedSpec, At
<1>3. ObjectsOK'
  BY <1>1, <1>2 DEF NamesInv, ObjectsOK, SetLastAppliedSpec
<1>4. PassesOK'
  <2>1. CASE Done(k)
    BY <1>1, <2>1, DoneKeepsPasses
  <2>2. CASE Goto(k, "collect")
    <3>1. pass[k] = [step |-> pass[k].step, of |-> pass[k].of,
             phase |-> pass[k].phase, todo |-> pass[k].todo,
             jobs |-> pass[k].jobs]
      BY DEF NamesInv, PassesOK, PassFits
    <3>2. [pass[k] EXCEPT !.step = "collect"]
            = [pass[k] EXCEPT !.step = "collect", !.jobs = pass[k].jobs]
      BY <3>1
    <3>3. pass' = [pass EXCEPT ![k] = [pass[k] EXCEPT !.step = "collect",
                                          !.jobs = pass[k].jobs]]
      BY <2>2, <3>2 DEF Goto
    <3> QED
      BY <1>1, <3>3, GotoKeepsPasses
  <2> QED
    BY <2>1, <2>2 DEF SetLastAppliedSpec
<1> QED
  BY <1>1, <1>3, <1>4, ChildrenGone DEF NamesInv

LEMMA CollectKeepsNames ==
  ASSUME NamesInv, NEW k \in Controllers, NEW o, Collect(k, o)
  PROVE  NamesInv'
<1>1. UNCHANGED <<objects, faults>> /\ children' \subseteq children
  BY DEF Collect
<1>2. PassesOK'
  <2>1. CASE Done(k)
    BY <1>1, <2>1, DoneKeepsPasses DEF objects
  <2>2. CASE \E jobs : pass' = [pass EXCEPT ![k] =
                         [pass[k] EXCEPT !.step = "jobs", !.jobs = jobs]]
    BY <1>1, <2>2, GotoKeepsPasses DEF objects
  <2>3. pass' = [pass EXCEPT ![k].step = "jobs", ![k].jobs =
                   {j.name : j \in Unexpected(o, pass[k].phase, "Job")}]
          => \E jobs : pass' = [pass EXCEPT ![k] =
                         [pass[k] EXCEPT !.step = "jobs", !.jobs = jobs]]
    BY DEF NamesInv, PassesOK
  <2> QED
    BY <2>1, <2>2, <2>3 DEF Collect
<1> QED
  BY <1>1, <1>2, ObjectsKept, ChildrenGone DEF NamesInv, objects

LEMMA CollectJobsKeepsNames ==
  ASSUME NamesInv, NEW k \in Controllers, NEW o, CollectJobs(k, o)
  PROVE  NamesInv'
<1>1. Done(k) /\ UNCHANGED <<objects, faults>> /\ children' \subseteq children
  BY DEF CollectJobs
<1> QED
  BY <1>1, DoneKeepsPasses, ObjectsKept, ChildrenGone DEF NamesInv, objects

LEMMA AbandonKeepsNames ==
  ASSUME NamesInv, NEW k \in Controllers, NEW o, Abandon(k, o)
  PROVE  NamesInv'
<1>1. Done(k) /\ UNCHANGED <<objects, children>>
  BY DEF Abandon
<1>2. ObjectsOK'
  BY <1>1, BoundsAssumption DEF NamesInv, ObjectsOK, objects, Abandon
<1> QED
  BY <1>1, <1>2, DoneKeepsPasses, ChildrenGone DEF NamesInv, objects

-----------------------------------------------------------------------------
(* The steps of Kubernetes and of the user.                                *)

LEMMA JobCompletesKeepsNames ==
  ASSUME NamesInv, NEW o, JobCompletes(o)
  PROVE  NamesInv'
<1>1. PICK j \in children, v \in children :
        /\ j.kind = "Job" /\ v.kind = "PersistentVolumeClaim"
        /\ v.name = j.name
        /\ children' = (children \ {j, v}) \cup
                  {[j EXCEPT !.done = TRUE], [v EXCEPT !.map = {j.owner}]}
        /\ UNCHANGED <<objects, pass, faults>>
  BY DEF JobCompletes
<1>2. ChildFits(j) /\ ChildFits(v)
  BY DEF NamesInv, ChildrenOK
<1>3. PICK m, w : m = [j EXCEPT !.done = TRUE] /\ w = [v EXCEPT !.map = {j.owner}]
  OBVIOUS
<1>4. m = [kind |-> j.kind, name |-> j.name, owner |-> j.owner,
           orphan |-> j.orphan, mount |-> j.mount, map |-> j.map, done |-> TRUE]
  BY <1>2, <1>3 DEF ChildFits
<1>5. w = [kind |-> v.kind, name |-> v.name, owner |-> v.owner,
           orphan |-> v.orphan, mount |-> v.mount, map |-> {j.owner},
           done |-> v.done]
  BY <1>2, <1>3 DEF ChildFits
<1>6. children' = (children \ {j, v}) \cup {m, w}
  BY <1>1, <1>3
<1>7. ChildFits(m) /\ ChildFits(w) /\ SameName(m, j) /\ SameName(w, v)
  BY <1>2, <1>4, <1>5 DEF ChildFits, SameName
<1>8. ~SameName(m, w) /\ ~SameName(w, m)
  BY <1>1, <1>4, <1>5 DEF SameName
<1>9. \A d \in children \ {j, v} : ~SameName(m, d) /\ ~SameName(w, d)
  BY <1>7 DEF NamesInv, ChildrenOK, SameName
<1>10. ChildrenOK'
  <2>0. PICK old, new : old = {j, v} /\ new = {m, w}
    OBVIOUS
  <2>1. \A a \in new : ChildFits(a) /\ \A d \in new : SameName(a, d) => a = d
    BY <1>7, <1>8, <2>0
  <2>2. \A a \in new, d \in children \ old : ~SameName(a, d)
    BY <1>9, <2>0
  <2>3. /\ ChildrenOK /\ UNCHANGED <<manifests, existing>>
        /\ children' = (children \ old) \cup new
    BY <1>1, <1>6, <2>0 DEF NamesInv, objects
  <2> QED
    BY <2>1, <2>2, <2>3, ChildrenReplaced
<1> QED
  BY <1>1, <1>10, ObjectsKept, PassKept DEF NamesInv, objects

LEMMA OthersKeepNames ==
  ASSUME NamesInv,
         \/ CollectOrphan
         \/ \E o \in manifests : UserCreates(o) \/ UserDeletes(o)
         \/ UNCHANGED vars
  PROVE  NamesInv'
<1>1. UNCHANGED <<manifests, pass>> /\ children' \subseteq children
      /\ existing \subseteq existing'
  BY DEF CollectOrphan, UserCreates, UserDeletes, vars, objects
<1>2. ObjectsOK'
  BY BoundsAssumption DEF NamesInv, ObjectsOK, CollectOrphan, UserCreates,
     UserDeletes, vars, objects
<1> QED
  BY <1>1, <1>2, ChildrenGone, PassKept DEF NamesInv

LEMMA NextKeepsNames == NamesInv /\ [Next]_vars => NamesInv'
<1> SUFFICES ASSUME NamesInv, [Next]_vars PROVE NamesInv'
  OBVIOUS
<1>1. ASSUME NEW k \in Controllers, Reconcile(k) PROVE NamesInv'
  BY <1>1, FinalizeKeepsNames, PlanKeepsNames, CreateKeepsNames,
     UpdateKeepsNames, AlreadyOwnedKeepsNames, RecordKeepsNames,
     CollectKeepsNames, CollectJobsKeepsNames DEF Reconcile
<1> QED
  BY <1>1, AbandonKeepsNames, JobCompletesKeepsNames, OthersKeepNames DEF Next

LEMMA AlwaysNames == Spec => []NamesInv
BY InitNames, NextKeepsNames, PTL DEF Spec

(* No two children have one kind and one name, only the children of an     *)
(* object that is gone are orphans, and a reconciliation is of an object   *)
(* that exists.                                                            *)
THEOREM TypeCorrect == Spec => []TypeOK
BY AlwaysNames, InvariantTypes, PTL

-----------------------------------------------------------------------------
(* No two objects of a namespace have one name, not even of two kinds.     *)
DistinctNames ==
  \A m \in Namespaces : \A o, q \in m : o.name = q.name => o = q

(* What a step that is the reconciliation of k changes or deletes.         *)
Keeps(k) ==
  \A c \in children \ children', o \in pass[k].of :
    c.owner = o \/ (c.kind = "Job" /\ c.name \in pass[k].jobs)

LEMMA LabelledIsOwn ==
  ASSUME NamesInv, DistinctNames, NEW o \in manifests, NEW kind,
         NEW c \in Labelled(o, kind)
  PROVE  c.owner = o
BY DEF NamesInv, ObjectsOK, ChildrenOK, ChildFits, DistinctNames, Labelled

LEMMA UpdateKeepsOwn ==
  ASSUME NamesInv, NEW k \in Controllers, NEW o, Update(k, o)
  PROVE  Keeps(k)
<1>1. pass[k].of = {o}
  BY OneAtATime DEF Update, Building, At
<1>2. \A c \in children \ children' : c.owner = o
  BY DEF Update, OwnedBy
<1> QED
  BY <1>1, <1>2 DEF Keeps

LEMMA CollectKeepsOwn ==
  ASSUME NamesInv, DistinctNames, NEW k \in Controllers, NEW o, Collect(k, o)
  PROVE  Keeps(k)
<1>1. pass[k].of = {o} /\ o \in manifests
  BY OneAtATime DEF Collect, At
<1>2. \A c \in UnexpectedServing(o) : \E kind : c \in Labelled(o, kind)
  BY DEF UnexpectedServing
<1>3. \A c \in Unexpected(o, pass[k].phase, "PersistentVolumeClaim") :
        c \in Labelled(o, "PersistentVolumeClaim")
  BY DEF Unexpected
<1>4. \A c \in children \ children' : \E kind : c \in Labelled(o, kind)
  BY <1>2, <1>3 DEF Collect
<1> QED
  BY <1>1, <1>4, LabelledIsOwn DEF Keeps

(* Only the reconciliation of its controller takes a step.                 *)
LEMMA OneReconciles ==
  ASSUME NamesInv, NEW k \in Controllers, NEW r, pass' = [pass EXCEPT ![k] = r],
         NEW j \in Controllers, j # k
  PROVE  pass'[j] = pass[j]
BY DEF NamesInv, PassesOK

LEMMA ReconcileKeepsOwn ==
  ASSUME NamesInv, DistinctNames, NEW k \in Controllers, Reconcile(k),
         NEW j \in Controllers, pass'[j] # pass[j]
  PROVE  Keeps(j)
<1>1. PICK o \in manifests :
        \/ Finalize(k, o) \/ Plan(k, o) \/ Create(k, o) \/ Update(k, o)
        \/ AlreadyOwned(k, o) \/ SetLastAppliedSpec(k, o)
        \/ Collect(k, o) \/ CollectJobs(k, o)
  BY DEF Reconcile
<1>2. CASE Finalize(k, o)
  BY <1>2 DEF Finalize
<1>3. CASE children \subseteq children'
  BY <1>3 DEF Keeps
<1>4. CASE Update(k, o) \/ Collect(k, o) \/ CollectJobs(k, o)
  <2>1. \E r : pass' = [pass EXCEPT ![k] = r]
    BY <1>4 DEF NamesInv, PassesOK, Update, Collect, CollectJobs, BuilderDone, Done
  <2>2. j = k
    BY <2>1, OneReconciles
  <2>3. CASE Update(k, o)
    BY <2>2, <2>3, UpdateKeepsOwn
  <2>4. CASE Collect(k, o)
    BY <2>2, <2>4, CollectKeepsOwn
  <2>5. CASE CollectJobs(k, o)
    BY <2>2, <2>5 DEF Keeps, CollectJobs
  <2> QED
    BY <1>4, <2>3, <2>4, <2>5
<1>5. Plan(k, o) \/ Create(k, o) \/ AlreadyOwned(k, o) \/ SetLastAppliedSpec(k, o)
        => children \subseteq children'
  BY DEF Plan, Create, AlreadyOwned, SetLastAppliedSpec
<1> QED
  BY <1>1, <1>2, <1>3, <1>4, <1>5

LEMMA NextKeepsOwn ==
  ASSUME NamesInv, DistinctNames, [Next]_vars, NEW k \in Controllers,
         pass'[k] # pass[k]
  PROVE  Keeps(k)
<1>1. CASE \E j \in Controllers : Reconcile(j)
  BY <1>1, ReconcileKeepsOwn
<1>2. CASE \E j \in Controllers, o \in manifests : Abandon(j, o)
  BY <1>2 DEF Abandon, Keeps
<1>3. UNCHANGED vars => UNCHANGED pass
  BY DEF vars
<1>4. (\E o \in manifests : JobCompletes(o) \/ UserCreates(o) \/ UserDeletes(o))
        => UNCHANGED pass
  BY DEF JobCompletes, UserCreates, UserDeletes
<1>5. CollectOrphan => UNCHANGED pass
  BY DEF CollectOrphan
<1> QED
  BY <1>1, <1>2, <1>3, <1>4, <1>5 DEF Next

(* A reconciliation changes and deletes only the children of its own       *)
(* object, however many objects want the same names, are deleted and       *)
(* created again: unless two objects of a namespace share one name, and    *)
(* with it the label the garbage collection selects by.                    *)
THEOREM KeepsToOwnTheorem ==
  ASSUME DistinctNames
  PROVE  Spec => KeepsToOwn
<1>1. NamesInv /\ [Next]_vars
        => [\A k \in Controllers : pass'[k] # pass[k] =>
              \A c \in children \ children', o \in pass[k].of :
                c.owner = o \/ (c.kind = "Job" /\ c.name \in pass[k].jobs)]_vars
  BY NextKeepsOwn DEF Keeps
<1> QED
  BY <1>1, AlwaysNames, PTL DEF Spec, KeepsToOwn

-----------------------------------------------------------------------------
(* Whose map a Deployment serves.                                          *)

Lived(o) == \E i \in DOMAIN lives : lives[i] = o

(* The object exists, and for the first time.                              *)
FirstLife(o) == o \in existing /\ CreatedOnce(o)

(* What exists was created, and what an object in its first life created   *)
(* has not lost its owner.                                                 *)
HistoryInv ==
  /\ \A o \in existing : Lived(o)
  /\ \A c \in children :
       Lived(c.owner) /\ (c.orphan => ~FirstLife(c.owner))

IsVolume(c) == c.kind = "PersistentVolumeClaim"

(* A Job that has completed has put the map of its owner into the volume   *)
(* of its name, or that volume is gone and another one is empty.           *)
JobMaps ==
  \A j, v \in children :
    j.kind = "Job" /\ j.done /\ IsVolume(v) /\ v.name = j.name
      => v.map \subseteq {j.owner}

OwnVolume(o, n) ==
  \E v \in children : IsVolume(v) /\ v.name = n /\ v.owner = o /\ ~v.orphan

(* A reconciliation builds a Job only beside a volume of its own.          *)
VolumeFirst(k) ==
  \A o \in pass[k].of : pass[k].step = "build" =>
    \A i \in DOMAIN pass[k].todo : pass[k].todo[i].kind = "Job" =>
      \/ OwnVolume(o, pass[k].todo[i].name)
      \/ \E j \in 1 .. i - 1 :
           /\ IsVolume(pass[k].todo[j])
           /\ pass[k].todo[j].name = pass[k].todo[i].name

(* What belongs to an object: its children and the builders of its         *)
(* reconciliation.                                                         *)
Mine(o, b) ==
  \/ b \in children /\ b.owner = o
  \/ \E k \in Controllers :
       o \in pass[k].of /\ \E i \in DOMAIN pass[k].todo : b = pass[k].todo[i]

IsClaim(o, n) ==
  \E p \in ProfileSet(o.profiles), g \in Gen : n = ClaimName(o, p, g)

WellMade(o) ==
  \A b : Mine(o, b) =>
    /\ IsVolume(b) => IsClaim(o, b.name)
    /\ b.kind = "Deployment" /\ o.kind = "OSRMInstance" => b.mount # << >>

(* The first profile's Deployment, from which the active generation is     *)
(* read.                                                                   *)
IsLeader(o, b) ==
  /\ 1 \in DOMAIN o.profiles
  /\ b.kind = "Deployment" /\ b.name = WorkerName(o, o.profiles[1])

Leads(o) ==
  \E d \in children : IsLeader(o, d) /\ d.owner = o

(* It is the first Deployment an object gets.                              *)
LeaderFirst(o) ==
  /\ \A d \in children : d.kind = "Deployment" /\ d.owner = o => Leads(o)
  /\ \A k \in Controllers : o \in pass[k].of =>
       \A i \in DOMAIN pass[k].todo : pass[k].todo[i].kind = "Deployment" =>
         \/ Leads(o)
         \/ \E j \in 1 .. i : IsLeader(o, pass[k].todo[j])

(* The object's own volume of this name has no other map and gets none.    *)
Secure(o, n) ==
  /\ \E v \in children :
       IsVolume(v) /\ v.name = n /\ v.owner = o /\ v.map \subseteq {o}
  /\ \A j \in children : j.kind = "Job" /\ j.name = n => j.owner = o

Mounting(o) == \E b : Mine(o, b) /\ b.mount # << >>

(* All that the object mounts and will mount is of one generation, the     *)
(* newest it has; since its spec does not change there is never another.   *)
Settled(o, g) ==
  /\ g \in Gen /\ o \in recorded
  /\ \A p \in ProfileSet(o.profiles) : Secure(o, ClaimName(o, p, g))
  /\ \A b : Mine(o, b) =>
       /\ b.mount # << >> =>
            \E p \in ProfileSet(o.profiles) : b.mount = ClaimName(o, p, g)
       /\ IsVolume(b) => GenerationOf(b.name) <= g

Settles(o) ==
  FirstLife(o) /\ Mounting(o) => \E g \in Gen : Settled(o, g)

WorkInPlace ==
  \A k \in Controllers : pass[k].step # "build" => pass[k].todo = << >>

MapsInv ==
  /\ HistoryInv /\ JobMaps /\ WorkInPlace
  /\ \A k \in Controllers : VolumeFirst(k)
  /\ \A o \in manifests : WellMade(o)
  /\ \A o \in manifests : FirstLife(o) => LeaderFirst(o)
  /\ \A o \in manifests : Settles(o)

-----------------------------------------------------------------------------
(* Names and generations.                                                  *)

LEMMA ClaimGeneration ==
  ASSUME NEW o \in Objects, NEW p, NEW g \in Gen
  PROVE  ClaimName(o, p, g) # << >> /\ GenerationOf(ClaimName(o, p, g)) = g
<1>1. PICK t : t = ToString(g)
  OBVIOUS
<1>2. t # "" /\ \A h \in Gen : ToString(h) = t => h = g
  BY <1>1, NumeralsAssumption
<1>3. o.name \in Seq(Range(o.name))
  BY ObjectsAssumption
<1>4. PICK a : a = o.name \o Part(p)
  OBVIOUS
<1>5. PICK S : S = Range(o.name) \cup {p}
  OBVIOUS
<1>6. a \in Seq(S)
  <2>1. o.name \in Seq(S)
    BY <1>3, <1>5
  <2>2. Part(p) \in Seq(S)
    <3>1. p \in S
      BY <1>5
    <3>2. << >> \in Seq(S) /\ <<p>> \in Seq(S)
      BY <3>1
    <3> QED
      BY <3>2 DEF Part
  <2> QED
    BY <1>4, <2>1, <2>2
<1>7. ClaimName(o, p, g) = a \o <<t>>
  BY <1>1, <1>2, <1>4 DEF ClaimName, ChildResourceName, Part
<1>8. Len(a \o <<t>>) = Len(a) + 1 /\ (a \o <<t>>)[Len(a) + 1] = t
  BY <1>6
<1>9. Last(ClaimName(o, p, g)) = t /\ ClaimName(o, p, g) # << >>
  BY <1>6, <1>7, <1>8 DEF Last
<1> QED
  BY <1>1, <1>2, <1>9 DEF GenerationOf

LEMMA GreatestGeneration ==
  ASSUME NEW T \in SUBSET Gen, T # {}
  PROVE  \E x \in T : \A y \in T : y <= x
<1> DEFINE R == {MaxGen - y : y \in T}
<1>1. MaxGen \in Nat /\ \A y \in T : y \in Nat /\ y <= MaxGen
  BY BoundsAssumption DEF Gen
<1>2. R \subseteq Nat /\ R # {}
  BY <1>1
<1>3. PICK z \in R : \A r \in R : z <= r
  BY <1>2, LeastNatural
<1>4. PICK x \in T : z = MaxGen - x
  OBVIOUS
<1>5. ASSUME NEW y \in T PROVE y <= x
  <2>1. z <= MaxGen - y
    BY <1>3
  <2> QED
    BY <1>1, <1>4, <2>1
<1> QED
  BY <1>5

LEMMA OwnVolumes ==
  ASSUME NamesInv, MapsInv, DistinctNames, NEW o \in manifests,
         NEW c \in Volumes(o)
  PROVE  /\ c \in children /\ IsVolume(c) /\ c.owner = o /\ Mine(o, c)
         /\ GenerationOf(c.name) \in Gen
<1>1. c \in children /\ IsVolume(c) /\ c.owner = o
  BY LabelledIsOwn DEF Volumes, Labelled, IsVolume
<1>2. IsClaim(o, c.name)
  BY <1>1 DEF MapsInv, WellMade, Mine
<1>3. o \in Objects
  BY DEF NamesInv, ObjectsOK, Objects
<1>4. GenerationOf(c.name) \in Gen
  BY <1>2, <1>3, ClaimGeneration DEF IsClaim
<1> QED
  BY <1>1, <1>4 DEF Mine

(* The newest generation is one of those there are, or 1.                  *)
LEMMA FutureIsNewest ==
  ASSUME NamesInv, MapsInv, DistinctNames, NEW o \in manifests
  PROVE  /\ \A c \in Volumes(o) : GenerationOf(c.name) <= Future(o)
         /\ Future(o) = 1 \/ \E c \in Volumes(o) : Future(o) = GenerationOf(c.name)
<1> DEFINE pvcs == {<<c.name, GenerationOf(c.name)>> : c \in Volumes(o)}
           gens == {1} \cup {c[2] : c \in pvcs}
           G == {GenerationOf(c.name) : c \in Volumes(o)}
<1>1. gens = {1} \cup G
  <2>1. \A c \in Volumes(o) :
          <<c.name, GenerationOf(c.name)>>[2] = GenerationOf(c.name)
    OBVIOUS
  <2>2. {c[2] : c \in pvcs} = G
    BY <2>1, Zenon
  <2> QED
    BY <2>2
<1>2. G \in SUBSET Gen
  BY OwnVolumes
<1>3. \E g \in gens : \A h \in gens : h <= g
  <2>1. CASE G = {}
    BY <1>1, <2>1
  <2>2. CASE G # {}
    <3>1. PICK x \in G : \A y \in G : y <= x
      BY <1>2, <2>2, GreatestGeneration
    <3>2. 1 <= x
      BY <1>2, BoundsAssumption DEF Gen
    <3> HIDE DEF G
    <3> QED
      BY <1>1, <3>1, <3>2
  <2> QED
    BY <2>1, <2>2
<1>4. /\ GetFutureMapGeneration(pvcs) \in gens
      /\ \A h \in gens : h <= GetFutureMapGeneration(pvcs)
  <2> HIDE DEF pvcs
  <2> QED
    BY <1>3 DEF GetFutureMapGeneration
<1>5. Future(o) = GetFutureMapGeneration(pvcs)
  BY DEF Future
<1> QED
  BY <1>1, <1>4, <1>5

(* An object's reconciliation is that of its kind's controller.            *)
LEMMA PassOf ==
  ASSUME NamesInv, NEW k \in Controllers, NEW o \in pass[k].of
  PROVE  /\ o \in manifests /\ o \in existing /\ o.kind = k /\ pass[k].of = {o}
         /\ \A j \in Controllers : o \in pass[j].of => j = k
<1>1. o \in manifests /\ o \in existing /\ o.kind = k /\ pass[k].of = {o}
  BY OneAtATime
<1>2. \A j \in Controllers : o \in pass[j].of => j = k
  BY <1>1 DEF NamesInv, PassesOK, PassFits
<1> QED
  BY <1>1, <1>2

(* Once an object mounts maps, of generation g, that is the generation its *)
(* first Deployment shows, or the reconciliation panics.                   *)
LEMMA ActiveSettled ==
  ASSUME NamesInv, MapsInv, NEW o \in manifests, Leads(o), ~Panics(o),
         Mounting(o), NEW g \in Gen, Settled(o, g)
  PROVE  Active(o) = g /\ Deployed(o)[o.profiles[1]] # 0
<1> DEFINE p1 == o.profiles[1]
           P == ProfileSet(o.profiles)
<1>0. o \in Objects /\ o.kind \in Controllers
  BY ObjectsAssumption DEF NamesInv, ObjectsOK, Objects
<1>1. 1 \in DOMAIN o.profiles /\ p1 \in P /\ \A i \in DOMAIN o.profiles : i \in Nat /\ 1 <= i
  <2>1. PICK p \in P : TRUE
    BY DEF Mounting, Settled
  <2>2. o.profiles \in Seq(P)
    BY <1>0, ObjectsAssumption
  <2>3. \E i \in DOMAIN o.profiles : TRUE
    BY <2>1 DEF ProfileSet
  <2>4. DOMAIN o.profiles = 1 .. Len(o.profiles) /\ Len(o.profiles) \in Nat
    BY <2>2
  <2>5. 1 \in DOMAIN o.profiles
    BY <2>3, <2>4
  <2> QED
    BY <2>4, <2>5 DEF ProfileSet
<1>2. PICK d \in children :
        d.kind = "Deployment" /\ d.name = WorkerName(o, p1) /\ d.owner = o
  BY DEF Leads, IsLeader
<1>3. Worker(o, p1) = {d}
  BY <1>2 DEF Worker, Named, NamesInv, ChildrenOK, SameName
<1>4. Deployed(o)[p1] = MountedGeneration(d)
  <2>1. Deployed(o)[p1] = IF Worker(o, p1) = {} THEN 0
                          ELSE MountedGeneration(CHOOSE e \in Worker(o, p1) : TRUE)
    BY <1>1 DEF Deployed
  <2>2. (CHOOSE e \in Worker(o, p1) : TRUE) = d
    BY <1>3
  <2> QED
    BY <1>3, <2>1, <2>2
<1>5. d.mount # << >>
  <2> SUFFICES ASSUME d.mount = << >> PROVE FALSE
    OBVIOUS
  <2>1. o.kind # "OSRMInstance"
    BY <1>2 DEF MapsInv, WellMade, Mine
  <2>2. o.kind = "OSRMCluster"
    BY <1>0, <2>1 DEF Controllers
  <2>3. FirstDeployed(o.profiles, Deployed(o), 1)
    BY <1>1, <1>4 DEF FirstDeployed, MountedGeneration
  <2> QED
    BY <1>1, <1>2, <1>3, <2>2, <2>3 DEF Panics
<1>6. PICK p \in P : d.mount = ClaimName(o, p, g)
  BY <1>2, <1>5 DEF Settled, Mine
<1>7. Deployed(o)[p1] = g
  BY <1>0, <1>4, <1>5, <1>6, ClaimGeneration DEF MountedGeneration
<1>8. g \in Nat /\ g # 0
  BY BoundsAssumption DEF Gen
<1>9. FirstDeployed(o.profiles, Deployed(o), 1)
  BY <1>1, <1>7, <1>8 DEF FirstDeployed
<1>10. ASSUME NEW i \in DOMAIN o.profiles, FirstDeployed(o.profiles, Deployed(o), i)
       PROVE  i = 1
  <2>1. 1 < i => Deployed(o)[o.profiles[1]] = 0
    BY <1>1, <1>10 DEF FirstDeployed
  <2>2. ~(1 < i)
    BY <1>7, <1>8, <2>1
  <2> QED
    BY <1>1, <2>2
<1>11. (CHOOSE i \in DOMAIN o.profiles : FirstDeployed(o.profiles, Deployed(o), i)) = 1
  BY <1>1, <1>9, <1>10
<1>12. Active(o) = Deployed(o)[p1]
  BY <1>1, <1>9, <1>11 DEF Active, GetActiveMapGeneration
<1> QED
  BY <1>7, <1>8, <1>12

-----------------------------------------------------------------------------
(* What the steps do to all this.  Most take away: a child is lost or      *)
(* orphaned, a reconciliation ends or goes on to collect, its work done.   *)
(* They leave the volumes of a reconciliation that builds, and of an       *)
(* object in its first life its leader and the volumes it mounts.          *)

Faded(c, d) ==
  /\ c.kind = d.kind /\ c.name = d.name /\ c.owner = d.owner
  /\ c.mount = d.mount /\ c.map = d.map /\ c.done = d.done

NeededBy(o, c) ==
  \/ IsLeader(o, c)
  \/ /\ IsVolume(c) /\ Mounting(o)
     /\ \E g \in Gen, p \in ProfileSet(o.profiles) :
          Settled(o, g) /\ c.name = ClaimName(o, p, g)

PassEnds(k) ==
  \/ pass'[k] = pass[k]
  \/ pass'[k] = Idle
  \/ /\ pass'[k].of = pass[k].of /\ pass'[k].step # "build"
     /\ pass'[k].todo = << >> /\ pass[k].todo = << >>

Fading ==
  /\ HistoryInv' /\ UNCHANGED manifests
  /\ \A c \in children' :
       c \in children \/ (c.orphan /\ \E d \in children : Faded(c, d))
  /\ \A k \in Controllers : PassEnds(k)
  /\ \A o : FirstLife(o)' =>
       (FirstLife(o) \/ ~Lived(o)) /\ (o \in recorded => o \in recorded')
  /\ \A k \in Controllers : \A o \in pass'[k].of : pass'[k].step = "build" =>
       \A c \in children :
         IsVolume(c) /\ c.owner = o /\ ~c.orphan => c \in children'
  /\ \A o \in manifests : FirstLife(o) /\ FirstLife(o)' =>
       \A c \in children : c.owner = o /\ NeededBy(o, c) => c \in children'

(* Nothing comes to an object that it did not have or plan.                *)
NothingNew(o) ==
  \A b : Mine(o, b)' =>
    \E a : Mine(o, a) /\ a.kind = b.kind /\ a.name = b.name /\ a.mount = b.mount

LEMMA WellMadeKept ==
  ASSUME NEW o, WellMade(o), NothingNew(o)
  PROVE  WellMade(o)'
<1>1. ASSUME NEW b, Mine(o, b)'
      PROVE  /\ IsVolume(b) => IsClaim(o, b.name)
             /\ b.kind = "Deployment" /\ o.kind = "OSRMInstance" => b.mount # << >>
  BY <1>1 DEF WellMade, NothingNew, IsVolume
<1> QED
  BY <1>1 DEF WellMade, IsVolume, IsClaim

LEMMA SettlesKept ==
  ASSUME NEW o, FirstLife(o)' => FirstLife(o), Settles(o), NothingNew(o),
         FirstLife(o)' /\ o \in recorded => o \in recorded',
         FirstLife(o)' /\ Mounting(o) =>
           \A g \in Gen, p \in ProfileSet(o.profiles) :
             Settled(o, g) => Secure(o, ClaimName(o, p, g))'
  PROVE  Settles(o)'
<1> SUFFICES ASSUME FirstLife(o)', Mounting(o)'
             PROVE  \E g \in Gen : Settled(o, g)'
  BY DEF Settles
<1>1. Mounting(o)
  <2>1. PICK b : Mine(o, b)' /\ b.mount # << >>
    BY DEF Mounting
  <2> QED
    BY <2>1 DEF Mounting, NothingNew
<1>2. PICK g \in Gen : Settled(o, g)
  BY <1>1 DEF Settles
<1>3. ASSUME NEW b, Mine(o, b)'
      PROVE  /\ b.mount # << >> =>
                  \E p \in ProfileSet(o.profiles) : b.mount = ClaimName(o, p, g)
             /\ IsVolume(b) => GenerationOf(b.name) <= g
  BY <1>2, <1>3 DEF NothingNew, Settled, IsVolume
<1>4. \A p \in ProfileSet(o.profiles) : Secure(o, ClaimName(o, p, g))'
  BY <1>1, <1>2
<1>5. o \in recorded'
  BY <1>2 DEF Settled
<1>6. Settled(o, g)'
  BY <1>3, <1>4, <1>5 DEF Settled, IsVolume
<1> QED
  BY <1>6

-----------------------------------------------------------------------------
(* A step that takes away.                                                 *)

LEMMA FadingBringsNothing ==
  ASSUME Fading, NEW o PROVE NothingNew(o)
<1> SUFFICES ASSUME NEW b, Mine(o, b)'
             PROVE  \E a : Mine(o, a) /\ a.kind = b.kind /\ a.name = b.name
                             /\ a.mount = b.mount
  BY DEF NothingNew
<1>1. CASE b \in children' /\ b.owner = o
  <2>1. CASE b \in children
    BY <1>1, <2>1 DEF Mine
  <2>2. CASE \E d \in children : Faded(b, d)
    <3>1. PICK d \in children : Faded(b, d)
      BY <2>2
    <3> QED
      BY <1>1, <3>1 DEF Mine, Faded
  <2> QED
    BY <1>1, <2>1, <2>2 DEF Fading
<1>2. ASSUME NEW k \in Controllers, o \in pass'[k].of,
             NEW i \in DOMAIN pass'[k].todo, b = pass'[k].todo[i]
      PROVE  Mine(o, b)
  <2>1. pass'[k] = pass[k] \/ pass'[k] = Idle \/ pass'[k].todo = << >>
    BY DEF Fading, PassEnds
  <2>2. pass'[k] = pass[k]
    BY <1>2, <2>1 DEF Idle
  <2> QED
    BY <1>2, <2>2 DEF Mine
<1> QED
  BY <1>1, <1>2 DEF Mine

LEMMA FadingKeepsMaps ==
  ASSUME NamesInv, MapsInv, Fading
  PROVE  MapsInv'
<1>1. JobMaps'
  <2> SUFFICES ASSUME NEW j \in children', NEW v \in children', j.kind = "Job",
                      j.done, IsVolume(v), v.name = j.name
               PROVE  v.map \subseteq {j.owner}
    BY DEF JobMaps, IsVolume
  <2>1. PICK a \in children : Faded(j, a)
    BY DEF Fading, Faded
  <2>2. PICK b \in children : Faded(v, b)
    BY DEF Fading, Faded
  <2> QED
    BY <2>1, <2>2 DEF MapsInv, JobMaps, Faded, IsVolume
<1>2. WorkInPlace'
  <2> SUFFICES ASSUME NEW k \in Controllers, pass'[k].step # "build"
               PROVE  pass'[k].todo = << >>
    BY DEF WorkInPlace
  <2> QED
    BY DEF Fading, PassEnds, MapsInv, WorkInPlace, Idle
<1>3. ASSUME NEW k \in Controllers PROVE VolumeFirst(k)'
  <2>1. ASSUME NEW n, NEW o, OwnVolume(o, n), o \in pass'[k].of,
               pass'[k].step = "build"
        PROVE  OwnVolume(o, n)'
    BY <2>1 DEF OwnVolume, Fading, IsVolume
  <2>2. ASSUME NEW o \in pass'[k].of, pass'[k].step = "build",
               NEW i \in DOMAIN pass'[k].todo, pass'[k].todo[i].kind = "Job",
               NEW n, n = pass'[k].todo[i].name
        PROVE  \/ OwnVolume(o, n)'
               \/ \E j \in 1 .. i - 1 :
                    IsVolume(pass'[k].todo[j]) /\ pass'[k].todo[j].name = n
    <3>1. pass'[k] = pass[k]
      BY <2>2 DEF Fading, PassEnds, Idle
    <3>2. VolumeFirst(k)
      BY DEF MapsInv
    <3> QED
      BY <2>1, <2>2, <3>1, <3>2 DEF VolumeFirst
  <2> QED
    BY <2>2 DEF VolumeFirst, IsVolume, OwnVolume
<1>4. ASSUME NEW o \in manifests PROVE WellMade(o)'
  BY <1>4, WellMadeKept, FadingBringsNothing DEF MapsInv
<1>5. ASSUME NEW o \in manifests, FirstLife(o)', ~FirstLife(o)
      PROVE  \A b : ~Mine(o, b)'
  <2>1. ~Lived(o)
    BY <1>5 DEF Fading
  <2>2. \A c \in children : c.owner # o
    BY <2>1 DEF MapsInv, HistoryInv
  <2>3. \A k \in Controllers : o \notin pass[k].of
    BY <2>1, OneAtATime DEF MapsInv, HistoryInv
  <2>4. \A b : ~Mine(o, b)
    BY <2>2, <2>3 DEF Mine
  <2>5. NothingNew(o)
    BY FadingBringsNothing
  <2> QED
    BY <2>4, <2>5 DEF NothingNew
<1>6. ASSUME NEW o \in manifests, FirstLife(o)' PROVE LeaderFirst(o)'
  <2>1. CASE ~FirstLife(o)
    <3>1. \A b : ~Mine(o, b)'
      BY <1>5, <1>6, <2>1
    <3> QED
      BY <3>1 DEF LeaderFirst, Mine
  <2>2. CASE FirstLife(o)
    <3>1. LeaderFirst(o)
      BY <2>2 DEF MapsInv
    <3>2. Leads(o) => Leads(o)'
      BY <1>6, <2>2 DEF Leads, Fading, NeededBy
    <3>3. ASSUME NEW d \in children', d.kind = "Deployment", d.owner = o
          PROVE  Leads(o)'
      BY <3>1, <3>2, <3>3 DEF LeaderFirst, Fading, Faded
    <3>4. ASSUME NEW k \in Controllers, o \in pass'[k].of,
                 NEW i \in DOMAIN pass'[k].todo,
                 pass'[k].todo[i].kind = "Deployment"
          PROVE  \/ Leads(o)'
                 \/ \E j \in 1 .. i : IsLeader(o, pass'[k].todo[j])
      <4>1. pass'[k] = pass[k]
        BY <3>4 DEF Fading, PassEnds, Idle
      <4> QED
        BY <3>1, <3>2, <3>4, <4>1 DEF LeaderFirst
    <3> QED
      BY <3>3, <3>4 DEF LeaderFirst, IsLeader
  <2> QED
    BY <2>1, <2>2
<1>7. ASSUME NEW o \in manifests PROVE Settles(o)'
  <2>1. CASE FirstLife(o)' /\ ~FirstLife(o)
    BY <1>5, <2>1 DEF Settles, Mounting
  <2>2. CASE FirstLife(o)' => FirstLife(o)
    <3>1. ASSUME FirstLife(o)', Mounting(o), NEW g \in Gen,
                 NEW p \in ProfileSet(o.profiles), Settled(o, g)
          PROVE  Secure(o, ClaimName(o, p, g))'
      <4>0. PICK n : n = ClaimName(o, p, g)
        OBVIOUS
      <4>1. PICK v \in children :
              IsVolume(v) /\ v.name = n /\ v.owner = o /\ v.map \subseteq {o}
        BY <3>1, <4>0 DEF Settled, Secure
      <4>2. v \in children'
        BY <2>2, <3>1, <4>0, <4>1 DEF Fading, NeededBy
      <4>3. \A j \in children : j.kind = "Job" /\ j.name = n => j.owner = o
        BY <3>1, <4>0 DEF Settled, Secure
      <4>4. \A j \in children' : j.kind = "Job" /\ j.name = n => j.owner = o
        BY <4>3 DEF Fading, Faded
      <4>5. Secure(o, n)'
        BY <4>1, <4>2, <4>4 DEF Secure, IsVolume
      <4>6. n' = ClaimName(o, p, g)'
        BY <4>0
      <4> QED
        BY <4>0, <4>5
    <3>2. Settles(o) /\ NothingNew(o)
      BY FadingBringsNothing DEF MapsInv
    <3>3. FirstLife(o)' /\ o \in recorded => o \in recorded'
      BY DEF Fading
    <3> QED
      BY <2>2, <3>1, <3>2, <3>3, SettlesKept
  <2> QED
    BY <2>1, <2>2
<1> QED
  BY <1>1, <1>2, <1>3, <1>4, <1>6, <1>7 DEF MapsInv, Fading

-----------------------------------------------------------------------------
(* A step that creates or updates a child, the first of the builders.      *)

Wrote(k, o, m) ==
  LET b == Head(pass[k].todo)
  IN  /\ Building(k, o) /\ BuilderDone(k) /\ UNCHANGED <<objects, faults>>
      /\ m.kind = b.kind /\ m.name = b.name /\ m.mount = b.mount
      /\ m.owner = o /\ ~m.orphan
      /\ m \in children'
      /\ \A c \in children' : c = m \/ (c \in children /\ ~SameName(c, m))
      /\ \A c \in children :
           c \in children' \/ (SameName(c, m) /\ c.owner = o /\ c.map = m.map)
      /\ \/ m.map = {} /\ ~m.done
         \/ \E c \in children : /\ SameName(c, m) /\ c.owner = o
                                /\ c.map = m.map /\ c.done = m.done

LEMMA CreateWrites ==
  ASSUME NamesInv, NEW k \in Controllers, NEW o \in manifests, Create(k, o)
  PROVE  \E m : Wrote(k, o, m)
<1> DEFINE b == Head(pass[k].todo)
<1>1. PICK m : m = NewChild(b.kind, b.name, o, b.mount)
  OBVIOUS
<1>2. /\ Building(k, o) /\ BuilderDone(k) /\ UNCHANGED <<objects, faults>>
      /\ children' = children \cup {m} /\ Named(b.kind, b.name) = {}
  BY <1>1 DEF Create
<1>3. /\ m.kind = b.kind /\ m.name = b.name /\ m.mount = b.mount /\ m.owner = o
      /\ m.orphan = FALSE /\ m.map = {} /\ m.done = FALSE
  BY <1>1 DEF NewChild
<1>4. \A c \in children : ~SameName(c, m)
  BY <1>2, <1>3 DEF Named, SameName
<1>5. Wrote(k, o, m)
  <2> HIDE DEF b
  <2>1. m \in children' /\ \A c \in children : c \in children'
    BY <1>2
  <2>2. \A c \in children' : c = m \/ (c \in children /\ ~SameName(c, m))
    BY <1>2, <1>4
  <2> USE DEF b
  <2> QED
    BY <1>2, <1>3, <2>1, <2>2 DEF Wrote
<1> QED
  BY <1>5

LEMMA UpdateWrites ==
  ASSUME NamesInv, NEW k \in Controllers, NEW o \in manifests, Update(k, o)
  PROVE  \E m : Wrote(k, o, m)
<1> DEFINE b == Head(pass[k].todo)
<1>1. PICK c \in children :
        /\ c.kind = b.kind /\ c.name = b.name /\ c.owner = o
        /\ children' = (children \ {c}) \cup
             {[c EXCEPT !.owner = o, !.orphan = FALSE, !.mount = b.mount]}
  BY DEF Update, Named, OwnedBy
<1>2. PICK m : m = [c EXCEPT !.owner = o, !.orphan = FALSE, !.mount = b.mount]
  OBVIOUS
<1>3. Building(k, o) /\ BuilderDone(k) /\ UNCHANGED <<objects, faults>>
  BY DEF Update
<1>4. ChildFits(c)
  BY DEF NamesInv, ChildrenOK
<1>5. m = [kind |-> c.kind, name |-> c.name, owner |-> o, orphan |-> FALSE,
           mount |-> b.mount, map |-> c.map, done |-> c.done]
  BY <1>2, <1>4 DEF ChildFits
<1>6. /\ m.kind = b.kind /\ m.name = b.name /\ m.mount = b.mount /\ m.owner = o
      /\ m.orphan = FALSE /\ m.map = c.map /\ m.done = c.done /\ SameName(c, m)
  BY <1>1, <1>5 DEF SameName
<1>7. children' = (children \ {c}) \cup {m}
  BY <1>1, <1>2
<1>8. \A d \in children : d = c \/ ~SameName(d, m)
  BY <1>6 DEF NamesInv, ChildrenOK, SameName
<1>9. Wrote(k, o, m)
  <2> HIDE DEF b
  <2>1. m \in children' /\ \A d \in children : d \in children' \/ d = c
    BY <1>7
  <2>2. \A d \in children' : d = m \/ (d \in children /\ ~SameName(d, m))
    BY <1>7, <1>8
  <2>3. c \in children /\ c.owner = o /\ c.map = m.map /\ c.done = m.done
        /\ SameName(c, m)
    BY <1>1, <1>6
  <2> USE DEF b
  <2> QED
    BY <1>3, <1>6, <2>1, <2>2, <2>3 DEF Wrote
<1> QED
  BY <1>9

(* What is left to do after the first builder.                             *)
LEMMA TodoAfter ==
  ASSUME NamesInv, NEW k \in Controllers, NEW o, NEW m, Wrote(k, o, m)
  PROVE  /\ pass[k].of = {o} /\ o \in manifests /\ o \in existing
         /\ pass'[k].of = {o} /\ pass'[k].step = "build"
         /\ \A j \in Controllers \ {k} : pass'[j] = pass[j]
         /\ \A j \in Controllers : pass'[j].of = pass[j].of
         /\ 1 \in DOMAIN pass[k].todo
         /\ m.kind = pass[k].todo[1].kind /\ m.name = pass[k].todo[1].name
         /\ m.mount = pass[k].todo[1].mount
         /\ \A i \in DOMAIN pass'[k].todo :
              /\ i \in Nat /\ 1 <= i /\ i + 1 \in DOMAIN pass[k].todo
              /\ pass'[k].todo[i] = pass[k].todo[i + 1]
              /\ \A j \in 2 .. i + 1 :
                   j - 1 \in 1 .. i /\ pass'[k].todo[j - 1] = pass[k].todo[j]
<1>1. /\ o \in pass[k].of /\ pass[k].step = "build" /\ pass[k].todo # << >>
      /\ pass' = [pass EXCEPT ![k].todo = Tail(@)]
  BY DEF Wrote, Building, At, BuilderDone
<1>2. pass[k].of = {o} /\ o \in manifests /\ o \in existing
  BY <1>1, OneAtATime
<1>3. pass = [j \in Controllers |-> pass[j]] /\ PassFits(k, pass[k])
  BY DEF NamesInv, PassesOK
<1>4. \A j \in Controllers \ {k} : pass'[j] = pass[j]
  BY <1>1, <1>3
<1>5. pass'[k] = [pass[k] EXCEPT !.todo = Tail(@)]
  BY <1>1, <1>3
<1>6. pass'[k] = [step |-> pass[k].step, of |-> pass[k].of,
                  phase |-> pass[k].phase, todo |-> Tail(pass[k].todo),
                  jobs |-> pass[k].jobs]
  BY <1>3, <1>5 DEF PassFits
<1>7. pass'[k].of = pass[k].of /\ pass'[k].step = "build"
      /\ pass'[k].todo = Tail(pass[k].todo)
  BY <1>1, <1>6
<1>8. PICK t, B : t = pass[k].todo /\ t \in Seq(B)
  BY <1>3 DEF PassFits, ListsBuilders
<1>9. /\ 1 \in DOMAIN t /\ Head(t) = t[1]
      /\ Len(t) \in Nat /\ DOMAIN Tail(t) = 1 .. Len(t) - 1 /\ DOMAIN t = 1 .. Len(t)
      /\ \A i \in 1 .. Len(t) - 1 : Tail(t)[i] = t[i + 1]
  BY <1>1, <1>8
<1>10. ASSUME NEW i \in DOMAIN Tail(t)
       PROVE  /\ i \in Nat /\ 1 <= i /\ i + 1 \in DOMAIN t
              /\ Tail(t)[i] = t[i + 1]
              /\ \A j \in 2 .. i + 1 : j - 1 \in 1 .. i /\ Tail(t)[j - 1] = t[j]
  <2>1. i \in Nat /\ 1 <= i /\ i <= Len(t) - 1
    BY <1>9
  <2>2. ASSUME NEW j \in 2 .. i + 1
        PROVE  j - 1 \in 1 .. i /\ Tail(t)[j - 1] = t[j]
    <3>1. j - 1 \in 1 .. i /\ j - 1 \in 1 .. Len(t) - 1 /\ (j - 1) + 1 = j
      BY <1>9, <2>1
    <3>2. Tail(t)[j - 1] = t[(j - 1) + 1]
      BY <1>9, <3>1
    <3> QED
      BY <3>1, <3>2
  <2> QED
    BY <1>9, <2>1, <2>2
<1>11. m.kind = t[1].kind /\ m.name = t[1].name /\ m.mount = t[1].mount
  BY <1>8, <1>9 DEF Wrote
<1> QED
  BY <1>2, <1>4, <1>7, <1>8, <1>9, <1>10, <1>11

LEMMA WriteBringsNothing ==
  ASSUME NamesInv, NEW k \in Controllers, NEW q, NEW m, Wrote(k, q, m), NEW o
  PROVE  NothingNew(o)
<1> SUFFICES ASSUME NEW b, Mine(o, b)'
             PROVE  \E a : Mine(o, a) /\ a.kind = b.kind /\ a.name = b.name
                             /\ a.mount = b.mount
  BY DEF NothingNew
<1>0. m.owner = q /\ \A c \in children' : c = m \/ c \in children
  BY DEF Wrote
<1>1. CASE b \in children' /\ b.owner = o
  <2>1. CASE b \in children
    BY <1>1, <2>1 DEF Mine
  <2>2. CASE b = m
    <3>1. o \in pass[k].of
      BY <1>0, <1>1, <2>2, TodoAfter
    <3>2. 1 \in DOMAIN pass[k].todo /\ m.kind = pass[k].todo[1].kind
          /\ m.name = pass[k].todo[1].name /\ m.mount = pass[k].todo[1].mount
      BY TodoAfter
    <3> QED
      BY <2>2, <3>1, <3>2 DEF Mine
  <2> QED
    BY <1>0, <1>1, <2>1, <2>2
<1>2. ASSUME NEW j \in Controllers, o \in pass'[j].of,
             NEW i \in DOMAIN pass'[j].todo, b = pass'[j].todo[i]
      PROVE  Mine(o, b)
  <2>1. CASE j = k
    <3>1. i + 1 \in DOMAIN pass[k].todo /\ b = pass[k].todo[i + 1]
          /\ o \in pass[k].of
      BY <1>2, <2>1, TodoAfter
    <3> QED
      BY <3>1 DEF Mine
  <2>2. CASE j # k
    BY <1>2, <2>2, TodoAfter DEF Mine
  <2> QED
    BY <2>1, <2>2
<1> QED
  BY <1>1, <1>2 DEF Mine

LEMMA WriteKeepsJobMaps ==
  ASSUME NamesInv, MapsInv, NEW k \in Controllers, NEW q, NEW m, Wrote(k, q, m)
  PROVE  JobMaps'
<1> SUFFICES ASSUME NEW j \in children', NEW v \in children', j.kind = "Job",
                    j.done, IsVolume(v), v.name = j.name
             PROVE  v.map \subseteq {j.owner}
  BY DEF JobMaps, IsVolume
<1>1. j # v
  BY DEF IsVolume
<1>2. CASE j = m
  <2>1. v \in children
    BY <1>1, <1>2 DEF Wrote
  <2>2. PICK c \in children : SameName(c, m) /\ c.owner = q /\ c.done = m.done
    BY <1>2 DEF Wrote
  <2>3. j.owner = q
    BY <1>2 DEF Wrote
  <2> QED
    BY <1>2, <2>1, <2>2, <2>3 DEF MapsInv, JobMaps, SameName
<1>3. CASE j # m /\ v = m
  <2>1. j \in children
    BY <1>3 DEF Wrote
  <2>2. CASE m.map = {}
    BY <1>3, <2>2
  <2>3. CASE \E c \in children : SameName(c, m) /\ c.map = m.map
    BY <1>3, <2>1, <2>3 DEF MapsInv, JobMaps, SameName, IsVolume
  <2> QED
    BY <2>2, <2>3 DEF Wrote
<1>4. CASE j # m /\ v # m
  BY <1>4 DEF Wrote, MapsInv, JobMaps
<1> QED
  BY <1>2, <1>3, <1>4

LEMMA WriteKeepsVolumeFirst ==
  ASSUME NamesInv, MapsInv, NEW k \in Controllers, NEW q, NEW m, Wrote(k, q, m),
         NEW c \in Controllers
  PROVE  VolumeFirst(c)'
<1>1. ASSUME NEW o, NEW n, OwnVolume(o, n) PROVE OwnVolume(o, n)'
  <2>1. PICK v \in children : IsVolume(v) /\ v.name = n /\ v.owner = o /\ ~v.orphan
    BY <1>1 DEF OwnVolume
  <2>2. CASE v \in children'
    BY <2>1, <2>2 DEF OwnVolume, IsVolume
  <2>3. CASE SameName(v, m) /\ v.owner = q
    BY <2>1, <2>3 DEF OwnVolume, IsVolume, SameName, Wrote
  <2> QED
    BY <2>2, <2>3 DEF Wrote
<1>2. ASSUME NEW o \in pass'[c].of, pass'[c].step = "build",
             NEW i \in DOMAIN pass'[c].todo, pass'[c].todo[i].kind = "Job",
             NEW n, n = pass'[c].todo[i].name
      PROVE  \/ OwnVolume(o, n)'
             \/ \E j \in 1 .. i - 1 :
                  IsVolume(pass'[c].todo[j]) /\ pass'[c].todo[j].name = n
  <2>0. VolumeFirst(c)
    BY DEF MapsInv
  <2>1. CASE c # k
    BY <1>1, <1>2, <2>0, <2>1, TodoAfter DEF VolumeFirst
  <2>2. CASE c = k
    <3>1. /\ o = q /\ o \in pass[k].of /\ pass[k].step = "build" /\ i \in Nat /\ 1 <= i
          /\ i + 1 \in DOMAIN pass[k].todo
          /\ pass[k].todo[i + 1] = pass'[k].todo[i]
          /\ \A j \in 2 .. i + 1 :
               j - 1 \in 1 .. i /\ pass'[k].todo[j - 1] = pass[k].todo[j]
      BY <1>2, <2>2, TodoAfter DEF Wrote, Building, At
    <3>2. \/ OwnVolume(o, n)
          \/ \E j \in 1 .. (i + 1) - 1 :
               IsVolume(pass[k].todo[j]) /\ pass[k].todo[j].name = n
      BY <1>2, <2>0, <2>2, <3>1 DEF VolumeFirst
    <3>3. ASSUME NEW j \in 1 .. i,
                 IsVolume(pass[k].todo[j]), pass[k].todo[j].name = n
          PROVE  \/ OwnVolume(o, n)'
                 \/ \E h \in 1 .. i - 1 :
                      IsVolume(pass'[c].todo[h]) /\ pass'[c].todo[h].name = n
      <4>1. CASE j = 1
        <5>1. IsVolume(m) /\ m.name = n /\ m.owner = o /\ ~m.orphan
              /\ m \in children'
          BY <3>1, <3>3, <4>1, TodoAfter DEF Wrote, IsVolume
        <5> QED
          BY <5>1 DEF OwnVolume, IsVolume
      <4>2. CASE j # 1
        <5>1. j - 1 \in 1 .. i - 1 /\ j \in 2 .. i + 1
          BY <3>1, <4>2
        <5> QED
          BY <2>2, <3>1, <3>3, <5>1
      <4> QED
        BY <4>1, <4>2
    <3>4. (i + 1) - 1 = i
      BY <3>1
    <3> QED
      BY <1>1, <3>2, <3>3, <3>4
  <2> QED
    BY <2>1, <2>2
<1> QED
  BY <1>2 DEF VolumeFirst, IsVolume, OwnVolume

LEMMA WriteKeepsLeader ==
  ASSUME NamesInv, MapsInv, NEW k \in Controllers, NEW q, NEW m, Wrote(k, q, m),
         NEW o \in manifests, FirstLife(o)
  PROVE  LeaderFirst(o)'
<1>0. LeaderFirst(o)
  BY DEF MapsInv
<1>1. Leads(o) => Leads(o)'
  <2> SUFFICES ASSUME NEW d \in children, IsLeader(o, d), d.owner = o
               PROVE  Leads(o)'
    BY DEF Leads
  <2>1. CASE d \in children'
    BY <2>1 DEF Leads, IsLeader
  <2>2. CASE SameName(d, m) /\ d.owner = q
    BY <2>2 DEF Leads, IsLeader, Wrote, SameName
  <2> QED
    BY <2>1, <2>2 DEF Wrote
<1>2. ASSUME o = q, m.kind = "Deployment" PROVE Leads(o)'
  <2>1. /\ o \in pass[k].of /\ 1 \in DOMAIN pass[k].todo
        /\ m.kind = pass[k].todo[1].kind /\ m.name = pass[k].todo[1].name
    BY <1>2, TodoAfter
  <2>2. Leads(o) \/ IsLeader(o, pass[k].todo[1])
    BY <1>0, <1>2, <2>1 DEF LeaderFirst
  <2> QED
    BY <1>1, <1>2, <2>1, <2>2 DEF Leads, IsLeader, Wrote
<1>3. ASSUME NEW d \in children', d.kind = "Deployment", d.owner = o
      PROVE  Leads(o)'
  <2>1. CASE d = m
    BY <1>2, <1>3, <2>1 DEF Wrote
  <2>2. CASE d \in children
    BY <1>0, <1>1, <1>3, <2>2 DEF LeaderFirst
  <2> QED
    BY <2>1, <2>2 DEF Wrote
<1>4. ASSUME NEW c \in Controllers, o \in pass'[c].of,
             NEW i \in DOMAIN pass'[c].todo, pass'[c].todo[i].kind = "Deployment"
      PROVE  \/ Leads(o)'
             \/ \E j \in 1 .. i : IsLeader(o, pass'[c].todo[j])
  <2>1. CASE c # k
    BY <1>0, <1>1, <1>4, <2>1, TodoAfter DEF LeaderFirst
  <2>2. CASE c = k
    <3>1. /\ o = q /\ o \in pass[k].of /\ i \in Nat /\ 1 <= i
          /\ i + 1 \in DOMAIN pass[k].todo
          /\ pass[k].todo[i + 1] = pass'[k].todo[i]
          /\ \A j \in 2 .. i + 1 :
               j - 1 \in 1 .. i /\ pass'[k].todo[j - 1] = pass[k].todo[j]
      BY <1>4, <2>2, TodoAfter
    <3>2. \/ Leads(o)
          \/ \E j \in 1 .. i + 1 : IsLeader(o, pass[k].todo[j])
      BY <1>0, <1>4, <2>2, <3>1 DEF LeaderFirst
    <3>3. ASSUME NEW j \in 1 .. i + 1, IsLeader(o, pass[k].todo[j])
          PROVE  \/ Leads(o)'
                 \/ \E h \in 1 .. i : IsLeader(o, pass'[c].todo[h])
      <4>1. CASE j = 1
        BY <1>2, <3>1, <3>3, <4>1, TodoAfter DEF IsLeader
      <4>2. CASE j # 1
        <5>1. j \in 2 .. i + 1
          BY <3>1, <4>2
        <5> QED
          BY <2>2, <3>1, <3>3, <5>1
      <4> QED
        BY <4>1, <4>2
    <3> QED
      BY <1>1, <3>2, <3>3
  <2> QED
    BY <2>1, <2>2
<1> QED
  BY <1>3, <1>4 DEF LeaderFirst, IsLeader

(* No other object builds a Job beside a secure volume: it would have its  *)
(* own volume there.                                                       *)
LEMMA WriteKeepsSecure ==
  ASSUME NamesInv, MapsInv, NEW k \in Controllers, NEW q, NEW m, Wrote(k, q, m),
         NEW o, NEW n, Secure(o, n)
  PROVE  Secure(o, n)'
<1>1. PICK v \in children :
        IsVolume(v) /\ v.name = n /\ v.owner = o /\ v.map \subseteq {o}
  BY DEF Secure
<1>2. \E w \in children' :
        IsVolume(w) /\ w.name = n /\ w.owner = o /\ w.map \subseteq {o}
  <2>1. CASE v \in children'
    BY <1>1, <2>1
  <2>2. CASE SameName(v, m) /\ v.owner = q /\ v.map = m.map
    BY <1>1, <2>2 DEF Wrote, SameName, IsVolume
  <2> QED
    BY <2>1, <2>2 DEF Wrote
<1>3. ASSUME NEW j \in children', j.kind = "Job", j.name = n
      PROVE  j.owner = o
  <2>1. CASE j \in children
    BY <1>3, <2>1 DEF Secure
  <2>2. CASE j = m
    <3>1. /\ q \in pass[k].of /\ pass[k].step = "build"
          /\ 1 \in DOMAIN pass[k].todo /\ pass[k].todo[1].kind = "Job"
          /\ pass[k].todo[1].name = n /\ j.owner = q
      BY <1>3, <2>2, TodoAfter DEF Wrote, Building, At
    <3>2. OwnVolume(q, n)
      <4>1. VolumeFirst(k)
        BY DEF MapsInv
      <4>2. \A h \in 1 .. 1 - 1 : FALSE
        OBVIOUS
      <4> QED
        BY <3>1, <4>1, <4>2 DEF VolumeFirst
    <3>3. PICK w \in children : IsVolume(w) /\ w.name = n /\ w.owner = q
      BY <3>2 DEF OwnVolume
    <3>4. w = v
      BY <1>1, <3>3 DEF NamesInv, ChildrenOK, SameName, IsVolume
    <3> QED
      BY <1>1, <3>1, <3>3, <3>4
  <2> QED
    BY <2>1, <2>2 DEF Wrote
<1> QED
  BY <1>2, <1>3 DEF Secure, IsVolume

LEMMA WriteKeepsMaps ==
  ASSUME NamesInv, MapsInv, NEW k \in Controllers, NEW q, NEW m, Wrote(k, q, m)
  PROVE  MapsInv'
<1>0. UNCHANGED <<manifests, existing, recorded, lives>>
  BY DEF Wrote, objects
<1>1. \A o : FirstLife(o)' <=> FirstLife(o)
  BY <1>0 DEF FirstLife, CreatedOnce
<1>2. HistoryInv'
  <2>1. Lived(q)
    BY TodoAfter DEF MapsInv, HistoryInv
  <2>2. ASSUME NEW c \in children'
        PROVE  Lived(c.owner) /\ (c.orphan => ~FirstLife(c.owner))
    <3>1. CASE c = m
      BY <2>1, <3>1 DEF Wrote
    <3>2. CASE c \in children
      BY <3>2 DEF MapsInv, HistoryInv
    <3> QED
      BY <3>1, <3>2 DEF Wrote
  <2>3. \A o : Lived(o)' <=> Lived(o)
    BY <1>0 DEF Lived
  <2>4. \A o \in existing : Lived(o)
    BY DEF MapsInv, HistoryInv
  <2> QED
    BY <1>0, <1>1, <2>2, <2>3, <2>4 DEF HistoryInv
<1>3. JobMaps'
  BY WriteKeepsJobMaps
<1>4. WorkInPlace'
  BY TodoAfter DEF WorkInPlace, MapsInv
<1>5. \A c \in Controllers : VolumeFirst(c)'
  BY WriteKeepsVolumeFirst
<1>6. ASSUME NEW o \in manifests PROVE WellMade(o)'
  BY <1>6, WellMadeKept, WriteBringsNothing DEF MapsInv
<1>7. ASSUME NEW o \in manifests, FirstLife(o)' PROVE LeaderFirst(o)'
  BY <1>1, <1>7, WriteKeepsLeader
<1>8. ASSUME NEW o \in manifests PROVE Settles(o)'
  <2>1. ASSUME NEW g \in Gen, NEW p \in ProfileSet(o.profiles), Settled(o, g)
        PROVE  Secure(o, ClaimName(o, p, g))'
    <3>1. PICK n : n = ClaimName(o, p, g)
      OBVIOUS
    <3>2. Secure(o, n)
      BY <2>1, <3>1 DEF Settled
    <3>3. Secure(o, n)'
      BY <3>2, WriteKeepsSecure
    <3> QED
      BY <3>1, <3>3
  <2>2. Settles(o) /\ NothingNew(o)
    BY WriteBringsNothing DEF MapsInv
  <2> QED
    BY <1>0, <1>1, <2>1, <2>2, SettlesKept
<1> QED
  BY <1>0, <1>2, <1>3, <1>4, <1>5, <1>6, <1>7, <1>8 DEF MapsInv

-----------------------------------------------------------------------------
(* A Job completes.                                                        *)

LEMMA JobCompletesKeepsMaps ==
  ASSUME NamesInv, MapsInv, NEW q, JobCompletes(q)
  PROVE  MapsInv'
<1>1. PICK j \in children, v \in children :
        /\ j.kind = "Job" /\ ~j.done /\ IsVolume(v) /\ v.name = j.name
        /\ children' = (children \ {j, v}) \cup
                  {[j EXCEPT !.done = TRUE], [v EXCEPT !.map = {j.owner}]}
        /\ UNCHANGED <<objects, pass, faults>>
  BY DEF JobCompletes, IsVolume
<1>2. ChildFits(j) /\ ChildFits(v)
  BY DEF NamesInv, ChildrenOK
<1>3. PICK m, w : m = [j EXCEPT !.done = TRUE] /\ w = [v EXCEPT !.map = {j.owner}]
  OBVIOUS
<1>4. m = [kind |-> j.kind, name |-> j.name, owner |-> j.owner,
           orphan |-> j.orphan, mount |-> j.mount, map |-> j.map, done |-> TRUE]
  BY <1>2, <1>3 DEF ChildFits
<1>5. w = [kind |-> v.kind, name |-> v.name, owner |-> v.owner,
           orphan |-> v.orphan, mount |-> v.mount, map |-> {j.owner},
           done |-> v.done]
  BY <1>2, <1>3 DEF ChildFits
<1>6. /\ m.kind = "Job" /\ m.name = j.name /\ m.owner = j.owner
      /\ m.orphan = j.orphan /\ m.mount = j.mount
      /\ IsVolume(w) /\ w.name = v.name /\ w.owner = v.owner
      /\ w.orphan = v.orphan /\ w.mount = v.mount /\ w.map = {j.owner}
      /\ w.kind = v.kind
  BY <1>1, <1>4, <1>5 DEF IsVolume
<1>7. /\ \A c \in children' :
           c = m \/ c = w \/ (c \in children /\ c # j /\ c # v)
      /\ m \in children' /\ w \in children'
      /\ \A c \in children : c \in children' \/ c = j \/ c = v
  <2>1. children' = (children \ {j, v}) \cup {m, w}
    BY <1>1, <1>3
  <2> QED
    BY <2>1
<1>8. ASSUME NEW c \in children, c.name = j.name
      PROVE  (c.kind = "Job" => c = j) /\ (IsVolume(c) => c = v)
  BY <1>1, <1>8 DEF NamesInv, ChildrenOK, SameName, IsVolume
<1>9. UNCHANGED <<manifests, existing, recorded, lives, pass>>
  BY <1>1 DEF objects
<1>10. \A o : (FirstLife(o)' <=> FirstLife(o)) /\ (Lived(o)' <=> Lived(o))
  BY <1>9 DEF FirstLife, CreatedOnce, Lived
<1> HIDE <1>3, <1>4, <1>5
<1>11. HistoryInv'
  <2>1. \A c \in children' :
          Lived(c.owner) /\ (c.orphan => ~FirstLife(c.owner))
    BY <1>1, <1>6, <1>7 DEF MapsInv, HistoryInv
  <2>2. \A o \in existing : Lived(o)
    BY DEF MapsInv, HistoryInv
  <2> QED
    BY <1>9, <1>10, <2>1, <2>2 DEF HistoryInv
<1>12. JobMaps'
  <2> SUFFICES ASSUME NEW c \in children', NEW e \in children', c.kind = "Job",
                      c.done, IsVolume(e), e.name = c.name
               PROVE  e.map \subseteq {c.owner}
    BY DEF JobMaps, IsVolume
  <2>1. CASE c = m
    <3>1. e = w
      BY <1>1, <1>6, <1>7, <1>8, <2>1 DEF IsVolume
    <3> QED
      BY <1>6, <2>1, <3>1
  <2>2. CASE c \in children /\ c # j
    <3>1. e # w
      BY <1>1, <1>6, <1>8, <2>2
    <3>2. e \in children
      BY <1>6, <1>7, <3>1 DEF IsVolume
    <3> QED
      BY <2>2, <3>2 DEF MapsInv, JobMaps
  <2>3. c # w
    BY <1>6 DEF IsVolume
  <2> QED
    BY <1>7, <2>1, <2>2, <2>3
<1>13. WorkInPlace'
  BY <1>9 DEF WorkInPlace, MapsInv
<1>14. ASSUME NEW k \in Controllers PROVE VolumeFirst(k)'
  <2>1. ASSUME NEW o, NEW n, OwnVolume(o, n) PROVE OwnVolume(o, n)'
    <3>1. PICK c \in children : IsVolume(c) /\ c.name = n /\ c.owner = o /\ ~c.orphan
      BY <2>1 DEF OwnVolume
    <3>2. CASE c = v
      BY <1>6, <1>7, <3>1, <3>2 DEF OwnVolume, IsVolume
    <3>3. CASE c # v
      BY <1>1, <1>7, <3>1, <3>3 DEF OwnVolume, IsVolume
    <3> QED
      BY <3>2, <3>3
  <2>2. VolumeFirst(k)
    BY DEF MapsInv
  <2>3. ASSUME NEW o \in pass[k].of, pass[k].step = "build",
               NEW i \in DOMAIN pass[k].todo, pass[k].todo[i].kind = "Job",
               NEW n, n = pass[k].todo[i].name
        PROVE  \/ OwnVolume(o, n)'
               \/ \E h \in 1 .. i - 1 :
                    IsVolume(pass[k].todo[h]) /\ pass[k].todo[h].name = n
    BY <2>1, <2>2, <2>3 DEF VolumeFirst
  <2> QED
    BY <1>9, <2>3 DEF VolumeFirst, IsVolume, OwnVolume
<1>15. ASSUME NEW o PROVE NothingNew(o)
  <2> SUFFICES ASSUME NEW b, Mine(o, b)'
               PROVE  \E a : Mine(o, a) /\ a.kind = b.kind /\ a.name = b.name
                               /\ a.mount = b.mount
    BY DEF NothingNew
  <2>1. CASE b \in children' /\ b.owner = o
    BY <1>1, <1>6, <1>7, <2>1 DEF Mine
  <2>2. CASE \E k \in Controllers :
               o \in pass[k].of /\ \E i \in DOMAIN pass[k].todo : b = pass[k].todo[i]
    BY <2>2 DEF Mine
  <2> QED
    BY <1>9, <2>1, <2>2 DEF Mine
<1>16. ASSUME NEW o \in manifests PROVE WellMade(o)'
  BY <1>15, <1>16, WellMadeKept DEF MapsInv
<1>17. ASSUME NEW o \in manifests, FirstLife(o)' PROVE LeaderFirst(o)'
  <2>1. LeaderFirst(o)
    BY <1>10, <1>17 DEF MapsInv
  <2>2. Leads(o) => Leads(o)'
    BY <1>1, <1>7 DEF Leads, IsLeader, IsVolume
  <2>3. ASSUME NEW d \in children', d.kind = "Deployment", d.owner = o
        PROVE  Leads(o)'
    BY <1>6, <1>7, <2>1, <2>2, <2>3 DEF LeaderFirst, IsVolume
  <2> QED
    BY <1>9, <2>1, <2>2, <2>3 DEF LeaderFirst, IsLeader
<1>18. ASSUME NEW o \in manifests PROVE Settles(o)'
  <2>1. ASSUME NEW g \in Gen, NEW p \in ProfileSet(o.profiles), Settled(o, g)
        PROVE  Secure(o, ClaimName(o, p, g))'
    <3>1. PICK n : n = ClaimName(o, p, g)
      OBVIOUS
    <3>2. Secure(o, n)
      BY <2>1, <3>1 DEF Settled
    <3>3. PICK u \in children :
            IsVolume(u) /\ u.name = n /\ u.owner = o /\ u.map \subseteq {o}
      BY <3>2 DEF Secure
    <3>4. \E e \in children' :
            IsVolume(e) /\ e.name = n /\ e.owner = o /\ e.map \subseteq {o}
      <4>1. CASE u = v
        <5>1. j.owner = o
          BY <1>1, <3>2, <3>3, <4>1 DEF Secure
        <5> QED
          BY <1>6, <1>7, <3>3, <4>1, <5>1
      <4>2. CASE u # v
        <5>1. u \in children'
          BY <1>1, <1>7, <3>3, <4>2 DEF IsVolume
        <5> QED
          BY <3>3, <5>1
      <4> QED
        BY <4>1, <4>2
    <3>5. \A c \in children' : c.kind = "Job" /\ c.name = n => c.owner = o
      BY <1>1, <1>6, <1>7, <3>2 DEF Secure, IsVolume
    <3>6. Secure(o, n)'
      BY <3>4, <3>5 DEF Secure, IsVolume
    <3> QED
      BY <3>1, <3>6
  <2>2. Settles(o) /\ NothingNew(o)
    BY <1>15, <1>18 DEF MapsInv
  <2> QED
    BY <1>9, <1>10, <2>1, <2>2, SettlesKept
<1> QED
  BY <1>9, <1>11, <1>12, <1>13, <1>14, <1>16, <1>17, <1>18 DEF MapsInv

-----------------------------------------------------------------------------
(* The steps that take away.                                               *)

LEMMA LivesKept ==
  ASSUME UNCHANGED <<lives, existing>>
  PROVE  \A o : (FirstLife(o)' <=> FirstLife(o)) /\ (Lived(o)' <=> Lived(o))
BY DEF FirstLife, CreatedOnce, Lived

LEMMA PassReplacedEnds ==
  ASSUME NamesInv, NEW k \in Controllers, NEW r, pass' = [pass EXCEPT ![k] = r],
         r = Idle \/ (r.of = pass[k].of /\ r.step # "build"
                        /\ r.todo = << >> /\ pass[k].todo = << >>)
  PROVE  /\ \A j \in Controllers : PassEnds(j)
         /\ \A j \in Controllers : pass'[j] # pass[j] => j = k
         /\ pass'[k].step # "build"
<1>1. /\ pass'[k] = r
      /\ \A j \in Controllers \ {k} : pass'[j] = pass[j]
  BY DEF NamesInv, PassesOK
<1>2. PassEnds(k)
  BY <1>1 DEF PassEnds
<1>3. \A j \in Controllers \ {k} : PassEnds(j)
  BY <1>1 DEF PassEnds
<1>4. pass'[k].step # "build"
  BY <1>1 DEF Idle
<1> QED
  BY <1>1, <1>2, <1>3, <1>4

(* Nothing happens but that a reconciliation ends or goes on.              *)
LEMMA OnlyPassFades ==
  ASSUME NamesInv, MapsInv, \A k \in Controllers : PassEnds(k),
         UNCHANGED <<manifests, existing, lives, children>>,
         recorded \subseteq recorded'
  PROVE  Fading
<1>1. HistoryInv'
  BY LivesKept DEF HistoryInv, MapsInv
<1> QED
  BY <1>1, LivesKept DEF Fading

LEMMA EndsFade ==
  ASSUME NamesInv, MapsInv, NEW k \in Controllers, NEW o,
         AlreadyOwned(k, o) \/ SetLastAppliedSpec(k, o) \/ Abandon(k, o)
  PROVE  Fading
<1>1. UNCHANGED <<manifests, existing, lives, children>>
  BY DEF AlreadyOwned, SetLastAppliedSpec, Abandon, objects
<1>2. recorded \subseteq recorded'
  BY DEF AlreadyOwned, SetLastAppliedSpec, Abandon, objects
<1>3. CASE Done(k)
  BY <1>1, <1>2, <1>3, PassReplacedEnds, OnlyPassFades DEF Done
<1>4. CASE Goto(k, "collect") /\ pass[k].todo = << >>
  <2>1. pass[k] = [step |-> pass[k].step, of |-> pass[k].of,
           phase |-> pass[k].phase, todo |-> pass[k].todo,
           jobs |-> pass[k].jobs]
    BY DEF NamesInv, PassesOK, PassFits
  <2>2. PICK r : r = [pass[k] EXCEPT !.step = "collect"]
    OBVIOUS
  <2>3. r.of = pass[k].of /\ r.step = "collect" /\ r.todo = pass[k].todo
    BY <2>1, <2>2
  <2>4. pass' = [pass EXCEPT ![k] = r]
    BY <1>4, <2>2 DEF Goto
  <2> QED
    BY <1>1, <1>2, <1>4, <2>3, <2>4, PassReplacedEnds, OnlyPassFades
<1> QED
  BY <1>3, <1>4 DEF AlreadyOwned, SetLastAppliedSpec, Abandon

LEMMA UserFades ==
  ASSUME NamesInv, MapsInv,
         (\E o \in manifests : UserCreates(o) \/ UserDeletes(o)) \/ UNCHANGED vars
  PROVE  Fading
<1>1. CASE UNCHANGED <<manifests, existing, lives, children, recorded, pass>>
  BY <1>1, OnlyPassFades DEF PassEnds
<1>2. ASSUME NEW q \in manifests, UserCreates(q) PROVE Fading
  <2>1. /\ q \notin existing /\ lives' = Append(lives, q)
        /\ existing' = existing \cup {q}
        /\ UNCHANGED <<manifests, recorded, children, pass>>
    BY <1>2 DEF UserCreates
  <2>2. /\ Len(lives) \in Nat /\ DOMAIN lives = 1 .. Len(lives)
        /\ DOMAIN lives' = 1 .. Len(lives) + 1
        /\ lives'[Len(lives) + 1] = q
        /\ \A i \in DOMAIN lives : i \in DOMAIN lives' /\ lives'[i] = lives[i]
    BY <2>1 DEF NamesInv, ObjectsOK
  <2>3. \A o : Lived(o) => Lived(o)'
    BY <2>2 DEF Lived
  <2>4. Lived(q)'
    <3>1. Len(lives) + 1 \in DOMAIN lives'
      BY <2>2
    <3> QED
      BY <2>2, <3>1 DEF Lived
  <2>5. ASSUME NEW o, FirstLife(o)' PROVE FirstLife(o) \/ ~Lived(o)
    <3> SUFFICES ASSUME Lived(o) PROVE FirstLife(o)
      OBVIOUS
    <3>1. PICK h \in DOMAIN lives : lives[h] = o
      BY DEF Lived
    <3>2. o # q
      <4> SUFFICES ASSUME o = q PROVE FALSE
        OBVIOUS
      <4>1. h \in DOMAIN lives' /\ lives'[h] = q /\ h # Len(lives) + 1
            /\ Len(lives) + 1 \in DOMAIN lives'
        BY <2>2, <3>1
      <4> QED
        BY <2>2, <2>5, <4>1 DEF FirstLife, CreatedOnce
    <3>3. o \in existing
      BY <2>1, <2>5, <3>2 DEF FirstLife
    <3>4. CreatedOnce(o)
      BY <2>2, <2>5 DEF FirstLife, CreatedOnce
    <3> QED
      BY <3>3, <3>4 DEF FirstLife
  <2>6. HistoryInv'
    <3>1. ASSUME NEW o \in existing' PROVE Lived(o)'
      BY <2>1, <2>3, <2>4 DEF MapsInv, HistoryInv
    <3>2. ASSUME NEW c \in children
          PROVE  Lived(c.owner)' /\ (c.orphan => ~FirstLife(c.owner)')
      BY <2>3, <2>5 DEF MapsInv, HistoryInv
    <3>3. PICK C : C = children
      OBVIOUS
    <3> QED
      BY <2>1, <3>1, <3>2 DEF HistoryInv
  <2> QED
    BY <2>1, <2>5, <2>6 DEF Fading, PassEnds
<1>3. ASSUME NEW q \in manifests, UserDeletes(q) PROVE Fading
  BY <1>1, <1>3 DEF UserDeletes
<1> QED
  BY <1>1, <1>2, <1>3 DEF vars, objects

(* Some children go; in a step of a reconciliation it is collecting.       *)
LEMMA ChildrenFade ==
  ASSUME NamesInv, MapsInv, \A k \in Controllers : PassEnds(k),
         UNCHANGED objects, children' \subseteq children,
         \A k \in Controllers : \A o \in pass'[k].of : pass'[k].step = "build" =>
           \A c \in children \ children' :
             ~(IsVolume(c) /\ c.owner = o /\ ~c.orphan),
         \A o \in manifests : FirstLife(o) =>
           \A c \in children \ children' : c.owner = o => ~NeededBy(o, c)
  PROVE  Fading
<1>1. UNCHANGED <<manifests, existing, lives, recorded>>
  BY DEF objects
<1>2. \A o : (FirstLife(o)' <=> FirstLife(o)) /\ (Lived(o)' <=> Lived(o))
  BY <1>1, LivesKept
<1>3. HistoryInv'
  BY <1>1, <1>2 DEF HistoryInv, MapsInv
<1> QED
  BY <1>1, <1>2, <1>3 DEF Fading

LEMMA OrphanFades ==
  ASSUME NamesInv, MapsInv, CollectOrphan PROVE Fading
<1>1. PICK c \in children :
        c.orphan /\ children' = children \ {c} /\ UNCHANGED <<objects, pass, faults>>
  BY DEF CollectOrphan
<1>2. ~FirstLife(c.owner)
  BY <1>1 DEF MapsInv, HistoryInv
<1> QED
  BY <1>1, <1>2, ChildrenFade DEF PassEnds

LEMMA CollectJobsFades ==
  ASSUME NamesInv, MapsInv, NEW k \in Controllers, NEW o, CollectJobs(k, o)
  PROVE  Fading
<1>1. \A j \in Controllers : PassEnds(j)
  BY PassReplacedEnds DEF CollectJobs, Done
<1>2. UNCHANGED objects /\ children' \subseteq children
      /\ \A c \in children \ children' : c.kind = "Job"
  BY DEF CollectJobs
<1>3. \A c \in children \ children' : \A q : ~IsVolume(c) /\ ~NeededBy(q, c)
  BY <1>2 DEF IsVolume, NeededBy, IsLeader
<1> QED
  BY <1>1, <1>2, <1>3, ChildrenFade

LEMMA FinalizeFades ==
  ASSUME NamesInv, MapsInv, NEW k \in Controllers, NEW q \in manifests,
         Finalize(k, q)
  PROVE  Fading
<1> DEFINE left(c) == [c EXCEPT !.orphan = @ \/ c.owner = q]
<1>1. /\ existing' = existing \ {q} /\ recorded' = recorded \ {q}
      /\ q.kind = k /\ pass[k].step = "idle"
      /\ children' = {left(c) : c \in children}
      /\ UNCHANGED <<manifests, lives, pass>>
  BY DEF Finalize
<1>2. ASSUME NEW c \in children
      PROVE  /\ left(c) \in children' /\ Faded(left(c), c)
             /\ left(c).orphan = (c.orphan \/ c.owner = q)
             /\ c.owner # q => left(c) = c
  <2>1. ChildFits(c)
    BY DEF NamesInv, ChildrenOK
  <2>2. left(c) = [kind |-> c.kind, name |-> c.name, owner |-> c.owner,
                   orphan |-> (c.orphan \/ c.owner = q), mount |-> c.mount,
                   map |-> c.map, done |-> c.done]
    BY <2>1 DEF ChildFits
  <2>3. c.owner # q => (c.orphan \/ c.owner = q) = c.orphan
    BY <2>1 DEF ChildFits
  <2> QED
    BY <1>1, <2>1, <2>2, <2>3 DEF Faded, ChildFits
<1>3. \A c \in children' : \E d \in children : c = left(d)
  BY <1>1
<1> HIDE DEF left
<1>4. \A o : FirstLife(o)' => o # q /\ FirstLife(o)
  BY <1>1 DEF FirstLife, CreatedOnce
<1>5. \A o : Lived(o)' <=> Lived(o)
  BY <1>1 DEF Lived
<1>6. HistoryInv'
  <2>1. ASSUME NEW c \in children'
        PROVE  Lived(c.owner)' /\ (c.orphan => ~FirstLife(c.owner)')
    <3>1. PICK d \in children : c = left(d)
      BY <1>3
    <3>2. c.owner = d.owner /\ c.orphan = (d.orphan \/ d.owner = q)
      BY <1>2, <3>1 DEF Faded
    <3> QED
      BY <1>4, <1>5, <3>2 DEF MapsInv, HistoryInv
  <2> QED
    BY <1>1, <1>5, <2>1 DEF MapsInv, HistoryInv
<1>7. \A c \in children' :
        c \in children \/ (c.orphan /\ \E d \in children : Faded(c, d))
  <2> SUFFICES ASSUME NEW d \in children
               PROVE  left(d) \in children \/
                        (left(d).orphan /\ \E e \in children : Faded(left(d), e))
    BY <1>3
  <2> QED
    BY <1>2
<1>8. \A c \in children : c.owner # q => c \in children'
  BY <1>2
<1>9. \A j \in Controllers : q \notin pass[j].of
  <2> SUFFICES ASSUME NEW j \in Controllers, q \in pass[j].of PROVE FALSE
    OBVIOUS
  <2>1. j = k
    BY <1>1, OneAtATime
  <2> QED
    BY <1>1, <2>1 DEF NamesInv, PassesOK, PassFits
<1>10. \A j \in Controllers : PassEnds(j)
  BY <1>1 DEF PassEnds
<1>11. \A o : FirstLife(o)' => (o \in recorded => o \in recorded')
  BY <1>1, <1>4
<1> QED
  BY <1>1, <1>4, <1>6, <1>7, <1>8, <1>9, <1>10, <1>11 DEF Fading

(* An object that mounts maps has its leader, once its work is done.       *)
LEMMA MountsLead ==
  ASSUME NamesInv, MapsInv, NEW o \in manifests, FirstLife(o), Mounting(o),
         \A j \in Controllers : o \in pass[j].of => pass[j].todo = << >>
  PROVE  Leads(o)
<1>1. PICK b : Mine(o, b) /\ b.mount # << >>
  BY DEF Mounting
<1>2. b \in children /\ b.owner = o
  BY <1>1 DEF Mine
<1>3. b.kind = "Deployment"
  BY <1>1, <1>2 DEF NamesInv, ChildrenOK, ChildFits
<1> QED
  BY <1>2, <1>3 DEF MapsInv, LeaderFirst

LEMMA CollectFades ==
  ASSUME NamesInv, MapsInv, DistinctNames, NEW k \in Controllers, NEW q,
         Collect(k, q)
  PROVE  Fading
<1>1. /\ q \in pass[k].of /\ pass[k].step = "collect" /\ UNCHANGED <<objects, faults>>
      /\ children' \subseteq children
  BY DEF Collect, At
<1>2. q \in manifests /\ \A j \in Controllers : q \in pass[j].of => j = k
  BY <1>1, PassOf
<1>3. pass[k].todo = << >>
  BY <1>1 DEF MapsInv, WorkInPlace
<1>4. /\ \A j \in Controllers : PassEnds(j)
      /\ \A j \in Controllers : pass'[j] # pass[j] => j = k
      /\ pass'[k].step # "build"
  <2>1. CASE Done(k)
    BY <2>1, PassReplacedEnds DEF Done
  <2>2. ASSUME NEW jobs, pass' = [pass EXCEPT ![k].step = "jobs", ![k].jobs = jobs]
        PROVE  /\ \A j \in Controllers : PassEnds(j)
               /\ \A j \in Controllers : pass'[j] # pass[j] => j = k
               /\ pass'[k].step # "build"
    <3>1. pass[k] = [step |-> pass[k].step, of |-> pass[k].of,
             phase |-> pass[k].phase, todo |-> pass[k].todo,
             jobs |-> pass[k].jobs]
      BY DEF NamesInv, PassesOK, PassFits
    <3>2. PICK r : r = [pass[k] EXCEPT !.step = "jobs", !.jobs = jobs]
      OBVIOUS
    <3>3. r.of = pass[k].of /\ r.step = "jobs" /\ r.todo = pass[k].todo
      BY <3>1, <3>2
    <3>4. pass' = [pass EXCEPT ![k] = r]
      BY <2>2, <3>2 DEF NamesInv, PassesOK
    <3> QED
      BY <1>3, <3>3, <3>4, PassReplacedEnds
  <2> QED
    BY <2>1, <2>2 DEF Collect
<1>5. ASSUME NEW c \in children \ children'
      PROVE  c.owner = q
  <2>1. Keeps(k)
    BY CollectKeepsOwn
  <2>2. c.kind # "Job"
    BY DEF Collect, UnexpectedServing, Unexpected, Labelled, ServingKinds
  <2> QED
    BY <1>1, <1>5, <2>1, <2>2 DEF Keeps
<1>6. ASSUME NEW c \in children \ children', FirstLife(q), NeededBy(q, c)
      PROVE  FALSE
  <2>1. CASE IsLeader(q, c)
    <3>1. c \in UnexpectedServing(q)
      BY <1>6, <2>1 DEF Collect, Unexpected, Labelled, IsLeader
    <3>2. c.name \notin {WorkerName(q, p) : p \in ProfileSet(q.profiles)}
      BY <3>1 DEF UnexpectedServing, ExpectedNames
    <3> QED
      BY <2>1, <3>2 DEF IsLeader, ProfileSet
  <2>2. ASSUME IsVolume(c), Mounting(q), NEW g \in Gen,
               NEW p \in ProfileSet(q.profiles), Settled(q, g),
               c.name = ClaimName(q, p, g)
        PROVE  FALSE
    <3>1. c \notin UnexpectedServing(q)
      BY <2>2 DEF UnexpectedServing, Labelled, ServingKinds, IsVolume
    <3>2. /\ ~Panics(q)
          /\ c \in Unexpected(q, pass[k].phase, "PersistentVolumeClaim")
      BY <1>6, <3>1 DEF Collect
    <3>3. Leads(q)
      BY <1>2, <1>3, <1>6, <2>2, MountsLead
    <3>4. Active(q) = g
      BY <1>2, <2>2, <3>2, <3>3, ActiveSettled
    <3>5. <<p, g>> \in ExpectedClaims(q.profiles, pass[k].phase, Active(q), Future(q))
      BY <2>2, <3>4 DEF ExpectedClaims, KeptGenerations
    <3>6. c.name \in {ClaimName(q, e[1], e[2]) :
            e \in ExpectedClaims(q.profiles, pass[k].phase, Active(q), Future(q))}
      <4>1. PICK E : E = ExpectedClaims(q.profiles, pass[k].phase, Active(q), Future(q))
        OBVIOUS
      <4>2. <<p, g>> \in E /\ c.name = ClaimName(q, <<p, g>>[1], <<p, g>>[2])
        BY <2>2, <3>5, <4>1
      <4> QED
        BY <4>1, <4>2
    <3> QED
      BY <3>2, <3>6 DEF Unexpected
  <2> QED
    BY <1>6, <2>1, <2>2 DEF NeededBy
<1>7. \A j \in Controllers : \A o \in pass'[j].of : pass'[j].step = "build" =>
        \A c \in children \ children' : c.owner # o
  BY <1>2, <1>4, <1>5
<1> QED
  BY <1>1, <1>4, <1>5, <1>6, <1>7, ChildrenFade

-----------------------------------------------------------------------------
(* What a reconciliation plans.                                            *)

LEMMA MapPhaseBuilds ==
  ASSUME NEW o \in Objects, NEW g, NEW phase \in {BuildingMap, UpdatingMap},
         NEW t, t = Builders(o, phase, g), NEW i \in DOMAIN t
  PROVE  /\ t[i].kind \in {"PersistentVolumeClaim", "Job"} /\ t[i].mount = << >>
         /\ \E p \in ProfileSet(o.profiles) : t[i].name = ClaimName(o, p, g)
         /\ t[i].kind = "Job" =>
              \E j \in 1 .. i - 1 : IsVolume(t[j]) /\ t[j].name = t[i].name
<1> DEFINE P == ProfileSet(o.profiles)
           n == Len(o.profiles)
           bs == MapBuilders(o.profiles, g)
<1>1. o.profiles \in Seq(P)
  BY ObjectsAssumption
<1>2. n \in Nat /\ \A h \in 1 .. n : o.profiles[h] \in P
  BY <1>1
<1>3. \A h \in 1 .. 2 * n : (h + 1) \div 2 \in 1 .. n
  BY <1>2
<1>4. DOMAIN bs = 1 .. 2 * n
  BY DEF MapBuilders
<1>5. t = [h \in 1 .. 2 * n |->
             Build(bs[h].kind, ClaimName(o, bs[h].claim[1], g), << >>)]
  BY <1>4 DEF Builders, MapPhase, BuildingMap, UpdatingMap, Empty
<1>6. ASSUME NEW h \in 1 .. 2 * n
      PROVE  /\ t[h].kind = IF h % 2 = 1 THEN "PersistentVolumeClaim" ELSE "Job"
             /\ t[h].name = ClaimName(o, o.profiles[(h + 1) \div 2], g)
             /\ t[h].mount = << >>
  <2>1. /\ bs[h].kind = IF h % 2 = 1 THEN "PersistentVolumeClaim" ELSE "Job"
        /\ bs[h].claim[1] = o.profiles[(h + 1) \div 2]
    BY DEF MapBuilders, Builder
  <2>2. t[h] = Build(bs[h].kind, ClaimName(o, bs[h].claim[1], g), << >>)
    BY <1>5
  <2> HIDE DEF bs
  <2> QED
    BY <2>1, <2>2 DEF Build
<1>7. i \in 1 .. 2 * n
  BY <1>5
<1>8. ASSUME t[i].kind = "Job"
      PROVE  \E j \in 1 .. i - 1 : IsVolume(t[j]) /\ t[j].name = t[i].name
  <2>1. i % 2 # 1
    BY <1>6, <1>7, <1>8
  <2>2. /\ i - 1 \in 1 .. 2 * n /\ (i - 1) % 2 = 1 /\ i - 1 \in 1 .. i - 1
        /\ ((i - 1) + 1) \div 2 = (i + 1) \div 2
    <3>1. PICK m : m = 2 * n /\ m \in Nat
      BY <1>2
    <3>2. i \in Nat /\ 1 <= i /\ i <= m
      BY <1>7, <3>1
    <3>3. i % 2 = 0 /\ 2 <= i
      BY <2>1, <3>2
    <3>4. (i - 1) % 2 = 1 /\ ((i - 1) + 1) \div 2 = (i + 1) \div 2
      BY <3>2, <3>3
    <3> QED
      BY <3>1, <3>2, <3>3, <3>4
  <2>3. IsVolume(t[i - 1]) /\ t[i - 1].name = t[i].name
    BY <1>6, <1>7, <2>2 DEF IsVolume
  <2> QED
    BY <2>2, <2>3
<1> QED
  BY <1>2, <1>3, <1>6, <1>7, <1>8

LEMMA ServingPhaseBuilds ==
  ASSUME NEW o \in Objects, NEW g \in Gen, NEW phase,
         phase \notin {Empty, BuildingMap, UpdatingMap}, o.profiles # << >>,
         NEW t, t = Builders(o, phase, g), NEW i \in DOMAIN t
  PROVE  /\ t[i].kind \in ServingKinds
         /\ t[i].mount # << >> =>
              \E p \in ProfileSet(o.profiles) : t[i].mount = ClaimName(o, p, g)
         /\ t[i].kind = "Deployment" =>
              /\ \E j \in 1 .. i : IsLeader(o, t[j])
              /\ o.kind = "OSRMInstance" => t[i].mount # << >>
<1> DEFINE P == ProfileSet(o.profiles)
           n == Len(o.profiles)
           worker(p) == WorkerDeployment(o, p, g)
           service(p) == WorkerService(o, p)
           w(h) == worker(o.profiles[h])
           Fits(b) ==
             /\ b.kind \in ServingKinds
             /\ b.mount # << >> => \E p \in P : b.mount = ClaimName(o, p, g)
             /\ b.kind = "Deployment" /\ o.kind = "OSRMInstance" => b.mount # << >>
<1>1. o.profiles \in Seq(P)
  BY ObjectsAssumption
<1>2. /\ n \in Nat /\ 1 <= n /\ DOMAIN o.profiles = 1 .. n
      /\ \A h \in 1 .. n : o.profiles[h] \in P
  BY <1>1
<1>3. \A h \in 1 .. 2 * n : (h + 1) \div 2 \in 1 .. n
  BY <1>2
<1>4. ASSUME NEW p \in P
      PROVE  /\ Fits(worker(p)) /\ Fits(service(p))
             /\ service(p).kind # "Deployment"
  <2>1. ClaimName(o, p, g) # << >>
    BY ClaimGeneration
  <2> QED
    BY <2>1 DEF WorkerDeployment, WorkerService, Build, ServingKinds
<1>5. IsLeader(o, w(1))
  BY <1>2 DEF IsLeader, WorkerDeployment, Build
<1> SUFFICES Fits(t[i]) /\ (t[i].kind = "Deployment" =>
                              \E j \in 1 .. i : IsLeader(o, t[j]))
  OBVIOUS
<1>6. t = ServingPhase(o, phase, g)
  BY DEF Builders
<1>7. CASE phase = DeployingWorkers
  <2>1. t = ForEach(o, worker, service)
    BY <1>6, <1>7 DEF ServingPhase
  <2>2. /\ DOMAIN t = 1 .. 2 * n
        /\ \A h \in 1 .. 2 * n :
             t[h] = IF h % 2 = 1 THEN worker(o.profiles[(h + 1) \div 2])
                    ELSE service(o.profiles[(h + 1) \div 2])
    BY <2>1 DEF ForEach
  <2>3. (1 + 1) \div 2 = 1 /\ 1 % 2 = 1 /\ 1 \in 1 .. 2 * n /\ 1 \in 1 .. i
    BY <1>2, <2>2
  <2>4. t[1] = w(1)
    BY <2>2, <2>3
  <2>5. Fits(t[i])
    <3>1. PICK p \in P : t[i] = worker(p) \/ t[i] = service(p)
      BY <1>2, <1>3, <2>2
    <3> HIDE DEF Fits, worker, service
    <3> QED
      BY <1>4, <3>1
  <2> QED
    BY <1>5, <2>3, <2>4, <2>5
<1>8. CASE phase = RedeployingWorkers
  <2>1. t = [h \in 1 .. n |-> w(h)]
    BY <1>2, <1>6, <1>8 DEF ServingPhase, DeployingWorkers, RedeployingWorkers
  <2>2. t[1] = w(1) /\ 1 \in 1 .. i /\ t[i] = w(i)
    BY <1>2, <2>1
  <2>3. Fits(t[i])
    <3>1. i \in 1 .. n
      BY <2>1
    <3> QED
      BY <1>2, <1>4, <2>2, <3>1
  <2> QED
    BY <1>5, <2>2, <2>3
<1>9. CASE phase \notin {DeployingWorkers, RedeployingWorkers}
  <2> DEFINE s == ForEach(o, service, worker)
             gw == Gateway(o)
  <2>1. t = s \o gw
    BY <1>6, <1>9 DEF ServingPhase
  <2>2. /\ s = [h \in 1 .. 2 * n |-> s[h]]
        /\ \A h \in 1 .. 2 * n :
             s[h] = IF h % 2 = 1 THEN service(o.profiles[(h + 1) \div 2])
                    ELSE worker(o.profiles[(h + 1) \div 2])
    BY DEF ForEach
  <2>3. (2 + 1) \div 2 = 1 /\ 2 % 2 = 0 /\ 2 \in 1 .. 2 * n
    BY <1>2
  <2>4. s[2] = w(1)
    <3>1. s[2] = IF 2 % 2 = 1 THEN service(o.profiles[(2 + 1) \div 2])
                 ELSE worker(o.profiles[(2 + 1) \div 2])
      BY <2>2, <2>3
    <3> HIDE DEF s, worker, service
    <3>2. s[2] = worker(o.profiles[1])
      BY <2>3, <3>1
    <3> QED
      BY <3>2
  <2>5. PICK ss, gg : ss = s /\ gg = gw
    OBVIOUS
  <2>6. ss \in Seq({ss[h] : h \in 1 .. 2 * n}) /\ Len(ss) = 2 * n
    <3> HIDE DEF s
    <3>1. 2 * n \in Nat /\ ss = [h \in 1 .. 2 * n |-> ss[h]]
      BY <1>2, <2>2, <2>5
    <3>2. PICK S : S = {ss[h] : h \in 1 .. 2 * n}
      OBVIOUS
    <3>3. \A h \in 1 .. 2 * n : ss[h] \in S
      BY <3>2
    <3>4. ss \in Seq(S)
      BY <3>1, <3>3, ListOf
    <3>5. DOMAIN ss = 1 .. 2 * n
      BY <3>1
    <3> QED
      BY <3>1, <3>2, <3>4, <3>5
  <2>7. /\ gg \in Seq({Build("Service", GatewayName(o), << >>),
                       Build("Deployment", GatewayName(o), << >>)})
        /\ o.kind = "OSRMInstance" => gg = << >>
    <3>1. PICK a, b : /\ a = Build("Service", GatewayName(o), << >>)
                      /\ b = Build("Deployment", GatewayName(o), << >>)
      OBVIOUS
    <3>2. gg = IF o.kind = "OSRMInstance" THEN << >> ELSE <<a, b>>
      BY <2>5, <3>1 DEF Gateway
    <3>3. << >> \in Seq({a, b}) /\ <<a, b>> \in Seq({a, b})
      OBVIOUS
    <3> QED
      BY <3>1, <3>2, <3>3
  <2>8. /\ \A h \in 1 .. 2 * n : t[h] = ss[h]
        /\ \A h \in DOMAIN t : h \in 1 .. 2 * n \/
             (h \in Nat /\ h > 2 * n /\ h - 2 * n \in DOMAIN gg /\ t[h] = gg[h - 2 * n])
    <3>1. PICK A, B : ss \in Seq(A) /\ gg \in Seq(B)
      BY <2>6, <2>7
    <3>2. PICK m : m = 2 * n /\ m \in Nat
      BY <1>2
    <3>3. t = ss \o gg
      BY <2>1, <2>5
    <3> HIDE DEF s, gw
    <3>4. /\ Len(ss) = m /\ Len(gg) \in Nat /\ DOMAIN gg = 1 .. Len(gg)
          /\ DOMAIN t = 1 .. m + Len(gg)
          /\ \A h \in 1 .. m + Len(gg) :
               t[h] = IF h <= m THEN ss[h] ELSE gg[h - m]
      <4>1. Len(ss) = m
        BY <2>6, <3>2
      <4>2. Len(gg) \in Nat /\ DOMAIN gg = 1 .. Len(gg)
        BY <3>1
      <4>3. /\ DOMAIN (ss \o gg) = 1 .. Len(ss) + Len(gg)
            /\ \A h \in 1 .. Len(ss) + Len(gg) :
                 (ss \o gg)[h] = IF h <= Len(ss) THEN ss[h]
                                ELSE gg[h - Len(ss)]
        BY <3>1
      <4> QED
        BY <3>3, <4>1, <4>2, <4>3
    <3>5. ASSUME NEW h \in 1 .. m + Len(gg), h \notin 1 .. m
          PROVE  /\ h \in Nat /\ h > m /\ h - m \in DOMAIN gg
                 /\ t[h] = gg[h - m]
      BY <3>2, <3>4, <3>5
    <3> QED
      BY <3>2, <3>4, <3>5
  <2>9. CASE i \in 1 .. 2 * n
    <3>1. PICK p \in P : \/ t[i] = service(p)
                         \/ t[i] = worker(p) /\ i % 2 # 1
      BY <1>2, <1>3, <2>2, <2>5, <2>8, <2>9
    <3>2. Fits(t[i])
      <4> HIDE DEF Fits, worker, service
      <4> QED
        BY <1>4, <3>1
    <3>3. t[i].kind = "Deployment" => 2 \in 1 .. i
      <4>1. t[i].kind = "Deployment" => i % 2 # 1
        BY <1>4, <3>1
      <4> QED
        BY <2>9, <4>1
    <3>4. t[2] = w(1)
      BY <2>3, <2>4, <2>5, <2>8
    <3> QED
      BY <1>5, <3>2, <3>3, <3>4
  <2>10. CASE i \notin 1 .. 2 * n
    <3>1. i \in Nat /\ i > 2 * n /\ t[i] = gg[i - 2 * n] /\ i - 2 * n \in DOMAIN gg
      BY <2>8, <2>10
    <3>2. o.kind # "OSRMInstance"
      BY <2>7, <3>1
    <3>3. t[i].kind \in ServingKinds /\ t[i].mount = << >>
      <4>1. \/ t[i] = Build("Service", GatewayName(o), << >>)
            \/ t[i] = Build("Deployment", GatewayName(o), << >>)
        BY <2>7, <3>1
      <4> QED
        BY <4>1 DEF Build, ServingKinds
    <3>4. t[2] = w(1) /\ 2 \in 1 .. i
      <4>1. t[2] = w(1)
        BY <2>3, <2>4, <2>5, <2>8
      <4>2. 2 <= 2 * n /\ 2 * n \in Nat
        BY <1>2
      <4> HIDE DEF n
      <4>3. 2 \in 1 .. i
        BY <3>1, <4>2
      <4> QED
        BY <4>1, <4>3
    <3> QED
      BY <1>5, <3>2, <3>3, <3>4
  <2> QED
    BY <2>9, <2>10
<1> QED
  BY <1>7, <1>8, <1>9

(* Workers are planned once the spec is recorded, on the newest            *)
(* generation, when all its volumes exist and their Jobs have completed.   *)
LEMMA PlansWorkers ==
  ASSUME NEW o, NEW phase, phase = PhaseOf(o),
         phase \notin {Empty, BuildingMap, UpdatingMap}
  PROVE  /\ o \in recorded /\ o.profiles # << >>
         /\ GenerationFor(phase, Active(o), Future(o)) = Future(o)
         /\ \A p \in ProfileSet(o.profiles) :
              <<p, Future(o)>> \in MapStarted(o, Volumes(o)) \cap Completed(o)
<1> DEFINE spec == [url |-> "extract", profiles |-> o.profiles]
           url == IF o \in recorded THEN "extract" ELSE "none"
           InProgress(g) == IsMapBuildingInProgress(o.profiles,
                              MapStarted(o, Volumes(o)), Completed(o), g)
<1>1. phase = DeterminePhase(spec, url, Active(o), Future(o),
                MapStarted(o, Volumes(o)), Completed(o), ReadyProfiles(o))
  BY DEF PhaseOf
<1>2. /\ o.profiles # << >> /\ ~InProgress(Active(o))
      /\ ~MapUpdateNeeded(spec, url, InProgress(Future(o)))
  BY <1>1 DEF DeterminePhase
<1>3. o \in recorded /\ ~InProgress(Future(o))
  BY <1>2 DEF MapUpdateNeeded
<1>4. GenerationFor(phase, Active(o), Future(o)) = Future(o)
  <2>1. Active(o) # Future(o) => phase = RedeployingWorkers
    BY <1>1, <1>2 DEF DeterminePhase
  <2> QED
    BY <2>1 DEF GenerationFor
<1> QED
  BY <1>2, <1>3, <1>4 DEF IsMapBuildingInProgress

(* With all in place no other map is built than that of the generation     *)
(* that is mounted.                                                        *)
LEMMA PlansNoUpdate ==
  ASSUME NEW o, o \in recorded, Active(o) = Future(o)
  PROVE  PhaseOf(o) # UpdatingMap
BY DEF PhaseOf, DeterminePhase, MapUpdateNeeded, BuildingMap, UpdatingMap,
   Empty, RedeployingWorkers, DeployingWorkers, WorkersDeployed,
   WorkersRedeployed

LEMMA FutureSettled ==
  ASSUME NamesInv, MapsInv, DistinctNames, NEW o \in manifests, Mounting(o),
         NEW g \in Gen, Settled(o, g)
  PROVE  Future(o) = g
<1>1. PICK p \in ProfileSet(o.profiles) : TRUE
  BY DEF Mounting, Settled
<1>2. PICK v \in children :
        IsVolume(v) /\ v.name = ClaimName(o, p, g) /\ v.owner = o
  BY DEF Settled, Secure
<1>3. v \in Volumes(o)
  BY <1>2 DEF Volumes, Labelled, IsVolume
<1>4. GenerationOf(v.name) = g
  BY <1>2, ClaimGeneration DEF NamesInv, ObjectsOK, Objects
<1>5. g <= Future(o)
  BY <1>3, <1>4, FutureIsNewest
<1>6. \A c \in Volumes(o) : GenerationOf(c.name) <= g
  BY OwnVolumes DEF Settled
<1>7. g \in Nat /\ 1 <= g
  BY BoundsAssumption DEF Gen
<1>8. Future(o) \in Nat /\ Future(o) <= g
  <2>1. CASE Future(o) = 1
    BY <1>7, <2>1
  <2>2. ASSUME NEW c \in Volumes(o), Future(o) = GenerationOf(c.name)
        PROVE  Future(o) \in Nat /\ Future(o) <= g
    <3>1. GenerationOf(c.name) \in Gen
      BY OwnVolumes
    <3> QED
      BY <1>6, <2>2, <3>1, BoundsAssumption DEF Gen
  <2> QED
    BY <2>1, <2>2, FutureIsNewest
<1> QED
  BY <1>5, <1>7, <1>8

(* Volumes seen with completed Jobs are secure: both are the object's own. *)
LEMMA BuiltIsSecure ==
  ASSUME NamesInv, MapsInv, DistinctNames, NEW o \in manifests, NEW p, NEW g,
         <<p, g>> \in MapStarted(o, Volumes(o)) \cap Completed(o)
  PROVE  Secure(o, ClaimName(o, p, g))
<1>1. PICK n : n = ClaimName(o, p, g)
  OBVIOUS
<1>2. PICK v \in Volumes(o) : v.name = n
  BY <1>1 DEF MapStarted
<1>3. v \in children /\ IsVolume(v) /\ v.owner = o
  BY OwnVolumes
<1>4. PICK j \in Labelled(o, "Job") : j.done /\ j.name = n
  BY <1>1 DEF Completed, MapStarted
<1>5. j \in children /\ j.kind = "Job" /\ j.owner = o
  BY LabelledIsOwn DEF Labelled
<1>6. v.map \subseteq {o}
  BY <1>2, <1>3, <1>4, <1>5 DEF MapsInv, JobMaps
<1>7. \A c \in children : c.kind = "Job" /\ c.name = n => c = j
  BY <1>4, <1>5 DEF NamesInv, ChildrenOK, SameName
<1> QED
  BY <1>1, <1>2, <1>3, <1>5, <1>6, <1>7 DEF Secure

LEMMA PlanKeepsMaps ==
  ASSUME NamesInv, MapsInv, DistinctNames, NEW k \in Controllers,
         NEW o \in manifests, Plan(k, o)
  PROVE  MapsInv'
<1>0. PICK phase, g, t :
        /\ phase = PhaseOf(o) /\ g = GenerationFor(phase, Active(o), Future(o))
        /\ t = Builders(o, phase, g)
  OBVIOUS
<1>1. /\ o.kind = k /\ pass[k].step = "idle" /\ ~Panics(o) /\ g \in Gen
      /\ pass' = [pass EXCEPT ![k] = [step |-> "build", of |-> {o},
                    phase |-> phase, todo |-> t, jobs |-> {}]]
      /\ UNCHANGED <<manifests, existing, lives, recorded, children>>
  BY <1>0 DEF Plan, objects
<1>2. /\ pass'[k].step = "build" /\ pass'[k].of = {o} /\ pass'[k].todo = t
      /\ \A j \in Controllers \ {k} : pass'[j] = pass[j]
  BY <1>1 DEF NamesInv, PassesOK
<1>3. o \in Objects
  BY DEF NamesInv, ObjectsOK, Objects
<1>4. \A j \in Controllers : o \notin pass[j].of
  <2> SUFFICES ASSUME NEW j \in Controllers, o \in pass[j].of PROVE FALSE
    OBVIOUS
  <2>1. j = k
    BY <1>1, OneAtATime
  <2> QED
    BY <1>1, <2>1 DEF NamesInv, PassesOK, PassFits
<1>5. ASSUME NEW i \in DOMAIN t, phase \in {BuildingMap, UpdatingMap}
      PROVE  /\ t[i].kind \in {"PersistentVolumeClaim", "Job"} /\ t[i].mount = << >>
             /\ \E p \in ProfileSet(o.profiles) : t[i].name = ClaimName(o, p, g)
             /\ t[i].kind = "Job" =>
                  \E j \in 1 .. i - 1 : IsVolume(t[j]) /\ t[j].name = t[i].name
  BY <1>0, <1>3, <1>5, MapPhaseBuilds
<1>6. ASSUME NEW i \in DOMAIN t, phase \notin {BuildingMap, UpdatingMap}
      PROVE  /\ phase # Empty
             /\ t[i].kind \in ServingKinds
             /\ t[i].mount # << >> =>
                  \E p \in ProfileSet(o.profiles) : t[i].mount = ClaimName(o, p, g)
             /\ t[i].kind = "Deployment" =>
                  /\ \E j \in 1 .. i : IsLeader(o, t[j])
                  /\ o.kind = "OSRMInstance" => t[i].mount # << >>
  <2>1. phase # Empty
    BY <1>0, <1>6 DEF Builders
  <2>2. o.profiles # << >>
    BY <1>0, <1>6, <2>1, PlansWorkers
  <2> QED
    BY <1>0, <1>1, <1>3, <1>6, <2>1, <2>2, ServingPhaseBuilds
<1>7. ASSUME NEW b, Mine(o, b)'
      PROVE  (b \in children /\ b.owner = o) \/ \E i \in DOMAIN t : b = t[i]
  BY <1>1, <1>2, <1>4, <1>7 DEF Mine
<1>8. ASSUME NEW q, q # o, NEW b PROVE Mine(q, b)' <=> Mine(q, b)
  <2>1. \A j \in Controllers : q \in pass'[j].of <=> (j # k /\ q \in pass[j].of)
    BY <1>2, <1>8
  <2>2. q \notin pass[k].of
    BY <1>1 DEF NamesInv, PassesOK, PassFits
  <2>3. \A j \in Controllers : q \in pass'[j].of => pass'[j] = pass[j]
    BY <1>2, <2>1
  <2> QED
    BY <1>1, <2>1, <2>2, <2>3 DEF Mine
<1>9. \A q : FirstLife(q)' <=> FirstLife(q)
  BY <1>1, LivesKept
<1>10. HistoryInv' /\ JobMaps'
  BY <1>1, LivesKept DEF MapsInv, HistoryInv, JobMaps, IsVolume
<1>11. WorkInPlace'
  BY <1>2 DEF MapsInv, WorkInPlace
<1>12. \A q, n : (OwnVolume(q, n)' <=> OwnVolume(q, n))
                  /\ (Secure(q, n)' <=> Secure(q, n))
  BY <1>1 DEF OwnVolume, Secure, IsVolume
<1>13. ASSUME NEW j \in Controllers PROVE VolumeFirst(j)'
  <2>1. CASE j = k
    <3>1. ASSUME NEW i \in DOMAIN t, t[i].kind = "Job"
          PROVE  \E h \in 1 .. i - 1 : IsVolume(t[h]) /\ t[h].name = t[i].name
      BY <1>5, <1>6, <3>1 DEF ServingKinds
    <3> QED
      BY <1>2, <2>1, <3>1 DEF VolumeFirst, IsVolume
  <2>2. CASE j # k
    <3>1. pass'[j] = pass[j] /\ VolumeFirst(j)
      BY <1>2, <2>2 DEF MapsInv
    <3> QED
      BY <1>1, <3>1 DEF VolumeFirst, IsVolume, OwnVolume
  <2> QED
    BY <2>1, <2>2
<1>14. ASSUME NEW q \in manifests PROVE WellMade(q)'
  <2>1. CASE q # o
    <3>1. NothingNew(q) /\ WellMade(q)
      BY <1>8, <2>1 DEF NothingNew, MapsInv
    <3> QED
      BY <3>1, WellMadeKept
  <2>2. ASSUME NEW b, Mine(o, b)'
        PROVE  /\ IsVolume(b) => IsClaim(o, b.name)
               /\ b.kind = "Deployment" /\ o.kind = "OSRMInstance" => b.mount # << >>
    <3>1. CASE b \in children /\ b.owner = o
      BY <3>1 DEF MapsInv, WellMade, Mine
    <3>2. ASSUME NEW i \in DOMAIN t, b = t[i]
          PROVE  /\ IsVolume(b) => IsClaim(o, b.name)
                 /\ b.kind = "Deployment" /\ o.kind = "OSRMInstance"
                      => b.mount # << >>
      <4>1. CASE phase \in {BuildingMap, UpdatingMap}
        <5>1. /\ b.kind \in {"PersistentVolumeClaim", "Job"}
              /\ \E p \in ProfileSet(o.profiles) : b.name = ClaimName(o, p, g)
          BY <1>5, <3>2, <4>1
        <5> QED
          BY <1>1, <5>1 DEF IsClaim
      <4>2. CASE phase \notin {BuildingMap, UpdatingMap}
        BY <1>6, <3>2, <4>2 DEF IsVolume, ServingKinds
      <4> QED
        BY <4>1, <4>2
    <3> QED
      BY <1>7, <2>2, <3>1, <3>2
  <2>3. CASE q = o
    BY <2>2, <2>3 DEF WellMade, IsVolume, IsClaim
  <2> QED
    BY <2>1, <2>3
<1>15. ASSUME NEW q \in manifests, FirstLife(q)' PROVE LeaderFirst(q)'
  <2>1. LeaderFirst(q) /\ (Leads(q)' <=> Leads(q))
    BY <1>1, <1>9, <1>15 DEF MapsInv, Leads, IsLeader
  <2>2. ASSUME NEW j \in Controllers, q \in pass'[j].of,
               NEW i \in DOMAIN pass'[j].todo, pass'[j].todo[i].kind = "Deployment"
        PROVE  Leads(q) \/ \E h \in 1 .. i : IsLeader(q, pass'[j].todo[h])
    <3>1. CASE j = k
      <4>1. q = o /\ pass'[j].todo = t
        BY <1>2, <2>2, <3>1
      <4>2. phase \notin {BuildingMap, UpdatingMap}
        BY <1>5, <2>2, <4>1
      <4> QED
        BY <1>6, <2>2, <4>1, <4>2
    <3>2. CASE j # k
      BY <1>2, <2>1, <2>2, <3>2 DEF LeaderFirst
    <3> QED
      BY <3>1, <3>2
  <2> QED
    BY <1>1, <2>1, <2>2 DEF LeaderFirst, IsLeader
<1>16. ASSUME NEW q \in manifests PROVE Settles(q)'
  <2>1. CASE q # o
    <3>1. NothingNew(q) /\ Settles(q)
      BY <1>8, <2>1 DEF NothingNew, MapsInv
    <3>2. ASSUME NEW h \in Gen, NEW p \in ProfileSet(q.profiles), Settled(q, h)
          PROVE  Secure(q, ClaimName(q, p, h))'
      <4>1. PICK n : n = ClaimName(q, p, h)
        OBVIOUS
      <4>2. Secure(q, n)'
        BY <1>12, <3>2, <4>1 DEF Settled
      <4> QED
        BY <4>1, <4>2
    <3> QED
      BY <1>1, <1>9, <3>1, <3>2, SettlesKept
  <2>2. ASSUME FirstLife(o), Mounting(o)'
        PROVE  \E h \in Gen : Settled(o, h)'
    <3>1. ASSUME Mounting(o)
          PROVE  /\ Settled(o, Future(o)) /\ Future(o) \in Gen
                 /\ Active(o) = Future(o)
      <4>1. PICK h \in Gen : Settled(o, h)
        BY <2>2, <3>1 DEF MapsInv, Settles
      <4>2. Future(o) = h
        BY <3>1, <4>1, FutureSettled
      <4>3. Leads(o)
        BY <1>4, <2>2, <3>1, MountsLead
      <4>4. Active(o) = h
        BY <1>1, <3>1, <4>1, <4>3, ActiveSettled
      <4> QED
        BY <4>1, <4>2, <4>4
    <3>2. ASSUME NEW h \in Gen, o \in recorded,
                 \A p \in ProfileSet(o.profiles) : Secure(o, ClaimName(o, p, h)),
                 \A b : Mine(o, b)' =>
                   /\ b.mount # << >> => \E p \in ProfileSet(o.profiles) :
                                           b.mount = ClaimName(o, p, h)
                   /\ IsVolume(b) => GenerationOf(b.name) <= h
          PROVE  Settled(o, h)'
      <4>1. ASSUME NEW p \in ProfileSet(o.profiles)
            PROVE  Secure(o, ClaimName(o, p, h))'
        <5>1. PICK n : n = ClaimName(o, p, h)
          OBVIOUS
        <5>2. Secure(o, n)'
          BY <1>12, <3>2, <5>1
        <5> QED
          BY <5>1, <5>2
      <4> QED
        BY <1>1, <3>2, <4>1 DEF Settled, IsVolume
    <3>3. CASE phase \in {BuildingMap, UpdatingMap} \/ t = << >>
      <4>1. Mounting(o)
        <5>1. PICK b : Mine(o, b)' /\ b.mount # << >>
          BY <2>2 DEF Mounting
        <5>2. \A i \in DOMAIN t : t[i].mount = << >>
          BY <1>5, <3>3
        <5>3. b \in children /\ b.owner = o
          BY <1>7, <5>1, <5>2
        <5> QED
          BY <5>1, <5>3 DEF Mounting, Mine
      <4>2. PICK h \in Gen : /\ h = Future(o) /\ h = Active(o) /\ Settled(o, h)
        BY <3>1, <4>1
      <4>3. o \in recorded
        BY <4>2 DEF Settled
      <4>4. phase \in {BuildingMap, UpdatingMap} => g = h
        <5>1. phase # UpdatingMap
          BY <1>0, <4>2, <4>3, PlansNoUpdate
        <5> QED
          BY <1>0, <4>2, <5>1 DEF GenerationFor, BuildingMap, UpdatingMap,
             RedeployingWorkers
      <4>5. ASSUME NEW b, Mine(o, b)'
            PROVE  /\ b.mount # << >> => \E p \in ProfileSet(o.profiles) :
                                           b.mount = ClaimName(o, p, h)
                   /\ IsVolume(b) => GenerationOf(b.name) <= h
        <5>1. CASE b \in children /\ b.owner = o
          BY <4>2, <5>1 DEF Settled, Mine
        <5>2. ASSUME NEW i \in DOMAIN t, b = t[i]
              PROVE  b.mount = << >> /\ GenerationOf(b.name) <= h
          <6>1. phase \in {BuildingMap, UpdatingMap}
            BY <3>3, <5>2
          <6>2. PICK p \in ProfileSet(o.profiles) : b.name = ClaimName(o, p, h)
            BY <1>5, <4>4, <5>2, <6>1
          <6>3. GenerationOf(b.name) = h
            BY <1>3, <6>2, ClaimGeneration
          <6>4. h <= h
            BY BoundsAssumption DEF Gen
          <6> QED
            BY <1>5, <5>2, <6>1, <6>3, <6>4
        <5> QED
          BY <1>7, <4>5, <5>1, <5>2
      <4>6. Settled(o, h)'
        BY <3>2, <4>2, <4>3, <4>5 DEF Settled
      <4> QED
        BY <4>6
    <3>4. CASE phase \notin {BuildingMap, UpdatingMap} /\ t # << >>
      <4>1. phase # Empty
        BY <1>0, <3>4 DEF Builders
      <4>2. /\ o \in recorded /\ g = Future(o)
            /\ \A p \in ProfileSet(o.profiles) :
                 <<p, g>> \in MapStarted(o, Volumes(o)) \cap Completed(o)
        BY <1>0, <3>4, <4>1, PlansWorkers
      <4>3. \A p \in ProfileSet(o.profiles) : Secure(o, ClaimName(o, p, g))
        BY <4>2, BuiltIsSecure
      <4>4. ASSUME NEW b, Mine(o, b)'
            PROVE  /\ b.mount # << >> => \E p \in ProfileSet(o.profiles) :
                                           b.mount = ClaimName(o, p, g)
                   /\ IsVolume(b) => GenerationOf(b.name) <= g
        <5>1. CASE b \in children /\ b.owner = o
          <6>1. ASSUME b.mount # << >>
                PROVE  \E p \in ProfileSet(o.profiles) : b.mount = ClaimName(o, p, g)
            <7>1. Mine(o, b)
              BY <5>1 DEF Mine
            <7>2. Mounting(o)
              BY <6>1, <7>1 DEF Mounting
            <7>3. Settled(o, g)
              BY <3>1, <4>2, <7>2
            <7> QED
              BY <6>1, <7>1, <7>3 DEF Settled
          <6>2. ASSUME IsVolume(b) PROVE GenerationOf(b.name) <= g
            <7>1. b \in Volumes(o)
              BY <5>1, <6>2 DEF Volumes, Labelled, IsVolume
            <7> QED
              BY <4>2, <7>1, FutureIsNewest
          <6> QED
            BY <6>1, <6>2
        <5>2. CASE \E i \in DOMAIN t : b = t[i]
          BY <1>6, <3>4, <5>2 DEF IsVolume, ServingKinds
        <5> QED
          BY <1>7, <4>4, <5>1, <5>2
      <4>5. Settled(o, g)'
        BY <1>1, <3>2, <4>2, <4>3, <4>4
      <4> QED
        BY <1>1, <4>5
    <3> QED
      BY <3>3, <3>4
  <2>3. CASE q = o
    BY <1>9, <2>2, <2>3 DEF Settles
  <2> QED
    BY <2>1, <2>3
<1> QED
  BY <1>1, <1>10, <1>11, <1>13, <1>14, <1>15, <1>16 DEF MapsInv

-----------------------------------------------------------------------------
LEMMA InitMaps == Init => MapsInv
<1> SUFFICES ASSUME Init PROVE MapsInv
  OBVIOUS
<1>1. existing = {} /\ children = {} /\ pass = [k \in Controllers |-> Idle]
  BY DEF Init
<1>2. \A k \in Controllers :
        pass[k].of = {} /\ pass[k].todo = << >> /\ pass[k].step = "idle"
  BY <1>1 DEF Idle
<1>3. \A o, b : ~Mine(o, b)
  BY <1>1, <1>2 DEF Mine
<1> QED
  BY <1>1, <1>2, <1>3 DEF MapsInv, HistoryInv, JobMaps, WorkInPlace, VolumeFirst,
     WellMade, FirstLife, Settles, Mounting

LEMMA NextKeepsMaps ==
  ASSUME NamesInv, MapsInv, DistinctNames, [Next]_vars
  PROVE  MapsInv'
<1>1. ASSUME Fading PROVE MapsInv'
  BY <1>1, FadingKeepsMaps
<1>2. ASSUME NEW k \in Controllers, NEW o \in manifests,
             Finalize(k, o) \/ AlreadyOwned(k, o) \/ SetLastAppliedSpec(k, o)
               \/ Collect(k, o) \/ CollectJobs(k, o) \/ Abandon(k, o)
      PROVE  MapsInv'
  BY <1>1, <1>2, FinalizeFades, EndsFade, CollectFades, CollectJobsFades
<1>3. ASSUME NEW k \in Controllers, NEW o \in manifests,
             Create(k, o) \/ Update(k, o)
      PROVE  MapsInv'
  BY <1>3, CreateWrites, UpdateWrites, WriteKeepsMaps
<1>4. ASSUME NEW k \in Controllers, NEW o \in manifests, Plan(k, o)
      PROVE  MapsInv'
  BY <1>4, PlanKeepsMaps
<1>5. ASSUME NEW k \in Controllers, Reconcile(k) PROVE MapsInv'
  BY <1>2, <1>3, <1>4, <1>5 DEF Reconcile
<1>6. ASSUME NEW o \in manifests, JobCompletes(o) PROVE MapsInv'
  BY <1>6, JobCompletesKeepsMaps
<1>7. CollectOrphan => MapsInv'
  BY <1>1, OrphanFades
<1>8. (\E o \in manifests : UserCreates(o) \/ UserDeletes(o)) \/ UNCHANGED vars
        => MapsInv'
  BY <1>1, UserFades
<1> QED
  BY <1>2, <1>5, <1>6, <1>7, <1>8 DEF Next

LEMMA MapsAreOwn == NamesInv /\ MapsInv => NeverForeignMap
<1> SUFFICES ASSUME NamesInv, MapsInv, NEW d \in children, NEW v \in children,
                    d.kind = "Deployment", ~d.orphan, CreatedOnce(d.owner),
                    IsVolume(v), v.name = d.mount
             PROVE  v.map \subseteq {d.owner}
  BY DEF NeverForeignMap, IsVolume
<1> DEFINE o == d.owner
<1>1. o \in manifests /\ v.owner \in manifests /\ FirstLife(o)
  BY DEF NamesInv, ChildrenOK, ChildFits, FirstLife
<1>2. d.mount # << >>
  <2>1. IsClaim(v.owner, v.name)
    BY <1>1 DEF MapsInv, WellMade, Mine
  <2> QED
    BY <1>1, <2>1, ClaimGeneration DEF IsClaim, NamesInv, ObjectsOK, Objects
<1>3. Mine(o, d)
  BY DEF Mine
<1>4. PICK g \in Gen : Settled(o, g)
  BY <1>1, <1>2, <1>3 DEF MapsInv, Settles, Mounting
<1>5. PICK p \in ProfileSet(o.profiles) : d.mount = ClaimName(o, p, g)
  BY <1>2, <1>3, <1>4 DEF Settled
<1>6. PICK u \in children : IsVolume(u) /\ u.name = d.mount /\ u.map \subseteq {o}
  BY <1>4, <1>5 DEF Settled, Secure
<1>7. u = v
  BY <1>6 DEF NamesInv, ChildrenOK, SameName, IsVolume
<1> QED
  BY <1>6, <1>7

(* The Deployments of an object that was created once never mount a volume *)
(* with the map of another object, for any number of objects and profiles, *)
(* whatever the others do, however often they come back, and whatever      *)
(* fails: unless two objects share a name.                                 *)
THEOREM NeverForeignMapTheorem ==
  ASSUME DistinctNames
  PROVE  Spec => []NeverForeignMap
<1>1. NamesInv /\ MapsInv /\ [Next]_vars => MapsInv'
  BY NextKeepsMaps
<1>2. Spec => []MapsInv
  BY <1>1, InitMaps, AlwaysNames, PTL DEF Spec
<1> QED
  BY <1>2, AlwaysNames, MapsAreOwn, PTL
=============================================================================
