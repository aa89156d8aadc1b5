------------------------ MODULE SpeedUpdates_proofs ------------------------
(***************************************************************************)
(* Speed updates that do not overlap: however often a script is killed,    *)
(* fails or is started again on what it left behind, workers never find a  *)
(* half written map; and they are restarted with the traffic data of the   *)
(* last successful run, or with those of a failed Job whose leftovers kept *)
(* that run from swapping the maps.  For every length of the schedule,     *)
(* back-off limit and number of faults.                                    *)
(***************************************************************************)
EXTENDS SpeedUpdates, FiniteSetTheorems, TLAPS

(* A run ends before the next one is scheduled.                            *)
NoOverlap == MaxActive = 1

Single == \A r, s \in Unfinished : r = s

(* No run starts before its hour.                                          *)
Scheduled == \A r \in Runs : at[r] # "unscheduled" => r <= hour

(* An unfinished run is newer than all that succeeded.                     *)
InOrder ==
  /\ \A r \in Unfinished : lastSuccess < r
  /\ \A r \in Runs : at[r] = "succeeded" => r <= lastSuccess
  /\ lastSuccess <= hour

(* The workers' directory is what run n may leave there.                   *)
FreshFor(n) == ~swapFailed => AsFreshAs(n, customized.speeds)

(* The directory a script prepares: it has downloaded the data of its hour *)
(* or a later one, and before the directory is moved it is complete.  If   *)
(* the workers' directory is not out of the way when it is, it may stay.   *)
PreparedFor(r) ==
  /\ writes[r] # "customized"
  /\ at[r] = "write" => writes[r] = "temp"
  /\ at[r] \in {"copy", "customize", "write"} => r <= temp.csv
  /\ at[r] \in {"moveOld", "moveNew"} => temp.state = "complete" /\ r <= temp.speeds
  /\ at[r] = "moveNew" => customized = Absent \/ FreshFor(r)
  /\ at[r] \in {"removeOld", "finished"} =>
       FreshFor(r) /\ (~swapFailed => customized # Absent)
  /\ at[r] = "finished" /\ ~swapFailed => old = "absent"

Prepared == \A r \in Runs : PreparedFor(r)

(* The directory workers read is not there, or it is complete and has      *)
(* traffic data as new as the last success calls for.                      *)
InPlace ==
  \/ customized = Absent
  \/ customized.state = "complete" /\ FreshFor(lastSuccess)

(* While replaced maps are not cleared away, the map in place is that of a *)
(* run newer than all successes, still under way or failed for good.       *)
NewerThanSuccesses ==
  \E q \in Runs :
    /\ at[q] = "failed" \/ q \in Unfinished
    /\ q <= customized.speeds
    /\ \A s \in Runs : at[s] = "succeeded" => s < q

OldLeft ==
  ~swapFailed /\ old # "absent" => customized = Absent \/ NewerThanSuccesses

(* The operator has told the workers of the last successful run, or is     *)
(* about to do so, or has a pass queued in which it will.                  *)
WorkersTold ==
  /\ sibling <= lastSuccess /\ annotated <= lastSuccess
  /\ worker.up /\ ~swapFailed => AsFreshAs(annotated, worker.loaded)
  /\ ~queued /\ pc = "idle" => annotated = lastSuccess
  /\ ~queued /\ pc = "update" => sibling = lastSuccess

UpdatesInv ==
  Single /\ InOrder /\ Prepared /\ InPlace /\ OldLeft /\ WorkersTold

-----------------------------------------------------------------------------
(* Types.                                                                  *)

DirectoriesOK ==
  /\ customized \in Directory /\ temp \in Directory
  /\ old \in {"absent", "present", "occupied"}

LEMMA AbsentType == Absent \in Directory /\ EmptyDir \in Directory
<1>1. 0 \in Hours
  BY SpeedUpdatesAssumption DEF Hours
<1>2. Absent \in Directory
  BY <1>1 DEF Absent, Directory
<1>3. EmptyDir \in Directory
  BY <1>2 DEF EmptyDir, Directory
<1> QED
  BY <1>2, <1>3

LEMMA WrittenType == \A d \in Directory : Written(d) \in Directory
BY DEF Written, Directory

LEMMA InitTypeOK == Init => TypeOK
<1> SUFFICES ASSUME Init PROVE TypeOK
  OBVIOUS
<1>1. 0 \in Hours /\ 0 \in 0 .. MaxFaults
  BY SpeedUpdatesAssumption DEF Hours
<1>2. customized \in Directory /\ temp \in Directory
  BY <1>1, AbsentType DEF Init, Absent, Directory
<1> QED
  BY <1>1, <1>2 DEF Init, TypeOK

(* What the type of the scripts' state amounts to, step by step.           *)
ScriptOK ==
  /\ at \in [Runs -> Commands \cup
                     {"unscheduled", "exited", "finished", "succeeded", "failed"}]
  /\ fails \in [Runs -> Nat]
  /\ writes \in [Runs -> {"nowhere", "temp", "customized"}]
  /\ \A r \in Runs : writes[r] # "nowhere" => at[r] = "write"

OperatorOK ==
  /\ lastSuccess \in Hours
  /\ queued \in BOOLEAN /\ pc \in {"idle", "update"}
  /\ sibling \in Hours /\ annotated \in Hours
  /\ worker \in [up : BOOLEAN, loaded : Hours]

BoundsOK == faults \in 0 .. MaxFaults /\ swapFailed \in BOOLEAN

LEMMA TypeParts ==
  /\ TypeOK <=> /\ hour \in Hours /\ BoundsOK
                /\ ScriptOK /\ DirectoriesOK /\ OperatorOK
  /\ TypeOK' <=> /\ hour' \in Hours /\ BoundsOK'
                 /\ ScriptOK' /\ DirectoriesOK' /\ OperatorOK'
BY DEF TypeOK, ScriptOK, DirectoriesOK, OperatorOK, BoundsOK

LEMMA FaultType ==
  ASSUME BoundsOK, Fault \/ UNCHANGED bounds \/ \E b : SwapFails(b)
  PROVE  BoundsOK' /\ (swapFailed => swapFailed')
<1>1. CASE UNCHANGED bounds
  BY <1>1 DEF bounds, BoundsOK
<1>2. CASE /\ faults < MaxFaults /\ faults' = faults + 1
           /\ swapFailed' \in {swapFailed, TRUE}
  <2>1. faults' \in 0 .. MaxFaults
    BY <1>2, SpeedUpdatesAssumption DEF BoundsOK
  <2>2. swapFailed' \in BOOLEAN /\ (swapFailed => swapFailed')
    <3>1. CASE swapFailed' = swapFailed
      BY <3>1 DEF BoundsOK
    <3>2. CASE swapFailed' = TRUE
      BY <3>2
    <3> QED
      BY <1>2, <3>1, <3>2
  <2> QED
    BY <2>1, <2>2, Zenon DEF BoundsOK
<1> QED
  BY <1>1, <1>2 DEF Fault, SwapFails

(* What becomes of the counter of faults in each step.                     *)
LEMMA BoundsStep ==
  ASSUME [Next]_vars PROVE Fault \/ UNCHANGED bounds \/ \E b : SwapFails(b)
<1>1. ASSUME NEW r \in Runs, Run(r)
      PROVE  Fault \/ UNCHANGED bounds \/ \E b : SwapFails(b)
  BY <1>1 DEF Run, MakeTemp, Download, CopyPartitioned, CustomizeOpen, CustomizeWrite,
              MoveOld, MoveNew, RemoveOld, Continue, Fails, PassOver
<1>2. ASSUME NEW r \in Runs, Kill(r) \/ Restart(r) \/ Succeed(r)
      PROVE  Fault \/ UNCHANGED bounds
  BY <1>2 DEF Kill, Restart, Succeed
<1>3. CASE \/ Schedule \/ ReadSiblings \/ UpdateDeployment \/ Wake \/ StartWorker
           \/ FailWorker \/ UNCHANGED vars
  BY <1>3 DEF Schedule, ReadSiblings, UpdateDeployment, Wake, StartWorker, FailWorker,
              vars
<1> QED
  BY <1>1, <1>2, <1>3 DEF Next

LEMMA ExitType ==
  ASSUME ScriptOK, NEW r \in Runs, Exit(r) \/ OnCustomizeError(r)
  PROVE  ScriptOK'
<1>1. CASE Exit(r)
  BY <1>1 DEF Exit, ScriptOK
<1>2. CASE OnCustomizeError(r)
  <2>1. /\ at' = [at EXCEPT ![r] = "exited"] /\ fails' = [fails EXCEPT ![r] = @ + 1]
        /\ writes' = [Moved("temp", "nowhere") EXCEPT ![r] = "nowhere"]
    BY <1>2 DEF OnCustomizeError
  <2>2. /\ Moved("temp", "nowhere") \in [Runs -> {"nowhere", "temp", "customized"}]
        /\ \A s \in Runs : Moved("temp", "nowhere")[s] # "nowhere" => at[s] = "write"
    BY DEF Moved, ScriptOK
  <2> HIDE DEF Moved
  <2> QED
    BY <2>1, <2>2 DEF ScriptOK
<1> QED
  BY <1>1, <1>2

LEMMA ScriptTypeOK ==
  ASSUME TypeOK, NEW r \in Runs, Run(r) \/ Kill(r)
  PROVE  TypeOK'
<1> USE TypeParts
<1>1. hour' \in Hours /\ OperatorOK'
  BY DEF Run, Kill, MakeTemp, Download, CopyPartitioned, CustomizeOpen,
         CustomizeWrite, MoveOld, MoveNew, RemoveOld, Step, operator, OperatorOK
<1>2. BoundsOK'
  BY BoundsStep, FaultType DEF Next
<1>3. hour \in Hours /\ 0 \in Hours
  BY SpeedUpdatesAssumption DEF Hours
<1>4. CASE Kill(r)
  <2>1. ScriptOK'
    BY <1>4, ExitType DEF Kill
  <2>2. DirectoriesOK'
    BY <1>4 DEF Kill, Remains, DirectoriesOK
  <2> QED
    BY <1>1, <1>2, <2>1, <2>2
<1>5. CASE MakeTemp(r)
  BY <1>1, <1>2, <1>5, AbsentType
  DEF MakeTemp, Step, Continue, ScriptOK, DirectoriesOK, Commands
<1>6. CASE Download(r)
  <2>1. ScriptOK'
    <3>1. CASE Exit(r)
      BY <3>1, ExitType
    <3>2. CASE Continue(r, "copy") /\ UNCHANGED writes
      BY <1>6, <3>2 DEF Download, Step, Continue, ScriptOK, Commands
    <3> QED
      BY <1>6, <3>1, <3>2 DEF Download
  <2>2. DirectoriesOK'
    BY <1>3, <1>6, AbsentType DEF Download, DirectoriesOK, Directory
  <2> QED
    BY <1>1, <1>2, <2>1, <2>2
<1>7. CASE CopyPartitioned(r)
  <2>1. ScriptOK'
    BY <1>7 DEF CopyPartitioned, Step, Continue, ScriptOK, Commands
  <2>2. DirectoriesOK'
    BY <1>7 DEF CopyPartitioned, DirectoriesOK, Directory
  <2> QED
    BY <1>1, <1>2, <2>1, <2>2
<1>8. CASE CustomizeOpen(r)
  <2>1. ScriptOK'
    <3>1. CASE OnCustomizeError(r)
      BY <3>1, ExitType
    <3>2. CASE writes' = [writes EXCEPT ![r] = "temp"] /\ Continue(r, "write")
      BY <3>2 DEF Continue, ScriptOK, Commands
    <3> QED
      BY <1>8, <3>1, <3>2 DEF CustomizeOpen
  <2>2. DirectoriesOK'
    BY <1>8, AbsentType DEF CustomizeOpen, OnCustomizeError, DirectoriesOK, Directory
  <2> QED
    BY <1>1, <1>2, <2>1, <2>2
<1>9. CASE CustomizeWrite(r)
  <2>1. ScriptOK'
    <3>1. CASE OnCustomizeError(r)
      BY <3>1, ExitType
    <3>2. CASE writes' = [writes EXCEPT ![r] = "nowhere"] /\ Continue(r, "moveOld")
      BY <3>2 DEF Continue, ScriptOK, Commands
    <3> QED
      BY <1>9, <3>1, <3>2 DEF CustomizeWrite
  <2>2. DirectoriesOK'
    BY <1>9, AbsentType, WrittenType
    DEF CustomizeWrite, OnCustomizeError, DirectoriesOK
  <2> QED
    BY <1>1, <1>2, <2>1, <2>2
<1>10. CASE MoveOld(r)
  <2>1. ScriptOK'
    BY <1>10 DEF MoveOld, Step, PassOver, Continue, Moved, ScriptOK, Commands
  <2>2. DirectoriesOK'
    BY <1>10, AbsentType DEF MoveOld, DirectoriesOK
  <2> QED
    BY <1>1, <1>2, <2>1, <2>2
<1>11. CASE MoveNew(r)
  <2>1. ScriptOK'
    BY <1>11 DEF MoveNew, Step, PassOver, Continue, Moved, ScriptOK, Commands
  <2>2. DirectoriesOK'
    <3>1. \A b \in BOOLEAN : [customized EXCEPT !.nested = b] \in Directory
      BY DEF DirectoriesOK, Directory
    <3> QED
      BY <1>11, <3>1, AbsentType DEF MoveNew, DirectoriesOK
  <2> QED
    BY <1>1, <1>2, <2>1, <2>2
<1>12. CASE RemoveOld(r)
  <2>1. ScriptOK'
    BY <1>12 DEF RemoveOld, Step, PassOver, Continue, ScriptOK, Commands
  <2>2. DirectoriesOK'
    BY <1>12 DEF RemoveOld, Remains, DirectoriesOK
  <2> QED
    BY <1>1, <1>2, <2>1, <2>2
<1> QED
  BY <1>4, <1>5, <1>6, <1>7, <1>8, <1>9, <1>10, <1>11, <1>12 DEF Run

LEMMA ScheduleTypeOK ==
  ASSUME TypeOK, Scheduled,
         \/ Schedule
         \/ \E r \in Runs : Restart(r) \/ Succeed(r)
  PROVE  TypeOK'
<1> USE TypeParts DEF volume, operator, bounds, BoundsOK
<1>1. CASE Schedule
  <2>1. hour + 1 \in Runs /\ hour + 1 \in Hours
    BY <1>1, SpeedUpdatesAssumption DEF Schedule, Runs, Hours
  <2>2. writes[hour + 1] = "nowhere"
    <3>1. at[hour + 1] = "unscheduled"
      BY <2>1, SpeedUpdatesAssumption DEF Scheduled, Hours
    <3> QED
      BY <2>1, <3>1 DEF ScriptOK
  <2>3. ScriptOK'
    BY <1>1, <2>1, <2>2 DEF Schedule, ScriptOK, Commands
  <2> QED
    BY <1>1, <2>1, <2>3 DEF Schedule, DirectoriesOK, OperatorOK
<1>2. ASSUME NEW r \in Runs, Restart(r) PROVE TypeOK'
  <2>1. ScriptOK'
    BY <1>2 DEF Restart, ScriptOK, Commands
  <2> QED
    BY <1>2, <2>1 DEF Restart, DirectoriesOK, OperatorOK
<1>3. ASSUME NEW r \in Runs, Succeed(r) PROVE TypeOK'
  <2>1. ScriptOK'
    BY <1>3 DEF Succeed, ScriptOK, Commands
  <2>2. r \in Hours
    BY SpeedUpdatesAssumption DEF Runs, Hours
  <2> QED
    BY <1>3, <2>1, <2>2 DEF Succeed, DirectoriesOK, OperatorOK
<1> QED
  BY <1>1, <1>2, <1>3

LEMMA OperatorTypeOK ==
  ASSUME TypeOK, ReadSiblings \/ UpdateDeployment \/ Wake \/ StartWorker \/ FailWorker
  PROVE  TypeOK'
<1> USE TypeParts DEF script, volume, operator
<1>1. hour' \in Hours /\ ScriptOK' /\ DirectoriesOK'
  BY DEF ReadSiblings, UpdateDeployment, Wake, StartWorker, FailWorker, ScriptOK,
         DirectoriesOK
<1>2. BoundsOK'
  BY BoundsStep, FaultType DEF Next
<1>3. OperatorOK'
  <2>1. CASE UpdateDeployment
    BY <2>1 DEF UpdateDeployment, OperatorOK
  <2>2. CASE StartWorker
    BY <2>2 DEF StartWorker, OperatorOK, DirectoriesOK, Directory
  <2>3. CASE ReadSiblings \/ Wake \/ FailWorker
    BY <2>3 DEF ReadSiblings, Wake, FailWorker, OperatorOK
  <2> QED
    BY <2>1, <2>2, <2>3
<1> QED
  BY <1>1, <1>2, <1>3

LEMMA NextScheduled ==
  TypeOK /\ Scheduled /\ [Next]_vars => Scheduled'
<1> SUFFICES ASSUME TypeOK, Scheduled, [Next]_vars, NEW r \in Runs,
                    at'[r] # "unscheduled"
             PROVE  r <= hour'
  BY DEF Scheduled
<1>1. hour \in Nat /\ hour <= hour' /\ hour' \in Nat
  <2>1. hour \in Nat
    BY SpeedUpdatesAssumption DEF TypeOK, Hours
  <2>2. hour' \in {hour, hour + 1}
    BY DEF Next, Schedule, Run, Kill, Restart, Succeed, MakeTemp, Download,
           CopyPartitioned, CustomizeOpen, CustomizeWrite, MoveOld, MoveNew, RemoveOld,
           Step, ReadSiblings, UpdateDeployment, Wake, StartWorker, FailWorker, vars
  <2> QED
    BY <2>1, <2>2
<1>2. CASE at[r] # "unscheduled"
  BY <1>1, <1>2 DEF Scheduled, Runs
<1>3. CASE at[r] = "unscheduled"
  <2>1. ASSUME NEW s \in Runs, Run(s) \/ Kill(s) \/ Restart(s) \/ Succeed(s)
        PROVE  at'[r] = at[r]
    <3>1. at[s] # "unscheduled"
      BY <2>1
      DEF Run, Kill, Restart, Succeed, MakeTemp, Download, CopyPartitioned,
          CustomizeOpen, CustomizeWrite, MoveOld, MoveNew, RemoveOld, Step, Commands
    <3>2. \E to : at' = [at EXCEPT ![s] = to]
      BY <2>1
      DEF Run, Kill, Restart, Succeed, MakeTemp, Download, CopyPartitioned,
          CustomizeOpen, CustomizeWrite, MoveOld, MoveNew, RemoveOld, Continue, Exit,
          OnCustomizeError, PassOver
    <3> QED
      BY <1>3, <3>1, <3>2 DEF TypeOK
  <2>2. CASE Schedule
    BY <1>1, <1>3, <2>2 DEF Schedule, TypeOK
  <2>3. CASE \/ ReadSiblings \/ UpdateDeployment \/ Wake \/ StartWorker \/ FailWorker
             \/ UNCHANGED vars
    BY <1>3, <2>3
    DEF ReadSiblings, UpdateDeployment, Wake, StartWorker, FailWorker, vars, script
  <2> QED
    BY <1>3, <2>1, <2>2, <2>3 DEF Next
<1> QED
  BY <1>2, <1>3

LEMMA NextTypeOK == TypeOK /\ Scheduled /\ [Next]_vars => TypeOK'
<1>1. ASSUME TypeOK, UNCHANGED vars PROVE TypeOK'
  BY <1>1 DEF vars, script, volume, operator, bounds, TypeOK
<1> QED
  BY <1>1, ScriptTypeOK, ScheduleTypeOK, OperatorTypeOK DEF Next

LEMMA InitScheduled == Init => Scheduled
BY DEF Init, Scheduled

(* The state is always well typed, runs overlap or not.                    *)
THEOREM TypeCorrect == Spec => []TypeOK
BY InitTypeOK, InitScheduled, NextTypeOK, NextScheduled, PTL DEF Spec

-----------------------------------------------------------------------------
(* Runs that do not overlap.                                               *)

(* A script's step: there is no other script, and none appears.            *)
LEMMA OneScript ==
  ASSUME TypeOK, Single, NEW r \in Runs,
         Run(r) \/ Kill(r) \/ Restart(r) \/ Succeed(r)
  PROVE  /\ r \in Unfinished
         /\ \E to : at' = [at EXCEPT ![r] = to]
         /\ \A s \in Runs : s # r => s \notin Unfinished /\ at'[s] = at[s]
         /\ Single' /\ Unfinished' \subseteq Unfinished
<1>1. r \in Unfinished
  BY DEF Run, Kill, Restart, Succeed, MakeTemp, Download, CopyPartitioned,
         CustomizeOpen, CustomizeWrite, MoveOld, MoveNew, RemoveOld, Step, Commands,
         Unfinished
<1>2. \E to : at' = [at EXCEPT ![r] = to]
  BY DEF Run, Kill, Restart, Succeed, MakeTemp, Download, CopyPartitioned,
         CustomizeOpen, CustomizeWrite, MoveOld, MoveNew, RemoveOld, Continue, Exit,
         OnCustomizeError, PassOver
<1>3. \A s \in Runs : s # r => s \notin Unfinished /\ at'[s] = at[s]
  BY <1>1, <1>2 DEF Single, TypeOK
<1>4. Unfinished' \subseteq Unfinished
  BY <1>1, <1>3 DEF Unfinished
<1> QED
  BY <1>1, <1>2, <1>3, <1>4 DEF Single

(* A run is scheduled only when none is unfinished.                        *)
LEMMA FirstScript ==
  ASSUME NoOverlap, TypeOK, Schedule PROVE Unfinished = {}
<1>1. IsFiniteSet(Runs)
  BY SpeedUpdatesAssumption, FS_Interval DEF Runs
<1>2. IsFiniteSet(Unfinished) /\ Cardinality(Unfinished) \in Nat
  BY <1>1, FS_Subset, FS_CardinalityType DEF Unfinished
<1>3. Cardinality(Unfinished) = 0
  BY <1>2 DEF Schedule, NoOverlap
<1> QED
  BY <1>2, <1>3, FS_EmptySet

(* What has to be shown of the script that took the step.                  *)
LEMMA PreparedKept ==
  ASSUME TypeOK, Single, NEW r \in Runs,
         Run(r) \/ Kill(r) \/ Restart(r) \/ Succeed(r),
         \A s \in Runs : writes'[s] # "customized",
         PreparedFor(r)'
  PROVE  Prepared'
<1>1. \A s \in Runs : s # r => s \notin Unfinished /\ at'[s] = at[s]
  BY OneScript
<1>2. ASSUME NEW s \in Runs, s # r PROVE PreparedFor(s)'
  BY <1>1, <1>2 DEF PreparedFor, Unfinished, Commands
<1> QED
  BY <1>2 DEF Prepared

(* What is as fresh as a run stays so while no other run succeeds.         *)
LEMMA FreshKept ==
  ASSUME TypeOK, Single, NEW r \in Runs, Run(r) \/ Kill(r) \/ Restart(r),
         NEW n, NEW d, AsFreshAs(n, d)
  PROVE  \/ n <= d
         \/ \E q \in Runs :
              /\ at'[q] = "failed" /\ q <= d
              /\ \A s \in Runs : at'[s] = "succeeded" => s < q \/ n <= s
<1>1. r \in Unfinished /\ \A s \in Runs : s # r => at'[s] = at[s]
  BY OneScript
<1>2. at[r] # "failed" /\ at'[r] # "succeeded"
  <2>1. at[r] # "failed"
    BY <1>1 DEF Unfinished, Commands
  <2>2. at'[r] # "succeeded"
    BY DEF TypeOK, Run, Kill, Restart, MakeTemp, Download, CopyPartitioned,
           CustomizeOpen, CustomizeWrite, MoveOld, MoveNew, RemoveOld, Continue, Exit,
           OnCustomizeError, PassOver
  <2> QED
    BY <2>1, <2>2
<1> QED
  BY <1>1, <1>2 DEF AsFreshAs

(* Being as fresh as a run is more than being as fresh as an earlier one.  *)
LEMMA FreshWeaker ==
  ASSUME NEW m \in Nat, NEW n \in Nat, NEW d \in Nat, m <= n, AsFreshAs(n, d)
  PROVE  AsFreshAs(m, d)
BY SpeedUpdatesAssumption DEF AsFreshAs, Runs

LEMMA KilledPrepared ==
  ASSUME TypeOK, Single, Prepared, NEW r \in Runs,
         Run(r) \/ Kill(r), Exit(r) \/ OnCustomizeError(r)
  PROVE  Prepared'
<1>1. \A s \in Runs : writes'[s] # "customized"
  BY DEF Exit, OnCustomizeError, Moved, Prepared, PreparedFor, TypeOK
<1>2. at'[r] = "exited"
  BY DEF Exit, OnCustomizeError, TypeOK
<1>3. PreparedFor(r)'
  BY <1>1, <1>2 DEF PreparedFor
<1> QED
  BY <1>1, <1>3, PreparedKept

(* The old directory holds one of its own only with a map in place that is *)
(* newer than all successes: then a script may leave that map there.       *)
LEMMA OccupiedIsFresh ==
  ASSUME TypeOK, UpdatesInv, NEW r \in Runs, r \in Unfinished,
         old # "absent", ~swapFailed, customized # Absent
  PROVE  AsFreshAs(r, customized.speeds)
<1>1. PICK q \in Runs : /\ at[q] = "failed" \/ q \in Unfinished
                        /\ q <= customized.speeds
                        /\ \A s \in Runs : at[s] = "succeeded" => s < q
  BY DEF UpdatesInv, OldLeft, NewerThanSuccesses
<1>2. CASE at[q] = "failed"
  BY <1>1, <1>2 DEF AsFreshAs
<1>3. CASE q \in Unfinished
  BY <1>1, <1>3 DEF UpdatesInv, Single, AsFreshAs
<1> QED
  BY <1>1, <1>2, <1>3

LEMMA ScriptPrepared ==
  ASSUME TypeOK, Scheduled, UpdatesInv, NEW r \in Runs, Run(r) \/ Kill(r)
  PROVE  Prepared'
<1> USE DEF UpdatesInv
<1>1. CASE Exit(r) \/ OnCustomizeError(r)
  BY <1>1, KilledPrepared
<1>2. /\ at = [s \in Runs |-> at[s]] /\ writes = [s \in Runs |-> writes[s]]
      /\ temp \in Directory /\ customized \in Directory
      /\ r \in Nat \ {0} /\ hour \in Nat
  <2>1. at = [s \in Runs |-> at[s]] /\ writes = [s \in Runs |-> writes[s]]
    BY DEF TypeOK
  <2>2. temp \in Directory /\ customized \in Directory
    BY DEF TypeOK
  <2> QED
    BY <2>1, <2>2, SpeedUpdatesAssumption DEF TypeOK, Runs, Hours
<1>3. PreparedFor(r) /\ \A s \in Runs : writes[s] # "customized"
  BY DEF Prepared, PreparedFor
<1> HIDE DEF UpdatesInv
<1>4. Single /\ swapFailed \in BOOLEAN /\ (swapFailed => swapFailed') /\ r \in Unfinished
  <2>1. Single /\ swapFailed \in BOOLEAN
    BY DEF UpdatesInv, TypeOK
  <2>2. swapFailed => swapFailed'
    BY BoundsStep, FaultType, TypeParts DEF Next
  <2> QED
    BY <2>1, <2>2, OneScript
<1>5. ASSUME UNCHANGED writes, PreparedFor(r)' PROVE Prepared'
  BY <1>3, <1>4, <1>5, PreparedKept
<1>6. CASE MakeTemp(r)
  <2>1. UNCHANGED writes /\ at'[r] = "download"
    BY <1>2, <1>6 DEF MakeTemp, Continue
  <2> QED
    BY <1>3, <1>5, <2>1 DEF PreparedFor
<1>7. CASE Download(r) /\ ~Exit(r)
  <2>1. UNCHANGED writes /\ at'[r] = "copy" /\ temp'.csv = hour
    BY <1>2, <1>7 DEF Download, Continue, Directory
  <2>2. r <= hour
    BY <1>7, <1>2 DEF Download, Step, Scheduled
  <2> QED
    BY <1>3, <1>5, <2>1, <2>2 DEF PreparedFor
<1>8. CASE CopyPartitioned(r)
  <2>1. UNCHANGED writes /\ at'[r] = "customize" /\ temp'.csv = temp.csv /\ at[r] = "copy"
    BY <1>2, <1>8 DEF CopyPartitioned, Step, Continue, Directory
  <2> QED
    BY <1>3, <1>5, <2>1 DEF PreparedFor
<1>9. CASE CustomizeOpen(r) /\ ~OnCustomizeError(r)
  <2>1. /\ at'[r] = "write" /\ temp'.csv = temp.csv /\ at[r] = "customize"
        /\ writes' = [writes EXCEPT ![r] = "temp"]
    BY <1>2, <1>9 DEF CustomizeOpen, Step, Continue, Directory
  <2>2. PreparedFor(r)' /\ \A s \in Runs : writes'[s] # "customized"
    BY <1>2, <1>3, <2>1 DEF PreparedFor
  <2> QED
    BY <1>4, <2>2, PreparedKept
<1>10. CASE CustomizeWrite(r) /\ ~OnCustomizeError(r)
  <2>1. /\ at'[r] = "moveOld" /\ at[r] = "write" /\ writes[r] = "temp"
        /\ temp' = Written(temp) /\ writes' = [writes EXCEPT ![r] = "nowhere"]
    BY <1>2, <1>3, <1>10 DEF CustomizeWrite, Step, Continue, PreparedFor
  <2>2. temp'.state = "complete" /\ temp'.speeds = temp.csv
    BY <1>2, <2>1 DEF Written, Directory
  <2>3. PreparedFor(r)' /\ \A s \in Runs : writes'[s] # "customized"
    BY <1>2, <1>3, <2>1, <2>2 DEF PreparedFor
  <2> QED
    BY <1>4, <2>3, PreparedKept
<1>11. CASE MoveOld(r)
  <2>1. at'[r] = "moveNew" /\ at[r] = "moveOld" /\ temp' = temp
    BY <1>2, <1>11 DEF MoveOld, Step, PassOver, Continue
  <2>2. \A s \in Runs : writes'[s] # "customized"
    BY <1>2, <1>3, <1>11 DEF MoveOld, PassOver, Moved
  <2>3. CASE customized' = Absent
    <3>1. PreparedFor(r)'
      BY <1>3, <2>1, <2>2, <2>3 DEF PreparedFor
    <3> QED
      BY <1>4, <2>2, <3>1, PreparedKept
  <2>4. CASE PassOver(r, "moveNew", customized = Absent \/ old = "occupied")
             /\ UNCHANGED <<customized, old>> /\ customized # Absent
    <3>1. ~swapFailed' => ~swapFailed /\ old = "occupied"
      BY <1>4, <2>4 DEF PassOver, SwapFails
    <3>2. ~swapFailed' => AsFreshAs(r, customized.speeds)
      BY <1>4, <2>4, <3>1, OccupiedIsFresh
    <3>3. FreshFor(r)'
      BY <1>4, <2>4, <3>2, FreshKept DEF FreshFor, AsFreshAs
    <3>4. PreparedFor(r)'
      BY <1>3, <2>1, <2>2, <3>3 DEF PreparedFor
    <3> QED
      BY <1>4, <2>2, <3>4, PreparedKept
  <2> QED
    BY <1>11, <2>3, <2>4 DEF MoveOld
<1>12. CASE MoveNew(r)
  <2>1. at[r] = "moveNew" /\ at'[r] = "removeOld"
    BY <1>2, <1>12 DEF MoveNew, Step, PassOver, Continue
  <2>2. \A s \in Runs : writes[s] # "temp"
    BY <1>4, <2>1 DEF TypeOK, Single, Unfinished, Commands
  <2>3. \A s \in Runs : writes'[s] # "customized"
    BY <1>2, <1>3, <1>12, <2>2 DEF MoveNew, PassOver, Moved
  <2>4. temp.state = "complete" /\ r <= temp.speeds /\ (customized = Absent \/ FreshFor(r))
    BY <1>3, <2>1 DEF PreparedFor
  <2>5. FreshFor(r)' /\ (~swapFailed' => customized' # Absent)
    <3>1. CASE customized = Absent
      <4>1. ~swapFailed' => customized' = temp
        BY <1>12, <2>4, <3>1 DEF MoveNew, PassOver, SwapFails, Absent
      <4> QED
        BY <2>4, <4>1 DEF FreshFor, AsFreshAs, Absent
    <3>2. CASE customized # Absent
      <4>1. /\ customized.state = "complete"
            /\ (~swapFailed => AsFreshAs(r, customized.speeds))
        BY <2>4, <3>2 DEF UpdatesInv, InPlace, FreshFor
      <4>2. customized'.state = "complete" /\ customized'.speeds = customized.speeds
        BY <1>2, <1>12, <3>2, <4>1 DEF MoveNew, Directory
      <4>3. FreshFor(r)'
        BY <1>4, <4>1, <4>2, FreshKept DEF FreshFor, AsFreshAs
      <4> QED
        BY <4>2, <4>3 DEF Absent
    <3> QED
      BY <3>1, <3>2
  <2>6. PreparedFor(r)'
    BY <2>1, <2>3, <2>5 DEF PreparedFor
  <2> QED
    BY <1>4, <2>3, <2>6, PreparedKept
<1>13. CASE RemoveOld(r)
  <2>1. /\ at[r] = "removeOld" /\ at'[r] = "finished" /\ UNCHANGED <<writes, customized>>
        /\ (~swapFailed' => old' = "absent")
    BY <1>2, <1>13 DEF RemoveOld, Step, PassOver, SwapFails, Continue
  <2>2. FreshFor(r) /\ (~swapFailed => customized # Absent)
    BY <1>3, <2>1 DEF PreparedFor
  <2>3. FreshFor(r)'
    BY <1>4, <2>1, <2>2, FreshKept DEF FreshFor, AsFreshAs
  <2>4. PreparedFor(r)'
    BY <1>3, <1>4, <2>1, <2>2, <2>3 DEF PreparedFor
  <2> QED
    BY <1>5, <2>1, <2>4
<1>14. Kill(r) => Exit(r)
  BY DEF Kill
<1> QED
  BY <1>1, <1>6, <1>7, <1>8, <1>9, <1>10, <1>11, <1>12, <1>13, <1>14 DEF Run

LEMMA PlacePrepared ==
  ASSUME TypeOK, Scheduled, UpdatesInv, NEW r \in Runs, Run(r) \/ Kill(r)
  PROVE  InPlace' /\ OldLeft'
<1>1. UNCHANGED lastSuccess /\ lastSuccess \in Nat /\ r \in Nat
  <2>1. UNCHANGED lastSuccess
    BY DEF Run, Kill, MakeTemp, Download, CopyPartitioned, CustomizeOpen,
           CustomizeWrite, MoveOld, MoveNew, RemoveOld, Step
  <2>2. lastSuccess \in Nat /\ r \in Nat
    BY SpeedUpdatesAssumption DEF TypeOK, Hours, Runs
  <2> QED
    BY <2>1, <2>2
<1>2. PreparedFor(r) /\ Single /\ InPlace /\ OldLeft
  BY DEF UpdatesInv, Prepared
<1>3. /\ swapFailed \in BOOLEAN /\ (swapFailed => swapFailed')
      /\ r \in Unfinished /\ r \in Unfinished'
      /\ \A s \in Runs : s # r => s \notin Unfinished /\ at'[s] = at[s]
  <2>1. swapFailed \in BOOLEAN
    BY DEF TypeOK
  <2>2. swapFailed => swapFailed'
    BY BoundsStep, FaultType, TypeParts DEF Next
  <2>3. at'[r] \in Commands \cup {"exited", "finished"}
    BY DEF TypeOK, Run, Kill, MakeTemp, Download, CopyPartitioned, CustomizeOpen,
           CustomizeWrite, MoveOld, MoveNew, RemoveOld, Continue, Exit, OnCustomizeError,
           PassOver, Commands
  <2> QED
    BY <1>2, <2>1, <2>2, <2>3, OneScript DEF Unfinished
<1>4. \A s \in Runs : at'[s] = "succeeded" => at[s] = "succeeded" /\ s < r
  <2>1. at'[r] # "succeeded"
    BY <1>3 DEF Unfinished, Commands
  <2>2. \A s \in Runs : at[s] = "succeeded" => s <= lastSuccess /\ s \in Nat
    BY SpeedUpdatesAssumption DEF UpdatesInv, InOrder, Runs
  <2>3. lastSuccess < r
    BY <1>3 DEF UpdatesInv, InOrder
  <2> QED
    BY <1>1, <1>3, <2>1, <2>2, <2>3
(* The map in place is the same, and so is what is left.                   *)
<1>5. ASSUME customized' = customized \/ /\ customized # Absent /\ customized' # Absent
                                         /\ customized'.state = customized.state
                                         /\ customized'.speeds = customized.speeds,
             ~swapFailed' => old' = "absent" \/ old # "absent"
      PROVE  InPlace' /\ OldLeft'
  <2>1. InPlace'
    <3>1. customized # Absent =>
            customized.state = "complete"
            /\ (~swapFailed => AsFreshAs(lastSuccess, customized.speeds))
      BY <1>2 DEF InPlace, FreshFor
    <3>2. customized' # Absent =>
            customized # Absent /\ customized'.state = customized.state
            /\ customized'.speeds = customized.speeds
      BY <1>5
    <3>3. customized' # Absent => FreshFor(lastSuccess)'
      BY <1>1, <1>2, <1>3, <3>1, <3>2, FreshKept DEF FreshFor, AsFreshAs
    <3>4. customized' # Absent => customized'.state = "complete"
      BY <3>1, <3>2
    <3> QED
      BY <3>3, <3>4, Zenon DEF InPlace
  <2>2. OldLeft'
    <3> SUFFICES ASSUME ~swapFailed', old' # "absent", customized' # Absent
                 PROVE  NewerThanSuccesses'
      BY DEF OldLeft
    <3>1. customized # Absent /\ customized'.speeds = customized.speeds
      BY <1>5
    <3>2. PICK q \in Runs : /\ at[q] = "failed" \/ q \in Unfinished
                            /\ q <= customized.speeds
                            /\ \A s \in Runs : at[s] = "succeeded" => s < q
      BY <1>2, <1>3, <1>5, <3>1 DEF OldLeft, NewerThanSuccesses
    <3>3. at'[q] = "failed" \/ q \in Unfinished'
      BY <1>3, <3>2 DEF Unfinished, Commands
    <3> QED
      BY <1>4, <3>1, <3>2, <3>3 DEF NewerThanSuccesses
  <2> QED
    BY <2>1, <2>2
<1>6. CASE MoveOld(r)
  <2>1. CASE customized' = Absent
    BY <2>1, Zenon DEF InPlace, OldLeft
  <2>2. CASE UNCHANGED <<customized, old>>
    BY <1>5, <2>2
  <2> QED
    BY <1>6, <2>1, <2>2 DEF MoveOld
<1>7. CASE MoveNew(r)
  <2>1. at[r] = "moveNew" /\ UNCHANGED old
    BY <1>7 DEF MoveNew, Step
  <2>2. temp.state = "complete" /\ r <= temp.speeds /\ temp.speeds \in Nat
    BY <1>2, <2>1, SpeedUpdatesAssumption DEF PreparedFor, TypeOK, Directory, Hours
  <2>3. lastSuccess < r
    BY <1>3 DEF UpdatesInv, InOrder
  <2>4. CASE customized = Absent /\ customized' = temp
    <3>1. InPlace'
      BY <1>1, <2>2, <2>3, <2>4 DEF InPlace, FreshFor, AsFreshAs
    <3>2. NewerThanSuccesses'
      BY <1>3, <1>4, <2>2, <2>4 DEF NewerThanSuccesses
    <3> QED
      BY <3>1, <3>2 DEF OldLeft
  <2>5. CASE customized # Absent \/ UNCHANGED customized
    <3>1. \/ UNCHANGED customized
          \/ customized' = [customized EXCEPT !.nested = temp # EmptyDir]
      BY <1>7, <2>5 DEF MoveNew
    <3>2. customized \in Directory /\ (customized # Absent => customized.state = "complete")
      BY <1>2 DEF TypeOK, InPlace
    <3>3. CASE customized # Absent /\ customized' # customized
      BY <1>5, <2>1, <3>1, <3>2, <3>3 DEF Directory, Absent
    <3> QED
      BY <1>5, <2>1, <2>5, <3>3
  <2> QED
    BY <1>7, <2>4, <2>5 DEF MoveNew
<1>8. CASE RemoveOld(r)
  BY <1>5, <1>8 DEF RemoveOld
<1>9. CASE CustomizeWrite(r)
  BY <1>2, <1>5, <1>9 DEF CustomizeWrite, Step, PreparedFor
<1>10. CASE Kill(r)
  BY <1>5, <1>10 DEF Kill, Remains
<1> QED
  BY <1>5, <1>6, <1>7, <1>8, <1>9, <1>10
  DEF Run, MakeTemp, Download, CopyPartitioned, CustomizeOpen

LEMMA ScriptKeepsUpdates ==
  ASSUME TypeOK, Scheduled, UpdatesInv, NEW r \in Runs, Run(r) \/ Kill(r)
  PROVE  UpdatesInv'
<1>1. UNCHANGED <<hour, lastSuccess, operator, worker>>
  BY DEF Run, Kill, MakeTemp, Download, CopyPartitioned, CustomizeOpen, CustomizeWrite,
         MoveOld, MoveNew, RemoveOld, Step
<1>2. /\ Single' /\ Unfinished' \subseteq Unfinished /\ r \in Unfinished
      /\ \A s \in Runs : s # r => at'[s] = at[s]
  BY OneScript DEF UpdatesInv
<1>3. InOrder'
  <2>1. at'[r] # "succeeded"
    BY DEF TypeOK, Run, Kill, MakeTemp, Download, CopyPartitioned, CustomizeOpen,
           CustomizeWrite, MoveOld, MoveNew, RemoveOld, Continue, Exit, OnCustomizeError,
           PassOver
  <2> QED
    BY <1>1, <1>2, <2>1 DEF UpdatesInv, InOrder
<1>4. WorkersTold'
  <2>1. swapFailed => swapFailed'
    BY BoundsStep, FaultType, TypeParts DEF Next
  <2>2. worker.up /\ ~swapFailed => AsFreshAs(annotated, worker.loaded)
    BY DEF UpdatesInv, WorkersTold
  <2>3. worker.up /\ ~swapFailed' => AsFreshAs(annotated, worker.loaded)'
    BY <1>1, <2>1, <2>2, FreshKept DEF UpdatesInv, operator, AsFreshAs
  <2> QED
    BY <1>1, <2>3 DEF UpdatesInv, WorkersTold, operator
<1>5. Prepared' /\ InPlace' /\ OldLeft'
  BY ScriptPrepared, PlacePrepared
<1> QED
  BY <1>2, <1>3, <1>4, <1>5 DEF UpdatesInv

LEMMA ScheduleKeepsUpdates ==
  ASSUME NoOverlap, TypeOK, Scheduled, UpdatesInv, Schedule
  PROVE  UpdatesInv'
<1> DEFINE next == hour + 1
<1>1. /\ hour \in Nat /\ lastSuccess \in Nat /\ next \in Runs
      /\ hour' = next /\ at' = [at EXCEPT ![next] = "mkdir"]
      /\ UNCHANGED <<writes, volume, lastSuccess, operator, worker, bounds>>
  BY SpeedUpdatesAssumption DEF Schedule, TypeOK, Hours, Runs
<1>2. Unfinished = {}
  BY FirstScript
<1>3. \A r \in Runs : at'[r] = IF r = next THEN "mkdir" ELSE at[r]
  BY <1>1 DEF TypeOK
<1>4. at[next] = "unscheduled"
  BY <1>1 DEF Scheduled
<1> HIDE DEF next
<1>5. Unfinished' = {next}
  BY <1>1, <1>2, <1>3 DEF Unfinished, Commands
<1>6. /\ \A s \in Runs : at[s] = "failed" => at'[s] = "failed"
      /\ \A s \in Runs : at'[s] = "succeeded" => at[s] = "succeeded"
  BY <1>3, <1>4
<1>7. Single'
  BY <1>5 DEF Single
<1>8. InOrder'
  BY <1>1, <1>5, <1>6 DEF UpdatesInv, InOrder, next
<1>9. Prepared'
  <2> SUFFICES ASSUME NEW r \in Runs PROVE PreparedFor(r)'
    BY DEF Prepared
  <2>1. PreparedFor(r) /\ UNCHANGED <<writes, temp, customized, old, swapFailed>>
    BY <1>1 DEF UpdatesInv, Prepared, volume, bounds
  <2>2. writes[r] # "customized"
    BY <2>1 DEF PreparedFor
  <2>3. at'[r] = "mkdir" \/ at'[r] \notin Commands \cup {"exited", "finished"}
    BY <1>2, <1>3 DEF Unfinished
  <2> QED
    BY <2>1, <2>2, <2>3 DEF PreparedFor, Commands
<1>10. InPlace' /\ WorkersTold'
  BY <1>1, <1>6
  DEF UpdatesInv, InPlace, FreshFor, AsFreshAs, WorkersTold, operator, volume, bounds
<1>11. OldLeft'
  BY <1>1, <1>2, <1>6 DEF UpdatesInv, OldLeft, NewerThanSuccesses, volume, bounds
<1> QED
  BY <1>7, <1>8, <1>9, <1>10, <1>11 DEF UpdatesInv

LEMMA RestartKeepsUpdates ==
  ASSUME TypeOK, UpdatesInv, NEW r \in Runs, Restart(r)
  PROVE  UpdatesInv'
<1>1. /\ Single' /\ Unfinished' \subseteq Unfinished /\ r \in Unfinished
      /\ \A s \in Runs : s # r => s \notin Unfinished /\ at'[s] = at[s]
  BY OneScript DEF UpdatesInv
<1>2. UNCHANGED <<hour, writes, volume, lastSuccess, operator, worker, bounds>>
  BY DEF Restart
<1>3. at'[r] \in {"mkdir", "failed"}
  BY DEF Restart, TypeOK
<1>4. InOrder'
  BY <1>1, <1>2, <1>3 DEF UpdatesInv, InOrder
<1>5. Prepared'
  <2>1. \A s \in Runs : writes'[s] # "customized"
    BY <1>2 DEF UpdatesInv, Prepared, PreparedFor
  <2>2. PreparedFor(r)'
    BY <1>3, <2>1 DEF PreparedFor
  <2> QED
    BY <2>1, <2>2, PreparedKept DEF UpdatesInv
<1>6. \A n, d : AsFreshAs(n, d) =>
        \/ n <= d
        \/ \E q \in Runs : /\ at'[q] = "failed" /\ q <= d
                           /\ \A s \in Runs : at'[s] = "succeeded" => s < q \/ n <= s
  BY FreshKept DEF UpdatesInv
<1>7. InPlace'
  <2>1. customized # Absent =>
          customized.state = "complete"
          /\ (~swapFailed => AsFreshAs(lastSuccess, customized.speeds))
    BY DEF UpdatesInv, InPlace, FreshFor
  <2>2. ~swapFailed => AsFreshAs(lastSuccess, customized.speeds)' \/ customized = Absent
    BY <1>2, <1>6, <2>1 DEF AsFreshAs, volume
  <2> QED
    BY <1>2, <2>1, <2>2, Zenon DEF InPlace, FreshFor, volume, bounds
<1>8. WorkersTold'
  <2>1. worker.up /\ ~swapFailed => AsFreshAs(annotated, worker.loaded)
    BY DEF UpdatesInv, WorkersTold
  <2>2. worker.up /\ ~swapFailed => AsFreshAs(annotated, worker.loaded)'
    BY <1>2, <1>6, <2>1 DEF AsFreshAs, operator
  <2> QED
    BY <1>2, <2>2 DEF UpdatesInv, WorkersTold, operator, bounds
<1>9. OldLeft'
  <2> SUFFICES ASSUME ~swapFailed', old' # "absent", customized' # Absent
               PROVE  NewerThanSuccesses'
    BY DEF OldLeft
  <2>1. PICK q \in Runs : /\ at[q] = "failed" \/ q \in Unfinished
                          /\ q <= customized.speeds
                          /\ \A s \in Runs : at[s] = "succeeded" => s < q
    BY <1>2 DEF UpdatesInv, OldLeft, NewerThanSuccesses, volume, bounds
  <2>2. at'[q] = "failed" \/ q \in Unfinished'
    BY <1>1, <1>3, <2>1 DEF Unfinished, Commands
  <2> QED
    BY <1>1, <1>2, <1>3, <2>1, <2>2 DEF NewerThanSuccesses, volume
<1> QED
  BY <1>1, <1>4, <1>5, <1>7, <1>8, <1>9 DEF UpdatesInv

LEMMA SucceedKeepsUpdates ==
  ASSUME TypeOK, Scheduled, UpdatesInv, NEW r \in Runs, Succeed(r)
  PROVE  UpdatesInv'
<1>1. /\ Single' /\ Unfinished' \subseteq Unfinished /\ r \in Unfinished
      /\ \A s \in Runs : s # r => s \notin Unfinished /\ at'[s] = at[s]
  BY OneScript DEF UpdatesInv
<1>2. UNCHANGED <<hour, writes, volume, pc, sibling, annotated, worker, bounds>>
  BY DEF Succeed
<1>3. lastSuccess' = r /\ queued' /\ at[r] = "finished" /\ at'[r] = "succeeded"
  BY DEF Succeed, Owned, TypeOK
<1>4. /\ r \in Nat /\ hour \in Nat /\ lastSuccess \in Nat /\ sibling \in Nat
      /\ annotated \in Nat
  BY SpeedUpdatesAssumption DEF TypeOK, Runs, Hours
<1>5. lastSuccess < r /\ r <= hour
  BY <1>1, <1>3 DEF UpdatesInv, InOrder, Scheduled
<1>6. PreparedFor(r)
  BY DEF UpdatesInv, Prepared
<1>7. InOrder'
  <2>1. Unfinished' = {}
    BY <1>1, <1>3 DEF Unfinished, Commands
  <2>2. \A s \in Runs : at[s] = "succeeded" => s <= lastSuccess /\ s \in Nat
    BY SpeedUpdatesAssumption DEF UpdatesInv, InOrder, Runs
  <2> QED
    BY <1>1, <1>2, <1>3, <1>4, <1>5, <2>1, <2>2 DEF InOrder
<1>8. Prepared'
  <2>1. \A s \in Runs : writes'[s] # "customized"
    BY <1>2 DEF UpdatesInv, Prepared, PreparedFor
  <2>2. PreparedFor(r)'
    BY <1>3, <2>1 DEF PreparedFor
  <2> QED
    BY <2>1, <2>2, PreparedKept DEF UpdatesInv
<1>9. InPlace' /\ OldLeft'
  <2>1. /\ ~swapFailed => customized # Absent /\ AsFreshAs(r, customized.speeds)
        /\ ~swapFailed => old = "absent"
    BY <1>3, <1>6 DEF PreparedFor, FreshFor
  <2>2. ~swapFailed => AsFreshAs(r, customized.speeds)'
    BY <1>1, <1>2, <1>3, <1>4, <2>1 DEF AsFreshAs, volume
  <2> QED
    BY <1>2, <1>3, <2>1, <2>2
    DEF UpdatesInv, InPlace, FreshFor, OldLeft, volume, bounds
<1>10. WorkersTold'
  <2>1. worker.up /\ ~swapFailed => AsFreshAs(annotated, worker.loaded)
    BY DEF UpdatesInv, WorkersTold
  <2>2. annotated <= r /\ sibling <= r
    BY <1>4, <1>5 DEF UpdatesInv, WorkersTold
  <2>3. worker.up /\ ~swapFailed => AsFreshAs(annotated, worker.loaded)'
    BY <1>1, <1>2, <1>3, <2>1, <2>2 DEF AsFreshAs
  <2> QED
    BY <1>2, <1>3, <2>2, <2>3 DEF WorkersTold, bounds
<1> QED
  BY <1>1, <1>7, <1>8, <1>9, <1>10 DEF UpdatesInv

LEMMA OperatorKeepsUpdates ==
  ASSUME TypeOK, UpdatesInv,
         ReadSiblings \/ UpdateDeployment \/ Wake \/ StartWorker \/ FailWorker
  PROVE  UpdatesInv'
<1>1. UNCHANGED <<hour, script, volume, lastSuccess, swapFailed>>
  BY DEF ReadSiblings, UpdateDeployment, Wake, StartWorker, FailWorker, Fault, bounds
<1>2. Single' /\ InOrder' /\ InPlace' /\ OldLeft'
  BY <1>1
  DEF UpdatesInv, Single, InOrder, InPlace, FreshFor, AsFreshAs, OldLeft,
      NewerThanSuccesses, Unfinished, script, volume
<1>3. Prepared'
  BY <1>1
  DEF UpdatesInv, Prepared, PreparedFor, FreshFor, AsFreshAs, script, volume
<1>4. /\ lastSuccess \in Nat /\ sibling \in Nat /\ annotated \in Nat
      /\ worker \in [up : BOOLEAN, loaded : Nat] /\ customized.speeds \in Nat
      /\ queued \in BOOLEAN /\ pc \in {"idle", "update"}
  BY SpeedUpdatesAssumption DEF TypeOK, Hours, Directory
<1>5. \A n, d : AsFreshAs(n, d) <=> AsFreshAs(n, d)'
  BY <1>1 DEF AsFreshAs, script
<1>6. WorkersTold'
  <2>1. CASE ReadSiblings \/ Wake
    <3>1. UNCHANGED <<annotated, worker>>
      BY <2>1 DEF ReadSiblings, Wake, operator
    <3>2. worker.up /\ ~swapFailed => AsFreshAs(annotated, worker.loaded)'
      BY <1>1, <3>1 DEF UpdatesInv, WorkersTold, AsFreshAs, script
    <3> QED
      BY <1>1, <1>4, <2>1, <3>1, <3>2 DEF ReadSiblings, Wake, UpdatesInv, WorkersTold
  <2>2. CASE UpdateDeployment
    <3>1. CASE queued' = TRUE /\ UNCHANGED <<annotated, worker>>
      <4>1. worker.up /\ ~swapFailed => AsFreshAs(annotated, worker.loaded)'
        BY <1>1, <3>1 DEF UpdatesInv, WorkersTold, AsFreshAs, script
      <4> QED
        BY <1>1, <1>4, <2>2, <3>1, <4>1 DEF UpdateDeployment, UpdatesInv, WorkersTold
    <3>2. CASE /\ annotated' = sibling /\ UNCHANGED queued
               /\ worker' = [worker EXCEPT !.up = @ /\ annotated = sibling]
      <4>1. worker'.loaded = worker.loaded
            /\ (worker'.up => worker.up /\ annotated = sibling)
        BY <1>4, <3>2
      <4>2. worker'.up /\ ~swapFailed => AsFreshAs(annotated, worker.loaded)'
        BY <1>1, <3>2, <4>1 DEF UpdatesInv, WorkersTold, AsFreshAs, script
      <4> QED
        BY <1>1, <1>4, <2>2, <3>2, <4>1, <4>2
        DEF UpdateDeployment, UpdatesInv, WorkersTold
    <3> QED
      BY <2>2, <3>1, <3>2 DEF UpdateDeployment
  <2>3. CASE StartWorker
    <3>1. customized # Absent /\ worker'.loaded = customized.speeds
          /\ UNCHANGED <<queued, pc, sibling, annotated>>
      BY <2>3 DEF StartWorker, Absent, operator
    <3>2. ~swapFailed => AsFreshAs(lastSuccess, customized.speeds)
      BY <3>1 DEF UpdatesInv, InPlace, FreshFor
    <3>3. ~swapFailed => AsFreshAs(annotated, customized.speeds)
      BY <1>4, <3>2, FreshWeaker DEF UpdatesInv, WorkersTold
    <3>4. ~swapFailed => AsFreshAs(annotated, worker.loaded)'
      BY <1>1, <3>1, <3>3 DEF AsFreshAs, script
    <3> QED
      BY <1>1, <1>4, <3>1, <3>4 DEF UpdatesInv, WorkersTold
  <2>4. CASE FailWorker
    <3>1. ~worker'.up /\ UNCHANGED <<queued, pc, sibling, annotated>>
      BY <1>4, <2>4 DEF FailWorker, operator
    <3> QED
      BY <1>1, <3>1 DEF UpdatesInv, WorkersTold
  <2> QED
    BY <2>1, <2>2, <2>3, <2>4
<1> QED
  BY <1>2, <1>3, <1>6 DEF UpdatesInv

LEMMA NextKeepsUpdates ==
  ASSUME NoOverlap
  PROVE  TypeOK /\ Scheduled /\ UpdatesInv /\ [Next]_vars => UpdatesInv'
<1> SUFFICES ASSUME TypeOK, Scheduled, UpdatesInv, [Next]_vars PROVE UpdatesInv'
  OBVIOUS
<1>1. CASE UNCHANGED vars
  BY <1>1
  DEF vars, script, volume, operator, bounds, UpdatesInv, Single, InOrder, Prepared,
      PreparedFor, InPlace, FreshFor, AsFreshAs, OldLeft, NewerThanSuccesses,
      WorkersTold, Unfinished
<1> QED
  BY <1>1, ScriptKeepsUpdates, ScheduleKeepsUpdates, RestartKeepsUpdates,
     SucceedKeepsUpdates, OperatorKeepsUpdates
  DEF Next

LEMMA InitUpdates == Init => UpdatesInv
<1> SUFFICES ASSUME Init PROVE UpdatesInv
  OBVIOUS
<1>1. Unfinished = {}
  BY DEF Init, Unfinished, Commands
<1>2. \A r \in Runs : PreparedFor(r)
  BY DEF Init, PreparedFor
<1>3. InPlace /\ OldLeft
  BY SpeedUpdatesAssumption DEF Init, InPlace, FreshFor, AsFreshAs, OldLeft, Absent
<1>4. WorkersTold
  BY DEF Init, WorkersTold, AsFreshAs
<1> QED
  BY <1>1, <1>2, <1>3, <1>4 DEF Init, UpdatesInv, Single, InOrder, Prepared

(* The inductive invariant of runs that do not overlap.                    *)
THEOREM UpdatesInvariant ==
  ASSUME NoOverlap PROVE Spec => [](TypeOK /\ UpdatesInv)
<1>1. TypeOK /\ Scheduled /\ UpdatesInv /\ [Next]_vars => UpdatesInv'
  BY NextKeepsUpdates
<1> QED
  BY <1>1, InitTypeOK, InitScheduled, InitUpdates, NextTypeOK, NextScheduled, PTL
  DEF Spec

(* A worker that starts never finds a map that is not completely written.  *)
THEOREM NoTornMapTheorem ==
  ASSUME NoOverlap PROVE Spec => []NoTornMap
<1>1. UpdatesInv => NoTornMap
  BY DEF UpdatesInv, InPlace, NoTornMap, Absent
<1> QED
  BY <1>1, UpdatesInvariant, PTL

(* When nothing is under way the worker has the traffic data of the last   *)
(* successful run, or newer; or those of a failed Job newer than all other *)
(* successes, if its directories kept that run from putting its map in     *)
(* place.  mv and rm that fail with nothing in their way are excepted.     *)
THEOREM FreshTrafficTheorem ==
  ASSUME NoOverlap PROVE Spec => []FreshTraffic
<1>1. UpdatesInv => FreshTraffic
  BY DEF UpdatesInv, WorkersTold, FreshTraffic
<1> QED
  BY <1>1, UpdatesInvariant, PTL
=============================================================================
