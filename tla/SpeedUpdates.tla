---------------------------- MODULE SpeedUpdates ----------------------------
(***************************************************************************)
(* Speed updates of one profile: the CronJob the operator creates, the     *)
(* script its Jobs run on the volume the workers read, and the restart of  *)
(* the workers through an annotation of their pod template.                *)
(*                                                                         *)
(* The script has no `set -e': a failed cp, mv or rm is passed over, only  *)
(* the download and the customization are checked.  mv also fails when     *)
(* what an earlier attempt left is in its way.  A container that is killed *)
(* or exits with an error starts the script again, on the volume as it is, *)
(* until the Job's back-off limit is reached.                              *)
(*                                                                         *)
(* A run is named by the hour it is scheduled for, and traffic data by the *)
(* hour it is downloaded in.                                               *)
(***************************************************************************)
EXTENDS Integers, FiniteSets

CONSTANTS
  MaxHours,      \* bound on the schedule
  MaxActive,     \* bound on the Jobs that run at the same time
  BackoffLimit,  \* restarts Kubernetes grants a Job
  MaxFaults      \* bound on kills and failed commands

ASSUME SpeedUpdatesAssumption ==
  /\ MaxHours \in Nat /\ MaxActive \in Nat \ {0}
  /\ BackoffLimit \in Nat /\ MaxFaults \in Nat

VARIABLES
  hour,         \* the current hour
  at,           \* run |-> the command its script is at
  fails,        \* run |-> its failed attempts
  writes,       \* run |-> where the files its osrm-customize has open are
  customized,   \* the directory workers read
  temp,         \* the directory the new map is prepared in, shared by all runs
  old,          \* the directory replaced maps are moved to
  lastSuccess,  \* status of the CronJob: its last successful run
  queued, pc, sibling,  \* the operator: work queue, step, CronJob it read
  annotated,    \* lastTrafficUpdateTime in the workers' pod template
  worker,       \* the newest worker: started, and the traffic data it loaded
  faults,
  swapFailed    \* history: mv or rm has failed with nothing in its way

script   == <<at, fails, writes>>
volume   == <<customized, temp, old>>
operator == <<queued, pc, sibling, annotated>>
bounds   == <<faults, swapFailed>>
vars == <<hour, script, volume, lastSuccess, operator, worker, bounds>>

Hours == 0 .. MaxHours
Runs  == 1 .. MaxHours
Commands == {"mkdir", "download", "copy", "customize", "write", "moveOld",
             "moveNew", "removeOld"}

(* "copied": not customized, or not completely written.  nested: it holds  *)
(* a directory customized_new that is not empty.                           *)
Directory == [state : {"absent", "empty", "copied", "complete"},
              csv : Hours, speeds : Hours, nested : BOOLEAN]
Absent   == [state |-> "absent", csv |-> 0, speeds |-> 0, nested |-> FALSE]
EmptyDir == [Absent EXCEPT !.state = "empty"]

TypeOK ==
  /\ hour \in Hours
  /\ at \in [Runs -> Commands \cup
                     {"unscheduled", "exited", "finished", "succeeded", "failed"}]
  /\ fails \in [Runs -> Nat]
  /\ writes \in [Runs -> {"nowhere", "temp", "customized"}]
  /\ \A r \in Runs : writes[r] # "nowhere" => at[r] = "write"
  /\ customized \in Directory /\ temp \in Directory
  /\ old \in {"absent", "present", "occupied"}
  /\ lastSuccess \in Hours
  /\ queued \in BOOLEAN /\ pc \in {"idle", "update"}
  /\ sibling \in Hours /\ annotated \in Hours
  /\ worker \in [up : BOOLEAN, loaded : Hours]
  /\ faults \in 0 .. MaxFaults /\ swapFailed \in BOOLEAN

(* The map builder has filled the volume and a worker runs.                *)
Init ==
  /\ hour = 0
  /\ at = [r \in Runs |-> "unscheduled"]
  /\ fails = [r \in Runs |-> 0]
  /\ writes = [r \in Runs |-> "nowhere"]
  /\ customized = [Absent EXCEPT !.state = "complete"]
  /\ temp = Absent
  /\ old = "absent"
  /\ lastSuccess = 0
  /\ queued = FALSE /\ pc = "idle" /\ sibling = 0 /\ annotated = 0
  /\ worker = [up |-> TRUE, loaded |-> 0]
  /\ faults = 0 /\ swapFailed = FALSE

Fault == faults < MaxFaults /\ faults' = faults + 1 /\ UNCHANGED swapFailed

Unfinished == {r \in Runs : at[r] \in Commands \cup {"exited", "finished"}}

-----------------------------------------------------------------------------
(* The CronJob and its Jobs.                                               *)

(* The schedule starts a Job whether or not the previous one has ended.    *)
Schedule ==
  /\ hour < MaxHours /\ Cardinality(Unfinished) < MaxActive
  /\ hour' = hour + 1
  /\ at' = [at EXCEPT ![hour + 1] = "mkdir"]
  /\ UNCHANGED <<fails, writes, volume, lastSuccess, operator, worker, bounds>>

(* RestartPolicy OnFailure.                                                *)
Restart(r) ==
  /\ at[r] = "exited"
  /\ at' = [at EXCEPT ![r] = IF fails[r] <= BackoffLimit THEN "mkdir"
                             ELSE "failed"]
  /\ UNCHANGED <<hour, fails, writes, volume, lastSuccess, operator, worker,
                 bounds>>

(* Mutant of Owned: the controller does not watch the CronJobs.            *)
NotOwned == FALSE

(* Changes of the CronJob's status queue the owner's key.                  *)
Owned == TRUE

(* The Job is complete and the CronJob's status says so.                   *)
Succeed(r) ==
  /\ at[r] = "finished"
  /\ at' = [at EXCEPT ![r] = "succeeded"]
  /\ lastSuccess' = r
  /\ queued' = (queued \/ Owned)
  /\ UNCHANGED <<hour, fails, writes, volume, pc, sibling, annotated, worker,
                 bounds>>

-----------------------------------------------------------------------------
(* The script, one command at a time.                                      *)

Step(r, command) ==
  /\ at[r] = command
  /\ UNCHANGED <<hour, lastSuccess, operator, worker>>

Continue(r, command) ==
  at' = [at EXCEPT ![r] = command] /\ UNCHANGED <<fails, bounds>>

(* Mutant of Exit: the files stay open.                                    *)
ExitOpen(r) ==
  /\ at' = [at EXCEPT ![r] = "exited"]
  /\ fails' = [fails EXCEPT ![r] = @ + 1]
  /\ UNCHANGED writes

(* The attempt ends with an error, its open files are closed.              *)
Exit(r) ==
  /\ at' = [at EXCEPT ![r] = "exited"]
  /\ fails' = [fails EXCEPT ![r] = @ + 1]
  /\ writes' = [writes EXCEPT ![r] = "nowhere"]

(* A failure that is not a fault of the environment: the file is missing.  *)
Fails(missing) == IF missing THEN UNCHANGED bounds ELSE Fault

(* What is left of the old directory if rm -rf is interrupted.             *)
Remains == IF old = "absent" THEN {"absent"} ELSE {"absent", "present", old}

(* A signal, at any command.                                               *)
Kill(r) ==
  /\ at[r] \in Commands
  /\ Fault /\ Exit(r)
  /\ old' \in IF at[r] = "removeOld" THEN Remains ELSE {old}
  /\ UNCHANGED <<hour, customized, temp, lastSuccess, operator, worker>>

MakeTemp(r) ==
  /\ Step(r, "mkdir") /\ Continue(r, "download")
  /\ temp' = IF temp = Absent THEN EmptyDir ELSE temp
  /\ UNCHANGED <<writes, customized, old>>

(* rmdir removes the directory only if it is empty.                        *)
Download(r) ==
  /\ Step(r, "download")
  /\ \/ /\ temp # Absent
        /\ temp' = [temp EXCEPT !.csv = hour]
        /\ Continue(r, "copy") /\ UNCHANGED writes
     \/ /\ Fails(temp = Absent) /\ Exit(r)
        /\ temp' = IF temp = EmptyDir THEN Absent ELSE temp
  /\ UNCHANGED <<customized, old>>

(* Copies the partitioned map; nobody looks at its exit status.            *)
CopyPartitioned(r) ==
  /\ Step(r, "copy")
  /\ \/ /\ temp # Absent
        /\ temp' = [temp EXCEPT !.state = "copied"]
        /\ Continue(r, "customize")
     \/ /\ Fails(temp = Absent)
        /\ at' = [at EXCEPT ![r] = "customize"]
        /\ UNCHANGED <<fails, temp>>
  /\ UNCHANGED <<writes, customized, old>>

(* Files open in a directory go where it is moved.                         *)
Moved(from, to) == [r \in Runs |-> IF writes[r] = from THEN to ELSE writes[r]]

(* Mutant of OnCustomizeError: it is passed over like those of cp and mv.  *)
PassedOver(r) ==
  /\ at' = [at EXCEPT ![r] = "moveOld"]
  /\ writes' = [writes EXCEPT ![r] = "nowhere"]
  /\ UNCHANGED <<fails, temp>>

(* rm -rf and exit; what others write there is lost.                       *)
OnCustomizeError(r) ==
  /\ at' = [at EXCEPT ![r] = "exited"]
  /\ fails' = [fails EXCEPT ![r] = @ + 1]
  /\ temp' = Absent
  /\ writes' = [Moved("temp", "nowhere") EXCEPT ![r] = "nowhere"]

(* A map to customize and traffic data to do it with.                      *)
Customizable == temp.state \in {"copied", "complete"} /\ temp.csv # 0

(* osrm-customize opens its output files, if it finds its input.           *)
CustomizeOpen(r) ==
  /\ Step(r, "customize")
  /\ \/ /\ Customizable
        /\ temp' = [temp EXCEPT !.state = "copied"]
        /\ writes' = [writes EXCEPT ![r] = "temp"]
        /\ Continue(r, "write")
     \/ Fails(~Customizable) /\ OnCustomizeError(r)
  /\ UNCHANGED <<customized, old>>

Written(directory) ==
  [directory EXCEPT !.state = "complete", !.speeds = directory.csv]

(* It writes them, to wherever the directory has been moved meanwhile.     *)
CustomizeWrite(r) ==
  /\ Step(r, "write")
  /\ \/ /\ temp' = IF writes[r] = "temp" THEN Written(temp) ELSE temp
        /\ customized' = IF writes[r] = "customized" THEN Written(customized)
                         ELSE customized
        /\ writes' = [writes EXCEPT ![r] = "nowhere"]
        /\ Continue(r, "moveOld")
     \/ Fault /\ OnCustomizeError(r) /\ UNCHANGED customized
  /\ UNCHANGED old

(* An mv or rm fails: always if something is in its way.                   *)
SwapFails(inTheWay) ==
  IF inTheWay THEN UNCHANGED bounds
  ELSE faults < MaxFaults /\ faults' = faults + 1 /\ swapFailed' = TRUE

(* Mutant of PassOver: as with `set -e', a failed mv or rm ends the script. *)
ExitOnError(r, next, inTheWay) == SwapFails(inTheWay) /\ Exit(r)

(* The script goes on with its next command.                               *)
PassOver(r, next, inTheWay) ==
  /\ SwapFails(inTheWay)
  /\ at' = [at EXCEPT ![r] = next] /\ UNCHANGED <<fails, writes>>

(* If customized_old is there already, mv puts the directory into it; it   *)
(* fails if customized_old then holds a customized that is not empty.      *)
MoveOld(r) ==
  /\ Step(r, "moveOld")
  /\ \/ /\ customized # Absent /\ old # "occupied"
        /\ customized' = Absent
        /\ old' = IF old = "absent" \/ customized = EmptyDir THEN "present"
                  ELSE "occupied"
        /\ writes' = Moved("customized", "nowhere")
        /\ Continue(r, "moveNew")
     \/ /\ PassOver(r, "moveNew", customized = Absent \/ old = "occupied")
        /\ UNCHANGED <<customized, old>>
  /\ UNCHANGED temp

(* If customized is there again, mv puts customized_new into it, unless it *)
(* holds one already.                                                      *)
MoveNew(r) ==
  /\ Step(r, "moveNew")
  /\ \/ /\ temp # Absent /\ ~customized.nested
        /\ IF customized = Absent
             THEN customized' = temp /\ writes' = Moved("temp", "customized")
             ELSE /\ customized' = [customized EXCEPT !.nested = temp # EmptyDir]
                  /\ writes' = Moved("temp", "nowhere")
        /\ temp' = Absent
        /\ Continue(r, "removeOld")
     \/ /\ PassOver(r, "removeOld", temp = Absent \/ customized.nested)
        /\ UNCHANGED <<customized, temp>>
  /\ UNCHANGED old

RemoveOld(r) ==
  /\ Step(r, "removeOld")
  /\ \/ old' = "absent" /\ Continue(r, "finished") /\ UNCHANGED writes
     \/ /\ old # "absent" /\ PassOver(r, "finished", FALSE)
        /\ old' \in Remains \ {"absent"}
  /\ UNCHANGED <<customized, temp>>

-----------------------------------------------------------------------------
(* The operator, in the phases in which it builds CronJobs: a pass reads   *)
(* the children at its start and writes the Deployment some calls later.   *)

ReadSiblings ==
  /\ pc = "idle" /\ queued
  /\ sibling' = lastSuccess
  /\ queued' = FALSE /\ pc' = "update"
  /\ UNCHANGED <<hour, script, volume, lastSuccess, annotated, worker, bounds>>

(* A changed pod template replaces the workers; a failed call, or a crash, *)
(* leads to another pass.                                                  *)
UpdateDeployment ==
  /\ pc = "update" /\ pc' = "idle"
  /\ \/ /\ annotated' = sibling
        /\ worker' = [worker EXCEPT !.up = @ /\ annotated = sibling]
        /\ UNCHANGED <<queued, bounds>>
     \/ Fault /\ queued' = TRUE /\ UNCHANGED <<annotated, worker>>
  /\ UNCHANGED <<hour, script, volume, lastSuccess, sibling>>

Wake ==
  /\ ~queued /\ queued' = TRUE
  /\ UNCHANGED <<hour, script, volume, lastSuccess, pc, sibling, annotated,
                 worker, bounds>>

(* osrm-routed loads the map when it starts.                               *)
StartWorker ==
  /\ ~worker.up /\ customized.state = "complete"
  /\ worker' = [up |-> TRUE, loaded |-> customized.speeds]
  /\ UNCHANGED <<hour, script, volume, lastSuccess, operator, bounds>>

FailWorker ==
  /\ worker.up /\ Fault
  /\ worker' = [worker EXCEPT !.up = FALSE]
  /\ UNCHANGED <<hour, script, volume, lastSuccess, operator>>

-----------------------------------------------------------------------------
Run(r) ==
  \/ MakeTemp(r) \/ Download(r) \/ CopyPartitioned(r) \/ CustomizeOpen(r)
  \/ CustomizeWrite(r) \/ MoveOld(r) \/ MoveNew(r) \/ RemoveOld(r)

Next ==
  \/ Schedule
  \/ \E r \in Runs : Run(r) \/ Kill(r) \/ Restart(r) \/ Succeed(r)
  \/ ReadSiblings \/ UpdateDeployment \/ Wake
  \/ StartWorker \/ FailWorker

Spec == Init /\ [][Next]_vars

(* The hours come, a scheduled Job is run, run again after a failure and   *)
(* counted when it is complete.  Nothing is assumed of the operator and    *)
(* the workers.                                                            *)
FairSpec ==
  /\ Spec /\ WF_vars(Schedule)
  /\ \A r \in Runs : WF_vars(Run(r) \/ Restart(r) \/ Succeed(r))

-----------------------------------------------------------------------------
(* A worker that starts never finds a map that is not completely written,  *)
(* wherever scripts were killed and started again on what they left        *)
(* behind.  speed-updates/run.sh (the new map is prepared aside).          *)
NoTornMap == customized.state \in {"absent", "complete"}

(* The traffic data of run n, or newer; or those of a Job that put its map *)
(* in place and then used up its restarts, after every other success.      *)
AsFreshAs(n, data) ==
  \/ n <= data
  \/ \E q \in Runs :
       /\ at[q] = "failed" /\ q <= data
       /\ \A s \in Runs : at[s] = "succeeded" => s < q \/ n <= s

(* When nothing is under way the worker has the traffic data of the last   *)
(* successful run, or newer, although the operator may have read the       *)
(* CronJob before the run it is told of ended, and scripts were killed in  *)
(* the swap.  A run can only have succeeded without putting its map in     *)
(* place if the directories a failed Job left behind were in its way; then *)
(* the worker has the data of that Job.  (An mv or rm that fails with      *)
(* nothing in its way is excepted: the script succeeds without a swap.)    *)
(* DeploymentBuilder (setAnnotations), SetupWithManager,                   *)
(* speed-updates/run.sh.                                                   *)
FreshTraffic ==
  Unfinished = {} /\ pc = "idle" /\ ~queued /\ worker.up /\ ~swapFailed
    => AsFreshAs(lastSuccess, worker.loaded)

(* A script killed between its two mv commands, or whose second mv fails,  *)
(* leaves workers no map to start from: it or a later run puts one in      *)
(* place.  The schedule has to go on for longer than the faults.           *)
(* speed-updates/run.sh, CronJobBuilder (RestartPolicy).                   *)
MapReturns ==
  customized = Absent /\ MaxFaults - faults < MaxHours - hour
    ~> customized.state = "complete"

(* "Atomically replace the old directory.  This minimizes the time the     *)
(* directory is unavailable": when no run is under way the workers' map is *)
(* in its place.  speed-updates/run.sh.                                    *)
MapInPlace == Unfinished = {} => customized.state = "complete"
=============================================================================
