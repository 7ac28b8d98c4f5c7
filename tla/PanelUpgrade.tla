----------------------------- MODULE PanelUpgrade -----------------------------
(* The panel's side of an Agent update (agents/upgrades.py): the task recorded *)
(* with the Agent, its submission, the polls that reconcile it with the Agent, *)
(* the heartbeats and the reports of old Agents.  An accepted request proves   *)
(* nothing; a task ends only on what the Agent or its worker says.             *)
EXTENDS Naturals

CONSTANTS
  MaxTasks,      \* bound: updates started
  SlowWorker     \* TRUE: a worker may go on after the panel's ten minutes

ASSUME UpgradeAssumption == MaxTasks \in Nat

VARIABLES
  task,          \* agent["latest_upgrade"]
  deploying,     \* the Agent has an unfinished deployment
  shown,         \* what the last heartbeat left in the record: version, and
                 \* whether it came after the deadline and after the report
  late,          \* the task is older than 600 seconds
  starter,       \* the request in start()
  asker,         \* the request in poll()
  device,        \* the Agent: program version, migration done
  job            \* the update worker's journal

upgradeVars == <<task, deploying, shown, late, starter, asker, device, job>>

Ended == {"succeeded", "failed", "rolled_back", "rollback_failed"}
Final == Ended \ {"rollback_failed"}
Stages == {"queued", "working", "checking", "rolling_back"} \cup Ended
Busy(t) == t.id # 0 /\ t.status \notin Final

(* Task n updates the Agent to version n; 0 is the version it began with.       *)
NoTask == [id |-> 0, status |-> "none", protocol |-> 2, stamp |-> 0, previous |-> 0, reported |-> FALSE]
NoWork == [id |-> 0, status |-> "none", stamp |-> 0, legacy |-> FALSE]
NoInfo == [answered |-> FALSE, version |-> 0, ready |-> FALSE]
Resting == [pc |-> "idle", id |-> 0, view |-> NoTask, shown |-> [version |-> 0,
            afterDeadline |-> FALSE, afterReport |-> FALSE], job |-> NoWork, info |-> NoInfo]

(* ---------------------------------- _save ---------------------------------- *)
(* A patch is dropped when the task has ended or its report is older than one   *)
(* already stored; the receipt of the submission counts only while queued.      *)
Stale(t, id, stamp, onlyQueued) ==
  \/ t.id # id \/ t.status \in Final
  \/ onlyQueued /\ t.status # "queued"
  \/ stamp > 0 /\ stamp < t.stamp

Save(id, status, stamp, onlyQueued) ==
  task' = IF Stale(task, id, stamp, onlyQueued) THEN task
          ELSE [task EXCEPT !.status = status, !.stamp = IF stamp > 0 THEN stamp ELSE @]

(* ---------------------------------- start ---------------------------------- *)
(* The Agent and its previous task are read before the capabilities are asked.  *)
StartRead ==
  /\ starter.pc = "idle" /\ task.id < MaxTasks
  /\ starter' = [Resting EXCEPT !.pc = "reserve", !.id = task.id, !.shown = shown]
  /\ UNCHANGED <<task, deploying, shown, late, asker, device, job>>

Reserve_AnyPrevious ==
  /\ starter.pc = "reserve"
  /\ IF (task.id # 0 /\ task.status \notin Ended) \/ deploying
     THEN starter' = Resting /\ UNCHANGED <<task, late, shown>>
     ELSE /\ \E protocol \in {1, 2} :
               task' = [NoTask EXCEPT !.id = task.id + 1, !.status = "queued", !.protocol = protocol,
                                    !.previous = starter.shown.version]
          /\ late' = FALSE /\ shown' = [shown EXCEPT !.afterDeadline = FALSE, !.afterReport = FALSE]
          /\ starter' = [starter EXCEPT !.pc = "post", !.id = task.id + 1]
  /\ UNCHANGED <<deploying, asker, device, job>>

Reserve ==
  /\ starter.pc = "reserve"
  /\ IF starter.id # task.id \/ Busy(task) \/ deploying
     THEN starter' = Resting /\ UNCHANGED <<task, late, shown>>
     ELSE /\ \E protocol \in {1, 2} :
               task' = [NoTask EXCEPT !.id = task.id + 1, !.status = "queued", !.protocol = protocol,
                                    !.previous = starter.shown.version]
          /\ late' = FALSE /\ shown' = [shown EXCEPT !.afterDeadline = FALSE, !.afterReport = FALSE]
          /\ starter' = [starter EXCEPT !.pc = "post", !.id = task.id + 1]
  /\ UNCHANGED <<deploying, asker, device, job>>

(* The request is lost, refused, or creates the worker's journal (protocol 2)   *)
(* or replaces the program at once (protocol 1); its answer may be lost too.    *)
Post ==
  /\ starter.pc = "post"
  /\ \/ /\ starter' = [starter EXCEPT !.pc = "lost"]
        /\ UNCHANGED <<device, job>>
     \/ /\ starter' = [starter EXCEPT !.pc = "refused"]
        /\ UNCHANGED <<device, job>>
     \/ /\ job.status \in {"none"} \cup Ended
        /\ job' = [id |-> starter.id, status |-> "queued", stamp |-> 1,
                    legacy |-> task.id = starter.id /\ task.protocol = 1]
        /\ \E pc \in {"accepted", "lost"} : starter' = [starter EXCEPT !.pc = pc]
        /\ UNCHANGED device
  /\ UNCHANGED <<task, deploying, shown, late, asker>>

StartAnswered ==
  /\ starter.pc \in {"lost", "refused", "accepted"}
  /\ CASE starter.pc = "refused" -> Save(starter.id, "failed", 0, FALSE)
       [] starter.pc = "lost" -> Save(starter.id, "checking", 0, TRUE)
       [] starter.pc = "accepted" -> Save(starter.id, "queued", 0, TRUE)
  /\ starter' = Resting
  /\ UNCHANGED <<deploying, shown, late, asker, device, job>>

(* ----------------------------------- poll ---------------------------------- *)
(* poll() works on one copy of the Agent's record, read at its start.           *)
PollRead ==
  /\ asker.pc = "idle" /\ Busy(task)
  /\ asker' = [Resting EXCEPT !.pc = IF task.protocol = 2 THEN "job" ELSE "info",
                              !.id = task.id, !.view = task, !.shown = shown]
  /\ UNCHANGED <<task, deploying, shown, late, starter, device, job>>

(* An old Agent reported that it goes back, and its old version was seen since. *)
ConfirmedRollback(a) ==
  a.view.reported /\ a.shown.version = a.view.previous /\ a.shown.afterReport

PollConfirmed ==
  /\ asker.pc \in {"job", "info"} /\ ConfirmedRollback(asker)
  /\ Save(asker.id, "rolled_back", 0, FALSE)
  /\ asker' = Resting
  /\ UNCHANGED <<deploying, shown, late, starter, device, job>>

(* GET /api/update: the worker's journal of this task, or nothing of use.       *)
PollJob ==
  /\ asker.pc = "job" /\ ~ConfirmedRollback(asker)
  /\ \E answer \in {job, NoWork} :
       asker' = [asker EXCEPT !.job = IF answer.id = asker.id THEN answer ELSE NoWork,
                              !.pc = IF answer.id # asker.id \/ answer.status = "succeeded"
                                     THEN "info" ELSE "save"]
  /\ UNCHANGED <<task, deploying, shown, late, starter, device, job>>

PollSave ==
  /\ asker.pc = "save"
  /\ Save(asker.id, asker.job.status, asker.job.stamp, FALSE)
  /\ asker' = Resting
  /\ UNCHANGED <<deploying, shown, late, starter, device, job>>

(* GET /api/upgrade-info: the running version and whether it has migrated.      *)
PollInfo ==
  /\ asker.pc = "info" /\ ~ConfirmedRollback(asker)
  /\ \E answered \in BOOLEAN :
       asker' = [asker EXCEPT !.pc = "decide",
                   !.info = IF answered THEN [answered |-> TRUE, version |-> device.version,
                                              ready |-> device.ready] ELSE NoInfo]
  /\ UNCHANGED <<task, deploying, shown, late, starter, device, job>>

Proven(a) ==
  /\ a.info.answered /\ a.info.version = a.id /\ a.info.ready
  /\ a.view.protocol = 1 \/ a.job.status = "succeeded"

(* What could not be asked is decided by time and heartbeats: after the         *)
(* deadline a heartbeat of the old version releases the task.                    *)
Decide ==
  LET a == asker IN
  /\ a.pc = "decide"
  /\ IF Proven(a) THEN Save(a.id, "succeeded", a.job.stamp, FALSE)
     ELSE IF a.job.status = "succeeded" /\ a.info.answered THEN Save(a.id, "checking", a.job.stamp, FALSE)
     ELSE IF late /\ a.shown.version = a.view.previous /\ a.shown.afterDeadline THEN Save(a.id, "failed", 0, FALSE)
     ELSE IF late /\ a.view.status # "unknown" THEN Save(a.id, "unknown", 0, FALSE)
     ELSE UNCHANGED task
  /\ asker' = Resting
  /\ UNCHANGED <<deploying, shown, late, starter, device, job>>

(* ------------------------ heartbeats, reports and time --------------------- *)
Heartbeat ==
  /\ shown' = [version |-> device.version, afterDeadline |-> late, afterReport |-> task.reported]
  /\ shown' # shown
  /\ UNCHANGED <<task, deploying, late, starter, asker, device, job>>

(* An old Agent that could not migrate says that it goes back (report_legacy).  *)
ReportLegacy ==
  /\ job.status = "rolling_back" /\ job.id = task.id /\ job.legacy
  /\ ~Stale(task, job.id, 0, FALSE)
  /\ task' = [task EXCEPT !.status = "rolling_back", !.reported = TRUE]
  /\ shown' = [shown EXCEPT !.afterReport = FALSE]
  /\ UNCHANGED <<deploying, late, starter, asker, device, job>>

Deadline ==
  /\ Busy(task) /\ ~late
  /\ SlowWorker \/ job.id # task.id \/ job.status \in Ended
  /\ starter.pc \notin {"post", "lost", "refused", "accepted"}
  /\ late' = TRUE
  /\ shown' = [shown EXCEPT !.afterDeadline = FALSE]
  /\ UNCHANGED <<task, deploying, starter, asker, device, job>>

(* begin_deployment refuses while an update is busy.                            *)
Deploy ==
  /\ deploying' = ~deploying
  /\ ~deploying => ~Busy(task)
  /\ UNCHANGED <<task, shown, late, starter, asker, device, job>>

(* The panel process dies: the submission and the poll are gone.                *)
PanelDies ==
  /\ starter.pc \notin {"idle", "reserve"} \/ asker.pc # "idle"
  /\ starter' = Resting /\ asker' = Resting
  /\ UNCHANGED <<task, deploying, shown, late, device, job>>

(* ----------------------------- the Agent's worker --------------------------- *)
(* What module AgentUpgrade promises of a worker: it replaces the program, waits *)
(* until it has migrated, and otherwise puts the previous one back.              *)
Advance(s) == job' = [job EXCEPT !.status = s, !.stamp = @ + 1]
Work ==
  /\ \/ job.status = "queued" /\ Advance("working") /\ UNCHANGED device
     \/ job.status = "queued" /\ Advance("failed") /\ UNCHANGED device
     \/ /\ job.status = "working" /\ Advance("checking")
        /\ device' = [version |-> job.id, ready |-> FALSE, before |-> device.version]
     \/ /\ job.status = "checking" /\ ~device.ready /\ device' = [device EXCEPT !.ready = TRUE]
        /\ IF job.legacy THEN Advance("succeeded") ELSE UNCHANGED job
     \/ job.status = "checking" /\ device.ready /\ Advance("succeeded") /\ UNCHANGED device
     \/ job.status = "checking" /\ ~device.ready /\ Advance("rolling_back") /\ UNCHANGED device
     \/ /\ job.status = "rolling_back"
        /\ \/ Advance("rolled_back") /\ device' = [device EXCEPT !.version = device.before, !.ready = TRUE]
           \/ Advance("rollback_failed") /\ UNCHANGED device
  /\ UNCHANGED <<task, deploying, shown, late, starter, asker>>

(* A failed rollback is recovered by the next start of the Agent.                *)
Recovered ==
  /\ job.status = "rollback_failed" /\ Advance("rolled_back")
  /\ device' = [device EXCEPT !.version = device.before, !.ready = TRUE]
  /\ UNCHANGED <<task, deploying, shown, late, starter, asker>>

UpgradeInit ==
  /\ task = NoTask /\ deploying = FALSE /\ late = FALSE
  /\ shown = Resting.shown
  /\ starter = Resting /\ asker = Resting
  /\ device = [version |-> 0, ready |-> TRUE, before |-> 0]
  /\ job = NoWork

Asking == PollRead \/ PollConfirmed \/ PollJob \/ PollSave \/ PollInfo \/ Decide
UpgradeNext ==
  \/ StartRead \/ Reserve \/ Post \/ StartAnswered \/ Asking
  \/ Heartbeat \/ ReportLegacy \/ Deadline \/ Deploy \/ PanelDies \/ Work \/ Recovered

(* The page keeps polling, requests and heartbeats get through in the end, the   *)
(* worker goes on, time passes, and the panel does not die for ever.             *)
JobHeard == PollJob /\ asker'.job = job
InfoHeard == PollInfo /\ asker'.info.answered
UpgradeFairness ==
  /\ WF_upgradeVars(Reserve) /\ WF_upgradeVars(Post) /\ WF_upgradeVars(StartAnswered)
  /\ WF_upgradeVars(Asking) /\ SF_upgradeVars(JobHeard) /\ SF_upgradeVars(InfoHeard)
  /\ WF_upgradeVars(Heartbeat) /\ WF_upgradeVars(ReportLegacy) /\ WF_upgradeVars(Deadline)
  /\ WF_upgradeVars(Work) /\ WF_upgradeVars(Recovered)
  /\ <>[][~PanelDies]_upgradeVars
UpgradeSpec == UpgradeInit /\ [][UpgradeNext]_upgradeVars
FairUpgradeSpec == UpgradeSpec /\ UpgradeFairness

(* -------------------------------- properties ------------------------------- *)
(* The task, the last heartbeat, the Agent and its worker have these shapes.     *)
UpgradeTypeOK ==
  /\ \/ task = NoTask
     \/ task \in [id : 1..MaxTasks, status : Stages \cup {"unknown"},
        protocol : {1, 2}, stamp : Nat, previous : 0..MaxTasks, reported : BOOLEAN]
  /\ shown.version \in 0..MaxTasks /\ device.version \in 0..MaxTasks
  /\ \/ job = NoWork
     \/ job \in [id : 1..MaxTasks, status : Stages, stamp : Nat, legacy : BOOLEAN]

(* poll() shows success only when the Agent runs the version and has migrated,   *)
(* whatever order receipts and answers were stored in ("never confuse acceptance *)
(* with success").                                                               *)
SuccessIsProven ==
  task.status = "succeeded" => device.version = task.id /\ device.ready

(* A task is released as failed or rolled back only when nothing of it goes on   *)
(* at the Agent: an unanswered submission or a heartbeat of the old version      *)
(* before the deadline or the report proves nothing (start, poll).               *)
ReleaseIsSafe ==
  task.status \in {"failed", "rolled_back"} /\ job.id = task.id =>
     job.status \in Ended /\ job.status # "rollback_failed" /\ device.version # task.id

(* A stale poll, a late receipt or a report that lost the race never changes an   *)
(* outcome already stored (_save).                                                *)
OutcomeStands ==
  [][task.status \in Final /\ task'.id = task.id => task'.status = task.status]_upgradeVars

(* A new task starts only when the previous one's worker has ended, although the  *)
(* capabilities were asked before the reservation (start.reserve).                *)
OnlyOneJob ==
  [][task'.id # task.id => job.status \in {"none"} \cup Final]_upgradeVars

(* Polling ends every task: what the Agent cannot say, a heartbeat after the      *)
(* deadline decides (poll's "release the lock and allow a retry").                *)
UpgradeResolves == Busy(task) ~> ~Busy(task)
====
