---------------------------- MODULE AgentUpgrade ----------------------------
(***************************************************************************)
(* The Go Agent's update of itself                                         *)
(* (src/backend/agents/go-agent/upgrade/ and routes/update.go).            *)
(*                                                                         *)
(* The Agent records a task and installs a service for it, the worker.     *)
(* The worker is a copy of the old program: it downloads the target, backs *)
(* up the program and the files the migration edits, replaces them,        *)
(* restarts the Agent and waits until the new program reports itself.      *)
(* Any failure restores the backups.  Every phase is recorded in the       *)
(* task's journal before it is entered; the service manager starts a dead  *)
(* worker again and the journal tells it what it interrupted.              *)
(*                                                                         *)
(* update.lock admits one preparation, worker or pruning at a time, and    *)
(* the deployment engine's operation.lock keeps them from deployments.     *)
(* The death of its holder frees a lock.                                   *)
(*                                                                         *)
(* At its start the Agent migrates the files itself (bootstrap.go), unless *)
(* an update is pending; that has a journal of its own.                    *)
(*                                                                         *)
(* A program is its version.  The service manager is external; the module  *)
(* follows systemd, where removing a unit does not stop its process and a  *)
(* restart is queued.                                                      *)
(***************************************************************************)
EXTENDS Naturals, FiniteSets

CONSTANTS
    Task,            \* update IDs, each drawn once by the panel
    Version,         \* versions of the Agent
    Target,          \* Target[t]: the version t installs
    Installed,       \* the version installed at first
    Broken,          \* versions that start but never become ready
    Changes,         \* files the migration edits, in this order
    Deferred,        \* whether an older update left the files to this Agent
    Flaky,           \* whether downloads, files and services may fail
    UncertainStart,  \* whether a start reported as failed may have happened
    MaxFaults,       \* bound on journal writes that report an error
    MaxCrashes,      \* bound on deaths of processes
    NoTask, NoVersion, Down, Nobody, Agent

ASSUME UpgradeAssumption ==
    /\ Target \in [Task -> Version]
    /\ Installed \in Version \ Broken
    /\ Broken \subseteq Version
    /\ Changes \in Nat
    /\ {Deferred, Flaky, UncertainStart} \subseteq BOOLEAN
    /\ MaxFaults \in Nat /\ MaxCrashes \in Nat
    /\ NoTask \notin Task /\ {NoVersion, Down} \cap Version = {}
    /\ {Nobody, Agent} \cap Task = {} /\ Nobody # Agent

VARIABLES
    current,   \* durable: the task current.json names
    journal,   \* durable: what loadJob reads for each task
    copies,    \* durable: tasks whose worker program is still there
    units,     \* durable: tasks whose service is enabled
    binary,    \* durable: the installed program
    migrated,  \* durable: migration files in their new form
    process,   \* the version the running Agent is
    boot,      \* the next step of ensureInstalled, and its file
    bootstrap, \* durable: the journal of ensureInstalled
    restartQueued,  \* the service manager has still to restart the Agent
    holder,    \* who holds update.lock
    op,        \* what operation.lock is held for
    checked,   \* a deployment has passed the Pending check
    prep,      \* the next step of Prepare in the Agent, and its task
    worker,    \* the next step of each task's worker
    mem,       \* the worker's in-memory Job
    next,      \* position in the worker's loop over the files
    seen,      \* what ReadStatus has loaded and not yet answered
    reported,  \* history: the last outcome ReadStatus answered for a task
    origin,    \* history: what each task found
    faults, crashes

disk == <<current, journal, copies, units, binary, migrated>>
agent == <<process, boot, bootstrap, restartQueued>>
locks == <<holder, op>>
work == <<worker, mem, next>>
reader == <<seen, reported>>
budget == <<faults, crashes>>
vars == <<disk, agent, locks, checked, prep, work, reader, origin, budget>>

-----------------------------------------------------------------------------
Change == 1..Changes
Phases == {"queued", "downloading", "verifying", "backing_up", "migrating",
           "replacing", "restarting", "checking", "rolling_back",
           "rollback_failed"}
\* terminal(status) without rollback_failed, which still needs recovery.
Final == {"succeeded", "failed", "rolled_back"}

Job == [status : Phases \cup Final \cup {"absent"}, mutating : BOOLEAN,
        previous : Version \cup {NoVersion}, backup : Version \cup {NoVersion},
        snapshots : SUBSET Change]
NoJob == [status |-> "absent", mutating |-> FALSE, previous |-> NoVersion,
          backup |-> NoVersion, snapshots |-> {}]

Pending_Terminal ==
    current # NoTask
      /\ journal[current].status \notin Final \cup {"rollback_failed"}
Pending == current # NoTask /\ journal[current].status \notin Final

\* The API is served before a deferred migration, and while it runs.
Serving ==
    /\ process \in Version \ Broken
    /\ boot.pc \in {"up", "deferred"} \/ holder = Agent
\* waitReady: identity, version and migrationReadyStrict are confirmed.
Ready(version) == process = version /\ Serving /\ migrated = Change
Settled == process # Down /\ ~restartQueued /\ boot.pc \in {"up", "deferred"}

Init ==
    /\ current = NoTask /\ journal = [t \in Task |-> NoJob]
    /\ copies = {} /\ units = {}
    /\ binary = Installed /\ process = Installed /\ restartQueued = FALSE
    /\ \/ migrated = Change /\ boot = [pc |-> "up", next |-> 0]
       \/ Deferred /\ migrated = {} /\ boot = [pc |-> "deferred", next |-> 0]
    /\ bootstrap = [complete |-> TRUE, snapshots |-> {}]
    /\ holder = Nobody /\ op = "free" /\ checked = FALSE
    /\ prep = [pc |-> "idle", task |-> NoTask]
    /\ worker = [t \in Task |-> "dead"] /\ mem = [t \in Task |-> NoJob]
    /\ next = [t \in Task |-> 0]
    /\ seen = [task |-> NoTask, status |-> "absent"]
    /\ reported = [t \in Task |-> "absent"]
    /\ origin = [t \in Task |-> [binary |-> NoVersion, migrated |-> {}]]
    /\ faults = 0 /\ crashes = 0

\* A journal write may report an error, whether or not it took effect.
Fault == faults < MaxFaults /\ faults' = faults + 1 /\ UNCHANGED crashes
NoFault == UNCHANGED budget

-----------------------------------------------------------------------------
(* The Agent: preparing a task.                                            *)

PrepGoto(pc) == prep' = [prep EXCEPT !.pc = pc]
\* The handler returns and both locks are released.
PrepareEnds ==
    /\ prep' = [pc |-> "idle", task |-> NoTask]
    /\ holder' = Nobody /\ op' = "free"

\* HandleUpdate and Prepare up to the copy of the program.  A task already
\* current, or one that is pending, is answered without a change.
Prepare(t) ==
    /\ Serving /\ prep.pc = "idle"
    /\ op = "free" /\ holder = Nobody
    /\ ~Pending
    /\ origin[t].binary = NoVersion
    /\ holder' = Agent /\ op' = "prepare"
    /\ prep' = [pc |-> "saveCurrent", task |-> t]
    /\ copies' = copies \cup {t}
    /\ origin' = [origin EXCEPT ![t] = [binary |-> binary, migrated |-> migrated]]
    /\ UNCHANGED <<current, journal, units, binary, migrated, agent, checked,
                   work, reader, budget>>

Queued == [NoJob EXCEPT !.status = "queued", !.previous = process]
\* job.save(current.json), which loadJob reads until the task's own file exists.
SaveCurrent ==
    /\ prep.pc = "saveCurrent"
    /\ \/ /\ current' = prep.task /\ journal' = [journal EXCEPT ![prep.task] = Queued]
          /\ PrepGoto("saveJob") /\ UNCHANGED locks /\ NoFault
       \/ /\ \/ UNCHANGED <<current, journal>>
             \/ current' = prep.task /\ journal' = [journal EXCEPT ![prep.task] = Queued]
          /\ PrepareEnds /\ Fault
    /\ UNCHANGED <<copies, units, binary, migrated, agent, checked, work, reader, origin>>

\* job.save(job-ID.json): the same record under the task's own name.
SaveJob ==
    /\ prep.pc = "saveJob"
    /\ \/ PrepGoto("startWorker") /\ UNCHANGED locks /\ NoFault
       \/ PrepareEnds /\ Fault
    /\ UNCHANGED <<disk, agent, checked, work, reader, origin>>

\* startWorker installs, enables and starts the service.  Only the last
\* command can fail with the service started.
StartWorker ==
    /\ prep.pc = "startWorker"
    /\ \/ /\ units' = units \cup {prep.task}
          /\ worker' = [worker EXCEPT ![prep.task] = "load"]
          /\ PrepareEnds
       \/ /\ Flaky /\ units' \in {units, units \cup {prep.task}}
          /\ UNCHANGED <<worker, locks>> /\ PrepGoto("saveFailed")
       \/ /\ UncertainStart /\ units' = units \cup {prep.task}
          /\ worker' = [worker EXCEPT ![prep.task] = "load"]
          /\ UNCHANGED locks /\ PrepGoto("saveFailed")
    /\ UNCHANGED <<current, journal, copies, binary, migrated, agent, checked,
                   mem, next, reader, origin, budget>>

\* The failure is recorded, errors of that are ignored, and cleanupWorker
\* removes the service.
SavePrepareFailed ==
    /\ prep.pc = "saveFailed"
    /\ LET failed == [journal EXCEPT ![prep.task] = [Queued EXCEPT !.status = "failed"]]
       IN  \/ journal' = failed /\ NoFault
           \/ journal' \in {journal, failed} /\ Fault
    /\ units' = units \ {prep.task}
    /\ PrepareEnds
    /\ UNCHANGED <<current, copies, binary, migrated, agent, checked, work, reader, origin>>

-----------------------------------------------------------------------------
(* The start of the Agent (EnsureInstalled, before the API is served).     *)

\* What the Agent was doing is gone; its locks are freed by the caller.
AgentDies ==
    /\ process' = Down /\ boot' = [pc |-> "down", next |-> 0]
    /\ restartQueued' = FALSE /\ checked' = FALSE
    /\ prep' = [pc |-> "idle", task |-> NoTask]
    /\ seen' = [task |-> NoTask, status |-> "absent"]

BootGoto(pc, file) == boot' = [pc |-> pc, next |-> file] /\ UNCHANGED locks
still == <<process, restartQueued, checked, prep, seen>>
bootRest == <<disk, restartQueued, checked, prep, work, reader, origin, budget>>

StartAgent ==
    /\ process = Down /\ process' = binary /\ restartQueued' = FALSE
    /\ boot' = [pc |-> IF binary \in Broken \/ (Pending /\ migrated = Change) THEN "up"
                       ELSE IF Pending THEN "deferred" ELSE "ensure",
                next |-> 0]
    /\ UNCHANGED <<disk, bootstrap, locks, checked, prep, work, reader, origin, budget>>

\* A deferred migration holds update.lock, one at the start no lock at all.
Background == holder = Agent
BootEnds ==
    /\ boot' = [pc |-> "up", next |-> 0]
    /\ holder' = (IF Background THEN Nobody ELSE holder)
    /\ UNCHANGED op
\* Without a deferred migration the program ends and is started again.
BootFails == IF Background
               THEN BootEnds /\ UNCHANGED still
               ELSE AgentDies /\ UNCHANGED locks

\* finishDeferredMigration polls until the update is over, and leaves an
\* update that did not succeed alone.  NoTask stands for the older one.
Committed == current # NoTask => journal[current].status = "succeeded"
FinishDeferred ==
    /\ boot.pc = "deferred"
    /\ \/ /\ current # NoTask
          /\ journal[current].status \in (Final \cup {"rollback_failed"}) \ {"succeeded"}
          /\ BootGoto("up", 0)
       \/ /\ Committed
          /\ holder = Nobody /\ holder' = Agent /\ UNCHANGED op
          /\ boot' = [pc |-> "ensure", next |-> 0]
    /\ UNCHANGED <<bootRest, process, bootstrap>>

BootLoad ==
    /\ boot.pc = "ensure"
    /\ IF bootstrap.complete THEN BootGoto("plan", 0) ELSE BootGoto("restore", Changes)
    /\ UNCHANGED <<bootRest, process, bootstrap>>

\* Restore of an interrupted migration ("restore"), or of one that has just
\* failed ("undo").
BootRestored(file) ==
    IF file \in bootstrap.snapshots THEN migrated \cup {file} ELSE migrated \ {file}
BootRestore ==
    /\ boot.pc \in {"restore", "undo"}
    /\ \/ /\ boot.next > 0
          /\ migrated' = BootRestored(boot.next)
          /\ BootGoto(boot.pc, boot.next - 1)
          /\ UNCHANGED still
       \/ /\ boot.next = 0 /\ boot.pc = "restore" /\ BootGoto("plan", 0)
          /\ UNCHANGED <<migrated, still>>
       \/ /\ boot.next = 0 /\ boot.pc = "undo" /\ BootFails /\ UNCHANGED migrated
       \/ /\ Flaky /\ boot.next > 0 /\ BootFails
          /\ migrated' \in {migrated, BootRestored(boot.next)}
    /\ UNCHANGED <<current, journal, copies, units, binary, bootstrap, work, reported,
                   origin, budget>>

\* The snapshots are durable before the first change.
BootPlan ==
    /\ boot.pc = "plan"
    /\ LET opened == [complete |-> FALSE, snapshots |-> migrated]
       IN  \/ migrated = Change /\ BootEnds
              /\ UNCHANGED <<bootstrap, still>>
           \/ /\ migrated # Change /\ bootstrap' = opened /\ BootGoto("migrate", 0)
              /\ UNCHANGED still
           \/ /\ Flaky /\ migrated # Change /\ bootstrap' \in {bootstrap, opened}
              /\ BootFails
    /\ UNCHANGED <<disk, work, reported, origin, budget>>

BootApply ==
    /\ boot.pc = "migrate" /\ boot.next < Changes
    /\ LET file == boot.next + 1
       IN  \/ migrated' = migrated \cup {file} /\ BootGoto("migrate", file)
           \/ /\ Flaky /\ migrated' \in {migrated, migrated \cup {file}}
              /\ BootGoto("undo", Changes)
    /\ UNCHANGED <<current, journal, copies, units, binary, process, bootstrap,
                   restartQueued, checked, prep, work, reader, origin, budget>>

\* The service manager reloads, and the journal is closed.
BootDone ==
    /\ boot.pc = "migrate" /\ boot.next = Changes
    /\ LET closed == [bootstrap EXCEPT !.complete = TRUE]
       IN  \/ bootstrap' = closed /\ BootEnds
              /\ UNCHANGED still
           \/ /\ Flaky /\ BootGoto("undo", Changes)
              /\ UNCHANGED <<bootstrap, still>>
           \/ Flaky /\ bootstrap' \in {bootstrap, closed} /\ BootFails
    /\ UNCHANGED <<disk, work, reported, origin, budget>>

-----------------------------------------------------------------------------
(* The Agent: other operations.                                            *)

\* A deployment, restart or uninstall: acquireServiceOperation looks for a
\* pending update before it takes operation.lock.
CheckPending ==
    /\ Serving /\ ~checked /\ ~Pending
    /\ checked' = TRUE
    /\ UNCHANGED <<disk, agent, locks, prep, work, reader, origin, budget>>

StartOperation ==
    /\ checked /\ checked' = FALSE
    /\ op' = IF op = "free" THEN "operation" ELSE op
    /\ UNCHANGED <<disk, agent, holder, prep, work, reader, origin, budget>>

EndOperation ==
    /\ op = "operation" /\ op' = "free"
    /\ UNCHANGED <<disk, agent, holder, checked, prep, work, reader, origin, budget>>

\* ReadStatus loads the current task; an unfinished one is answered at once.
ReadStatus ==
    /\ Serving /\ seen.task = NoTask
    /\ current # NoTask /\ journal[current].status \in Final
    /\ seen' = [task |-> current, status |-> journal[current].status]
    /\ UNCHANGED <<disk, agent, locks, checked, prep, work, reported, origin, budget>>

\* A final status is answered only if update.lock can be had; it is answered
\* as "checking" otherwise.
Answer ==
    /\ seen.task # NoTask
    /\ reported' = IF holder = Nobody THEN [reported EXCEPT ![seen.task] = seen.status]
                                      ELSE reported
    /\ seen' = [task |-> NoTask, status |-> "absent"]
    /\ UNCHANGED <<disk, agent, locks, checked, prep, work, origin, budget>>

\* PruneCompleted: the files of finished tasks and every worker program.  A
\* removal that fails, or a death, leaves the rest.
Prunable_WhenTerminal == current # NoTask /\ ~Pending_Terminal
Prunable == current # NoTask /\ ~Pending
PruneCompleted ==
    /\ Serving /\ holder = Nobody /\ Prunable
    /\ copies' \in SUBSET copies
    /\ \E gone \in SUBSET (Task \ {current}) :
         journal' = [t \in Task |-> IF t \in gone THEN NoJob ELSE journal[t]]
    /\ UNCHANGED <<current, units, binary, migrated, agent, locks, checked, prep,
                   work, reader, origin, budget>>

-----------------------------------------------------------------------------
(* The worker: building blocks.                                            *)

Goto(t, pc) == worker' = [worker EXCEPT ![t] = pc] /\ UNCHANGED locks
\* The process ends, which frees its locks.
Exit(t) ==
    /\ worker' = [worker EXCEPT ![t] = "dead"]
    /\ mem' = [mem EXCEPT ![t] = NoJob] /\ next' = [next EXCEPT ![t] = 0]
    /\ IF holder = t
         THEN /\ holder' = Nobody
              /\ op' = IF op = "worker" THEN "free" ELSE op
         ELSE UNCHANGED locks
rest == <<agent, checked, prep, reader, origin>>

\* Job.save: the memory changes first.  The task's own file comes first and
\* is what loadJob believes; current.json follows if it still names the task.
Save(t, record, ok, err) ==
    /\ mem' = [mem EXCEPT ![t] = record]
    /\ LET saved == [journal EXCEPT ![t] = record]
       IN  \/ journal' = saved /\ Goto(t, ok) /\ NoFault
           \/ journal' \in {journal, saved} /\ Goto(t, err) /\ Fault
    /\ UNCHANGED <<current, copies, units, binary, migrated, next, rest>>

Enter(t, from, status, ok, err) ==
    worker[t] = from /\ Save(t, [mem[t] EXCEPT !.status = status], ok, err)

\* A step that changes nothing the model keeps, and may fail.
Attempt(t, from, ok) ==
    /\ worker[t] = from
    /\ Goto(t, ok) \/ (Flaky /\ Goto(t, "fail"))
    /\ UNCHANGED <<disk, mem, next, rest, budget>>

RestartAgent(t, ok, err) ==
    /\ \/ restartQueued' = TRUE /\ Goto(t, ok)
       \/ Flaky /\ restartQueued' \in {restartQueued, TRUE} /\ Goto(t, err)
    /\ UNCHANGED <<disk, process, boot, bootstrap, checked, prep, mem, next,
                   reader, origin, budget>>

\* It waits for 45 seconds, longer than a start takes that does not fail.
WaitReady(t, version, ok, err) ==
    /\ \/ Ready(version) /\ Goto(t, ok)
       \/ (Flaky \/ (Settled /\ ~Ready(version))) /\ Goto(t, err)
    /\ UNCHANGED <<disk, mem, next, rest, budget>>

-----------------------------------------------------------------------------
(* The worker: from its start to the first change.                         *)

\* The service manager starts the worker of an enabled service that is dead:
\* again after two seconds, or when the host boots.
Spawn(t) ==
    /\ worker[t] = "dead" /\ t \in units /\ t \in copies /\ prep.task # t
    /\ Goto(t, "load")
    /\ UNCHANGED <<disk, mem, next, rest, budget>>

\* loadJob, before any lock is taken.  A finished task only has its service
\* removed; without a journal the worker exits.
Done(record) == record.status \in Final
Load(t) ==
    /\ worker[t] = "load"
    /\ IF journal[t] = NoJob \/ Done(journal[t])
         THEN /\ units' = IF Done(journal[t]) THEN units \ {t} ELSE units
              /\ Exit(t)
         ELSE /\ mem' = [mem EXCEPT ![t] = journal[t]]
              /\ Goto(t, "lockUpdate")
              /\ UNCHANGED <<units, next>>
    /\ UNCHANGED <<current, journal, copies, binary, migrated, rest, budget>>

\* waitLock polls for fifteen seconds and then the worker exits.
LockUpdate(t) ==
    /\ worker[t] = "lockUpdate"
    /\ \/ /\ holder = Nobody
          /\ holder' = t /\ worker' = [worker EXCEPT ![t] = "lockCore"]
          /\ UNCHANGED <<op, mem, next>>
       \/ holder # Nobody /\ Exit(t)
    /\ UNCHANGED <<disk, rest, budget>>

LockCore_Skipped(t) ==
    /\ worker[t] = "lockCore" /\ Goto(t, "resume")
    /\ UNCHANGED <<disk, mem, next, rest, budget>>
LockCore(t) ==
    /\ worker[t] = "lockCore"
    /\ \/ /\ op = "free"
          /\ op' = "worker" /\ worker' = [worker EXCEPT ![t] = "resume"]
          /\ UNCHANGED <<holder, mem, next>>
       \/ op # "free" /\ Exit(t)
    /\ UNCHANGED <<disk, rest, budget>>

\* Anything but a queued task was interrupted and is rolled back or failed.
Resume(t) ==
    /\ worker[t] = "resume"
    /\ IF mem[t].status = "queued"
         THEN Save(t, [mem[t] EXCEPT !.status = "downloading"], "download", "fail")
         ELSE Goto(t, "fail") /\ UNCHANGED <<disk, mem, next, rest, budget>>

Download(t) == Attempt(t, "download", "saveVerifying")
SaveVerifying(t) == Enter(t, "saveVerifying", "verifying", "verify", "fail")
\* verifyCandidate and MigrationPlan.
Verify(t) == Attempt(t, "verify", "saveBackingUp")
SaveBackingUp(t) == Enter(t, "saveBackingUp", "backing_up", "backup", "fail")

\* The snapshots and the backup are taken before anything changes.
Backup_NoProgram(t) ==
    /\ worker[t] = "backup"
    /\ mem' = [mem EXCEPT ![t].snapshots = migrated]
    /\ Goto(t, "saveMigrating")
    /\ UNCHANGED <<disk, next, rest, budget>>
Backup(t) ==
    /\ worker[t] = "backup"
    /\ \/ /\ mem' = [mem EXCEPT ![t].backup = binary, ![t].snapshots = migrated]
          /\ Goto(t, "saveMigrating")
       \/ Flaky /\ Goto(t, "fail") /\ UNCHANGED mem
    /\ UNCHANGED <<disk, next, rest, budget>>

\* The flag is durable before the first change; when the save reports an
\* error the memory takes it back.
SaveMigrating(t) ==
    /\ worker[t] = "saveMigrating"
    /\ LET record == [mem[t] EXCEPT !.status = "migrating", !.mutating = TRUE]
           saved == [journal EXCEPT ![t] = record]
       IN  \/ /\ mem' = [mem EXCEPT ![t] = record] /\ journal' = saved
              /\ Goto(t, "migrate") /\ NoFault
           \/ /\ mem' = [mem EXCEPT ![t] = [record EXCEPT !.mutating = FALSE]]
              /\ journal' \in {journal, saved}
              /\ Goto(t, "fail") /\ Fault
    /\ UNCHANGED <<current, copies, units, binary, migrated, next, rest>>

-----------------------------------------------------------------------------
(* The worker: the changes.                                                *)

\* ApplyChanges: references to the old recovery gate, the gate, the Agent's
\* configuration; then the service manager reloads.
ApplyChange(t) ==
    /\ worker[t] = "migrate" /\ next[t] < Changes
    /\ LET file == next[t] + 1
       IN  \/ /\ migrated' = migrated \cup {file}
              /\ next' = [next EXCEPT ![t] = file] /\ Goto(t, "migrate")
           \/ /\ Flaky /\ migrated' \in {migrated, migrated \cup {file}}
              /\ next' = [next EXCEPT ![t] = 0] /\ Goto(t, "fail")
    /\ UNCHANGED <<current, journal, copies, units, binary, mem, rest, budget>>

ChangesApplied(t) ==
    /\ worker[t] = "migrate" /\ next[t] = Changes
    /\ next' = [next EXCEPT ![t] = 0]
    /\ Goto(t, "saveReplacing") \/ (Flaky /\ Goto(t, "fail"))
    /\ UNCHANGED <<disk, mem, rest, budget>>

SaveReplacing(t) == Enter(t, "saveReplacing", "replacing", "replace", "fail")

\* A rename; the sync of the directory may fail after it.
Replace(t) ==
    /\ worker[t] = "replace"
    /\ \/ binary' = Target[t] /\ Goto(t, "saveRestarting")
       \/ Flaky /\ binary' \in {binary, Target[t]} /\ Goto(t, "fail")
    /\ UNCHANGED <<current, journal, copies, units, migrated, mem, next, rest, budget>>

SaveRestarting(t) == Enter(t, "saveRestarting", "restarting", "restart", "fail")
Restart(t) == worker[t] = "restart" /\ RestartAgent(t, "saveChecking", "fail")
SaveChecking(t) == Enter(t, "saveChecking", "checking", "confirm", "fail")
Confirm_Unconfirmed(t) == Attempt(t, "confirm", "saveSucceeded")
Confirm(t) ==
    worker[t] = "confirm" /\ WaitReady(t, Target[t], "saveSucceeded", "fail")
SaveSucceeded(t) == Enter(t, "saveSucceeded", "succeeded", "finish", "fail")

-----------------------------------------------------------------------------
(* The worker: failure and rollback (the deferred function of Run).        *)

\* Errors of both records are ignored.
Fail(t) ==
    \/ mem[t].mutating /\ Enter(t, "fail", "rolling_back", "restoreBinary", "restoreBinary")
    \/ ~mem[t].mutating /\ Enter(t, "fail", "failed", "finish", "finish")

RestoreBinary_Kept(t) ==
    /\ worker[t] = "restoreBinary"
    /\ next' = [next EXCEPT ![t] = Changes] /\ Goto(t, "restoreFiles")
    /\ UNCHANGED <<disk, mem, rest, budget>>
RestoreBinary(t) ==
    /\ worker[t] = "restoreBinary"
    /\ \/ /\ binary' = mem[t].backup /\ Goto(t, "restoreFiles")
          /\ next' = [next EXCEPT ![t] = Changes]
       \/ /\ Flaky /\ binary' \in {binary, mem[t].backup}
          /\ Goto(t, "saveRollbackFailed") /\ UNCHANGED next
    /\ UNCHANGED <<current, journal, copies, units, migrated, mem, rest, budget>>

\* Restore goes backwards through the snapshots.
Restored(t, file) ==
    IF file \in mem[t].snapshots THEN migrated \cup {file} ELSE migrated \ {file}
RestoreFile_Forwards(t) ==
    /\ worker[t] = "restoreFiles" /\ next[t] > 0
    /\ migrated' = Restored(t, Changes + 1 - next[t])
    /\ next' = [next EXCEPT ![t] = @ - 1] /\ Goto(t, "restoreFiles")
    /\ UNCHANGED <<current, journal, copies, units, binary, mem, rest, budget>>
RestoreFile(t) ==
    /\ worker[t] = "restoreFiles" /\ next[t] > 0
    /\ \/ /\ migrated' = Restored(t, next[t])
          /\ next' = [next EXCEPT ![t] = @ - 1] /\ Goto(t, "restoreFiles")
       \/ /\ Flaky /\ migrated' \in {migrated, Restored(t, next[t])}
          /\ next' = [next EXCEPT ![t] = 0] /\ Goto(t, "saveRollbackFailed")
    /\ UNCHANGED <<current, journal, copies, units, binary, mem, rest, budget>>

FilesRestored(t) ==
    /\ worker[t] = "restoreFiles" /\ next[t] = 0
    /\ Goto(t, "restartPrevious") \/ (Flaky /\ Goto(t, "saveRollbackFailed"))
    /\ UNCHANGED <<disk, mem, next, rest, budget>>

RestartPrevious(t) ==
    worker[t] = "restartPrevious"
      /\ RestartAgent(t, "confirmPrevious", "saveRollbackFailed")
ConfirmPrevious(t) ==
    worker[t] = "confirmPrevious"
      /\ WaitReady(t, mem[t].previous, "saveRolledBack", "saveRollbackFailed")

\* Errors of these records are ignored.
SaveRolledBack(t) == Enter(t, "saveRolledBack", "rolled_back", "finish", "finish")
SaveRollbackFailed(t) ==
    Enter(t, "saveRollbackFailed", "rollback_failed", "finish", "finish")

\* cleanupWorker goes by the status in memory; the locks are released last.
Finish(t) ==
    /\ worker[t] = "finish"
    /\ units' = IF mem[t].status \in Final THEN units \ {t} ELSE units
    /\ Exit(t)
    /\ UNCHANGED <<current, journal, copies, binary, migrated, rest, budget>>

-----------------------------------------------------------------------------
(* The environment.                                                        *)

\* The service manager carries out the queued restart.
StopAgent ==
    /\ restartQueued /\ process # Down /\ AgentDies
    /\ holder' = IF holder = Agent THEN Nobody ELSE holder
    /\ op' = IF op = "worker" THEN op ELSE "free"
    /\ UNCHANGED <<disk, bootstrap, work, reported, origin, budget>>

\* Any set of processes dies, all of them when the host does.
Crash(agentDies, dead) ==
    /\ agentDies \/ dead # {}
    /\ agentDies => process # Down
    /\ crashes < MaxCrashes /\ crashes' = crashes + 1
    /\ worker' = [t \in Task |-> IF t \in dead THEN "dead" ELSE worker[t]]
    /\ mem' = [t \in Task |-> IF t \in dead THEN NoJob ELSE mem[t]]
    /\ next' = [t \in Task |-> IF t \in dead THEN 0 ELSE next[t]]
    /\ holder' = IF holder \in dead \/ (agentDies /\ holder = Agent) THEN Nobody
                 ELSE holder
    /\ op' = IF \/ op = "worker" /\ holder \in dead
                \/ op \in {"prepare", "operation"} /\ agentDies
             THEN "free" ELSE op
    /\ IF agentDies THEN AgentDies
                    ELSE UNCHANGED <<process, boot, restartQueued, checked, prep, seen>>
    /\ UNCHANGED <<disk, bootstrap, reported, origin, faults>>

-----------------------------------------------------------------------------
PrepareStep == SaveCurrent \/ SaveJob \/ StartWorker \/ SavePrepareFailed
WorkerStep(t) ==
    \/ Spawn(t) \/ Load(t) \/ LockUpdate(t) \/ LockCore(t) \/ Resume(t)
    \/ Download(t) \/ SaveVerifying(t) \/ Verify(t) \/ SaveBackingUp(t)
    \/ Backup(t) \/ SaveMigrating(t)
    \/ ApplyChange(t) \/ ChangesApplied(t) \/ SaveReplacing(t) \/ Replace(t)
    \/ SaveRestarting(t) \/ Restart(t) \/ SaveChecking(t) \/ Confirm(t)
    \/ SaveSucceeded(t)
    \/ Fail(t) \/ RestoreBinary(t) \/ RestoreFile(t) \/ FilesRestored(t)
    \/ RestartPrevious(t) \/ ConfirmPrevious(t) \/ SaveRolledBack(t)
    \/ SaveRollbackFailed(t) \/ Finish(t)
Operation == CheckPending \/ StartOperation \/ EndOperation
Startup == FinishDeferred \/ BootLoad \/ BootRestore \/ BootPlan \/ BootApply \/ BootDone
Status == ReadStatus \/ Answer
Death == \E agentDies \in BOOLEAN, dead \in SUBSET {t \in Task : worker[t] # "dead"} :
            Crash(agentDies, dead)

Next == \/ \E t \in Task : Prepare(t) \/ WorkerStep(t)
        \/ PrepareStep \/ Operation \/ Status \/ PruneCompleted
        \/ StartAgent \/ StopAgent \/ Startup \/ Death
Spec == Init /\ [][Next]_vars

\* The service manager keeps starting what died, processes keep running.
Fairness ==
    /\ \A t \in Task : WF_vars(WorkerStep(t))
    /\ WF_vars(PrepareStep) /\ WF_vars(StartOperation) /\ WF_vars(EndOperation)
    /\ WF_vars(Answer)
    /\ WF_vars(StartAgent) /\ WF_vars(StopAgent) /\ WF_vars(Startup)
FairSpec == Spec /\ Fairness

-----------------------------------------------------------------------------
(* -------------------- what the update promises -------------------- *)

WorkerLabel ==
    {"dead", "load", "lockUpdate", "lockCore", "resume", "download",
     "saveVerifying", "verify", "saveBackingUp", "backup", "saveMigrating",
     "migrate", "saveReplacing", "replace", "saveRestarting", "restart",
     "saveChecking", "confirm", "saveSucceeded", "fail", "restoreBinary",
     "restoreFiles", "restartPrevious", "confirmPrevious", "saveRolledBack",
     "saveRollbackFailed", "finish"}
PrepLabel == {"idle", "saveCurrent", "saveJob", "startWorker", "saveFailed"}
BootLabel ==
    {"down", "up", "deferred", "ensure", "restore", "plan", "migrate", "undo"}
StatusOrNone == Phases \cup Final \cup {"absent"}

\* Every variable has its type: journals are complete records, and a lock is
\* held by the Agent or by one worker.
TypeOK ==
    /\ current \in Task \cup {NoTask}
    /\ journal \in [Task -> Job]
    /\ copies \subseteq Task /\ units \subseteq Task
    /\ binary \in Version /\ migrated \subseteq Change
    /\ process \in Version \cup {Down}
    /\ boot \in [pc : BootLabel, next : 0..Changes]
    /\ bootstrap \in [complete : BOOLEAN, snapshots : SUBSET Change]
    /\ restartQueued \in BOOLEAN
    /\ holder \in Task \cup {Nobody, Agent}
    /\ op \in {"free", "prepare", "operation", "worker"}
    /\ checked \in BOOLEAN
    /\ prep \in [pc : PrepLabel, task : Task \cup {NoTask}]
    /\ worker \in [Task -> WorkerLabel]
    /\ mem \in [Task -> Job]
    /\ next \in [Task -> 0..Changes]
    /\ seen \in [task : Task \cup {NoTask}, status : StatusOrNone]
    /\ reported \in [Task -> StatusOrNone]
    /\ origin \in [Task -> [binary : Version \cup {NoVersion}, migrated : SUBSET Change]]
    /\ faults \in 0..MaxFaults /\ crashes \in 0..MaxCrashes

-----------------------------------------------------------------------------
Locked(t) == holder = t
\* The steps of a worker that may change the program or the migration files.
Mutating == {"migrate", "replace", "restoreBinary", "restoreFiles"}
\* A migration at the start of the Agent has an open journal, or is complete.
UndoneBy(t) ==
    /\ binary = origin[t].binary
    /\ migrated \in {origin[t].migrated, Change} \/ ~bootstrap.complete
Updated(t) ==
    /\ binary = Target[t]
    /\ migrated = Change \/ ~bootstrap.complete
AtRest(t) == current = t /\ ~Locked(t) /\ prep.pc = "idle"

\* A recorded outcome is true: once the worker is gone, "succeeded" means the
\* target and the complete migration are installed, "rolled_back" and "failed"
\* mean what Prepare found is back or was never touched.
OutcomeIsTrue ==
    \A t \in Task :
      AtRest(t) =>
        /\ journal[t].status = "succeeded" => Updated(t)
        /\ journal[t].status \in {"rolled_back", "failed"} => UndoneBy(t)

\* Write-ahead: the installed program and the migration files change only
\* while a journal on disk says so and holds the backups that undo it.
ChangesAreJournaled ==
    [][<<binary, migrated>>' # <<binary, migrated>> =>
         \/ binary' = binary /\ ~bootstrap.complete
         \/ \E t \in Task :
              /\ Locked(t) /\ current = t
              /\ journal[t].mutating /\ journal[t].status \notin Final
              /\ journal[t].backup = origin[t].binary
              /\ journal[t].snapshots = origin[t].migrated]_vars

\* The gate of the old startup recovery goes after the references to it and
\* comes back before them, so that no death of the worker or of a starting
\* Agent leaves a unit that requires a missing one (recoveryCleanupPlan,
\* Restore).  A success whose record reported an error is excepted: an Agent
\* that starts then migrates, without a lock, what the worker is restoring.
NoDanglingReference ==
    faults = 0 => \E k \in 0..Changes : migrated = 1..k

\* At most one task is unfinished, whatever its worker, the Agent and their
\* records went through.
OneUnfinishedTask ==
    \A t, u \in Task :
      {journal[t].status, journal[u].status} \cap (Final \cup {"absent"}) = {} => t = u

\* A worker changes the Agent only while no deployment, restart or uninstall
\* runs, although these look for a pending update before they take the lock.
OperationsExcludeUpdate ==
    op = "operation" => \A t \in Task : worker[t] \notin Mutating \cup {"restart", "restartPrevious"}

\* What a rollback needs stays on disk until it is no longer needed: while
\* journals can be written, a task with changes to undo keeps its service and
\* the program the service runs.
RecoveryIsKept ==
    faults = 0 => \A t \in Task :
      journal[t].mutating /\ journal[t].status \notin Final =>
        t \in units /\ t \in copies

\* An outcome once answered to the panel is never taken back, even if writing
\* it reported an error: the lock makes ReadStatus wait for the worker.
AnswersAreFinal ==
    \A t \in Task : reported[t] # "absent" => journal[t].status \in {reported[t], "absent"}

\* Success is answered only for a version that served under the migrated
\* configuration when the worker recorded it.
SuccessWasConfirmed ==
    [][\A t \in Task :
         journal'[t].status = "succeeded" /\ journal[t].status # "succeeded" =>
           binary = Target[t] /\ Target[t] \notin Broken /\ migrated = Change]_vars

\* A task whose service is enabled reaches an outcome: every death of the
\* worker is followed by a rollback that ends.
UpdateConverges ==
    \A t \in Task :
      (t \in units /\ current = t) ~> (journal[t].status \in Final)

\* Both locks are always released again.
LocksAreReleased == []<>(holder = Nobody) /\ []<>(op = "free")

-----------------------------------------------------------------------------
(* A promise the code does not keep.                                       *)

\* docs/ONLINE_UPGRADE.md: the service manager starts an interrupted task
\* again, which recovers from its journal.  So an unfinished task that nobody
\* is preparing has its service.
UnfinishedIsSupervised ==
    \A t \in Task :
      prep.task # t /\ journal[t].status \notin Final \cup {"absent"} => t \in units
=============================================================================
