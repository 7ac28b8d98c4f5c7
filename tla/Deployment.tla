----------------------------- MODULE Deployment -----------------------------
(***************************************************************************)
(* The Go Agent's transactional deployment engine                          *)
(* (src/backend/agents/go-agent/routes/deployment.go and                   *)
(* deployment_rollback.go).                                                *)
(*                                                                         *)
(* One Agent owns one configuration directory.  A deployment is uploaded,  *)
(* staged, and activated: the live files are backed up, replaced one by    *)
(* one, loaded by the core and checked; any failure restores the backups.  *)
(* Every phase is first recorded in the deployment's journal (state.json), *)
(* so that an explicit recovery can finish what a crash interrupted.  An   *)
(* advisory file lock serialises the operations; a crash releases it.      *)
(*                                                                         *)
(* Contents are abstract: a file holds what some deployment shipped, the   *)
(* Original, or a version the core itself wrote (Edited).  The service     *)
(* manager and the core are external: their answers are nondeterministic.  *)
(*                                                                         *)
(* An operator called Name_Defect is a plausible mistake in Name, kept to  *)
(* confirm that a property detects it.  No action uses it.                 *)
(***************************************************************************)
EXTENDS Naturals, FiniteSets

CONSTANTS
    Deployment,      \* deployment IDs
    Path,            \* paths the deployments may manage
    GeoPath,         \* persistent Geo resources (mihomoGeoAssets)
    ProviderPath,    \* files the running core refreshes by itself
    Files,           \* Files[d]: the paths d's manifest lists
    ReloadOnly,      \* deployments with reload_only = true
    Preinstalled,    \* paths that exist before the first deployment
    Legacy,          \* journals an older version left in recovery_pending
    Corruptible,     \* deployments whose backups may rot
    KeepCompleted,   \* completed journals kept besides current and active
    ServiceMayFail,  \* whether the core or its manager may refuse
    MaxFaults,       \* bound on failing file operations
    MaxEdits,        \* bound on files rewritten by the core
    MaxCrashes,      \* bound on Agent or host crashes
    NoDeployment, Missing, Unsaved, Original, Edited

ASSUME DeploymentAssumption ==
    /\ GeoPath \subseteq Path
    /\ ProviderPath \subseteq Path
    /\ Preinstalled \subseteq Path
    /\ Files \in [Deployment -> SUBSET Path]
    /\ ReloadOnly \subseteq Deployment
    /\ Legacy \subseteq Deployment /\ Corruptible \subseteq Deployment
    /\ \A d, e \in Legacy : d = e
    /\ NoDeployment \notin Deployment
    /\ {Missing, Unsaved} \cap (Deployment \cup {Original, Edited}) = {}
    /\ Missing # Unsaved
    /\ KeepCompleted \in Nat
    /\ ServiceMayFail \in BOOLEAN
    /\ MaxFaults \in Nat /\ MaxEdits \in Nat /\ MaxCrashes \in Nat

VARIABLES
    journal,    \* durable state.json of each deployment
    effective,  \* durable effective-manifest.json of each deployment
    staged,     \* deployments whose stage/ and bundle are on disk
    corrupt,    \* deployments with a backup that fails its checksum
    active,     \* durable active-manifest.json
    live,       \* the managed files of the configuration directory
    running,    \* the core is running
    core,       \* the files the core loaded last
    pc,         \* the lock holder's next step; "idle" when the lock is free
    cur,        \* the deployment the lock holder works on
    job,        \* why it holds the lock
    mem,        \* its in-memory DeploymentState
    hot,        \* it has a reloader: the core keeps running
    done,       \* files handled in its current loop
    scan,       \* journals left in its recovery or pruning loop
    faults, edits, crashes

disk == <<journal, effective, staged, corrupt, active, live>>
service == <<running, core>>
loop == <<done, scan>>
worker == <<pc, cur, job, mem, hot, done, scan>>
budget == <<faults, edits, crashes>>
vars == <<disk, service, worker, budget>>

-----------------------------------------------------------------------------
Content == Deployment \cup {Original, Edited}
FileState == Content \cup {Missing}

\* A manifest lists the content of each managed path; Missing: not listed.
Manifest == [id : Deployment \cup {NoDeployment}, files : [Path -> FileState]]
NoFiles == [p \in Path |-> Missing]
NoManifest == [id |-> NoDeployment, files |-> NoFiles]

\* Statuses from which only an explicit recovery proceeds.
Unresolved == {"stopping", "backing_up", "replacing", "reloading", "starting",
               "checking", "rolling_back", "rollback_failed", "recovery_pending"}
Completed == {"succeeded", "failed", "rolled_back"}
\* "unstarted": a directory without state.json, but with no payload either.
\* "remnant": a directory whose state.json is gone while payload is left.
Status == Unresolved \cup Completed \cup {"receiving", "verifying", "ready"}
            \cup {"absent", "unstarted", "remnant"}

\* backups[p] is Unsaved for a path that is not backed up and Missing for
\* one that did not exist.
Journal == [status : Status, wasRunning : BOOLEAN, backupComplete : BOOLEAN,
            backups : [Path -> FileState \cup {Unsaved}],
            previous : Manifest, manual : BOOLEAN]
Blank(status) ==
    [status |-> status, wasRunning |-> FALSE, backupComplete |-> FALSE,
     backups |-> [p \in Path |-> Unsaved], previous |-> NoManifest,
     manual |-> FALSE]

Listed(files) == {p \in Path : files[p] # Missing}
BackedUp_AllPaths == Path
BackedUp == {p \in Path : mem.backups[p] # Unsaved}
\* deploymentBlocked: an unresolved or unreadable journal stops new work.
Blocked_FailedOnly ==
    \E d \in Deployment :
      journal[d].status \in {"rollback_failed", "recovery_pending", "remnant"}
Blocked == \E d \in Deployment : journal[d].status \in Unresolved \cup {"remnant"}
IsUnresolved(d) == journal[d].status \in Unresolved

\* When it lets an operation through, deploymentBlocked has also removed the
\* directories that a crash left before their first record.
Swept == [d \in Deployment |->
            IF journal[d].status = "unstarted" THEN Blank("absent") ELSE journal[d]]

LegacyJournal(d, image) ==
    [Blank("recovery_pending") EXCEPT
        !.wasRunning = TRUE, !.backupComplete = TRUE,
        !.backups = [p \in Path |-> IF p \in Files[d] THEN image[p] ELSE Unsaved]]

Init ==
    /\ live = [p \in Path |-> IF p \in Preinstalled THEN Original ELSE Missing]
    /\ journal = [d \in Deployment |->
                    IF d \in Legacy THEN LegacyJournal(d, live) ELSE Blank("absent")]
    /\ effective = [d \in Deployment |-> NoFiles]
    /\ staged = {} /\ corrupt = {}
    /\ active = NoManifest
    /\ running \in BOOLEAN /\ core = live
    /\ pc = "idle" /\ cur = NoDeployment /\ job = "none"
    /\ mem = Blank("absent") /\ hot = FALSE
    /\ done = {} /\ scan = {}
    /\ faults = 0 /\ edits = 0 /\ crashes = 0

-----------------------------------------------------------------------------
(* Building blocks of the steps of the lock holder.                        *)

\* The operation ends and the lock is released.
Release ==
    /\ pc' = "idle" /\ cur' = NoDeployment /\ job' = "none"
    /\ mem' = Blank("absent") /\ hot' = FALSE /\ done' = {} /\ scan' = {}

\* The next step of the same operation.
Goto(label) == pc' = label /\ UNCHANGED <<cur, job>>

\* A file operation may fail, and when it does it may have taken effect (the
\* rename happened but the directory could not be synced) or not.
Fault == faults < MaxFaults /\ faults' = faults + 1 /\ UNCHANGED <<edits, crashes>>
NoFault == UNCHANGED budget

\* saveDeployment: the in-memory state changes first, then the journal; the
\* journal of a failed save is the old or the new one.
SaveDeployment(record, ok, err) ==
    /\ mem' = record
    /\ \/ journal' = [journal EXCEPT ![cur] = record] /\ Goto(ok) /\ NoFault
       \/ journal' \in {journal, [journal EXCEPT ![cur] = record]} /\ Goto(err) /\ Fault
    /\ UNCHANGED <<effective, staged, corrupt, active, live, service, hot, loop>>

\* A phase change: at `from', record `status' and go on.
Enter(from, status, ok, err) ==
    /\ pc = from
    /\ SaveDeployment([mem EXCEPT !.status = status], ok, err)

\* Before any live file changed: failing needs no rollback while the core
\* keeps running (failUnchanged).
FailUnchanged == IF hot THEN "saveFailed" ELSE "saveRollingBack"

-----------------------------------------------------------------------------
(* Upload and staging.                                                     *)

\* DeploymentUploadHandler up to the new, still unjournaled directory.
Upload(d) ==
    /\ pc = "idle" /\ ~Blocked
    /\ journal[d].status \in {"absent", "unstarted"}
    /\ journal' = [Swept EXCEPT ![d] = Blank("unstarted")]
    /\ pc' = "saveReceiving" /\ cur' = d /\ job' = "publish" /\ mem' = Blank("unstarted")
    /\ UNCHANGED <<effective, staged, corrupt, active, live, service, hot, loop, budget>>

\* A refused operation may still have removed an unstarted directory.
DiscardUnstarted(d) ==
    /\ pc = "idle" /\ journal[d].status = "unstarted"
    /\ journal' = [journal EXCEPT ![d] = Blank("absent")]
    /\ UNCHANGED <<effective, staged, corrupt, active, live, service, worker, budget>>

SaveReceiving == Enter("saveReceiving", "receiving", "receive", "abandon")

\* The first record could not be saved: the directory is removed.
Abandon ==
    /\ pc = "abandon"
    /\ journal' = [journal EXCEPT ![cur] = Blank("absent")]
    /\ Release
    /\ UNCHANGED <<effective, staged, corrupt, active, live, service, budget>>

\* The body arrives and its digest matches, or not.
Receive ==
    /\ pc = "receive"
    /\ \/ Goto("saveVerifying") /\ staged' = staged \cup {cur}
       \/ Goto("saveFailed") /\ staged' \in {staged, staged \cup {cur}}
    /\ UNCHANGED <<journal, effective, corrupt, active, live, service, mem, hot, loop, budget>>

SaveVerifying == Enter("saveVerifying", "verifying", "prepare", "saveFailed")

\* prepareDeployment: extract and validate the bundle, write its effective
\* manifest, and activate it unless the upload only stages it.
Prepare ==
    /\ pc = "prepare"
    /\ \/ /\ effective' = [effective EXCEPT ![cur] =
                             [p \in Path |-> IF p \in Files[cur] THEN cur ELSE Missing]]
          /\ \E next \in {"precheck", "saveReady"} : Goto(next)
       \/ Goto("saveFailed") /\ UNCHANGED effective
    /\ UNCHANGED <<journal, staged, corrupt, active, live, service, mem, hot, loop, budget>>

\* The candidate is staged and the operation over; or it could not be saved.
SaveReady ==
    /\ pc = "saveReady"
    /\ LET record == [mem EXCEPT !.status = "ready"]
       IN  \/ journal' = [journal EXCEPT ![cur] = record] /\ Release /\ NoFault
           \/ /\ journal' \in {journal, [journal EXCEPT ![cur] = record]}
              /\ mem' = record /\ Goto("saveFailed") /\ Fault
              /\ UNCHANGED <<hot, loop>>
    /\ UNCHANGED <<effective, staged, corrupt, active, live, service>>

\* DeploymentHandler, POST activate: the candidate is reserved by its journal.
Activate(d) ==
    /\ pc = "idle" /\ ~Blocked /\ journal[d].status = "ready"
    /\ LET record == [journal[d] EXCEPT !.status = "verifying"]
           accepted == [Swept EXCEPT ![d] = record]
       IN  \/ /\ journal' = accepted /\ NoFault
              /\ pc' = "reverify" /\ cur' = d /\ job' = "publish" /\ mem' = record
              /\ UNCHANGED <<hot, loop>>
           \/ journal' \in {Swept, accepted} /\ Fault /\ UNCHANGED worker
    /\ UNCHANGED <<effective, staged, corrupt, active, live, service>>

\* loadEffectiveManifest re-verifies the staged files; a rejected candidate is
\* marked failed, and nothing is cleaned up on this path.
Reverify ==
    /\ pc = "reverify"
    /\ \/ Goto("precheck") /\ UNCHANGED <<journal, mem, hot, loop, faults, edits, crashes>>
       \/ LET rejected == [journal EXCEPT ![cur].status = "failed"]
          IN  /\ \/ journal' = rejected /\ NoFault
                 \/ journal' \in {journal, rejected} /\ Fault
              /\ Release
    /\ UNCHANGED <<effective, staged, corrupt, active, live, service>>

-----------------------------------------------------------------------------
(* Activation.                                                             *)

\* A managed Geo resource the candidate omits is carried into it.
Carried(p) == /\ p \in GeoPath /\ active.files[p] # Missing
              /\ effective[cur][p] = Missing
WithCarried == [p \in Path |-> IF Carried(p) THEN live[p] ELSE effective[cur][p]]

\* Everything checked before the core or a live file is touched: manifest,
\* addresses, validation, lifecycle commands, DNS, disk space, service state.
\* prepareDeploymentReload may offer a hot reload only while the core runs.
Precheck ==
    /\ pc = "precheck"
    /\ \/ /\ Goto("saveFailed")
          /\ effective' \in {effective, [effective EXCEPT ![cur] = WithCarried]}
          /\ mem' \in {mem, [mem EXCEPT !.wasRunning = running, !.previous = active]}
          /\ UNCHANGED hot
       \/ /\ \A p \in Path : Carried(p) => live[p] # Missing
          /\ effective' = [effective EXCEPT ![cur] = WithCarried]
          /\ mem' = [mem EXCEPT !.wasRunning = running, !.previous = active]
          /\ hot' \in {FALSE, running}
          /\ Goto(IF hot' THEN "saveBackingUp"
                  ELSE IF cur \in ReloadOnly THEN "saveFailed" ELSE "saveStopping")
    /\ UNCHANGED <<journal, staged, corrupt, active, live, service, loop, budget>>

\* Stopping comes before the backup, or after a failed hot reload.
SaveStopping ==
    Enter("saveStopping", "stopping", "stop",
          IF mem.backupComplete THEN "saveRollingBack" ELSE "saveFailed")

\* stopService, whose failure leaves the core running or not.
StopService(ok, err) ==
    /\ \/ running' = FALSE /\ Goto(ok)
       \/ ServiceMayFail /\ running' \in {running, FALSE} /\ Goto(err)
    /\ UNCHANGED <<disk, core, mem, hot, loop, budget>>

Stop == /\ pc = "stop"
        /\ StopService(IF mem.backupComplete THEN "saveStarting" ELSE "saveBackingUp",
                       "saveRollingBack")

SaveBackingUp == Enter("saveBackingUp", "backing_up", "backup", FailUnchanged)

\* managedPaths: what the candidate or the active manifest lists.
ManagedPaths_Active == Listed(active.files)
ManagedPaths == Listed(effective[cur]) \cup Listed(active.files)

\* backupDeployment: one verified copy per managed path...
BackupFile(p) ==
    /\ pc = "backup" /\ p \in ManagedPaths \ BackedUp
    /\ \/ mem' = [mem EXCEPT !.backups[p] = live[p]] /\ Goto("backup") /\ NoFault
       \/ Goto(FailUnchanged) /\ Fault /\ UNCHANGED mem
    /\ UNCHANGED <<disk, service, hot, loop>>

\* ...and then the record that the set is complete.
BackupDone ==
    /\ pc = "backup" /\ ManagedPaths \subseteq BackedUp
    /\ SaveDeployment([mem EXCEPT !.backupComplete = TRUE], "saveReplacing", FailUnchanged)

SaveReplacing == Enter("saveReplacing", "replacing", "replace", FailUnchanged)

\* Backed-up files the candidate no longer lists, persistent Geo data aside.
Stale == {p \in BackedUp \ Listed(effective[cur]) :
            ~(p \in GeoPath /\ mem.previous.files[p] # Missing)}

\* replaceDeployment: install each listed file, then remove the stale ones.
ReplaceFile(p) ==
    /\ pc = "replace"
    /\ \/ p \in Listed(effective[cur]) \ done
       \/ p \in Stale \ done /\ Listed(effective[cur]) \subseteq done
    /\ LET replaced == [live EXCEPT ![p] = effective[cur][p]]
       IN  \/ live' = replaced /\ done' = done \cup {p} /\ Goto("replace") /\ NoFault
           \/ live' \in {live, replaced} /\ done' = {} /\ Goto("saveRollingBack") /\ Fault
    /\ UNCHANGED <<journal, effective, staged, corrupt, active, service, mem, hot, scan>>

\* The installed files are verified once more (verifyManifestFiles).
ReplaceDone ==
    /\ pc = "replace" /\ Listed(effective[cur]) \cup Stale \subseteq done
    /\ done' = {}
    /\ Goto(IF \E p \in Listed(effective[cur]) : live[p] # effective[cur][p]
            THEN "saveRollingBack"
            ELSE IF hot THEN "saveReloading" ELSE "saveStarting")
    /\ UNCHANGED <<disk, service, mem, hot, scan, budget>>

SaveReloading == Enter("saveReloading", "reloading", "reload", "saveRollingBack")

\* After a failed or uncertain reload an ordinary deployment falls back to a
\* restart, a reload-only one rolls back.
ReloadFailed_Ignored == Goto("saveChecking") /\ UNCHANGED hot
ReloadFailed ==
    IF cur \in ReloadOnly THEN Goto("saveRollingBack") /\ UNCHANGED hot
                          ELSE Goto("saveStopping") /\ hot' = FALSE

\* The core loads the new files in place.
Reload ==
    /\ pc = "reload"
    /\ \/ core' = live /\ Goto("saveChecking") /\ UNCHANGED hot
       \/ ServiceMayFail /\ core' \in {core, live} /\ ReloadFailed
    /\ UNCHANGED <<disk, running, mem, loop, budget>>

SaveStarting == Enter("saveStarting", "starting", "start", "saveRollingBack")

\* startService: the core loads the live files, or fails with or without them.
StartService(ok, err) ==
    /\ \/ running' = TRUE /\ core' = live /\ Goto(ok)
       \/ /\ ServiceMayFail /\ Goto(err)
          /\ \/ UNCHANGED service
             \/ running' = TRUE /\ core' = live
    /\ UNCHANGED <<disk, mem, hot, loop, budget>>

Start == pc = "start" /\ StartService("saveChecking", "saveRollingBack")

SaveChecking == Enter("saveChecking", "checking", "check", "saveRollingBack")

\* checkDeploymentHealth.
CheckHealth(ok, err) ==
    /\ \/ running /\ Goto(ok)
       \/ (ServiceMayFail \/ ~running) /\ Goto(err)
    /\ UNCHANGED <<disk, service, mem, hot, loop, budget>>

Check == pc = "check" /\ CheckHealth("writeActive", "saveRollingBack")

WriteActive ==
    /\ pc = "writeActive"
    /\ LET manifest == [id |-> cur, files |-> effective[cur]]
       IN  \/ active' = manifest /\ Goto("saveSucceeded") /\ NoFault
           \/ active' \in {active, manifest} /\ Goto("saveRollingBack") /\ Fault
    /\ UNCHANGED <<journal, effective, staged, corrupt, live, service, mem, hot, loop>>

SaveSucceeded == Enter("saveSucceeded", "succeeded", "cleanup", "saveRollingBack")

\* failBefore: errors of this save are ignored.
SaveFailed == Enter("saveFailed", "failed", "cleanup", "cleanup")

-----------------------------------------------------------------------------
(* Rollback, by a failed activation, on request, or by recovery.           *)

\* The intent is recorded first, and errors of this save are ignored.
SaveRollingBack_Unsaved ==
    /\ pc = "saveRollingBack" /\ Goto("rollbackStop")
    /\ mem' = [mem EXCEPT !.status = "rolling_back"]
    /\ UNCHANGED <<disk, service, hot, loop, budget>>
SaveRollingBack ==
    Enter("saveRollingBack", "rolling_back", "rollbackStop", "rollbackStop")

RollbackStop ==
    /\ pc = "rollbackStop"
    /\ StopService(IF mem.backupComplete THEN "verifyBackups" ELSE "rollbackStart",
                   "saveRollbackFailed")

\* Every backup is verified before any of them is restored.
VerifyBackups ==
    /\ pc = "verifyBackups"
    /\ Goto(IF cur \in corrupt THEN "saveRollbackFailed" ELSE "restore")
    /\ UNCHANGED <<disk, service, mem, hot, loop, budget>>

RestoreFile(p) ==
    /\ pc = "restore" /\ p \in BackedUp \ done
    /\ LET restored == [live EXCEPT ![p] = mem.backups[p]]
       IN  \/ live' = restored /\ done' = done \cup {p} /\ Goto("restore") /\ NoFault
           \/ /\ live' \in {live, restored} /\ done' = {}
              /\ Goto("saveRollbackFailed") /\ Fault
    /\ UNCHANGED <<journal, effective, staged, corrupt, active, service, mem, hot, scan>>

RestoreActive_Kept ==
    /\ pc = "restore" /\ BackedUp \subseteq done
    /\ done' = {} /\ Goto("rollbackStart")
    /\ UNCHANGED <<disk, service, mem, hot, scan, budget>>
RestoreActive ==
    /\ pc = "restore" /\ BackedUp \subseteq done
    /\ done' = {}
    /\ \/ active' = mem.previous /\ Goto("rollbackStart") /\ NoFault
       \/ active' \in {active, mem.previous} /\ Goto("saveRollbackFailed") /\ Fault
    /\ UNCHANGED <<journal, effective, staged, corrupt, live, service, mem, hot, scan>>

\* The core is started again only if it ran before the deployment.
RollbackStart_Always ==
    pc = "rollbackStart" /\ StartService("rollbackCheck", "saveRollbackFailed")
RollbackStart ==
    /\ pc = "rollbackStart"
    /\ IF mem.wasRunning
         THEN StartService("rollbackCheck", "saveRollbackFailed")
         ELSE Goto("saveRolledBack") /\ UNCHANGED <<disk, service, mem, hot, loop, budget>>

RollbackCheck ==
    pc = "rollbackCheck" /\ CheckHealth("saveRolledBack", "saveRollbackFailed")

SaveRolledBack ==
    Enter("saveRolledBack", "rolled_back",
          IF job = "publish" THEN "cleanup" ELSE IF job = "recover" THEN "recover" ELSE "finish",
          "saveRollbackFailed")

SaveRollbackFailed_Retried ==
    Enter("saveRollbackFailed", "rollback_failed", "saveRollingBack", "saveRollingBack")
\* rollbackErr: errors of this save are ignored.  Recovery stops here.
SaveRollbackFailed ==
    LET next == IF job = "publish" THEN "cleanup" ELSE "finish"
    IN  Enter("saveRollbackFailed", "rollback_failed", next, next)

Finish == /\ pc = "finish" /\ Release
          /\ UNCHANGED <<disk, service, budget>>

\* manualRollbackHandler: only the active deployment, only while its files are
\* unmodified and its backups verify.
ManualRollback(d) ==
    /\ pc = "idle" /\ ~Blocked
    /\ journal[d].status = "succeeded" /\ journal[d].backupComplete
    /\ active.id = d /\ d \notin corrupt
    /\ \A p \in Listed(active.files) : live[p] = active.files[p]
    /\ LET record == [journal[d] EXCEPT !.status = "rolling_back", !.manual = TRUE]
           accepted == [Swept EXCEPT ![d] = record]
       IN  \/ /\ journal' = accepted /\ NoFault
              /\ pc' = "saveRollingBack" /\ cur' = d /\ job' = "rollback" /\ mem' = record
              /\ UNCHANGED <<hot, loop>>
           \/ journal' \in {Swept, accepted} /\ Fault /\ UNCHANGED worker
    /\ UNCHANGED <<effective, staged, corrupt, active, live, service>>

-----------------------------------------------------------------------------
(* Retention.                                                              *)

CompletedOnDisk_OrReady ==
    {d \in Deployment : journal[d].status \in Completed \cup {"ready"}}
CompletedOnDisk == {d \in Deployment : journal[d].status \in Completed}

\* cleanupDeployments: drop the payloads of completed deployments, and all but
\* KeepCompleted of their directories, never the current or the active one.
\* Which ones are recent is abstracted: RFC3339Nano strings do not sort by time.
Cleanup ==
    /\ pc = "cleanup"
    /\ LET others == CompletedOnDisk \ {cur, active.id}
       IN  \E kept \in SUBSET others :
             /\ \/ Cardinality(kept) = KeepCompleted
                \/ kept = others /\ Cardinality(others) < KeepCompleted
             /\ scan' = others \ kept
    /\ staged' = staged \ CompletedOnDisk
    /\ Goto("prune")
    /\ UNCHANGED <<journal, effective, corrupt, active, live, service, mem, hot, done, budget>>

\* os.RemoveAll removes the entries of a directory in an unspecified order;
\* stopping halfway leaves state.json without backups, or the reverse, or an
\* empty directory.
PruneDirectory(d) ==
    /\ pc = "prune" /\ d \in scan /\ Goto("prune")
    /\ \/ /\ \/ /\ journal' = [journal EXCEPT ![d] = Blank("absent")]
                /\ scan' = scan \ {d}
             \/ /\ journal' = [journal EXCEPT ![d] = Blank("unstarted")]
                /\ UNCHANGED scan
          /\ effective' = [effective EXCEPT ![d] = NoFiles]
          /\ staged' = staged \ {d} /\ corrupt' = corrupt \ {d} /\ NoFault
       \/ /\ journal[d].status \in Completed
          /\ journal' = [journal EXCEPT ![d] = Blank("remnant")]
          /\ UNCHANGED <<effective, staged, corrupt, scan, budget>>
       \/ /\ journal[d].backupComplete /\ corrupt' = corrupt \cup {d}
          /\ UNCHANGED <<journal, effective, staged, scan, budget>>
       \/ /\ scan' = scan \ {d} /\ Fault
          /\ UNCHANGED <<journal, effective, staged, corrupt>>
    /\ UNCHANGED <<active, live, service, mem, hot, done>>

PruneDone == /\ pc = "prune" /\ scan = {} /\ Release
             /\ UNCHANGED <<disk, service, budget>>

\* CleanupDisk, every ten minutes: payloads only.
CleanupDisk ==
    /\ pc = "idle"
    /\ staged' = staged \ CompletedOnDisk
    /\ UNCHANGED <<journal, effective, corrupt, active, live, service, worker, budget>>

-----------------------------------------------------------------------------
(* RecoverDeployments(cfg, true), run by the operator with                 *)
(* -recover-and-exit; a starting Agent only inspects the journals.         *)

InDoubt_NotFailed ==
    {d \in Deployment :
       journal[d].status \notin Completed \cup {"absent", "ready", "rollback_failed"}}
InDoubt == {d \in Deployment :
              journal[d].status \notin Completed \cup {"absent", "ready"}}

Recover ==
    /\ pc = "idle"
    /\ InDoubt # {} /\ scan' = InDoubt
    /\ pc' = "recover" /\ job' = "recover"
    /\ UNCHANGED <<disk, service, cur, mem, hot, done, budget>>

RecoverNext(d) ==
    /\ pc = "recover" /\ d \in scan
    /\ UNCHANGED <<effective, staged, corrupt, active, live, service>>
    /\ \/ /\ journal[d].status = "unstarted"
          /\ journal' = [journal EXCEPT ![d] = Blank("absent")]
          /\ scan' = scan \ {d} /\ NoFault
          /\ UNCHANGED <<pc, cur, job, mem, hot, done>>
       \/ /\ journal[d].status = "remnant"
          /\ Release /\ NoFault /\ UNCHANGED journal
       \/ /\ journal[d].status \in Unresolved
          /\ pc' = IF journal[d].status = "recovery_pending"
                     THEN "recoverStart" ELSE "saveRollingBack"
          /\ cur' = d /\ mem' = journal[d]
          /\ scan' = scan \ {d} /\ NoFault
          /\ UNCHANGED <<journal, job, hot, done>>
       \/ /\ journal[d].status \in {"receiving", "verifying"}
          /\ LET failed == [journal EXCEPT ![d].status = "failed"]
             IN  \/ /\ journal' = failed /\ scan' = scan \ {d} /\ NoFault
                    /\ UNCHANGED <<pc, cur, job, mem, hot, done>>
                 \/ journal' \in {journal, failed} /\ Fault /\ Release

RecoverDone == /\ pc = "recover" /\ scan = {} /\ Release
               /\ UNCHANGED <<disk, service, budget>>

\* The files of a recovery_pending journal are restored already; a failing
\* start is left to the health check.
RecoverStart ==
    /\ pc = "recoverStart"
    /\ IF running
         THEN Goto("recoverCheck") /\ UNCHANGED <<disk, service, mem, hot, loop, budget>>
         ELSE StartService("recoverCheck", "recoverCheck")

RecoverCheck ==
    pc = "recoverCheck" /\ CheckHealth("saveRecovered", "saveRollbackFailed")

SaveRecovered == Enter("saveRecovered", "rolled_back", "recover", "finish")

-----------------------------------------------------------------------------
(* Other users of the core and of the lock, and the environment.           *)

RestartService ==
    \/ running' = TRUE /\ core' = live
    \/ ServiceMayFail /\ running' \in BOOLEAN /\ core' \in {core, live}

\* RestartHandler: refused while a journal is unresolved.
Restart ==
    /\ pc = "idle" /\ ~Blocked /\ RestartService
    /\ journal' = Swept
    /\ UNCHANGED <<effective, staged, corrupt, active, live, worker, budget>>

\* The watchdog takes the lock, but looks at no journal: a running core that
\* stopped answering is restarted.
WatchdogRestart ==
    /\ pc = "idle" /\ running /\ RestartService
    /\ UNCHANGED <<disk, worker, budget>>

\* The running core refreshes one of its provider files.
CoreEdit(p) ==
    /\ running /\ live[p] \notin {Missing, Edited}
    /\ edits < MaxEdits /\ edits' = edits + 1
    /\ live' = [live EXCEPT ![p] = Edited]
    /\ UNCHANGED <<journal, effective, staged, corrupt, active, service, worker, faults, crashes>>

BackupRots(d) ==
    /\ pc = "idle" /\ journal[d].backupComplete /\ d \notin corrupt
    /\ corrupt' = corrupt \cup {d}
    /\ UNCHANGED <<journal, effective, staged, active, live, service, worker, budget>>

\* The lock holder dies: alone, or with its host, whose service manager starts
\* the core from whatever the directory holds, or does not.
Crash ==
    /\ pc # "idle" /\ crashes < MaxCrashes /\ crashes' = crashes + 1
    /\ Release
    /\ \/ UNCHANGED service
       \/ running' = FALSE /\ UNCHANGED core
       \/ running' = TRUE /\ core' = live
    /\ UNCHANGED <<disk, faults, edits>>

-----------------------------------------------------------------------------
Staging == SaveReceiving \/ Abandon \/ Receive \/ SaveVerifying \/ Prepare
             \/ SaveReady \/ Reverify
Activation ==
    \/ Precheck \/ SaveStopping \/ Stop \/ SaveBackingUp \/ BackupDone
    \/ SaveReplacing \/ ReplaceDone \/ SaveReloading \/ Reload
    \/ SaveStarting \/ Start \/ SaveChecking \/ Check \/ WriteActive
    \/ SaveSucceeded \/ SaveFailed
    \/ \E p \in Path : BackupFile(p) \/ ReplaceFile(p)
Rollback ==
    \/ SaveRollingBack \/ RollbackStop \/ VerifyBackups \/ RestoreActive
    \/ RollbackStart \/ RollbackCheck \/ SaveRolledBack \/ SaveRollbackFailed
    \/ Finish
    \/ \E p \in Path : RestoreFile(p)
Retention == Cleanup \/ PruneDone \/ \E d \in Deployment : PruneDirectory(d)
Recovery == RecoverDone \/ RecoverStart \/ RecoverCheck \/ SaveRecovered
              \/ \E d \in Deployment : RecoverNext(d)
WorkerStep == Staging \/ Activation \/ Rollback \/ Retention \/ Recovery

Request ==
    \/ Recover \/ Restart \/ WatchdogRestart \/ CleanupDisk
    \/ \E d \in Deployment : Upload(d) \/ Activate(d) \/ ManualRollback(d)
                               \/ DiscardUnstarted(d)
Environment == Crash \/ (\E p \in ProviderPath : CoreEdit(p))
                 \/ \E d \in Corruptible : BackupRots(d)

Next == WorkerStep \/ Request \/ Environment
Spec == Init /\ [][Next]_vars

-----------------------------------------------------------------------------
(* -------------------- what the engine promises -------------------- *)

\* The lock holder's steps, in the order of the code.
Label ==
    {"idle", "saveReceiving", "abandon", "receive", "saveVerifying", "prepare",
     "saveReady", "reverify", "precheck", "saveStopping", "stop",
     "saveBackingUp", "backup", "saveReplacing", "replace", "saveReloading",
     "reload", "saveStarting", "start", "saveChecking", "check", "writeActive",
     "saveSucceeded", "saveFailed", "cleanup", "prune", "saveRollingBack",
     "rollbackStop", "verifyBackups", "restore", "rollbackStart",
     "rollbackCheck", "saveRolledBack", "saveRollbackFailed", "finish",
     "recover", "recoverStart", "recoverCheck", "saveRecovered"}

\* Type invariant of the engine's durable, in-memory and external state.
TypeOK ==
    /\ journal \in [Deployment -> Journal]
    /\ effective \in [Deployment -> [Path -> FileState]]
    /\ staged \subseteq Deployment /\ corrupt \subseteq Deployment
    /\ active \in Manifest
    /\ live \in [Path -> FileState]
    /\ running \in BOOLEAN /\ core \in [Path -> FileState]
    /\ pc \in Label
    /\ cur \in Deployment \cup {NoDeployment}
    /\ job \in {"none", "publish", "rollback", "recover"}
    /\ mem \in Journal
    /\ hot \in BOOLEAN
    /\ done \subseteq Path /\ scan \subseteq Deployment
    /\ faults \in 0 .. MaxFaults /\ edits \in 0 .. MaxEdits
    /\ crashes \in 0 .. MaxCrashes

-----------------------------------------------------------------------------
\* At most one transaction is ever unresolved.  RecoverDeployments rolls the
\* journals back in directory order: two overlapping ones would restore each
\* other's files.
AtMostOneUnresolved ==
    \A d, e \in Deployment : IsUnresolved(d) /\ IsUnresolved(e) => d = e

\* The header of deployment.go: nothing in the live directory changes before
\* the backup is durable.  Every change but the core's own is covered, path by
\* path, by the backups of a journal that a crash would leave to recovery.
LiveWritesAreJournaled ==
    [][\A p \in Path : live'[p] # live[p] =>
         \/ live'[p] = Edited /\ p \in ProviderPath
         \/ \E d \in Deployment : /\ IsUnresolved(d) /\ journal[d].backupComplete
                                  /\ journal[d].backups[p] # Unsaved]_live

RollbackSteps == {"rollbackStop", "verifyBackups", "restore", "rollbackStart",
                  "rollbackCheck", "saveRolledBack"}

\* rollbackDeployment persists its intent first, so that an interrupted
\* rollback is retried: while it runs, the journal is one recovery picks up.
RollbackIntentDurable == pc \in RollbackSteps => IsUnresolved(cur)

\* Once nothing is unresolved, the directory is the one its active manifest
\* describes: whatever failed or crashed, no half-installed file is left.
LiveMatchesActive ==
    (\A d \in Deployment : ~IsUnresolved(d)) =>
        \A p \in Listed(active.files) :
            live[p] = active.files[p] \/ (live[p] = Edited /\ p \in ProviderPath)

\* A success is recorded only for a running core that has loaded exactly the
\* files the deployment installed, through a reload or through a restart.
SuccessIsServed ==
    [][\A d \in Deployment :
         journal[d].status # "succeeded" /\ journal'[d].status = "succeeded" =>
           /\ running
           /\ \A p \in Listed(effective[d]) \ ProviderPath : core[p] = effective[d][p]]_journal

\* A rolled-back journal means the core runs if and only if it ran before the
\* deployment (the state table of docs/DEPLOYMENT.md).
RunStateRestored ==
    [][\A d \in Deployment :
         journal[d].status # "rolled_back" /\ journal'[d].status = "rolled_back" =>
           running = journal'[d].wasRunning]_journal

\* Retention never removes a candidate that may still be activated, a journal
\* that recovery needs, or the active deployment's, and keeps the files a
\* candidate needs.
RetentionIsSafe ==
    [][\A d \in Deployment :
         /\ \/ journal[d].status \in Unresolved \cup {"ready"}
            \/ journal[d].status \in Completed /\ active.id = d
            => journal'[d].status \notin {"absent", "unstarted", "remnant"}
         /\ journal[d].status = "ready" /\ d \in staged => d \in staged']_<<journal, staged>>

\* A reload-only deployment never stops a running core to apply its candidate;
\* only the rollback of a failed reload may.
ReloadOnlyNeverStops ==
    [][running /\ ~running' /\ cur \in ReloadOnly /\ pc' # "idle" =>
         mem.status = "rolling_back"]_running

\* While a transaction awaits recovery, nothing but a recovery makes the core
\* load the directory: it may hold half of a deployment.
UnresolvedFreezesCore ==
    [][pc = "idle" /\ pc' = "idle" /\ (\E d \in Deployment : IsUnresolved(d)) =>
         UNCHANGED service]_service

-----------------------------------------------------------------------------
(* The refinement.  Until it is resolved, a transaction counts for what its *)
(* recovery would restore.  Files the core rewrites are outside the         *)
(* promise.                                                                 *)

StablePath == Path \ ProviderPath
OnStable(files) == [p \in StablePath |-> files[p]]
Pending == {d \in Deployment : IsUnresolved(d) /\ journal[d].backupComplete}
ManifestOnStable(m) == [id |-> m.id, files |-> OnStable(m.files)]

AbstractInstalled ==
    [p \in StablePath |->
       IF \E d \in Pending : journal[d].backups[p] # Unsaved
         THEN journal[CHOOSE d \in Pending : journal[d].backups[p] # Unsaved].backups[p]
         ELSE live[p]]
AbstractManifest ==
    ManifestOnStable(IF Pending = {} THEN active
                     ELSE journal[CHOOSE d \in Pending : TRUE].previous)
AbstractUndo ==
    [d \in Deployment |->
       IF journal[d].status = "succeeded"
         THEN [files |-> OnStable(journal[d].backups),
               previous |-> ManifestOnStable(journal[d].previous)]
         ELSE [files |-> [p \in StablePath |-> Unsaved],
               previous |-> ManifestOnStable(NoManifest)]]

Atomic == INSTANCE AtomicConfig WITH
            Path <- StablePath, GeoPath <- GeoPath \ ProviderPath,
            installed <- AbstractInstalled, manifest <- AbstractManifest,
            undo <- AbstractUndo

\* The engine implements AtomicConfig: observed through its recovery, a
\* deployment installs all of its files or none, at one instant.
ImplementsAtomicConfig == Atomic!Spec

-----------------------------------------------------------------------------
(* Liveness.                                                               *)

\* The goroutine that holds the lock runs on unless its process dies.
LiveSpec == Spec /\ WF_vars(WorkerStep)

\* Every operation ends and releases the lock.
LockIsReleased == pc # "idle" ~> pc = "idle"

\* The operator repeats -recover-and-exit, which eventually gets the lock.
RecoverySpec == LiveSpec /\ SF_vars(Recover)

\* Then, with a core that starts, no transaction stays unresolved unless its
\* backups are damaged.
RecoveryConverges ==
    \A d \in Deployment : IsUnresolved(d) ~> ~IsUnresolved(d) \/ d \in corrupt

=============================================================================
