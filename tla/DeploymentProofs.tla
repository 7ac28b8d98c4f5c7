-------------------------- MODULE DeploymentProofs --------------------------
(***************************************************************************)
(* Theorems about the deployment engine, for any deployments, paths and    *)
(* bounds: its types, the one transaction that may be unresolved, and what *)
(* a deployment leaves behind - which configuration the core serves when a *)
(* success is recorded, whether it runs when a rollback is, and which      *)
(* files the directory holds.                                              *)
(*                                                                         *)
(* Three inductive invariants, one on top of the other, follow the types:  *)
(* Outcome holds however many file operations fail, Consistent as long as  *)
(* every rollback in progress is recorded, and Intent, which says that it  *)
(* is, for at most one failing operation.                                  *)
(***************************************************************************)
EXTENDS Deployment, TLAPS

\* Between requests, and between two journals of a recovery, the lock holder
\* works on no deployment.
Resting == {"idle", "recover"}

\* TypeOK is inductive only with the fact that a working lock holder has a
\* deployment to work on.
Typed == /\ TypeOK
         /\ pc \notin Resting => cur \in Deployment

-----------------------------------------------------------------------------
(* Types of the building blocks.                                           *)

LEMMA BlankType ==
    ASSUME NEW status \in Status
    PROVE  Blank(status) \in Journal
  BY DEF NoManifest, Manifest, NoFiles, FileState, Blank, Journal

LEMMA StatusType ==
    /\ Unresolved \subseteq Status /\ Completed \subseteq Status
    /\ {"absent", "unstarted", "remnant", "receiving", "verifying", "ready"} \subseteq Status
  BY DEF Unresolved, Completed, Status

LEMMA SweptType ==
    ASSUME journal \in [Deployment -> Journal]
    PROVE  Swept \in [Deployment -> Journal]
  BY BlankType, StatusType DEF Swept

\* Recording a journal record.
LEMMA SaveType ==
    ASSUME Typed, cur \in Deployment, NEW record \in Journal,
           NEW ok \in Label, NEW err \in Label,
           SaveDeployment(record, ok, err)
    PROVE  Typed'
  BY DeploymentAssumption DEF Typed, TypeOK, SaveDeployment, Goto, Fault, NoFault, budget, service, loop

LEMMA EnterType ==
    ASSUME Typed, NEW from, from \notin Resting, NEW status \in Status,
           NEW ok \in Label, NEW err \in Label,
           Enter(from, status, ok, err)
    PROVE  Typed'
  BY SaveType DEF Typed, TypeOK, Enter, Journal

LEMMA ReleaseType ==
    ASSUME Release, DeploymentAssumption
    PROVE  /\ pc' = "idle" /\ cur' = NoDeployment /\ job' = "none"
           /\ mem' \in Journal /\ hot' = FALSE /\ done' = {} /\ scan' = {}
  BY BlankType, StatusType DEF Release

LEMMA FaultType ==
    ASSUME TypeOK, Fault \/ NoFault
    PROVE  /\ faults' \in 0 .. MaxFaults /\ edits' \in 0 .. MaxEdits
           /\ crashes' \in 0 .. MaxCrashes
  BY DeploymentAssumption DEF TypeOK, Fault, NoFault, budget

-----------------------------------------------------------------------------
LEMMA TypedInit == Init => Typed
  <1> SUFFICES ASSUME Init PROVE Typed
    OBVIOUS
  <1>1. live \in [Path -> FileState]
    BY DEF Init, FileState, Content
  <1>2. \A d \in Deployment : LegacyJournal(d, live) \in Journal
    <2>1. Blank("recovery_pending") \in Journal
      BY BlankType, StatusType DEF Unresolved
    <2> TAKE d \in Deployment
    <2>2. [p \in Path |-> IF p \in Files[d] THEN live[p] ELSE Unsaved]
             \in [Path -> FileState \cup {Unsaved}]
      BY <1>1
    <2> QED
      BY <2>1, <2>2 DEF LegacyJournal, Journal
  <1>3. journal \in [Deployment -> Journal]
    BY <1>2, BlankType, StatusType DEF Init
  <1>4. active \in Manifest /\ NoFiles \in [Path -> FileState]
    BY DEF Init, NoManifest, NoFiles, Manifest, FileState
  <1>5. mem \in Journal
    BY BlankType, StatusType DEF Init
  <1>6. faults \in 0 .. MaxFaults /\ edits \in 0 .. MaxEdits /\ crashes \in 0 .. MaxCrashes
    BY DeploymentAssumption DEF Init
  <1>7. effective \in [Deployment -> [Path -> FileState]]
    BY <1>4 DEF Init
  <1>8. /\ pc \in Label /\ job \in {"none", "publish", "rollback", "recover"}
        /\ core \in [Path -> FileState] /\ running \in BOOLEAN /\ hot \in BOOLEAN
        /\ cur \in Deployment \cup {NoDeployment} /\ done \subseteq Path
        /\ staged \subseteq Deployment /\ corrupt \subseteq Deployment
        /\ scan \subseteq Deployment /\ pc \in Resting
    BY <1>1 DEF Init, Resting, Label
  <1> QED
    BY <1>1, <1>3, <1>4, <1>5, <1>6, <1>7, <1>8 DEF Typed, TypeOK

-----------------------------------------------------------------------------
(* Each operation preserves the types.                                     *)

LEMMA ServiceType ==
    ASSUME Typed, pc \notin Resting, NEW ok \in Label, NEW err \in Label,
           StopService(ok, err) \/ StartService(ok, err) \/ CheckHealth(ok, err)
    PROVE  Typed'
  BY DEF Typed, TypeOK, StopService, StartService, CheckHealth, Goto, service, disk, loop, budget

LEMMA StagingTyped ==
    ASSUME Typed, Staging
    PROVE  Typed'
  <1>1. CASE SaveReceiving
    BY <1>1, EnterType, StatusType DEF SaveReceiving, Resting, Label
  <1>2. CASE Abandon
    BY <1>2, BlankType, StatusType, ReleaseType, DeploymentAssumption DEF Abandon, Typed, TypeOK, Label, Resting,
       service, budget
  <1>3. CASE Receive
    BY <1>3 DEF Receive, Typed, TypeOK, Resting, Goto, Label, service, loop, budget
  <1>4. CASE SaveVerifying
    BY <1>4, EnterType, StatusType DEF SaveVerifying, Resting, Label
  <1>5. CASE Prepare
    <2>1. \A d \in Deployment :
             [p \in Path |-> IF p \in Files[d] THEN d ELSE Missing] \in [Path -> FileState]
      BY DEF FileState, Content
    <2> QED
      BY <1>5, <2>1
      DEF Prepare, Goto, Typed, TypeOK, Label, Resting, service, loop, budget
  <1>6. CASE SaveReady
    <2>1. cur \in Deployment /\ [mem EXCEPT !.status = "ready"] \in Journal
      BY <1>6, StatusType DEF SaveReady, Typed, TypeOK, Resting, Journal
    <2>2. journal' \in [Deployment -> Journal] /\ mem' \in Journal
      BY <1>6, <2>1, BlankType, StatusType
      DEF SaveReady, Typed, TypeOK, Release
    <2>3. /\ pc' \in Label /\ (pc' \notin Resting => cur' = cur)
          /\ cur' \in {cur, NoDeployment} /\ job' \in {job, "none"}
          /\ hot' \in BOOLEAN /\ done' \subseteq Path /\ scan' \subseteq Deployment
      BY <1>6 DEF SaveReady, Typed, TypeOK, Release, Goto, Label, Resting, loop
    <2>4. /\ faults' \in 0 .. MaxFaults /\ edits' \in 0 .. MaxEdits
          /\ crashes' \in 0 .. MaxCrashes
      BY <1>6, FaultType DEF SaveReady, Typed
    <2> QED
      BY <1>6, <2>1, <2>2, <2>3, <2>4 DEF SaveReady, Typed, TypeOK, service
  <1>7. CASE Reverify
    <2>1. cur \in Deployment
      BY <1>7 DEF Reverify, Typed, Resting
    <2>2. [journal EXCEPT ![cur].status = "failed"] \in [Deployment -> Journal]
      BY <2>1, StatusType DEF Typed, TypeOK, Journal, Completed
    <2>3. /\ journal' \in [Deployment -> Journal] /\ mem' \in Journal
          /\ pc' \in Label /\ cur' \in Deployment \cup {NoDeployment}
          /\ (pc' \notin Resting => cur' \in Deployment)
          /\ job' \in {job, "none"} /\ hot' \in BOOLEAN
          /\ done' \subseteq Path /\ scan' \subseteq Deployment
      BY <1>7, <2>1, <2>2, ReleaseType, DeploymentAssumption
      DEF Reverify, Goto, Typed, TypeOK, Label, Resting, loop
    <2>4. /\ faults' \in 0 .. MaxFaults /\ edits' \in 0 .. MaxEdits
          /\ crashes' \in 0 .. MaxCrashes
      BY <1>7, FaultType DEF Reverify, Typed, TypeOK
    <2> QED
      BY <1>7, <2>3, <2>4 DEF Reverify, Typed, TypeOK, service
  <1> QED
    BY <1>1, <1>2, <1>3, <1>4, <1>5, <1>6, <1>7 DEF Staging

LEMMA ActivationTyped ==
    ASSUME Typed, Activation
    PROVE  Typed'
  <1>1. CASE Precheck
    <2>1. cur \in Deployment
      BY <1>1 DEF Precheck, Typed, Resting
    <2>2. WithCarried \in [Path -> FileState]
      BY <2>1 DEF WithCarried, Typed, TypeOK
    <2>3. effective' \in [Deployment -> [Path -> FileState]]
      BY <1>1, <2>1, <2>2 DEF Precheck, Typed, TypeOK
    <2>4. mem' \in Journal /\ hot' \in BOOLEAN
      BY <1>1 DEF Precheck, Typed, TypeOK, Journal
    <2>5. pc' \in Label /\ UNCHANGED <<cur, job>>
      BY <1>1 DEF Precheck, Goto, Label
    <2> QED
      BY <1>1, <2>1, <2>3, <2>4, <2>5
      DEF Precheck, Typed, TypeOK, service, loop, budget
  <1>2. CASE SaveStopping
    BY <1>2, EnterType, StatusType DEF SaveStopping, Resting, Label, Unresolved
  <1>3. CASE Stop
    BY <1>3, ServiceType DEF Stop, Resting, Label
  <1>4. CASE SaveBackingUp
    BY <1>4, EnterType, StatusType
    DEF SaveBackingUp, Resting, Label, Unresolved, FailUnchanged
  <1>5. CASE BackupDone
    <2>1. /\ cur \in Deployment /\ [mem EXCEPT !.backupComplete = TRUE] \in Journal
          /\ "saveReplacing" \in Label /\ FailUnchanged \in Label
      BY <1>5 DEF BackupDone, Typed, TypeOK, Resting, Journal, Label, FailUnchanged
    <2> QED
      BY <1>5, <2>1, SaveType DEF BackupDone
  <1>6. CASE SaveReplacing
    BY <1>6, EnterType, StatusType
    DEF SaveReplacing, Resting, Label, Unresolved, FailUnchanged
  <1>7. CASE ReplaceDone
    BY <1>7 DEF ReplaceDone, Goto, Typed, TypeOK, Resting, Label, disk, service, budget
  <1>8. CASE SaveReloading
    BY <1>8, EnterType, StatusType DEF SaveReloading, Resting, Label, Unresolved
  <1>9. CASE Reload
    BY <1>9 DEF Reload, ReloadFailed, Typed, TypeOK, Resting, Goto, Label, disk, loop, budget
  <1>10. CASE SaveStarting
    BY <1>10, EnterType, StatusType DEF SaveStarting, Resting, Label, Unresolved
  <1>11. CASE Start
    BY <1>11, ServiceType DEF Start, Resting, Label
  <1>12. CASE SaveChecking
    BY <1>12, EnterType, StatusType DEF SaveChecking, Resting, Label, Unresolved
  <1>13. CASE Check
    BY <1>13, ServiceType DEF Check, Resting, Label
  <1>14. CASE WriteActive
    BY <1>14, FaultType DEF WriteActive, Typed, TypeOK, Resting, Manifest, Goto, Label, service, loop
  <1>15. CASE SaveSucceeded
    BY <1>15, EnterType, StatusType DEF SaveSucceeded, Resting, Label, Completed
  <1>16. CASE SaveFailed
    BY <1>16, EnterType, StatusType DEF SaveFailed, Resting, Label, Completed
  <1>17. ASSUME NEW p \in Path, BackupFile(p)
         PROVE  Typed'
    <2>1. cur \in Deployment
      BY <1>17 DEF BackupFile, Typed, Resting
    <2>4. mem \in Journal /\ live[p] \in FileState
      BY DEF Typed, TypeOK
    <2>5. [mem EXCEPT !.backups[p] = live[p]] \in Journal
      BY <2>4 DEF Journal
    <2>2. mem' \in Journal
      BY <1>17, <2>4, <2>5 DEF BackupFile
    <2>3. pc' \in Label /\ UNCHANGED <<cur, job>>
      BY <1>17 DEF BackupFile, Goto, Label, FailUnchanged
    <2> QED
      BY <1>17, <2>1, <2>2, <2>3, FaultType
      DEF BackupFile, Typed, TypeOK, disk, service, loop
  <1>18. ASSUME NEW p \in Path, ReplaceFile(p)
         PROVE  Typed'
    BY <1>18, FaultType DEF ReplaceFile, Typed, Resting, TypeOK, Goto, Label, service
  <1> QED
    BY <1>1, <1>2, <1>3, <1>4, <1>5, <1>6, <1>7, <1>8, <1>9, <1>10, <1>11, <1>12,
       <1>13, <1>14, <1>15, <1>16, <1>17, <1>18 DEF Activation

LEMMA RollbackTyped ==
    ASSUME Typed, Rollback
    PROVE  Typed'
  <1>1. CASE SaveRollingBack
    BY <1>1, EnterType, StatusType DEF SaveRollingBack, Resting, Label, Unresolved
  <1>2. CASE RollbackStop
    BY <1>2, ServiceType DEF RollbackStop, Resting, Label
  <1>3. CASE VerifyBackups
    BY <1>3 DEF VerifyBackups, Goto, Typed, TypeOK, Resting, Label,
                disk, service, loop, budget
  <1>4. CASE RestoreActive
    BY <1>4, FaultType DEF RestoreActive, Typed, TypeOK, Resting, Journal, Goto, Label, service
  <1>5. CASE RollbackStart
    <2>1. CASE mem.wasRunning
      BY <1>5, <2>1, ServiceType DEF RollbackStart, Resting, Label
    <2>2. CASE ~mem.wasRunning
      BY <1>5, <2>2 DEF RollbackStart, Goto, Typed, TypeOK, Resting, Label,
                        disk, service, loop, budget
    <2> QED
      BY <2>1, <2>2
  <1>6. CASE RollbackCheck
    BY <1>6, ServiceType DEF RollbackCheck, Resting, Label
  <1>7. CASE SaveRolledBack
    BY <1>7, EnterType, StatusType DEF SaveRolledBack, Resting, Label, Completed
  <1>8. CASE SaveRollbackFailed
    BY <1>8, EnterType, StatusType DEF SaveRollbackFailed, Resting, Label, Unresolved
  <1>9. CASE Finish
    <2>1. "idle" \in Label \cap Resting
      BY DEF Label, Resting
    <2> QED
      BY <1>9, <2>1, ReleaseType, DeploymentAssumption
      DEF Finish, Typed, TypeOK, disk, service, budget
  <1>10. ASSUME NEW p \in Path, RestoreFile(p)
         PROVE  Typed'
    BY <1>10, FaultType DEF RestoreFile, Typed, Resting, TypeOK, Journal, BackedUp, Goto, Label, service
  <1> QED
    BY <1>1, <1>2, <1>3, <1>4, <1>5, <1>6, <1>7, <1>8, <1>9, <1>10 DEF Rollback

LEMMA RetentionTyped ==
    ASSUME Typed, Retention
    PROVE  Typed'
  <1>1. CASE Cleanup
    BY <1>1 DEF Cleanup, Typed, Resting, CompletedOnDisk, TypeOK, Goto, Label, service, budget
  <1>2. CASE PruneDone
    <2>1. "idle" \in Label \cap Resting
      BY DEF Label, Resting
    <2> QED
      BY <1>2, <2>1, ReleaseType, DeploymentAssumption
      DEF PruneDone, Typed, TypeOK, disk, service, budget
  <1>3. ASSUME NEW d \in Deployment, PruneDirectory(d)
        PROVE  Typed'
    BY <1>3, BlankType, StatusType, FaultType DEF PruneDirectory, Typed, Resting, TypeOK, NoFiles, FileState, Goto,
       Label, budget, service
  <1> QED
    BY <1>1, <1>2, <1>3 DEF Retention

LEMMA RecoveryTyped ==
    ASSUME Typed, Recovery
    PROVE  Typed'
  <1>1. CASE RecoverDone
    <2>1. "idle" \in Label \cap Resting
      BY DEF Label, Resting
    <2> QED
      BY <1>1, <2>1, ReleaseType, DeploymentAssumption
      DEF RecoverDone, Typed, TypeOK, disk, service, budget
  <1>2. CASE RecoverStart
    <2>1. CASE running
      BY <1>2, <2>1 DEF RecoverStart, Goto, Typed, TypeOK, Resting, Label,
                        disk, service, loop, budget
    <2>2. CASE ~running
      BY <1>2, <2>2, ServiceType DEF RecoverStart, Resting, Label
    <2> QED
      BY <2>1, <2>2
  <1>3. CASE RecoverCheck
    BY <1>3, ServiceType DEF RecoverCheck, Resting, Label
  <1>4. CASE SaveRecovered
    BY <1>4, EnterType, StatusType DEF SaveRecovered, Resting, Label, Completed
  <1>5. ASSUME NEW d \in Deployment, RecoverNext(d)
        PROVE  Typed'
    <2>1. [journal EXCEPT ![d].status = "failed"] \in [Deployment -> Journal]
      BY StatusType DEF Typed, TypeOK, Journal, Completed
    <2>2. journal' \in [Deployment -> Journal]
      BY <1>5, <2>1, BlankType, StatusType DEF RecoverNext, Typed, TypeOK
    <2>3. mem' \in Journal
      <3>1. CASE Release
        BY <3>1, ReleaseType, DeploymentAssumption
      <3>2. CASE mem' \in {mem, journal[d]}
        BY <3>2 DEF Typed, TypeOK
      <3> QED
        BY <1>5, <3>1, <3>2 DEF RecoverNext
    <2>4. /\ pc' \in Label /\ cur' \in Deployment \cup {NoDeployment}
          /\ (pc' \notin Resting => cur' \in Deployment)
      BY <1>5, ReleaseType, DeploymentAssumption
      DEF RecoverNext, Typed, TypeOK, Label, Resting
    <2>5. /\ job' \in {job, "none"} /\ hot' \in BOOLEAN
          /\ done' \subseteq Path /\ scan' \subseteq Deployment
      BY <1>5, ReleaseType, DeploymentAssumption DEF RecoverNext, Typed, TypeOK
    <2>6. /\ faults' \in 0 .. MaxFaults /\ edits' \in 0 .. MaxEdits
          /\ crashes' \in 0 .. MaxCrashes
      BY <1>5, FaultType DEF RecoverNext, Typed
    <2> QED
      BY <1>5, <2>2, <2>3, <2>4, <2>5, <2>6
      DEF RecoverNext, Typed, TypeOK, service
  <1> QED
    BY <1>1, <1>2, <1>3, <1>4, <1>5 DEF Recovery

LEMMA RequestTyped ==
    ASSUME Typed, Request
    PROVE  Typed'
  <1>1. CASE Recover
    BY <1>1 DEF Recover, InDoubt, Typed, TypeOK, Resting, Label, disk, service, budget
  <1>2. CASE Restart
    BY <1>2, SweptType DEF Restart, RestartService, Typed, TypeOK, worker, budget
  <1>3. CASE WatchdogRestart
    BY <1>3 DEF WatchdogRestart, RestartService, Typed, TypeOK, disk, worker, budget
  <1>4. CASE CleanupDisk
    BY <1>4 DEF CleanupDisk, Typed, TypeOK, service, worker, budget
  <1>5. ASSUME NEW d \in Deployment, Upload(d)
        PROVE  Typed'
    BY SweptType, BlankType, StatusType, <1>5 DEF Typed, TypeOK, Upload, Label, service, loop, budget
  <1>6. ASSUME NEW d \in Deployment, NEW status \in Status, NEW manual \in BOOLEAN,
               NEW label \in Label, NEW reason \in {"publish", "rollback"},
               NEW record, NEW accepted,
               record = [journal[d] EXCEPT !.status = status, !.manual = manual],
               accepted = [Swept EXCEPT ![d] = record],
               \/ /\ journal' = accepted /\ NoFault
                  /\ pc' = label /\ cur' = d /\ job' = reason /\ mem' = record
                  /\ UNCHANGED <<hot, loop>>
               \/ journal' \in {Swept, accepted} /\ Fault /\ UNCHANGED worker,
               UNCHANGED <<effective, staged, corrupt, active, live, service>>
        PROVE  Typed'
    <2>1. Swept \in [Deployment -> Journal] /\ record \in Journal
      BY <1>6, SweptType DEF Typed, TypeOK, Journal
    <2>2. journal' \in [Deployment -> Journal] /\ mem' \in Journal
      BY <1>6, <2>1 DEF worker, Typed, TypeOK
    <2>3. /\ pc' \in Label /\ cur' \in Deployment \cup {NoDeployment}
          /\ (pc' \notin Resting => cur' \in Deployment)
          /\ job' \in {job, "publish", "rollback"} /\ UNCHANGED <<hot, loop>>
      BY <1>6 DEF worker, Typed, TypeOK, loop
    <2>4. /\ faults' \in 0 .. MaxFaults /\ edits' \in 0 .. MaxEdits
          /\ crashes' \in 0 .. MaxCrashes
      BY <1>6, FaultType DEF Typed
    <2> QED
      BY <1>6, <2>2, <2>3, <2>4 DEF Typed, TypeOK, service, loop
  <1>7. ASSUME NEW d \in Deployment, Activate(d)
        PROVE  Typed'
    <2> DEFINE record == [journal[d] EXCEPT !.status = "verifying",
                                            !.manual = journal[d].manual]
               accepted == [Swept EXCEPT ![d] = record]
    <2>1. [journal[d] EXCEPT !.status = "verifying"] = record
      BY DEF Typed, TypeOK, Journal
    <2>2. /\ \/ /\ journal' = accepted /\ NoFault
                /\ pc' = "reverify" /\ cur' = d /\ job' = "publish" /\ mem' = record
                /\ UNCHANGED <<hot, loop>>
             \/ journal' \in {Swept, accepted} /\ Fault /\ UNCHANGED worker
          /\ UNCHANGED <<effective, staged, corrupt, active, live, service>>
      BY <1>7, <2>1 DEF Activate
    <2>3. journal[d].manual \in BOOLEAN /\ "verifying" \in Status /\ "reverify" \in Label
      BY StatusType DEF Typed, TypeOK, Journal, Label
    <2> HIDE DEF record, accepted
    <2> QED
      BY <1>6, <2>2, <2>3 DEF record, accepted
  <1>8. ASSUME NEW d \in Deployment, ManualRollback(d)
        PROVE  Typed'
    <2>1. "rolling_back" \in Status /\ "saveRollingBack" \in Label
      BY StatusType DEF Unresolved, Label
    <2> QED
      BY <1>6, <1>8, <2>1 DEF ManualRollback
  <1>9. ASSUME NEW d \in Deployment, DiscardUnstarted(d)
        PROVE  Typed'
    BY <1>9, BlankType, StatusType DEF DiscardUnstarted, Typed, TypeOK,
                                       service, worker, budget
  <1> QED
    BY <1>1, <1>2, <1>3, <1>4, <1>5, <1>7, <1>8, <1>9 DEF Request

LEMMA EnvironmentTyped ==
    ASSUME Typed, Environment
    PROVE  Typed'
  <1>1. CASE Crash
    <2>1. "idle" \in Label \cap Resting
      BY DEF Label, Resting
    <2>2. running' \in BOOLEAN /\ core' \in [Path -> FileState]
      BY <1>1 DEF Crash, Typed, TypeOK, service
    <2>3. crashes' \in 0 .. MaxCrashes
      BY <1>1, DeploymentAssumption DEF Crash, Typed, TypeOK
    <2> QED
      BY <1>1, <2>1, <2>2, <2>3, ReleaseType, DeploymentAssumption
      DEF Crash, Typed, TypeOK, disk
  <1>2. ASSUME NEW p \in ProviderPath, CoreEdit(p)
        PROVE  Typed'
    BY DeploymentAssumption, <1>2 DEF FileState, Content, CoreEdit, Typed, TypeOK, service, worker
  <1>3. ASSUME NEW d \in Corruptible, BackupRots(d)
        PROVE  Typed'
    BY <1>3, DeploymentAssumption
    DEF BackupRots, Typed, TypeOK, service, worker, budget
  <1> QED
    BY <1>1, <1>2, <1>3 DEF Environment

-----------------------------------------------------------------------------
LEMMA TypedStep == Typed /\ [Next]_vars => Typed'
  BY StagingTyped, ActivationTyped, RollbackTyped, RetentionTyped, RecoveryTyped, RequestTyped, EnvironmentTyped DEF
     WorkerStep, vars, disk, service, worker, budget, Typed, TypeOK, Next

LEMMA AlwaysTyped == Spec => []Typed
  BY TypedInit, TypedStep, PTL DEF Spec

\* Every variable keeps its type: the journals hold only records the code
\* writes, the lock holder stands at one of the code's steps, and the bounds
\* on faults, edits and crashes are respected.
THEOREM TypeCorrect == Spec => []TypeOK
  <1>1. Typed => TypeOK
    BY DEF Typed
  <1> QED
    BY AlwaysTyped, <1>1, PTL

-----------------------------------------------------------------------------
(* At most one transaction is unresolved.                                  *)

\* The induction needs to know which one: the lock holder's own.
UnresolvedIsCurrent ==
    /\ AtMostOneUnresolved
    /\ pc \notin Resting => \A d \in Deployment : IsUnresolved(d) => d = cur

\* A working lock holder makes no other transaction unresolved, and keeps to
\* its deployment until it rests.
OnlyCurrent ==
    /\ cur' = cur \/ pc' \in Resting
    /\ \A d \in Deployment : d # cur /\ journal'[d].status \in Unresolved =>
                               journal[d].status \in Unresolved

LEMMA OnlyCurrentSuffices ==
    ASSUME UnresolvedIsCurrent, pc \notin Resting, OnlyCurrent
    PROVE  UnresolvedIsCurrent'
  BY DEF UnresolvedIsCurrent, AtMostOneUnresolved, IsUnresolved, OnlyCurrent, Resting

LEMMA JournalUnchanged ==
    ASSUME UNCHANGED <<journal, cur>>
    PROVE  OnlyCurrent
  BY DEF OnlyCurrent

LEMMA SaveOnlyCurrent ==
    ASSUME Typed, NEW record, NEW ok, NEW err, SaveDeployment(record, ok, err)
    PROVE  OnlyCurrent
  BY DEF SaveDeployment, Goto, OnlyCurrent, Typed, TypeOK

LEMMA ServiceOnlyCurrent ==
    ASSUME NEW ok, NEW err,
           StopService(ok, err) \/ StartService(ok, err) \/ CheckHealth(ok, err)
    PROVE  OnlyCurrent
  BY DEF StopService, StartService, CheckHealth, Goto, disk, OnlyCurrent

LEMMA StagingOnlyCurrent ==
    ASSUME Typed, Staging
    PROVE  OnlyCurrent
  <1>1. CASE SaveReceiving \/ SaveVerifying
    BY <1>1, SaveOnlyCurrent DEF SaveReceiving, SaveVerifying, Enter
  <1>2. CASE Abandon
    BY <1>2 DEF Abandon, Release, OnlyCurrent, Resting, Typed, TypeOK
  <1>3. CASE Receive \/ Prepare
    BY <1>3 DEF Receive, Prepare, Goto, OnlyCurrent
  <1>4. CASE SaveReady
    BY <1>4 DEF SaveReady, Release, Goto, OnlyCurrent, Resting, Typed, TypeOK
  <1>5. CASE Reverify
    BY <1>5 DEF Reverify, Release, Goto, OnlyCurrent, Resting, Typed, TypeOK
  <1> QED
    BY <1>1, <1>2, <1>3, <1>4, <1>5 DEF Staging

LEMMA ActivationOnlyCurrent ==
    ASSUME Typed, Activation
    PROVE  OnlyCurrent
  <1>1. CASE \/ SaveStopping \/ SaveBackingUp \/ SaveReplacing \/ SaveReloading
             \/ SaveStarting \/ SaveChecking \/ SaveSucceeded \/ SaveFailed
    BY <1>1, SaveOnlyCurrent
    DEF SaveStopping, SaveBackingUp, SaveReplacing, SaveReloading, SaveStarting,
        SaveChecking, SaveSucceeded, SaveFailed, Enter
  <1>2. CASE BackupDone
    BY <1>2, SaveOnlyCurrent DEF BackupDone
  <1>3. CASE Stop \/ Start \/ Check
    BY <1>3, ServiceOnlyCurrent DEF Stop, Start, Check
  <1>4. CASE Precheck \/ ReplaceDone \/ Reload \/ WriteActive
    BY <1>4 DEF Precheck, ReplaceDone, Reload, ReloadFailed, WriteActive, Goto, disk, OnlyCurrent
  <1>5. CASE \E p \in Path : BackupFile(p) \/ ReplaceFile(p)
    BY <1>5 DEF BackupFile, ReplaceFile, Goto, disk, OnlyCurrent
  <1> QED
    BY <1>1, <1>2, <1>3, <1>4, <1>5 DEF Activation

LEMMA RollbackOnlyCurrent ==
    ASSUME Typed, Rollback
    PROVE  OnlyCurrent
  <1>1. CASE SaveRollingBack \/ SaveRolledBack \/ SaveRollbackFailed
    BY <1>1, SaveOnlyCurrent
    DEF SaveRollingBack, SaveRolledBack, SaveRollbackFailed, Enter
  <1>2. CASE RollbackStop \/ RollbackCheck
    BY <1>2, ServiceOnlyCurrent DEF RollbackStop, RollbackCheck
  <1>3. CASE RollbackStart
    BY <1>3, ServiceOnlyCurrent DEF RollbackStart, Goto, disk, OnlyCurrent
  <1>4. CASE VerifyBackups \/ RestoreActive \/ \E p \in Path : RestoreFile(p)
    BY <1>4 DEF VerifyBackups, RestoreActive, RestoreFile, Goto, disk, OnlyCurrent
  <1>5. CASE Finish
    BY <1>5 DEF Finish, Release, disk, OnlyCurrent, Resting
  <1> QED
    BY <1>1, <1>2, <1>3, <1>4, <1>5 DEF Rollback

LEMMA RetentionOnlyCurrent ==
    ASSUME Typed, Retention
    PROVE  OnlyCurrent
  <1>1. CASE Cleanup
    BY <1>1 DEF Cleanup, Goto, OnlyCurrent
  <1>2. CASE PruneDone
    BY <1>2 DEF PruneDone, Release, disk, OnlyCurrent, Resting
  <1>3. ASSUME NEW d \in Deployment, PruneDirectory(d)
        PROVE  OnlyCurrent
    BY <1>3 DEF Blank, Unresolved, PruneDirectory, Goto, OnlyCurrent, Typed, TypeOK
  <1> QED
    BY <1>1, <1>2, <1>3 DEF Retention

\* A recovery resolves the transactions one by one.
LEMMA RecoveryKeepsOne ==
    ASSUME Typed, UnresolvedIsCurrent, Recovery
    PROVE  UnresolvedIsCurrent'
  <1>1. CASE RecoverDone
    BY <1>1 DEF RecoverDone, Release, disk, UnresolvedIsCurrent,
                AtMostOneUnresolved, IsUnresolved, Resting
  <1>2. CASE RecoverStart \/ RecoverCheck
    BY <1>2, ServiceOnlyCurrent, OnlyCurrentSuffices DEF RecoverStart, RecoverCheck, Goto, disk, OnlyCurrent,
       Resting
  <1>3. CASE SaveRecovered
    <2>1. OnlyCurrent /\ pc \notin Resting
      BY <1>3, SaveOnlyCurrent DEF SaveRecovered, Enter, Resting
    <2> QED
      BY <2>1, OnlyCurrentSuffices
  <1>4. ASSUME NEW d \in Deployment, RecoverNext(d)
        PROVE  UnresolvedIsCurrent'
    <2>1. \A e \in Deployment : journal'[e].status \in Unresolved =>
                                  journal[e].status \in Unresolved
      <3>1. Blank("absent").status \notin Unresolved /\ "failed" \notin Unresolved
        BY DEF Blank, Unresolved
      <3>2. journal' \in {journal, [journal EXCEPT ![d] = Blank("absent")],
                          [journal EXCEPT ![d].status = "failed"]}
        BY <1>4 DEF RecoverNext
      <3>3. \A e \in Deployment :
               /\ [journal EXCEPT ![d] = Blank("absent")][e].status \in Unresolved =>
                    journal[e].status \in Unresolved
               /\ [journal EXCEPT ![d].status = "failed"][e].status \in Unresolved =>
                    journal[e].status \in Unresolved
        BY <3>1 DEF Typed, TypeOK, Journal
      <3> QED
        BY <3>2, <3>3
    <2>2. pc' \in Resting \/ (cur' = d /\ IsUnresolved(d))
      BY <1>4 DEF RecoverNext, Release, Resting, IsUnresolved
    <2> QED
      BY <2>1, <2>2 DEF UnresolvedIsCurrent, AtMostOneUnresolved, IsUnresolved
  <1> QED
    BY <1>1, <1>2, <1>3, <1>4 DEF Recovery

\* A request starts a transaction only when none is unresolved.
LEMMA RequestKeepsOne ==
    ASSUME Typed, UnresolvedIsCurrent, Request
    PROVE  UnresolvedIsCurrent'
  <1>1. \A d \in Deployment : Swept[d].status \in Unresolved =>
                                journal[d].status \in Unresolved
    BY DEF Swept, Blank, Unresolved
  <1>2. CASE Recover \/ Restart \/ WatchdogRestart \/ CleanupDisk
    BY <1>1, <1>2
    DEF Recover, Restart, WatchdogRestart, CleanupDisk, disk, worker,
        UnresolvedIsCurrent, AtMostOneUnresolved, IsUnresolved, Resting
  <1>3. ASSUME NEW d \in Deployment, Upload(d) \/ Activate(d) \/ ManualRollback(d)
        PROVE  UnresolvedIsCurrent'
    <2>1. \A e \in Deployment : journal[e].status \notin Unresolved
      BY <1>3 DEF Upload, Activate, ManualRollback, Blocked
    <2>2. \A e \in Deployment : e # d => journal'[e].status \notin Unresolved
      BY <1>1, <1>3, <2>1, SweptType
      DEF Upload, Activate, ManualRollback, Typed, TypeOK
    <2>3. cur' = d \/ pc' \in Resting
      BY <1>3 DEF Upload, Activate, ManualRollback, worker, Resting
    <2> QED
      BY <2>2, <2>3 DEF UnresolvedIsCurrent, AtMostOneUnresolved, IsUnresolved
  <1>4. ASSUME NEW d \in Deployment, DiscardUnstarted(d)
        PROVE  UnresolvedIsCurrent'
    BY <1>4 DEF Blank, Unresolved, DiscardUnstarted, worker, UnresolvedIsCurrent, AtMostOneUnresolved, IsUnresolved,
       Resting, Typed, TypeOK
  <1> QED
    BY <1>2, <1>3, <1>4 DEF Request

LEMMA UnresolvedIsCurrentInit == Init => UnresolvedIsCurrent
  <1>1. Blank("absent").status \notin Unresolved
    BY DEF Blank, Unresolved
  <1> QED
    BY <1>1, DeploymentAssumption
    DEF Init, UnresolvedIsCurrent, AtMostOneUnresolved, IsUnresolved, Resting

LEMMA UnresolvedIsCurrentStep ==
    Typed /\ UnresolvedIsCurrent /\ [Next]_vars => UnresolvedIsCurrent'
  <1> SUFFICES ASSUME Typed, UnresolvedIsCurrent, [Next]_vars
               PROVE  UnresolvedIsCurrent'
    OBVIOUS
  <1>1. CASE Staging \/ Activation \/ Rollback \/ Retention
    <2>1. OnlyCurrent
      BY <1>1, StagingOnlyCurrent, ActivationOnlyCurrent, RollbackOnlyCurrent,
         RetentionOnlyCurrent
    <2>2. pc \notin Resting
      <3>1. CASE Staging
        BY <3>1 DEF Staging, SaveReceiving, Abandon, Receive, SaveVerifying, Prepare,
                    SaveReady, Reverify, Enter, Resting
      <3>2. CASE Activation
        BY <3>2 DEF Activation, Precheck, SaveStopping, Stop, SaveBackingUp, BackupDone,
                    SaveReplacing, ReplaceDone, SaveReloading, Reload, SaveStarting,
                    Start, SaveChecking, Check, WriteActive, SaveSucceeded, SaveFailed,
                    BackupFile, ReplaceFile, Enter, Resting
      <3>3. CASE Rollback
        BY <3>3 DEF Rollback, SaveRollingBack, RollbackStop, VerifyBackups,
                    RestoreActive, RollbackStart, RollbackCheck, SaveRolledBack,
                    SaveRollbackFailed, Finish, RestoreFile, Enter, Resting
      <3>4. CASE Retention
        BY <3>4 DEF Retention, Cleanup, PruneDone, PruneDirectory, Resting
      <3> QED
        BY <1>1, <3>1, <3>2, <3>3, <3>4
    <2> QED
      BY <2>1, <2>2, OnlyCurrentSuffices
  <1>2. CASE Recovery
    BY <1>2, RecoveryKeepsOne
  <1>3. CASE Request
    BY <1>3, RequestKeepsOne
  <1>4. CASE Environment
    <2>1. UNCHANGED journal /\ (UNCHANGED <<pc, cur>> \/ pc' \in Resting)
      BY <1>4 DEF Environment, Crash, Release, CoreEdit, BackupRots, disk, worker, Resting
    <2> QED
      BY <2>1 DEF UnresolvedIsCurrent, AtMostOneUnresolved, IsUnresolved
  <1>5. CASE UNCHANGED vars
    BY <1>5 DEF vars, disk, worker, UnresolvedIsCurrent, AtMostOneUnresolved, IsUnresolved
  <1> QED
    BY <1>1, <1>2, <1>3, <1>4, <1>5 DEF Next, WorkerStep

\* Whatever fails or crashes, however often, a recovery never finds two
\* overlapping transactions to roll back.
THEOREM OneUnresolved == Spec => []AtMostOneUnresolved
  <1>1. UnresolvedIsCurrent => AtMostOneUnresolved
    BY DEF UnresolvedIsCurrent
  <1> QED
    BY AlwaysTyped, UnresolvedIsCurrentInit, UnresolvedIsCurrentStep, <1>1, PTL DEF Spec

-----------------------------------------------------------------------------
(* What a deployment leaves behind.                                        *)

\* image holds the listed contents, but for what the core wrote itself.
SameOrEdited(image, files, p) ==
    image[p] = files[p] \/ (image[p] = Edited /\ p \in ProviderPath)
Matches(image, files) == \A p \in Listed(files) : SameOrEdited(image, files, p)

-----------------------------------------------------------------------------
(* What saving a phase does.                                               *)

Entered(status, ok, err) ==
    /\ cur \in Deployment
    /\ UNCHANGED <<cur, job, effective, staged, corrupt, active, live,
                   running, core, hot, done, scan>>
    /\ mem'.status = status
    /\ mem'.backupComplete = mem.backupComplete
    /\ mem'.backups = mem.backups /\ mem'.previous = mem.previous
    /\ mem'.wasRunning = mem.wasRunning
    /\ \/ pc' = ok /\ journal'[cur] = mem' /\ NoFault
       \/ pc' = err /\ journal'[cur] \in {journal[cur], mem'} /\ Fault
    /\ \A d \in Deployment : d # cur => journal'[d] = journal[d]

LEMMA EnterFacts ==
    ASSUME Typed, NEW from, from \notin Resting, NEW status, NEW ok, NEW err,
           Enter(from, status, ok, err)
    PROVE  pc = from /\ Entered(status, ok, err)
  BY DEF Enter, SaveDeployment, Goto, Typed, TypeOK, Journal, service, loop, Entered

LEMMA BlankFacts ==
    ASSUME NEW status
    PROVE  /\ Blank(status).status = status
           /\ ~Blank(status).backupComplete
           /\ \A p \in Path : Blank(status).backups[p] = Unsaved
           /\ Blank(status).previous = NoManifest
  BY DEF Blank

-----------------------------------------------------------------------------
(* Outcome: what the core has loaded, and whether it runs.                 *)

\* The new files are in place and verified.
Installed == {"saveReloading", "reload", "saveStarting", "start", "saveChecking",
              "check", "writeActive"}
\* The core has been told to load them.
Loaded == {"saveChecking", "check", "writeActive", "saveSucceeded"}
\* A rollback has stopped the core.
Halted == {"verifyBackups", "restore", "rollbackStart"}
\* Nothing is backed up yet.
Unbacked == {"saveReceiving", "abandon", "receive", "saveVerifying", "prepare",
             "saveReady", "reverify", "precheck", "saveBackingUp", "backup"}
\* Stopping the core after the new files are in place: a reload failed.
LateStop == pc \in {"saveStopping", "stop"} /\ mem.backupComplete

InstalledMatches == pc \in Installed \/ LateStop => Matches(live, effective[cur])
LoadedIsServed ==
    pc \in Loaded =>
        \A p \in Listed(effective[cur]) \ ProviderPath : core[p] = effective[cur][p]
CheckedRuns == pc \in {"writeActive", "saveSucceeded"} => running
HaltedIsStopped == pc \in Halted => ~running
RestartedRan ==
    pc \in {"rollbackCheck", "recoverStart", "recoverCheck", "saveRecovered"} =>
        mem.wasRunning
RestoredRuns == pc \in {"saveRolledBack", "saveRecovered"} => running = mem.wasRunning
LegacyRan ==
    \A d \in Deployment : journal[d].status = "recovery_pending" => journal[d].wasRunning

\* Nothing is backed up for a deployment that was never activated.
ReadyIsUnbacked ==
    /\ pc \in Unbacked => ~mem.backupComplete
    /\ pc = "backup" => mem.status = "backing_up"
    /\ \A d \in Deployment : journal[d].status = "ready" => ~journal[d].backupComplete

Outcome == /\ InstalledMatches /\ LoadedIsServed /\ CheckedRuns /\ HaltedIsStopped
           /\ RestartedRan /\ RestoredRuns /\ LegacyRan /\ ReadyIsUnbacked

\* The steps at which Outcome says something of the worker.
Watched == Installed \cup Loaded \cup Halted \cup Unbacked
             \cup {"saveStopping", "stop", "rollbackCheck", "recoverStart",
                   "recoverCheck", "saveRecovered", "saveRolledBack"}

\* The journals' share of Outcome.
Remembered ==
    \A d \in Deployment :
      /\ journal[d].status = "recovery_pending" => journal[d].wasRunning
      /\ journal[d].status = "ready" => ~journal[d].backupComplete

LEMMA Unwatched ==
    ASSUME Remembered', pc' \notin Watched
    PROVE  Outcome'
  BY DEF Outcome, Watched, Remembered, InstalledMatches, LoadedIsServed, CheckedRuns,
         HaltedIsStopped, RestartedRan, RestoredRuns, LegacyRan, ReadyIsUnbacked,
         Installed, Loaded, Halted, Unbacked, LateStop

LEMMA EnterRemembers ==
    ASSUME Typed, Outcome, NEW from, from \notin Resting, NEW status, NEW ok, NEW err,
           Enter(from, status, ok, err),
           status \notin {"recovery_pending", "ready"}
    PROVE  Remembered'
  BY EnterFacts DEF Entered, Outcome, Remembered, LegacyRan, ReadyIsUnbacked

LEMMA KeptRemembers ==
    ASSUME Outcome, UNCHANGED journal
    PROVE  Remembered'
  BY DEF Outcome, Remembered, LegacyRan, ReadyIsUnbacked

-----------------------------------------------------------------------------
LEMMA StagingOutcome ==
    ASSUME Typed, Outcome, Staging
    PROVE  Outcome'
  <1> USE DEF Outcome, ReadyIsUnbacked, LegacyRan, InstalledMatches, LoadedIsServed,
              CheckedRuns, HaltedIsStopped, RestartedRan, RestoredRuns, Installed,
              Loaded, Halted, Unbacked, LateStop
  <1>1. CASE SaveReceiving
    <2>1. Remembered'
      BY <1>1, EnterRemembers DEF SaveReceiving, Resting
    <2>2. pc = "saveReceiving" /\ Entered("receiving", "receive", "abandon")
      BY <1>1, EnterFacts DEF SaveReceiving, Resting
    <2> QED
      BY <2>1, <2>2 DEF Remembered, Entered
  <1>2. CASE Abandon
    BY <1>2, BlankFacts DEF Abandon, Release, Typed, TypeOK
  <1>3. CASE Receive
    BY <1>3 DEF Receive, Goto
  <1>4. CASE SaveVerifying
    BY <1>4, EnterRemembers, EnterFacts DEF SaveVerifying, Resting, Remembered, Entered
  <1>5. CASE Prepare
    BY <1>5 DEF Prepare, Goto
  <1>6. CASE SaveReady
    <2>1. cur \in Deployment /\ mem \in Journal
      BY <1>6 DEF SaveReady, Typed, TypeOK, Resting
    <2>2. [mem EXCEPT !.status = "ready"].status = "ready"
          /\ [mem EXCEPT !.status = "ready"].backupComplete = mem.backupComplete
      BY <2>1 DEF Journal
    <2> QED
      BY <1>6, <2>1, <2>2 DEF SaveReady, Release, Goto, Typed, TypeOK
  <1>7. CASE Reverify
    <2>1. cur \in Deployment
      BY <1>7 DEF Reverify, Typed, Resting
    <2>2. [journal EXCEPT ![cur].status = "failed"][cur].status = "failed"
          /\ \A d \in Deployment \ {cur} :
               [journal EXCEPT ![cur].status = "failed"][d] = journal[d]
      BY <2>1 DEF Typed, TypeOK, Journal
    <2> QED
      BY <1>7, <2>1, <2>2 DEF Reverify, Release, Goto
  <1> QED
    BY <1>1, <1>2, <1>3, <1>4, <1>5, <1>6, <1>7 DEF Staging

LEMMA ActivationOutcome ==
    ASSUME Typed, Outcome, Activation
    PROVE  Outcome'
  <1> USE DEF Outcome, ReadyIsUnbacked, LegacyRan, InstalledMatches, LoadedIsServed,
              CheckedRuns, HaltedIsStopped, RestartedRan, RestoredRuns, Installed,
              Loaded, Halted, Unbacked, LateStop
  <1>1. CASE Precheck
    BY <1>1 DEF Precheck, Typed, TypeOK, Journal, Goto, service
  <1>2. CASE SaveStopping
    BY <1>2, EnterRemembers, EnterFacts DEF SaveStopping, Resting, Remembered, Entered
  <1>3. CASE Stop
    BY <1>3 DEF Stop, StopService, Goto, disk
  <1>4. CASE SaveBackingUp
    BY <1>4, EnterRemembers, EnterFacts DEF SaveBackingUp, Resting, FailUnchanged, Remembered, Entered
  <1>5. ASSUME NEW p \in Path, BackupFile(p) PROVE Outcome'
    BY <1>5 DEF BackupFile, Typed, TypeOK, Journal, FailUnchanged, Goto, disk, service
  <1>6. CASE BackupDone
    <2>1. cur \in Deployment /\ mem' = [mem EXCEPT !.backupComplete = TRUE]
      BY <1>6 DEF BackupDone, SaveDeployment, Typed, TypeOK, Resting
    <2>2. mem'.status = mem.status
      BY <2>1 DEF Typed, TypeOK, Journal
    <2>3. \A d \in Deployment : journal'[d] \in {journal[d], mem'}
      BY <1>6, <2>1 DEF BackupDone, SaveDeployment, Typed, TypeOK
    <2>4. pc = "backup" /\ pc' \in {"saveReplacing", "saveFailed", "saveRollingBack"}
      BY <1>6 DEF BackupDone, SaveDeployment, FailUnchanged, Goto
    <2>5. Remembered'
      BY <2>2, <2>3, <2>4 DEF Remembered
    <2> QED
      BY <2>4, <2>5, Unwatched DEF Watched
  <1>7. CASE SaveReplacing
    <2>1. Remembered'
      BY <1>7, EnterRemembers DEF SaveReplacing, Resting
    <2>2. pc = "saveReplacing" /\ Entered("replacing", "replace", FailUnchanged)
      BY <1>7, EnterFacts DEF SaveReplacing, Resting
    <2> QED
      BY <2>1, <2>2, Unwatched DEF FailUnchanged, Watched, Entered
  <1>8. ASSUME NEW p \in Path, ReplaceFile(p) PROVE Outcome'
    BY <1>8, Unwatched, KeptRemembers DEF ReplaceFile, Goto, Watched
  <1>9. CASE ReplaceDone
    BY <1>9 DEF ReplaceDone, Goto, disk, service, Matches, SameOrEdited
  <1>10. CASE SaveReloading
    <2>1. Remembered'
      BY <1>10, EnterRemembers DEF SaveReloading, Resting
    <2>2. pc = "saveReloading" /\ Entered("reloading", "reload", "saveRollingBack")
      BY <1>10, EnterFacts DEF SaveReloading, Resting
    <2> QED
      BY <2>1, <2>2 DEF Remembered, Entered
  <1>11. CASE Reload
    BY <1>11 DEF Reload, ReloadFailed, Goto, disk, Matches, SameOrEdited
  <1>12. CASE SaveStarting
    <2>1. Remembered'
      BY <1>12, EnterRemembers DEF SaveStarting, Resting
    <2>2. pc = "saveStarting" /\ Entered("starting", "start", "saveRollingBack")
      BY <1>12, EnterFacts DEF SaveStarting, Resting
    <2> QED
      BY <2>1, <2>2 DEF Remembered, Entered
  <1>13. CASE Start
    BY <1>13 DEF Start, StartService, Goto, disk, Matches, SameOrEdited
  <1>14. CASE SaveChecking
    <2>1. Remembered'
      BY <1>14, EnterRemembers DEF SaveChecking, Resting
    <2>2. pc = "saveChecking" /\ Entered("checking", "check", "saveRollingBack")
      BY <1>14, EnterFacts DEF SaveChecking, Resting
    <2> QED
      BY <2>1, <2>2 DEF Remembered, Entered
  <1>15. CASE Check
    BY <1>15 DEF Check, CheckHealth, Goto, disk, service
  <1>16. CASE WriteActive
    BY <1>16 DEF WriteActive, Goto, service
  <1>17. CASE SaveSucceeded
    <2>1. Remembered'
      BY <1>17, EnterRemembers DEF SaveSucceeded, Resting
    <2>2. pc = "saveSucceeded" /\ Entered("succeeded", "cleanup", "saveRollingBack")
      BY <1>17, EnterFacts DEF SaveSucceeded, Resting
    <2> QED
      BY <2>1, <2>2, Unwatched DEF Watched, Entered
  <1>18. CASE SaveFailed
    <2>1. Remembered'
      BY <1>18, EnterRemembers DEF SaveFailed, Resting
    <2>2. pc = "saveFailed" /\ Entered("failed", "cleanup", "cleanup")
      BY <1>18, EnterFacts DEF SaveFailed, Resting
    <2> QED
      BY <2>1, <2>2, Unwatched DEF Watched, Entered
  <1> QED
    BY <1>1, <1>2, <1>3, <1>4, <1>5, <1>6, <1>7, <1>8, <1>9, <1>10, <1>11, <1>12,
       <1>13, <1>14, <1>15, <1>16, <1>17, <1>18 DEF Activation

LEMMA RollbackOutcome ==
    ASSUME Typed, Outcome, Rollback
    PROVE  Outcome'
  <1> USE DEF Outcome, ReadyIsUnbacked, LegacyRan, InstalledMatches, LoadedIsServed,
              CheckedRuns, HaltedIsStopped, RestartedRan, RestoredRuns, Installed,
              Loaded, Halted, Unbacked, LateStop
  <1>1. CASE SaveRollingBack
    <2>1. Remembered'
      BY <1>1, EnterRemembers DEF SaveRollingBack, Resting
    <2>2. Entered("rolling_back", "rollbackStop", "rollbackStop")
      BY <1>1, EnterFacts DEF SaveRollingBack, Resting
    <2> QED
      BY <2>1, <2>2, Unwatched DEF Watched, Entered
  <1>2. CASE RollbackStop
    BY <1>2 DEF RollbackStop, StopService, Goto, disk
  <1>3. CASE VerifyBackups
    BY <1>3 DEF VerifyBackups, Goto, disk, service
  <1>4. ASSUME NEW p \in Path, RestoreFile(p) PROVE Outcome'
    BY <1>4 DEF RestoreFile, Goto, service
  <1>5. CASE RestoreActive
    BY <1>5 DEF RestoreActive, Goto, service
  <1>6. CASE RollbackStart
    BY <1>6 DEF Typed, TypeOK, Journal, RollbackStart, StartService, Goto, disk, service
  <1>7. CASE RollbackCheck
    BY <1>7 DEF RollbackCheck, CheckHealth, Goto, disk, service
  <1>8. CASE SaveRolledBack
    <2>1. Remembered'
      BY <1>8, EnterRemembers DEF SaveRolledBack, Resting
    <2>2. pc' \in {"cleanup", "recover", "finish", "saveRollbackFailed"}
      BY <1>8 DEF SaveRolledBack, Enter, SaveDeployment, Goto
    <2> QED
      BY <2>1, <2>2, Unwatched DEF Watched
  <1>9. CASE SaveRollbackFailed
    <2>1. Remembered'
      BY <1>9, EnterRemembers DEF SaveRollbackFailed, Resting
    <2>2. pc' \in {"cleanup", "finish"}
      BY <1>9 DEF SaveRollbackFailed, Enter, SaveDeployment, Goto
    <2> QED
      BY <2>1, <2>2, Unwatched DEF Watched
  <1>10. CASE Finish
    BY <1>10, Unwatched, KeptRemembers DEF Finish, Release, disk, Watched
  <1> QED
    BY <1>1, <1>2, <1>3, <1>4, <1>5, <1>6, <1>7, <1>8, <1>9, <1>10 DEF Rollback

LEMMA RetentionOutcome ==
    ASSUME Typed, Outcome, Retention
    PROVE  Outcome'
  <1>1. CASE Cleanup \/ PruneDone
    BY <1>1, KeptRemembers, Unwatched DEF Cleanup, PruneDone, Goto, Release, disk, Watched, Installed, Loaded,
       Halted, Unbacked
  <1>2. ASSUME NEW d \in Deployment, PruneDirectory(d) PROVE Outcome'
    <2>1. pc' \notin Watched
      BY <1>2 DEF PruneDirectory, Goto, Watched, Installed, Loaded, Halted, Unbacked
    <2>2. \A e \in Deployment :
            \/ journal'[e] = journal[e]
            \/ journal'[e].status \in {"absent", "unstarted", "remnant"}
      BY <1>2, BlankFacts DEF PruneDirectory, Typed, TypeOK
    <2> QED
      BY <2>1, <2>2, Unwatched DEF Remembered, Outcome, LegacyRan, ReadyIsUnbacked
  <1> QED
    BY <1>1, <1>2 DEF Retention

LEMMA RecoveryOutcome ==
    ASSUME Typed, Outcome, Recovery
    PROVE  Outcome'
  <1> USE DEF Outcome, ReadyIsUnbacked, LegacyRan, InstalledMatches, LoadedIsServed,
              CheckedRuns, HaltedIsStopped, RestartedRan, RestoredRuns, Installed,
              Loaded, Halted, Unbacked, LateStop
  <1>1. CASE RecoverDone
    BY <1>1, Unwatched, KeptRemembers DEF RecoverDone, Release, disk, Watched
  <1>2. CASE RecoverStart
    BY <1>2 DEF RecoverStart, StartService, Goto, disk, service
  <1>3. CASE RecoverCheck
    BY <1>3 DEF RecoverCheck, CheckHealth, Goto, disk, service
  <1>4. CASE SaveRecovered
    <2>1. Remembered'
      BY <1>4, EnterRemembers DEF SaveRecovered, Resting
    <2>2. pc' \in {"recover", "finish"}
      BY <1>4 DEF SaveRecovered, Enter, SaveDeployment, Goto
    <2> QED
      BY <2>1, <2>2, Unwatched DEF Watched
  <1>5. ASSUME NEW d \in Deployment, RecoverNext(d) PROVE Outcome'
    <2>1. \A e \in Deployment :
            \/ journal'[e] = journal[e]
            \/ journal'[e].status \in {"absent", "failed"}
      BY <1>5, BlankFacts DEF Typed, TypeOK, Journal, RecoverNext
    <2>2. Remembered'
      BY <2>1 DEF Remembered
    <2>3. CASE pc' \notin Watched
      BY <2>2, <2>3, Unwatched
    <2>4. CASE pc' \in Watched
      BY <1>5, <2>4, <2>2 DEF RecoverNext, Release, Watched, Remembered
    <2> QED
      BY <2>3, <2>4
  <1> QED
    BY <1>1, <1>2, <1>3, <1>4, <1>5 DEF Recovery

LEMMA RequestOutcome ==
    ASSUME Typed, Outcome, Request
    PROVE  Outcome'
  <1>1. \A d \in Deployment : Swept[d] = journal[d] \/ Swept[d].status = "absent"
    BY BlankFacts DEF Swept
  <1>2. CASE Recover \/ Restart \/ WatchdogRestart \/ CleanupDisk
    <2>1. pc' \notin Watched
      BY <1>2 DEF Recover, Restart, WatchdogRestart, CleanupDisk, worker, Watched,
                  Installed, Loaded, Halted, Unbacked
    <2>2. journal' \in {journal, Swept}
      BY <1>2 DEF Recover, Restart, WatchdogRestart, CleanupDisk, disk
    <2> QED
      BY <1>1, <2>1, <2>2, Unwatched DEF Remembered, Outcome, LegacyRan, ReadyIsUnbacked
  <1>3. ASSUME NEW d \in Deployment, Upload(d) PROVE Outcome'
    <2>1. /\ pc' = "saveReceiving" /\ ~mem'.backupComplete
          /\ \A e \in Deployment :
               \/ journal'[e] = journal[e]
               \/ journal'[e].status \in {"absent", "unstarted"}
      BY <1>1, <1>3, BlankFacts, SweptType DEF Upload, Typed, TypeOK
    <2> QED
      BY <2>1 DEF Outcome, ReadyIsUnbacked, LegacyRan, InstalledMatches, LoadedIsServed,
              CheckedRuns, HaltedIsStopped, RestartedRan, RestoredRuns, Installed,
              Loaded, Halted, Unbacked, LateStop
  <1>4. ASSUME NEW d \in Deployment, Activate(d) PROVE Outcome'
    <2> DEFINE record == [journal[d] EXCEPT !.status = "verifying"]
    <2>1. /\ record.status = "verifying"
          /\ record.backupComplete = journal[d].backupComplete
      BY DEF Typed, TypeOK, Journal
    <2>2. /\ pc = "idle" /\ journal[d].status = "ready"
          /\ \/ journal' = [Swept EXCEPT ![d] = record] /\ pc' = "reverify" /\ mem' = record
             \/ journal' \in {Swept, [Swept EXCEPT ![d] = record]} /\ pc' = pc
      BY <1>4 DEF Activate, worker
    <2> HIDE DEF record
    <2>3. \A e \in Deployment :
            \/ journal'[e] = journal[e]
            \/ journal'[e].status \in {"absent", "verifying"}
      BY <1>1, <2>1, <2>2, SweptType DEF Typed, TypeOK
    <2>4. Remembered'
      BY <2>3 DEF Remembered, Outcome, LegacyRan, ReadyIsUnbacked
    <2> QED
      BY <2>1, <2>2, <2>4
      DEF Outcome, ReadyIsUnbacked, LegacyRan, InstalledMatches, LoadedIsServed,
          CheckedRuns, HaltedIsStopped, RestartedRan, RestoredRuns, Installed,
          Loaded, Halted, Unbacked, LateStop, Remembered
  <1>5. ASSUME NEW d \in Deployment, ManualRollback(d) PROVE Outcome'
    <2> DEFINE record == [journal[d] EXCEPT !.status = "rolling_back", !.manual = TRUE]
    <2>1. record.status = "rolling_back"
      BY DEF Typed, TypeOK, Journal
    <2>2. /\ pc = "idle" /\ pc' \in {"idle", "saveRollingBack"}
          /\ journal' \in {Swept, [Swept EXCEPT ![d] = record]}
      BY <1>5 DEF ManualRollback, worker
    <2> HIDE DEF record
    <2>3. \A e \in Deployment :
            \/ journal'[e] = journal[e]
            \/ journal'[e].status \in {"absent", "rolling_back"}
      BY <1>1, <2>1, <2>2, SweptType DEF Typed, TypeOK
    <2>4. Remembered'
      BY <2>3 DEF Remembered, Outcome, LegacyRan, ReadyIsUnbacked
    <2> QED
      BY <2>2, <2>4, Unwatched DEF Watched, Installed, Loaded, Halted, Unbacked
  <1>6. ASSUME NEW d \in Deployment, DiscardUnstarted(d) PROVE Outcome'
    <2>1. \A e \in Deployment :
            journal'[e] = journal[e] \/ journal'[e].status = "absent"
      BY <1>6, BlankFacts DEF DiscardUnstarted, Typed, TypeOK
    <2>2. pc' \notin Watched
      BY <1>6 DEF DiscardUnstarted, worker, Watched, Installed, Loaded, Halted, Unbacked
    <2> QED
      BY <2>1, <2>2, Unwatched DEF Remembered, Outcome, LegacyRan, ReadyIsUnbacked
  <1> QED
    BY <1>2, <1>3, <1>4, <1>5, <1>6 DEF Request

LEMMA EnvironmentOutcome ==
    ASSUME Typed, Outcome, Environment
    PROVE  Outcome'
  <1>1. CASE Crash
    BY <1>1, Unwatched, KeptRemembers
    DEF Crash, Release, disk, Watched, Installed, Loaded, Halted, Unbacked
  <1>2. ASSUME NEW p \in ProviderPath, CoreEdit(p) PROVE Outcome'
    <2>1. \A q \in Path : live'[q] = live[q] \/ (live'[q] = Edited /\ q \in ProviderPath)
      BY <1>2 DEF CoreEdit, Typed, TypeOK
    <2>2. ASSUME NEW files, Matches(live, files) PROVE Matches(live', files)
      BY <2>1, <2>2 DEF Matches, SameOrEdited, Listed
    <2>3. UNCHANGED <<journal, effective, running, core, pc, cur, mem>>
      BY <1>2 DEF CoreEdit, service, worker
    <2> QED
      BY <2>2, <2>3
      DEF Outcome, ReadyIsUnbacked, LegacyRan, InstalledMatches, LoadedIsServed,
          CheckedRuns, HaltedIsStopped, RestartedRan, RestoredRuns, LateStop
  <1>3. ASSUME NEW d \in Corruptible, BackupRots(d) PROVE Outcome'
    BY <1>3
    DEF BackupRots, worker, service, Outcome, ReadyIsUnbacked, LegacyRan,
        InstalledMatches, LoadedIsServed, CheckedRuns, HaltedIsStopped, RestartedRan,
        RestoredRuns, LateStop
  <1> QED
    BY <1>1, <1>2, <1>3 DEF Environment

LEMMA OutcomeInit == Init => Outcome
  <1> SUFFICES ASSUME Init PROVE Outcome
    OBVIOUS
  <1>1. pc \notin Watched
    BY DEF Init, Watched, Installed, Loaded, Halted, Unbacked
  <1>2. \A d \in Deployment : journal[d].status = "recovery_pending" => journal[d].wasRunning
    BY DEF Init, LegacyJournal, Blank
  <1>3. \A d \in Deployment : journal[d].status # "ready"
    BY DEF Init, LegacyJournal, Blank
  <1> QED
    BY <1>1, <1>2, <1>3
    DEF Outcome, Watched, InstalledMatches, LoadedIsServed, CheckedRuns,
        HaltedIsStopped, RestartedRan, RestoredRuns, LegacyRan, ReadyIsUnbacked,
        Installed, Loaded, Halted, Unbacked, LateStop

LEMMA OutcomeStep == Typed /\ Outcome /\ [Next]_vars => Outcome'
  <1> SUFFICES ASSUME Typed, Outcome, [Next]_vars PROVE Outcome'
    OBVIOUS
  <1>1. CASE UNCHANGED vars
    BY <1>1
    DEF vars, disk, service, worker, budget, Outcome, ReadyIsUnbacked, LegacyRan,
        InstalledMatches, LoadedIsServed, CheckedRuns, HaltedIsStopped, RestartedRan,
        RestoredRuns, LateStop
  <1> QED
    BY <1>1, StagingOutcome, ActivationOutcome, RollbackOutcome, RetentionOutcome,
       RecoveryOutcome, RequestOutcome, EnvironmentOutcome
    DEF Next, WorkerStep

LEMMA AlwaysOutcome == Spec => [](Typed /\ Outcome)
  BY TypedInit, TypedStep, OutcomeInit, OutcomeStep, PTL DEF Spec

-----------------------------------------------------------------------------
(* A success is served, a rollback restores the run state.                 *)

Final == {"succeeded", "rolled_back"}

\* Only the lock holder records an outcome, for its own deployment.
LEMMA EnterFinal ==
    ASSUME Typed, NEW from, from \notin Resting, NEW status, NEW ok, NEW err,
           Enter(from, status, ok, err), status \notin Final,
           NEW d \in Deployment, journal'[d].status \in Final
    PROVE  journal'[d].status = journal[d].status
  BY EnterFacts DEF Entered

LEMMA FinalIsSaved ==
    ASSUME Typed, Outcome, [Next]_vars, NEW d \in Deployment,
           journal'[d].status \in Final, journal'[d].status # journal[d].status
    PROVE  /\ d = cur /\ cur \in Deployment
           /\ \/ SaveSucceeded /\ journal'[d].status = "succeeded"
              \/ /\ SaveRolledBack \/ SaveRecovered
                 /\ journal'[d].status = "rolled_back"
           /\ journal'[d].wasRunning = mem.wasRunning
           /\ UNCHANGED <<running, core, effective>>
  <1>1. CASE SaveSucceeded
    BY <1>1, EnterFacts DEF SaveSucceeded, Resting, Entered
  <1>2. CASE SaveRolledBack
    BY <1>2, EnterFacts DEF SaveRolledBack, Resting, Entered
  <1>3. CASE SaveRecovered
    BY <1>3, EnterFacts DEF SaveRecovered, Resting, Entered
  <1>4. CASE \/ SaveReceiving \/ SaveVerifying \/ SaveStopping \/ SaveBackingUp
             \/ SaveReplacing \/ SaveReloading \/ SaveStarting \/ SaveChecking
             \/ SaveFailed \/ SaveRollingBack \/ SaveRollbackFailed
    BY <1>4, EnterFinal
    DEF SaveReceiving, SaveVerifying, SaveStopping, SaveBackingUp, SaveReplacing,
        SaveReloading, SaveStarting, SaveChecking, SaveFailed, SaveRollingBack,
        SaveRollbackFailed, Resting, Final
  <1>5. CASE BackupDone
    BY <1>5 DEF BackupDone, SaveDeployment, Typed, TypeOK, Journal, Outcome, ReadyIsUnbacked, Final
  <1>6. CASE Abandon \/ SaveReady \/ Reverify
    BY <1>6, BlankFacts DEF Abandon, SaveReady, Reverify, Typed, TypeOK, Resting, Journal, Final
  <1>7. CASE \E e \in Deployment : PruneDirectory(e) \/ DiscardUnstarted(e)
    BY <1>7, BlankFacts DEF Final, PruneDirectory, DiscardUnstarted, Typed, TypeOK
  <1>8. CASE \E e \in Deployment : RecoverNext(e)
    BY <1>8, BlankFacts DEF RecoverNext, Typed, TypeOK, Journal, Final
  <1>9. CASE Request
    <2>1. \A e \in Deployment : Swept[e].status \in Final => Swept[e] = journal[e]
      BY BlankFacts DEF Swept, Final
    <2>2. Swept \in [Deployment -> Journal]
      BY SweptType DEF Typed, TypeOK
    <2>3. CASE Recover \/ Restart \/ WatchdogRestart \/ CleanupDisk
      BY <2>1, <2>3 DEF Recover, Restart, WatchdogRestart, CleanupDisk, disk
    <2>4. ASSUME NEW e \in Deployment, Upload(e) PROVE FALSE
      BY <2>1, <2>2, <2>4, BlankFacts DEF Upload, Final
    <2>5. ASSUME NEW e \in Deployment, Activate(e) PROVE FALSE
      BY <2>5, <2>1, <2>2 DEF Typed, TypeOK, Journal, Activate, Final
    <2>6. ASSUME NEW e \in Deployment, ManualRollback(e) PROVE FALSE
      <3> DEFINE record == [journal[e] EXCEPT !.status = "rolling_back", !.manual = TRUE]
      <3>1. record.status = "rolling_back"
        BY DEF Typed, TypeOK, Journal
      <3>2. journal' \in {Swept, [Swept EXCEPT ![e] = record]}
        BY <2>6 DEF ManualRollback
      <3> HIDE DEF record
      <3> QED
        BY <2>1, <2>2, <3>1, <3>2 DEF Final
    <2> QED
      BY <1>7, <1>9, <2>3, <2>4, <2>5, <2>6 DEF Request
  <1>10. CASE UNCHANGED journal
    BY <1>10
  <1>11. CASE \/ Receive \/ Prepare \/ Precheck \/ Stop \/ ReplaceDone \/ Reload \/ Start
              \/ Check \/ WriteActive \/ RollbackStop \/ VerifyBackups \/ RestoreActive
              \/ RollbackStart \/ RollbackCheck \/ Finish \/ Cleanup \/ PruneDone
              \/ RecoverDone \/ RecoverStart \/ RecoverCheck
              \/ \E p \in Path : BackupFile(p) \/ ReplaceFile(p) \/ RestoreFile(p)
              \/ Environment
    <2>1. UNCHANGED journal
      BY <1>11
      DEF Receive, Prepare, Precheck, Stop, StopService, ReplaceDone, Reload, Start,
          StartService, Check, CheckHealth, WriteActive, RollbackStop, VerifyBackups,
          RestoreActive, RollbackStart, RollbackCheck, Finish, Cleanup, PruneDone,
          RecoverDone, RecoverStart, RecoverCheck, BackupFile, ReplaceFile, RestoreFile,
          Environment, Crash, CoreEdit, BackupRots, disk
    <2> QED
      BY <1>10, <2>1
  <1>12. CASE UNCHANGED vars
    BY <1>10, <1>12 DEF vars, disk
  <1> QED
    BY <1>1, <1>2, <1>3, <1>4, <1>5, <1>6, <1>7, <1>8, <1>9, <1>11, <1>12
    DEF Next, WorkerStep, Staging, Activation, Rollback, Retention, Recovery

\* A success is recorded only for a running core that has loaded exactly the
\* files the deployment installed: through a reload or a restart, and whatever
\* other step failed on the way.
THEOREM SuccessServed == Spec => SuccessIsServed
  <1> DEFINE Step ==
        \A d \in Deployment :
          journal[d].status # "succeeded" /\ journal'[d].status = "succeeded" =>
            /\ running
            /\ \A p \in Listed(effective[d]) \ ProviderPath : core[p] = effective[d][p]
  <1>1. Typed /\ Outcome /\ [Next]_vars => Step
    BY FinalIsSaved DEF Final, SaveSucceeded, Enter, Outcome, CheckedRuns, LoadedIsServed, Loaded
  <1>2. Step => [Step]_journal
    OBVIOUS
  <1> QED
    BY AlwaysOutcome, <1>1, <1>2, PTL DEF Spec, SuccessIsServed

\* A rolled-back journal means that the core runs if and only if it ran before
\* the deployment.
THEOREM RunStateIsRestored == Spec => RunStateRestored
  <1> DEFINE Step ==
        \A d \in Deployment :
          journal[d].status # "rolled_back" /\ journal'[d].status = "rolled_back" =>
            running = journal'[d].wasRunning
  <1>1. Typed /\ Outcome /\ [Next]_vars => Step
    BY FinalIsSaved DEF Final, SaveRolledBack, SaveRecovered, Enter, Outcome, RestoredRuns
  <1>2. Step => [Step]_journal
    OBVIOUS
  <1> QED
    BY AlwaysOutcome, <1>1, <1>2, PTL DEF Spec, RunStateRestored

-----------------------------------------------------------------------------
(* Consistent: what the directory holds, and what could restore it.         *)

\* The directory is the one the active manifest describes.
LiveIsActive == Matches(live, active.files)

NothingSaved(record) == \A p \in Path : record.backups[p] = Unsaved
\* Restoring the record's backups gives the version it replaced.
Undoable(record) == record.backupComplete => Matches(record.backups, record.previous.files)

\* A recovery of d would restore its backups.
Restorable(d) == /\ journal[d].status \in Unresolved \ {"recovery_pending"}
                 /\ journal[d].backupComplete
Exposed == \E d \in Deployment : Restorable(d)
Recorded == /\ Restorable(cur)
            /\ journal[cur].backups = mem.backups
            /\ journal[cur].previous = mem.previous

EarlyStop == pc \in {"saveStopping", "stop"} /\ ~mem.backupComplete
\* From the choice of the previous version to the switch to the new one.
Switching == {"saveStopping", "stop", "saveBackingUp", "backup", "saveReplacing",
              "replace"} \cup Installed
\* No file has changed, or all of them have.
Calm == {"saveReceiving", "abandon", "receive", "saveVerifying", "prepare",
         "saveReady", "reverify", "precheck", "saveBackingUp", "backup",
         "saveReplacing", "saveFailed", "saveSucceeded", "rollbackStart",
         "rollbackCheck", "saveRolledBack", "recoverStart", "recoverCheck",
         "saveRecovered"}
Restoring == {"rollbackStop", "verifyBackups", "restore"}

NothingSavedEarly == pc \in Unbacked \ {"backup"} \/ EarlyStop => NothingSaved(mem)
PreviousIsActive == pc \in Switching => mem.previous = active
BackupsMatch ==
    pc = "backup" =>
        \A p \in BackedUp \cap Listed(active.files) :
            SameOrEdited(mem.backups, active.files, p)
BackupIsComplete ==
    pc \in {"saveReplacing", "replace", "verifyBackups", "restore", "saveSucceeded"}
           \cup Installed
      => mem.backupComplete
ChangeIsRecorded == pc \in {"replace", "saveSucceeded"} \cup Installed \/ LateStop => Recorded
PruneIsResolved == pc = "prune" => \A d \in scan : ~IsUnresolved(d)
CalmIsActive ==
    \/ pc \in Calm
    \/ EarlyStop
    \/ pc \in {"saveRollingBack", "rollbackStop", "saveRollbackFailed"} /\ ~mem.backupComplete
    => LiveIsActive
RollbackIsRecorded ==
    /\ pc = "saveRollingBack" /\ mem.backupComplete =>
         Recorded \/ (LiveIsActive /\ (mem.previous = active \/ ~IsUnresolved(cur)))
    /\ pc \in Restoring /\ mem.backupComplete =>
         Recorded \/ (LiveIsActive /\ mem.previous = active)
DoneIsRestored ==
    /\ pc \notin {"replace", "restore"} => done = {}
    /\ pc = "restore" => \A p \in done \cap BackedUp : SameOrEdited(live, mem.backups, p)
WorkerKnows == /\ NothingSavedEarly /\ PreviousIsActive /\ BackupsMatch /\ BackupIsComplete
               /\ ChangeIsRecorded /\ PruneIsResolved /\ CalmIsActive /\ RollbackIsRecorded
               /\ DoneIsRestored

JournalsAreUndoable ==
    \A d \in Deployment :
      /\ journal[d].status = "ready" => NothingSaved(journal[d])
      /\ Undoable(journal[d])

Consistent == /\ WorkerKnows /\ JournalsAreUndoable /\ Undoable(mem)
              /\ LiveIsActive \/ Exposed

\* All that the induction may use.
Known == Typed /\ Outcome /\ UnresolvedIsCurrent /\ RollbackIntentDurable /\ Consistent

-----------------------------------------------------------------------------
(* Lemmas about the parts.                                                 *)

LEMMA SameLive ==
    ASSUME UNCHANGED <<live, active>>
    PROVE  LiveIsActive' <=> LiveIsActive
  BY DEF LiveIsActive, Matches, SameOrEdited, Listed

LEMMA SameExposed ==
    ASSUME UNCHANGED journal
    PROVE  Exposed' <=> Exposed
  BY DEF Exposed, Restorable

LEMMA SameRecorded ==
    ASSUME UNCHANGED <<journal, cur, mem>>
    PROVE  Recorded' <=> Recorded
  BY DEF Recorded, Restorable

LEMMA SameJournals ==
    ASSUME UNCHANGED journal, JournalsAreUndoable
    PROVE  JournalsAreUndoable'
  BY DEF JournalsAreUndoable, NothingSaved, Undoable, Matches, SameOrEdited, Listed

LEMMA SameBackups ==
    ASSUME NEW record, NEW other,
           record.backups = other.backups, record.previous = other.previous,
           record.backupComplete = other.backupComplete
    PROVE  /\ Undoable(record) <=> Undoable(other)
           /\ NothingSaved(record) <=> NothingSaved(other)
  BY DEF Undoable, NothingSaved

LEMMA BlankIsUndoable ==
    ASSUME NEW status
    PROVE  Undoable(Blank(status)) /\ NothingSaved(Blank(status))
  BY BlankFacts DEF Undoable, NothingSaved

\* While the lock holder works on a deployment, no other one is unresolved.
LEMMA ExposedIsCurrent ==
    ASSUME UnresolvedIsCurrent, Exposed, pc \notin Resting
    PROVE  Restorable(cur)
  BY DEF UnresolvedIsCurrent, Exposed, Restorable, IsUnresolved

LEMMA RecordedIsExposed ==
    ASSUME Recorded, cur \in Deployment
    PROVE  Exposed
  BY DEF Recorded, Exposed

\* Saving a phase of an activation or of a rollback.
LEMMA EnterUnresolved ==
    ASSUME Known, NEW status, NEW ok, NEW err, Entered(status, ok, err), pc \notin Resting,
           status \in Unresolved \ {"recovery_pending"},
           LiveIsActive \/ mem.backupComplete
    PROVE  /\ JournalsAreUndoable' /\ Undoable(mem') /\ (LiveIsActive' \/ Exposed')
           /\ NothingSaved(mem) => NothingSaved(mem')
           /\ LiveIsActive' <=> LiveIsActive
           /\ mem.backupComplete /\ (Recorded \/ journal'[cur] = mem') => Recorded'
  BY SameLive, SameBackups, ExposedIsCurrent DEF Entered, Known, Consistent, Unresolved, JournalsAreUndoable,
     Recorded, Restorable, Exposed

\* Saving any other phase, which happens only when no file is half installed.
LEMMA EnterCalm ==
    ASSUME Known, NEW status, NEW ok, NEW err, Entered(status, ok, err),
           status # "ready", LiveIsActive
    PROVE  /\ JournalsAreUndoable' /\ Undoable(mem') /\ LiveIsActive'
           /\ NothingSaved(mem) => NothingSaved(mem')
  BY SameLive, SameBackups DEF Entered, Known, Consistent, JournalsAreUndoable

-----------------------------------------------------------------------------
(* Consistent, step by step.                                               *)

\* At these steps Consistent says nothing of the worker but what its record
\* could restore.
Away == {"idle", "cleanup", "finish", "recover"}

LEMMA AwayKnows ==
    ASSUME pc' \in Away, done' = {}
    PROVE  WorkerKnows'
  BY DEF WorkerKnows, Away, NothingSavedEarly, PreviousIsActive, BackupsMatch,
         BackupIsComplete, ChangeIsRecorded, PruneIsResolved, CalmIsActive,
         RollbackIsRecorded, DoneIsRestored, Unbacked, EarlyStop, LateStop, Switching,
         Installed, Calm, Restoring

LEMMA StagingConsistent ==
    ASSUME Known, Staging, RollbackIntentDurable'
    PROVE  Consistent'
  <1> USE DEF WorkerKnows, NothingSavedEarly, PreviousIsActive, BackupsMatch,
              BackupIsComplete, ChangeIsRecorded, PruneIsResolved, CalmIsActive,
              RollbackIsRecorded, DoneIsRestored, Unbacked, EarlyStop, LateStop, Switching,
              Installed, Calm, Restoring
  <1>1. pc \in Unbacked \ {"backup"} /\ pc \in Calm /\ LiveIsActive /\ NothingSaved(mem)
        /\ cur \in Deployment /\ done = {} /\ mem \in Journal /\ ~mem.backupComplete
    BY DEF Staging, SaveReceiving, Enter, Abandon, Receive, SaveVerifying, Prepare,
           SaveReady, Reverify, Known, Consistent, Typed, TypeOK, Resting, Outcome,
           ReadyIsUnbacked
  <1>2. CASE SaveReceiving
    <2>1. pc = "saveReceiving" /\ Entered("receiving", "receive", "abandon")
      BY <1>2, EnterFacts DEF SaveReceiving, Resting, Known
    <2>2. /\ JournalsAreUndoable' /\ Undoable(mem') /\ LiveIsActive'
          /\ NothingSaved(mem')
      BY <1>1, <2>1, EnterCalm
    <2> QED
      BY <1>1, <2>1, <2>2 DEF Consistent, Entered
  <1>3. CASE Abandon
    BY <1>1, <1>3, BlankIsUndoable, BlankFacts, SameLive, AwayKnows DEF Abandon, Known, Consistent,
       JournalsAreUndoable, Typed, TypeOK, Release, Away
  <1>4. CASE Receive \/ Prepare
    BY <1>4, <1>1, SameLive, SameJournals DEF Receive, Prepare, Goto, loop, Known, Consistent
  <1>5. CASE SaveVerifying
    <2>1. pc = "saveVerifying" /\ Entered("verifying", "prepare", "saveFailed")
      BY <1>5, EnterFacts DEF SaveVerifying, Resting, Known
    <2>2. /\ JournalsAreUndoable' /\ Undoable(mem') /\ LiveIsActive'
          /\ NothingSaved(mem')
      BY <1>1, <2>1, EnterCalm
    <2> QED
      BY <1>1, <2>1, <2>2 DEF Consistent, Entered
  <1>6. CASE SaveReady
    <2> DEFINE record == [mem EXCEPT !.status = "ready"]
    <2>1. NothingSaved(record) /\ Undoable(record)
      BY <1>1 DEF Journal, NothingSaved, Undoable
    <2>2. /\ journal' \in {journal, [journal EXCEPT ![cur] = record]}
          /\ UNCHANGED <<active, live>>
          /\ \/ Release
             \/ mem' = record /\ pc' = "saveFailed" /\ UNCHANGED done
      BY <1>6 DEF SaveReady, Goto, loop
    <2> HIDE DEF record
    <2>3. LiveIsActive' /\ JournalsAreUndoable'
      BY <1>1, <2>1, <2>2, SameLive DEF Known, Consistent, JournalsAreUndoable, Typed, TypeOK
    <2>4. CASE Release
      BY <2>3, <2>4, AwayKnows, BlankIsUndoable DEF Release, Away, Consistent
    <2>5. CASE mem' = record /\ pc' = "saveFailed" /\ UNCHANGED done
      BY <1>1, <2>1, <2>3, <2>5 DEF Consistent
    <2> QED
      BY <2>2, <2>4, <2>5
  <1>7. CASE Reverify
    <2>1. LiveIsActive'
      BY <1>1, <1>7, SameLive DEF Reverify
    <2>2. CASE UNCHANGED <<journal, mem, done>> /\ pc' = "precheck"
      BY <1>1, <2>2, SameJournals, <2>1 DEF Known, Consistent
    <2>3. CASE Release /\ journal' \in {journal, [journal EXCEPT ![cur].status = "failed"]}
      <3> DEFINE record == [journal[cur] EXCEPT !.status = "failed"]
      <3>1. Undoable(record) /\ record.status = "failed"
        BY <1>1, SameBackups DEF Known, Typed, TypeOK, Journal, Consistent, JournalsAreUndoable
      <3>2. journal' \in {journal, [journal EXCEPT ![cur] = record]}
        BY <2>3
      <3> HIDE DEF record
      <3>3. JournalsAreUndoable'
        BY <1>1, <3>1, <3>2 DEF Known, Consistent, JournalsAreUndoable, Typed, TypeOK
      <3> QED
        BY <2>1, <2>3, <3>3, AwayKnows, BlankIsUndoable DEF Release, Away, Consistent
    <2> QED
      BY <1>7, <2>2, <2>3 DEF Reverify, Goto, loop
  <1> QED
    BY <1>2, <1>3, <1>4, <1>5, <1>6, <1>7 DEF Staging

\* The files and the journals stay as they are, and so does what the worker
\* knows of them.
LEMMA FilesUnchanged ==
    ASSUME Known, UNCHANGED <<journal, active, live, cur>>
    PROVE  /\ LiveIsActive' <=> LiveIsActive
           /\ JournalsAreUndoable' /\ (LiveIsActive' \/ Exposed')
           /\ UNCHANGED mem => (Recorded' <=> Recorded) /\ Undoable(mem')
                                 /\ (NothingSaved(mem') <=> NothingSaved(mem))
  BY SameLive, SameExposed, SameRecorded, SameJournals DEF Known, Consistent

LEMMA PrecheckConsistent ==
    ASSUME Known, Precheck
    PROVE  Consistent'
  <1>1. /\ pc = "precheck" /\ LiveIsActive /\ ~mem.backupComplete /\ NothingSaved(mem)
        /\ done = {}
    BY DEF Precheck, Known, Outcome, ReadyIsUnbacked, Unbacked, Consistent, WorkerKnows,
           NothingSavedEarly, CalmIsActive, Calm, DoneIsRestored
  <1>2. UNCHANGED <<journal, active, live, cur, done>>
    BY DEF Precheck, Goto, loop
  <1>3. LiveIsActive' /\ JournalsAreUndoable'
    BY <1>1, <1>2, FilesUnchanged
  <1>4. ~mem'.backupComplete /\ NothingSaved(mem') /\ mem'.backups = mem.backups
    BY <1>1 DEF Precheck, NothingSaved, Known, Typed, TypeOK, Journal
  <1>5. Undoable(mem')
    BY <1>4 DEF Undoable
  <1>6. \/ pc' = "saveFailed"
        \/ /\ pc' \in {"saveBackingUp", "saveFailed", "saveStopping"}
           /\ mem'.previous = active'
    BY <1>2 DEF Precheck, Goto, Known, Typed, TypeOK, Journal
  <1> QED
    BY <1>1, <1>2, <1>3, <1>4, <1>5, <1>6
    DEF Consistent, WorkerKnows, NothingSavedEarly, PreviousIsActive, BackupsMatch,
        BackupIsComplete, ChangeIsRecorded, PruneIsResolved, CalmIsActive,
        RollbackIsRecorded, DoneIsRestored, Unbacked, EarlyStop, LateStop, Switching,
        Installed, Calm, Restoring

LEMMA BackupConsistent ==
    ASSUME Known, RollbackIntentDurable',
           \/ SaveStopping \/ Stop \/ SaveBackingUp \/ BackupDone \/ SaveReplacing
           \/ \E p \in Path : BackupFile(p)
    PROVE  Consistent'
  <1> USE DEF WorkerKnows, NothingSavedEarly, PreviousIsActive, BackupsMatch,
              BackupIsComplete, ChangeIsRecorded, PruneIsResolved, CalmIsActive,
              RollbackIsRecorded, DoneIsRestored, Unbacked, EarlyStop, LateStop, Switching,
              Installed, Calm, Restoring
  <1>1. /\ mem.previous = active /\ done = {} /\ cur \in Deployment /\ mem \in Journal
        /\ pc \notin Resting
        /\ mem.backupComplete \in BOOLEAN
    BY DEF SaveStopping, Stop, SaveBackingUp, BackupDone, SaveReplacing, BackupFile, Enter,
           Known, Consistent, Typed, TypeOK, Resting, Journal
  <1>2. CASE SaveStopping
    <2>1. pc = "saveStopping"
          /\ Entered("stopping", "stop",
                     IF mem.backupComplete THEN "saveRollingBack" ELSE "saveFailed")
      BY <1>2, EnterFacts DEF SaveStopping, Resting, Known
    <2>2. LiveIsActive \/ mem.backupComplete
      BY <2>1 DEF Known, Consistent
    <2>3. /\ JournalsAreUndoable' /\ Undoable(mem') /\ (LiveIsActive' \/ Exposed')
          /\ NothingSaved(mem) => NothingSaved(mem')
          /\ LiveIsActive' <=> LiveIsActive
          /\ mem.backupComplete /\ (Recorded \/ journal'[cur] = mem') => Recorded'
      BY <1>1, <2>1, <2>2, EnterUnresolved DEF Unresolved
    <2>4. /\ UNCHANGED <<active, done>> /\ mem'.backupComplete = mem.backupComplete
          /\ mem'.previous = mem.previous
          /\ pc' \in {"stop", IF mem.backupComplete THEN "saveRollingBack" ELSE "saveFailed"}
      BY <2>1 DEF Entered
    <2>5. CASE mem.backupComplete
      BY <1>1, <2>1, <2>3, <2>4, <2>5 DEF Consistent, Known
    <2>6. CASE ~mem.backupComplete
      BY <1>1, <2>1, <2>3, <2>4, <2>6 DEF Consistent, Known
    <2> QED
      BY <2>5, <2>6
  <1>3. CASE Stop
    BY <1>3, FilesUnchanged, <1>1 DEF Stop, StopService, Goto, disk, loop, Consistent, Known
  <1>4. CASE SaveBackingUp
    <2>1. pc = "saveBackingUp" /\ Entered("backing_up", "backup", FailUnchanged)
      BY <1>4, EnterFacts DEF SaveBackingUp, Resting, Known
    <2>2. LiveIsActive /\ NothingSaved(mem) /\ ~mem.backupComplete
      BY <2>1 DEF Known, Consistent, Outcome, ReadyIsUnbacked
    <2>3. /\ JournalsAreUndoable' /\ Undoable(mem') /\ LiveIsActive' /\ NothingSaved(mem')
      BY <1>1, <2>1, <2>2, EnterUnresolved DEF Unresolved
    <2>4. /\ UNCHANGED <<active, done>> /\ mem'.backupComplete = mem.backupComplete
          /\ mem'.previous = mem.previous
          /\ pc' \in {"backup", "saveFailed", "saveRollingBack"}
      BY <2>1 DEF Entered, FailUnchanged
    <2>5. BackupsMatch'
      BY <2>3 DEF NothingSaved, BackedUp
    <2> QED
      BY <1>1, <2>2, <2>3, <2>4, <2>5 DEF Consistent
  <1>5. ASSUME NEW p \in Path, BackupFile(p) PROVE Consistent'
    <2>1. /\ pc = "backup" /\ UNCHANGED <<journal, active, live, cur, done>>
          /\ mem' \in {mem, [mem EXCEPT !.backups[p] = live[p]]}
          /\ pc' \in {"backup", "saveFailed", "saveRollingBack"}
      BY <1>5 DEF BackupFile, FailUnchanged, Goto, disk, loop
    <2>2. LiveIsActive /\ ~mem.backupComplete
      BY <2>1 DEF Known, Consistent, Outcome, ReadyIsUnbacked
    <2>3. LiveIsActive' /\ JournalsAreUndoable'
      BY <2>1, <2>2, FilesUnchanged
    <2>4. /\ mem'.backupComplete = mem.backupComplete /\ mem'.previous = mem.previous
          /\ \A q \in Path : \/ mem'.backups[q] = mem.backups[q]
                             \/ q = p /\ mem'.backups[q] = live[q]
      BY <1>1, <2>1 DEF Journal
    <2>5. BackupsMatch'
      BY <2>1, <2>2, <2>4
      DEF Known, Consistent, BackedUp, Listed, LiveIsActive, Matches, SameOrEdited
    <2>6. Undoable(mem')
      BY <2>2, <2>4 DEF Undoable
    <2> QED
      BY <1>1, <2>1, <2>2, <2>3, <2>4, <2>5, <2>6 DEF Consistent
  <1>6. CASE BackupDone
    <2>1. /\ pc = "backup" /\ ManagedPaths \subseteq BackedUp
          /\ UNCHANGED <<active, live, cur, done>>
          /\ mem' = [mem EXCEPT !.backupComplete = TRUE]
          /\ journal' \in {journal, [journal EXCEPT ![cur] = mem']}
          /\ pc' \in {"saveReplacing", "saveFailed", "saveRollingBack"}
      BY <1>6 DEF BackupDone, SaveDeployment, FailUnchanged, Goto, loop
    <2>2. LiveIsActive /\ mem.status = "backing_up"
      BY <2>1 DEF Known, Consistent, Outcome, ReadyIsUnbacked
    <2>3. /\ mem'.backupComplete /\ mem'.previous = mem.previous
          /\ mem'.backups = mem.backups /\ mem'.status = "backing_up"
      BY <1>1, <2>1, <2>2 DEF Journal
    <2>4. Undoable(mem')
      BY <2>1, <1>1, <2>3 DEF ManagedPaths, Known, Consistent, Undoable, Matches, SameOrEdited
    <2>5. JournalsAreUndoable'
      BY <2>1, <2>3, <2>4 DEF Known, Consistent, JournalsAreUndoable, Typed, TypeOK
    <2>6. LiveIsActive'
      BY <2>1, <2>2, SameLive
    <2> QED
      BY <1>1, <2>1, <2>3, <2>4, <2>5, <2>6 DEF Consistent
  <1>7. CASE SaveReplacing
    <2>1. pc = "saveReplacing" /\ Entered("replacing", "replace", FailUnchanged)
      BY <1>7, EnterFacts DEF SaveReplacing, Resting, Known
    <2>2. LiveIsActive /\ mem.backupComplete
      BY <2>1 DEF Known, Consistent
    <2>3. /\ JournalsAreUndoable' /\ Undoable(mem') /\ LiveIsActive'
          /\ journal'[cur] = mem' => Recorded'
      BY <1>1, <2>1, <2>2, EnterUnresolved DEF Unresolved
    <2>4. /\ UNCHANGED <<active, done>> /\ mem'.backupComplete = mem.backupComplete
          /\ mem'.previous = mem.previous
          /\ \/ pc' = "replace" /\ journal'[cur] = mem'
             \/ pc' \in {"saveFailed", "saveRollingBack"}
      BY <2>1 DEF Entered, FailUnchanged
    <2> QED
      BY <1>1, <2>2, <2>3, <2>4 DEF Consistent
  <1> QED
    BY <1>2, <1>3, <1>4, <1>5, <1>6, <1>7

LEMMA SwitchConsistent ==
    ASSUME Known, RollbackIntentDurable',
           \/ ReplaceDone \/ SaveReloading \/ Reload \/ SaveStarting \/ Start
           \/ SaveChecking \/ Check \/ WriteActive \/ SaveSucceeded \/ SaveFailed
           \/ \E p \in Path : ReplaceFile(p)
    PROVE  Consistent'
  <1> USE DEF WorkerKnows, NothingSavedEarly, PreviousIsActive, BackupsMatch,
              BackupIsComplete, ChangeIsRecorded, PruneIsResolved, CalmIsActive,
              RollbackIsRecorded, DoneIsRestored, Unbacked, EarlyStop, LateStop, Switching,
              Installed, Calm, Restoring
  <1>1. /\ cur \in Deployment /\ mem \in Journal /\ pc \notin Resting
        /\ pc # "saveFailed" => mem.backupComplete /\ Recorded
        /\ pc # "replace" => done = {}
    BY DEF ReplaceDone, SaveReloading, Reload, SaveStarting, Start, SaveChecking, Check,
           WriteActive, SaveSucceeded, SaveFailed, ReplaceFile, Enter,
           Known, Consistent, Typed, TypeOK, Resting
  <1>2. ASSUME NEW p \in Path, ReplaceFile(p) PROVE Consistent'
    BY <1>2, <1>1, SameRecorded, RecordedIsExposed, SameExposed, SameJournals DEF ReplaceFile, Goto, Known,
       Consistent
  <1>3. CASE ReplaceDone \/ Reload \/ Start \/ Check
    <2>1. /\ UNCHANGED <<journal, active, live, cur, mem>> /\ done' = {}
          /\ pc \in Switching
          /\ \/ pc' = "saveRollingBack"
             \/ pc' \in Switching \ {"saveBackingUp", "backup", "saveReplacing", "replace"}
      BY <1>1, <1>3 DEF ReplaceDone, Goto, disk, Reload, ReloadFailed, loop, Start, StartService, Check, CheckHealth
    <2>2. /\ JournalsAreUndoable' /\ (LiveIsActive' \/ Exposed')
          /\ Recorded' /\ Undoable(mem')
      <3>1. Recorded
        BY <1>1, <2>1
      <3> QED
        BY <2>1, <3>1, FilesUnchanged
    <2>3. mem'.backupComplete /\ mem'.previous = active'
      BY <1>1, <1>3, <2>1
      DEF ReplaceDone, Reload, Start, Check, Known, Consistent
    <2> QED
      BY <2>1, <2>2, <2>3 DEF Consistent
  <1>4. ASSUME NEW from \in {"saveReloading", "saveStarting", "saveChecking"},
               NEW status \in {"reloading", "starting", "checking"},
               NEW ok \in {"reload", "start", "check"},
               pc = from, Entered(status, ok, "saveRollingBack")
        PROVE  Consistent'
    BY <1>1, <1>4, EnterUnresolved DEF Known, Consistent, Unresolved, Entered
  <1>5. CASE SaveReloading \/ SaveStarting \/ SaveChecking
    BY <1>4, <1>5, EnterFacts DEF SaveReloading, SaveStarting, SaveChecking, Resting, Known
  <1>6. CASE WriteActive
    <2>1. /\ pc = "writeActive" /\ UNCHANGED <<journal, live, cur, mem, done>>
          /\ \/ pc' = "saveSucceeded" /\ active' = [id |-> cur, files |-> effective[cur]]
             \/ pc' = "saveRollingBack"
      BY <1>6 DEF WriteActive, Goto, loop
    <2>2. Recorded' /\ Exposed' /\ JournalsAreUndoable' /\ Undoable(mem')
      BY <1>1, <2>1, SameRecorded, RecordedIsExposed, SameExposed, SameJournals
      DEF Known, Consistent
    <2>3. active' = [id |-> cur, files |-> effective[cur]] => LiveIsActive'
      BY <2>1
      DEF Known, Outcome, InstalledMatches, LiveIsActive, Matches, SameOrEdited, Listed
    <2> QED
      BY <1>1, <2>1, <2>2, <2>3 DEF Consistent
  <1>7. CASE SaveSucceeded
    <2>1. pc = "saveSucceeded" /\ Entered("succeeded", "cleanup", "saveRollingBack")
      BY <1>7, EnterFacts DEF SaveSucceeded, Resting, Known
    <2>2. LiveIsActive
      BY <2>1 DEF Known, Consistent
    <2>3. JournalsAreUndoable' /\ Undoable(mem') /\ LiveIsActive'
      BY <2>1, <2>2, EnterCalm
    <2>4. CASE pc' = "cleanup"
      BY <1>1, <2>1, <2>3, <2>4, AwayKnows DEF Away, Entered, Consistent
    <2>5. CASE pc' = "saveRollingBack"
      BY <2>1, <1>1, <2>3, <2>5 DEF Entered, IsUnresolved, Unresolved, Recorded, Restorable, Consistent
    <2> QED
      BY <2>1, <2>4, <2>5 DEF Entered
  <1>8. CASE SaveFailed
    <2>1. pc = "saveFailed" /\ Entered("failed", "cleanup", "cleanup")
      BY <1>8, EnterFacts DEF SaveFailed, Resting, Known
    <2>2. LiveIsActive
      BY <2>1 DEF Known, Consistent
    <2>3. JournalsAreUndoable' /\ Undoable(mem') /\ LiveIsActive'
      BY <2>1, <2>2, EnterCalm
    <2> QED
      BY <1>1, <2>1, <2>3, AwayKnows DEF Away, Entered, Consistent
  <1> QED
    BY <1>2, <1>3, <1>5, <1>6, <1>7, <1>8

LEMMA RollbackConsistent ==
    ASSUME Known, RollbackIntentDurable', Rollback
    PROVE  Consistent'
  <1> USE DEF WorkerKnows, NothingSavedEarly, PreviousIsActive, BackupsMatch,
              BackupIsComplete, ChangeIsRecorded, PruneIsResolved, CalmIsActive,
              RollbackIsRecorded, DoneIsRestored, Unbacked, EarlyStop, LateStop, Switching,
              Installed, Calm, Restoring
  <1>1. /\ cur \in Deployment /\ mem \in Journal /\ pc \notin Resting
        /\ mem.backupComplete \in BOOLEAN
    BY DEF Rollback, SaveRollingBack, RollbackStop, VerifyBackups, RestoreFile,
           RestoreActive, RollbackStart, RollbackCheck, SaveRolledBack,
           SaveRollbackFailed, Finish, Enter, Known, Typed, TypeOK, Resting, Journal
  <1>2. CASE SaveRollingBack
    <2>1. pc = "saveRollingBack" /\ Entered("rolling_back", "rollbackStop", "rollbackStop")
      BY <1>2, EnterFacts DEF SaveRollingBack, Resting, Known
    <2>2. LiveIsActive \/ mem.backupComplete
      BY <2>1 DEF Known, Consistent
    <2>3. /\ JournalsAreUndoable' /\ Undoable(mem') /\ (LiveIsActive' \/ Exposed')
          /\ LiveIsActive' <=> LiveIsActive
          /\ mem.backupComplete /\ (Recorded \/ journal'[cur] = mem') => Recorded'
      BY <1>1, <2>1, <2>2, EnterUnresolved DEF Unresolved
    <2>4. /\ UNCHANGED <<active, done>> /\ mem'.backupComplete = mem.backupComplete
          /\ mem'.previous = mem.previous /\ pc' = "rollbackStop" /\ done = {}
      BY <2>1 DEF Entered, Known, Consistent
    <2>5. ~mem.backupComplete => LiveIsActive'
      BY <2>2, <2>3
    <2>6. mem.backupComplete => Recorded' \/ (LiveIsActive' /\ mem'.previous = active')
      BY <2>3, <2>1, <2>4 DEF Entered, RollbackIntentDurable, RollbackSteps, IsUnresolved, Known, Consistent
    <2> QED
      BY <1>1, <2>3, <2>4, <2>5, <2>6 DEF Consistent
  <1>3. CASE \/ RollbackStop \/ VerifyBackups \/ RollbackStart \/ RollbackCheck
    <2>1. UNCHANGED <<journal, active, live, cur, mem, done>>
      BY <1>3 DEF RollbackStop, StopService, VerifyBackups, RollbackStart, StartService,
                  RollbackCheck, CheckHealth, Goto, disk, loop
    <2>2. /\ LiveIsActive' <=> LiveIsActive
          /\ JournalsAreUndoable' /\ (LiveIsActive' \/ Exposed')
          /\ (Recorded' <=> Recorded) /\ Undoable(mem')
      BY <2>1, FilesUnchanged
    <2>3. \/ /\ pc = "rollbackStop"
             /\ pc' \in {"saveRollbackFailed",
                         IF mem.backupComplete THEN "verifyBackups" ELSE "rollbackStart"}
          \/ pc = "verifyBackups" /\ pc' \in {"restore", "saveRollbackFailed"}
          \/ /\ pc \in {"rollbackStart", "rollbackCheck"}
             /\ pc' \in {"rollbackCheck", "saveRolledBack", "saveRollbackFailed"}
      BY <1>3 DEF RollbackStop, StopService, VerifyBackups, RollbackStart, StartService,
                  RollbackCheck, CheckHealth, Goto
    <2> QED
      BY <1>1, <2>1, <2>2, <2>3 DEF Consistent, Known
  <1>4. ASSUME NEW p \in Path, RestoreFile(p) PROVE Consistent'
    <2>1. /\ pc = "restore" /\ p \in BackedUp /\ UNCHANGED <<journal, active, cur, mem>>
          /\ live' \in {live, [live EXCEPT ![p] = mem.backups[p]]}
          /\ \/ /\ pc' = "restore" /\ done' = done \cup {p}
                /\ live' = [live EXCEPT ![p] = mem.backups[p]]
             \/ pc' = "saveRollbackFailed" /\ done' = {}
      BY <1>4 DEF RestoreFile, Goto
    <2>2. \A q \in Path : live'[q] = live[q] \/ (q = p /\ live'[q] = mem.backups[q])
      BY <2>1 DEF Known, Typed, TypeOK
    <2>3. mem.backupComplete /\ (Recorded \/ (LiveIsActive /\ mem.previous = active))
      BY <2>1 DEF Known, Consistent
    <2>4. LiveIsActive /\ mem.previous = active => LiveIsActive'
      BY <2>1, <2>2, <2>3
      DEF Known, Consistent, Undoable, LiveIsActive, Matches, SameOrEdited, Listed
    <2>5. Recorded' <=> Recorded
      BY <2>1, SameRecorded
    <2>6. JournalsAreUndoable' /\ Undoable(mem') /\ (Exposed' <=> Exposed)
      BY <2>1, SameJournals, SameExposed DEF Known, Consistent
    <2>7. LiveIsActive' \/ Exposed'
      BY <1>1, <2>3, <2>4, <2>6, RecordedIsExposed
    <2>8. pc' = "restore" => \A q \in done' \cap BackedUp' : SameOrEdited(live', mem'.backups, q)
      BY <2>1, <2>2 DEF Known, Consistent, BackedUp, SameOrEdited, Typed, TypeOK
    <2> QED
      BY <2>1, <2>3, <2>4, <2>5, <2>6, <2>7, <2>8 DEF Consistent
  <1>5. CASE RestoreActive
    <2>1. /\ pc = "restore" /\ BackedUp \subseteq done
          /\ UNCHANGED <<journal, live, cur, mem>> /\ done' = {}
          /\ \/ active' = mem.previous /\ pc' = "rollbackStart"
             \/ active' \in {active, mem.previous} /\ pc' = "saveRollbackFailed"
      BY <1>5 DEF RestoreActive, Goto
    <2>2. mem.backupComplete /\ (Recorded \/ (LiveIsActive /\ mem.previous = active))
      BY <2>1 DEF Known, Consistent
    <2>3. Matches(live, mem.previous.files)
      <3>1. SUFFICES ASSUME NEW p \in Listed(mem.previous.files)
                     PROVE  SameOrEdited(live, mem.previous.files, p)
        BY DEF Matches
      <3>2. p \in Path /\ SameOrEdited(mem.backups, mem.previous.files, p)
        BY <2>2, <3>1 DEF Known, Consistent, Undoable, Matches, Listed
      <3>3. mem.previous.files[p] \in FileState /\ Unsaved \notin FileState
            /\ Edited # Unsaved
        BY <1>1, <3>2, DeploymentAssumption DEF Journal, Manifest, FileState, Content
      <3>4. p \in BackedUp
        BY <3>2, <3>3 DEF SameOrEdited, BackedUp
      <3>5. SameOrEdited(live, mem.backups, p)
        BY <2>1, <3>4 DEF Known, Consistent
      <3> QED
        BY <3>2, <3>5 DEF SameOrEdited
    <2>4. active' = mem.previous => LiveIsActive'
      BY <2>1, <2>3 DEF LiveIsActive, Matches, SameOrEdited, Listed
    <2>5. JournalsAreUndoable' /\ Undoable(mem') /\ (Exposed' <=> Exposed)
      BY <2>1, SameJournals, SameExposed DEF Known, Consistent
    <2>6. LiveIsActive' \/ Exposed'
      BY <2>4, <1>1, <2>1, <2>2, <2>5, RecordedIsExposed, SameLive
    <2> QED
      BY <2>1, <2>2, <2>4, <2>5, <2>6 DEF Consistent
  <1>6. CASE SaveRolledBack
    <2> DEFINE ok == IF job = "publish" THEN "cleanup"
                     ELSE IF job = "recover" THEN "recover" ELSE "finish"
    <2>1. pc = "saveRolledBack" /\ Entered("rolled_back", ok, "saveRollbackFailed")
      BY <1>6, EnterFacts DEF SaveRolledBack, Resting, Known
    <2>2. LiveIsActive /\ done = {}
      BY <2>1 DEF Known, Consistent
    <2>3. JournalsAreUndoable' /\ Undoable(mem') /\ LiveIsActive'
      BY <2>1, <2>2, EnterCalm
    <2>4. pc' \in Away \/ pc' = "saveRollbackFailed"
      BY <2>1 DEF Entered, Away
    <2>5. UNCHANGED done
      BY <2>1 DEF Entered
    <2>6. CASE pc' \in Away
      BY <2>2, <2>3, <2>5, <2>6, AwayKnows DEF Consistent
    <2>7. CASE pc' = "saveRollbackFailed"
      BY <2>2, <2>3, <2>5, <2>7 DEF Consistent
    <2> QED
      BY <2>4, <2>6, <2>7
  <1>7. CASE SaveRollbackFailed
    <2> DEFINE next == IF job = "publish" THEN "cleanup" ELSE "finish"
    <2>1. pc = "saveRollbackFailed" /\ Entered("rollback_failed", next, next)
      BY <1>7, EnterFacts DEF SaveRollbackFailed, Resting, Known
    <2>2. (LiveIsActive \/ mem.backupComplete) /\ done = {}
      BY <2>1 DEF Known, Consistent
    <2>3. /\ JournalsAreUndoable' /\ Undoable(mem') /\ (LiveIsActive' \/ Exposed')
      BY <1>1, <2>1, <2>2, EnterUnresolved DEF Unresolved
    <2>4. pc' \in Away /\ UNCHANGED done
      BY <2>1 DEF Entered, Away
    <2> QED
      BY <2>2, <2>3, <2>4, AwayKnows DEF Consistent
  <1>8. CASE Finish
    BY <1>8, SameLive, SameExposed, SameJournals, AwayKnows, BlankIsUndoable DEF Finish, disk, Known, Consistent,
       Release, Away
  <1> QED
    BY <1>2, <1>3, <1>4, <1>5, <1>6, <1>7, <1>8 DEF Rollback

LEMMA RetentionConsistent ==
    ASSUME Known, Retention
    PROVE  Consistent'
  <1>1. CASE Cleanup
    <2>1. /\ UNCHANGED <<journal, active, live, mem, done>> /\ pc' = "prune"
          /\ scan' \subseteq CompletedOnDisk /\ pc = "cleanup"
      BY <1>1 DEF Cleanup, Goto
    <2>2. JournalsAreUndoable' /\ (LiveIsActive' \/ Exposed') /\ Undoable(mem') /\ done = {}
      BY <2>1, SameLive, SameExposed, SameJournals
      DEF Known, Consistent, WorkerKnows, DoneIsRestored
    <2>3. \A d \in scan' : journal'[d].status \notin Unresolved
      BY <2>1 DEF CompletedOnDisk, Completed, Unresolved
    <2> QED
      BY <2>1, <2>2, <2>3
      DEF Consistent, WorkerKnows, NothingSavedEarly, PreviousIsActive, BackupsMatch,
          BackupIsComplete, ChangeIsRecorded, PruneIsResolved, CalmIsActive,
          RollbackIsRecorded, DoneIsRestored, Unbacked, EarlyStop, LateStop, Switching,
          Installed, Calm, Restoring, IsUnresolved
  <1>2. ASSUME NEW d \in Deployment, PruneDirectory(d) PROVE Consistent'
    <2>1. /\ pc = "prune" /\ pc' = "prune" /\ d \in scan /\ scan' \subseteq scan
          /\ UNCHANGED <<active, live, mem, done>> /\ done = {}
          /\ ~IsUnresolved(d)
      BY <1>2
      DEF PruneDirectory, Goto, Known, Consistent, WorkerKnows, PruneIsResolved, DoneIsRestored
    <2>2. \A e \in Deployment :
            \/ journal'[e] = journal[e]
            \/ /\ e = d
               /\ \E s \in {"absent", "unstarted", "remnant"} : journal'[e] = Blank(s)
      BY <1>2 DEF PruneDirectory, Known, Typed, TypeOK
    <2>3. \A s \in {"absent", "unstarted", "remnant"} :
            /\ Blank(s).status = s /\ s \notin Unresolved /\ s # "ready"
            /\ Undoable(Blank(s))
      BY BlankFacts, BlankIsUndoable DEF Unresolved
    <2>4. JournalsAreUndoable'
      BY <2>2, <2>3 DEF Known, Consistent, JournalsAreUndoable
    <2>5. LiveIsActive' \/ Exposed'
      BY <2>1, <2>2, SameLive DEF Restorable, IsUnresolved, Exposed, Known, Consistent
    <2>6. \A e \in scan' : journal'[e].status \notin Unresolved
      BY <2>1, <2>2, <2>3
      DEF Known, Consistent, WorkerKnows, PruneIsResolved, IsUnresolved, Typed, TypeOK
    <2> QED
      BY <2>1, <2>4, <2>5, <2>6
      DEF Known, Consistent, WorkerKnows, NothingSavedEarly, PreviousIsActive, BackupsMatch,
          BackupIsComplete, ChangeIsRecorded, PruneIsResolved, CalmIsActive,
          RollbackIsRecorded, DoneIsRestored, Unbacked, EarlyStop, LateStop, Switching,
          Installed, Calm, Restoring, IsUnresolved
  <1>3. CASE PruneDone
    BY <1>3, SameLive, SameExposed, SameJournals, AwayKnows, BlankIsUndoable DEF PruneDone, disk, Known, Consistent,
       Release, Away
  <1> QED
    BY <1>1, <1>2, <1>3 DEF Retention

LEMMA RecoveryConsistent ==
    ASSUME Known, RollbackIntentDurable', Recovery
    PROVE  Consistent'
  <1> USE DEF WorkerKnows, NothingSavedEarly, PreviousIsActive, BackupsMatch,
              BackupIsComplete, ChangeIsRecorded, PruneIsResolved, CalmIsActive,
              RollbackIsRecorded, DoneIsRestored, Unbacked, EarlyStop, LateStop, Switching,
              Installed, Calm, Restoring
  <1>1. CASE RecoverDone
    BY <1>1, SameLive, SameExposed, SameJournals, AwayKnows, BlankIsUndoable DEF RecoverDone, disk, Known,
       Consistent, Release, Away
  <1>2. CASE RecoverStart \/ RecoverCheck
    BY <1>2, FilesUnchanged DEF RecoverStart, StartService, RecoverCheck, CheckHealth, Goto, disk, loop, Consistent,
       Known
  <1>3. CASE SaveRecovered
    <2>1. pc = "saveRecovered" /\ Entered("rolled_back", "recover", "finish")
      BY <1>3, EnterFacts DEF SaveRecovered, Resting, Known
    <2>2. LiveIsActive /\ done = {}
      BY <2>1 DEF Known, Consistent
    <2>3. JournalsAreUndoable' /\ Undoable(mem') /\ LiveIsActive'
      BY <2>1, <2>2, EnterCalm
    <2> QED
      BY <2>1, <2>2, <2>3, AwayKnows DEF Away, Entered, Consistent
  <1>4. ASSUME NEW d \in Deployment, RecoverNext(d) PROVE Consistent'
    <2>1. pc = "recover" /\ UNCHANGED <<active, live>> /\ done = {} /\ done' = {}
      BY <1>4 DEF RecoverNext, Release, Known, Consistent
    <2>2. LiveIsActive' <=> LiveIsActive
      BY <2>1, SameLive
    <2>3. ASSUME journal[d].status \notin Unresolved
          PROVE  Consistent'
      <3>1. /\ journal' \in {journal, [journal EXCEPT ![d] = Blank("absent")],
                             [journal EXCEPT ![d].status = "failed"]}
            /\ pc' \in {"recover", "idle"}
            /\ mem' \in {mem, Blank("absent")}
        BY <1>4, <2>1, <2>3 DEF RecoverNext, Release
      <3> DEFINE failed == [journal[d] EXCEPT !.status = "failed"]
      <3>2. /\ failed.backups = journal[d].backups
            /\ failed.previous = journal[d].previous
            /\ failed.backupComplete = journal[d].backupComplete
            /\ failed.status = "failed"
        BY DEF Known, Typed, TypeOK, Journal
      <3>3. Undoable(failed)
        BY <3>2, SameBackups DEF Known, Consistent, JournalsAreUndoable
      <3>4. journal' \in {journal, [journal EXCEPT ![d] = Blank("absent")],
                          [journal EXCEPT ![d] = failed]}
        BY <3>1
      <3> HIDE DEF failed
      <3>5. JournalsAreUndoable'
        BY <3>2, <3>3, <3>4, BlankIsUndoable, BlankFacts
        DEF Known, Consistent, JournalsAreUndoable, Typed, TypeOK
      <3>6. Exposed => Exposed'
        BY <2>3, <3>4 DEF Restorable, Known, Typed, TypeOK, Exposed
      <3>7. Undoable(mem')
        BY <3>1, BlankIsUndoable DEF Known, Consistent
      <3> QED
        BY <2>1, <2>2, <3>1, <3>5, <3>6, <3>7, AwayKnows DEF Away, Known, Consistent
    <2>4. ASSUME journal[d].status \in Unresolved
          PROVE  Consistent'
      <3>1. /\ UNCHANGED journal /\ cur' = d /\ mem' = journal[d]
            /\ pc' = IF journal[d].status = "recovery_pending"
                       THEN "recoverStart" ELSE "saveRollingBack"
        BY <1>4, <2>4 DEF Unresolved, RecoverNext
      <3>2. JournalsAreUndoable' /\ (Exposed' <=> Exposed) /\ Undoable(mem')
        BY <3>1, SameJournals, SameExposed DEF Known, Consistent, JournalsAreUndoable
      <3>3. Exposed => Restorable(d)
        BY <2>4 DEF Exposed, Restorable, Known, UnresolvedIsCurrent, AtMostOneUnresolved,
                    IsUnresolved
      <3>4. CASE journal[d].status = "recovery_pending"
        BY <2>2, <3>3, <3>4, <2>1, <3>1, <3>2 DEF Restorable, Known, Consistent
      <3>5. CASE journal[d].status # "recovery_pending"
        BY <2>4, <3>1, <3>5, <2>2, <3>3, <2>1, <3>2 DEF Recorded, Restorable, Known, Consistent
      <3> QED
        BY <3>4, <3>5
    <2> QED
      BY <2>3, <2>4
  <1> QED
    BY <1>1, <1>2, <1>3, <1>4 DEF Recovery

LEMMA RequestConsistent ==
    ASSUME Known, Request
    PROVE  Consistent'
  <1>1. /\ Swept \in [Deployment -> Journal]
        /\ \A d \in Deployment :
             \/ Swept[d] = journal[d]
             \/ /\ Swept[d] = Blank("absent") /\ ~Restorable(d)
      BY SweptType DEF Swept, Restorable, Unresolved, Known, Typed, TypeOK
  <1>2. /\ Blank("absent").status = "absent" /\ Undoable(Blank("absent"))
        /\ Blank("unstarted").status = "unstarted" /\ Undoable(Blank("unstarted"))
        /\ NothingSaved(Blank("unstarted"))
    BY BlankFacts, BlankIsUndoable
  <1>3. ~Blocked => LiveIsActive
    BY DEF Blocked, Known, Consistent, Exposed, Restorable
  <1>4. CASE Recover \/ Restart \/ WatchdogRestart \/ CleanupDisk
    <2>1. /\ journal' \in {journal, Swept} /\ UNCHANGED <<active, live, mem, done>>
          /\ pc = "idle" /\ pc' \in Away
      BY <1>4 DEF Recover, Restart, WatchdogRestart, CleanupDisk, disk, worker, Away
    <2>2. JournalsAreUndoable'
      BY <1>1, <1>2, <2>1 DEF Known, Consistent, JournalsAreUndoable
    <2>3. Exposed => Exposed'
      BY <1>1, <2>1 DEF Exposed, Restorable
    <2>4. LiveIsActive' \/ Exposed'
      BY <2>1, <2>3, SameLive DEF Known, Consistent
    <2>5. WorkerKnows'
      BY <2>1, AwayKnows DEF Known, Consistent, WorkerKnows, DoneIsRestored
    <2> QED
      BY <2>1, <2>2, <2>4, <2>5 DEF Known, Consistent
  <1>5. ASSUME NEW d \in Deployment, Upload(d) PROVE Consistent'
    <2>1. /\ UNCHANGED <<active, live, done>> /\ done = {} /\ ~Blocked
          /\ journal' = [Swept EXCEPT ![d] = Blank("unstarted")]
          /\ pc' = "saveReceiving" /\ mem' = Blank("unstarted")
      BY <1>5 DEF Upload, loop, Known, Consistent, WorkerKnows, DoneIsRestored
    <2>2. JournalsAreUndoable'
      BY <1>1, <1>2, <2>1 DEF Known, Consistent, JournalsAreUndoable
    <2>3. LiveIsActive'
      BY <1>3, <2>1, SameLive
    <2> QED
      BY <1>2, <2>1, <2>2, <2>3, BlankFacts
      DEF Consistent, WorkerKnows, NothingSavedEarly, PreviousIsActive, BackupsMatch,
          BackupIsComplete, ChangeIsRecorded, PruneIsResolved, CalmIsActive,
          RollbackIsRecorded, DoneIsRestored, Unbacked, EarlyStop, LateStop, Switching,
          Installed, Calm, Restoring
  <1>6. ASSUME NEW d \in Deployment, NEW record,
               UNCHANGED <<active, live, done>>, pc = "idle", ~Blocked,
               journal' \in {Swept, [Swept EXCEPT ![d] = record]},
               Undoable(record), record.status # "ready",
               \/ pc' = "reverify" /\ mem' = record /\ NothingSaved(record)
               \/ /\ pc' = "saveRollingBack" /\ mem' = record /\ record.backupComplete
                  /\ journal' = [Swept EXCEPT ![d] = record] /\ cur' = d
                  /\ record.status = "rolling_back"
               \/ pc' = "idle" /\ mem' = mem
        PROVE  Consistent'
    <2>1. done = {} /\ done' = {}
      BY <1>6 DEF Known, Consistent, WorkerKnows, DoneIsRestored
    <2>2. JournalsAreUndoable'
      BY <1>1, <1>2, <1>6 DEF Known, Consistent, JournalsAreUndoable
    <2>3. LiveIsActive' /\ Undoable(mem')
      BY <1>3, <1>6, SameLive DEF Known, Consistent
    <2>4. CASE pc' = "idle"
      BY <2>1, <2>2, <2>3, <2>4, AwayKnows DEF Away, Consistent
    <2>5. CASE pc' = "reverify" /\ NothingSaved(mem')
      BY <2>1, <2>2, <2>3, <2>5
      DEF Consistent, WorkerKnows, NothingSavedEarly, PreviousIsActive, BackupsMatch,
          BackupIsComplete, ChangeIsRecorded, PruneIsResolved, CalmIsActive,
          RollbackIsRecorded, DoneIsRestored, Unbacked, EarlyStop, LateStop, Switching,
          Installed, Calm, Restoring
    <2>6. CASE pc' = "saveRollingBack"
      <3>1. Recorded'
        BY <1>1, <1>6, <2>6 DEF Recorded, Restorable, Unresolved
      <3> QED
        BY <2>1, <2>2, <2>3, <2>6, <3>1
        DEF Consistent, WorkerKnows, NothingSavedEarly, PreviousIsActive, BackupsMatch,
            BackupIsComplete, ChangeIsRecorded, PruneIsResolved, CalmIsActive,
            RollbackIsRecorded, DoneIsRestored, Unbacked, EarlyStop, LateStop, Switching,
            Installed, Calm, Restoring
    <2> QED
      BY <1>6, <2>4, <2>5, <2>6
  <1>7. ASSUME NEW d \in Deployment, Activate(d) PROVE Consistent'
    <2> DEFINE record == [journal[d] EXCEPT !.status = "verifying"]
    <2>1. /\ record.status = "verifying" /\ record.backups = journal[d].backups
          /\ record.previous = journal[d].previous
          /\ record.backupComplete = journal[d].backupComplete
      BY DEF Known, Typed, TypeOK, Journal
    <2>2. Undoable(record) /\ (NothingSaved(record) <=> NothingSaved(journal[d]))
      BY <2>1, SameBackups DEF Known, Consistent, JournalsAreUndoable
    <2>3. /\ UNCHANGED <<active, live, done>> /\ pc = "idle" /\ ~Blocked
          /\ journal' \in {Swept, [Swept EXCEPT ![d] = record]}
          /\ journal[d].status = "ready"
          /\ \/ pc' = "reverify" /\ mem' = record
             \/ pc' = "idle" /\ mem' = mem
      BY <1>7 DEF Activate, worker, loop
    <2> HIDE DEF record
    <2>4. NothingSaved(record)
      BY <2>2, <2>3 DEF Known, Consistent, JournalsAreUndoable
    <2> QED
      BY <1>6, <2>1, <2>2, <2>3, <2>4
  <1>8. ASSUME NEW d \in Deployment, ManualRollback(d) PROVE Consistent'
    <2> DEFINE record == [journal[d] EXCEPT !.status = "rolling_back", !.manual = TRUE]
    <2>1. /\ record.status = "rolling_back" /\ record.backups = journal[d].backups
          /\ record.previous = journal[d].previous
          /\ record.backupComplete = journal[d].backupComplete
      BY DEF Known, Typed, TypeOK, Journal
    <2>2. Undoable(record)
      BY <2>1, SameBackups DEF Known, Consistent, JournalsAreUndoable
    <2>3. /\ UNCHANGED <<active, live, done>> /\ pc = "idle" /\ ~Blocked
          /\ journal' \in {Swept, [Swept EXCEPT ![d] = record]}
          /\ journal[d].backupComplete
          /\ \/ /\ pc' = "saveRollingBack" /\ mem' = record /\ cur' = d
                /\ journal' = [Swept EXCEPT ![d] = record]
             \/ pc' = "idle" /\ mem' = mem
      BY <1>8 DEF ManualRollback, worker, loop
    <2> HIDE DEF record
    <2> QED
      BY <1>6, <2>1, <2>2, <2>3
  <1>9. ASSUME NEW d \in Deployment, DiscardUnstarted(d) PROVE Consistent'
    <2>1. /\ journal' = [journal EXCEPT ![d] = Blank("absent")]
          /\ journal[d].status = "unstarted"
          /\ UNCHANGED <<active, live, mem, done, pc>> /\ pc = "idle" /\ done = {}
      BY <1>9 DEF DiscardUnstarted, worker, Known, Consistent, WorkerKnows, DoneIsRestored
    <2>2. JournalsAreUndoable'
      BY <1>2, <2>1 DEF Known, Consistent, JournalsAreUndoable, Typed, TypeOK
    <2>3. \A e \in Deployment : Restorable(e) => journal'[e] = journal[e]
      BY <2>1 DEF Restorable, Unresolved, Known, Typed, TypeOK
    <2>4. Exposed => Exposed'
      BY <2>3 DEF Exposed, Restorable
    <2>5. LiveIsActive' \/ Exposed'
      BY <2>1, <2>4, SameLive DEF Known, Consistent
    <2> QED
      BY <2>1, <2>2, <2>5, AwayKnows DEF Away, Known, Consistent
  <1> QED
    BY <1>4, <1>5, <1>7, <1>8, <1>9 DEF Request

LEMMA EnvironmentConsistent ==
    ASSUME Known, Environment
    PROVE  Consistent'
  <1>1. CASE Crash
    BY <1>1, SameLive, SameExposed, SameJournals, AwayKnows, BlankIsUndoable DEF Crash, disk, Known, Consistent,
       Release, Away
  <1>2. ASSUME NEW p \in ProviderPath, CoreEdit(p) PROVE Consistent'
    <2>1. \A q \in Path : live'[q] = live[q] \/ (live'[q] = Edited /\ q \in ProviderPath)
      BY <1>2 DEF CoreEdit, Known, Typed, TypeOK
    <2>2. UNCHANGED <<journal, active, pc, cur, mem, hot, done, scan, effective>>
      BY <1>2 DEF CoreEdit, worker
    <2>3. LiveIsActive => LiveIsActive'
      BY <2>1, <2>2 DEF LiveIsActive, Matches, SameOrEdited, Listed
    <2>5. /\ JournalsAreUndoable' /\ (Exposed' <=> Exposed) /\ (Recorded' <=> Recorded)
      BY <2>2, SameJournals, SameExposed, SameRecorded DEF Known, Consistent
    <2>6. DoneIsRestored'
      BY <2>1, <2>2 DEF Known, Consistent, WorkerKnows, DoneIsRestored, SameOrEdited, BackedUp
    <2>7. RollbackIsRecorded' /\ CalmIsActive' /\ ChangeIsRecorded'
      BY <2>2, <2>3, <2>5
      DEF Known, Consistent, WorkerKnows, RollbackIsRecorded, CalmIsActive, ChangeIsRecorded,
          EarlyStop, LateStop, IsUnresolved
    <2>8. NothingSavedEarly' /\ PreviousIsActive' /\ BackupsMatch' /\ BackupIsComplete'
          /\ PruneIsResolved'
      BY <2>2
      DEF Known, Consistent, WorkerKnows, NothingSavedEarly, PreviousIsActive, BackupsMatch,
          BackupIsComplete, PruneIsResolved, EarlyStop, IsUnresolved, BackedUp, Listed,
          SameOrEdited, NothingSaved
    <2> QED
      BY <2>2, <2>3, <2>5, <2>6, <2>7, <2>8 DEF Known, Consistent, WorkerKnows
  <1>3. ASSUME NEW d \in Corruptible, BackupRots(d) PROVE Consistent'
    BY <1>3
    DEF BackupRots, worker, Known, Consistent, WorkerKnows, NothingSavedEarly,
        PreviousIsActive, BackupsMatch, BackupIsComplete, ChangeIsRecorded,
        PruneIsResolved, CalmIsActive, RollbackIsRecorded, DoneIsRestored, EarlyStop,
        LateStop, JournalsAreUndoable, NothingSaved, Undoable, LiveIsActive, Exposed,
        Recorded, Restorable, Matches, SameOrEdited, Listed, BackedUp, IsUnresolved
  <1> QED
    BY <1>1, <1>2, <1>3 DEF Environment

LEMMA ConsistentInit == Init => Consistent
  <1> SUFFICES ASSUME Init PROVE Consistent
    OBVIOUS
  <1>1. pc = "idle" /\ done = {} /\ scan = {} /\ mem = Blank("absent")
    BY DEF Init
  <1>2. LiveIsActive
    BY DEF Init, LiveIsActive, Matches, NoManifest, NoFiles, Listed
  <1>3. \A d \in Deployment :
          /\ journal[d].status # "ready"
          /\ journal[d].previous = NoManifest
    BY DEF Init, LegacyJournal, Blank
  <1>4. JournalsAreUndoable
    BY <1>3 DEF JournalsAreUndoable, Undoable, Matches, NoManifest, NoFiles, Listed
  <1>5. WorkerKnows
    BY <1>1
    DEF WorkerKnows, NothingSavedEarly, PreviousIsActive, BackupsMatch,
        BackupIsComplete, ChangeIsRecorded, PruneIsResolved, CalmIsActive,
        RollbackIsRecorded, DoneIsRestored, Unbacked, EarlyStop, LateStop, Switching,
        Installed, Calm, Restoring
  <1> QED
    BY <1>1, <1>2, <1>4, <1>5, BlankIsUndoable DEF Consistent

LEMMA ConsistentStep ==
    ASSUME Known, RollbackIntentDurable', [Next]_vars
    PROVE  Consistent'
  <1>1. CASE UNCHANGED vars
    BY <1>1
    DEF vars, disk, service, worker, loop, budget, Known, Consistent, WorkerKnows,
        NothingSavedEarly, PreviousIsActive, BackupsMatch, BackupIsComplete,
        ChangeIsRecorded, PruneIsResolved, CalmIsActive, RollbackIsRecorded,
        DoneIsRestored, EarlyStop, LateStop, JournalsAreUndoable, NothingSaved, Undoable,
        LiveIsActive, Exposed, Recorded, Restorable, Matches, SameOrEdited, Listed,
        BackedUp, IsUnresolved
  <1>2. CASE Activation
    BY <1>2, PrecheckConsistent, BackupConsistent, SwitchConsistent DEF Activation
  <1> QED
    BY <1>1, <1>2, StagingConsistent, RollbackConsistent, RetentionConsistent,
       RecoveryConsistent, RequestConsistent, EnvironmentConsistent
    DEF Next, WorkerStep

LEMMA ConsistentShowsLive == Consistent => LiveMatchesActive
  BY DEF Consistent, LiveMatchesActive, LiveIsActive, Exposed, Restorable, IsUnresolved,
         Matches, SameOrEdited

LEMMA AlwaysConsistent ==
    Spec /\ []RollbackIntentDurable => [](Typed /\ Outcome /\ UnresolvedIsCurrent /\ Consistent)
  <1>1. Typed /\ Outcome /\ UnresolvedIsCurrent /\ Consistent /\ RollbackIntentDurable
          /\ RollbackIntentDurable' /\ [Next]_vars
          => (Typed /\ Outcome /\ UnresolvedIsCurrent /\ Consistent)'
    BY TypedStep, OutcomeStep, UnresolvedIsCurrentStep, ConsistentStep DEF Known
  <1> QED
    BY TypedInit, OutcomeInit, UnresolvedIsCurrentInit, ConsistentInit, <1>1, PTL DEF Spec

\* However many file operations fail: as long as every rollback in progress is
\* recorded, the directory is the one its active manifest describes whenever
\* no transaction is unresolved.
THEOREM LiveIsConsistent == Spec /\ []RollbackIntentDurable => []LiveMatchesActive
  BY AlwaysConsistent, ConsistentShowsLive, PTL

-----------------------------------------------------------------------------
(* Intent: with at most one failing file operation, a rollback is recorded. *)
(* The save of the intent ignores its errors, so that the journal must have *)
(* been unresolved before, unless the fault has been spent already.         *)

Started == {"stop", "backup", "saveReplacing"}

StartIsRecorded ==
    pc \in Started \/ (pc = "saveBackingUp" /\ ~hot) => IsUnresolved(cur)
RollbackIsKnown ==
    /\ pc = "saveRollingBack" => IsUnresolved(cur) \/ faults >= 1
    /\ pc = "saveRollingBack" /\ mem.backupComplete => Recorded \/ faults >= 1
    /\ pc \in RollbackSteps => IsUnresolved(cur)
    /\ pc \in Restoring /\ mem.backupComplete => Recorded
InstallIsBackedUp ==
    pc \in {"saveReplacing", "replace"} => Listed(effective[cur]) \subseteq BackedUp
Intent == StartIsRecorded /\ RollbackIsKnown /\ InstallIsBackedUp

\* Steps of which Intent says nothing.
Settled == {"idle", "saveReceiving", "abandon", "receive", "saveVerifying", "prepare",
            "saveReady", "reverify", "precheck", "saveStopping", "saveReloading", "reload",
            "saveStarting", "start", "saveChecking", "check", "writeActive",
            "saveSucceeded", "saveFailed", "cleanup", "prune", "saveRollbackFailed",
            "finish", "recover", "recoverStart", "recoverCheck", "saveRecovered"}

LEMMA SettledIntent ==
    ASSUME pc' \in Settled
    PROVE  Intent'
  BY DEF Settled, Intent, StartIsRecorded, RollbackIsKnown, InstallIsBackedUp, Started,
         RollbackSteps, Restoring

\* A save that failed used up a fault.
LEMMA FaultIntent ==
    ASSUME Typed, Fault, pc' \in Settled \cup {"saveRollingBack"}
    PROVE  Intent'
  BY DeploymentAssumption, SettledIntent DEF Fault, Typed, TypeOK, Intent, StartIsRecorded, RollbackIsKnown,
     InstallIsBackedUp, Started, RollbackSteps, Restoring

LEMMA ActivationIntent ==
    ASSUME Known, Intent, Activation
    PROVE  Intent'
  <1> USE DEF Intent, StartIsRecorded, RollbackIsKnown, InstallIsBackedUp, Started,
              RollbackSteps, Restoring
  <1>1. Typed /\ mem \in Journal
    BY DEF Known, Typed, TypeOK
  <1>2. CASE Precheck
    BY <1>2, SettledIntent DEF Precheck, Goto, Settled
  <1>3. CASE SaveStopping
    <2>1. pc = "saveStopping"
          /\ Entered("stopping", "stop",
                     IF mem.backupComplete THEN "saveRollingBack" ELSE "saveFailed")
      BY <1>1, <1>3, EnterFacts DEF SaveStopping, Resting
    <2>2. CASE pc' = "stop" /\ journal'[cur] = mem'
      BY <2>1, <2>2 DEF Entered, IsUnresolved, Unresolved
    <2>3. CASE pc' \in {"saveRollingBack", "saveFailed"} /\ Fault
      BY <1>1, <2>3, FaultIntent DEF Settled
    <2> QED
      BY <2>1, <2>2, <2>3 DEF Entered
  <1>4. CASE Stop
    BY <1>4, SameRecorded DEF Stop, StopService, Goto, disk, Known, Consistent, WorkerKnows, ChangeIsRecorded,
       LateStop, IsUnresolved
  <1>5. CASE SaveBackingUp
    <2>1. pc = "saveBackingUp" /\ Entered("backing_up", "backup", FailUnchanged)
      BY <1>1, <1>5, EnterFacts DEF SaveBackingUp, Resting
    <2>2. CASE pc' = "backup" /\ journal'[cur] = mem'
      BY <2>1, <2>2 DEF Entered, IsUnresolved, Unresolved
    <2>3. CASE pc' \in {"saveRollingBack", "saveFailed"} /\ Fault
      BY <1>1, <2>3, FaultIntent DEF Settled
    <2> QED
      BY <2>1, <2>2, <2>3 DEF Entered, FailUnchanged
  <1>6. ASSUME NEW p \in Path, BackupFile(p) PROVE Intent'
    BY <1>6, <1>1, FaultIntent DEF BackupFile, Goto, disk, IsUnresolved, FailUnchanged, Settled
  <1>7. CASE BackupDone
    <2>1. /\ pc = "backup" /\ ManagedPaths \subseteq BackedUp /\ UNCHANGED <<cur, effective>>
          /\ mem' = [mem EXCEPT !.backupComplete = TRUE]
          /\ \/ pc' = "saveReplacing" /\ journal' = [journal EXCEPT ![cur] = mem']
             \/ pc' \in {"saveFailed", "saveRollingBack"} /\ Fault
      BY <1>7 DEF BackupDone, SaveDeployment, FailUnchanged, Goto
    <2>2. CASE pc' = "saveReplacing" /\ journal' = [journal EXCEPT ![cur] = mem']
      <3>1. mem'.status = "backing_up" /\ mem'.backups = mem.backups /\ cur \in Deployment
        BY <1>1, <2>1
        DEF Known, Outcome, ReadyIsUnbacked, Journal, Typed, Resting
      <3>2. IsUnresolved(cur)'
        BY <1>1, <2>1, <2>2, <3>1 DEF IsUnresolved, Unresolved, Typed, TypeOK
      <3>3. Listed(effective'[cur']) \subseteq BackedUp'
        BY <2>1, <3>1 DEF ManagedPaths, BackedUp, Listed
      <3> QED
        BY <2>2, <3>2, <3>3
    <2>3. CASE pc' \in {"saveFailed", "saveRollingBack"} /\ Fault
      BY <1>1, <2>3, FaultIntent DEF Settled
    <2> QED
      BY <2>1, <2>2, <2>3
  <1>8. CASE SaveReplacing
    <2>1. pc = "saveReplacing" /\ Entered("replacing", "replace", FailUnchanged)
      BY <1>1, <1>8, EnterFacts DEF SaveReplacing, Resting
    <2>2. CASE pc' = "replace"
      BY <2>1, <2>2 DEF Entered, BackedUp, Listed
    <2>3. CASE pc' \in {"saveRollingBack", "saveFailed"} /\ Fault
      BY <1>1, <2>3, FaultIntent DEF Settled
    <2> QED
      BY <2>1, <2>2, <2>3 DEF Entered, FailUnchanged
  <1>9. ASSUME NEW p \in Path, ReplaceFile(p) PROVE Intent'
    <2>1. CASE pc' = "replace"
      BY <1>9, <2>1 DEF ReplaceFile, Goto, BackedUp, Listed
    <2>2. CASE pc' # "replace"
      <3>1. Fault /\ pc' = "saveRollingBack"
        BY <1>9, <2>2 DEF ReplaceFile, Goto
      <3> QED
        BY <1>1, <3>1, FaultIntent
    <2> QED
      BY <2>1, <2>2
  <1>10. CASE ReplaceDone \/ Reload \/ Start \/ Check
    <2>1. /\ pc \in {"replace"} \cup Installed /\ UNCHANGED <<journal, cur, mem>>
          /\ pc' \in Settled \cup {"saveRollingBack"}
      <3>1. CASE ReplaceDone
        BY <3>1 DEF ReplaceDone, Goto, disk, Settled
      <3>2. CASE Reload
        BY <3>2 DEF Reload, ReloadFailed, Goto, disk, Settled, Installed
      <3>3. CASE Start
        BY <3>3 DEF Start, StartService, Goto, disk, Settled, Installed
      <3>4. CASE Check
        BY <3>4 DEF Check, CheckHealth, Goto, disk, Settled, Installed
      <3> QED
        BY <1>10, <3>1, <3>2, <3>3, <3>4
    <2>2. Recorded'
      BY <2>1, SameRecorded DEF Known, Consistent, WorkerKnows, ChangeIsRecorded
    <2>3. IsUnresolved(cur)'
      BY <2>2 DEF Recorded, Restorable, IsUnresolved
    <2>4. CASE pc' = "saveRollingBack"
      BY <2>2, <2>3, <2>4
    <2> QED
      BY <2>1, <2>4, SettledIntent
  <1>11. CASE SaveReloading \/ SaveStarting \/ SaveChecking \/ SaveSucceeded
    BY <1>11, <1>1, SettledIntent, FaultIntent DEF SaveReloading, SaveStarting, SaveChecking, SaveSucceeded, Enter,
       SaveDeployment, Goto, Settled
  <1>12. CASE WriteActive \/ SaveFailed
    BY <1>12, <1>1, SettledIntent, FaultIntent DEF WriteActive, SaveFailed, Enter, SaveDeployment, Goto, Settled
  <1> QED
    BY <1>2, <1>3, <1>4, <1>5, <1>6, <1>7, <1>8, <1>9, <1>10, <1>11, <1>12 DEF Activation

LEMMA RollbackIntent ==
    ASSUME Known, Intent, Rollback, MaxFaults <= 1
    PROVE  Intent'
  <1> USE DEF Intent, StartIsRecorded, RollbackIsKnown, InstallIsBackedUp, Started,
              RollbackSteps, Restoring
  <1>1. Typed /\ mem \in Journal
    BY DEF Known, Typed, TypeOK
  <1>2. CASE SaveRollingBack
    <2>1. pc = "saveRollingBack" /\ Entered("rolling_back", "rollbackStop", "rollbackStop")
      BY <1>1, <1>2, EnterFacts DEF SaveRollingBack, Resting
    <2>2. /\ pc' = "rollbackStop" /\ cur' = cur
          /\ mem'.status = "rolling_back" /\ mem'.backups = mem.backups
          /\ mem'.previous = mem.previous
          /\ mem'.backupComplete = mem.backupComplete
      BY <2>1 DEF Entered
    <2>3. CASE journal'[cur] = mem'
      BY <2>2, <2>3 DEF IsUnresolved, Recorded, Restorable, Unresolved
    <2>4. CASE journal'[cur] = journal[cur] /\ Fault
      <3>1. faults = 0
        BY <1>1, <2>4, DeploymentAssumption DEF Fault, Typed, TypeOK
      <3> QED
        BY <2>1, <2>2, <2>4, <3>1 DEF IsUnresolved, Recorded, Restorable
    <2> QED
      BY <2>1, <2>3, <2>4 DEF Entered
  <1>3. CASE \/ RollbackStop \/ VerifyBackups \/ RestoreActive \/ RollbackStart
             \/ RollbackCheck \/ \E p \in Path : RestoreFile(p)
    <2>1. /\ pc \in RollbackSteps /\ UNCHANGED <<journal, cur, mem>>
          /\ pc' \in RollbackSteps \cup {"saveRollbackFailed"}
          /\ pc' \in Restoring => pc \in Restoring
      <3>1. CASE RollbackStop
        BY <3>1 DEF RollbackStop, StopService, Goto, disk
      <3>2. CASE VerifyBackups
        BY <3>2 DEF VerifyBackups, Goto, disk
      <3>3. CASE RestoreActive \/ \E p \in Path : RestoreFile(p)
        BY <3>3 DEF RestoreActive, RestoreFile, Goto
      <3>4. CASE RollbackStart
        BY <3>4 DEF RollbackStart, StartService, Goto, disk
      <3>5. CASE RollbackCheck
        BY <3>5 DEF RollbackCheck, CheckHealth, Goto, disk
      <3> QED
        BY <1>3, <3>1, <3>2, <3>3, <3>4, <3>5
    <2>2. IsUnresolved(cur)' /\ (Recorded' <=> Recorded)
      BY <2>1, SameRecorded DEF IsUnresolved
    <2>3. CASE pc' = "saveRollbackFailed"
      BY <2>3, SettledIntent DEF Settled
    <2>4. CASE pc' \in RollbackSteps
      BY <2>1, <2>2, <2>4
    <2> QED
      BY <2>1, <2>3, <2>4
  <1>4. CASE SaveRolledBack
    BY <1>4, SettledIntent DEF SaveRolledBack, Enter, SaveDeployment, Goto, Settled
  <1>5. CASE SaveRollbackFailed
    BY <1>5, SettledIntent DEF SaveRollbackFailed, Enter, SaveDeployment, Goto, Settled
  <1>6. CASE Finish
    BY <1>6, SettledIntent DEF Finish, Release, Settled
  <1> QED
    BY <1>2, <1>3, <1>4, <1>5, <1>6 DEF Rollback

LEMMA IntentStep ==
    ASSUME Known, Intent, [Next]_vars, MaxFaults <= 1
    PROVE  Intent'
  <1>1. CASE Staging
    <2>1. pc' \in Settled
      BY <1>1 DEF Staging, SaveReceiving, Abandon, Receive, SaveVerifying, Prepare,
                  SaveReady, Reverify, Enter, SaveDeployment, Goto, Release, Settled
    <2> QED
      BY <2>1, SettledIntent
  <1>2. CASE Retention
    <2>1. pc' \in Settled
      BY <1>2 DEF Retention, Cleanup, PruneDone, PruneDirectory, Goto, Release, Settled
    <2> QED
      BY <2>1, SettledIntent
  <1>3. CASE RecoverDone \/ RecoverStart \/ RecoverCheck \/ SaveRecovered
    <2>1. pc' \in Settled
      BY <1>3 DEF RecoverDone, RecoverStart, StartService, RecoverCheck, CheckHealth,
                  SaveRecovered, Enter, SaveDeployment, Goto, Release, Settled
    <2> QED
      BY <2>1, SettledIntent
  <1>4. ASSUME NEW d \in Deployment, RecoverNext(d) PROVE Intent'
    <2>1. \/ pc' \in Settled
          \/ /\ pc' = "saveRollingBack" /\ cur' = d /\ mem' = journal[d] /\ UNCHANGED journal
             /\ journal[d].status \in Unresolved \ {"recovery_pending"}
      BY <1>4 DEF RecoverNext, Release, Settled
    <2>2. CASE pc' = "saveRollingBack"
      <3>1. IsUnresolved(cur)' /\ (mem'.backupComplete => Recorded')
        BY <2>1, <2>2 DEF Settled, IsUnresolved, Recorded, Restorable
      <3> QED
        BY <2>2, <3>1 DEF Intent, StartIsRecorded, RollbackIsKnown, InstallIsBackedUp,
                          Started, RollbackSteps, Restoring
    <2> QED
      BY <2>1, <2>2, SettledIntent
  <1>5. CASE Recover \/ Restart \/ WatchdogRestart \/ CleanupDisk
             \/ \E d \in Deployment : Upload(d) \/ Activate(d) \/ DiscardUnstarted(d)
    <2>1. pc' \in Settled
      BY <1>5 DEF Recover, Restart, WatchdogRestart, CleanupDisk, Upload, Activate,
                  DiscardUnstarted, worker, Settled
    <2> QED
      BY <2>1, SettledIntent
  <1>6. ASSUME NEW d \in Deployment, ManualRollback(d) PROVE Intent'
    <2> DEFINE record == [journal[d] EXCEPT !.status = "rolling_back", !.manual = TRUE]
    <2>1. record.status = "rolling_back" /\ record.backupComplete = journal[d].backupComplete
      BY DEF Known, Typed, TypeOK, Journal
    <2>2. /\ journal[d].backupComplete
          /\ \/ pc' \in Settled
             \/ /\ pc' = "saveRollingBack" /\ cur' = d /\ mem' = record
                /\ journal' = [Swept EXCEPT ![d] = record]
      BY <1>6 DEF ManualRollback, worker, Settled
    <2> HIDE DEF record
    <2>3. CASE pc' = "saveRollingBack"
      <3>1. Swept \in [Deployment -> Journal]
        BY SweptType DEF Known, Typed, TypeOK
      <3>2. journal'[d] = record
        BY <2>2, <2>3, <3>1 DEF Settled
      <3>3. IsUnresolved(cur)' /\ Recorded'
        BY <2>1, <2>2, <2>3, <3>2 DEF Settled, IsUnresolved, Recorded, Restorable, Unresolved
      <3> QED
        BY <2>3, <3>3 DEF Intent, StartIsRecorded, RollbackIsKnown, InstallIsBackedUp,
                          Started, RollbackSteps, Restoring
    <2> QED
      BY <2>2, <2>3, SettledIntent
  <1>7. CASE Crash
    BY <1>7, SettledIntent DEF Crash, Release, Settled
  <1>8. CASE \/ \E p \in ProviderPath : CoreEdit(p)
             \/ \E d \in Corruptible : BackupRots(d)
             \/ UNCHANGED vars
    <2>1. UNCHANGED <<journal, effective, pc, cur, mem, hot, faults>>
      BY <1>8 DEF CoreEdit, BackupRots, worker, budget, vars, disk
    <2> QED
      BY <2>1, SameRecorded
      DEF Intent, StartIsRecorded, RollbackIsKnown, InstallIsBackedUp, IsUnresolved,
          BackedUp, Listed
  <1> QED
    BY <1>1, <1>2, <1>3, <1>4, <1>5, <1>6, <1>7, <1>8, ActivationIntent, RollbackIntent
    DEF Next, WorkerStep, Recovery, Request, Environment

LEMMA IntentShowsDurable == Intent => RollbackIntentDurable
  BY DEF Intent, RollbackIsKnown, RollbackIntentDurable

LEMMA AlwaysIntent ==
    ASSUME MaxFaults <= 1
    PROVE  Spec => [](Known /\ Intent)
  <1>1. Init => Known /\ Intent
    <2>1. Init => Intent
      BY DEF Init, Intent, StartIsRecorded, RollbackIsKnown, InstallIsBackedUp, Started,
             RollbackSteps, Restoring
    <2> QED
      BY <2>1, TypedInit, OutcomeInit, UnresolvedIsCurrentInit, ConsistentInit,
         IntentShowsDurable
      DEF Known
  <1>2. Known /\ Intent /\ [Next]_vars => (Known /\ Intent)'
    BY IntentStep, ConsistentStep, TypedStep, OutcomeStep, UnresolvedIsCurrentStep DEF Intent, RollbackIsKnown,
       RollbackIntentDurable, Known
  <1> QED
    BY <1>1, <1>2, PTL DEF Spec

\* rollbackDeployment persists its intent first.  One failing file operation
\* cannot prevent it: while a rollback runs, its journal is one that recovery
\* picks up.  (Two can: see the run that refutes it.)
THEOREM IntentIsDurable ==
    ASSUME MaxFaults <= 1
    PROVE  Spec => []RollbackIntentDurable
  <1>1. Known => RollbackIntentDurable
    BY DEF Known
  <1> QED
    BY AlwaysIntent, <1>1, PTL

\* With at most one failing file operation, and however many crashes, the
\* directory is the one its active manifest describes whenever no transaction
\* is unresolved: no half-installed file is left.
THEOREM LiveIsWhole ==
    ASSUME MaxFaults <= 1
    PROVE  Spec => []LiveMatchesActive
  BY IntentIsDurable, LiveIsConsistent, PTL

-----------------------------------------------------------------------------
(* No live file changes before its backup is durable.                      *)

\* The steps that write a live file, and the core's own edits.
LEMMA LiveIsWritten ==
    ASSUME Typed, [Next]_vars, NEW p \in Path, live'[p] # live[p]
    PROVE  \/ live'[p] = Edited /\ p \in ProviderPath
           \/ ReplaceFile(p) \/ RestoreFile(p)
  <1>1. CASE \E q \in Path : ReplaceFile(q) \/ RestoreFile(q)
    BY <1>1 DEF ReplaceFile, RestoreFile, Typed, TypeOK
  <1>2. CASE \E q \in ProviderPath : CoreEdit(q)
    BY <1>2 DEF CoreEdit, Typed, TypeOK
  <1>3. CASE Staging
    BY <1>3 DEF Staging, SaveReceiving, Abandon, Receive, SaveVerifying, Prepare,
                SaveReady, Reverify, Enter, SaveDeployment
  <1>4. CASE \/ SaveStopping \/ SaveBackingUp \/ BackupDone \/ SaveReplacing
             \/ SaveReloading \/ SaveStarting \/ SaveChecking \/ SaveSucceeded
             \/ SaveFailed \/ SaveRollingBack \/ SaveRolledBack \/ SaveRollbackFailed
             \/ SaveRecovered
    BY <1>4 DEF SaveStopping, SaveBackingUp, BackupDone, SaveReplacing, SaveReloading,
                SaveStarting, SaveChecking, SaveSucceeded, SaveFailed, SaveRollingBack,
                SaveRolledBack, SaveRollbackFailed, SaveRecovered, Enter, SaveDeployment
  <1>5. CASE \/ Precheck \/ Stop \/ ReplaceDone \/ Reload \/ Start \/ Check \/ WriteActive
             \/ RollbackStop \/ VerifyBackups \/ RestoreActive \/ RollbackStart
             \/ RollbackCheck \/ Finish \/ \E q \in Path : BackupFile(q)
    BY <1>5 DEF Precheck, Stop, StopService, ReplaceDone, Reload, Start, StartService,
                Check, CheckHealth, WriteActive, RollbackStop, VerifyBackups,
                RestoreActive, RollbackStart, RollbackCheck, Finish, BackupFile, disk
  <1>6. CASE Retention \/ RecoverDone \/ RecoverStart \/ RecoverCheck
             \/ \E d \in Deployment : RecoverNext(d)
    BY <1>6 DEF Retention, Cleanup, PruneDone, PruneDirectory, RecoverDone, RecoverStart,
                StartService, RecoverCheck, CheckHealth, RecoverNext, disk
  <1>7. CASE Request \/ Crash \/ (\E d \in Corruptible : BackupRots(d)) \/ UNCHANGED vars
    BY <1>7 DEF Request, Recover, Restart, WatchdogRestart, CleanupDisk, Upload, Activate,
                ManualRollback, DiscardUnstarted, Crash, BackupRots, vars, disk
  <1> QED
    BY <1>1, <1>2, <1>3, <1>4, <1>5, <1>6, <1>7
    DEF Next, WorkerStep, Activation, Rollback, Recovery, Environment

\* The header of deployment.go: nothing in the live directory changes before
\* the backup is durable.  With at most one failing file operation, every
\* change but the core's own is covered by the backups of a journal that a
\* crash would leave to recovery.
THEOREM WritesAreJournaled ==
    ASSUME MaxFaults <= 1
    PROVE  Spec => LiveWritesAreJournaled
  <1> DEFINE Covered(p) ==
        \E d \in Deployment : /\ IsUnresolved(d) /\ journal[d].backupComplete
                              /\ journal[d].backups[p] # Unsaved
             Step ==
               \A p \in Path : live'[p] # live[p] =>
                 \/ live'[p] = Edited /\ p \in ProviderPath
                 \/ \E d \in Deployment : /\ IsUnresolved(d) /\ journal[d].backupComplete
                                          /\ journal[d].backups[p] # Unsaved
  <1>1. Known /\ Intent /\ [Next]_vars => Step
    <2> SUFFICES ASSUME Known, Intent, [Next]_vars, NEW p \in Path, live'[p] # live[p],
                        ReplaceFile(p) \/ RestoreFile(p)
                 PROVE  Covered(p)
      BY LiveIsWritten DEF Known
    <2>1. cur \in Deployment /\ pc \in {"replace", "restore"}
      BY DEF ReplaceFile, RestoreFile, Known, Typed, Resting
    <2>2. Recorded
      BY <2>1 DEF Known, Consistent, WorkerKnows, ChangeIsRecorded, BackupIsComplete,
                  Intent, RollbackIsKnown, Restoring
    <2>3. p \in BackedUp
      BY DEF RestoreFile, ReplaceFile, Stale, Intent, InstallIsBackedUp
    <2> QED
      BY <2>1, <2>2, <2>3 DEF Recorded, Restorable, IsUnresolved, BackedUp
  <1>2. Step => [Step]_live
    OBVIOUS
  <1> QED
    BY AlwaysIntent, <1>1, <1>2, PTL DEF Spec, LiveWritesAreJournaled

-----------------------------------------------------------------------------
(* Retention.                                                              *)

Gone == {"absent", "unstarted", "remnant"}
\* What the lock holder prunes was complete, and is not in force; a directory
\* it gives up never got beyond its first record.
PruneIsOld ==
    pc = "prune" =>
        \A d \in scan : /\ d # active.id
                        /\ journal[d].status \in Completed \cup {"unstarted", "remnant"}
FirstRecord ==
    pc \in {"saveReceiving", "abandon"} => journal[cur].status \in {"unstarted", "receiving"}
BackupStatus == pc = "backup" => mem.status = "backing_up"
Retained == PruneIsOld /\ FirstRecord /\ BackupStatus

LEMMA RetainedInit == Init => Retained
  BY DEF Init, Retained, PruneIsOld, FirstRecord, BackupStatus

LEMMA RetainedStep ==
    ASSUME Typed, Retained, [Next]_vars
    PROVE  Retained'
  <1> USE DEF Retained, PruneIsOld, FirstRecord, BackupStatus
  <1>1. CASE UNCHANGED vars
    BY <1>1 DEF vars, disk, worker, loop
  <1>2. CASE pc' \notin {"prune", "saveReceiving", "abandon", "backup"}
    BY <1>2
  <1>3. ASSUME pc' \in {"prune", "saveReceiving", "abandon", "backup"}, ~UNCHANGED vars
        PROVE  \/ SaveReceiving \/ Cleanup \/ SaveBackingUp
               \/ \E d \in Deployment : Upload(d) \/ PruneDirectory(d) \/ BackupRots(d)
               \/ \E p \in Path : CoreEdit(p) \/ BackupFile(p)
    <2> USE DEF Enter, SaveDeployment, Goto, Release, FailUnchanged, ReloadFailed,
                StopService, StartService, CheckHealth
    <2>1. ASSUME Staging PROVE SaveReceiving
      BY <1>3, <2>1 DEF Staging, SaveReceiving, Abandon, Receive, SaveVerifying, Prepare, SaveReady,
         Reverify
    <2>2. ASSUME Activation PROVE SaveBackingUp \/ \E p \in Path : BackupFile(p)
      BY <1>3, <2>2 DEF Activation, Precheck, SaveStopping, Stop, SaveBackingUp, BackupDone,
         SaveReplacing, ReplaceDone, SaveReloading, Reload, SaveStarting, Start, SaveChecking,
         Check, WriteActive, SaveSucceeded, SaveFailed, BackupFile, ReplaceFile
    <2>3. ASSUME Rollback PROVE FALSE
      BY <1>3, <2>3 DEF Rollback, SaveRollingBack, RollbackStop, VerifyBackups, RestoreActive,
         RollbackStart, RollbackCheck, SaveRolledBack, SaveRollbackFailed, Finish, RestoreFile
    <2>4. ASSUME Recovery PROVE FALSE
      BY <1>3, <2>4 DEF Recovery, RecoverDone, RecoverStart, RecoverCheck, SaveRecovered,
         RecoverNext
    <2>5. ASSUME Retention PROVE Cleanup \/ \E d \in Deployment : PruneDirectory(d)
      BY <1>3, <2>5 DEF Retention, PruneDone
    <2>6. ASSUME Request PROVE \E d \in Deployment : Upload(d)
      BY <1>3, <2>6 DEF Request, Recover, Restart, WatchdogRestart, CleanupDisk, Activate,
         ManualRollback, DiscardUnstarted, worker
    <2>7. ASSUME Environment
          PROVE  (\E d \in Deployment : BackupRots(d)) \/ \E p \in Path : CoreEdit(p)
      BY <1>3, <2>7, DeploymentAssumption DEF Environment, Crash
    <2> QED
      BY <1>3, <2>1, <2>2, <2>3, <2>4, <2>5, <2>6, <2>7 DEF Next, WorkerStep
  <1>4. CASE SaveReceiving
    <2>1. pc = "saveReceiving" /\ Entered("receiving", "receive", "abandon")
      BY <1>4, EnterFacts DEF SaveReceiving, Resting
    <2> QED
      BY <2>1 DEF Entered
  <1>10. CASE SaveBackingUp
    <2>1. Entered("backing_up", "backup", FailUnchanged)
      BY <1>10, EnterFacts DEF SaveBackingUp, Resting
    <2> QED
      BY <2>1 DEF Entered, FailUnchanged
  <1>11. ASSUME NEW p \in Path, BackupFile(p)
         PROVE  Retained'
    BY <1>11 DEF BackupFile, Typed, TypeOK, Journal, Goto, FailUnchanged
  <1>5. CASE Cleanup
    BY <1>5 DEF Cleanup, CompletedOnDisk, Goto
  <1>6. ASSUME NEW d \in Deployment, Upload(d)
        PROVE  Retained'
    BY <1>6, SweptType, BlankFacts DEF Upload, Typed, TypeOK
  <1>7. ASSUME NEW d \in Deployment, PruneDirectory(d)
        PROVE  Retained'
    BY <1>7, BlankFacts DEF PruneDirectory, Goto, Typed, TypeOK
  <1>8. ASSUME NEW d \in Deployment, BackupRots(d)
        PROVE  Retained'
    BY <1>8 DEF BackupRots, worker
  <1>9. ASSUME NEW p \in Path, CoreEdit(p)
        PROVE  Retained'
    BY <1>9 DEF CoreEdit, worker
  <1> QED
    BY <1>1, <1>2, <1>3, <1>4, <1>5, <1>6, <1>7, <1>8, <1>9, <1>10, <1>11

\* A journal goes only if nobody needs it any more.
LEMMA GoneIsOld ==
    ASSUME Typed, Retained, [Next]_vars, NEW d \in Deployment,
           journal'[d] # journal[d], journal'[d].status \in Gone
    PROVE  \/ journal[d].status \in {"absent", "unstarted", "receiving", "remnant"}
           \/ journal[d].status \in Completed /\ d # active.id
  <1> USE DEF Gone
  <1>1. journal \in [Deployment -> Journal] /\ mem \in Journal /\ Swept \in [Deployment -> Journal]
    BY SweptType DEF Typed, TypeOK
  <1>2. ASSUME NEW from, from \notin Resting, NEW status, NEW ok, NEW err,
               Enter(from, status, ok, err), status \notin Gone
        PROVE  FALSE
    <2>1. Entered(status, ok, err)
      BY <1>2, EnterFacts
    <2> QED
      BY <1>2, <2>1 DEF Entered
  <1>3. CASE Staging
    <2>1. CASE Abandon
      BY <1>1, <2>1 DEF Abandon, Retained, FirstRecord, Typed, Resting
    <2>2. CASE SaveReceiving \/ SaveVerifying
      BY <1>2, <2>2 DEF SaveReceiving, SaveVerifying, Resting
    <2>3. CASE SaveReady \/ Reverify
      BY <2>3, <1>1 DEF SaveReady, Reverify, Typed, Resting, Journal
    <2>4. CASE Receive \/ Prepare
      BY <2>4 DEF Receive, Prepare
    <2> QED
      BY <1>3, <2>1, <2>2, <2>3, <2>4 DEF Staging
  <1>4. CASE Activation
    <2>1. CASE BackupDone
      BY <2>1, <1>1 DEF BackupDone, Typed, Resting, Journal, SaveDeployment, Retained, BackupStatus
    <2>2. CASE SaveStopping \/ SaveBackingUp \/ SaveReplacing \/ SaveReloading \/ SaveStarting
                 \/ SaveChecking \/ SaveSucceeded \/ SaveFailed
      BY <1>2, <2>2 DEF SaveStopping, SaveBackingUp, SaveReplacing, SaveReloading, SaveStarting,
         SaveChecking, SaveSucceeded, SaveFailed, Resting
    <2>3. CASE ~(BackupDone \/ SaveStopping \/ SaveBackingUp \/ SaveReplacing \/ SaveReloading
                 \/ SaveStarting \/ SaveChecking \/ SaveSucceeded \/ SaveFailed)
      BY <1>4, <2>3 DEF Activation, Precheck, Stop, StopService, ReplaceDone, Reload, Start,
         StartService, Check, CheckHealth, WriteActive, BackupFile, ReplaceFile, disk
    <2> QED
      BY <2>1, <2>2, <2>3
  <1>5. CASE Rollback
    <2>1. CASE SaveRollingBack \/ SaveRolledBack \/ SaveRollbackFailed
      BY <1>2, <2>1 DEF SaveRollingBack, SaveRolledBack, SaveRollbackFailed, Resting
    <2>2. CASE ~(SaveRollingBack \/ SaveRolledBack \/ SaveRollbackFailed)
      BY <1>5, <2>2 DEF Rollback, RollbackStop, StopService, VerifyBackups, RestoreActive,
         RollbackStart, StartService, RollbackCheck, CheckHealth, Finish, RestoreFile, disk
    <2> QED
      BY <2>1, <2>2
  <1>6. CASE Retention
    BY <1>1, <1>6 DEF Cleanup, PruneDone, disk, PruneDirectory, Retention, Retained, PruneIsOld
  <1>7. CASE Recovery
    <2>1. CASE SaveRecovered
      BY <1>2, <2>1 DEF SaveRecovered, Resting
    <2>2. CASE RecoverDone \/ RecoverStart \/ RecoverCheck
      BY <2>2 DEF RecoverDone, RecoverStart, StartService, RecoverCheck, CheckHealth, disk
    <2>3. ASSUME NEW e \in Deployment, RecoverNext(e)
          PROVE  d = e /\ journal[e].status \in {"unstarted", "receiving", "verifying"}
                       /\ (journal[e].status # "unstarted" => journal'[d].status = "failed")
      BY <1>1, <2>3 DEF RecoverNext, Journal
    <2> QED
      BY <1>7, <2>1, <2>2, <2>3 DEF Recovery
  <1>8. CASE Request
    <2>1. Swept[d] = journal[d] \/ journal[d].status = "unstarted"
      BY DEF Swept
    <2>2. CASE Recover \/ WatchdogRestart \/ CleanupDisk \/ Restart
      BY <2>1, <2>2 DEF Recover, WatchdogRestart, CleanupDisk, Restart, disk
    <2>3. ASSUME NEW e \in Deployment, Upload(e) \/ DiscardUnstarted(e)
          PROVE  journal[d].status \in {"absent", "unstarted"}
      BY <1>1, <2>1, <2>3 DEF Upload, DiscardUnstarted
    <2>4. ASSUME NEW e \in Deployment, Activate(e) \/ ManualRollback(e)
          PROVE  journal[d].status = "unstarted"
      <3>1. /\ [journal[e] EXCEPT !.status = "verifying"].status = "verifying"
            /\ [journal[e] EXCEPT !.status = "rolling_back", !.manual = TRUE].status
                 = "rolling_back"
        BY <1>1 DEF Journal
      <3> QED
        BY <1>1, <2>1, <2>4, <3>1 DEF Activate, ManualRollback
    <2> QED
      BY <1>8, <2>2, <2>3, <2>4 DEF Request
  <1>9. CASE Environment
    BY <1>9 DEF Environment, Crash, CoreEdit, BackupRots, disk
  <1>10. CASE UNCHANGED vars
    BY <1>10 DEF vars, disk
  <1> QED
    BY <1>3, <1>4, <1>5, <1>6, <1>7, <1>8, <1>9, <1>10 DEF Next, WorkerStep

\* A candidate that waits for its activation keeps its files.
LEMMA ReadyIsStaged ==
    ASSUME Typed, Retained, [Next]_vars, NEW d \in Deployment,
           journal[d].status = "ready", d \in staged
    PROVE  d \in staged'
  <1> USE DEF SaveDeployment, StopService, StartService, CheckHealth, Enter, disk
  <1>1. CASE Staging
    BY <1>1 DEF Staging, SaveReceiving, Abandon, Receive, SaveVerifying, Prepare, SaveReady,
       Reverify
  <1>2. CASE Activation
    BY <1>2 DEF Activation, Precheck, SaveStopping, Stop, SaveBackingUp, BackupDone, SaveReplacing,
       ReplaceDone, SaveReloading, Reload, SaveStarting, Start, SaveChecking, Check, WriteActive,
       SaveSucceeded, SaveFailed, BackupFile, ReplaceFile
  <1>3. CASE Rollback
    BY <1>3 DEF Rollback, SaveRollingBack, RollbackStop, VerifyBackups, RestoreActive,
       RollbackStart, RollbackCheck, SaveRolledBack, SaveRollbackFailed, Finish, RestoreFile
  <1>4. CASE Retention
    BY <1>4 DEF Retention, Cleanup, PruneDone, PruneDirectory, CompletedOnDisk, Completed,
       Retained, PruneIsOld
  <1>5. CASE Recovery
    BY <1>5 DEF Recovery, RecoverDone, RecoverStart, RecoverCheck, SaveRecovered, RecoverNext
  <1>6. CASE Request
    BY <1>6 DEF Request, Recover, Restart, WatchdogRestart, CleanupDisk, CompletedOnDisk,
       Completed, Upload, Activate, ManualRollback, DiscardUnstarted
  <1>7. CASE Environment \/ UNCHANGED vars
    BY <1>7 DEF Environment, Crash, CoreEdit, BackupRots, vars
  <1> QED
    BY <1>1, <1>2, <1>3, <1>4, <1>5, <1>6, <1>7 DEF Next, WorkerStep

\* However many operations fail: retention removes neither a candidate that
\* may still be activated nor a journal that a recovery, or a rollback on
\* request, needs, and a candidate keeps its files.
THEOREM RetentionKeeps == Spec => RetentionIsSafe
  <1> DEFINE Step ==
        \A d \in Deployment :
         /\ \/ journal[d].status \in Unresolved \cup {"ready"}
            \/ journal[d].status \in Completed /\ active.id = d
            => journal'[d].status \notin {"absent", "unstarted", "remnant"}
         /\ journal[d].status = "ready" /\ d \in staged => d \in staged'
  <1>1. Typed /\ Retained /\ [Next]_vars => Step
    BY ReadyIsStaged, GoneIsOld DEF Unresolved, Completed, Gone
  <1>2. Step => [Step]_<<journal, staged>>
    OBVIOUS
  <1> QED
    BY AlwaysTyped, RetainedInit, RetainedStep, <1>1, <1>2, PTL DEF Spec, RetentionIsSafe

-----------------------------------------------------------------------------
(***************************************************************************)
(* The deployment engine implements AtomicConfig: seen through what its    *)
(* recovery would restore, a deployment installs all of its files or none, *)
(* at one instant, if at most one file operation fails.                    *)
(*                                                                         *)
(* The instant is the record of the success: what the core's directory     *)
(* goes through before it is hidden by the backups of the journal that is  *)
(* pending.  A journal may become or cease to be pending only where the    *)
(* directory is the one it would restore (Synced).                         *)
(***************************************************************************)

\* Every deployment ships a file that the core does not rewrite: its
\* configuration.
ShipsConfig == \A d \in Deployment : Files[d] \cap StablePath # {}

\* The directory and the active manifest are those the record would restore.
Synced(record) ==
    /\ \A p \in StablePath : record.backups[p] # Unsaved => live[p] = record.backups[p]
    /\ record.previous = active
\* What the candidate replaces.
Managed == Listed(effective[cur]) \cup Listed(mem.previous.files)
Ships(files) == \E p \in StablePath : files[p] # Missing
Switched == \A p \in Managed \cap StablePath : live[p] = effective[cur][p]
\* The journal would restore what the lock holder would.
Alike == journal[cur].backups = mem.backups /\ journal[cur].previous = mem.previous
Matched == cur \in Pending /\ Alike

\* A journal that waits for a start of the core has been restored already.
LegacyIsSynced ==
    \A d \in Deployment : journal[d].status = "recovery_pending" =>
        journal[d].backupComplete /\ Synced(journal[d])

\* The steps at which the candidate's effective manifest is written.
Candidate == {"saveReady", "reverify", "precheck", "saveSucceeded"} \cup Switching
CurrentShips == Ships(effective[cur])
CandidateShips == pc \in Candidate => CurrentShips
ReadyShips == \A d \in Deployment : journal[d].status = "ready" => Ships(effective[d])
SucceededIsBackedUp ==
    \A d \in Deployment : journal[d].status = "succeeded" =>
        \E p \in StablePath : journal[d].backups[p] # Unsaved
CurrentIsOpen ==
    pc \notin Away \cup {"prune"} =>
        \/ journal[cur].status # "succeeded"
        \/ pc = "saveRollingBack" /\ mem.backupComplete
UnsavedIsUnrecorded ==
    pc \notin Away \cup {"prune"} /\ ~mem.backupComplete => ~journal[cur].backupComplete

KeepsGeo == \A p \in GeoPath : mem.previous.files[p] # Missing => effective[cur][p] # Missing
GeoIsCarried == pc \in Switching \cup {"saveSucceeded"} => KeepsGeo
CopiesLive == \A p \in BackedUp \cap StablePath : mem.backups[p] = live[p]
BackupIsLive == pc = "backup" => CopiesLive /\ BackedUp \subseteq Managed
DoneIsSwitched == \A p \in done \cap StablePath : live[p] = effective[cur][p]
InstalledIsSwitched ==
    /\ pc \in {"saveReplacing", "replace", "saveSucceeded"} \cup Installed \/ LateStop =>
         BackedUp = Managed
    /\ pc = "replace" => DoneIsSwitched
    /\ pc \in Installed \cup {"saveSucceeded"} \/ LateStop => Switched
CandidateIsActive == active = [id |-> cur, files |-> effective[cur]]
SucceedingIsActive == pc = "saveSucceeded" => CandidateIsActive

\* The steps of a rollback and of a recovery, once the intent is recorded.
Undoing == RollbackSteps \cup {"recoverStart", "recoverCheck", "saveRecovered"}
MemSynced == Synced(mem)
RecordSynced == Synced(journal[cur])
\* How the recorded intent of a rollback may change the journal.
Resumed == Matched
Begun == MemSynced /\ ~journal[cur].backupComplete /\ journal[cur].status # "succeeded"
\* Its outcome was recorded, but the lock holder could not know.
Restored == MemSynced /\ ~IsUnresolved(cur)
Retracted == Alike /\ journal[cur].status = "succeeded" /\ active.id = cur

RestoredIsLive == \A p \in done \cap BackedUp \cap StablePath : live[p] = mem.backups[p]

RestoredIsSynced ==
    /\ pc = "saveReplacing" => Matched /\ MemSynced
    /\ pc = "saveFailed" /\ cur \in Pending => RecordSynced
    /\ pc = "saveRollingBack" /\ mem.backupComplete => Resumed \/ Begun \/ Retracted
    /\ pc \in Undoing /\ mem.backupComplete => Matched
    /\ pc = "saveRollbackFailed" /\ mem.backupComplete => Matched \/ Restored
    /\ pc = "restore" => RestoredIsLive
    /\ pc \in {"rollbackStart", "rollbackCheck", "saveRolledBack"} /\ mem.backupComplete =>
         MemSynced
    /\ pc \in {"recoverStart", "recoverCheck", "saveRecovered"} =>
         mem = journal[cur] /\ mem.status = "recovery_pending"

JournalsAreFaithful == LegacyIsSynced /\ ReadyShips /\ SucceededIsBackedUp
WorkerIsFaithful ==
    /\ CandidateShips /\ CurrentIsOpen /\ UnsavedIsUnrecorded /\ GeoIsCarried
    /\ BackupIsLive /\ InstalledIsSwitched /\ SucceedingIsActive /\ RestoredIsSynced
Faithful == JournalsAreFaithful /\ WorkerIsFaithful

-----------------------------------------------------------------------------
(* The abstract state, for at most one pending journal.                    *)

\* The files that a recovery from the record makes of the directory.
Recovered(record, image) ==
    [p \in StablePath |-> IF record.backups[p] # Unsaved THEN record.backups[p] ELSE image[p]]
UndoOf(record) ==
    IF record.status = "succeeded"
      THEN [files |-> OnStable(record.backups), previous |-> ManifestOnStable(record.previous)]
      ELSE [files |-> [p \in StablePath |-> Unsaved], previous |-> ManifestOnStable(NoManifest)]

LEMMA PendingView ==
    ASSUME AtMostOneUnresolved, NEW d \in Deployment, d \in Pending
    PROVE  /\ AbstractInstalled = Recovered(journal[d], live)
           /\ AbstractManifest = ManifestOnStable(journal[d].previous)
  BY DEF Pending, AtMostOneUnresolved, AbstractInstalled, AbstractManifest, Recovered

\* The same in the next state.
LEMMA PendingViewNext ==
    ASSUME AtMostOneUnresolved', NEW d \in Deployment, d \in Pending'
    PROVE  /\ AbstractInstalled' = Recovered(journal'[d], live')
           /\ AbstractManifest' = ManifestOnStable(journal'[d].previous)
  BY DEF Pending, AtMostOneUnresolved, AbstractInstalled, AbstractManifest, Recovered, ManifestOnStable, OnStable,
     StablePath

LEMMA RestingView ==
    ASSUME Pending = {}
    PROVE  AbstractInstalled = OnStable(live) /\ AbstractManifest = ManifestOnStable(active)
  BY DEF AbstractInstalled, AbstractManifest, OnStable

LEMMA RestingViewNext ==
    ASSUME Pending' = {}
    PROVE  AbstractInstalled' = OnStable(live') /\ AbstractManifest' = ManifestOnStable(active')
  BY DEF AbstractInstalled, AbstractManifest, OnStable, ManifestOnStable, StablePath

LEMMA UndoView == AbstractUndo = [d \in Deployment |-> UndoOf(journal[d])]
  BY DEF AbstractUndo, UndoOf

\* A step is invisible if it keeps what the pending journal would restore, or
\* if the journal becomes or ceases to be pending where that is the directory.
KeepsUndo == \A d \in Deployment : UndoOf(journal'[d]) = UndoOf(journal[d])
KeepsPending ==
    \E d \in Deployment :
      /\ d \in Pending /\ d \in Pending'
      /\ journal'[d].backups = journal[d].backups /\ journal'[d].previous = journal[d].previous
      /\ \A p \in StablePath : live'[p] # live[p] => journal[d].backups[p] # Unsaved
KeepsResting ==
    /\ Pending = {} /\ Pending' = {} /\ active' = active
    /\ \A p \in StablePath : live'[p] = live[p]
Opens ==
    /\ Pending = {} /\ UNCHANGED <<live, active>>
    /\ \E d \in Deployment : d \in Pending' /\ Synced(journal'[d])
Closes ==
    /\ Pending' = {} /\ UNCHANGED <<live, active>>
    /\ \E d \in Deployment : d \in Pending /\ Synced(journal[d])
Invisible == KeepsUndo /\ (KeepsPending \/ KeepsResting \/ Opens \/ Closes)

LEMMA SyncedView ==
    ASSUME NEW record, Synced(record)
    PROVE  /\ Recovered(record, live) = OnStable(live)
           /\ ManifestOnStable(record.previous) = ManifestOnStable(active)
  BY DEF Synced, Recovered, OnStable

LEMMA InvisibleStutters ==
    ASSUME AtMostOneUnresolved, AtMostOneUnresolved', Invisible
    PROVE  UNCHANGED <<AbstractInstalled, AbstractManifest, AbstractUndo>>
  <1>1. AbstractUndo' = AbstractUndo
    BY UndoView DEF AbstractUndo, UndoOf, ManifestOnStable, OnStable, StablePath, NoManifest, Invisible, KeepsUndo
  <1>2. CASE KeepsPending
    BY <1>2, <1>1, PendingView, PendingViewNext DEF KeepsPending, Recovered, StablePath
  <1>3. CASE KeepsResting
    BY <1>1, <1>3, RestingView, RestingViewNext DEF KeepsResting, OnStable, StablePath
  <1>4. CASE Opens
    BY <1>4, <1>1, RestingView, PendingViewNext, SyncedView DEF Opens, Recovered, StablePath
  <1>5. CASE Closes
    BY <1>5, <1>1, PendingView, RestingViewNext, SyncedView DEF Closes
  <1> QED
    BY <1>2, <1>3, <1>4, <1>5 DEF Invisible

-----------------------------------------------------------------------------
(* The visible steps.                                                      *)

LEMMA UndoViewNext == AbstractUndo' = [d \in Deployment |-> UndoOf(journal'[d])]
  BY DEF AbstractUndo, UndoOf, ManifestOnStable, OnStable, StablePath, NoManifest

LEMMA NothingToUndo ==
    ASSUME NEW record, record.status # "succeeded"
    PROVE  UndoOf(record) = Atomic!NoUndo
  BY DEF OnStable, NoFiles, StablePath, UndoOf, Atomic!NoUndo, Atomic!NoManifest, ManifestOnStable, NoManifest

LEMMA SomethingToUndo ==
    ASSUME SucceededIsBackedUp, NEW d \in Deployment, journal[d].status = "succeeded"
    PROVE  UndoOf(journal[d]) # Atomic!NoUndo
  BY DEF SucceededIsBackedUp, UndoOf, OnStable, Atomic!NoUndo

LEMMA UndoIsVisible ==
    ASSUME AtMostOneUnresolved', SucceededIsBackedUp, NEW d \in Deployment,
           Pending = {}, d \in Pending', UNCHANGED <<live, active>>,
           journal[d].status = "succeeded", active.id = d, journal'[d].status # "succeeded",
           journal'[d].backups = journal[d].backups, journal'[d].previous = journal[d].previous,
           \A e \in Deployment \ {d} : UndoOf(journal'[e]) = UndoOf(journal[e])
    PROVE  Atomic!Undo(d)
  <1>1. /\ AbstractInstalled = OnStable(live) /\ AbstractManifest = ManifestOnStable(active)
        /\ AbstractInstalled' = Recovered(journal[d], live)
        /\ AbstractManifest' = ManifestOnStable(journal[d].previous)
    BY RestingView, PendingViewNext DEF Recovered
  <1>2. AbstractUndo[d] = [files |-> OnStable(journal[d].backups),
                           previous |-> ManifestOnStable(journal[d].previous)]
    BY UndoView DEF UndoOf
  <1>3. AbstractUndo[d] # Atomic!NoUndo /\ AbstractManifest.id = d
    BY <1>1, UndoView, SomethingToUndo DEF ManifestOnStable
  <1>4. AbstractInstalled' = [p \in StablePath |->
                                IF AbstractUndo[d].files[p] = Unsaved
                                  THEN AbstractInstalled[p] ELSE AbstractUndo[d].files[p]]
    BY <1>1, <1>2 DEF Recovered, OnStable
  <1>5. AbstractUndo' = [AbstractUndo EXCEPT ![d] = Atomic!NoUndo]
    <2>1. UndoOf(journal'[d]) = Atomic!NoUndo
      BY NothingToUndo
    <2> QED
      BY <2>1, UndoView, UndoViewNext
  <1> QED
    BY <1>1, <1>2, <1>3, <1>4, <1>5 DEF Atomic!Undo

LEMMA ForgetIsVisible ==
    ASSUME AtMostOneUnresolved, AtMostOneUnresolved', SucceededIsBackedUp, NEW d \in Deployment,
           UNCHANGED <<live, active>>,
           journal[d].status = "succeeded", journal'[d].status \notin Unresolved \cup {"succeeded"},
           \A e \in Deployment \ {d} : journal'[e] = journal[e]
    PROVE  Atomic!Forget(d)
  <1>1. Pending' = Pending /\ \A e \in Pending : e # d
    BY DEF Pending, IsUnresolved, Unresolved
  <1>2. UNCHANGED <<AbstractInstalled, AbstractManifest>>
    BY <1>1, RestingView, RestingViewNext, PendingView, PendingViewNext DEF Recovered, Pending
  <1>3. AbstractUndo[d] # Atomic!NoUndo
    BY UndoView, SomethingToUndo
  <1>4. AbstractUndo' = [AbstractUndo EXCEPT ![d] = Atomic!NoUndo]
    <2>1. UndoOf(journal'[d]) = Atomic!NoUndo
      BY NothingToUndo
    <2> QED
      BY <2>1, UndoView, UndoViewNext
  <1> QED
    BY <1>2, <1>3, <1>4 DEF Atomic!Forget

LEMMA SuccessIsVisible ==
    ASSUME Known, Faithful, SaveSucceeded, journal'[cur] = mem'
    PROVE  Atomic!Publish(cur)
  <1>1. /\ pc = "saveSucceeded" /\ Entered("succeeded", "cleanup", "saveRollingBack")
        /\ cur \in Deployment /\ effective \in [Deployment -> [Path -> FileState]]
        /\ StablePath \subseteq Path
    BY EnterFacts DEF SaveSucceeded, Resting, Known, Typed, TypeOK, Entered, StablePath
  <1>2. /\ cur \in Pending /\ journal[cur].backups = mem.backups
        /\ journal[cur].previous = mem.previous /\ journal[cur].status # "succeeded"
        /\ AtMostOneUnresolved
    BY <1>1 DEF Known, Consistent, WorkerKnows, ChangeIsRecorded, Recorded, Restorable, Pending,
                IsUnresolved, Unresolved, UnresolvedIsCurrent
  <1>3. BackedUp = Managed /\ Switched /\ active = [id |-> cur, files |-> effective[cur]]
        /\ Ships(effective[cur])
        /\ \A p \in GeoPath : mem.previous.files[p] # Missing => effective[cur][p] # Missing
    BY <1>1 DEF Faithful, WorkerIsFaithful, InstalledIsSwitched, SucceedingIsActive, CandidateIsActive,
                CandidateShips, CurrentShips, Candidate, GeoIsCarried, KeepsGeo
  <1>4. /\ mem'.status = "succeeded" /\ mem'.backups = mem.backups
        /\ mem'.previous = mem.previous /\ UNCHANGED <<live, active, effective, cur>>
        /\ \A d \in Deployment \ {cur} : journal'[d] = journal[d]
    BY <1>1 DEF Entered
  <1>5. Pending' = {}
    BY <1>1, <1>4 DEF Known, UnresolvedIsCurrent, IsUnresolved, Resting, Unresolved, Pending
  <1>6. /\ AbstractInstalled = Recovered(mem, live)
        /\ AbstractManifest = ManifestOnStable(mem.previous)
    BY <1>1, <1>2, PendingView DEF Recovered
  <1>7. /\ AbstractInstalled' = OnStable(live)
        /\ AbstractManifest' = [id |-> cur, files |-> OnStable(effective[cur])]
    BY <1>3, <1>4, <1>5, RestingViewNext DEF ManifestOnStable
  <1> DEFINE managed == Atomic!Listed(AbstractManifest'.files) \cup Atomic!Listed(AbstractManifest.files)
  <1>8. /\ Atomic!Listed(AbstractManifest'.files) = {p \in StablePath : effective[cur][p] # Missing}
        /\ Atomic!Listed(AbstractManifest.files) = {p \in StablePath : mem.previous.files[p] # Missing}
    BY <1>6, <1>7 DEF Atomic!Listed, ManifestOnStable, OnStable
  <1>9. managed = Managed \cap StablePath
    BY <1>1, <1>8 DEF Managed, Listed
  <1>10. \A p \in StablePath : p \in managed <=> mem.backups[p] # Unsaved
    BY <1>1, <1>3, <1>9 DEF BackedUp
  <1>11. \A p \in managed : live[p] = effective[cur][p]
    BY <1>3, <1>9 DEF Switched
  <1>12. AbstractManifest' \in [id : {cur}, files : [StablePath -> FileState]]
    BY <1>1, <1>7 DEF OnStable
  <1>13. AbstractUndo[cur] = Atomic!NoUndo
    BY <1>1, <1>2, UndoView, NothingToUndo
  <1>14. AbstractInstalled' =
           [p \in StablePath |-> IF p \in managed THEN AbstractManifest'.files[p]
                                                  ELSE AbstractInstalled[p]]
    BY <1>10, <1>11, <1>6, <1>7 DEF Recovered, OnStable
  <1>15. AbstractUndo' =
           [AbstractUndo EXCEPT ![cur] =
              [files |-> [p \in StablePath |-> IF p \in managed THEN AbstractInstalled[p]
                                                                ELSE Unsaved],
               previous |-> AbstractManifest]]
    <2>1. UndoOf(mem') = [files |-> OnStable(mem.backups),
                          previous |-> ManifestOnStable(mem.previous)]
      BY <1>4 DEF UndoOf
    <2>2. OnStable(mem.backups) = [p \in StablePath |-> IF p \in managed THEN AbstractInstalled[p]
                                                                         ELSE Unsaved]
      <3> HIDE DEF managed
      <3> QED
        BY <1>6, <1>10 DEF OnStable, Recovered
    <2> HIDE DEF managed
    <2> QED
      BY <1>1, <1>4, <1>6, <2>1, <2>2, UndoView, UndoViewNext
  <1>16. Atomic!Listed(AbstractManifest'.files) # {}
    BY <1>3, <1>8 DEF Ships
  <1>17. (GeoPath \ ProviderPath) \cap Atomic!Listed(AbstractManifest.files)
           \subseteq Atomic!Listed(AbstractManifest'.files)
    BY <1>3, <1>8
  <1> QED
    BY <1>12, <1>13, <1>14, <1>15, <1>16, <1>17 DEF Atomic!Publish

-----------------------------------------------------------------------------
(* The invisible steps.                                                    *)

LEMMA NothingHappens ==
    ASSUME UNCHANGED <<journal, live, active>>
    PROVE  UNCHANGED <<AbstractInstalled, AbstractManifest, AbstractUndo>>
  BY DEF AbstractInstalled, AbstractManifest, AbstractUndo, Pending, IsUnresolved,
         ManifestOnStable, OnStable, StablePath, NoManifest

\* The lock holder writes its own journal.
LEMMA OwnJournalWritten ==
    ASSUME UnresolvedIsCurrent, UnresolvedIsCurrent', pc \notin Resting, cur \in Deployment,
           UNCHANGED <<live, active>>,
           \A d \in Deployment \ {cur} : journal'[d] = journal[d],
           UndoOf(journal'[cur]) = UndoOf(journal[cur]),
           \/ cur \in Pending /\ cur \in Pending' /\ journal'[cur].backups = journal[cur].backups
                              /\ journal'[cur].previous = journal[cur].previous
           \/ cur \notin Pending /\ cur \notin Pending'
           \/ cur \notin Pending /\ cur \in Pending' /\ Synced(journal'[cur])
           \/ cur \in Pending /\ cur \notin Pending' /\ Synced(journal[cur])
    PROVE  UNCHANGED <<AbstractInstalled, AbstractManifest, AbstractUndo>>
  BY InvisibleStutters DEF KeepsUndo, Pending, UnresolvedIsCurrent, IsUnresolved, Invisible, KeepsPending,
     KeepsResting, Opens, Closes

LEMMA NoUndoKept ==
    ASSUME NEW record, NEW other, record.status # "succeeded", other.status # "succeeded"
    PROVE  UndoOf(record) = UndoOf(other)
  BY DEF UndoOf

LEMMA EnterIsInvisible ==
    ASSUME Known, Known', NEW status, NEW ok, NEW err, Entered(status, ok, err),
           pc \notin Resting, status # "succeeded", journal[cur].status # "succeeded",
           IF status \in Unresolved /\ mem.backupComplete
             THEN Matched \/ (cur \notin Pending /\ Synced(mem))
             ELSE cur \in Pending => Synced(journal[cur])
    PROVE  UNCHANGED <<AbstractInstalled, AbstractManifest, AbstractUndo>>
  <1>1. CASE journal'[cur] = journal[cur]
    <2>1. journal' = journal
      BY <1>1 DEF Entered, Known, Typed, TypeOK
    <2> QED
      BY <2>1, NothingHappens DEF Entered
  <1>2. CASE journal'[cur] = mem'
    BY <1>2, NoUndoKept, OwnJournalWritten DEF Entered, Synced, Pending, IsUnresolved, Known, Matched, Alike
  <1> QED
    BY <1>1, <1>2 DEF Entered

Same == UNCHANGED <<AbstractInstalled, AbstractManifest, AbstractUndo>>

\* Before the backup, nothing is recorded that a recovery would restore.
LEMMA UnbackedIsClosed ==
    ASSUME Known, Faithful, pc \notin Away \cup {"prune", "saveRollingBack"}, ~mem.backupComplete
    PROVE  cur \notin Pending /\ journal[cur].status # "succeeded"
  BY DEF Faithful, JournalsAreFaithful, WorkerIsFaithful, UnsavedIsUnrecorded, CurrentIsOpen, Pending

LEMMA StagingIsInvisible ==
    ASSUME Known, Known', Faithful, Staging
    PROVE  Same
  <1>1. /\ pc \in Unbacked /\ pc \notin Resting \cup Away \cup {"prune", "saveRollingBack"}
        /\ cur \in Deployment /\ mem \in Journal /\ ~mem.backupComplete
        /\ journal \in [Deployment -> Journal]
    BY DEF Staging, SaveReceiving, Abandon, Receive, SaveVerifying, Prepare, SaveReady,
           Reverify, Enter, Known, Typed, TypeOK, Unbacked, Resting, Away, Outcome,
           ReadyIsUnbacked
  <1>2. cur \notin Pending /\ journal[cur].status # "succeeded"
    BY <1>1, UnbackedIsClosed
  <1>3. CASE SaveReceiving
    BY <1>3, EnterFacts, <1>1, <1>2, EnterIsInvisible DEF Known, SaveReceiving, Resting, Same, Unresolved
  <1>4. CASE Abandon
    BY <1>1, <1>4, <1>2, BlankFacts, NoUndoKept, OwnJournalWritten DEF Abandon, Pending, Known, Same
  <1>5. CASE Receive \/ Prepare
    BY <1>5, NothingHappens DEF Receive, Prepare, Same
  <1>6. CASE SaveVerifying
    BY <1>6, EnterFacts, <1>1, <1>2, EnterIsInvisible DEF Known, SaveVerifying, Resting, Same, Unresolved
  <1>7. ASSUME SaveReady \/ Reverify
        PROVE  Same
    BY <1>1, <1>7, <1>2, NoUndoKept, OwnJournalWritten DEF SaveReady, Reverify, Journal, Pending, IsUnresolved,
       Unresolved, Known, Same
  <1> QED
    BY <1>3, <1>4, <1>5, <1>6, <1>7 DEF Staging

\* A write of a file that the pending journal covers, or that is not promised.
LEMMA HiddenWrite ==
    ASSUME Known, Known', UNCHANGED <<journal, cur>>, cur \in Pending, cur \in Deployment,
           \A p \in StablePath : live'[p] # live[p] => journal[cur].backups[p] # Unsaved
    PROVE  Same
  <1>1. KeepsUndo /\ KeepsPending
    BY DEF KeepsUndo, KeepsPending, Pending, IsUnresolved
  <1> QED
    BY <1>1, InvisibleStutters DEF Invisible, Known, UnresolvedIsCurrent, Same

\* While a candidate is installed, its journal is pending.
LEMMA InstalledIsMatched ==
    ASSUME Known, pc \in {"replace", "saveSucceeded"} \cup Installed \/ LateStop
    PROVE  Matched
  BY DEF Known, Consistent, WorkerKnows, ChangeIsRecorded, Recorded, Restorable, Matched,
         Alike, Pending, IsUnresolved, Typed, Resting, Installed, LateStop

LEMMA ActivationIsSimulated ==
    ASSUME Known, Known', Faithful, Activation
    PROVE  Same \/ Atomic!Next
  <1>1. /\ pc \notin Resting \cup Away \cup {"prune", "saveRollingBack"}
        /\ cur \in Deployment /\ mem \in Journal
        /\ journal \in [Deployment -> Journal]
        /\ journal[cur].status # "succeeded"
    BY DEF Activation, Precheck, SaveStopping, Stop, SaveBackingUp, BackupDone, SaveReplacing,
           ReplaceDone, SaveReloading, Reload, SaveStarting, Start, SaveChecking, Check,
           WriteActive, SaveSucceeded, SaveFailed, BackupFile, ReplaceFile, Enter, Known,
           Typed, TypeOK, Resting, Away, Faithful, JournalsAreFaithful, WorkerIsFaithful, CurrentIsOpen
  <1>2. CASE Precheck \/ Stop \/ ReplaceDone \/ Reload \/ Start \/ Check
    BY <1>2, NothingHappens DEF Precheck, Stop, ReplaceDone, Reload, Start, Check, StopService,
       StartService, CheckHealth, disk, Same
  <1>3. CASE SaveStopping
    BY <1>3, EnterFacts, <1>1, InstalledIsMatched, UnbackedIsClosed, EnterIsInvisible DEF Known, SaveStopping,
       Resting, LateStop, Same, Unresolved
  <1>4. CASE SaveBackingUp
    BY <1>4, EnterFacts, <1>1, UnbackedIsClosed, EnterIsInvisible DEF Known, SaveBackingUp, Resting, Outcome,
       ReadyIsUnbacked, Unbacked, Same
  <1>5. CASE \E p \in Path : BackupFile(p)
    BY <1>5, NothingHappens DEF BackupFile, disk, Same
  <1>6. CASE BackupDone
    <2>1. pc = "backup" /\ ~mem.backupComplete
      BY <1>6 DEF BackupDone, Known, Outcome, ReadyIsUnbacked, Unbacked
    <2>2. cur \notin Pending
      BY <1>1, <2>1, UnbackedIsClosed
    <2>3. /\ mem'.backups = mem.backups /\ mem'.previous = mem.previous
          /\ mem'.status = "backing_up" /\ mem'.backupComplete
          /\ journal'[cur] \in {journal[cur], mem'} /\ UNCHANGED <<live, active>>
          /\ \A d \in Deployment \ {cur} : journal'[d] = journal[d]
      BY <1>1, <1>6, <2>1 DEF BackupDone, SaveDeployment, Journal, Known, Outcome,
                              ReadyIsUnbacked
    <2>4. Synced(mem')
      <3>1. mem.previous = active
        BY <2>1 DEF Known, Consistent, WorkerKnows, PreviousIsActive, Switching
      <3>2. \A p \in StablePath : mem.backups[p] # Unsaved => mem.backups[p] = live[p]
        BY <2>1 DEF Faithful, WorkerIsFaithful, BackupIsLive, CopiesLive, BackedUp, StablePath
      <3> QED
        BY <2>3, <3>1, <3>2 DEF Synced
    <2>5. CASE journal'[cur] = journal[cur]
      <3>1. cur \notin Pending'
        BY <2>2, <2>5 DEF Pending, IsUnresolved
      <3> QED
        BY <1>1, <2>2, <2>3, <2>5, <3>1, OwnJournalWritten DEF Known, Same
    <2>6. CASE journal'[cur] = mem'
      BY <1>1, <2>3, <2>6, NoUndoKept, <2>2, <2>4, OwnJournalWritten DEF Pending, IsUnresolved, Unresolved, Known,
         Same
    <2> QED
      BY <2>3, <2>5, <2>6
  <1>7. CASE SaveReplacing
    <2>1. pc = "saveReplacing" /\ Entered("replacing", "replace", FailUnchanged)
      BY <1>7, EnterFacts DEF Known, SaveReplacing, Resting
    <2>2. Matched /\ mem.backupComplete
      BY <2>1 DEF Faithful, WorkerIsFaithful, RestoredIsSynced, MemSynced, RecordSynced, Known, Consistent, WorkerKnows, BackupIsComplete
    <2> QED
      BY <1>1, <2>1, <2>2, EnterIsInvisible DEF Same, Unresolved
  <1>8. ASSUME NEW p \in Path, ReplaceFile(p)
        PROVE  Same
    <2>1. /\ pc = "replace" /\ UNCHANGED <<journal, cur>>
          /\ \A q \in StablePath : live'[q] # live[q] => q = p
          /\ p \in Listed(effective[cur]) \cup Stale
      BY <1>8 DEF ReplaceFile, Goto, Known, Typed, TypeOK, StablePath
    <2>2. Matched /\ BackedUp = Managed
      BY <2>1, InstalledIsMatched DEF Faithful, WorkerIsFaithful, InstalledIsSwitched
    <2>3. p \in BackedUp
      BY <2>1, <2>2 DEF Managed, Stale
    <2> QED
      BY <1>1, <2>1, <2>2, <2>3, HiddenWrite DEF Matched, Alike, BackedUp
  <1>9. ASSUME NEW status, status \in {"reloading", "starting", "checking"}, NEW ok,
               pc \in Installed, Entered(status, ok, "saveRollingBack")
        PROVE  Same
    <2>1. Matched /\ mem.backupComplete
      BY <1>9, InstalledIsMatched DEF Known, Consistent, WorkerKnows, BackupIsComplete
    <2> QED
      BY <1>1, <1>9, <2>1, EnterIsInvisible DEF Same, Unresolved
  <1>10. CASE SaveReloading
    BY <1>10, EnterFacts, <1>9 DEF Known, SaveReloading, Resting, Installed
  <1>11. CASE SaveStarting
    BY <1>11, EnterFacts, <1>9 DEF Known, SaveStarting, Resting, Installed
  <1>12. CASE SaveChecking
    BY <1>12, EnterFacts, <1>9 DEF Known, SaveChecking, Resting, Installed
  <1>13. CASE WriteActive
    BY <1>13, InstalledIsMatched, <1>1, HiddenWrite DEF WriteActive, Goto, Installed, Matched
  <1>14. CASE SaveSucceeded
    BY <1>14, EnterFacts, <1>1, SuccessIsVisible, NothingHappens DEF Known, SaveSucceeded, Resting, Atomic!Next,
       Entered, Typed, TypeOK, Same
  <1>15. CASE SaveFailed
    BY <1>15, EnterFacts, <1>1, EnterIsInvisible DEF Known, SaveFailed, Resting, Faithful, WorkerIsFaithful,
       RestoredIsSynced, MemSynced, RecordSynced, Same, Unresolved
  <1> QED
    BY <1>2, <1>3, <1>4, <1>5, <1>6, <1>7, <1>8, <1>10, <1>11, <1>12, <1>13, <1>14, <1>15
       DEF Activation

LEMMA RollbackIsSimulated ==
    ASSUME Known, Known', Faithful, Rollback
    PROVE  Same \/ Atomic!Next
  <1>1. /\ pc \notin Resting /\ cur \in Deployment /\ mem \in Journal
        /\ journal \in [Deployment -> Journal] /\ UnresolvedIsCurrent
    BY DEF Rollback, SaveRollingBack, RollbackStop, VerifyBackups, RestoreActive, RollbackStart,
           RollbackCheck, SaveRolledBack, SaveRollbackFailed, Finish, RestoreFile, Enter, Known,
           Typed, TypeOK, Resting
  <1>2. CASE RollbackStop \/ VerifyBackups \/ RollbackStart \/ RollbackCheck \/ Finish
    BY <1>2, NothingHappens DEF RollbackStop, VerifyBackups, RollbackStart, RollbackCheck, Finish,
       StopService, StartService, CheckHealth, disk, Same
  <1>3. CASE SaveRollingBack
    <2>1. pc = "saveRollingBack" /\ Entered("rolling_back", "rollbackStop", "rollbackStop")
      BY <1>3, EnterFacts DEF Known, SaveRollingBack, Resting
    <2>2. CASE journal'[cur] = journal[cur]
      BY <2>1, <2>2, NothingHappens DEF Entered, Known, Typed, TypeOK, Same
    <2>3. CASE journal'[cur] = mem' /\ journal[cur].status = "succeeded"
      <3>1. mem.backupComplete /\ Retracted
        <4>1. mem.backupComplete
          BY <2>1, <2>3 DEF Faithful, JournalsAreFaithful, WorkerIsFaithful, CurrentIsOpen, Away
        <4> QED
          BY <2>1, <2>3, <4>1 DEF Faithful, WorkerIsFaithful, RestoredIsSynced, MemSynced, RecordSynced, Resumed, Begun, MemSynced, Matched, Pending,
             IsUnresolved, Unresolved
      <3>2. Pending = {}
        BY <1>1, <2>3 DEF UnresolvedIsCurrent, Pending, IsUnresolved, Unresolved
      <3>3. /\ cur \in Pending' /\ journal'[cur].status # "succeeded"
            /\ journal'[cur].backups = journal[cur].backups
            /\ journal'[cur].previous = journal[cur].previous
            /\ UNCHANGED <<live, active>>
            /\ \A e \in Deployment \ {cur} : UndoOf(journal'[e]) = UndoOf(journal[e])
        BY <1>1, <2>1, <2>3, <3>1 DEF Entered, Retracted, Alike, Pending, IsUnresolved, Unresolved
      <3>4. AtMostOneUnresolved' /\ SucceededIsBackedUp /\ active.id = cur
        BY <3>1 DEF Known, UnresolvedIsCurrent, Faithful, JournalsAreFaithful, WorkerIsFaithful, Retracted
      <3> QED
        BY <1>1, <2>3, <3>2, <3>3, <3>4, UndoIsVisible DEF Atomic!Next
    <2>4. CASE journal[cur].status # "succeeded"
      <3>1. CASE mem.backupComplete
        <4>1. Matched \/ (cur \notin Pending /\ Synced(mem))
          BY <2>1, <2>4, <3>1 DEF Faithful, WorkerIsFaithful, RestoredIsSynced, MemSynced, RecordSynced, Resumed, Begun, MemSynced, Retracted, Pending
        <4> QED
          BY <1>1, <2>1, <2>4, <3>1, <4>1, EnterIsInvisible DEF Same, Unresolved
      <3>2. CASE ~mem.backupComplete
        <4>1. cur \notin Pending
          BY <2>1, <3>2 DEF Faithful, JournalsAreFaithful, WorkerIsFaithful, UnsavedIsUnrecorded, Away, Pending
        <4> QED
          BY <1>1, <2>1, <2>4, <3>2, <4>1, EnterIsInvisible DEF Same
      <3> QED
        BY <3>1, <3>2
    <2> QED
      BY <2>1, <2>2, <2>3, <2>4 DEF Entered
  <1>4. ASSUME NEW p \in Path, RestoreFile(p)
        PROVE  Same
    <2>1. /\ pc = "restore" /\ UNCHANGED <<journal, cur>> /\ p \in BackedUp
          /\ \A q \in StablePath : live'[q] # live[q] => q = p
      BY <1>4 DEF RestoreFile, Goto, Known, Typed, TypeOK, StablePath
    <2>2. Matched
      BY <2>1 DEF Faithful, WorkerIsFaithful, RestoredIsSynced, MemSynced, RecordSynced, Undoing, RollbackSteps, Known, Consistent,
                  WorkerKnows, BackupIsComplete
    <2> QED
      BY <1>1, <2>1, <2>2, HiddenWrite DEF Matched, Alike, BackedUp
  <1>5. CASE RestoreActive
    <2>1. pc = "restore" /\ UNCHANGED <<journal, live, cur>>
      BY <1>5 DEF RestoreActive, Goto
    <2>2. Matched
      BY <2>1 DEF Faithful, WorkerIsFaithful, RestoredIsSynced, MemSynced, RecordSynced, Undoing, RollbackSteps, Known, Consistent,
                  WorkerKnows, BackupIsComplete
    <2> QED
      BY <1>1, <2>1, <2>2, HiddenWrite DEF Matched
  <1>6. CASE SaveRolledBack
    <2>1. /\ pc = "saveRolledBack"
          /\ \E ok : Entered("rolled_back", ok, "saveRollbackFailed")
      BY <1>6, EnterFacts DEF Known, SaveRolledBack, Resting
    <2>2. journal[cur].status # "succeeded"
      BY <2>1 DEF Faithful, JournalsAreFaithful, WorkerIsFaithful, CurrentIsOpen, Away
    <2>3. cur \in Pending => Synced(journal[cur])
      <3>1. CASE mem.backupComplete
        <4>1. Matched /\ Synced(mem)
          BY <2>1, <3>1 DEF Faithful, WorkerIsFaithful, RestoredIsSynced, MemSynced, RecordSynced, Undoing, RollbackSteps
        <4> QED
          BY <4>1 DEF Matched, Alike, Synced
      <3>2. CASE ~mem.backupComplete
        BY <2>1, <3>2, UnbackedIsClosed DEF Away
      <3> QED
        BY <3>1, <3>2
    <2> QED
      BY <1>1, <2>1, <2>2, <2>3, EnterIsInvisible DEF Same, Unresolved
  <1>7. CASE SaveRollbackFailed
    <2>1. pc = "saveRollbackFailed" /\ \E ok : Entered("rollback_failed", ok, ok)
      BY <1>7, EnterFacts DEF Known, SaveRollbackFailed, Resting
    <2>2. journal[cur].status # "succeeded"
      BY <2>1 DEF Faithful, JournalsAreFaithful, WorkerIsFaithful, CurrentIsOpen, Away
    <2>3. CASE mem.backupComplete
      BY <2>1, <2>3, <1>1, <2>2, EnterIsInvisible DEF Faithful, WorkerIsFaithful, RestoredIsSynced, MemSynced,
         RecordSynced, Restored, Pending, Same, Unresolved
    <2>4. CASE ~mem.backupComplete
      BY <1>1, <2>1, <2>2, <2>4, UnbackedIsClosed, EnterIsInvisible DEF Away, Same
    <2> QED
      BY <2>3, <2>4
  <1> QED
    BY <1>2, <1>3, <1>4, <1>5, <1>6, <1>7 DEF Rollback

\* Records of deployments that are not pending, before or after.
LEMMA RestingStep ==
    ASSUME Known, Known', KeepsUndo, UNCHANGED <<live, active>>,
           \A d \in Deployment : \/ journal'[d] = journal[d]
                                 \/ ~IsUnresolved(d) /\ journal'[d].status \notin Unresolved
    PROVE  Same
  <1>1. \A d \in Deployment : d \in Pending' <=> d \in Pending
    BY DEF Pending, IsUnresolved
  <1>2. CASE Pending = {}
    <2>1. KeepsResting
      BY <1>1, <1>2 DEF KeepsResting, Pending
    <2> QED
      BY <2>1, InvisibleStutters DEF Invisible, Known, UnresolvedIsCurrent, Same
  <1>3. ASSUME NEW d \in Deployment, d \in Pending
        PROVE  Same
    BY <1>1, <1>3, InvisibleStutters DEF Pending, KeepsPending, Invisible, Known, UnresolvedIsCurrent, Same
  <1> QED
    BY <1>2, <1>3 DEF Pending

LEMMA RetentionIsSimulated ==
    ASSUME Known, Known', Faithful, Retention
    PROVE  Same \/ Atomic!Next
  <1>1. CASE Cleanup \/ PruneDone
    BY <1>1, NothingHappens DEF Cleanup, PruneDone, disk, Same
  <1>2. ASSUME NEW d \in Deployment, PruneDirectory(d)
        PROVE  Same \/ Atomic!Next
    <2>1. /\ UNCHANGED <<live, active>> /\ ~IsUnresolved(d)
          /\ journal \in [Deployment -> Journal]
      BY <1>2 DEF PruneDirectory, Known, Consistent, WorkerKnows, PruneIsResolved, Typed, TypeOK
    <2>2. \/ journal' = journal
          \/ /\ \E status \in {"absent", "unstarted", "remnant"} : journal'[d] = Blank(status)
             /\ \A e \in Deployment \ {d} : journal'[e] = journal[e]
      BY <1>2, <2>1 DEF PruneDirectory
    <2>3. CASE journal' = journal
      BY <2>1, <2>3, NothingHappens DEF Same
    <2>4. CASE journal' # journal
      <3>1. /\ journal'[d].status \in {"absent", "unstarted", "remnant"}
            /\ \A e \in Deployment \ {d} : journal'[e] = journal[e]
        BY <2>2, <2>4, BlankFacts
      <3>2. CASE journal[d].status = "succeeded"
        <4>1. Atomic!Forget(d)
          BY <2>1, <3>1, <3>2, ForgetIsVisible DEF Known, UnresolvedIsCurrent, Faithful, JournalsAreFaithful, WorkerIsFaithful,
             Unresolved
        <4> QED
          BY <4>1 DEF Atomic!Next
      <3>3. CASE journal[d].status # "succeeded"
        <4>1. KeepsUndo
          BY <3>1, <3>3, NoUndoKept DEF KeepsUndo
        <4> QED
          BY <2>1, <3>1, <4>1, RestingStep DEF Unresolved
      <3> QED
        BY <3>2, <3>3
    <2> QED
      BY <2>3, <2>4
  <1> QED
    BY <1>1, <1>2 DEF Retention

LEMMA RecoveryIsInvisible ==
    ASSUME Known, Known', Faithful, Recovery
    PROVE  Same
  <1>1. CASE RecoverDone \/ RecoverStart \/ RecoverCheck
    BY <1>1, NothingHappens DEF RecoverDone, RecoverStart, RecoverCheck, StartService,
       CheckHealth, disk, Same
  <1>2. CASE SaveRecovered
    <2>1. pc = "saveRecovered" /\ Entered("rolled_back", "recover", "finish")
      BY <1>2, EnterFacts DEF Known, SaveRecovered, Resting
    <2>2. journal[cur].status = "recovery_pending" /\ Synced(journal[cur])
      BY <2>1 DEF Faithful, WorkerIsFaithful, RestoredIsSynced, MemSynced, RecordSynced, JournalsAreFaithful, LegacyIsSynced, Entered
    <2> QED
      BY <2>1, <2>2, EnterIsInvisible DEF Same, Unresolved, Resting
  <1>3. ASSUME NEW d \in Deployment, RecoverNext(d)
        PROVE  Same
    <2>1. UNCHANGED <<live, active>> /\ journal \in [Deployment -> Journal]
      BY <1>3 DEF RecoverNext, Known, Typed, TypeOK
    <2>2. \/ journal' = journal
          \/ /\ journal[d].status \in {"unstarted", "receiving", "verifying"}
             /\ \/ journal'[d] = Blank("absent")
                \/ journal'[d].status = "failed"
             /\ \A e \in Deployment \ {d} : journal'[e] = journal[e]
      BY <1>3, <2>1 DEF RecoverNext, Journal
    <2>3. CASE journal' = journal
      BY <2>1, <2>3, NothingHappens DEF Same
    <2>4. CASE journal' # journal
      BY <2>2, <2>4, BlankFacts, NoUndoKept, <2>1, RestingStep DEF KeepsUndo, Unresolved, IsUnresolved
    <2> QED
      BY <2>3, <2>4
  <1> QED
    BY <1>1, <1>2, <1>3 DEF Recovery

LEMMA SweptIsHarmless ==
    ASSUME NEW d \in Deployment
    PROVE  Swept[d] = journal[d] \/ (Swept[d] = Blank("absent") /\ journal[d].status = "unstarted")
  BY DEF Swept

LEMMA RequestIsSimulated ==
    ASSUME Known, Known', Faithful, Request
    PROVE  Same \/ Atomic!Next
  <1> DEFINE Harmless(d) == /\ ~IsUnresolved(d) /\ journal'[d].status \notin Unresolved
                            /\ journal[d].status # "succeeded"
                            /\ journal'[d].status # "succeeded"
  <1>1. ASSUME \A d \in Deployment : journal'[d] = journal[d] \/ Harmless(d),
               UNCHANGED <<live, active>>
        PROVE  Same
    <2>1. KeepsUndo
      BY <1>1, NoUndoKept DEF KeepsUndo
    <2> QED
      BY <1>1, <2>1, RestingStep
  <1>2. \A d \in Deployment : Swept[d] = journal[d] \/ (/\ ~IsUnresolved(d)
                                                        /\ Swept[d].status \notin Unresolved
                                                        /\ journal[d].status # "succeeded"
                                                        /\ Swept[d].status # "succeeded")
    BY SweptIsHarmless, BlankFacts DEF IsUnresolved, Unresolved
  <1>3. journal \in [Deployment -> Journal] /\ Swept \in [Deployment -> Journal]
    BY SweptType DEF Known, Typed, TypeOK
  <1>4. CASE Recover \/ WatchdogRestart \/ CleanupDisk
    BY <1>4, NothingHappens DEF Recover, WatchdogRestart, CleanupDisk, disk, Same
  <1>5. CASE Restart
    BY <1>1, <1>2, <1>5 DEF Restart
  <1>6. ASSUME NEW d \in Deployment, Upload(d) \/ DiscardUnstarted(d)
        PROVE  Same
    BY <1>3, <1>6, BlankFacts, <1>1, <1>2 DEF Upload, DiscardUnstarted, IsUnresolved, Unresolved
  <1>7. ASSUME NEW d \in Deployment, Activate(d)
        PROVE  Same
    <2>1. /\ journal[d].status = "ready" /\ UNCHANGED <<live, active>>
          /\ journal'[d].status \in {"ready", "verifying"}
          /\ \A e \in Deployment \ {d} : journal'[e] \in {journal[e], Swept[e]}
      <3>1. journal[d].status = "ready" /\ Swept[d] = journal[d]
        BY <1>7 DEF Activate, Swept
      <3>2. [journal[d] EXCEPT !.status = "verifying"].status = "verifying"
        BY <1>3 DEF Journal
      <3> QED
        BY <1>3, <1>7, <3>1, <3>2 DEF Activate
    <2> QED
      BY <1>1, <1>2, <2>1 DEF IsUnresolved, Unresolved
  <1>8. ASSUME NEW d \in Deployment, ManualRollback(d)
        PROVE  Same \/ Atomic!Next
    <2>1. /\ ~Blocked /\ journal[d].status = "succeeded" /\ journal[d].backupComplete
          /\ active.id = d /\ UNCHANGED <<live, active>>
          /\ \A e \in Deployment \ {d} : journal'[e] \in {journal[e], Swept[e]}
          /\ \/ journal'[d] = journal[d]
             \/ journal'[d] = [journal[d] EXCEPT !.status = "rolling_back", !.manual = TRUE]
      BY <1>3, <1>8 DEF ManualRollback, Swept
    <2>2. CASE journal'[d] = journal[d]
      BY <1>1, <1>2, <2>1, <2>2
    <2>3. CASE journal'[d] = [journal[d] EXCEPT !.status = "rolling_back", !.manual = TRUE]
      <3>1. /\ journal'[d].status = "rolling_back" /\ journal'[d].backups = journal[d].backups
            /\ journal'[d].previous = journal[d].previous
            /\ journal'[d].backupComplete
        BY <1>3, <2>1, <2>3 DEF Journal
      <3>2. Pending = {} /\ d \in Pending'
        BY <2>1, <3>1 DEF Pending, IsUnresolved, Blocked, Unresolved
      <3>3. \A e \in Deployment \ {d} : UndoOf(journal'[e]) = UndoOf(journal[e])
        BY <1>2, <2>1, NoUndoKept
      <3>4. Atomic!Undo(d)
        BY <2>1, <3>1, <3>2, <3>3, UndoIsVisible DEF Known, UnresolvedIsCurrent, Faithful, JournalsAreFaithful
      <3> QED
        BY <3>4 DEF Atomic!Next
    <2> QED
      BY <2>1, <2>2, <2>3
  <1> QED
    BY <1>4, <1>5, <1>6, <1>7, <1>8 DEF Request

LEMMA EnvironmentIsInvisible ==
    ASSUME Known, Known', Environment
    PROVE  Same
  <1>1. CASE Crash \/ \E d \in Corruptible : BackupRots(d)
    BY <1>1, NothingHappens DEF Crash, BackupRots, disk, Same
  <1>2. ASSUME NEW p \in ProviderPath, CoreEdit(p)
        PROVE  Same
    <2>1. UNCHANGED <<journal, active>> /\ \A q \in StablePath : live'[q] = live[q]
      BY <1>2 DEF CoreEdit, StablePath, Known, Typed, TypeOK
    <2>2. CASE Pending = {}
      BY <2>1, <2>2, InvisibleStutters DEF Invisible, KeepsUndo, KeepsResting, Pending,
         IsUnresolved, Known, UnresolvedIsCurrent, Same
    <2>3. ASSUME NEW d \in Deployment, d \in Pending
          PROVE  Same
      <3>1. KeepsUndo /\ KeepsPending
        BY <2>1, <2>3 DEF KeepsUndo, KeepsPending, Pending, IsUnresolved
      <3> QED
        BY <3>1, InvisibleStutters DEF Invisible, Known, UnresolvedIsCurrent, Same
    <2> QED
      BY <2>2, <2>3 DEF Pending
  <1> QED
    BY <1>1, <1>2 DEF Environment

\* Every step of the engine is one of AtomicConfig, or none.
LEMMA StepIsSimulated ==
    ASSUME Known, Known', Faithful, [Next]_vars
    PROVE  [Atomic!Next]_<<AbstractInstalled, AbstractManifest, AbstractUndo>>
  <1>1. CASE UNCHANGED vars
    BY <1>1, NothingHappens DEF vars, disk
  <1> QED
    BY <1>1, StagingIsInvisible, ActivationIsSimulated, RollbackIsSimulated,
       RetentionIsSimulated, RecoveryIsInvisible, RequestIsSimulated, EnvironmentIsInvisible
    DEF Next, WorkerStep, Same

-----------------------------------------------------------------------------
(* Faithful is inductive.                                                  *)

LEMMA JournalsKept ==
    ASSUME JournalsAreFaithful,
           \A d \in Deployment :
             \/ journal'[d] = journal[d]
             \/ journal'[d].status \notin {"recovery_pending", "ready", "succeeded"},
           \A d \in Deployment :
             effective'[d] = effective[d] \/ Ships(effective'[d]) \/ journal'[d].status # "ready",
           \/ active' = active /\ \A p \in StablePath : live'[p] = live[p]
           \/ \A d \in Deployment : journal[d].status # "recovery_pending"
    PROVE  JournalsAreFaithful'
  BY DEF JournalsAreFaithful, StablePath, LegacyIsSynced, Synced, ReadyShips, Ships, SucceededIsBackedUp

\* A lock holder at the end of its work has nothing to answer for.
LEMMA AwayFaithful ==
    ASSUME JournalsAreFaithful', pc' \in Away \cup {"prune"}
    PROVE  Faithful'
  BY DEF Faithful, WorkerIsFaithful, CandidateShips, CurrentIsOpen, UnsavedIsUnrecorded,
         GeoIsCarried, BackupIsLive, InstalledIsSwitched, SucceedingIsActive, RestoredIsSynced,
         Away, Candidate, Switching, Installed, LateStop, Undoing, RollbackSteps

\* The lock holder's view of its deployment and of the directory.
SameView ==
    /\ CurrentShips' <=> CurrentShips
    /\ KeepsGeo' <=> KeepsGeo
    /\ CopiesLive' <=> CopiesLive
    /\ (BackedUp = Managed)' <=> (BackedUp = Managed)
    /\ (BackedUp \subseteq Managed)' <=> (BackedUp \subseteq Managed)
    /\ Switched' <=> Switched
    /\ CandidateIsActive' <=> CandidateIsActive
    /\ MemSynced' <=> MemSynced
SameRecord ==
    /\ Matched' <=> Matched
    /\ RecordSynced' <=> RecordSynced
    /\ (cur \in Pending)' <=> cur \in Pending
    /\ Resumed' <=> Resumed
    /\ Begun' <=> Begun
    /\ Retracted' <=> Retracted
    /\ Restored' <=> Restored

LEMMA ViewKept ==
    ASSUME UNCHANGED <<effective, cur, live, active>>,
           mem'.backups = mem.backups, mem'.previous = mem.previous
    PROVE  SameView
  BY DEF SameView, CurrentShips, Ships, KeepsGeo, CopiesLive, BackedUp, Managed, Listed, Switched,
         CandidateIsActive, MemSynced, Synced, StablePath

LEMMA RecordKept ==
    ASSUME UNCHANGED <<journal, cur, live, active, mem>>
    PROVE  SameRecord
  BY DEF SameRecord, Matched, Alike, RecordSynced, Synced, Pending, IsUnresolved, Resumed,
         Begun, MemSynced, Retracted, Restored, StablePath

\* The lock holder moves on without touching files or journals.
LEMMA MoveKeeps ==
    ASSUME JournalsAreFaithful, UNCHANGED <<journal, effective, active, live, cur, mem>>
    PROVE  JournalsAreFaithful' /\ SameView /\ SameRecord
  <1>1. JournalsAreFaithful'
    BY JournalsKept
  <1> QED
    BY <1>1, ViewKept, RecordKept

\* A phase is saved, or not.
SavedRecord(status) ==
    /\ \A d \in Deployment : d # cur => journal'[d] = journal[d]
    /\ journal'[cur].status \in {journal[cur].status, status}
    /\ ~mem.backupComplete /\ ~journal[cur].backupComplete => ~journal'[cur].backupComplete
    /\ Matched /\ mem.backupComplete /\ status \in Unresolved => Matched'
    /\ mem.backupComplete /\ status \in Unresolved /\ journal'[cur] = mem' => Matched'
    /\ journal'[cur] = journal[cur] => SameRecord

LEMMA SaveKeeps ==
    ASSUME Known, NEW status, NEW ok, NEW err, Entered(status, ok, err)
    PROVE  SameView /\ SavedRecord(status)
  <1>1. SameView
    BY ViewKept DEF Entered
  <1>2. /\ \A d \in Deployment : d # cur => journal'[d] = journal[d]
        /\ journal'[cur].status \in {journal[cur].status, status}
        /\ ~mem.backupComplete /\ ~journal[cur].backupComplete => ~journal'[cur].backupComplete
    BY DEF Entered
  <1>3. Matched /\ mem.backupComplete /\ status \in Unresolved => Matched'
    BY DEF Entered, Matched, Alike, Pending, IsUnresolved
  <1>4. mem.backupComplete /\ status \in Unresolved /\ journal'[cur] = mem' => Matched'
    BY DEF Entered, Matched, Alike, Pending, IsUnresolved
  <1>5. ASSUME journal'[cur] = journal[cur]
        PROVE  SameRecord
    <2>1. MemSynced' <=> MemSynced
      BY <1>1 DEF SameView
    <2>2. RecordSynced' <=> RecordSynced
      BY <1>5 DEF Entered, RecordSynced, Synced, StablePath
    <2>3. ((cur \in Pending)' <=> cur \in Pending) /\ (IsUnresolved(cur)' <=> IsUnresolved(cur))
      BY <1>5 DEF Entered, Pending, IsUnresolved
    <2>4. Alike' <=> Alike
      BY <1>5 DEF Entered, Alike
    <2> QED
      BY <1>5, <2>1, <2>2, <2>3, <2>4 DEF Entered, SameRecord, Matched, Resumed, Begun,
         Retracted, Restored
  <1> QED
    BY <1>1, <1>2, <1>3, <1>4, <1>5 DEF SavedRecord

LEMMA SaveKeepsJournals ==
    ASSUME Known, JournalsAreFaithful, NEW status, NEW ok, NEW err, Entered(status, ok, err),
           status \notin {"recovery_pending", "ready", "succeeded"}
    PROVE  JournalsAreFaithful'
  BY JournalsKept DEF Entered

-----------------------------------------------------------------------------
LEMMA StagingFaithful ==
    ASSUME Known, Faithful, ShipsConfig, Staging
    PROVE  Faithful'
  <1> USE DEF WorkerIsFaithful, CandidateShips, CurrentIsOpen, UnsavedIsUnrecorded,
              GeoIsCarried, BackupIsLive, InstalledIsSwitched, SucceedingIsActive, RestoredIsSynced,
              Away, Candidate, Switching, Installed, LateStop, Undoing, RollbackSteps
  <1>1. /\ pc \in Unbacked /\ pc \notin Resting \cup Away \cup {"prune", "saveRollingBack"}
        /\ cur \in Deployment /\ mem \in Journal /\ ~mem.backupComplete
        /\ journal \in [Deployment -> Journal]
        /\ effective \in [Deployment -> [Path -> FileState]]
        /\ JournalsAreFaithful /\ WorkerIsFaithful
    BY DEF Staging, SaveReceiving, Abandon, Receive, SaveVerifying, Prepare, SaveReady,
           Reverify, Enter, Known, Typed, TypeOK, Unbacked, Resting, Away, Outcome,
           ReadyIsUnbacked, Faithful
  <1>2. ~journal[cur].backupComplete /\ journal[cur].status # "succeeded"
    BY <1>1
  <1>3. CASE SaveReceiving
    <2>1. pc = "saveReceiving" /\ Entered("receiving", "receive", "abandon")
      BY <1>3, EnterFacts DEF Known, SaveReceiving, Resting
    <2>2. JournalsAreFaithful' /\ SameView /\ SavedRecord("receiving")
      BY <1>1, <2>1, SaveKeepsJournals, SaveKeeps
    <2> QED
      BY <1>1, <1>2, <2>1, <2>2 DEF Entered, SavedRecord, Faithful
  <1>4. CASE Abandon
    <2>1. JournalsAreFaithful'
      BY <1>1, <1>4, JournalsKept, BlankFacts DEF Abandon
    <2> QED
      BY <1>4, <2>1, AwayFaithful DEF Abandon, Release
  <1>5. CASE Receive
    BY <1>1, <1>5, MoveKeeps, <1>2 DEF Receive, Goto, Pending, Faithful, SameRecord
  <1>6. CASE SaveVerifying
    <2>1. pc = "saveVerifying" /\ Entered("verifying", "prepare", "saveFailed")
      BY <1>6, EnterFacts DEF Known, SaveVerifying, Resting
    <2>2. JournalsAreFaithful' /\ SameView /\ SavedRecord("verifying")
      BY <1>1, <2>1, SaveKeepsJournals, SaveKeeps
    <2>3. cur \notin Pending'
      BY <1>1, <1>2, <2>1, <2>2 DEF Pending, SavedRecord
    <2> QED
      BY <1>1, <1>2, <2>1, <2>2, <2>3 DEF Entered, SavedRecord, Faithful
  <1>7. CASE Prepare
    BY <1>7, <1>1, DeploymentAssumption, JournalsKept, <1>2, RecordKept DEF Prepare, Goto, ShipsConfig, StablePath,
       CurrentShips, Ships, Pending, Faithful, SameRecord
  <1>8. CASE SaveReady
    <2>1. /\ pc = "saveReady" /\ pc' \in {"idle", "saveFailed"}
          /\ UNCHANGED <<effective, live, active>>
          /\ journal'[cur] = journal[cur] \/ (/\ journal'[cur].status = "ready"
                                              /\ ~journal'[cur].backupComplete)
          /\ \A d \in Deployment \ {cur} : journal'[d] = journal[d]
          /\ pc' = "saveFailed" => cur' = cur
      <3>1. /\ [mem EXCEPT !.status = "ready"].status = "ready"
            /\ ~[mem EXCEPT !.status = "ready"].backupComplete
        BY <1>1 DEF Journal
      <3> QED
        BY <1>1, <1>8, <3>1 DEF SaveReady, Release, Goto
    <2>2. JournalsAreFaithful'
      BY <1>1, <2>1 DEF CurrentShips, JournalsAreFaithful, LegacyIsSynced, Synced, StablePath, ReadyShips,
         SucceededIsBackedUp
    <2>3. CASE pc' = "idle"
      BY <2>2, <2>3, AwayFaithful
    <2>4. CASE pc' = "saveFailed"
      BY <1>1, <1>2, <2>1, <2>4, <2>2 DEF Pending, Faithful
    <2> QED
      BY <2>1, <2>3, <2>4
  <1>9. CASE Reverify
    <2>1. /\ pc = "reverify" /\ UNCHANGED <<effective, live, active>>
          /\ \A d \in Deployment : journal'[d] = journal[d] \/ journal'[d].status = "failed"
          /\ \/ pc' = "idle"
             \/ pc' = "precheck" /\ UNCHANGED <<journal, cur, mem>>
      BY <1>1, <1>9 DEF Reverify, Release, Goto, Journal
    <2>2. JournalsAreFaithful'
      BY <1>1, <2>1, JournalsKept
    <2>3. CASE pc' = "idle"
      BY <2>2, <2>3, AwayFaithful
    <2>4. CASE pc' = "precheck" /\ UNCHANGED <<journal, cur, mem>>
      <3>1. SameView
        BY <2>1, <2>4, ViewKept
      <3> QED
        BY <1>1, <1>2, <2>1, <2>2, <2>4, <3>1 DEF SameView, Faithful
    <2> QED
      BY <2>1, <2>3, <2>4
  <1> QED
    BY <1>3, <1>4, <1>5, <1>6, <1>7, <1>8, <1>9 DEF Staging

LEMMA PrecheckFaithful ==
    ASSUME Known, Faithful, Precheck
    PROVE  Faithful'
  <1> USE DEF WorkerIsFaithful, CandidateShips, CurrentIsOpen, UnsavedIsUnrecorded,
              GeoIsCarried, BackupIsLive, InstalledIsSwitched, SucceedingIsActive, RestoredIsSynced,
              Away, Candidate, Switching, Installed, LateStop, Undoing, RollbackSteps
  <1>1. /\ pc = "precheck" /\ cur \in Deployment /\ mem \in Journal /\ ~mem.backupComplete
        /\ effective \in [Deployment -> [Path -> FileState]] /\ active \in Manifest
        /\ live \in [Path -> FileState]
        /\ JournalsAreFaithful /\ WorkerIsFaithful /\ CurrentShips
    BY DEF Precheck, Known, Typed, TypeOK, Resting, Outcome, ReadyIsUnbacked, Unbacked, Faithful
  <1>2. ~journal[cur].backupComplete /\ journal[cur].status # "succeeded" /\ cur \notin Pending
    BY <1>1 DEF Pending
  <1>3. /\ UNCHANGED <<journal, cur, live, active>> /\ ~mem'.backupComplete
        /\ effective' \in {effective, [effective EXCEPT ![cur] = WithCarried]}
    BY <1>1 DEF Precheck, Goto, Journal
  <1>4. \A p \in Path : effective[cur][p] # Missing => WithCarried[p] # Missing
    BY DEF WithCarried, Carried
  <1>5. /\ CurrentShips' /\ Ships(effective'[cur])
        /\ \A d \in Deployment \ {cur} : effective'[d] = effective[d]
    BY <1>1, <1>3, <1>4 DEF CurrentShips, Ships, StablePath
  <1>6. JournalsAreFaithful'
    BY <1>1, <1>3, <1>5, JournalsKept
  <1>7. (cur \notin Pending)'
    BY <1>2, <1>3 DEF Pending, IsUnresolved
  <1>8. CASE pc' = "saveFailed"
    BY <1>1, <1>2, <1>3, <1>6, <1>7, <1>8 DEF Faithful
  <1>9. CASE pc' # "saveFailed"
    <2>1. /\ pc' \in {"saveBackingUp", "saveStopping"} /\ mem'.previous = active
          /\ effective' = [effective EXCEPT ![cur] = WithCarried]
          /\ \A p \in Path : Carried(p) => live[p] # Missing
      BY <1>1, <1>9 DEF Precheck, Goto, Journal
    <2>2. \A p \in GeoPath : active.files[p] # Missing => WithCarried[p] # Missing
      BY <2>1, DeploymentAssumption DEF WithCarried, Carried
    <2>3. KeepsGeo'
      BY <1>1, <1>3, <2>1, <2>2 DEF KeepsGeo
    <2> QED
      BY <1>1, <1>2, <1>3, <1>5, <1>6, <1>7, <2>1, <2>3 DEF Faithful
  <1> QED
    BY <1>8, <1>9

LEMMA BackupFaithful ==
    ASSUME Known, Faithful,
           \/ SaveStopping \/ Stop \/ SaveBackingUp \/ BackupDone \/ SaveReplacing
           \/ \E p \in Path : BackupFile(p)
    PROVE  Faithful'
  <1> USE DEF WorkerIsFaithful, CandidateShips, CurrentIsOpen, UnsavedIsUnrecorded,
              GeoIsCarried, BackupIsLive, InstalledIsSwitched, SucceedingIsActive, RestoredIsSynced,
              Away, Candidate, Switching, Installed, LateStop, Undoing, RollbackSteps, Resumed
  <1>1. /\ cur \in Deployment /\ mem \in Journal /\ pc \in Switching
        /\ pc \notin Resting \cup Away \cup {"prune", "saveRollingBack"}
        /\ mem.backupComplete \in BOOLEAN
        /\ journal \in [Deployment -> Journal] /\ live \in [Path -> FileState]
        /\ JournalsAreFaithful /\ WorkerIsFaithful /\ mem.previous = active
        /\ journal[cur].status # "succeeded"
    BY DEF SaveStopping, Stop, SaveBackingUp, BackupDone, SaveReplacing, BackupFile, Enter,
           Known, Typed, TypeOK, Resting, Faithful, Consistent, WorkerKnows, PreviousIsActive, Journal
  <1>2. ~mem.backupComplete => ~journal[cur].backupComplete /\ cur \notin Pending
    BY <1>1 DEF Pending
  <1>3. CASE SaveStopping
    <2>1. /\ pc = "saveStopping"
          /\ Entered("stopping", "stop",
                     IF mem.backupComplete THEN "saveRollingBack" ELSE "saveFailed")
      BY <1>3, EnterFacts DEF Known, SaveStopping, Resting
    <2>2. JournalsAreFaithful' /\ SameView /\ SavedRecord("stopping")
      BY <1>1, <2>1, SaveKeepsJournals, SaveKeeps
    <2>3. CASE mem.backupComplete
      BY <2>1, <2>2, <2>3, InstalledIsMatched, <1>1 DEF SavedRecord, Unresolved, Entered, SameView, Faithful
    <2>4. CASE ~mem.backupComplete
      BY <1>2, <2>1, <2>2, <2>4, <1>1 DEF Entered, SavedRecord, Pending, SameView, Faithful
    <2> QED
      BY <2>3, <2>4
  <1>4. CASE Stop
    BY <1>4, <1>1, MoveKeeps, InstalledIsMatched, <1>2 DEF Stop, StopService, Goto, disk, SameView, SameRecord,
       Faithful
  <1>5. CASE SaveBackingUp
    <2>1. pc = "saveBackingUp" /\ Entered("backing_up", "backup", FailUnchanged)
      BY <1>5, EnterFacts DEF Known, SaveBackingUp, Resting
    <2>2. JournalsAreFaithful' /\ SameView /\ SavedRecord("backing_up")
      BY <1>1, <2>1, SaveKeepsJournals, SaveKeeps
    <2>3. ~mem.backupComplete /\ NothingSaved(mem)
      BY <2>1 DEF Known, Outcome, ReadyIsUnbacked, Unbacked, Consistent, WorkerKnows,
                  NothingSavedEarly
    <2>4. cur \notin Pending'
      BY <1>2, <2>1, <2>2, <2>3 DEF Entered, SavedRecord, Pending
    <2>5. BackedUp' = {}
      BY <2>1, <2>3 DEF Entered, NothingSaved, BackedUp
    <2>6. CopiesLive' /\ (BackedUp \subseteq Managed)'
      BY <2>5 DEF CopiesLive
    <2> QED
      BY <1>1, <1>2, <2>1, <2>2, <2>3, <2>4, <2>6
         DEF Entered, SameView, SavedRecord, Faithful, FailUnchanged
  <1>6. ASSUME NEW p \in Path, BackupFile(p) PROVE Faithful'
    <2>1. /\ pc = "backup" /\ ~mem.backupComplete /\ ~mem'.backupComplete
          /\ mem'.previous = mem.previous
          /\ UNCHANGED <<journal, effective, active, live, cur>>
          /\ p \in ManagedPaths
          /\ \/ pc' = "backup" /\ mem'.backups = [mem.backups EXCEPT ![p] = live[p]]
             \/ pc' \in {"saveFailed", "saveRollingBack"}
      BY <1>1, <1>6 DEF BackupFile, FailUnchanged, Goto, disk, Journal, Known, Outcome,
                        ReadyIsUnbacked, Unbacked
    <2>2. JournalsAreFaithful'
      BY <1>1, <2>1, JournalsKept
    <2>3. /\ CurrentShips' <=> CurrentShips
          /\ KeepsGeo' <=> KeepsGeo
          /\ (cur \notin Pending)'
      BY <1>2, <2>1 DEF CurrentShips, Ships, KeepsGeo, StablePath, Pending, IsUnresolved
    <2>4. pc' = "backup" => CopiesLive' /\ (BackedUp \subseteq Managed)'
      BY <1>1, <2>1 DEF Journal, BackedUp, ManagedPaths, Managed, Listed, CopiesLive, StablePath
    <2> QED
      BY <1>1, <1>2, <2>1, <2>2, <2>3, <2>4 DEF Faithful
  <1>7. CASE BackupDone
    <2>1. /\ pc = "backup" /\ ManagedPaths \subseteq BackedUp /\ ~mem.backupComplete
          /\ mem.status = "backing_up"
      BY <1>7 DEF BackupDone, Known, Outcome, ReadyIsUnbacked, Unbacked
    <2>2. /\ mem'.status = "backing_up" /\ mem'.backupComplete
          /\ mem'.backups = mem.backups /\ mem'.previous = mem.previous
      BY <1>1, <1>7, <2>1 DEF BackupDone, SaveDeployment, Journal
    <2>3. /\ UNCHANGED <<effective, active, live, cur>>
          /\ \A d \in Deployment \ {cur} : journal'[d] = journal[d]
          /\ \/ pc' = "saveReplacing" /\ journal'[cur] = mem'
             \/ pc' \in {"saveFailed", "saveRollingBack"} /\ journal'[cur] \in {journal[cur], mem'}
      BY <1>1, <1>7 DEF BackupDone, SaveDeployment, FailUnchanged, Goto
    <2>4. JournalsAreFaithful'
      BY <1>1, <2>2, <2>3, JournalsKept
    <2>5. SameView
      BY <2>2, <2>3, ViewKept
    <2>6. BackedUp = Managed
      BY <1>1, <2>1 DEF Managed, ManagedPaths
    <2>7. MemSynced'
      BY <1>1, <2>1, <2>2, <2>3 DEF MemSynced, Synced, CopiesLive, BackedUp, StablePath
    <2>8. journal'[cur] = mem' => Matched' /\ RecordSynced'
      BY <1>1, <2>2, <2>3, <2>7 DEF Matched, Alike, Pending, IsUnresolved, Unresolved, MemSynced,
                                   RecordSynced
    <2>9. journal'[cur] = journal[cur] => cur \notin Pending' /\ Begun'
      BY <1>1, <1>2, <2>1, <2>3, <2>7 DEF Pending, Begun
    <2>10. journal'[cur].status # "succeeded"
      BY <1>1, <2>2, <2>3
    <2> QED
      BY <1>1, <2>1, <2>2, <2>3, <2>4, <2>5, <2>6, <2>7, <2>8, <2>9, <2>10 DEF SameView, Faithful
  <1>8. CASE SaveReplacing
    <2>1. pc = "saveReplacing" /\ Entered("replacing", "replace", FailUnchanged)
      BY <1>8, EnterFacts DEF Known, SaveReplacing, Resting
    <2>2. JournalsAreFaithful' /\ SameView /\ SavedRecord("replacing")
      BY <1>1, <2>1, SaveKeepsJournals, SaveKeeps
    <2>3. Matched /\ MemSynced /\ mem.backupComplete /\ BackedUp = Managed /\ done = {}
      BY <1>1, <2>1 DEF Known, Consistent, WorkerKnows, BackupIsComplete, DoneIsRestored
    <2>4. Matched' /\ MemSynced'
      BY <2>2, <2>3 DEF SavedRecord, SameView, Unresolved
    <2>5. RecordSynced'
      BY <2>1, <2>4 DEF MemSynced, RecordSynced, Synced, Matched, Alike, Entered
    <2>6. DoneIsSwitched'
      BY <2>1, <2>3 DEF Entered, DoneIsSwitched
    <2>7. journal'[cur].status # "succeeded"
      BY <1>1, <2>2 DEF SavedRecord
    <2> QED
      BY <1>1, <2>1, <2>2, <2>3, <2>4, <2>5, <2>6, <2>7 DEF Entered, SameView, Faithful, FailUnchanged
  <1> QED
    BY <1>3, <1>4, <1>5, <1>6, <1>7, <1>8

LEMMA NoLegacyWhileRecorded ==
    ASSUME Known, Recorded, pc \notin Resting, NEW d \in Deployment
    PROVE  journal[d].status # "recovery_pending"
  BY DEF Known, UnresolvedIsCurrent, IsUnresolved, Recorded, Restorable, Unresolved

LEMMA SwitchFaithful ==
    ASSUME Known, Faithful,
           \/ ReplaceDone \/ SaveReloading \/ Reload \/ SaveStarting \/ Start
           \/ SaveChecking \/ Check \/ WriteActive \/ SaveSucceeded \/ SaveFailed
           \/ \E p \in Path : ReplaceFile(p)
    PROVE  Faithful'
  <1> USE DEF WorkerIsFaithful, CandidateShips, CurrentIsOpen, UnsavedIsUnrecorded,
              GeoIsCarried, BackupIsLive, InstalledIsSwitched, SucceedingIsActive, RestoredIsSynced,
              Away, Candidate, Switching, Installed, LateStop, Undoing, RollbackSteps, Resumed
  <1>1. /\ cur \in Deployment /\ mem \in Journal
        /\ pc \notin Resting \cup Away \cup {"prune", "saveRollingBack"}
        /\ pc # "saveFailed" => mem.backupComplete /\ Recorded /\ Matched
        /\ effective \in [Deployment -> [Path -> FileState]]
        /\ journal \in [Deployment -> Journal] /\ live \in [Path -> FileState]
        /\ JournalsAreFaithful /\ WorkerIsFaithful
        /\ journal[cur].status # "succeeded"
    <2>1. /\ pc \notin Resting \cup Away \cup {"prune", "saveRollingBack"}
          /\ pc # "saveFailed" => pc \in {"replace", "saveSucceeded"} \cup Installed
      BY DEF ReplaceDone, SaveReloading, Reload, SaveStarting, Start, SaveChecking, Check,
             WriteActive, SaveSucceeded, SaveFailed, ReplaceFile, Enter, Resting
    <2>2. pc # "saveFailed" => mem.backupComplete /\ Recorded /\ Matched
      BY <2>1, InstalledIsMatched DEF Known, Consistent, WorkerKnows, BackupIsComplete,
                                      ChangeIsRecorded
    <2> QED
      BY <2>1, <2>2 DEF Known, Typed, TypeOK, Resting, Faithful
  <1>2. ASSUME pc' \in {"saveRollingBack"}, UNCHANGED <<journal, cur, mem, effective>>,
               JournalsAreFaithful', Matched', pc # "saveFailed"
        PROVE  Faithful'
    BY <1>1, <1>2 DEF Faithful
  <1>3. ASSUME NEW p \in Path, ReplaceFile(p) PROVE Faithful'
    <2>1. /\ pc = "replace" /\ UNCHANGED <<journal, effective, active, cur, mem>>
          /\ \/ pc' = "replace" /\ done' = done \cup {p}
                                /\ live' = [live EXCEPT ![p] = effective[cur][p]]
             \/ pc' = "saveRollingBack"
      BY <1>3 DEF ReplaceFile, Goto
    <2>2. JournalsAreFaithful'
      BY <1>1, <2>1, NoLegacyWhileRecorded, JournalsKept
    <2>3. Matched'
      BY <1>1, <2>1 DEF Matched, Alike, Pending, IsUnresolved
    <2>4. CASE pc' = "saveRollingBack"
      BY <1>2, <2>1, <2>2, <2>3, <2>4
    <2>5. CASE pc' = "replace"
      BY <1>1, <2>1, <2>5, <2>2 DEF DoneIsSwitched, StablePath, CurrentShips, Ships, KeepsGeo, BackedUp, Managed,
         Listed, Faithful
    <2> QED
      BY <2>1, <2>4, <2>5
  <1>4. ASSUME UNCHANGED <<journal, effective, active, live, cur, mem>>,
               pc # "saveFailed", pc \in Installed \cup {"replace"},
               Switched,
               pc' \in Installed \cup {"saveRollingBack", "saveStopping"}
        PROVE  Faithful'
    BY <1>1, <1>4, MoveKeeps DEF SameView, SameRecord, Faithful
  <1>5. CASE ReplaceDone
    BY <1>5, <1>1, <1>4 DEF ReplaceDone, Goto, disk, Switched, Stale, Managed, KeepsGeo, Listed, StablePath,
       DoneIsSwitched
  <1>6. CASE Reload \/ Start
    BY <1>6, <1>1, <1>4 DEF Reload, ReloadFailed, Start, StartService, Goto, disk
  <1>7. CASE Check
    BY <1>7, <1>1, <1>4 DEF Check, CheckHealth, Goto, disk
  <1>8. ASSUME NEW status, status \in {"reloading", "starting", "checking"}, NEW ok,
               pc \in Installed, ok \in Installed, Entered(status, ok, "saveRollingBack")
        PROVE  Faithful'
    BY <1>1, <1>8, SaveKeepsJournals, SaveKeeps DEF SavedRecord, Unresolved, Entered, SameView, Faithful
  <1>9. CASE SaveReloading
    BY <1>9, EnterFacts, <1>8 DEF Known, SaveReloading, Resting
  <1>10. CASE SaveStarting
    BY <1>10, EnterFacts, <1>8 DEF Known, SaveStarting, Resting
  <1>11. CASE SaveChecking
    BY <1>11, EnterFacts, <1>8 DEF Known, SaveChecking, Resting
  <1>12. CASE WriteActive
    <2>1. /\ pc = "writeActive" /\ UNCHANGED <<journal, effective, live, cur, mem>>
          /\ \/ pc' = "saveSucceeded" /\ active' = [id |-> cur, files |-> effective[cur]]
             \/ pc' = "saveRollingBack"
      BY <1>12 DEF WriteActive, Goto
    <2>2. JournalsAreFaithful'
      BY <1>1, <2>1, NoLegacyWhileRecorded, JournalsKept
    <2>3. Matched'
      BY <1>1, <2>1 DEF Matched, Alike, Pending, IsUnresolved
    <2>4. CASE pc' = "saveRollingBack"
      BY <1>2, <2>1, <2>2, <2>3, <2>4
    <2>5. CASE pc' = "saveSucceeded"
      BY <2>1, <2>5, <1>1, <2>2 DEF CandidateIsActive, CurrentShips, Ships, KeepsGeo, Switched, StablePath,
         BackedUp, Managed, Listed, Faithful
    <2> QED
      BY <2>1, <2>4, <2>5
  <1>13. CASE SaveSucceeded
    <2>1. pc = "saveSucceeded" /\ Entered("succeeded", "cleanup", "saveRollingBack")
      BY <1>13, EnterFacts DEF Known, SaveSucceeded, Resting
    <2>2. SameView /\ SavedRecord("succeeded")
      BY <2>1, SaveKeeps
    <2>3. \E p \in StablePath : mem.backups[p] # Unsaved
      BY <1>1, <2>1 DEF CurrentShips, Ships, BackedUp, Managed, Listed, StablePath
    <2>4. JournalsAreFaithful'
      BY <2>1, <1>1, <2>3 DEF Entered, JournalsAreFaithful, LegacyIsSynced, Synced, StablePath, ReadyShips,
         SucceededIsBackedUp
    <2>5. CASE pc' = "cleanup"
      BY <2>4, <2>5, AwayFaithful
    <2>6. CASE pc' = "saveRollingBack"
      BY <1>1, <2>1, <2>2, <2>4, <2>6 DEF Entered, SavedRecord, SameRecord, Faithful, Retracted, Alike,
         CandidateIsActive
    <2> QED
      BY <2>1, <2>5, <2>6 DEF Entered
  <1>14. CASE SaveFailed
    <2>1. pc = "saveFailed" /\ Entered("failed", "cleanup", "cleanup")
      BY <1>14, EnterFacts DEF Known, SaveFailed, Resting
    <2>2. JournalsAreFaithful'
      BY <1>1, <2>1, SaveKeepsJournals
    <2> QED
      BY <2>1, <2>2, AwayFaithful DEF Entered
  <1> QED
    BY <1>3, <1>5, <1>6, <1>7, <1>9, <1>10, <1>11, <1>12, <1>13, <1>14

LEMMA RollbackFaithful ==
    ASSUME Known, Known', Intent, Intent', Faithful, Rollback
    PROVE  Faithful'
  <1> USE DEF WorkerIsFaithful, CandidateShips, CurrentIsOpen, UnsavedIsUnrecorded,
              GeoIsCarried, BackupIsLive, InstalledIsSwitched, SucceedingIsActive, RestoredIsSynced,
              Away, Candidate, Switching, Installed, LateStop, Undoing, RollbackSteps, Resumed
  <1>1. /\ cur \in Deployment /\ mem \in Journal /\ mem.backupComplete \in BOOLEAN
        /\ pc \notin Resting
        /\ journal \in [Deployment -> Journal] /\ live \in [Path -> FileState]
        /\ JournalsAreFaithful /\ WorkerIsFaithful
    BY DEF Rollback, SaveRollingBack, RollbackStop, VerifyBackups, RestoreActive, RollbackStart,
           RollbackCheck, SaveRolledBack, SaveRollbackFailed, Finish, RestoreFile, Enter, Known,
           Typed, TypeOK, Resting, Faithful, Journal
  <1>2. CASE SaveRollingBack
    <2>1. pc = "saveRollingBack" /\ Entered("rolling_back", "rollbackStop", "rollbackStop")
      BY <1>2, EnterFacts DEF Known, SaveRollingBack, Resting
    <2>2. JournalsAreFaithful' /\ SameView /\ SavedRecord("rolling_back")
      BY <1>1, <2>1, SaveKeepsJournals, SaveKeeps
    <2>3. /\ pc' = "rollbackStop" /\ cur' = cur /\ IsUnresolved(cur)'
          /\ mem'.backupComplete = mem.backupComplete
      BY <2>1 DEF Entered, Known, RollbackIntentDurable
    <2>4. journal'[cur].status # "succeeded"
      BY <2>3 DEF IsUnresolved, Unresolved
    <2>5. mem'.backupComplete => Matched'
      BY <1>1, <2>3 DEF Intent, RollbackIsKnown, Restoring, Recorded, Restorable, Matched, Alike,
                        Pending, IsUnresolved
    <2> QED
      BY <1>1, <2>1, <2>2, <2>3, <2>4, <2>5 DEF SameView, SavedRecord, Faithful
  <1>3. ASSUME UNCHANGED <<journal, effective, active, live, cur, mem>>,
               pc \in Undoing, pc' \in Undoing \cup {"saveRollbackFailed"},
               pc' # "restore",
               mem.backupComplete /\ pc' \in {"rollbackStart", "rollbackCheck", "saveRolledBack"}
                 => MemSynced,
               pc' \in {"recoverStart", "recoverCheck", "saveRecovered"} =>
                 pc \in {"recoverStart", "recoverCheck"}
        PROVE  Faithful'
    BY <1>1, <1>3, MoveKeeps DEF SameView, SameRecord, Faithful
  <1>4. CASE RollbackStop
    BY <1>4, <1>3 DEF RollbackStop, StopService, Goto, disk
  <1>5. CASE VerifyBackups
    <2>1. /\ pc = "verifyBackups" /\ UNCHANGED <<journal, effective, active, live, cur, mem, done>>
          /\ pc' \in {"saveRollbackFailed", "restore"}
      BY <1>5 DEF VerifyBackups, Goto, disk, loop
    <2>2. CASE pc' = "saveRollbackFailed"
      BY <1>3, <2>1, <2>2
    <2>3. CASE pc' = "restore"
      BY <1>1, <2>1, MoveKeeps, <2>3 DEF RestoredIsLive, Known, Consistent, WorkerKnows, DoneIsRestored, SameRecord,
         Faithful
    <2> QED
      BY <2>1, <2>2, <2>3
  <1>6. ASSUME pc = "restore"
        PROVE  mem.backupComplete /\ Matched /\ Recorded
    <2>1. mem.backupComplete
      BY <1>6 DEF Known, Consistent, WorkerKnows, BackupIsComplete
    <2> QED
      BY <1>1, <1>6, <2>1 DEF Intent, RollbackIsKnown, Restoring
  <1>7. ASSUME NEW p \in Path, RestoreFile(p) PROVE Faithful'
    BY <1>7, <1>1, <1>6, NoLegacyWhileRecorded, JournalsKept DEF RestoreFile, Goto, Matched, Alike, Pending,
       IsUnresolved, RestoredIsLive, BackedUp, StablePath, Faithful
  <1>8. CASE RestoreActive
    <2>1. /\ pc = "restore" /\ UNCHANGED <<journal, effective, live, cur, mem>>
          /\ BackedUp \subseteq done
          /\ \/ pc' = "rollbackStart" /\ active' = mem.previous
             \/ pc' = "saveRollbackFailed"
      BY <1>8 DEF RestoreActive, Goto
    <2>2. JournalsAreFaithful'
      BY <1>1, <1>6, <2>1, NoLegacyWhileRecorded, JournalsKept
    <2>3. Matched'
      BY <1>6, <2>1 DEF Matched, Alike, Pending, IsUnresolved
    <2>4. pc' = "rollbackStart" => MemSynced'
      BY <1>1, <2>1 DEF RestoredIsLive, BackedUp, StablePath, MemSynced, Synced
    <2> QED
      BY <1>1, <1>6, <2>1, <2>2, <2>3, <2>4 DEF Faithful
  <1>9. CASE RollbackStart \/ RollbackCheck
    BY <1>9, <1>1, <1>3 DEF RollbackStart, RollbackCheck, StartService, CheckHealth, Goto, disk
  <1>10. CASE SaveRolledBack
    <2>1. /\ pc = "saveRolledBack"
          /\ \E ok \in Away : Entered("rolled_back", ok, "saveRollbackFailed")
      BY <1>10, EnterFacts DEF Known, SaveRolledBack, Resting
    <2>2. JournalsAreFaithful' /\ SameView /\ SavedRecord("rolled_back")
      BY <1>1, <2>1, SaveKeepsJournals, SaveKeeps
    <2>3. CASE pc' \in Away
      BY <2>2, <2>3, AwayFaithful
    <2>4. CASE pc' = "saveRollbackFailed"
      BY <2>1, <1>1, <2>2, <2>4 DEF Entered, SavedRecord, SameRecord, SameView, Restored, IsUnresolved, Unresolved,
         Faithful
    <2> QED
      BY <2>1, <2>3, <2>4 DEF Entered
  <1>11. CASE SaveRollbackFailed
    <2>1. pc = "saveRollbackFailed" /\ \E ok \in Away : Entered("rollback_failed", ok, ok)
      BY <1>11, EnterFacts DEF Known, SaveRollbackFailed, Resting
    <2>2. JournalsAreFaithful'
      BY <1>1, <2>1, SaveKeepsJournals
    <2> QED
      BY <2>1, <2>2, AwayFaithful DEF Entered
  <1>12. CASE Finish
    <2>1. JournalsAreFaithful'
      BY <1>1, <1>12, JournalsKept DEF Finish, disk
    <2> QED
      BY <1>12, <2>1, AwayFaithful DEF Finish, Release
  <1> QED
    BY <1>2, <1>4, <1>5, <1>7, <1>8, <1>9, <1>10, <1>11, <1>12 DEF Rollback

LEMMA RetentionFaithful ==
    ASSUME Known, Faithful, Retention
    PROVE  Faithful'
  <1>1. pc' \in Away \cup {"prune"}
    BY DEF Retention, Cleanup, PruneDone, PruneDirectory, Goto, Release, Away
  <1>2. JournalsAreFaithful'
    BY JournalsKept, BlankFacts DEF Cleanup, PruneDone, disk, Faithful, Known, Typed, TypeOK, PruneDirectory,
       Retention
  <1> QED
    BY <1>1, <1>2, AwayFaithful

LEMMA RecoveryFaithful ==
    ASSUME Known, Faithful, Recovery
    PROVE  Faithful'
  <1> USE DEF WorkerIsFaithful, CandidateShips, CurrentIsOpen, UnsavedIsUnrecorded,
              GeoIsCarried, BackupIsLive, InstalledIsSwitched, SucceedingIsActive, RestoredIsSynced,
              Away, Candidate, Switching, Installed, LateStop, Undoing, RollbackSteps, Resumed
  <1>1. JournalsAreFaithful /\ WorkerIsFaithful /\ journal \in [Deployment -> Journal]
    BY DEF Faithful, Known, Typed, TypeOK
  <1>2. CASE RecoverDone
    BY <1>1, <1>2, JournalsKept, AwayFaithful DEF RecoverDone, disk, Release
  <1>3. CASE RecoverStart \/ RecoverCheck
    BY <1>3, <1>1, MoveKeeps DEF RecoverStart, RecoverCheck, StartService, CheckHealth, Goto, disk, SameRecord,
       Faithful
  <1>4. CASE SaveRecovered
    <2>1. pc = "saveRecovered" /\ Entered("rolled_back", "recover", "finish")
      BY <1>4, EnterFacts DEF Known, SaveRecovered, Resting
    <2>2. JournalsAreFaithful'
      BY <1>1, <2>1, SaveKeepsJournals
    <2> QED
      BY <2>1, <2>2, AwayFaithful DEF Entered
  <1>5. ASSUME NEW d \in Deployment, RecoverNext(d)
        PROVE  Faithful'
    BY <1>1, <1>5, BlankFacts, JournalsKept, AwayFaithful DEF RecoverNext, Release, Journal, Matched, Alike,
       Pending, IsUnresolved, Unresolved, Faithful
  <1> QED
    BY <1>2, <1>3, <1>4, <1>5 DEF Recovery

LEMMA RequestFaithful ==
    ASSUME Known, Faithful, Request
    PROVE  Faithful'
  <1> USE DEF WorkerIsFaithful, CandidateShips, CurrentIsOpen, UnsavedIsUnrecorded,
              GeoIsCarried, BackupIsLive, InstalledIsSwitched, SucceedingIsActive, RestoredIsSynced,
              Away, Candidate, Switching, Installed, LateStop, Undoing, RollbackSteps, Resumed
  <1>1. /\ JournalsAreFaithful /\ journal \in [Deployment -> Journal]
        /\ Swept \in [Deployment -> Journal]
        /\ \A d \in Deployment : Swept[d] = journal[d] \/ Swept[d].status = "absent"
    BY SweptType, SweptIsHarmless, BlankFacts DEF Faithful, Known, Typed, TypeOK
  <1>2. ASSUME NEW d \in Deployment, UNCHANGED <<effective, live, active>>,
               \A e \in Deployment \ {d} : journal'[e] \in {journal[e], Swept[e]},
               \/ journal'[d] \in {journal[d], Swept[d]}
               \/ journal'[d].status \notin {"recovery_pending", "ready", "succeeded"}
        PROVE  JournalsAreFaithful'
    BY <1>1, <1>2, JournalsKept
  <1>3. CASE Recover \/ WatchdogRestart \/ CleanupDisk \/ Restart
    BY <1>3, <1>1, JournalsKept, AwayFaithful DEF Recover, WatchdogRestart, CleanupDisk, Restart, disk, worker
  <1>4. ASSUME NEW d \in Deployment, DiscardUnstarted(d)
        PROVE  Faithful'
    BY <1>1, <1>4, BlankFacts, <1>2, AwayFaithful DEF DiscardUnstarted, worker
  <1>5. ASSUME NEW d \in Deployment, Upload(d)
        PROVE  Faithful'
    BY <1>1, <1>5, BlankFacts, <1>2 DEF Upload, Faithful
  <1>6. ASSUME NEW d \in Deployment, Activate(d)
        PROVE  Faithful'
    <2>1. journal[d].status = "ready" /\ Swept[d] = journal[d] /\ ~journal[d].backupComplete
      BY <1>6 DEF Activate, Swept, Known, Outcome, ReadyIsUnbacked
    <2>2. /\ [journal[d] EXCEPT !.status = "verifying"].status = "verifying"
          /\ ~[journal[d] EXCEPT !.status = "verifying"].backupComplete
      BY <1>1, <2>1 DEF Journal
    <2>3. /\ UNCHANGED <<effective, live, active>>
          /\ journal'[d] = journal[d] \/ (/\ journal'[d].status = "verifying"
                                          /\ ~journal'[d].backupComplete)
          /\ \A e \in Deployment \ {d} : journal'[e] = Swept[e]
          /\ \/ pc' = "reverify" /\ cur' = d /\ journal'[d].status = "verifying"
             \/ pc' = "idle"
      BY <1>1, <1>6, <2>1, <2>2 DEF Activate, worker
    <2>4. JournalsAreFaithful'
      BY <1>2, <2>3
    <2>5. CASE pc' = "idle"
      BY <2>4, <2>5, AwayFaithful
    <2>6. CASE pc' = "reverify"
      <3>1. CurrentShips'
        BY <1>1, <2>1, <2>3, <2>6 DEF JournalsAreFaithful, ReadyShips, CurrentShips, Ships, StablePath
      <3> QED
        BY <2>1, <2>3, <2>4, <2>6, <3>1 DEF Faithful
    <2> QED
      BY <2>3, <2>5, <2>6
  <1>7. ASSUME NEW d \in Deployment, ManualRollback(d)
        PROVE  Faithful'
    <2> DEFINE record == [journal[d] EXCEPT !.status = "rolling_back", !.manual = TRUE]
    <2>1. journal[d].status = "succeeded" /\ Swept[d] = journal[d] /\ journal[d].backupComplete
      BY <1>7 DEF ManualRollback, Swept
    <2>2. record.status = "rolling_back" /\ record.backupComplete
      BY <1>1, <2>1 DEF Journal
    <2>3. /\ UNCHANGED <<effective, live, active>>
          /\ journal'[d] \in {journal[d], record}
          /\ \A e \in Deployment \ {d} : journal'[e] = Swept[e]
          /\ \/ pc' = "saveRollingBack" /\ cur' = d /\ journal'[d] = record /\ mem' = record
             \/ pc' = "idle"
      BY <1>1, <1>7, <2>1 DEF ManualRollback, worker
    <2> HIDE DEF record
    <2>4. JournalsAreFaithful'
      BY <1>2, <2>2, <2>3
    <2>5. CASE pc' = "idle"
      BY <2>4, <2>5, AwayFaithful
    <2>6. CASE pc' = "saveRollingBack"
      <3>1. Matched'
        BY <2>2, <2>3, <2>6 DEF Matched, Alike, Pending, IsUnresolved, Unresolved
      <3> QED
        BY <2>2, <2>3, <2>4, <2>6, <3>1 DEF Faithful
    <2> QED
      BY <2>3, <2>5, <2>6
  <1> QED
    BY <1>3, <1>4, <1>5, <1>6, <1>7 DEF Request

LEMMA EnvironmentFaithful ==
    ASSUME Known, Faithful, Environment
    PROVE  Faithful'
  <1> USE DEF WorkerIsFaithful, CandidateShips, CurrentIsOpen, UnsavedIsUnrecorded,
              GeoIsCarried, BackupIsLive, InstalledIsSwitched, SucceedingIsActive, RestoredIsSynced,
              LateStop
  <1>1. JournalsAreFaithful /\ WorkerIsFaithful /\ live \in [Path -> FileState]
    BY DEF Faithful, Known, Typed, TypeOK
  <1>2. CASE Crash
    <2>1. JournalsAreFaithful'
      BY <1>1, <1>2, JournalsKept DEF Crash, disk
    <2> QED
      BY <1>2, <2>1, AwayFaithful DEF Crash, Release, Away
  <1>3. ASSUME NEW d \in Corruptible, BackupRots(d)
        PROVE  Faithful'
    BY <1>1, <1>3, JournalsKept, AwayFaithful DEF BackupRots, worker, Away
  <1>4. ASSUME NEW p \in ProviderPath, CoreEdit(p)
        PROVE  Faithful'
    <2>1. /\ UNCHANGED <<journal, effective, active, pc, cur, mem, done>>
          /\ \A q \in StablePath : live'[q] = live[q]
      BY <1>1, <1>4 DEF CoreEdit, worker, StablePath
    <2>2. JournalsAreFaithful'
      BY <1>1, <2>1, JournalsKept
    <2>3. /\ CurrentShips' <=> CurrentShips
          /\ KeepsGeo' <=> KeepsGeo
          /\ CopiesLive' <=> CopiesLive
          /\ (BackedUp = Managed)' <=> (BackedUp = Managed)
          /\ (BackedUp \subseteq Managed)' <=> (BackedUp \subseteq Managed)
          /\ Switched' <=> Switched
          /\ DoneIsSwitched' <=> DoneIsSwitched
          /\ RestoredIsLive' <=> RestoredIsLive
          /\ CandidateIsActive' <=> CandidateIsActive
          /\ MemSynced' <=> MemSynced
      BY <2>1 DEF CurrentShips, Ships, KeepsGeo, CopiesLive, BackedUp, Managed, Listed, Switched,
         DoneIsSwitched, RestoredIsLive, CandidateIsActive, MemSynced, Synced, StablePath
    <2>4. SameRecord
      BY <2>1, <2>3 DEF SameRecord, Matched, Alike, RecordSynced, Synced, Pending, IsUnresolved,
         Resumed, Begun, Retracted, Restored, StablePath
    <2> QED
      BY <1>1, <2>1, <2>2, <2>3, <2>4 DEF SameRecord, Faithful
  <1> QED
    BY <1>2, <1>3, <1>4 DEF Environment

-----------------------------------------------------------------------------
LEMMA FaithfulInit == Init => Faithful
  <1> SUFFICES ASSUME Init PROVE Faithful
    OBVIOUS
  <1>1. \A d \in Deployment :
          \/ /\ journal[d].status = "recovery_pending" /\ journal[d].backupComplete
             /\ journal[d].previous = active
             /\ \A p \in Path : journal[d].backups[p] \in {live[p], Unsaved}
          \/ journal[d].status = "absent"
    BY BlankFacts DEF Init, LegacyJournal, Blank
  <1>2. JournalsAreFaithful
    BY <1>1 DEF JournalsAreFaithful, LegacyIsSynced, Synced, ReadyShips, SucceededIsBackedUp,
                StablePath
  <1>3. pc = "idle"
    BY DEF Init
  <1> QED
    BY <1>2, <1>3 DEF Faithful, WorkerIsFaithful, CandidateShips, CurrentIsOpen,
       UnsavedIsUnrecorded, GeoIsCarried, BackupIsLive, InstalledIsSwitched, SucceedingIsActive,
       RestoredIsSynced, Away, Candidate, Switching, Installed, LateStop, Undoing, RollbackSteps

LEMMA FaithfulStep ==
    ASSUME Known, Known', Intent, Intent', Faithful, ShipsConfig, [Next]_vars
    PROVE  Faithful'
  <1>1. CASE UNCHANGED vars
    <2>1. JournalsAreFaithful' /\ SameView /\ SameRecord
      BY <1>1, MoveKeeps DEF Faithful, vars, disk, worker
    <2> QED
      BY <1>1, <2>1 DEF Faithful, WorkerIsFaithful, CandidateShips, CurrentIsOpen,
         UnsavedIsUnrecorded, GeoIsCarried, BackupIsLive, InstalledIsSwitched, SucceedingIsActive,
         RestoredIsSynced, LateStop, SameView, SameRecord, vars, disk, worker, DoneIsSwitched,
         RestoredIsLive, BackedUp, StablePath
  <1>2. CASE Activation
    BY <1>2, PrecheckFaithful, BackupFaithful, SwitchFaithful DEF Activation
  <1> QED
    BY <1>1, <1>2, StagingFaithful, RollbackFaithful, RetentionFaithful, RecoveryFaithful,
       RequestFaithful, EnvironmentFaithful DEF Next, WorkerStep

LEMMA AbstractInit == Init => Atomic!Init
  <1> SUFFICES ASSUME Init PROVE Atomic!Init
    OBVIOUS
  <1>1. /\ \A p \in StablePath : live[p] \in {Original, Missing}
        /\ active = NoManifest
        /\ \A d \in Deployment :
             \/ /\ journal[d].status = "recovery_pending" /\ journal[d].previous = NoManifest
                /\ \A p \in Path : journal[d].backups[p] \in {live[p], Unsaved}
             \/ journal[d].status = "absent"
    BY BlankFacts DEF Init, LegacyJournal, Blank, StablePath
  <1>2. ManifestOnStable(NoManifest) = Atomic!NoManifest
    BY DEF OnStable, NoFiles, StablePath, ManifestOnStable, NoManifest, Atomic!NoManifest
  <1>3. AbstractUndo = [d \in Deployment |-> Atomic!NoUndo]
    BY <1>1, UndoView, NothingToUndo
  <1>4. AtMostOneUnresolved
    BY UnresolvedIsCurrentInit DEF UnresolvedIsCurrent
  <1>5. /\ AbstractInstalled \in [StablePath -> {Original, Missing}]
        /\ AbstractManifest = Atomic!NoManifest
    <2>1. CASE Pending = {}
      BY <1>1, <1>2, <2>1, RestingView DEF OnStable
    <2>2. ASSUME NEW d \in Deployment, d \in Pending
          PROVE  /\ AbstractInstalled \in [StablePath -> {Original, Missing}]
                 /\ AbstractManifest = Atomic!NoManifest
      <3>1. /\ AbstractInstalled = Recovered(journal[d], live)
            /\ AbstractManifest = ManifestOnStable(journal[d].previous)
        BY <1>4, <2>2, PendingView
      <3>2. /\ journal[d].previous = NoManifest
            /\ \A p \in Path : journal[d].backups[p] \in {live[p], Unsaved}
        BY <1>1, <2>2 DEF Pending, IsUnresolved, Unresolved
      <3> QED
        BY <1>1, <1>2, <3>1, <3>2 DEF Recovered, StablePath
    <2> QED
      BY <2>1, <2>2 DEF Pending
  <1> QED
    BY <1>3, <1>5 DEF Atomic!Init

LEMMA AlwaysFaithful ==
    ASSUME MaxFaults <= 1, ShipsConfig
    PROVE  Spec => [](Known /\ Intent /\ Faithful)
  <1>1. Spec => [](Known /\ Intent)
    BY AlwaysIntent
  <1>2. (Known /\ Intent) /\ (Known /\ Intent)' /\ Faithful /\ [Next]_vars => Faithful'
    BY FaithfulStep
  <1> QED
    BY <1>1, <1>2, FaithfulInit, PTL DEF Spec

\* With at most one failing file operation, and however many crashes, the
\* engine implements AtomicConfig: the files a deployment ships, apart from
\* those the core rewrites itself, are put in force all at once, by the record
\* of its success, and taken back all at once.
THEOREM EngineIsAtomic ==
    ASSUME MaxFaults <= 1, ShipsConfig
    PROVE  Spec => ImplementsAtomicConfig
  <1>1. Spec => [](Known /\ Intent /\ Faithful)
    BY AlwaysFaithful
  <1>2. Init => Atomic!Init
    BY AbstractInit
  <1>3. (Known /\ Intent /\ Faithful) /\ (Known /\ Intent /\ Faithful)' /\ [Next]_vars
          => [Atomic!Next]_(Atomic!vars)
    BY StepIsSimulated DEF Atomic!vars
  <1> QED
    BY <1>1, <1>2, <1>3, PTL DEF Spec, ImplementsAtomicConfig, Atomic!Spec
=============================================================================
