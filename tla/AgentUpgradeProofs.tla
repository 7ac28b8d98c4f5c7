------------------------- MODULE AgentUpgradeProofs -------------------------
(***************************************************************************)
(* Theorems about the Agent's update, for any tasks, versions, files and   *)
(* bounds.                                                                 *)
(***************************************************************************)
EXTENDS AgentUpgrade, TLAPS

\* A record that says something changed holds the program to go back to.
Undoable(record) == record.mutating => record.backup \in Version

\* TypeOK is inductive only with the facts that a rollback has a program to
\* restore, and that a preparation has a task and runs in a running Agent.
Typed ==
    /\ TypeOK
    /\ \A t \in Task :
         /\ Undoable(journal[t]) /\ Undoable(mem[t])
         /\ worker[t] = "saveMigrating" => mem[t].backup \in Version
         /\ worker[t] = "restoreBinary" => mem[t].mutating
    /\ prep.pc # "idle" => prep.task \in Task /\ process \in Version

-----------------------------------------------------------------------------
(* Types of the building blocks.                                           *)

LEMMA NoJobType == NoJob \in Job /\ Undoable(NoJob)
  BY DEF NoJob, Job, Undoable

LEMMA QueuedType ==
    ASSUME process \in Version, NEW status \in Phases \cup Final
    PROVE  [Queued EXCEPT !.status = status] \in Job
           /\ Undoable([Queued EXCEPT !.status = status]) /\ Queued \in Job /\ Undoable(Queued)
  BY DEF Queued, NoJob, Job, Undoable, Phases, Final

LEMMA FaultType ==
    ASSUME TypeOK, Fault \/ NoFault
    PROVE  faults' \in 0..MaxFaults /\ crashes' \in 0..MaxCrashes
  BY UpgradeAssumption DEF TypeOK, Fault, NoFault, budget

\* The steps of a worker that save, where the record's phase may change but
\* not what the record says of the changes.
LEMMA EnterTyped ==
    ASSUME Typed, NEW t \in Task, NEW from, NEW status \in Phases \cup Final,
           NEW ok \in WorkerLabel \ {"saveMigrating", "restoreBinary"},
           NEW err \in WorkerLabel \ {"saveMigrating", "restoreBinary"},
           Enter(t, from, status, ok, err)
    PROVE  Typed'
  <1> DEFINE record == [mem[t] EXCEPT !.status = status]
  <1>1. record \in Job /\ Undoable(record)
    <2>1. mem[t] \in Job /\ Undoable(mem[t])
      BY DEF Typed, TypeOK
    <2> QED
      BY <2>1 DEF Job, Undoable
  <1>2. /\ mem' = [mem EXCEPT ![t] = record]
        /\ journal' \in {journal, [journal EXCEPT ![t] = record]}
        /\ worker' \in {[worker EXCEPT ![t] = ok], [worker EXCEPT ![t] = err]}
        /\ Fault \/ NoFault
        /\ UNCHANGED <<locks, current, copies, units, binary, migrated, next, rest>>
    BY DEF Enter, Save, Goto
  <1> HIDE DEF record
  <1>3. mem' \in [Task -> Job] /\ journal' \in [Task -> Job]
    BY <1>1, <1>2 DEF Typed, TypeOK
  <1>6. worker' \in [Task -> WorkerLabel]
    BY <1>2 DEF Typed, TypeOK
  <1>4. \A u \in Task :
          /\ Undoable(journal[u])' /\ Undoable(mem[u])'
          /\ worker'[u] = "saveMigrating" => mem'[u].backup \in Version
          /\ worker'[u] = "restoreBinary" => mem'[u].mutating
    BY <1>1, <1>2 DEF Typed, TypeOK, Undoable
  <1>5. faults' \in 0..MaxFaults /\ crashes' \in 0..MaxCrashes
    BY <1>2, FaultType DEF Typed
  <1> QED
    BY <1>2, <1>3, <1>4, <1>5, <1>6 DEF Typed, TypeOK, locks, rest, agent, reader

\* The steps of a worker that save nothing.
Plain == WorkerLabel \ {"saveMigrating", "restoreBinary"}
LEMMA MoveTyped ==
    ASSUME Typed, NEW t \in Task, NEW pc \in Plain,
           worker' = [worker EXCEPT ![t] = pc],
           \/ mem' = mem
           \/ \E record \in Job : Undoable(record) /\ mem' = [mem EXCEPT ![t] = record],
           next' \in [Task -> 0..Changes], units' \subseteq Task,
           binary' \in Version, migrated' \subseteq Change, restartQueued' \in BOOLEAN,
           holder' \in Task \cup {Nobody, Agent},
           op' \in {"free", "prepare", "operation", "worker"},
           UNCHANGED <<current, journal, copies, process, boot, bootstrap, checked,
                       prep, reader, origin, budget>>
    PROVE  Typed'
  <1>1. mem' \in [Task -> Job] /\ worker' \in [Task -> WorkerLabel]
    BY DEF Typed, TypeOK, Plain
  <1>2. \A u \in Task :
          /\ Undoable(journal[u])' /\ Undoable(mem[u])'
          /\ worker'[u] = "saveMigrating" => mem'[u].backup \in Version
          /\ worker'[u] = "restoreBinary" => mem'[u].mutating
    BY DEF Typed, TypeOK, Undoable, Plain
  <1> QED
    BY <1>1, <1>2 DEF Typed, TypeOK, reader, budget

LEMMA ExitTyped ==
    ASSUME Typed, NEW t \in Task, Exit(t), units' \subseteq Task,
           UNCHANGED <<current, journal, copies, binary, migrated, rest, budget>>
    PROVE  Typed'
  <1>1. /\ holder' \in Task \cup {Nobody, Agent}
        /\ op' \in {"free", "prepare", "operation", "worker"}
        /\ next' \in [Task -> 0..Changes]
    BY UpgradeAssumption DEF Exit, locks, Typed, TypeOK
  <1>2. \E record \in Job : Undoable(record) /\ mem' = [mem EXCEPT ![t] = record]
    BY NoJobType DEF Exit
  <1>3. "dead" \in Plain /\ worker' = [worker EXCEPT ![t] = "dead"]
    BY DEF Exit, Plain, WorkerLabel
  <1>4. binary' \in Version /\ migrated' \subseteq Change /\ restartQueued' \in BOOLEAN
    BY DEF rest, agent, Typed, TypeOK
  <1> QED
    BY <1>1, <1>2, <1>3, <1>4, MoveTyped DEF rest, agent

\* A step that only goes to another label and may move in the files.
LEMMA GotoTyped ==
    ASSUME Typed, NEW t \in Task, NEW ok \in Plain, NEW err \in Plain,
           Goto(t, ok) \/ Goto(t, err),
           binary' \in Version, migrated' \subseteq Change, restartQueued' \in BOOLEAN,
           next' \in [Task -> 0..Changes],
           UNCHANGED <<current, journal, copies, units, process, boot, bootstrap, checked,
                       prep, mem, reader, origin, budget>>
    PROVE  Typed'
  BY MoveTyped DEF Goto, locks, Typed, TypeOK

LEMMA TypedInit == Init => Typed
  <1> SUFFICES ASSUME Init PROVE Typed
    OBVIOUS
  <1>1. /\ current \in Task \cup {NoTask} /\ journal \in [Task -> Job]
        /\ copies \subseteq Task /\ units \subseteq Task
        /\ binary \in Version /\ migrated \subseteq Change
    BY NoJobType, UpgradeAssumption DEF Init
  <1>2. /\ process \in Version \cup {Down} /\ restartQueued \in BOOLEAN
        /\ boot \in [pc : BootLabel, next : 0..Changes]
        /\ bootstrap \in [complete : BOOLEAN, snapshots : SUBSET Change]
    <2>1. boot \in {[pc |-> "up", next |-> 0], [pc |-> "deferred", next |-> 0]}
      BY DEF Init
    <2>2. 0 \in 0..Changes /\ {"up", "deferred"} \subseteq BootLabel
      BY UpgradeAssumption DEF BootLabel
    <2>3. boot \in [pc : BootLabel, next : 0..Changes]
      BY <2>1, <2>2
    <2> QED
      BY <2>3, UpgradeAssumption DEF Init
  <1>3. /\ holder \in Task \cup {Nobody, Agent}
        /\ op \in {"free", "prepare", "operation", "worker"} /\ checked \in BOOLEAN
        /\ prep \in [pc : PrepLabel, task : Task \cup {NoTask}]
    BY DEF Init, PrepLabel
  <1>4. /\ worker \in [Task -> WorkerLabel] /\ mem \in [Task -> Job]
        /\ next \in [Task -> 0..Changes]
    BY NoJobType, UpgradeAssumption DEF Init, WorkerLabel
  <1>5. /\ seen \in [task : Task \cup {NoTask}, status : StatusOrNone]
        /\ reported \in [Task -> StatusOrNone]
        /\ origin \in [Task -> [binary : Version \cup {NoVersion}, migrated : SUBSET Change]]
        /\ faults \in 0..MaxFaults /\ crashes \in 0..MaxCrashes
    BY UpgradeAssumption DEF Init, StatusOrNone
  <1>6. /\ \A t \in Task : Undoable(journal[t]) /\ Undoable(mem[t]) /\ worker[t] = "dead"
        /\ prep.pc = "idle"
    BY NoJobType DEF Init
  <1> QED
    BY <1>1, <1>2, <1>3, <1>4, <1>5, <1>6 DEF Typed, TypeOK

-----------------------------------------------------------------------------
(* Each operation preserves the types.                                     *)

LEMMA PrepareTyped ==
    ASSUME Typed, NEW t \in Task, Prepare(t)
    PROVE  Typed'
  BY DEF Prepare, Serving, agent, PrepLabel, Typed, TypeOK, work, reader, budget

\* The locks after a preparation, and the place it goes to.
LEMMA PrepEndsType ==
    ASSUME Typed,
           PrepareEnds \/ (UNCHANGED locks /\ \E pc \in PrepLabel \ {"idle"} : PrepGoto(pc))
    PROVE  /\ prep' \in [pc : PrepLabel, task : Task \cup {NoTask}]
           /\ prep'.pc = "idle" \/ prep'.task = prep.task
           /\ holder' \in Task \cup {Nobody, Agent}
           /\ op' \in {"free", "prepare", "operation", "worker"}
  BY DEF PrepareEnds, PrepLabel, locks, PrepGoto, Typed, TypeOK

LEMMA PrepareStepTyped ==
    ASSUME Typed, PrepareStep
    PROVE  Typed'
  <1>1. prep.task \in Task /\ process \in Version
    BY DEF PrepareStep, SaveCurrent, SaveJob, StartWorker, SavePrepareFailed, Typed
  <1>2. /\ Queued \in Job /\ Undoable(Queued)
        /\ [Queued EXCEPT !.status = "failed"] \in Job
        /\ Undoable([Queued EXCEPT !.status = "failed"])
    BY <1>1, QueuedType DEF Final
  <1>3. PrepareEnds \/ (UNCHANGED locks /\ \E pc \in PrepLabel \ {"idle"} : PrepGoto(pc))
    BY DEF PrepareStep, SaveCurrent, SaveJob, StartWorker, SavePrepareFailed, PrepLabel
  <1>4. /\ prep' \in [pc : PrepLabel, task : Task \cup {NoTask}]
        /\ prep'.pc # "idle" => prep'.task \in Task
        /\ holder' \in Task \cup {Nobody, Agent}
        /\ op' \in {"free", "prepare", "operation", "worker"}
    BY <1>1, <1>3, PrepEndsType
  <1>5. /\ current' \in Task \cup {NoTask} /\ journal' \in [Task -> Job]
        /\ \A t \in Task : Undoable(journal'[t])
        /\ units' \subseteq Task
    <2>1. CASE SaveCurrent \/ SavePrepareFailed
      <3>1. journal' \in {journal, [journal EXCEPT ![prep.task] = Queued],
                          [journal EXCEPT ![prep.task] = [Queued EXCEPT !.status = "failed"]]}
            /\ current' \in {current, prep.task} /\ units' \in {units, units \ {prep.task}}
        BY <2>1 DEF SaveCurrent, SavePrepareFailed
      <3>2. ASSUME NEW record \in Job, Undoable(record),
                   journal' \in {journal, [journal EXCEPT ![prep.task] = record]}
            PROVE  journal' \in [Task -> Job] /\ \A t \in Task : Undoable(journal'[t])
        <4>1. CASE journal' = journal
          BY <4>1 DEF Typed, TypeOK
        <4>2. CASE journal' = [journal EXCEPT ![prep.task] = record]
          BY <1>1, <3>2, <4>2 DEF Typed, TypeOK
        <4> QED
          BY <3>2, <4>1, <4>2
      <3>3. current' \in Task \cup {NoTask} /\ units' \subseteq Task
        BY <1>1, <3>1 DEF Typed, TypeOK
      <3> QED
        BY <3>1, <3>2, <3>3, <1>2
    <2>2. CASE SaveJob \/ StartWorker
      BY <1>1, <2>2 DEF SaveJob, StartWorker, disk, Typed, TypeOK
    <2> QED
      BY <2>1, <2>2 DEF PrepareStep
  <1>6. /\ worker' \in [Task -> WorkerLabel] /\ mem' = mem /\ next' = next
        /\ \A t \in Task : worker'[t] \in {worker[t], "load"}
    BY <1>1 DEF PrepareStep, SaveCurrent, SaveJob, StartWorker, SavePrepareFailed, work,
                WorkerLabel, Typed, TypeOK
  <1>7. faults' \in 0..MaxFaults /\ crashes' \in 0..MaxCrashes
    <2>1. Fault \/ NoFault
      BY DEF PrepareStep, SaveCurrent, SaveJob, StartWorker, SavePrepareFailed, NoFault
    <2> QED
      BY <2>1, FaultType DEF Typed
  <1>8. UNCHANGED <<copies, binary, migrated, agent, checked, reader, origin>>
    BY DEF PrepareStep, SaveCurrent, SaveJob, StartWorker, SavePrepareFailed, disk, work
  <1> QED
    BY <1>1, <1>4, <1>5, <1>6, <1>7, <1>8 DEF Typed, TypeOK, agent, reader

\* What a migration at the start of the Agent may change.
StartupFrame ==
    /\ migrated' \subseteq Change
    /\ boot' \in [pc : BootLabel, next : 0..Changes]
    /\ bootstrap' \in [complete : BOOLEAN, snapshots : SUBSET Change]
    /\ holder' \in {holder, Agent, Nobody} /\ op' = op
    /\ \/ UNCHANGED still
       \/ AgentDies
    /\ UNCHANGED <<current, journal, copies, units, binary, work, reported, origin, budget>>

LEMMA StillTyped ==
    ASSUME Typed, UNCHANGED still \/ AgentDies
    PROVE  /\ process' \in Version \cup {Down} /\ restartQueued' \in BOOLEAN
           /\ checked' \in BOOLEAN
           /\ prep' \in [pc : PrepLabel, task : Task \cup {NoTask}]
           /\ seen' \in [task : Task \cup {NoTask}, status : StatusOrNone]
           /\ prep'.pc # "idle" => prep'.task \in Task /\ process' \in Version
  <1>1. CASE UNCHANGED still
    BY <1>1 DEF still, Typed, TypeOK
  <1>2. CASE AgentDies
    BY <1>2 DEF PrepLabel, StatusOrNone, AgentDies
  <1> QED
    BY <1>1, <1>2

LEMMA FrameTyped ==
    ASSUME Typed, StartupFrame
    PROVE  Typed'
  <1>1. UNCHANGED still \/ AgentDies
    BY DEF StartupFrame
  <1> QED
    BY <1>1, StillTyped DEF StartupFrame, Typed, TypeOK, work, budget

LEMMA BootEndsFrame ==
    ASSUME Typed, BootEnds \/ BootFails \/ \E pc \in BootLabel, n \in 0..Changes : BootGoto(pc, n)
    PROVE  /\ boot' \in [pc : BootLabel, next : 0..Changes]
           /\ holder' \in {holder, Agent, Nobody} /\ op' = op
  BY UpgradeAssumption DEF BootLabel, BootEnds, BootFails, BootGoto, AgentDies, locks, Background

LEMMA StartupTyped ==
    ASSUME Typed, Startup
    PROVE  Typed'
  <1> USE UpgradeAssumption DEF Change
  <1>0. /\ boot.next \in 0..Changes /\ boot.pc \in BootLabel
        /\ bootstrap.snapshots \subseteq Change /\ migrated \subseteq Change
    BY DEF Typed, TypeOK
  <1>1. CASE FinishDeferred
    <2>1. /\ boot' \in [pc : BootLabel, next : 0..Changes]
          /\ holder' \in {holder, Agent} /\ op' = op
      BY <1>1 DEF FinishDeferred, BootGoto, locks, BootLabel
    <2> QED
      BY <1>1, <2>1, FrameTyped
      DEF FinishDeferred, StartupFrame, bootRest, disk, reader, still, Typed, TypeOK
  <1>2. CASE BootLoad
    <2>1. boot' \in [pc : BootLabel, next : 0..Changes] /\ UNCHANGED locks
      BY <1>2 DEF BootLoad, BootGoto, BootLabel
    <2> QED
      BY <1>2, <2>1, FrameTyped
      DEF BootLoad, StartupFrame, bootRest, disk, locks, reader, still, Typed, TypeOK
  <1>3. CASE BootRestore
    <2>1. BootRestored(boot.next) \subseteq Change
      BY <1>0 DEF BootRestored
    <2>5. migrated' \in {migrated, BootRestored(boot.next)}
      BY <1>3 DEF BootRestore
    <2>2. migrated' \subseteq Change
      BY <1>0, <2>1, <2>5
    <2>3. BootEnds \/ BootFails \/ \E pc \in BootLabel, n \in 0..Changes : BootGoto(pc, n)
      BY <1>0, <1>3 DEF BootRestore, BootLabel
    <2>4. UNCHANGED still \/ AgentDies
      BY <1>3 DEF BootRestore, BootFails
    <2> QED
      BY <1>3, <2>2, <2>3, <2>4, BootEndsFrame, FrameTyped
      DEF BootRestore, StartupFrame, Typed, TypeOK
  <1>4. CASE BootPlan
    <2>4. bootstrap' \in {bootstrap, [complete |-> FALSE, snapshots |-> migrated]}
      BY <1>4 DEF BootPlan
    <2>5. [complete |-> FALSE, snapshots |-> migrated]
             \in [complete : BOOLEAN, snapshots : SUBSET Change]
      BY <1>0
    <2>1. bootstrap' \in [complete : BOOLEAN, snapshots : SUBSET Change]
      BY <2>4, <2>5 DEF Typed, TypeOK
    <2>2. BootEnds \/ BootFails \/ \E pc \in BootLabel, n \in 0..Changes : BootGoto(pc, n)
      BY <1>4 DEF BootPlan, BootLabel
    <2>3. UNCHANGED still \/ AgentDies
      BY <1>4 DEF BootPlan, BootFails
    <2> QED
      BY <1>0, <1>4, <2>1, <2>2, <2>3, BootEndsFrame, FrameTyped
      DEF BootPlan, StartupFrame, disk
  <1>5. CASE BootApply
    <2>1. boot.next + 1 \in 0..Changes /\ migrated' \subseteq Change
      BY <1>0, <1>5 DEF BootApply
    <2>2. \E pc \in BootLabel, n \in 0..Changes : BootGoto(pc, n)
      BY <2>1, <1>5 DEF BootApply, BootLabel
    <2> QED
      BY <1>5, <2>1, <2>2, BootEndsFrame, FrameTyped
      DEF BootApply, StartupFrame, still, reader, Typed, TypeOK
  <1>6. CASE BootDone
    BY <1>0, <1>6, BootEndsFrame, FrameTyped DEF BootDone, Typed, TypeOK, BootLabel, BootFails, StartupFrame, disk
  <1> QED
    BY <1>1, <1>2, <1>3, <1>4, <1>5, <1>6 DEF Startup

LEMMA AgentTyped ==
    ASSUME Typed, Operation \/ Status \/ PruneCompleted \/ StartAgent \/ StopAgent
    PROVE  Typed'
  <1>1. CASE Operation
    BY <1>1 DEF Operation, CheckPending, StartOperation, EndOperation, Typed, TypeOK,
                disk, agent, locks, work, reader, budget
  <1>2. CASE ReadStatus
    BY <1>2 DEF ReadStatus, Typed, TypeOK, Job, StatusOrNone, disk, agent, locks, work, budget
  <1>3. CASE Answer
    BY <1>3 DEF Answer, Typed, TypeOK, StatusOrNone, disk, agent, locks, work, budget
  <1>4. CASE PruneCompleted
    BY <1>4, NoJobType DEF PruneCompleted, Typed, TypeOK, agent, locks, work, reader, budget
  <1>5. CASE StartAgent
    <2>1. boot' \in [pc : BootLabel, next : 0..Changes]
      BY <1>5, UpgradeAssumption DEF StartAgent, BootLabel
    <2>2. prep.pc = "idle"
      BY <1>5, UpgradeAssumption DEF StartAgent, Typed
    <2> QED
      BY <1>5, <2>1, <2>2 DEF StartAgent, Typed, TypeOK, disk, locks, work, reader, budget
  <1>6. CASE StopAgent
    <2>1. [pc |-> "down", next |-> 0] \in [pc : BootLabel, next : 0..Changes]
      BY UpgradeAssumption DEF BootLabel
    <2>2. boot' \in [pc : BootLabel, next : 0..Changes]
      BY <1>6, <2>1 DEF StopAgent, AgentDies
    <2>3. /\ holder' \in Task \cup {Nobody, Agent}
          /\ op' \in {"free", "prepare", "operation", "worker"}
      BY <1>6 DEF StopAgent, Typed, TypeOK
    <2>4. AgentDies
      BY <1>6 DEF StopAgent
    <2> QED
      BY <1>6, <2>2, <2>3, <2>4, StillTyped
      DEF StopAgent, Typed, TypeOK, disk, work, budget
  <1> QED
    BY <1>1, <1>2, <1>3, <1>4, <1>5, <1>6 DEF Status

\* From the worker's start to the first change.
LEMMA WorkerStartTyped ==
    ASSUME Typed, NEW t \in Task,
           \/ Spawn(t) \/ Load(t) \/ LockUpdate(t) \/ LockCore(t) \/ Resume(t)
           \/ Download(t) \/ Verify(t) \/ Backup(t) \/ SaveMigrating(t)
    PROVE  Typed'
  <1>1. CASE Spawn(t)
    <2>1. "load" \in Plain
      BY DEF Plain, WorkerLabel
    <2> QED
      BY <1>1, <2>1, GotoTyped DEF Spawn, disk, rest, agent, Typed, TypeOK
  <1>2. CASE Load(t)
    <2>1. CASE Exit(t)
      BY <1>2, <2>1, ExitTyped DEF Load, Typed, TypeOK
    <2>2. CASE mem' = [mem EXCEPT ![t] = journal[t]] /\ Goto(t, "lockUpdate")
               /\ UNCHANGED <<units, next>>
      BY <2>2, <1>2, MoveTyped DEF Typed, TypeOK, Plain, WorkerLabel, Load, Goto, rest, agent, locks
    <2> QED
      BY <1>2, <2>1, <2>2 DEF Load
  <1>3. CASE LockUpdate(t)
    <2>1. CASE Exit(t)
      BY <1>3, <2>1, ExitTyped DEF LockUpdate, disk, Typed, TypeOK
    <2>2. CASE /\ holder' = t /\ worker' = [worker EXCEPT ![t] = "lockCore"]
               /\ UNCHANGED <<op, mem, next>>
      <3>1. "lockCore" \in Plain
        BY DEF Plain, WorkerLabel
      <3> QED
        BY <1>3, <2>2, <3>1, MoveTyped DEF LockUpdate, disk, rest, agent, Typed, TypeOK
    <2> QED
      BY <1>3, <2>1, <2>2 DEF LockUpdate
  <1>4. CASE LockCore(t)
    <2>1. CASE Exit(t)
      BY <1>4, <2>1, ExitTyped DEF LockCore, disk, Typed, TypeOK
    <2>2. CASE /\ op' = "worker" /\ worker' = [worker EXCEPT ![t] = "resume"]
               /\ UNCHANGED <<holder, mem, next>>
      <3>1. "resume" \in Plain
        BY DEF Plain, WorkerLabel
      <3> QED
        BY <1>4, <2>2, <3>1, MoveTyped DEF LockCore, disk, rest, agent, Typed, TypeOK
    <2> QED
      BY <1>4, <2>1, <2>2 DEF LockCore
  <1>5. CASE Resume(t)
    BY <1>5, EnterTyped, GotoTyped DEF Plain, WorkerLabel, Phases, Resume, Enter, disk, rest, agent, Typed, TypeOK
  <1>6. CASE Download(t) \/ Verify(t)
    BY <1>6, GotoTyped DEF Plain, WorkerLabel, Download, Verify, Attempt, disk, rest, agent, Typed, TypeOK
  <1>7. CASE Backup(t)
    <2>1. CASE Goto(t, "fail") /\ UNCHANGED mem
      <3>1. "fail" \in Plain
        BY DEF Plain, WorkerLabel
      <3> QED
        BY <1>7, <2>1, <3>1, GotoTyped DEF Backup, disk, rest, agent, Typed, TypeOK
    <2>2. CASE /\ mem' = [mem EXCEPT ![t].backup = binary, ![t].snapshots = migrated]
               /\ Goto(t, "saveMigrating")
      <3> DEFINE taken == [mem[t] EXCEPT !.backup = binary, !.snapshots = migrated]
      <3>1. taken \in Job /\ taken.backup = binary
        <4>1. mem[t] \in Job /\ binary \in Version /\ migrated \subseteq Change
          BY DEF Typed, TypeOK
        <4> QED
          BY <4>1 DEF Job
      <3>7. mem' = [mem EXCEPT ![t] = taken]
        BY <2>2 DEF Typed, TypeOK
      <3> HIDE DEF taken
      <3>2. /\ mem' \in [Task -> Job] /\ mem'[t].backup = binary
            /\ \A u \in Task : u # t => mem'[u] = mem[u]
        BY <3>1, <3>7 DEF Typed, TypeOK
      <3>3. worker' = [worker EXCEPT ![t] = "saveMigrating"] /\ UNCHANGED locks
        BY <2>2 DEF Goto
      <3>4. worker' \in [Task -> WorkerLabel]
        BY <3>3 DEF Typed, TypeOK, WorkerLabel
      <3>5. UNCHANGED <<disk, next, rest, budget>>
        BY <1>7 DEF Backup
      <3>6. \A u \in Task :
              /\ Undoable(journal'[u]) /\ Undoable(mem'[u])
              /\ worker'[u] = "saveMigrating" => mem'[u].backup \in Version
              /\ worker'[u] = "restoreBinary" => mem'[u].mutating
        BY <3>2, <3>3, <3>5 DEF Typed, TypeOK, Undoable, disk
      <3> QED
        BY <3>2, <3>3, <3>4, <3>5, <3>6
        DEF Typed, TypeOK, disk, locks, rest, agent, reader, budget
    <2> QED
      BY <1>7, <2>1, <2>2 DEF Backup
  <1>8. CASE SaveMigrating(t)
    <2> DEFINE record == [mem[t] EXCEPT !.status = "migrating", !.mutating = TRUE]
               undone == [record EXCEPT !.mutating = FALSE]
    <2>1. /\ record \in Job /\ Undoable(record) /\ undone \in Job /\ Undoable(undone)
      <3>1. mem[t] \in Job /\ mem[t].backup \in Version
        BY <1>8 DEF SaveMigrating, Typed, TypeOK
      <3>2. "migrating" \in Phases
        BY DEF Phases
      <3> QED
        BY <3>1, <3>2 DEF Job, Undoable
    <2>2. /\ mem' \in {[mem EXCEPT ![t] = record], [mem EXCEPT ![t] = undone]}
          /\ journal' \in {journal, [journal EXCEPT ![t] = record]}
          /\ worker' \in {[worker EXCEPT ![t] = "migrate"], [worker EXCEPT ![t] = "fail"]}
          /\ Fault \/ NoFault
          /\ UNCHANGED <<locks, current, copies, units, binary, migrated, next, rest>>
      BY <1>8 DEF SaveMigrating, Goto
    <2> HIDE DEF record, undone
    <2>3. mem' \in [Task -> Job] /\ journal' \in [Task -> Job]
      <3>1. PICK written \in Job : mem' = [mem EXCEPT ![t] = written]
        BY <2>1, <2>2
      <3>2. mem' \in [Task -> Job]
        BY <3>1 DEF Typed, TypeOK
      <3>3. journal' \in [Task -> Job]
        BY <2>1, <2>2 DEF Typed, TypeOK
      <3> QED
        BY <3>2, <3>3
    <2>4. worker' \in [Task -> WorkerLabel]
      BY <2>2 DEF Typed, TypeOK, WorkerLabel
    <2>5. \A u \in Task :
            /\ Undoable(journal[u])' /\ Undoable(mem[u])'
            /\ worker'[u] = "saveMigrating" => mem'[u].backup \in Version
            /\ worker'[u] = "restoreBinary" => mem'[u].mutating
      BY <2>1, <2>2 DEF Typed, TypeOK, Undoable
    <2>6. faults' \in 0..MaxFaults /\ crashes' \in 0..MaxCrashes
      BY <2>2, FaultType DEF Typed
    <2> QED
      BY <2>2, <2>3, <2>4, <2>5, <2>6 DEF Typed, TypeOK, locks, rest, agent, reader
  <1> QED
    BY <1>1, <1>2, <1>3, <1>4, <1>5, <1>6, <1>7, <1>8

\* The changes, the rollback and the end.
LEMMA WorkerChangeTyped ==
    ASSUME Typed, NEW t \in Task,
           \/ ApplyChange(t) \/ ChangesApplied(t) \/ Replace(t) \/ Restart(t) \/ Confirm(t)
           \/ RestoreBinary(t) \/ RestoreFile(t) \/ FilesRestored(t) \/ RestartPrevious(t)
           \/ ConfirmPrevious(t) \/ Finish(t)
    PROVE  Typed'
  <1>1. {"migrate", "fail", "saveReplacing", "saveRestarting", "saveChecking",
         "saveSucceeded", "restoreFiles", "saveRollbackFailed", "restartPrevious",
         "confirmPrevious", "saveRolledBack"} \subseteq Plain
    BY DEF Plain, WorkerLabel
  <1>2. /\ binary \in Version /\ migrated \subseteq Change /\ restartQueued \in BOOLEAN
        /\ next \in [Task -> 0..Changes] /\ next[t] \in 0..Changes
        /\ Changes \in Nat /\ Changes \in 0..Changes /\ 0 \in 0..Changes
    BY UpgradeAssumption DEF Typed, TypeOK
  <1>3. CASE ApplyChange(t)
    <2>1. next[t] + 1 \in Change /\ next[t] + 1 \in 0..Changes
      BY <1>2, <1>3 DEF ApplyChange, Change
    <2>2. /\ migrated' \subseteq Change /\ next' \in [Task -> 0..Changes]
          /\ Goto(t, "migrate") \/ Goto(t, "fail")
      BY <1>2, <1>3, <2>1 DEF ApplyChange
    <2> QED
      BY <1>1, <1>2, <1>3, <2>2, GotoTyped DEF ApplyChange, rest, agent
  <1>4. CASE ChangesApplied(t)
    BY <1>1, <1>2, <1>4, GotoTyped DEF ChangesApplied, disk, rest, agent
  <1>5. CASE Replace(t)
    BY <1>2, <1>5, UpgradeAssumption, <1>1, GotoTyped DEF Replace, rest, agent
  <1>6. CASE Restart(t) \/ RestartPrevious(t)
    BY <1>1, <1>6, <1>2, GotoTyped DEF Restart, RestartPrevious, RestartAgent, disk
  <1>7. CASE Confirm(t) \/ ConfirmPrevious(t)
    BY <1>1, <1>7, <1>2, GotoTyped DEF Confirm, ConfirmPrevious, WaitReady, disk, rest, agent
  <1>8. CASE RestoreBinary(t)
    BY <1>8, <1>2, <1>1, GotoTyped DEF RestoreBinary, Typed, Undoable, rest, agent
  <1>9. CASE RestoreFile(t)
    <2>1. mem[t].snapshots \subseteq Change
      BY DEF Typed, TypeOK, Job
    <2>2. Restored(t, next[t]) \subseteq Change
      BY <1>2, <2>1 DEF Restored
    <2>3. migrated' \in {migrated, Restored(t, next[t])}
      BY <1>9 DEF RestoreFile
    <2>4. /\ next' \in [Task -> 0..Changes]
          /\ Goto(t, "restoreFiles") \/ Goto(t, "saveRollbackFailed")
      BY <1>2, <1>9 DEF RestoreFile
    <2> QED
      BY <1>1, <1>2, <1>9, <2>2, <2>3, <2>4, GotoTyped DEF RestoreFile, rest, agent
  <1>10. CASE FilesRestored(t)
    BY <1>1, <1>2, <1>10, GotoTyped DEF FilesRestored, disk, rest, agent
  <1>11. CASE Finish(t)
    BY <1>11, ExitTyped DEF Finish, Typed, TypeOK
  <1> QED
    BY <1>3, <1>4, <1>5, <1>6, <1>7, <1>8, <1>9, <1>10, <1>11

LEMMA FailTyped ==
    ASSUME Typed, NEW t \in Task, Fail(t)
    PROVE  Typed'
  <1>1. CASE ~mem[t].mutating /\ Enter(t, "fail", "failed", "finish", "finish")
    BY <1>1, EnterTyped DEF WorkerLabel, Final
  <1>2. CASE /\ mem[t].mutating
             /\ Enter(t, "fail", "rolling_back", "restoreBinary", "restoreBinary")
    <2> DEFINE record == [mem[t] EXCEPT !.status = "rolling_back"]
    <2>1. record \in Job /\ Undoable(record) /\ record.mutating
      <3>1. mem[t] \in Job /\ Undoable(mem[t])
        BY DEF Typed, TypeOK
      <3>2. "rolling_back" \in Phases
        BY DEF Phases
      <3> QED
        BY <1>2, <3>1, <3>2 DEF Job, Undoable
    <2>2. /\ mem' = [mem EXCEPT ![t] = record]
          /\ journal' \in {journal, [journal EXCEPT ![t] = record]}
          /\ worker' = [worker EXCEPT ![t] = "restoreBinary"]
          /\ Fault \/ NoFault
          /\ UNCHANGED <<locks, current, copies, units, binary, migrated, next, rest>>
      BY <1>2 DEF Enter, Save, Goto
    <2> HIDE DEF record
    <2>3. /\ mem' \in [Task -> Job] /\ journal' \in [Task -> Job]
          /\ worker' \in [Task -> WorkerLabel]
      BY <2>1, <2>2 DEF Typed, TypeOK, WorkerLabel
    <2>4. \A u \in Task :
            /\ Undoable(journal[u])' /\ Undoable(mem[u])'
            /\ worker'[u] = "saveMigrating" => mem'[u].backup \in Version
            /\ worker'[u] = "restoreBinary" => mem'[u].mutating
      BY <2>1, <2>2 DEF Typed, TypeOK, Undoable
    <2>5. faults' \in 0..MaxFaults /\ crashes' \in 0..MaxCrashes
      BY <2>2, FaultType DEF Typed
    <2> QED
      BY <2>2, <2>3, <2>4, <2>5 DEF Typed, TypeOK, locks, rest, agent, reader
  <1> QED
    BY <1>1, <1>2 DEF Fail

LEMMA WorkerTyped ==
    ASSUME Typed, NEW t \in Task, WorkerStep(t)
    PROVE  Typed'
  <1>1. CASE \/ SaveVerifying(t) \/ SaveBackingUp(t) \/ SaveReplacing(t) \/ SaveRestarting(t)
             \/ SaveChecking(t) \/ SaveSucceeded(t) \/ SaveRolledBack(t)
             \/ SaveRollbackFailed(t)
    <2>1. {"verify", "backup", "replace", "restart", "confirm", "finish", "fail"}
             \subseteq WorkerLabel \ {"saveMigrating", "restoreBinary"}
      BY DEF WorkerLabel
    <2>2. {"verifying", "backing_up", "replacing", "restarting", "checking", "succeeded",
           "rolled_back", "rollback_failed"} \subseteq Phases \cup Final
      BY DEF Phases, Final
    <2> QED
      BY <1>1, <2>1, <2>2, EnterTyped
      DEF SaveVerifying, SaveBackingUp, SaveReplacing, SaveRestarting, SaveChecking,
          SaveSucceeded, SaveRolledBack, SaveRollbackFailed
  <1> QED
    BY <1>1, WorkerStartTyped, WorkerChangeTyped, FailTyped DEF WorkerStep

LEMMA DeathTyped ==
    ASSUME Typed, Death
    PROVE  Typed'
  <1>1. PICK agentDies \in BOOLEAN, dead \in SUBSET Task : Crash(agentDies, dead)
    BY DEF Death
  <1>2. /\ worker' \in [Task -> WorkerLabel] /\ mem' \in [Task -> Job]
        /\ next' \in [Task -> 0..Changes]
    BY UpgradeAssumption, <1>1, NoJobType DEF WorkerLabel, Crash, Typed, TypeOK
  <1>3. \A u \in Task :
          /\ Undoable(journal'[u]) /\ Undoable(mem'[u])
          /\ worker'[u] = "saveMigrating" => mem'[u].backup \in Version
          /\ worker'[u] = "restoreBinary" => mem'[u].mutating
    BY <1>1, NoJobType DEF Crash, Typed, TypeOK, disk
  <1>4. /\ holder' \in Task \cup {Nobody, Agent}
        /\ op' \in {"free", "prepare", "operation", "worker"}
        /\ faults' \in 0..MaxFaults /\ crashes' \in 0..MaxCrashes
    BY <1>1, UpgradeAssumption DEF Crash, Typed, TypeOK
  <1>5. /\ UNCHANGED still \/ AgentDies
        /\ boot' \in [pc : BootLabel, next : 0..Changes]
    BY UpgradeAssumption, <1>1 DEF BootLabel, Crash, AgentDies, still, Typed, TypeOK
  <1>6. UNCHANGED <<disk, bootstrap, reported, origin>>
    BY <1>1 DEF Crash
  <1> QED
    BY <1>2, <1>3, <1>4, <1>5, <1>6, StillTyped DEF Typed, TypeOK, disk

LEMMA TypedStep == Typed /\ [Next]_vars => Typed'
  <1> SUFFICES ASSUME Typed, [Next]_vars PROVE Typed'
    OBVIOUS
  <1>1. CASE UNCHANGED vars
    BY <1>1 DEF vars, disk, agent, locks, work, reader, budget, Typed, TypeOK, Undoable
  <1>2. CASE Next
    BY <1>2, PrepareTyped, WorkerTyped, PrepareStepTyped, AgentTyped, StartupTyped,
       DeathTyped DEF Next
  <1> QED
    BY <1>1, <1>2

LEMMA AlwaysTyped == Spec => []Typed
  BY TypedInit, TypedStep, PTL DEF Spec

\* Every variable keeps its type: journals are complete records, a lock has at
\* most one holder, and the bounds on faults and deaths are respected.
THEOREM TypeCorrect == Spec => []TypeOK
  <1>1. Typed => TypeOK
    BY DEF Typed
  <1> QED
    BY AlwaysTyped, <1>1, PTL

-----------------------------------------------------------------------------
(* At most one task is unfinished.                                         *)

Unfinished(t) == journal[t].status \notin Final \cup {"absent"}
Unlocked == {"dead", "load", "lockUpdate"}

\* The unfinished task is the one current.json names.
UnfinishedIsCurrent ==
    \A t \in Task :
      /\ Unfinished(t) => current = t
      /\ journal[t].status = "absent" => journal[t] = NoJob

\* A worker at work is the current task's and holds the lock.  One that waits
\* for the lock waits with a record that is still true.
WorkerIsCurrent ==
    \A t \in Task :
      /\ worker[t] \notin {"dead", "load"} => current = t
      /\ worker[t] \notin Unlocked => holder = t
      /\ worker[t] = "lockUpdate" => Unfinished(t)

\* A preparation holds the lock, and its task has had no worker yet.
PreparationIsAlone ==
    prep.pc # "idle" =>
      /\ holder = Agent /\ boot.pc \in {"up", "deferred"}
      /\ worker[prep.task] = "dead" /\ origin[prep.task].binary # NoVersion
      /\ IF prep.pc = "saveCurrent" THEN ~Pending ELSE current = prep.task

\* A task that was never prepared has neither service nor worker.
UnpreparedHasNoWorker ==
    \A t \in Task : origin[t].binary = NoVersion => worker[t] = "dead" /\ t \notin units

\* The lock alone does not keep a second task out: what the Agent and the
\* worker have read before they hold it must still be true when they do.
Exclusive ==
    /\ UnfinishedIsCurrent /\ WorkerIsCurrent
    /\ PreparationIsAlone /\ UnpreparedHasNoWorker

LEMMA ExclusiveInit == Init => Exclusive
  BY UpgradeAssumption
  DEF Init, Exclusive, UnfinishedIsCurrent, WorkerIsCurrent, PreparationIsAlone,
      UnpreparedHasNoWorker, Unfinished, NoJob, Unlocked

\* What the holder of the lock may do to the rest.
HolderFrame(t) ==
    /\ worker[t] \notin Unlocked
    /\ \E pc \in WorkerLabel \ {"load", "lockUpdate"} :
         /\ worker' = [worker EXCEPT ![t] = pc]
         /\ pc # "dead" => holder' = holder
    /\ \/ journal' = journal
       \/ \E record \in Job : record.status # "absent" /\ journal' = [journal EXCEPT ![t] = record]
    /\ units' \subseteq units
    /\ UNCHANGED <<current, prep, boot, origin>>

LEMMA HolderKeepsExclusive ==
    ASSUME Typed, Exclusive, NEW t \in Task, HolderFrame(t)
    PROVE  Exclusive'
  BY UpgradeAssumption DEF HolderFrame, Exclusive, WorkerIsCurrent, PreparationIsAlone, Unlocked, Typed, TypeOK,
     UnfinishedIsCurrent, Unfinished, UnpreparedHasNoWorker

LEMMA ExitFrame ==
    ASSUME NEW t \in Task, worker[t] \notin Unlocked, Exit(t), units' \subseteq units,
           UNCHANGED <<current, journal, prep, boot, origin>>
    PROVE  HolderFrame(t)
  BY DEF Exit, HolderFrame, WorkerLabel

LEMMA GotoFrame ==
    ASSUME NEW t \in Task, worker[t] \notin Unlocked,
           NEW pc \in WorkerLabel \ {"load", "lockUpdate"}, Goto(t, pc),
           UNCHANGED <<current, journal, units, prep, boot, origin>>
    PROVE  HolderFrame(t)
  BY DEF Goto, locks, HolderFrame

LEMMA EnterFrame ==
    ASSUME Typed, NEW t \in Task, NEW from \in WorkerLabel \ Unlocked,
           NEW status \in Phases \cup Final,
           NEW ok \in WorkerLabel \ {"load", "lockUpdate"},
           NEW err \in WorkerLabel \ {"load", "lockUpdate"},
           Enter(t, from, status, ok, err)
    PROVE  HolderFrame(t)
  <1> DEFINE record == [mem[t] EXCEPT !.status = status]
  <1>1. record \in Job /\ record.status # "absent"
    <2>1. mem[t] \in Job
      BY DEF Typed, TypeOK
    <2>2. status # "absent"
      BY DEF Phases, Final
    <2> QED
      BY <2>1, <2>2 DEF Job
  <1>2. /\ journal' = journal \/ journal' = [journal EXCEPT ![t] = record]
        /\ worker' = [worker EXCEPT ![t] = ok] \/ worker' = [worker EXCEPT ![t] = err]
        /\ worker[t] = from
        /\ UNCHANGED <<locks, current, units, rest>>
    BY DEF Enter, Save, Goto
  <1> HIDE DEF record
  <1> QED
    BY <1>1, <1>2 DEF HolderFrame, locks, rest, agent

LEMMA HolderStep ==
    ASSUME Typed, NEW t \in Task, WorkerStep(t), worker[t] \notin Unlocked
    PROVE  HolderFrame(t)
  <1>1. CASE \/ SaveVerifying(t) \/ SaveBackingUp(t) \/ SaveReplacing(t) \/ SaveRestarting(t)
             \/ SaveChecking(t) \/ SaveSucceeded(t) \/ SaveRolledBack(t)
             \/ SaveRollbackFailed(t) \/ Fail(t)
    <2>1. {"verify", "backup", "replace", "restart", "confirm", "finish", "fail",
           "restoreBinary"} \subseteq WorkerLabel \ {"load", "lockUpdate"}
      BY DEF WorkerLabel
    <2>2. {"saveVerifying", "saveBackingUp", "saveReplacing", "saveRestarting",
           "saveChecking", "saveSucceeded", "saveRolledBack", "saveRollbackFailed", "fail"}
             \subseteq WorkerLabel \ Unlocked
      BY DEF WorkerLabel, Unlocked
    <2>3. {"verifying", "backing_up", "replacing", "restarting", "checking", "succeeded",
           "rolled_back", "rollback_failed", "rolling_back", "failed"} \subseteq Phases \cup Final
      BY DEF Phases, Final
    <2> QED
      BY <1>1, <2>1, <2>2, <2>3, EnterFrame
      DEF SaveVerifying, SaveBackingUp, SaveReplacing, SaveRestarting,
          SaveChecking, SaveSucceeded, SaveRolledBack, SaveRollbackFailed, Fail
  <1>2. CASE \/ Download(t) \/ Verify(t) \/ Backup(t) \/ ApplyChange(t) \/ ChangesApplied(t)
             \/ Replace(t) \/ Restart(t) \/ Confirm(t) \/ RestoreBinary(t) \/ RestoreFile(t)
             \/ FilesRestored(t) \/ RestartPrevious(t) \/ ConfirmPrevious(t)
    <2>1. {"saveVerifying", "saveBackingUp", "saveMigrating", "migrate", "saveReplacing",
           "saveRestarting", "saveChecking", "saveSucceeded", "restoreFiles",
           "restartPrevious", "confirmPrevious", "saveRolledBack", "saveRollbackFailed",
           "fail"} \subseteq WorkerLabel \ {"load", "lockUpdate"}
      BY DEF WorkerLabel
    <2>2. \E pc \in WorkerLabel \ {"load", "lockUpdate"} : Goto(t, pc)
      BY <1>2, <2>1
      DEF Download, Verify, Attempt, Backup, ApplyChange, ChangesApplied, Replace, Restart,
          RestartAgent, Confirm, WaitReady, RestoreBinary, RestoreFile, FilesRestored,
          RestartPrevious, ConfirmPrevious
    <2>3. UNCHANGED <<current, journal, units, prep, boot, origin>>
      BY <1>2
      DEF Download, Verify, Attempt, Backup, ApplyChange, ChangesApplied, Replace, Restart,
          RestartAgent, Confirm, WaitReady, RestoreBinary, RestoreFile, FilesRestored,
          RestartPrevious, ConfirmPrevious, disk, rest, agent
    <2> QED
      BY <2>2, <2>3, GotoFrame
  <1>3. CASE LockCore(t)
    BY <1>3, ExitFrame DEF LockCore, disk, rest, agent, HolderFrame, WorkerLabel
  <1>4. CASE Resume(t)
    BY <1>4, EnterFrame, GotoFrame DEF WorkerLabel, Phases, Unlocked, Resume, Enter, disk, rest, agent
  <1>5. CASE SaveMigrating(t)
    <2> DEFINE record == [mem[t] EXCEPT !.status = "migrating", !.mutating = TRUE]
    <2>1. record \in Job /\ record.status # "absent"
      <3>1. mem[t] \in Job /\ "migrating" \in Phases
        BY DEF Typed, TypeOK, Phases
      <3> QED
        BY <3>1 DEF Job
    <2>2. /\ journal' = journal \/ journal' = [journal EXCEPT ![t] = record]
          /\ \/ worker' = [worker EXCEPT ![t] = "migrate"]
             \/ worker' = [worker EXCEPT ![t] = "fail"]
          /\ UNCHANGED <<locks, current, units, rest>>
      BY <1>5 DEF SaveMigrating, Goto
    <2> HIDE DEF record
    <2> QED
      BY <2>1, <2>2 DEF HolderFrame, locks, rest, agent, WorkerLabel
  <1>6. CASE Finish(t)
    BY <1>6, ExitFrame DEF Finish, rest, agent
  <1>7. CASE Spawn(t) \/ Load(t) \/ LockUpdate(t)
    BY <1>7 DEF Spawn, Load, LockUpdate, Unlocked
  <1> QED
    BY <1>1, <1>2, <1>3, <1>4, <1>5, <1>6, <1>7 DEF WorkerStep

\* A worker that does not hold the lock yet.
LEMMA WaitingKeepsExclusive ==
    ASSUME Typed, Exclusive, NEW t \in Task, Spawn(t) \/ Load(t) \/ LockUpdate(t)
    PROVE  Exclusive'
  <1>1. UNCHANGED <<journal, current, prep, boot, origin>> /\ units' \subseteq units
    BY DEF Spawn, Load, LockUpdate, disk, rest, agent
  <1>2. \A u \in Task : u # t => worker'[u] = worker[u]
    BY DEF Spawn, Load, LockUpdate, Goto, Exit, Typed, TypeOK
  <1>3. /\ worker'[t] \in {"dead", "load"} \/ current = t
        /\ worker'[t] \in Unlocked \/ holder' = t
        /\ worker'[t] = "lockUpdate" => Unfinished(t)
        /\ \A u \in Task \ {t} : holder = u => holder' = u
        /\ holder = Agent => holder' = Agent
    <2>1. CASE Spawn(t)
      BY <2>1 DEF Spawn, Goto, locks, Unlocked, Typed, TypeOK
    <2>2. CASE Load(t)
      BY <2>2, UpgradeAssumption
      DEF Load, Done, Goto, Exit, locks, Unlocked, Unfinished, Exclusive,
          UnfinishedIsCurrent, Typed, TypeOK
    <2>3. CASE LockUpdate(t)
      BY <2>3, UpgradeAssumption
      DEF LockUpdate, Exit, locks, Unlocked, Exclusive, WorkerIsCurrent, Typed, TypeOK
    <2> QED
      BY <2>1, <2>2, <2>3
  <1>4. prep.pc # "idle" => prep.task # t
    BY DEF Spawn, Load, LockUpdate, Exclusive, PreparationIsAlone
  <1>5. t \in units \/ worker[t] # "dead"
    BY DEF Spawn, Load, LockUpdate
  <1>6. UnfinishedIsCurrent'
    BY <1>1 DEF Exclusive, UnfinishedIsCurrent, Unfinished
  <1>7. WorkerIsCurrent'
    BY <1>1, <1>2, <1>3 DEF Exclusive, WorkerIsCurrent, Unfinished
  <1>8. PreparationIsAlone'
    BY <1>1, <1>2, <1>3, <1>4 DEF Exclusive, PreparationIsAlone, Pending, Typed
  <1>9. UnpreparedHasNoWorker'
    BY <1>1, <1>2, <1>5 DEF Exclusive, UnpreparedHasNoWorker
  <1> QED
    BY <1>6, <1>7, <1>8, <1>9 DEF Exclusive

LEMMA PrepareKeepsExclusive ==
    ASSUME Typed, Exclusive, NEW t \in Task, Prepare(t)
    PROVE  Exclusive'
  <1>1. worker[t] = "dead" /\ binary # NoVersion /\ boot.pc \in {"up", "deferred"}
    BY UpgradeAssumption
    DEF Prepare, Serving, Exclusive, UnpreparedHasNoWorker, Typed, TypeOK
  <1>2. /\ UNCHANGED <<current, journal, units, worker, boot>>
        /\ holder = Nobody /\ holder' = Agent
        /\ prep' = [pc |-> "saveCurrent", task |-> t]
        /\ origin' = [origin EXCEPT ![t] = [binary |-> binary, migrated |-> migrated]]
    BY DEF Prepare, agent, work
  <1>3. \A u \in Task : worker[u] \in Unlocked
    BY <1>2, UpgradeAssumption DEF Exclusive, WorkerIsCurrent
  <1>4. UnfinishedIsCurrent'
    BY <1>2 DEF Exclusive, UnfinishedIsCurrent, Unfinished
  <1>5. WorkerIsCurrent'
    BY <1>2, <1>3 DEF Exclusive, WorkerIsCurrent, Unfinished
  <1>6. PreparationIsAlone'
    BY <1>1, <1>2 DEF Prepare, PreparationIsAlone, Pending, Typed, TypeOK
  <1>7. UnpreparedHasNoWorker'
    BY <1>1, <1>2 DEF Exclusive, UnpreparedHasNoWorker, Typed, TypeOK
  <1> QED
    BY <1>4, <1>5, <1>6, <1>7 DEF Exclusive

LEMMA PrepareStepKeepsExclusive ==
    ASSUME UncertainStart = FALSE, Typed, Exclusive, PrepareStep
    PROVE  Exclusive'
  <1>1. /\ prep.pc # "idle" /\ prep.task \in Task /\ process \in Version
        /\ holder = Agent /\ boot.pc \in {"up", "deferred"}
        /\ worker[prep.task] = "dead" /\ origin[prep.task].binary # NoVersion
        /\ IF prep.pc = "saveCurrent" THEN ~Pending ELSE current = prep.task
    BY DEF PrepareStep, SaveCurrent, SaveJob, StartWorker, SavePrepareFailed, Typed,
           Exclusive, PreparationIsAlone
  <1>2. \A u \in Task : worker[u] \in {"dead", "load"}
    BY <1>1, UpgradeAssumption DEF Exclusive, WorkerIsCurrent, Pending, Unfinished, Unlocked
  <1>3. \A u \in Task : u # prep.task => ~Unfinished(u)
    BY <1>1, UpgradeAssumption DEF Exclusive, UnfinishedIsCurrent, Unfinished, Pending
  <1>4. /\ UNCHANGED <<boot, origin>>
        /\ \A u \in Task : u # prep.task => journal'[u] = journal[u] /\ worker'[u] = worker[u]
                                            /\ (u \in units' => u \in units)
        /\ worker'[prep.task] \in {"dead", "load"}
    BY <1>1
    DEF PrepareStep, SaveCurrent, SaveJob, StartWorker, SavePrepareFailed, disk, agent, work,
        Typed, TypeOK
  <1>5. /\ journal'[prep.task].status = "absent" => journal'[prep.task] = NoJob
        /\ current' = prep.task \/ UNCHANGED <<current, journal>>
    <2>1. Queued.status = "queued" /\ [Queued EXCEPT !.status = "failed"].status = "failed"
      BY DEF Queued, NoJob
    <2>2. /\ \/ journal' = journal
             \/ journal' = [journal EXCEPT ![prep.task] = Queued]
             \/ journal' = [journal EXCEPT ![prep.task] = [Queued EXCEPT !.status = "failed"]]
          /\ current' = prep.task \/ UNCHANGED <<current, journal>>
      BY <1>1
      DEF PrepareStep, SaveCurrent, SaveJob, StartWorker, SavePrepareFailed, disk
    <2> QED
      BY <1>1, <2>1, <2>2 DEF Typed, TypeOK, Exclusive, UnfinishedIsCurrent
  <1>6. \/ prep'.pc = "idle"
        \/ /\ prep' = [prep EXCEPT !.pc = prep'.pc] /\ prep'.pc # "saveCurrent"
           /\ UNCHANGED <<locks, worker>> /\ current' = prep.task
    BY <1>1 DEF PrepareStep, SaveCurrent, SaveJob, StartWorker, SavePrepareFailed, PrepGoto,
                PrepareEnds, disk, work, Typed, TypeOK
  <1>7. UnfinishedIsCurrent'
    BY <1>1, <1>3, <1>4, <1>5 DEF Exclusive, UnfinishedIsCurrent, Unfinished
  <1>8. WorkerIsCurrent'
    BY <1>2, <1>4 DEF WorkerIsCurrent, Unlocked
  <1>9. PreparationIsAlone'
    BY <1>1, <1>4, <1>6 DEF PreparationIsAlone, locks, Typed, TypeOK
  <1>10. UnpreparedHasNoWorker'
    BY <1>1, <1>4 DEF Exclusive, UnpreparedHasNoWorker
  <1> QED
    BY <1>7, <1>8, <1>9, <1>10 DEF Exclusive

\* Nothing else changes a record but pruning, which leaves the current one.
LEMMA AgentKeepsExclusive ==
    ASSUME Typed, Exclusive,
           Operation \/ Status \/ PruneCompleted \/ Startup \/ StartAgent \/ StopAgent \/ Death
    PROVE  Exclusive'
  <1>1. CASE Operation \/ Status
    <2>1. UNCHANGED <<current, journal, units, worker, boot, prep, holder, origin>>
      BY <1>1 DEF Operation, Status, CheckPending, StartOperation, EndOperation, ReadStatus,
                  Answer, disk, agent, work, locks
    <2> QED
      BY <2>1 DEF Exclusive, UnfinishedIsCurrent, WorkerIsCurrent, PreparationIsAlone,
                  UnpreparedHasNoWorker, Unfinished, Pending
  <1>2. CASE PruneCompleted
    <2>1. /\ UNCHANGED <<current, units, worker, boot, prep, holder, origin>>
          /\ holder = Nobody /\ current # NoTask
          /\ \A t \in Task : journal'[t] = journal[t] \/ (t # current /\ journal'[t] = NoJob)
      BY <1>2 DEF PruneCompleted, Prunable, agent, work, locks
    <2>2. prep.pc = "idle" /\ NoJob.status = "absent"
      BY <2>1, UpgradeAssumption DEF Exclusive, PreparationIsAlone, NoJob
    <2> QED
      BY <2>1, <2>2
      DEF Exclusive, UnfinishedIsCurrent, WorkerIsCurrent, PreparationIsAlone,
          UnpreparedHasNoWorker, Unfinished
  <1>3. CASE Startup
    <2>1. UNCHANGED <<current, journal, units, worker, origin>>
      BY <1>3 DEF Startup, FinishDeferred, BootLoad, BootRestore, BootPlan, BootApply,
                  BootDone, bootRest, disk, work
    <2>2. /\ holder' = holder \/ holder \in {Agent, Nobody}
          /\ prep.pc # "idle" => prep'.pc = "idle" \/ (UNCHANGED <<prep, holder>>
                                                       /\ boot'.pc \in {"up", "deferred"})
          /\ prep.pc = "idle" => prep'.pc = "idle"
      BY <1>3, UpgradeAssumption
      DEF Startup, FinishDeferred, BootLoad, BootRestore, BootPlan, BootApply, BootDone,
          bootRest, still, BootEnds, BootFails, AgentDies, BootGoto, Background, locks,
          Exclusive, PreparationIsAlone
    <2> QED
      BY <2>1, <2>2, UpgradeAssumption
      DEF Exclusive, UnfinishedIsCurrent, WorkerIsCurrent, PreparationIsAlone,
          UnpreparedHasNoWorker, Unfinished, Pending
  <1>4. CASE StartAgent
    <2>1. UNCHANGED <<current, journal, units, worker, origin, prep, holder>>
      BY <1>4 DEF StartAgent, disk, work, locks
    <2>2. prep.pc = "idle"
      BY <1>4, UpgradeAssumption DEF StartAgent, Typed
    <2> QED
      BY <2>1, <2>2
      DEF Exclusive, UnfinishedIsCurrent, WorkerIsCurrent, PreparationIsAlone,
          UnpreparedHasNoWorker, Unfinished
  <1>5. CASE StopAgent
    BY <1>5, UpgradeAssumption DEF StopAgent, AgentDies, disk, work, Exclusive, UnfinishedIsCurrent,
       WorkerIsCurrent, PreparationIsAlone, UnpreparedHasNoWorker, Unfinished
  <1>6. CASE Death
    <2>1. PICK agentDies \in BOOLEAN, dead \in SUBSET Task : Crash(agentDies, dead)
      BY <1>6 DEF Death
    <2>2. /\ UNCHANGED <<current, journal, units, origin>>
          /\ \A t \in Task : worker'[t] = "dead" \/ (t \notin dead /\ worker'[t] = worker[t])
          /\ prep'.pc = "idle" \/ (UNCHANGED <<prep, boot>> /\ ~agentDies)
      BY <2>1 DEF Crash, AgentDies, disk
    <2>3. /\ \A t \in Task \ dead : holder = t => holder' = t
          /\ ~agentDies /\ holder = Agent => holder' = Agent
      BY <2>1, UpgradeAssumption DEF Crash
    <2> QED
      BY <2>2, <2>3
      DEF Exclusive, UnfinishedIsCurrent, WorkerIsCurrent, PreparationIsAlone,
          UnpreparedHasNoWorker, Unfinished, Unlocked, Pending, Typed
  <1> QED
    BY <1>1, <1>2, <1>3, <1>4, <1>5, <1>6

LEMMA ExclusiveStep ==
    ASSUME UncertainStart = FALSE
    PROVE  Typed /\ Exclusive /\ [Next]_vars => Exclusive'
  <1> SUFFICES ASSUME Typed, Exclusive, [Next]_vars PROVE Exclusive'
    OBVIOUS
  <1>1. ASSUME NEW t \in Task, WorkerStep(t)
        PROVE  Exclusive'
    <2>1. CASE worker[t] \notin Unlocked
      BY <1>1, <2>1, HolderStep, HolderKeepsExclusive
    <2>2. CASE worker[t] \in Unlocked
      <3>1. Spawn(t) \/ Load(t) \/ LockUpdate(t)
        BY <1>1, <2>2
        DEF WorkerStep, LockCore, Resume, Download, SaveVerifying, Verify, SaveBackingUp,
            Backup, SaveMigrating, ApplyChange, ChangesApplied, SaveReplacing, Replace,
            SaveRestarting, Restart, SaveChecking, Confirm, SaveSucceeded, Fail,
            RestoreBinary, RestoreFile, FilesRestored, RestartPrevious, ConfirmPrevious,
            SaveRolledBack, SaveRollbackFailed, Finish, Attempt, Enter, Unlocked
      <3> QED
        BY <3>1, WaitingKeepsExclusive
    <2> QED
      BY <2>1, <2>2
  <1>2. CASE UNCHANGED vars
    BY <1>2 DEF vars, disk, agent, locks, work, Exclusive, UnfinishedIsCurrent,
                WorkerIsCurrent, PreparationIsAlone, UnpreparedHasNoWorker, Unfinished, Pending
  <1> QED
    BY <1>1, <1>2, PrepareKeepsExclusive, PrepareStepKeepsExclusive, AgentKeepsExclusive
    DEF Next

\* Whatever dies, fails or cannot be recorded, no two tasks are ever in
\* progress, provided a worker that the service manager said did not start
\* did not start.
THEOREM OneUnfinished ==
    ASSUME UncertainStart = FALSE
    PROVE  Spec => []OneUnfinishedTask
  <1>1. Exclusive => OneUnfinishedTask
    BY DEF Exclusive, UnfinishedIsCurrent, Unfinished, OneUnfinishedTask
  <1>2. Typed /\ Exclusive /\ [Next]_vars => Exclusive'
    BY ExclusiveStep
  <1> QED
    BY AlwaysTyped, ExclusiveInit, <1>1, <1>2, PTL DEF Spec

-----------------------------------------------------------------------------
(* The locks.                                                              *)

Working == WorkerLabel \ (Unlocked \cup {"lockCore"})

\* A worker changes files with both locks, a preparation runs with both, and
\* the Agent prepares only when its start is over.
LockDiscipline ==
    /\ \A t \in Task : /\ worker[t] \notin Unlocked => holder = t
                       /\ worker[t] \in Working => op = "worker"
    /\ prep.pc # "idle" => holder = Agent /\ boot.pc \in {"up", "deferred"}

\* A step of a worker ends it, keeps its locks, or takes one of them.
LockStep(t) ==
    \/ Exit(t)
    \/ /\ UNCHANGED locks
       /\ \E pc \in WorkerLabel : /\ worker' = [worker EXCEPT ![t] = pc]
                                  /\ pc \in Unlocked \/ worker[t] \in Working
    \/ /\ holder = Nobody /\ holder' = t /\ op' = op
       /\ worker' = [worker EXCEPT ![t] = "lockCore"]
    \/ /\ worker[t] = "lockCore" /\ op' = "worker" /\ holder' = holder
       /\ worker' = [worker EXCEPT ![t] = "resume"]

LEMMA WorkerLockStep ==
    ASSUME NEW t \in Task, WorkerStep(t)
    PROVE  LockStep(t) /\ UNCHANGED <<prep, boot>>
  <1>1. CASE Spawn(t) \/ Load(t)
    BY <1>1 DEF Spawn, Load, Goto, LockStep, Unlocked, WorkerLabel, rest, agent
  <1>2. CASE LockUpdate(t) \/ LockCore(t)
    BY <1>2 DEF LockUpdate, LockCore, LockStep, rest, agent
  <1>3. CASE \/ SaveVerifying(t) \/ SaveBackingUp(t) \/ SaveReplacing(t) \/ SaveRestarting(t)
             \/ SaveChecking(t) \/ SaveSucceeded(t) \/ SaveRolledBack(t)
             \/ SaveRollbackFailed(t) \/ Fail(t) \/ SaveMigrating(t) \/ Resume(t)
    <2>1. UNCHANGED <<prep, boot>> /\ worker[t] \in Working
      BY <1>3
      DEF SaveVerifying, SaveBackingUp, SaveReplacing, SaveRestarting, SaveChecking,
          SaveSucceeded, SaveRolledBack, SaveRollbackFailed, Fail, SaveMigrating, Resume,
          Enter, Save, Working, Unlocked, WorkerLabel, rest, agent
    <2>2. \E pc \in WorkerLabel : Goto(t, pc)
      BY <1>3
      DEF SaveVerifying, SaveBackingUp, SaveReplacing, SaveRestarting, SaveChecking,
          SaveSucceeded, SaveRolledBack, SaveRollbackFailed, Fail, SaveMigrating, Resume,
          Enter, Save, WorkerLabel
    <2> QED
      BY <2>1, <2>2 DEF Goto, LockStep
  <1>4. CASE \/ Download(t) \/ Verify(t) \/ Backup(t) \/ ApplyChange(t) \/ ChangesApplied(t)
             \/ Replace(t) \/ Restart(t) \/ Confirm(t) \/ RestoreBinary(t) \/ RestoreFile(t)
             \/ FilesRestored(t) \/ RestartPrevious(t) \/ ConfirmPrevious(t)
    <2>1. UNCHANGED <<prep, boot>> /\ worker[t] \in Working
      BY <1>4
      DEF Download, Verify, Attempt, Backup, ApplyChange, ChangesApplied, Replace, Restart,
          RestartAgent, Confirm, WaitReady, RestoreBinary, RestoreFile, FilesRestored,
          RestartPrevious, ConfirmPrevious, Working, Unlocked, WorkerLabel, rest, agent
    <2>2. \E pc \in WorkerLabel : Goto(t, pc)
      BY <1>4
      DEF Download, Verify, Attempt, Backup, ApplyChange, ChangesApplied, Replace, Restart,
          RestartAgent, Confirm, WaitReady, RestoreBinary, RestoreFile, FilesRestored,
          RestartPrevious, ConfirmPrevious, WorkerLabel
    <2> QED
      BY <2>1, <2>2 DEF Goto, LockStep
  <1>5. CASE Finish(t)
    BY <1>5 DEF Finish, LockStep, rest, agent
  <1> QED
    BY <1>1, <1>2, <1>3, <1>4, <1>5 DEF WorkerStep

LEMMA WorkerKeepsLocks ==
    ASSUME Typed, LockDiscipline, NEW t \in Task, WorkerStep(t)
    PROVE  LockDiscipline'
  BY WorkerLockStep, UpgradeAssumption DEF Typed, TypeOK, Exit, locks, LockDiscipline, Unlocked, Working, LockStep

LEMMA AgentKeepsLocks ==
    ASSUME Typed, LockDiscipline,
           \/ \E t \in Task : Prepare(t)
           \/ PrepareStep \/ Operation \/ Status \/ PruneCompleted
           \/ Startup \/ StartAgent \/ StopAgent
    PROVE  LockDiscipline'
  <1>0. Agent \notin Task /\ Nobody \notin Task /\ Agent # Nobody
        /\ worker \in [Task -> WorkerLabel]
    BY UpgradeAssumption DEF Typed, TypeOK
  <1>1. ASSUME NEW t \in Task, Prepare(t)
        PROVE  LockDiscipline'
    BY <1>0, <1>1 DEF Prepare, Serving, agent, work, LockDiscipline, Working
  <1>2. CASE PrepareStep
    <2>1. holder = Agent /\ boot.pc \in {"up", "deferred"} /\ boot' = boot
      BY <1>2 DEF PrepareStep, SaveCurrent, SaveJob, StartWorker, SavePrepareFailed,
                  LockDiscipline, agent
    <2>2. \A t \in Task : worker[t] \in Unlocked
      BY <1>0, <2>1 DEF LockDiscipline
    <2>3. \A t \in Task : worker'[t] \in Unlocked
      BY <1>0, <1>2, <2>2 DEF PrepareStep, SaveCurrent, SaveJob, StartWorker,
                              SavePrepareFailed, work, Unlocked
    <2>4. prep'.pc = "idle" \/ holder' = holder
      BY <1>2 DEF PrepareStep, SaveCurrent, SaveJob, StartWorker, SavePrepareFailed,
                  PrepareEnds, locks
    <2> QED
      BY <2>1, <2>3, <2>4 DEF LockDiscipline, Working
  <1>3. CASE Operation
    BY <1>3 DEF Operation, CheckPending, StartOperation, EndOperation, work, agent, locks, LockDiscipline
  <1>4. CASE Status \/ PruneCompleted
    BY <1>4 DEF Status, ReadStatus, Answer, PruneCompleted, work, agent, locks, LockDiscipline
  <1>5. CASE Startup
    <2>1. worker' = worker /\ op' = op /\ (holder' = holder \/ holder \in {Agent, Nobody})
      BY <1>5 DEF Startup, FinishDeferred, BootLoad, BootRestore, BootPlan, BootApply,
                  BootDone, bootRest, work, BootEnds, BootFails, BootGoto, Background, locks
    <2>2. prep'.pc = "idle" \/ (UNCHANGED <<prep, holder>> /\ boot'.pc \in {"up", "deferred"})
      BY <1>0, <1>5
      DEF Startup, FinishDeferred, BootLoad, BootRestore, BootPlan, BootApply, BootDone,
          bootRest, still, BootFails, BootEnds, AgentDies, BootGoto, Background, locks,
          LockDiscipline
    <2> QED
      BY <1>0, <2>1, <2>2 DEF LockDiscipline
  <1>6. CASE StartAgent
    <2>1. prep.pc = "idle"
      BY <1>6, UpgradeAssumption DEF StartAgent, Typed
    <2> QED
      BY <1>6, <2>1 DEF StartAgent, work, locks, LockDiscipline
  <1>7. CASE StopAgent
    BY <1>7, <1>0 DEF StopAgent, AgentDies, work, LockDiscipline
  <1> QED
    BY <1>1, <1>2, <1>3, <1>4, <1>5, <1>6, <1>7

\* The system frees the locks of what dies, and no others.
LEMMA DeathKeepsLocks ==
    ASSUME Typed, LockDiscipline, Death
    PROVE  LockDiscipline'
  BY UpgradeAssumption DEF Death, Crash, AgentDies, Working, Unlocked, LockDiscipline

LEMMA LockDisciplineInit == Init => LockDiscipline
  BY DEF Init, LockDiscipline, Unlocked, Working

LEMMA LockDisciplineStep == Typed /\ LockDiscipline /\ [Next]_vars => LockDiscipline'
  BY WorkerKeepsLocks, AgentKeepsLocks, DeathKeepsLocks DEF vars, agent, locks, work, LockDiscipline, Next

\* A deployment, restart or uninstall that holds operation.lock never meets a
\* worker that changes or restarts the Agent, also when it looked for a
\* pending update before the update began.
THEOREM OperationsExcluded == Spec => []OperationsExcludeUpdate
  <1>1. LockDiscipline => OperationsExcludeUpdate
    BY DEF LockDiscipline, OperationsExcludeUpdate, Mutating, Working, Unlocked, WorkerLabel
  <1> QED
    BY AlwaysTyped, LockDisciplineInit, LockDisciplineStep, <1>1, PTL DEF Spec

-----------------------------------------------------------------------------
(***************************************************************************)
(* What the Agent's update promises of its outcome, proved for any tasks,  *)
(* versions and files, any number of deaths and any failures of downloads, *)
(* files and services.                                                     *)
(*                                                                         *)
(* Two actors change the program and the migration files: the worker of    *)
(* the current task, under update.lock, and an Agent that starts, under no *)
(* lock.  The invariant says what the journal on disk, the worker's memory *)
(* and the files agree on at every step of both.  The hypothesis           *)
(* UncertainStart = FALSE is the one of OneUnfinished; MaxFaults <= 1 says *)
(* that at most one journal write reports an error: two of them can leave  *)
(* "succeeded" on disk while the worker restores the old program.          *)
(***************************************************************************)

\* The start of the Agent may be changing files.
Active == boot.pc \in {"ensure", "restore", "plan", "migrate", "undo"}
\* The migration is complete, or the journal of the start is open.
Whole == migrated = Change \/ ~bootstrap.complete
\* Nothing has changed since t was prepared.
Untouched(t) == binary = origin[t].binary /\ migrated = origin[t].migrated
\* A record of changes holds what undoes them.
Sound(record, t) ==
    record.mutating =>
      record.backup = origin[t].binary /\ record.snapshots = origin[t].migrated

\* The steps of a worker, by what it has done.
Resuming == {"lockUpdate", "lockCore", "resume"}
Early == {"download", "saveVerifying", "verify", "saveBackingUp", "backup"}
Changing == {"migrate", "saveReplacing", "replace", "saveRestarting", "restart",
             "saveChecking", "confirm", "saveSucceeded"}
Replaced == {"saveRestarting", "restart", "saveChecking", "confirm", "saveSucceeded"}
Undoing == {"restoreBinary", "restoreFiles", "restartPrevious", "confirmPrevious",
            "saveRolledBack", "saveRollbackFailed"}
BinaryRestored == {"restoreFiles", "restartPrevious", "confirmPrevious", "saveRolledBack"}
RollbackPhases == {"rolling_back", "rollback_failed"}

\* A starting Agent changes files only under its own open journal, and while
\* no task is in progress.  The exception is a rollback of a task whose
\* success was recorded by a write that reported an error.
StartIsJournaled ==
    /\ boot.pc \in {"restore", "migrate", "undo"} => ~bootstrap.complete
    /\ Active => \/ current = NoTask
                 \/ journal[current].status \in Final
                 \/ /\ journal[current].status \in RollbackPhases
                    /\ holder # Agent /\ faults > 0
    /\ boot.pc = "migrate" /\ ~Pending => 1..boot.next \subseteq migrated

\* What the journal on disk says of the program and the files.
RecordIsTrue(t) ==
    current = t =>
      /\ journal[t].status = "succeeded" => binary = Target[t] /\ Whole
      /\ journal[t].status = "rolled_back" => binary = origin[t].binary /\ Whole
      /\ journal[t].status = "failed" =>
           binary = origin[t].binary /\ (migrated = origin[t].migrated \/ Whole)
      /\ Unfinished(t) =>
           IF journal[t].mutating THEN Sound(journal[t], t) ELSE Untouched(t)
      /\ journal[t].status \in RollbackPhases => journal[t].mutating
      /\ journal[t].status = "queued" => ~journal[t].mutating

\* What the worker's memory, its next step and the journal agree on.
MemoryIsJournal(t) ==
    /\ worker[t] \in Resuming \cup Early \cup Changing => mem[t] = journal[t]
    /\ worker[t] \in Resuming \cup Undoing => Unfinished(t)
    /\ worker[t] \in Early \cup {"saveMigrating"} =>
         ~journal[t].mutating /\ journal[t].status \in {"downloading", "verifying", "backing_up"}
    /\ worker[t] = "saveMigrating" =>
         mem[t].backup = origin[t].binary /\ mem[t].snapshots = origin[t].migrated
    /\ worker[t] \in Changing =>
         /\ journal[t].mutating
         /\ journal[t].status \in {"migrating", "replacing", "restarting", "checking"}
    /\ worker[t] \in Undoing => mem[t].mutating

\* The entry of the worker's failure handling.
FailureIsKnown(t) ==
    worker[t] = "fail" =>
      IF mem[t].mutating
        THEN Unfinished(t) \/ (journal[t].status = "succeeded" /\ faults > 0)
        ELSE Untouched(t) /\ Unfinished(t) /\ journal[t].status \notin RollbackPhases

UndoIsSound(t) ==
    worker[t] \in Undoing \cup {"fail"} /\ mem[t].mutating =>
      Sound(mem[t], t) /\ journal[t].mutating

\* What the worker has installed so far.
WorkIsDone(t) ==
    /\ worker[t] \in Replaced => binary = Target[t]
    /\ worker[t] = "saveSucceeded" => migrated = Change /\ Target[t] \notin Broken
    /\ worker[t] \in BinaryRestored => binary = origin[t].binary
    /\ worker[t] = "saveRolledBack" => migrated = Change /\ ~Active

TaskIsTrue(t) ==
    /\ RecordIsTrue(t) /\ MemoryIsJournal(t)
    /\ FailureIsKnown(t) /\ UndoIsSound(t) /\ WorkIsDone(t)

PreparationIsUntouched == prep.pc # "idle" => Untouched(prep.task)

CurrentIsPrepared == current # NoTask => origin[current].binary # NoVersion

Truthful ==
    /\ StartIsJournaled /\ PreparationIsUntouched /\ CurrentIsPrepared
    /\ \A t \in Task : TaskIsTrue(t)

-----------------------------------------------------------------------------
(* The order of the files, while every journal write has succeeded.        *)

Prefix(files) == \E k \in 0..Changes : files = 1..k
\* A restoration that has come down to file n.
Aligned(n, snapshots) == \A f \in Change : f > n => (f \in migrated <=> f \in snapshots)
InProgress(t) == (current = t /\ Unfinished(t)) \/ (prep.pc # "idle" /\ prep.task = t)

StartIsOrdered ==
    /\ Prefix(migrated) /\ Prefix(bootstrap.snapshots)
    /\ ~bootstrap.complete => bootstrap.snapshots \subseteq migrated
    /\ boot.pc \in {"restore", "undo"} => Aligned(boot.next, bootstrap.snapshots)
TaskIsOrdered(t) ==
    /\ InProgress(t) =>
         /\ Prefix(origin[t].migrated) /\ origin[t].migrated \subseteq migrated
         /\ ~bootstrap.complete => bootstrap.snapshots \subseteq origin[t].migrated
    /\ worker[t] = "migrate" => 1..next[t] \subseteq migrated
    /\ worker[t] = "restoreFiles" => Aligned(next[t], mem[t].snapshots)
    /\ worker[t] \notin {"migrate", "restoreFiles"} => next[t] = 0
Ordered == StartIsOrdered /\ \A t \in Task : TaskIsOrdered(t)

\* What a task in progress needs to be recovered.
Supplied(t) ==
    /\ InProgress(t) => t \in copies
    /\ worker[t] # "dead" => t \in units
    /\ Unfinished(t) /\ journal[t].mutating => t \in units
    /\ worker[t] = "finish" => mem[t] = journal[t]
Recoverable == \A t \in Task : Supplied(t)

\* The invariant of the histories in which no journal write reports an error,
\* of which there may be any number in others.
Clean == faults = 0 => Truthful /\ Ordered /\ Recoverable

-----------------------------------------------------------------------------
(* What holds of tasks that are not at work.                               *)

\* Only the current task has a worker past its load.
LEMMA OnlyCurrent ==
    ASSUME Exclusive', \A t \in Task : current' = t => TaskIsTrue(t)'
    PROVE  \A t \in Task : TaskIsTrue(t)'
  <1> SUFFICES ASSUME NEW t \in Task, current' # t
               PROVE  TaskIsTrue(t)'
    OBVIOUS
  <1>1. worker'[t] \in {"dead", "load"}
    BY DEF Exclusive, WorkerIsCurrent
  <1> QED
    BY <1>1
    DEF TaskIsTrue, RecordIsTrue, MemoryIsJournal, FailureIsKnown, UndoIsSound, WorkIsDone,
        Resuming, Early, Changing, Replaced, Undoing, BinaryRestored

\* What the invariant says of a task whose worker is not at work.
LEMMA RestingTask ==
    ASSUME NEW t \in Task, worker'[t] \in {"dead", "load", "finish"}, RecordIsTrue(t)'
    PROVE  TaskIsTrue(t)'
  BY DEF TaskIsTrue, MemoryIsJournal, FailureIsKnown, UndoIsSound, WorkIsDone,
         Resuming, Early, Changing, Replaced, Undoing, BinaryRestored

\* A step of the worker that holds the lock keeps what StartIsJournaled says.
LEMMA StartKept ==
    ASSUME Typed, StartIsJournaled, NEW t \in Task, current = t, holder' # Agent,
           UNCHANGED <<boot, bootstrap, current>>, faults' \in Nat, faults' >= faults,
           \/ ~Active
           \/ journal'[t].status \in RollbackPhases /\ faults' > 0
           \/ journal'[t].status = journal[t].status /\ (migrated' = migrated \/ Unfinished(t))
    PROVE  StartIsJournaled'
  BY UpgradeAssumption DEF Typed, TypeOK, Active, StartIsJournaled, Pending, RollbackPhases, Final, Unfinished

\* What a save of the worker leaves, whether or not it reports an error.
LEMMA EnterFacts ==
    ASSUME Typed, NEW t \in Task, NEW from, NEW status, NEW ok, NEW err,
           Enter(t, from, status, ok, err)
    PROVE  /\ mem'[t].status = status /\ mem'[t].mutating = mem[t].mutating
           /\ mem'[t].backup = mem[t].backup /\ mem'[t].snapshots = mem[t].snapshots
           /\ \/ journal'[t] = mem'[t] /\ worker'[t] = ok /\ faults' = faults
              \/ /\ journal'[t] \in {journal[t], mem'[t]} /\ worker'[t] = err
                 /\ faults < MaxFaults /\ faults' = faults + 1
           /\ UNCHANGED <<current, copies, units, binary, migrated, next, holder, op,
                          process, boot, bootstrap, prep, origin>>
  <1> DEFINE record == [mem[t] EXCEPT !.status = status]
  <1>1. /\ record.status = status /\ record.mutating = mem[t].mutating
        /\ record.backup = mem[t].backup /\ record.snapshots = mem[t].snapshots
    BY DEF Typed, TypeOK, Job
  <1>2. /\ mem' = [mem EXCEPT ![t] = record]
        /\ \/ /\ journal' = [journal EXCEPT ![t] = record]
              /\ worker' = [worker EXCEPT ![t] = ok] /\ NoFault
           \/ /\ journal' \in {journal, [journal EXCEPT ![t] = record]}
              /\ worker' = [worker EXCEPT ![t] = err] /\ Fault
        /\ UNCHANGED <<locks, current, copies, units, binary, migrated, next, rest>>
    BY DEF Enter, Save, Goto
  <1> HIDE DEF record
  <1>3. /\ mem'[t] = record
        /\ \/ journal'[t] = record /\ worker'[t] = ok /\ faults' = faults
           \/ /\ journal'[t] \in {journal[t], record} /\ worker'[t] = err
              /\ faults < MaxFaults /\ faults' = faults + 1
    BY <1>2 DEF Typed, TypeOK, NoFault, Fault, budget
  <1>4. UNCHANGED <<current, copies, units, binary, migrated, next, holder, op,
                    process, boot, bootstrap, prep, origin>>
    BY <1>2 DEF locks, rest, agent
  <1> QED
    BY <1>1, <1>3, <1>4

\* While a task goes forward no Agent is starting.
LEMMA ForwardIsQuiet ==
    ASSUME Typed, Exclusive, StartIsJournaled, NEW t \in Task, TaskIsTrue(t),
           \/ worker[t] \in Early \cup Changing \cup {"saveMigrating"}
           \/ worker[t] = "resume" /\ mem[t].status = "queued"
           \/ worker[t] = "fail" /\ ~mem[t].mutating
    PROVE  ~Active
  <1>1. current = t
    BY DEF Exclusive, WorkerIsCurrent, Early, Changing
  <1>2. journal[t].status \notin Final /\ journal[t].status \notin RollbackPhases
    BY DEF TaskIsTrue, MemoryIsJournal, FailureIsKnown, Unfinished, Final, RollbackPhases,
           Resuming, Early, Changing
  <1> QED
    BY <1>1, <1>2, UpgradeAssumption DEF StartIsJournaled

-----------------------------------------------------------------------------
(* The worker goes forward.                                                *)

\* The records before the first change.
LEMMA EarlySave ==
    ASSUME Typed, Exclusive, StartIsJournaled, NEW t \in Task, TaskIsTrue(t),
           NEW from, NEW status \in {"downloading", "verifying", "backing_up"},
           NEW ok \in Early, Enter(t, from, status, ok, "fail"),
           from \in Early \/ (from = "resume" /\ mem[t].status = "queued")
    PROVE  TaskIsTrue(t)' /\ StartIsJournaled'
  <1>1. worker[t] = from /\ current = t /\ holder = t /\ t # Agent
    BY UpgradeAssumption DEF Enter, Exclusive, WorkerIsCurrent, Unlocked, Early
  <1>2. ~Active
    BY <1>1, ForwardIsQuiet
  <1>3. /\ mem[t] = journal[t] /\ Unfinished(t) /\ Untouched(t)
        /\ ~journal[t].mutating /\ journal[t].status \notin RollbackPhases
    BY <1>1 DEF TaskIsTrue, MemoryIsJournal, RecordIsTrue, Unfinished, Early, Resuming,
                RollbackPhases, Final
  <1>4. /\ mem'[t].status = status /\ mem'[t].mutating = mem[t].mutating
        /\ \/ journal'[t] = mem'[t] /\ worker'[t] = ok
           \/ /\ journal'[t] \in {journal[t], mem'[t]} /\ worker'[t] = "fail"
        /\ UNCHANGED <<current, binary, migrated, holder, boot, bootstrap, origin>>
    BY EnterFacts
  <1>5. faults' \in Nat /\ faults' >= faults
    BY UpgradeAssumption DEF Enter, Save, Fault, NoFault, budget, Typed, TypeOK
  <1>6. /\ ~mem'[t].mutating /\ ~journal'[t].mutating
        /\ journal'[t].status \notin RollbackPhases \cup Final \cup {"absent"}
    BY <1>3, <1>4 DEF Unfinished, RollbackPhases, Final
  <1>7. Untouched(t)'
    BY <1>3, <1>4 DEF Untouched
  <1>8. RecordIsTrue(t)'
    BY <1>6, <1>7 DEF RecordIsTrue, Unfinished, Final, RollbackPhases
  <1>9. MemoryIsJournal(t)' /\ FailureIsKnown(t)' /\ UndoIsSound(t)' /\ WorkIsDone(t)'
    BY <1>4, <1>6, <1>7
    DEF MemoryIsJournal, FailureIsKnown, UndoIsSound, WorkIsDone, Unfinished,
        Resuming, Early, Changing, Replaced, Undoing, BinaryRestored
  <1> QED
    BY <1>1, <1>2, <1>4, <1>5, <1>8, <1>9, StartKept DEF TaskIsTrue

\* The records between the changes.
LEMMA ChangeSave ==
    ASSUME Typed, Exclusive, StartIsJournaled, NEW t \in Task, TaskIsTrue(t),
           NEW from \in Changing, NEW status \in {"replacing", "restarting", "checking"},
           NEW ok \in Changing \ {"saveSucceeded"}, Enter(t, from, status, ok, "fail"),
           ok \in Replaced => from \in Replaced
    PROVE  TaskIsTrue(t)' /\ StartIsJournaled'
  <1>1. worker[t] = from /\ current = t /\ holder = t /\ t # Agent
    BY UpgradeAssumption DEF Enter, Exclusive, WorkerIsCurrent, Unlocked, Changing
  <1>2. ~Active
    BY <1>1, ForwardIsQuiet
  <1>3. /\ mem[t] = journal[t] /\ Unfinished(t) /\ Sound(journal[t], t)
        /\ journal[t].mutating /\ journal[t].status \notin RollbackPhases \cup {"queued"}
        /\ from \in Replaced => binary = Target[t]
    BY <1>1 DEF TaskIsTrue, MemoryIsJournal, RecordIsTrue, WorkIsDone, Unfinished, Changing,
                RollbackPhases, Final
  <1>4. /\ mem'[t].status = status /\ mem'[t].mutating = mem[t].mutating
        /\ mem'[t].backup = mem[t].backup /\ mem'[t].snapshots = mem[t].snapshots
        /\ \/ journal'[t] = mem'[t] /\ worker'[t] = ok
           \/ /\ journal'[t] \in {journal[t], mem'[t]} /\ worker'[t] = "fail"
        /\ UNCHANGED <<current, binary, migrated, holder, boot, bootstrap, origin>>
    BY EnterFacts
  <1>5. faults' \in Nat /\ faults' >= faults
    BY UpgradeAssumption DEF Enter, Save, Fault, NoFault, budget, Typed, TypeOK
  <1>6. /\ mem'[t].mutating /\ journal'[t].mutating
        /\ journal'[t].status \notin RollbackPhases \cup Final \cup {"absent", "queued"}
        /\ Sound(mem[t], t)' /\ Sound(journal[t], t)'
    BY <1>3, <1>4 DEF Unfinished, RollbackPhases, Final, Sound
  <1>8. RecordIsTrue(t)'
    BY <1>6 DEF RecordIsTrue, Unfinished, Final, RollbackPhases
  <1>9. MemoryIsJournal(t)' /\ FailureIsKnown(t)' /\ UndoIsSound(t)' /\ WorkIsDone(t)'
    BY <1>3, <1>4, <1>6
    DEF MemoryIsJournal, FailureIsKnown, UndoIsSound, WorkIsDone, Unfinished,
        Resuming, Early, Changing, Replaced, Undoing, BinaryRestored
  <1> QED
    BY <1>1, <1>2, <1>4, <1>5, <1>8, <1>9, StartKept DEF TaskIsTrue

\* A success is recorded of what was confirmed.
LEMMA SuccessSave ==
    ASSUME Typed, Exclusive, StartIsJournaled, NEW t \in Task, TaskIsTrue(t), SaveSucceeded(t)
    PROVE  TaskIsTrue(t)' /\ StartIsJournaled'
  <1>1. worker[t] = "saveSucceeded" /\ current = t /\ holder = t /\ t # Agent
    BY UpgradeAssumption DEF SaveSucceeded, Enter, Exclusive, WorkerIsCurrent, Unlocked
  <1>2. ~Active
    BY <1>1, ForwardIsQuiet DEF Changing
  <1>3. /\ mem[t] = journal[t] /\ Unfinished(t) /\ Sound(journal[t], t)
        /\ journal[t].mutating /\ journal[t].status \notin RollbackPhases \cup {"queued"}
        /\ binary = Target[t] /\ migrated = Change
    BY <1>1 DEF TaskIsTrue, MemoryIsJournal, RecordIsTrue, WorkIsDone, Unfinished, Changing,
                RollbackPhases, Final, Replaced
  <1>4. /\ mem'[t].status = "succeeded" /\ mem'[t].mutating = mem[t].mutating
        /\ mem'[t].backup = mem[t].backup /\ mem'[t].snapshots = mem[t].snapshots
        /\ \/ journal'[t] = mem'[t] /\ worker'[t] = "finish" /\ faults' = faults
           \/ /\ journal'[t] \in {journal[t], mem'[t]} /\ worker'[t] = "fail"
              /\ faults' = faults + 1
        /\ UNCHANGED <<current, binary, migrated, holder, boot, bootstrap, origin>>
    BY EnterFacts DEF SaveSucceeded
  <1>5. faults' \in Nat /\ faults' >= faults /\ faults \in Nat
    BY <1>4, UpgradeAssumption DEF Typed, TypeOK
  <1>6. /\ mem'[t].mutating /\ journal'[t].mutating
        /\ journal'[t].status = "succeeded" \/ journal'[t] = journal[t]
        /\ Sound(mem[t], t)' /\ Sound(journal[t], t)'
        /\ (binary = Target[t] /\ Whole)'
    BY <1>3, <1>4 DEF Sound, Whole, Change
  <1>8. RecordIsTrue(t)'
    BY <1>3, <1>6 DEF RecordIsTrue, Unfinished, Final, RollbackPhases
  <1>9. MemoryIsJournal(t)' /\ FailureIsKnown(t)' /\ UndoIsSound(t)' /\ WorkIsDone(t)'
    BY <1>3, <1>4, <1>5, <1>6
    DEF MemoryIsJournal, FailureIsKnown, UndoIsSound, WorkIsDone, Unfinished,
        Resuming, Early, Changing, Replaced, Undoing, BinaryRestored
  <1> QED
    BY <1>1, <1>2, <1>4, <1>5, <1>8, <1>9, StartKept DEF TaskIsTrue

\* The flag is written before the first change.
LEMMA FlagSave ==
    ASSUME Typed, Exclusive, StartIsJournaled, NEW t \in Task, TaskIsTrue(t), SaveMigrating(t)
    PROVE  TaskIsTrue(t)' /\ StartIsJournaled'
  <1>1. worker[t] = "saveMigrating" /\ current = t /\ holder = t /\ t # Agent
    BY UpgradeAssumption DEF SaveMigrating, Exclusive, WorkerIsCurrent, Unlocked
  <1>2. ~Active
    BY <1>1, ForwardIsQuiet
  <1>3. /\ Unfinished(t) /\ Untouched(t) /\ ~journal[t].mutating
        /\ journal[t].status \notin RollbackPhases \cup {"queued"}
        /\ mem[t].backup = origin[t].binary /\ mem[t].snapshots = origin[t].migrated
    BY <1>1 DEF TaskIsTrue, MemoryIsJournal, RecordIsTrue, Unfinished, RollbackPhases, Final
  <1> DEFINE record == [mem[t] EXCEPT !.status = "migrating", !.mutating = TRUE]
             unflagged == [record EXCEPT !.mutating = FALSE]
  <1>4. /\ record.status = "migrating" /\ record.mutating
        /\ record.backup = origin[t].binary /\ record.snapshots = origin[t].migrated
        /\ ~unflagged.mutating
    BY <1>3 DEF Typed, TypeOK, Job
  <1>5. \/ /\ mem' = [mem EXCEPT ![t] = record] /\ journal' = [journal EXCEPT ![t] = record]
           /\ worker' = [worker EXCEPT ![t] = "migrate"] /\ NoFault
        \/ /\ mem' = [mem EXCEPT ![t] = unflagged]
           /\ journal' \in {journal, [journal EXCEPT ![t] = record]}
           /\ worker' = [worker EXCEPT ![t] = "fail"] /\ Fault
    BY <1>1 DEF SaveMigrating, Goto
  <1>6. UNCHANGED <<current, binary, migrated, holder, boot, bootstrap, origin>>
    BY DEF SaveMigrating, Goto, locks, rest, agent
  <1> HIDE DEF record, unflagged
  <1>7. \/ mem'[t] = record /\ journal'[t] = record /\ worker'[t] = "migrate"
        \/ mem'[t] = unflagged /\ journal'[t] \in {journal[t], record} /\ worker'[t] = "fail"
    BY <1>5 DEF Typed, TypeOK
  <1>8. faults' \in Nat /\ faults' >= faults
    BY <1>5, UpgradeAssumption DEF Fault, NoFault, budget, Typed, TypeOK
  <1>9. /\ journal'[t].status \notin RollbackPhases \cup Final \cup {"absent", "queued"}
        /\ IF journal'[t].mutating THEN Sound(journal[t], t)' ELSE Untouched(t)'
        /\ Untouched(t)'
    BY <1>3, <1>4, <1>6, <1>7 DEF Unfinished, RollbackPhases, Final, Sound, Untouched
  <1>10. RecordIsTrue(t)'
    BY <1>9 DEF RecordIsTrue, Unfinished, Final, RollbackPhases
  <1>11. MemoryIsJournal(t)' /\ FailureIsKnown(t)' /\ UndoIsSound(t)' /\ WorkIsDone(t)'
    BY <1>4, <1>7, <1>9
    DEF MemoryIsJournal, FailureIsKnown, UndoIsSound, WorkIsDone, Unfinished,
        Resuming, Early, Changing, Replaced, Undoing, BinaryRestored
  <1> QED
    BY <1>1, <1>2, <1>6, <1>8, <1>10, <1>11, StartKept DEF TaskIsTrue

\* The steps that save nothing leave the journal and the starting Agent alone.
Move(t) ==
    \/ Download(t) \/ Verify(t) \/ Backup(t) \/ ApplyChange(t) \/ ChangesApplied(t)
    \/ Replace(t) \/ Restart(t) \/ Confirm(t)
    \/ RestoreBinary(t) \/ RestoreFile(t) \/ FilesRestored(t)
    \/ RestartPrevious(t) \/ ConfirmPrevious(t)
Quiet == UNCHANGED <<current, journal, boot, bootstrap, origin, faults, holder, prep>>

LEMMA MoveIsQuiet ==
    ASSUME Typed, Exclusive, NEW t \in Task, Move(t)
    PROVE  /\ Quiet /\ current = t /\ holder = t /\ t # Agent
           /\ worker[t] \in Early \cup Changing \cup Undoing
  <1>1. Quiet
    BY DEF Move, Quiet, Download, Verify, Attempt, Backup, ApplyChange, ChangesApplied,
           Replace, Restart, RestartAgent, Confirm, WaitReady, RestoreBinary, RestoreFile,
           FilesRestored, RestartPrevious, ConfirmPrevious, Goto, disk, rest, agent, budget,
           locks
  <1>2. worker[t] \in Early \cup Changing \cup Undoing
    BY DEF Move, Download, Verify, Attempt, Backup, ApplyChange, ChangesApplied,
           Replace, Restart, Confirm, RestoreBinary, RestoreFile,
           FilesRestored, RestartPrevious, ConfirmPrevious, Early, Changing, Undoing
  <1>3. current = t /\ holder = t
    BY <1>2 DEF Exclusive, WorkerIsCurrent, Unlocked, Early, Changing, Undoing
  <1> QED
    BY <1>1, <1>2, <1>3, UpgradeAssumption

LEMMA QuietStart ==
    ASSUME Typed, StartIsJournaled, NEW t \in Task, current = t, holder = t, t # Agent, Quiet,
           migrated' = migrated \/ Unfinished(t)
    PROVE  StartIsJournaled'
  <1>1. faults' \in Nat /\ faults' >= faults
    BY UpgradeAssumption DEF Quiet, Typed, TypeOK
  <1> QED
    BY <1>1, StartKept DEF Quiet

\* Until the backup is taken nothing has changed.
LEMMA EarlyMove ==
    ASSUME Typed, NEW t \in Task, TaskIsTrue(t), current = t, Quiet,
           Download(t) \/ Verify(t) \/ Backup(t)
    PROVE  TaskIsTrue(t)' /\ migrated' = migrated
  <1>1. worker[t] \in Early /\ binary' = binary /\ migrated' = migrated
    BY DEF Download, Verify, Attempt, Backup, Early, disk
  <1>2. /\ Unfinished(t) /\ Untouched(t) /\ ~journal[t].mutating /\ mem[t] = journal[t]
        /\ journal[t].status \in {"downloading", "verifying", "backing_up"}
    BY <1>1 DEF TaskIsTrue, MemoryIsJournal, RecordIsTrue, Unfinished, Final
  <1>3. /\ worker'[t] \in {"saveVerifying", "saveBackingUp", "saveMigrating", "fail"}
        /\ worker'[t] # "saveMigrating" => mem' = mem
        /\ worker'[t] = "saveMigrating" =>
             /\ mem'[t].backup = binary /\ mem'[t].snapshots = migrated
             /\ mem'[t].mutating = mem[t].mutating
    BY DEF Download, Verify, Attempt, Backup, Goto, Typed, TypeOK, Job
  <1>4. RecordIsTrue(t)'
    BY <1>1, <1>2 DEF TaskIsTrue, RecordIsTrue, Quiet, Unfinished, Untouched, Whole, Final,
                      RollbackPhases
  <1>5. MemoryIsJournal(t)' /\ FailureIsKnown(t)' /\ UndoIsSound(t)' /\ WorkIsDone(t)'
    BY <1>1, <1>2, <1>3
    DEF MemoryIsJournal, FailureIsKnown, UndoIsSound, WorkIsDone, Unfinished, Untouched,
        Quiet, Resuming, Early, Changing, Replaced, Undoing, BinaryRestored, RollbackPhases
  <1> QED
    BY <1>1, <1>4, <1>5 DEF TaskIsTrue

\* The changes are made while the journal says so.
LEMMA ChangeMove ==
    ASSUME Typed, Exclusive, NEW t \in Task, TaskIsTrue(t), current = t, holder = t, Quiet,
           \/ ApplyChange(t) \/ ChangesApplied(t) \/ Replace(t) \/ Restart(t) \/ Confirm(t)
    PROVE  TaskIsTrue(t)' /\ Unfinished(t)
  <1>1. worker[t] \in Changing /\ mem' = mem
    BY DEF ApplyChange, ChangesApplied, Replace, Restart, RestartAgent, Confirm, WaitReady,
           Changing
  <1>2. /\ Unfinished(t) /\ Sound(journal[t], t) /\ journal[t].mutating /\ mem[t] = journal[t]
        /\ journal[t].status \in {"migrating", "replacing", "restarting", "checking"}
        /\ worker[t] \in Replaced => binary = Target[t]
    BY <1>1 DEF TaskIsTrue, MemoryIsJournal, RecordIsTrue, WorkIsDone, Unfinished, Final
  <1>3. /\ \/ worker'[t] = "fail"
           \/ worker'[t] \in Changing \ Replaced
           \/ worker'[t] \in Replaced /\ binary' = Target[t]
        /\ worker'[t] = "saveSucceeded" => Ready(Target[t]) /\ migrated' = migrated
    BY <1>2 DEF ApplyChange, ChangesApplied, Replace, Restart, RestartAgent, Confirm,
                WaitReady, Goto, Changing, Replaced, disk, Typed, TypeOK
  <1>4. worker'[t] = "saveSucceeded" => migrated' = Change /\ Target[t] \notin Broken
    BY <1>3 DEF Ready, Serving
  <1>5. RecordIsTrue(t)'
    BY <1>2 DEF RecordIsTrue, Quiet, Unfinished, Sound, Final, RollbackPhases
  <1>6. MemoryIsJournal(t)' /\ FailureIsKnown(t)' /\ UndoIsSound(t)' /\ WorkIsDone(t)'
    BY <1>1, <1>2, <1>3, <1>4
    DEF MemoryIsJournal, FailureIsKnown, UndoIsSound, WorkIsDone, Unfinished, Sound,
        Quiet, Resuming, Early, Changing, Replaced, Undoing, BinaryRestored, RollbackPhases
  <1> QED
    BY <1>2, <1>5, <1>6 DEF TaskIsTrue

\* A rollback restores what its record holds.
LEMMA UndoMove ==
    ASSUME Typed, Exclusive, NEW t \in Task, TaskIsTrue(t), current = t, holder = t, Quiet,
           \/ RestoreBinary(t) \/ RestoreFile(t) \/ FilesRestored(t)
           \/ RestartPrevious(t) \/ ConfirmPrevious(t)
    PROVE  TaskIsTrue(t)' /\ Unfinished(t)
  <1>1. worker[t] \in Undoing /\ mem' = mem
    BY DEF RestoreBinary, RestoreFile, FilesRestored, RestartPrevious, RestartAgent,
           ConfirmPrevious, WaitReady, Undoing
  <1>2. /\ Unfinished(t) /\ Sound(mem[t], t) /\ mem[t].mutating /\ journal[t].mutating
        /\ Sound(journal[t], t) /\ journal[t].status # "queued"
        /\ worker[t] \in BinaryRestored => binary = origin[t].binary
    BY <1>1 DEF TaskIsTrue, RecordIsTrue, MemoryIsJournal, UndoIsSound, WorkIsDone
  <1>3. /\ worker'[t] \in Undoing
        /\ worker'[t] \in BinaryRestored => binary' = origin[t].binary
        /\ worker'[t] = "saveRolledBack" => Ready(mem[t].previous) /\ migrated' = migrated
    BY <1>2 DEF RestoreBinary, RestoreFile, FilesRestored, RestartPrevious, RestartAgent,
                ConfirmPrevious, WaitReady, Goto, Sound, Undoing, BinaryRestored, disk,
                Typed, TypeOK
  <1>4. worker'[t] = "saveRolledBack" => migrated' = Change /\ ~Active'
    BY <1>3, UpgradeAssumption DEF Ready, Serving, Active, Quiet
  <1>5. RecordIsTrue(t)'
    BY <1>2 DEF RecordIsTrue, Quiet, Unfinished, Sound, Final, RollbackPhases
  <1>6. MemoryIsJournal(t)' /\ FailureIsKnown(t)' /\ UndoIsSound(t)' /\ WorkIsDone(t)'
    BY <1>1, <1>2, <1>3, <1>4
    DEF MemoryIsJournal, FailureIsKnown, UndoIsSound, WorkIsDone, Unfinished, Sound,
        Quiet, Resuming, Early, Changing, Replaced, Undoing, BinaryRestored, RollbackPhases
  <1> QED
    BY <1>2, <1>5, <1>6 DEF TaskIsTrue

-----------------------------------------------------------------------------
(* The worker fails, undoes and ends.                                      *)

\* A failure before the first change is final.
LEMMA FailSave ==
    ASSUME Typed, Exclusive, StartIsJournaled, NEW t \in Task, TaskIsTrue(t),
           worker[t] = "fail", ~mem[t].mutating, Fail(t)
    PROVE  TaskIsTrue(t)' /\ StartIsJournaled'
  <1>1. current = t /\ holder = t /\ t # Agent /\ ~Active
    BY ForwardIsQuiet, UpgradeAssumption DEF Exclusive, WorkerIsCurrent, Unlocked
  <1>2. /\ Unfinished(t) /\ Untouched(t) /\ journal[t].status \notin RollbackPhases
        /\ IF journal[t].mutating THEN Sound(journal[t], t) ELSE TRUE
        /\ journal[t].status = "queued" => ~journal[t].mutating
    BY <1>1 DEF TaskIsTrue, FailureIsKnown, RecordIsTrue
  <1>3. /\ mem'[t].status = "failed" /\ mem'[t].mutating = mem[t].mutating
        /\ worker'[t] = "finish" /\ journal'[t] \in {journal[t], mem'[t]}
        /\ UNCHANGED <<current, binary, migrated, holder, boot, bootstrap, origin>>
    BY EnterFacts DEF Fail
  <1>4. faults' \in Nat /\ faults' >= faults
    BY UpgradeAssumption DEF Fail, Enter, Save, Fault, NoFault, budget, Typed, TypeOK
  <1>5. RecordIsTrue(t)'
    BY <1>2, <1>3 DEF RecordIsTrue, Unfinished, Untouched, Sound, RollbackPhases, Final
  <1> QED
    BY <1>1, <1>3, <1>4, <1>5, RestingTask, StartKept

\* The rollback is recorded before it begins.  Only the one write that
\* reported an error can have left "succeeded", so this one does not.
LEMMA RollbackSave ==
    ASSUME MaxFaults <= 1 \/ faults' = 0,
           Typed, Exclusive, StartIsJournaled, NEW t \in Task, TaskIsTrue(t),
           worker[t] = "fail", mem[t].mutating, Fail(t)
    PROVE  TaskIsTrue(t)' /\ StartIsJournaled'
  <1>1. current = t /\ holder = t /\ t # Agent
    BY UpgradeAssumption DEF Exclusive, WorkerIsCurrent, Unlocked
  <1>2. /\ Unfinished(t) \/ (journal[t].status = "succeeded" /\ faults > 0)
        /\ Sound(mem[t], t) /\ journal[t].mutating
        /\ Unfinished(t) => Sound(journal[t], t)
        /\ journal[t].status # "queued"
    BY <1>1 DEF TaskIsTrue, FailureIsKnown, UndoIsSound, RecordIsTrue, Undoing
  <1>3. /\ mem'[t].status = "rolling_back" /\ mem'[t].mutating = mem[t].mutating
        /\ mem'[t].backup = mem[t].backup /\ mem'[t].snapshots = mem[t].snapshots
        /\ worker'[t] = "restoreBinary"
        /\ \/ journal'[t] = mem'[t] /\ faults' = faults
           \/ /\ journal'[t] \in {journal[t], mem'[t]}
              /\ faults < MaxFaults /\ faults' = faults + 1
        /\ UNCHANGED <<current, binary, migrated, holder, boot, bootstrap, origin>>
    <2>1. Enter(t, "fail", "rolling_back", "restoreBinary", "restoreBinary")
      BY DEF Fail
    <2>2. /\ mem'[t].status = "rolling_back" /\ mem'[t].mutating = mem[t].mutating
          /\ mem'[t].backup = mem[t].backup /\ mem'[t].snapshots = mem[t].snapshots
          /\ \/ /\ journal'[t] = mem'[t] /\ worker'[t] = "restoreBinary"
                /\ faults' = faults
             \/ /\ journal'[t] \in {journal[t], mem'[t]} /\ worker'[t] = "restoreBinary"
                /\ faults < MaxFaults /\ faults' = faults + 1
          /\ UNCHANGED <<current, copies, units, binary, migrated, next, holder, op,
                         process, boot, bootstrap, prep, origin>>
      BY <2>1, EnterFacts
    <2> QED
      BY <2>2
  <1>4. faults \in Nat /\ faults' \in Nat /\ faults' >= faults
    BY <1>3, UpgradeAssumption DEF Typed, TypeOK
  <1>5. journal'[t] = mem'[t] \/ (journal'[t] = journal[t] /\ Unfinished(t))
    BY <1>2, <1>3, <1>4, UpgradeAssumption
  <1>6. /\ Unfinished(t)' /\ Sound(journal[t], t)' /\ journal'[t].mutating
        /\ Sound(mem[t], t)' /\ mem'[t].mutating /\ journal'[t].status # "queued"
    BY <1>2, <1>3, <1>5 DEF Sound, Unfinished, Final
  <1>7. RecordIsTrue(t)'
    BY <1>6 DEF RecordIsTrue, Unfinished, Final
  <1>8. MemoryIsJournal(t)' /\ FailureIsKnown(t)' /\ UndoIsSound(t)' /\ WorkIsDone(t)'
    BY <1>3, <1>6
    DEF MemoryIsJournal, FailureIsKnown, UndoIsSound, WorkIsDone,
        Resuming, Early, Changing, Replaced, Undoing, BinaryRestored
  <1>9. \/ ~Active
        \/ journal'[t].status \in RollbackPhases /\ faults' > 0
        \/ journal'[t].status = journal[t].status /\ migrated' = migrated
    <2>1. Active => faults > 0
      BY <1>1, <1>2, UpgradeAssumption DEF StartIsJournaled, Unfinished
    <2> QED
      BY <1>3, <1>4, <1>5, <2>1 DEF RollbackPhases
  <1> QED
    BY <1>1, <1>3, <1>4, <1>7, <1>8, <1>9, StartKept DEF TaskIsTrue

\* The end of a rollback.
LEMMA UndoneSave ==
    ASSUME Typed, Exclusive, StartIsJournaled, NEW t \in Task, TaskIsTrue(t),
           SaveRolledBack(t) \/ SaveRollbackFailed(t)
    PROVE  TaskIsTrue(t)' /\ StartIsJournaled'
  <1>1. worker[t] \in {"saveRolledBack", "saveRollbackFailed"}
    BY DEF SaveRolledBack, SaveRollbackFailed, Enter
  <1>2. current = t /\ holder = t /\ t # Agent
    BY <1>1, UpgradeAssumption DEF Exclusive, WorkerIsCurrent, Unlocked
  <1>3. /\ Unfinished(t) /\ Sound(mem[t], t) /\ mem[t].mutating /\ journal[t].mutating
        /\ Sound(journal[t], t) /\ journal[t].status # "queued"
        /\ worker[t] = "saveRolledBack" =>
             binary = origin[t].binary /\ migrated = Change /\ ~Active
    BY <1>1, <1>2 DEF TaskIsTrue, RecordIsTrue, MemoryIsJournal, UndoIsSound, WorkIsDone,
                      Undoing, BinaryRestored
  <1>4. /\ \/ mem'[t].status = "rolled_back" /\ worker[t] = "saveRolledBack"
           \/ mem'[t].status = "rollback_failed" /\ worker[t] = "saveRollbackFailed"
        /\ mem'[t].mutating = mem[t].mutating
        /\ mem'[t].backup = mem[t].backup /\ mem'[t].snapshots = mem[t].snapshots
        /\ worker'[t] = "finish" /\ journal'[t] \in {journal[t], mem'[t]}
        /\ UNCHANGED <<current, binary, migrated, holder, boot, bootstrap, origin>>
    BY EnterFacts DEF SaveRolledBack, Enter, SaveRollbackFailed
  <1>5. faults \in Nat /\ faults' \in Nat /\ faults' >= faults
    BY UpgradeAssumption DEF SaveRolledBack, SaveRollbackFailed, Enter, Save, Fault, NoFault,
                             budget, Typed, TypeOK
  <1>6. RecordIsTrue(t)'
    BY <1>3, <1>4 DEF RecordIsTrue, Unfinished, Untouched, Sound, Whole, Change,
                      RollbackPhases, Final
  <1>7. \/ ~Active
        \/ journal'[t].status \in RollbackPhases /\ faults' > 0
        \/ journal'[t].status = journal[t].status /\ migrated' = migrated
    <2>1. Active => faults > 0
      BY <1>2, <1>3, UpgradeAssumption DEF StartIsJournaled, Unfinished
    <2> QED
      BY <1>3, <1>4, <1>5, <2>1 DEF RollbackPhases
  <1> QED
    BY <1>2, <1>4, <1>5, <1>6, <1>7, RestingTask, StartKept

\* The worker lets go of the lock, or has only just taken it.
LEMMA EndMove ==
    ASSUME Typed, Exclusive, StartIsJournaled, NEW t \in Task, TaskIsTrue(t),
           \/ Finish(t) \/ LockCore(t)
           \/ Resume(t) /\ mem[t].status # "queued"
    PROVE  TaskIsTrue(t)' /\ StartIsJournaled'
  <1>1. current = t /\ holder = t /\ t # Agent
    BY UpgradeAssumption DEF Finish, LockCore, Resume, Exclusive, WorkerIsCurrent, Unlocked
  <1>2. /\ UNCHANGED <<current, journal, binary, migrated, boot, bootstrap, origin, faults>>
        /\ holder' # Agent
    BY <1>1, UpgradeAssumption
    DEF Finish, LockCore, Resume, Exit, Goto, disk, rest, agent, budget, locks
  <1>3. RecordIsTrue(t)'
    BY <1>2 DEF TaskIsTrue, RecordIsTrue, Unfinished, Untouched, Sound, Whole
  <1>4. StartIsJournaled'
    BY <1>2, UpgradeAssumption, <1>1, StartKept DEF Typed, TypeOK
  <1>5. CASE worker'[t] = "dead"
    BY <1>3, <1>4, <1>5, RestingTask
  <1>6. CASE worker'[t] = "resume" /\ worker[t] = "lockCore" /\ mem' = mem
    BY <1>2, <1>3, <1>4, <1>6
    DEF TaskIsTrue, MemoryIsJournal, FailureIsKnown, UndoIsSound, WorkIsDone, Unfinished,
        Resuming, Early, Changing, Replaced, Undoing, BinaryRestored
  <1>7. CASE worker'[t] = "fail" /\ worker[t] = "resume" /\ mem' = mem
    <2>1. mem[t] = journal[t] /\ Unfinished(t)
      BY <1>7 DEF TaskIsTrue, MemoryIsJournal, Resuming
    <2>2. /\ mem[t].mutating => Sound(mem[t], t)
          /\ ~mem[t].mutating => Untouched(t) /\ journal[t].status \notin RollbackPhases
      BY <1>1, <2>1 DEF TaskIsTrue, RecordIsTrue
    <2> QED
      BY <1>2, <1>3, <1>4, <1>7, <2>1, <2>2
      DEF TaskIsTrue, MemoryIsJournal, FailureIsKnown, UndoIsSound, WorkIsDone, Unfinished,
          Sound, Untouched, Resuming, Early, Changing, Replaced, Undoing, BinaryRestored
  <1> QED
    BY <1>5, <1>6, <1>7 DEF Finish, LockCore, Resume, Exit, Goto, Typed, TypeOK

-----------------------------------------------------------------------------
(* Every step of a worker.                                                 *)

\* Only its holder's steps change what the invariant says of a task.
LEMMA TaskKept ==
    ASSUME NEW t \in Task, TaskIsTrue(t), worker'[t] = worker[t], mem'[t] = mem[t],
           UNCHANGED <<current, binary, migrated, bootstrap, origin, faults>>,
           journal'[t] = journal[t], Active' => Active
    PROVE  TaskIsTrue(t)'
  BY DEF TaskIsTrue, RecordIsTrue, MemoryIsJournal, FailureIsKnown, UndoIsSound, WorkIsDone,
         Unfinished, Untouched, Sound, Whole

LEMMA StartSame ==
    ASSUME StartIsJournaled, holder' = holder \/ holder' # Agent,
           UNCHANGED <<current, boot, bootstrap, migrated, faults>>,
           current # NoTask => journal'[current] = journal[current]
    PROVE  StartIsJournaled'
  BY DEF StartIsJournaled, Active, Pending

\* A worker that does not hold the lock has read a record that is still true.
LEMMA WaitingIsTrue ==
    ASSUME Typed, Exclusive, Exclusive', Truthful, NEW t \in Task,
           Spawn(t) \/ Load(t) \/ LockUpdate(t)
    PROVE  Truthful'
  <1>1. /\ UNCHANGED <<current, journal, binary, migrated, boot, bootstrap, origin, faults,
                       prep>>
        /\ holder' = holder \/ holder' # Agent
    BY UpgradeAssumption
    DEF Spawn, Load, LockUpdate, Exit, Goto, disk, rest, agent, budget, locks
  <1>2. StartIsJournaled'
    BY <1>1, StartSame DEF Truthful
  <1>3. PreparationIsUntouched'
    BY <1>1 DEF Truthful, PreparationIsUntouched, Untouched
  <1>4. Active' = Active
    BY <1>1 DEF Active
  <1>5. ASSUME NEW u \in Task, u # t
        PROVE  TaskIsTrue(u)'
    BY <1>5, <1>1, <1>4, TaskKept DEF Spawn, Load, LockUpdate, Exit, Goto, Typed, TypeOK, Truthful
  <1>6. TaskIsTrue(t)'
    <2>1. RecordIsTrue(t)'
      BY <1>1 DEF Truthful, TaskIsTrue, RecordIsTrue, Unfinished, Untouched, Sound, Whole
    <2>2. CASE worker'[t] \in {"dead", "load"}
      BY <2>1, <2>2, RestingTask
    <2>3. CASE worker'[t] \in {"lockUpdate", "lockCore"}
      <3>1. /\ mem'[t] = journal[t] /\ Unfinished(t)
        BY <2>3 DEF Truthful, TaskIsTrue, MemoryIsJournal, Spawn, Load, LockUpdate, Exit, Goto,
                    Done, Unfinished, Exclusive, UnfinishedIsCurrent, Resuming, Typed, TypeOK
      <3> QED
        BY <1>1, <2>1, <2>3, <3>1
        DEF TaskIsTrue, MemoryIsJournal, FailureIsKnown, UndoIsSound, WorkIsDone, Unfinished,
            Resuming, Early, Changing, Replaced, Undoing, BinaryRestored
    <2> QED
      BY <2>2, <2>3 DEF Spawn, Load, LockUpdate, Exit, Goto, Typed, TypeOK
  <1> QED
    BY <1>1, <1>2, <1>3, <1>5, <1>6 DEF Truthful, CurrentIsPrepared

LEMMA HolderIsTrue ==
    ASSUME MaxFaults <= 1 \/ faults' = 0, Typed, Exclusive, StartIsJournaled, NEW t \in Task, TaskIsTrue(t),
           WorkerStep(t), worker[t] \notin Unlocked
    PROVE  TaskIsTrue(t)' /\ StartIsJournaled'
  <1>1. CASE Move(t)
    BY <1>1, MoveIsQuiet, EarlyMove, ChangeMove, UndoMove, QuietStart DEF Move
  <1>2. CASE SaveVerifying(t) \/ SaveBackingUp(t)
    BY <1>2, EarlySave DEF SaveVerifying, SaveBackingUp, Early
  <1>3. CASE SaveReplacing(t) \/ SaveRestarting(t) \/ SaveChecking(t)
    BY ChangeSave, <1>3 DEF SaveReplacing, Changing, Replaced, SaveRestarting, SaveChecking
  <1>4. CASE SaveSucceeded(t) \/ SaveMigrating(t) \/ SaveRolledBack(t) \/ SaveRollbackFailed(t)
    BY <1>4, SuccessSave, FlagSave, UndoneSave
  <1>5. CASE Fail(t)
    <2>1. worker[t] = "fail"
      BY <1>5 DEF Fail, Enter
    <2> QED
      BY <1>5, <2>1, FailSave, RollbackSave
  <1>6. CASE Finish(t) \/ LockCore(t)
    BY <1>6, EndMove
  <1>7. CASE Resume(t)
    BY <1>7, EarlySave, EndMove DEF Resume, Enter, Early
  <1>8. CASE Spawn(t) \/ Load(t) \/ LockUpdate(t)
    BY <1>8 DEF Spawn, Load, LockUpdate, Unlocked
  <1> QED
    BY <1>1, <1>2, <1>3, <1>4, <1>5, <1>6, <1>7, <1>8 DEF WorkerStep, Move

LEMMA WorkerIsTrue ==
    ASSUME MaxFaults <= 1 \/ faults' = 0, Typed, Exclusive, Exclusive', Truthful, NEW t \in Task, WorkerStep(t)
    PROVE  Truthful'
  <1>1. CASE worker[t] \notin Unlocked
    BY <1>1, HolderIsTrue, HolderStep, UpgradeAssumption, OnlyCurrent DEF Truthful, Exclusive, WorkerIsCurrent,
       Unlocked, HolderFrame, PreparationIsAlone, CurrentIsPrepared, PreparationIsUntouched
  <1>2. CASE worker[t] \in Unlocked
    <2>1. Spawn(t) \/ Load(t) \/ LockUpdate(t)
      BY <1>2
      DEF WorkerStep, LockCore, Resume, Download, SaveVerifying, Verify, SaveBackingUp,
          Backup, SaveMigrating, ApplyChange, ChangesApplied, SaveReplacing, Replace,
          SaveRestarting, Restart, SaveChecking, Confirm, SaveSucceeded, Fail,
          RestoreBinary, RestoreFile, FilesRestored, RestartPrevious, ConfirmPrevious,
          SaveRolledBack, SaveRollbackFailed, Finish, Attempt, Enter, Unlocked
    <2> QED
      BY <2>1, WaitingIsTrue
  <1> QED
    BY <1>1, <1>2

-----------------------------------------------------------------------------
(* The Agent's preparation and its other operations.                       *)

LEMMA PrepareIsTrue ==
    ASSUME Typed, Exclusive, Exclusive', Truthful, NEW t \in Task, Prepare(t)
    PROVE  Truthful'
  <1>1. /\ UNCHANGED <<current, journal, binary, migrated, boot, bootstrap, worker, mem,
                       faults>>
        /\ prep'.task = t /\ holder = Nobody /\ origin[t].binary = NoVersion
        /\ boot.pc \in {"up", "deferred"}
    BY UpgradeAssumption DEF Prepare, Serving, agent, work, budget
  <1>2. /\ origin'[t].binary = binary /\ origin'[t].migrated = migrated
        /\ binary \in Version /\ binary # NoVersion
        /\ \A u \in Task : u # t => origin'[u] = origin[u]
    BY UpgradeAssumption DEF Prepare, Typed, TypeOK
  <1>3. current # t
    BY <1>1, UpgradeAssumption DEF Truthful, CurrentIsPrepared
  <1>4. CurrentIsPrepared'
    BY <1>1, <1>2, <1>3 DEF Truthful, CurrentIsPrepared, Typed, TypeOK
  <1>5. PreparationIsUntouched'
    BY <1>1, <1>2 DEF PreparationIsUntouched, Untouched
  <1>6. ~Active /\ ~Active'
    BY <1>1 DEF Active
  <1>7. StartIsJournaled'
    BY <1>1, <1>6 DEF Truthful, StartIsJournaled, Active
  <1>8. ASSUME NEW u \in Task, current' = u
        PROVE  TaskIsTrue(u)'
    BY <1>1, <1>2, <1>3, <1>6, <1>8
    DEF Truthful, TaskIsTrue, RecordIsTrue, MemoryIsJournal, FailureIsKnown, UndoIsSound,
        WorkIsDone, Unfinished, Untouched, Sound, Whole
  <1> QED
    BY <1>4, <1>5, <1>7, <1>8, OnlyCurrent DEF Truthful

\* The task becomes current before anything has changed.
LEMMA PrepareStepIsTrue ==
    ASSUME Typed, Exclusive, Exclusive', Truthful, PrepareStep
    PROVE  Truthful'
  <1>0. PICK p \in Task : p = prep.task
    BY DEF PrepareStep, SaveCurrent, SaveJob, StartWorker, SavePrepareFailed, Typed
  <1>1. /\ UNCHANGED <<binary, migrated, boot, bootstrap, mem, origin>>
        /\ prep.pc # "idle"
        /\ prep'.pc # "idle" => prep'.task = p
    BY <1>0 DEF PrepareStep, SaveCurrent, SaveJob, StartWorker, SavePrepareFailed, PrepareEnds,
           PrepGoto, agent, work, disk, Typed, TypeOK
  <1>2. /\ p \in Task /\ ~Active /\ ~Active' /\ worker[p] = "dead" /\ Untouched(p)
        /\ origin[p].binary # NoVersion
    BY <1>0, <1>1 DEF Typed, Exclusive, PreparationIsAlone, Active, Truthful, PreparationIsUntouched
  <1>3. worker'[p] \in {"dead", "load"} /\ \A u \in Task : u # p => worker'[u] = worker[u]
    BY <1>0, <1>2 DEF PrepareStep, SaveCurrent, SaveJob, StartWorker, SavePrepareFailed, work,
                Typed, TypeOK
  <1>4. \/ UNCHANGED <<current, journal>>
        \/ /\ current' = p /\ ~journal'[p].mutating
           /\ journal'[p].status \in {"queued", "failed"}
    <2>1. /\ Queued.status = "queued" /\ ~Queued.mutating
          /\ ~[Queued EXCEPT !.status = "failed"].mutating
          /\ [Queued EXCEPT !.status = "failed"].status = "failed"
      BY DEF Queued, NoJob
    <2>2. CASE SaveCurrent
      BY <1>0, <2>1, <2>2 DEF SaveCurrent, Typed, TypeOK
    <2>3. CASE SaveJob \/ StartWorker
      BY <2>3 DEF SaveJob, StartWorker, disk
    <2>4. CASE SavePrepareFailed
      BY <1>0, <2>4, <2>1 DEF SavePrepareFailed, Exclusive, PreparationIsAlone, Typed, TypeOK
    <2> QED
      BY <2>2, <2>3, <2>4 DEF PrepareStep
  <1>5. Untouched(p)'
    BY <1>1, <1>2 DEF Untouched
  <1>6. PreparationIsUntouched' /\ CurrentIsPrepared'
    BY <1>1, <1>2, <1>4, <1>5
    DEF PreparationIsUntouched, CurrentIsPrepared, Truthful
  <1>7. StartIsJournaled'
    BY <1>1, <1>2 DEF Truthful, StartIsJournaled, Active
  <1>8. ASSUME NEW u \in Task, current' = u
        PROVE  TaskIsTrue(u)'
    <2>1. CASE u = p
      <3>1. RecordIsTrue(p)'
        BY <1>1, <1>2, <1>5, <1>4 DEF Truthful, TaskIsTrue, RecordIsTrue, Unfinished, Untouched, Sound, Whole,
           RollbackPhases, Final
      <3> QED
        BY <1>2, <1>3, <2>1, <3>1, RestingTask
    <2>2. CASE u # p
      <3>1. UNCHANGED <<current, journal>> /\ worker'[u] = worker[u]
        BY <1>3, <1>4, <1>8, <2>2
      <3>2. faults \in Nat /\ faults' \in Nat /\ faults' >= faults
        BY UpgradeAssumption
        DEF PrepareStep, SaveCurrent, SaveJob, StartWorker, SavePrepareFailed, Fault, NoFault,
            budget, Typed, TypeOK
      <3> QED
        BY <1>1, <1>2, <1>8, <3>1, <3>2
        DEF Truthful, TaskIsTrue, RecordIsTrue, MemoryIsJournal, FailureIsKnown, UndoIsSound,
            WorkIsDone, Unfinished, Untouched, Sound, Whole
    <2> QED
      BY <2>1, <2>2
  <1> QED
    BY <1>6, <1>7, <1>8, OnlyCurrent DEF Truthful

\* Requests change nothing that a task in progress depends on.
LEMMA RequestIsTrue ==
    ASSUME Typed, Exclusive, Exclusive', Truthful, Operation \/ Status \/ PruneCompleted
    PROVE  Truthful'
  <1>1. /\ UNCHANGED <<current, binary, migrated, boot, bootstrap, worker, mem, origin,
                       prep, holder, faults>>
        /\ current # NoTask => journal'[current] = journal[current]
    BY DEF Operation, CheckPending, StartOperation, EndOperation, Status, ReadStatus, Answer,
           PruneCompleted, disk, agent, work, budget, locks, Typed, TypeOK
  <1>2. StartIsJournaled'
    BY <1>1, StartSame DEF Truthful
  <1>3. PreparationIsUntouched' /\ CurrentIsPrepared'
    BY <1>1 DEF Truthful, PreparationIsUntouched, CurrentIsPrepared, Untouched
  <1>4. ASSUME NEW u \in Task, current' = u
        PROVE  TaskIsTrue(u)'
    BY <1>1, <1>4, UpgradeAssumption, TaskKept DEF Active, Truthful
  <1> QED
    BY <1>2, <1>3, <1>4, OnlyCurrent DEF Truthful

-----------------------------------------------------------------------------
(* The start of the Agent, and deaths.                                     *)

\* A starting Agent meets a task only after its end, or in a rollback.
LEMMA StartKeepsTask ==
    ASSUME Active, StartIsJournaled, NEW t \in Task, t # NoTask, TaskIsTrue(t), current = t,
           UNCHANGED <<current, journal, worker, mem, origin, faults, binary>>,
           Active' \/ ~Active',
           journal[t].status \in Final => Whole' \/ (migrated' = migrated /\ (Whole => Whole'))
    PROVE  TaskIsTrue(t)'
  <1>1. journal[t].status \in Final \cup RollbackPhases
    BY DEF StartIsJournaled
  <1>2. worker[t] \notin Early \cup Changing \cup {"saveMigrating", "saveRolledBack"}
    BY <1>1 DEF TaskIsTrue, MemoryIsJournal, WorkIsDone, Final, RollbackPhases
  <1>3. worker[t] = "fail" => mem[t].mutating
    BY <1>1 DEF TaskIsTrue, FailureIsKnown, Unfinished
  <1>4. RecordIsTrue(t)'
    BY <1>1 DEF TaskIsTrue, RecordIsTrue, Unfinished, Untouched, Sound, Final, RollbackPhases
  <1>5. MemoryIsJournal(t)' /\ FailureIsKnown(t)' /\ UndoIsSound(t)' /\ WorkIsDone(t)'
    BY <1>2, <1>3
    DEF TaskIsTrue, MemoryIsJournal, FailureIsKnown, UndoIsSound, WorkIsDone, Unfinished,
        Sound, Changing, Replaced
  <1> QED
    BY <1>4, <1>5 DEF TaskIsTrue

LEMMA StartFrame ==
    ASSUME Typed, Startup
    PROVE  /\ UNCHANGED <<current, journal, worker, mem, origin, faults, binary>>
           /\ prep' = prep \/ prep'.pc = "idle"
           /\ holder' = holder \/ holder' = Nobody \/ boot.pc = "deferred"
  BY DEF Startup, FinishDeferred, BootLoad, BootRestore, BootPlan, BootApply, BootDone,
         bootRest, still, disk, work, budget, BootGoto, BootEnds, BootFails, AgentDies,
         locks, Background

LEMMA StartupIsTrue ==
    ASSUME Typed, Exclusive, Exclusive', Truthful, Startup
    PROVE  Truthful'
  <1>1. /\ UNCHANGED <<current, journal, worker, mem, origin, faults, binary>>
        /\ prep' = prep \/ prep'.pc = "idle"
        /\ holder' = holder \/ holder' = Nobody \/ boot.pc = "deferred"
    BY StartFrame
  <1>2. CurrentIsPrepared'
    BY <1>1 DEF Truthful, CurrentIsPrepared
  <1>3. Pending' = Pending /\ NoTask \notin Task
    BY <1>1, UpgradeAssumption DEF Pending
  <1>4. ~Pending <=> (current = NoTask \/ journal[current].status \in Final)
    BY DEF Pending
  <1>5. CASE FinishDeferred
    <2>1. /\ UNCHANGED <<migrated, bootstrap, prep>> /\ ~Active
          /\ boot'.pc = "up" \/ (boot'.pc = "ensure" /\ Committed)
      BY <1>5 DEF FinishDeferred, BootGoto, bootRest, disk, Active
    <2>2. Committed => ~Pending
      BY DEF Committed, Pending, Final
    <2>3. StartIsJournaled'
      BY <1>1, <1>3, <1>4, <2>1, <2>2 DEF StartIsJournaled, Active
    <2>4. PreparationIsUntouched'
      BY <1>1, <2>1 DEF Truthful, PreparationIsUntouched, Untouched
    <2>5. ASSUME NEW u \in Task, current' = u
          PROVE  TaskIsTrue(u)'
      <3>1. CASE ~Active'
        BY <1>1, <2>1, <3>1, TaskKept DEF Truthful
      <3>2. CASE Active'
        <4>1. ~Pending
          BY <2>1, <2>2, <3>2 DEF Active
        <4>2. journal[u].status \in Final /\ current = u
          BY <1>1, <1>3, <1>4, <2>5, <4>1
        <4>3. worker[u] # "saveRolledBack"
          BY <4>2 DEF Truthful, TaskIsTrue, MemoryIsJournal, Unfinished, Undoing
        <4> QED
          BY <1>1, <2>1, <4>3
          DEF Truthful, TaskIsTrue, RecordIsTrue, MemoryIsJournal, FailureIsKnown,
              UndoIsSound, WorkIsDone, Unfinished, Untouched, Sound, Whole
      <3> QED
        BY <3>1, <3>2
    <2> QED
      BY <1>2, <2>3, <2>4, <2>5, OnlyCurrent DEF Truthful
  <1>6. CASE ~FinishDeferred
    <2>1. Active
      BY <1>6 DEF Startup, BootLoad, BootRestore, BootPlan, BootApply, BootDone, Active
    <2>2. prep.pc = "idle" /\ prep'.pc = "idle"
      BY <1>1, <2>1 DEF Exclusive, PreparationIsAlone, Active
    <2>3. /\ boot'.pc \in {"restore", "migrate", "undo"} => ~bootstrap'.complete
          /\ ~Pending => Whole' \/ (migrated' = migrated /\ (Whole => Whole'))
          /\ boot'.pc = "migrate" /\ ~Pending => 1..boot'.next \subseteq migrated'
      <3>1. CASE BootLoad
        BY <3>1 DEF BootLoad, BootGoto, bootRest, disk, Whole
      <3>2. CASE BootRestore
        BY <3>2 DEF BootRestore, Truthful, StartIsJournaled, BootGoto, BootFails, BootEnds, AgentDies, Whole
      <3>3. CASE BootPlan
        BY <3>3 DEF BootPlan, BootGoto, BootFails, BootEnds, AgentDies, disk, Whole
      <3>4. CASE BootApply
        <4>1. ~bootstrap.complete /\ bootstrap' = bootstrap
          BY <3>4 DEF BootApply, Truthful, StartIsJournaled
        <4>2. boot'.pc = "migrate" =>
                /\ boot.pc = "migrate" /\ boot'.next = boot.next + 1
                /\ migrated' = migrated \cup {boot.next + 1}
          BY <3>4 DEF BootApply, BootGoto
        <4>3. boot.next \in Nat
          BY UpgradeAssumption DEF Typed, TypeOK
        <4>4. boot'.pc = "migrate" /\ ~Pending => 1..boot'.next \subseteq migrated'
          BY <4>2, <4>3 DEF Truthful, StartIsJournaled
        <4> QED
          BY <4>1, <4>4 DEF Whole
      <3>5. CASE BootDone
        <4>1. /\ migrated' = migrated /\ boot'.pc # "migrate"
              /\ bootstrap' = bootstrap \/ ~(boot'.pc \in {"restore", "undo"})
          BY <3>5 DEF BootDone, BootGoto, BootFails, BootEnds, AgentDies, disk, still
        <4>2. ~Pending => migrated = Change
          BY <3>5 DEF BootDone, Truthful, StartIsJournaled, Typed, TypeOK, Change
        <4>3. ~bootstrap.complete
          BY <3>5 DEF BootDone, Truthful, StartIsJournaled
        <4> QED
          BY <4>1, <4>2, <4>3 DEF Whole
      <3> QED
        BY <1>6, <3>1, <3>2, <3>3, <3>4, <3>5 DEF Startup
    <2>4. StartIsJournaled'
      BY <1>1, <2>1, UpgradeAssumption, <1>3, <2>3 DEF Active, Truthful, StartIsJournaled
    <2>5. ASSUME NEW u \in Task, current' = u
          PROVE  TaskIsTrue(u)'
      BY <1>1, <1>4, <2>5, <1>3, <2>1, <2>3, StartKeepsTask DEF Truthful
    <2> QED
      BY <1>2, <2>2, <2>4, <2>5, OnlyCurrent DEF Truthful, PreparationIsUntouched
  <1> QED
    BY <1>5, <1>6

\* The program starts while a task is in progress only to serve.
LEMMA StartAgentIsTrue ==
    ASSUME Typed, Exclusive, Exclusive', Truthful, StartAgent
    PROVE  Truthful'
  <1>1. /\ UNCHANGED <<current, journal, binary, migrated, bootstrap, worker, mem, origin,
                       prep, holder, faults>>
        /\ boot'.pc \in {"up", "deferred"} \/ (boot'.pc = "ensure" /\ ~Pending)
    BY DEF StartAgent, disk, work, budget, locks
  <1>2. ~Pending => (current = NoTask \/ journal[current].status \in Final)
    BY DEF Pending
  <1>3. PreparationIsUntouched' /\ CurrentIsPrepared'
    BY <1>1 DEF Truthful, PreparationIsUntouched, CurrentIsPrepared, Untouched
  <1>4. StartIsJournaled'
    BY <1>1, <1>2 DEF StartIsJournaled, Active
  <1>5. ASSUME NEW u \in Task, current' = u
        PROVE  TaskIsTrue(u)'
    <2>1. worker[u] = "saveRolledBack" => ~Active'
      BY <1>1, <1>5, UpgradeAssumption DEF Truthful, TaskIsTrue, MemoryIsJournal, Unfinished, Undoing, Pending,
         Active
    <2> QED
      BY <1>1, <2>1
      DEF Truthful, TaskIsTrue, RecordIsTrue, MemoryIsJournal, FailureIsKnown, UndoIsSound,
          WorkIsDone, Unfinished, Untouched, Sound, Whole
  <1> QED
    BY <1>3, <1>4, <1>5, OnlyCurrent DEF Truthful

\* What dies takes only its memory and its locks along.
LEMMA LossIsTrue ==
    ASSUME Typed, Exclusive', Truthful,
           UNCHANGED <<current, journal, binary, migrated, bootstrap, origin, faults>>,
           boot' = boot \/ ~Active',
           prep' = prep \/ prep'.pc = "idle",
           holder' = holder \/ holder' = Nobody,
           \A t \in Task : worker'[t] = "dead" \/ (worker'[t] = worker[t] /\ mem'[t] = mem[t])
    PROVE  Truthful'
  <1>1. PreparationIsUntouched' /\ CurrentIsPrepared'
    BY DEF Truthful, PreparationIsUntouched, CurrentIsPrepared, Untouched
  <1>2. StartIsJournaled'
    BY StartSame, UpgradeAssumption DEF Truthful, StartIsJournaled, Active
  <1>3. Active' => Active
    BY DEF Active
  <1>4. ASSUME NEW u \in Task, current' = u
        PROVE  TaskIsTrue(u)'
    <2>1. CASE worker'[u] = worker[u] /\ mem'[u] = mem[u]
      BY <1>3, <2>1, TaskKept DEF Truthful
    <2>2. CASE worker'[u] = "dead"
      <3>1. RecordIsTrue(u)'
        BY DEF Truthful, TaskIsTrue, RecordIsTrue, Unfinished, Untouched, Sound, Whole
      <3> QED
        BY <2>2, <3>1, RestingTask
    <2> QED
      BY <2>1, <2>2
  <1> QED
    BY <1>1, <1>2, <1>4, OnlyCurrent DEF Truthful

LEMMA DeathIsTrue ==
    ASSUME Typed, Exclusive, Exclusive', Truthful, StopAgent \/ Death
    PROVE  Truthful'
  BY LossIsTrue DEF StopAgent, AgentDies, disk, work, budget, Active, Death, Crash

-----------------------------------------------------------------------------
(* The outcome.                                                            *)

LEMMA TruthfulInit == Init => Truthful
  BY UpgradeAssumption
  DEF Init, Truthful, StartIsJournaled, PreparationIsUntouched, CurrentIsPrepared, Active,
      TaskIsTrue, RecordIsTrue, MemoryIsJournal, FailureIsKnown, UndoIsSound, WorkIsDone,
      Resuming, Early, Changing, Replaced, Undoing, BinaryRestored

LEMMA TruthfulStep ==
    ASSUME UncertainStart = FALSE, MaxFaults <= 1 \/ faults' = 0,
           Typed, Exclusive, Exclusive', Truthful, [Next]_vars
    PROVE  Truthful'
  <1>1. CASE UNCHANGED vars
    BY <1>1, LossIsTrue DEF vars, disk, agent, locks, work, budget
  <1>2. CASE Next
    BY <1>2, WorkerIsTrue, PrepareIsTrue, PrepareStepIsTrue, RequestIsTrue, StartupIsTrue,
       StartAgentIsTrue, DeathIsTrue DEF Next
  <1> QED
    BY <1>1, <1>2

LEMMA AlwaysTruthful ==
    ASSUME UncertainStart = FALSE, MaxFaults <= 1
    PROVE  Spec => [](Typed /\ Exclusive /\ Truthful)
  <1>1. Typed /\ Exclusive /\ [Next]_vars => Exclusive'
    BY ExclusiveStep
  <1>2. Typed /\ Exclusive /\ Exclusive' /\ Truthful /\ [Next]_vars => Truthful'
    BY TruthfulStep
  <1> QED
    BY AlwaysTyped, ExclusiveInit, TruthfulInit, <1>1, <1>2, PTL DEF Spec

\* Whatever dies or fails, an outcome on disk is true: success means the
\* target under the complete migration, failure and rollback mean what the
\* preparation found.
THEOREM OutcomeHolds ==
    ASSUME UncertainStart = FALSE, MaxFaults <= 1
    PROVE  Spec => []OutcomeIsTrue
  <1>1. Truthful => OutcomeIsTrue
    BY DEF Truthful, TaskIsTrue, RecordIsTrue, OutcomeIsTrue, AtRest, Updated, UndoneBy, Whole
  <1> QED
    BY AlwaysTruthful, <1>1, PTL

\* Only one step records a success.
LEMMA SuccessIsSaved ==
    ASSUME Typed, Next, NEW t \in Task,
           journal'[t].status = "succeeded", journal[t].status # "succeeded"
    PROVE  SaveSucceeded(t)
  <1>1. \E u \in Task : WorkerStep(u) /\ worker[u] \notin Unlocked
    <2>1. \/ UNCHANGED journal
          \/ SaveCurrent \/ SavePrepareFailed \/ PruneCompleted
          \/ \E u \in Task : WorkerStep(u) /\ worker[u] \notin Unlocked
      <3>1. ASSUME NEW u \in Task, WorkerStep(u), worker[u] \in Unlocked
            PROVE  UNCHANGED journal
        BY <3>1
        DEF WorkerStep, Spawn, Load, LockUpdate, LockCore, Resume, Download, SaveVerifying,
            Verify, SaveBackingUp, Backup, SaveMigrating, ApplyChange, ChangesApplied,
            SaveReplacing, Replace, SaveRestarting, Restart, SaveChecking, Confirm,
            SaveSucceeded, Fail, RestoreBinary, RestoreFile, FilesRestored,
            RestartPrevious, ConfirmPrevious, SaveRolledBack, SaveRollbackFailed, Finish,
            Attempt, Enter, Unlocked, disk
      <3>2. CASE Startup \/ StartAgent \/ StopAgent \/ Death
        BY <3>2, StartFrame DEF StartAgent, StopAgent, Death, Crash, disk
      <3>3. CASE (\E u \in Task : Prepare(u)) \/ SaveJob \/ StartWorker \/ Operation \/ Status
        BY <3>3 DEF Prepare, SaveJob, StartWorker, Operation, CheckPending, StartOperation,
                    EndOperation, Status, ReadStatus, Answer, disk
      <3> QED
        BY <3>1, <3>2, <3>3 DEF Next, PrepareStep
    <2>2. ~SaveCurrent /\ ~SavePrepareFailed
      <3>1. /\ Queued.status = "queued" /\ [Queued EXCEPT !.status = "failed"].status = "failed"
        BY DEF Queued, NoJob
      <3>2. SaveCurrent => journal' = journal \/ journal' = [journal EXCEPT ![prep.task] = Queued]
        BY DEF SaveCurrent
      <3>3. SavePrepareFailed =>
              \/ journal' = journal
              \/ journal' = [journal EXCEPT ![prep.task] = [Queued EXCEPT !.status = "failed"]]
        BY DEF SavePrepareFailed
      <3> QED
        BY <3>1, <3>2, <3>3 DEF Typed, TypeOK
    <2>3. ~PruneCompleted
      BY DEF PruneCompleted, NoJob, Typed, TypeOK
    <2> QED
      BY <2>1, <2>2, <2>3
  <1>2. PICK u \in Task : WorkerStep(u) /\ worker[u] \notin Unlocked
    BY <1>1
  <1>3. u = t
    BY <1>2, HolderStep DEF HolderFrame, Typed, TypeOK
  <1>4. ASSUME NEW from, NEW status, NEW ok, NEW err, Enter(t, from, status, ok, err),
               status # "succeeded"
        PROVE  FALSE
    BY <1>4, EnterFacts
  <1>5. ~Move(t) /\ ~Finish(t) /\ ~LockCore(t)
    BY DEF Move, Download, Verify, Attempt, Backup, ApplyChange, ChangesApplied, Replace,
           Restart, RestartAgent, Confirm, WaitReady, RestoreBinary, RestoreFile,
           FilesRestored, RestartPrevious, ConfirmPrevious, Finish, LockCore, disk
  <1>6. ~SaveMigrating(t)
    <2>1. [mem[t] EXCEPT !.status = "migrating", !.mutating = TRUE].status = "migrating"
      BY DEF Typed, TypeOK, Job
    <2>2. SaveMigrating(t) =>
            \/ journal' = journal
            \/ journal' = [journal EXCEPT ![t] = [mem[t] EXCEPT !.status = "migrating",
                                                                !.mutating = TRUE]]
      BY DEF SaveMigrating
    <2> QED
      BY <2>1, <2>2 DEF Typed, TypeOK
  <1>7. ~Resume(t)
    BY <1>4 DEF Resume, Enter, disk
  <1>8. /\ ~SaveVerifying(t) /\ ~SaveBackingUp(t) /\ ~SaveReplacing(t) /\ ~SaveRestarting(t)
        /\ ~SaveChecking(t) /\ ~Fail(t) /\ ~SaveRolledBack(t) /\ ~SaveRollbackFailed(t)
    BY <1>4 DEF SaveVerifying, SaveBackingUp, SaveReplacing, SaveRestarting, SaveChecking,
                Fail, SaveRolledBack, SaveRollbackFailed
  <1>9. ~Spawn(t) /\ ~Load(t) /\ ~LockUpdate(t)
    BY <1>2, <1>3 DEF Spawn, Load, LockUpdate, Unlocked
  <1> QED
    BY <1>2, <1>3, <1>5, <1>6, <1>7, <1>8, <1>9 DEF WorkerStep, Move

\* A success is only recorded for a version that has served under the
\* migrated configuration.
THEOREM SuccessConfirmed ==
    ASSUME UncertainStart = FALSE, MaxFaults <= 1
    PROVE  Spec => SuccessWasConfirmed
  <1> DEFINE Step == \A t \in Task :
         journal'[t].status = "succeeded" /\ journal[t].status # "succeeded" =>
           binary = Target[t] /\ Target[t] \notin Broken /\ migrated = Change
  <1>1. Typed /\ Truthful /\ [Next]_vars => Step
    BY SuccessIsSaved DEF vars, disk, SaveSucceeded, Enter, Truthful, TaskIsTrue, WorkIsDone, Replaced
  <1>2. Step => [Step]_vars
    OBVIOUS
  <1> QED
    BY AlwaysTruthful, <1>1, <1>2, PTL DEF Spec, SuccessWasConfirmed

\* Write-ahead: the program and the files change only while a journal on disk
\* says so and holds the backups that undo the change.
THEOREM ChangesJournaled ==
    ASSUME UncertainStart = FALSE, MaxFaults <= 1
    PROVE  Spec => ChangesAreJournaled
  <1> DEFINE Recorded == \E t \in Task :
               /\ Locked(t) /\ current = t
               /\ journal[t].mutating /\ journal[t].status \notin Final
               /\ journal[t].backup = origin[t].binary
               /\ journal[t].snapshots = origin[t].migrated
             Step == <<binary, migrated>>' # <<binary, migrated>> =>
                       (binary' = binary /\ ~bootstrap.complete) \/ Recorded
  <1>1. Typed /\ Exclusive /\ Truthful /\ [Next]_vars => Step
    <2> SUFFICES ASSUME Typed, Exclusive, Truthful, Next,
                        <<binary, migrated>>' # <<binary, migrated>>
                 PROVE  (binary' = binary /\ ~bootstrap.complete) \/ Recorded
      BY DEF vars, disk
    <2>1. CASE Startup
      BY <2>1, StartFrame
      DEF Startup, FinishDeferred, BootLoad, BootRestore, BootPlan, BootApply, BootDone,
          bootRest, disk, Truthful, StartIsJournaled
    <2>2. ASSUME NEW t \in Task, WorkerStep(t)
          PROVE  Recorded
      <3>1. worker[t] \in {"migrate", "replace", "restoreBinary", "restoreFiles"}
        BY <2>2
        DEF WorkerStep, Spawn, Load, LockUpdate, LockCore, Resume, Download, SaveVerifying,
            Verify, SaveBackingUp, Backup, SaveMigrating, ApplyChange, ChangesApplied,
            SaveReplacing, Replace, SaveRestarting, Restart, SaveChecking, Confirm,
            SaveSucceeded, Fail, RestoreBinary, RestoreFile, FilesRestored,
            RestartPrevious, ConfirmPrevious, SaveRolledBack, SaveRollbackFailed, Finish,
            Attempt, Enter, Save, RestartAgent, WaitReady, disk
      <3>2. current = t /\ holder = t
        BY <3>1 DEF Exclusive, WorkerIsCurrent, Unlocked
      <3>3. journal[t].mutating /\ Unfinished(t) /\ Sound(journal[t], t)
        BY <3>1, <3>2 DEF Truthful, TaskIsTrue, RecordIsTrue, MemoryIsJournal, UndoIsSound,
                          Unfinished, Changing, Undoing, Final
      <3> QED
        BY <3>2, <3>3 DEF Locked, Unfinished, Sound
    <2>3. CASE \/ \E t \in Task : Prepare(t)
               \/ PrepareStep \/ Operation \/ Status \/ PruneCompleted
               \/ StartAgent \/ StopAgent \/ Death
      BY <2>3 DEF Prepare, PrepareStep, SaveCurrent, SaveJob, StartWorker, SavePrepareFailed,
                  Operation, CheckPending, StartOperation, EndOperation, Status, ReadStatus,
                  Answer, PruneCompleted, StartAgent, StopAgent, Death, Crash, disk
    <2> QED
      BY <2>1, <2>2, <2>3 DEF Next
  <1>2. Step => [Step]_vars
    OBVIOUS
  <1> QED
    BY AlwaysTruthful, <1>1, <1>2, PTL DEF Spec, ChangesAreJournaled

-----------------------------------------------------------------------------
(* The order of the files.                                                 *)

\* The plan goes through the files in their order.
LEMMA AddKeepsPrefix ==
    ASSUME NEW files, Prefix(files), NEW n \in 0..Changes, n < Changes, 1..n \subseteq files
    PROVE  Prefix(files \cup {n + 1}) /\ 1..(n + 1) \subseteq files \cup {n + 1}
  <1>1. PICK k \in 0..Changes : files = 1..k
    BY DEF Prefix
  <1>2. Changes \in Nat
    BY UpgradeAssumption
  <1>3. k >= n
    BY <1>1, <1>2
  <1>4. CASE k = n
    <2>1. files \cup {n + 1} = 1..(n + 1)
      BY <1>1, <1>2, <1>4
    <2> QED
      BY <1>2, <2>1 DEF Prefix
  <1>5. CASE k > n
    BY <1>1, <1>2, <1>5 DEF Prefix
  <1> QED
    BY <1>1, <1>2, <1>3, <1>4, <1>5

\* A restoration goes through them backwards, down to what it keeps.
LEMMA RestoreKeepsPrefix ==
    ASSUME NEW files, Prefix(files), NEW kept, Prefix(kept), kept \subseteq files,
           NEW n \in 1..Changes, \A f \in Change : f > n => (f \in files <=> f \in kept),
           NEW result, result = IF n \in kept THEN files \cup {n} ELSE files \ {n}
    PROVE  /\ Prefix(result) /\ kept \subseteq result
           /\ \A f \in Change : f > n - 1 => (f \in result <=> f \in kept)
  <1>1. PICK k \in 0..Changes : files = 1..k
    BY DEF Prefix
  <1>2. PICK j \in 0..Changes : kept = 1..j
    BY DEF Prefix
  <1>3. Changes \in Nat
    BY UpgradeAssumption
  <1>4. j <= k
    BY <1>1, <1>2, <1>3
  <1>5. CASE n \in kept
    <2>1. result = files
      BY <1>5
    <2> QED
      BY <1>3, <1>5, <2>1 DEF Change
  <1>6. CASE n \notin kept
    <2>1. n > j /\ result = files \ {n}
      BY <1>2, <1>3, <1>6
    <2>2. k <= n
      BY <1>3, <1>1, <1>2, <2>1 DEF Change
    <2>3. CASE k = n
      <3>1. n - 1 \in 0..Changes
        BY <1>3
      <3>2. result = 1..(n - 1)
        <4>1. \A x : x \in (1..n) \ {n} <=> x \in 1..(n - 1)
          BY <1>3
        <4> QED
          BY <1>1, <2>1, <2>3, <4>1
      <3>3. Prefix(result)
        BY <3>1, <3>2 DEF Prefix
      <3>4. kept \subseteq result
        BY <1>6, <2>1
      <3>5. ASSUME NEW f \in Change, f > n - 1
            PROVE  f \in result <=> f \in kept
        BY <1>2, <1>3, <2>1, <3>2, <3>5 DEF Change
      <3> QED
        BY <3>3, <3>4, <3>5
    <2>4. CASE k # n
      <3>1. n \notin files
        BY <1>1, <1>3, <2>2, <2>4
      <3>2. result = files
        BY <2>1, <3>1
      <3>3. ASSUME NEW f \in Change, f > n - 1
            PROVE  f \in result <=> f \in kept
        BY <1>3, <1>6, <3>1, <3>2, <3>3 DEF Change
      <3> QED
        BY <3>2, <3>3
    <2> QED
      BY <2>3, <2>4
  <1> QED
    BY <1>5, <1>6

\* No Agent is starting while a task is in progress.
LEMMA CleanIsQuiet ==
    ASSUME Typed, Exclusive, Truthful, faults = 0, NEW t \in Task, InProgress(t)
    PROVE  ~Active /\ (Pending \/ prep.pc # "idle")
  BY UpgradeAssumption
  DEF InProgress, Unfinished, Pending, Exclusive, PreparationIsAlone, Truthful,
      StartIsJournaled, Active

\* A worker at work has its task in progress.
LEMMA WorkerInProgress ==
    ASSUME Typed, Exclusive, Truthful, faults = 0, NEW t \in Task,
           worker[t] \notin {"dead", "load", "finish"}
    PROVE  InProgress(t)
  <1>1. current = t
    BY DEF Exclusive, WorkerIsCurrent
  <1>2. worker[t] \in WorkerLabel
    BY DEF Typed, TypeOK
  <1>3. Unfinished(t)
    BY <1>1, <1>2
    DEF Truthful, TaskIsTrue, MemoryIsJournal, FailureIsKnown, Unfinished, Final, WorkerLabel,
        Resuming, Early, Changing, Undoing
  <1> QED
    BY <1>1, <1>3 DEF InProgress

\* A step that leaves the files alone.
LEMMA SameOrder ==
    ASSUME NEW t \in Task, TaskIsOrdered(t), InProgress(t)' => InProgress(t),
           UNCHANGED <<migrated, bootstrap>>, origin'[t] = origin[t],
           \/ worker'[t] = worker[t] /\ next'[t] = next[t] /\ mem'[t] = mem[t]
           \/ worker'[t] # "restoreFiles" /\ next'[t] = 0
    PROVE  TaskIsOrdered(t)'
  <1>1. 1..0 = {}
    OBVIOUS
  <1> QED
    BY <1>1 DEF TaskIsOrdered, Aligned

LEMMA SameStart ==
    ASSUME StartIsOrdered, UNCHANGED <<migrated, bootstrap>>,
           boot' = boot \/ boot'.pc \notin {"restore", "undo"}
    PROVE  StartIsOrdered'
  BY DEF StartIsOrdered, Aligned

\* Writes that reported an error are counted and never forgotten.
LEMMA FaultsGrow ==
    ASSUME Typed, [Next]_vars, faults' = 0
    PROVE  faults = 0
  <1>1. faults \in Nat
    BY UpgradeAssumption DEF Typed, TypeOK
  <1>2. ASSUME NEW t \in Task, WorkerStep(t)
        PROVE  Fault \/ faults' = faults
    <2>1. Move(t) => faults' = faults
      BY DEF Move, Download, Verify, Attempt, Backup, ApplyChange, ChangesApplied, Replace,
             Restart, RestartAgent, Confirm, WaitReady, RestoreBinary, RestoreFile,
             FilesRestored, RestartPrevious, ConfirmPrevious, budget
    <2>2. Spawn(t) \/ Load(t) \/ LockUpdate(t) \/ LockCore(t) \/ Finish(t) => faults' = faults
      BY DEF Spawn, Load, LockUpdate, LockCore, Finish, budget
    <2>3. ASSUME ~Move(t), ~Spawn(t), ~Load(t), ~LockUpdate(t), ~LockCore(t), ~Finish(t)
          PROVE  Fault \/ NoFault
      BY <1>2, <2>3
      DEF WorkerStep, Move, Resume, SaveVerifying, SaveBackingUp, SaveMigrating, SaveReplacing,
          SaveRestarting, SaveChecking, SaveSucceeded, Fail, SaveRolledBack,
          SaveRollbackFailed, Enter, Save, NoFault
    <2> QED
      BY <2>1, <2>2, <2>3 DEF NoFault, budget
  <1>3. CASE \/ \E t \in Task : Prepare(t)
             \/ PrepareStep \/ Operation \/ Status \/ PruneCompleted
             \/ Startup \/ StartAgent \/ StopAgent \/ Death
    <2>1. Fault \/ faults' = faults
      BY <1>3, StartFrame
      DEF Prepare, PrepareStep, SaveCurrent, SaveJob, StartWorker, SavePrepareFailed,
          Operation, CheckPending, StartOperation, EndOperation, Status, ReadStatus, Answer,
          PruneCompleted, StartAgent, StopAgent, Death, Crash, budget, NoFault
    <2> QED
      BY <1>1, <2>1 DEF Fault
  <1>4. CASE UNCHANGED vars
    BY <1>4 DEF vars, budget
  <1> QED
    BY <1>1, <1>2, <1>3, <1>4 DEF Next, Fault

\* A task in progress was so before, unless it was just prepared.
LEMMA ProgressOfWorker ==
    ASSUME Typed, Exclusive, Truthful, faults' = 0, NEW t \in Task, WorkerStep(t),
           NEW u \in Task, InProgress(u)'
    PROVE  InProgress(u)
  <1>1. CASE worker[t] \in Unlocked \/ u # t
    <2>1. UNCHANGED <<current, prep>> /\ journal'[u] = journal[u]
      <3>1. CASE worker[t] \in Unlocked
        BY <3>1
        DEF WorkerStep, Spawn, Load, LockUpdate, LockCore, Resume, Download, SaveVerifying,
            Verify, SaveBackingUp, Backup, SaveMigrating, ApplyChange, ChangesApplied,
            SaveReplacing, Replace, SaveRestarting, Restart, SaveChecking, Confirm,
            SaveSucceeded, Fail, RestoreBinary, RestoreFile, FilesRestored,
            RestartPrevious, ConfirmPrevious, SaveRolledBack, SaveRollbackFailed, Finish,
            Attempt, Enter, Unlocked, disk, rest
      <3>2. CASE worker[t] \notin Unlocked
        BY <1>1, <3>2, HolderStep DEF HolderFrame, Typed, TypeOK
      <3> QED
        BY <3>1, <3>2
    <2> QED
      BY <2>1 DEF InProgress, Unfinished
  <1>2. CASE worker[t] \notin Unlocked /\ u = t
    <2>1. faults = 0
      BY FaultsGrow DEF Next
    <2>2. CASE worker[t] = "finish"
      <3>1. UNCHANGED <<current, prep, journal>>
        BY <2>2
        DEF WorkerStep, Spawn, Load, LockUpdate, LockCore, Resume, Download, SaveVerifying,
            Verify, SaveBackingUp, Backup, SaveMigrating, ApplyChange, ChangesApplied,
            SaveReplacing, Replace, SaveRestarting, Restart, SaveChecking, Confirm,
            SaveSucceeded, Fail, RestoreBinary, RestoreFile, FilesRestored,
            RestartPrevious, ConfirmPrevious, SaveRolledBack, SaveRollbackFailed, Finish,
            Attempt, Enter, rest
      <3> QED
        BY <1>2, <3>1 DEF InProgress, Unfinished
    <2>3. CASE worker[t] # "finish"
      BY <1>2, <2>1, <2>3, WorkerInProgress DEF Unlocked
    <2> QED
      BY <2>2, <2>3
  <1> QED
    BY <1>1, <1>2

\* The two steps of a worker that change the files.
LEMMA ApplyIsOrdered ==
    ASSUME Typed, StartIsOrdered, ~Active, NEW t \in Task, TaskIsOrdered(t), InProgress(t),
           ApplyChange(t)
    PROVE  StartIsOrdered' /\ TaskIsOrdered(t)'
  <1>1. /\ worker[t] = "migrate" /\ next[t] < Changes /\ next[t] \in 0..Changes
        /\ 1..next[t] \subseteq migrated /\ Changes \in Nat
    BY UpgradeAssumption DEF ApplyChange, TaskIsOrdered, Typed, TypeOK
  <1>2. /\ migrated' = migrated \/ migrated' = migrated \cup {next[t] + 1}
        /\ \/ /\ worker'[t] = "migrate" /\ next'[t] = next[t] + 1
              /\ migrated' = migrated \cup {next[t] + 1}
           \/ worker'[t] = "fail" /\ next'[t] = 0
        /\ UNCHANGED <<boot, bootstrap, origin>>
    BY DEF ApplyChange, Goto, rest, agent, Typed, TypeOK
  <1>3. /\ Prefix(migrated \cup {next[t] + 1})
        /\ 1..(next[t] + 1) \subseteq migrated \cup {next[t] + 1}
    BY <1>1, AddKeepsPrefix DEF StartIsOrdered
  <1>4. Prefix(migrated') /\ migrated \subseteq migrated'
    BY <1>3, <1>2 DEF StartIsOrdered, Prefix
  <1>5. TaskIsOrdered(t)'
    BY <1>2, <1>3, <1>4 DEF TaskIsOrdered
  <1> QED
    BY <1>2, <1>4, <1>5 DEF StartIsOrdered, Active

LEMMA RestoreIsOrdered ==
    ASSUME Typed, StartIsOrdered, ~Active, NEW t \in Task, TaskIsOrdered(t), InProgress(t),
           TaskIsTrue(t), RestoreFile(t)
    PROVE  StartIsOrdered' /\ TaskIsOrdered(t)'
  <1> DEFINE kept == origin[t].migrated
  <1>1. /\ worker[t] = "restoreFiles" /\ next[t] \in 1..Changes /\ Changes \in Nat
    BY UpgradeAssumption DEF RestoreFile, Typed, TypeOK
  <1>2. /\ mem[t].snapshots = kept /\ Aligned(next[t], kept)
        /\ Prefix(kept) /\ kept \subseteq migrated
        /\ ~bootstrap.complete => bootstrap.snapshots \subseteq kept
    BY <1>1 DEF TaskIsTrue, MemoryIsJournal, UndoIsSound, Sound, Undoing, TaskIsOrdered
  <1>3. /\ migrated' = migrated \/ migrated' = Restored(t, next[t])
        /\ \/ /\ worker'[t] = "restoreFiles" /\ next'[t] = next[t] - 1
              /\ migrated' = Restored(t, next[t])
           \/ worker'[t] = "saveRollbackFailed" /\ next'[t] = 0
        /\ mem' = mem
        /\ UNCHANGED <<boot, bootstrap, origin>>
    BY DEF RestoreFile, Goto, rest, agent, Typed, TypeOK
  <1>4. /\ Prefix(Restored(t, next[t])) /\ kept \subseteq Restored(t, next[t])
        /\ \A f \in Change : f > next[t] - 1 => (f \in Restored(t, next[t]) <=> f \in kept)
    <2>1. /\ Prefix(migrated)
          /\ \A f \in Change : f > next[t] => (f \in migrated <=> f \in kept)
      BY <1>2 DEF StartIsOrdered, Aligned
    <2>2. Restored(t, next[t]) = IF next[t] \in kept THEN migrated \cup {next[t]}
                                                     ELSE migrated \ {next[t]}
      BY <1>2 DEF Restored
    <2> HIDE DEF kept
    <2> QED
      BY <1>1, <1>2, <2>1, <2>2, RestoreKeepsPrefix
  <1>5. Prefix(migrated') /\ kept \subseteq migrated'
    BY <1>2, <1>4, <1>3 DEF StartIsOrdered, Prefix
  <1>6. TaskIsOrdered(t)'
    BY <1>2, <1>3, <1>4, <1>5 DEF Aligned, TaskIsOrdered, Prefix
  <1> QED
    BY <1>2, <1>3, <1>5, <1>6 DEF StartIsOrdered, Active

\* The other steps of a worker keep the files, and begin each pass over them
\* at its start.
LEMMA MoveIsOrdered ==
    ASSUME Typed, Exclusive, StartIsOrdered, NEW t \in Task, TaskIsOrdered(t), WorkerStep(t),
           InProgress(t)' => InProgress(t), ~ApplyChange(t), ~RestoreFile(t)
    PROVE  StartIsOrdered' /\ TaskIsOrdered(t)' /\ UNCHANGED <<migrated, bootstrap>>
  <1>1. CASE RestoreBinary(t)
    BY <1>1, SameStart, UpgradeAssumption DEF RestoreBinary, Goto, rest, agent, Typed, TypeOK, Aligned, Change,
       TaskIsOrdered
  <1>2. CASE SaveMigrating(t) \/ ChangesApplied(t) \/ FilesRestored(t)
    BY <1>2, SameStart, SameOrder DEF SaveMigrating, ChangesApplied, FilesRestored, Goto, rest, agent, disk,
       TaskIsOrdered, Typed, TypeOK
  <1>3. ASSUME ~RestoreBinary(t), ~SaveMigrating(t), ~ChangesApplied(t), ~FilesRestored(t)
        PROVE  StartIsOrdered' /\ TaskIsOrdered(t)' /\ UNCHANGED <<migrated, bootstrap>>
    <2>1. UNCHANGED <<migrated, boot, bootstrap, origin>>
      <3>1. CASE Move(t) /\ ~Replace(t)
        BY <1>3, <3>1 DEF Move, Download, Verify, Attempt, Backup, Restart, RestartAgent, Confirm,
                          WaitReady, RestartPrevious, ConfirmPrevious, disk, rest, agent
      <3>2. CASE Replace(t)
        BY <3>2 DEF Replace, rest, agent
      <3>3. CASE ~Move(t)
        BY <1>3, <3>3
        DEF WorkerStep, Move, Spawn, Load, LockUpdate, LockCore, Finish, Resume, SaveVerifying,
            SaveBackingUp, SaveReplacing, SaveRestarting, SaveChecking, SaveSucceeded, Fail,
            SaveRolledBack, SaveRollbackFailed, Enter, Save, disk, rest, agent
      <3> QED
        BY <3>1, <3>2, <3>3
    <2>2. worker'[t] # "restoreFiles" /\ next'[t] = 0
      <3>1. CASE Move(t)
        BY <1>3, <3>1 DEF Move, Download, Verify, Attempt, Backup, Restart, RestartAgent, Confirm,
                          Replace, WaitReady, RestartPrevious, ConfirmPrevious, Goto,
                          TaskIsOrdered, Typed, TypeOK
      <3>2. CASE Spawn(t) \/ Load(t) \/ LockUpdate(t) \/ LockCore(t) \/ Finish(t)
        BY <3>2 DEF Spawn, Load, LockUpdate, LockCore, Finish, Exit, Goto, TaskIsOrdered,
                    Typed, TypeOK
      <3>3. CASE Resume(t)
        BY <3>3 DEF Resume, Save, Goto, TaskIsOrdered, Typed, TypeOK
      <3>4. CASE \/ SaveVerifying(t) \/ SaveBackingUp(t) \/ SaveReplacing(t)
                 \/ SaveRestarting(t) \/ SaveChecking(t) \/ SaveSucceeded(t) \/ Fail(t)
                 \/ SaveRolledBack(t) \/ SaveRollbackFailed(t)
        <4>1. worker[t] \notin {"migrate", "restoreFiles"} /\ next' = next
          BY <3>4
          DEF SaveVerifying, SaveBackingUp, SaveReplacing, SaveRestarting, SaveChecking,
              SaveSucceeded, Fail, SaveRolledBack, SaveRollbackFailed, Enter, Save
        <4>2. \E pc : pc # "restoreFiles" /\ Goto(t, pc)
          BY <3>4
          DEF SaveVerifying, SaveBackingUp, SaveReplacing, SaveRestarting, SaveChecking,
              SaveSucceeded, Fail, SaveRolledBack, SaveRollbackFailed, Enter, Save
        <4> QED
          BY <4>1, <4>2 DEF Goto, TaskIsOrdered, Typed, TypeOK
      <3> QED
        BY <1>3, <3>1, <3>2, <3>3, <3>4 DEF WorkerStep, Move
    <2> QED
      BY <2>1, <2>2, SameStart, SameOrder
  <1> QED
    BY <1>1, <1>2, <1>3

\* A step of a worker leaves the other tasks and what they are supplied with.
LEMMA WorkerFrame ==
    ASSUME Typed, NEW t \in Task, WorkerStep(t)
    PROVE  /\ UNCHANGED <<copies, origin>>
           /\ \A u \in Task : u # t =>
                /\ worker'[u] = worker[u] /\ next'[u] = next[u] /\ mem'[u] = mem[u]
                /\ journal'[u] = journal[u] /\ (u \in units' <=> u \in units)
  <1>1. CASE Move(t)
    BY <1>1 DEF Move, Download, Verify, Attempt, Backup, ApplyChange, ChangesApplied, Replace,
                Restart, RestartAgent, Confirm, WaitReady, RestoreBinary, RestoreFile,
                FilesRestored, RestartPrevious, ConfirmPrevious, Goto, disk, rest,
                Typed, TypeOK
  <1>2. CASE Spawn(t) \/ Load(t) \/ LockUpdate(t) \/ LockCore(t) \/ Finish(t)
    BY <1>2 DEF Spawn, Load, LockUpdate, LockCore, Finish, Exit, Goto, disk, rest,
                Typed, TypeOK
  <1>3. ASSUME NEW record, NEW ok, NEW err, Save(t, record, ok, err)
        PROVE  /\ UNCHANGED <<copies, units, origin, next>>
               /\ \A u \in Task : u # t => /\ worker'[u] = worker[u] /\ mem'[u] = mem[u]
                                           /\ journal'[u] = journal[u]
    BY <1>3 DEF Save, Goto, rest, Typed, TypeOK
  <1>4. CASE Resume(t)
    BY <1>3, <1>4 DEF Resume, Goto, disk, rest, Typed, TypeOK
  <1>5. CASE SaveMigrating(t)
    BY <1>5 DEF SaveMigrating, Goto, rest, Typed, TypeOK
  <1>6. CASE \/ SaveVerifying(t) \/ SaveBackingUp(t) \/ SaveReplacing(t)
             \/ SaveRestarting(t) \/ SaveChecking(t) \/ SaveSucceeded(t) \/ Fail(t)
             \/ SaveRolledBack(t) \/ SaveRollbackFailed(t)
    BY <1>6, <1>3 DEF SaveVerifying, SaveBackingUp, SaveReplacing, SaveRestarting, SaveChecking, SaveSucceeded,
       Fail, SaveRolledBack, SaveRollbackFailed, Enter
  <1> QED
    BY <1>1, <1>2, <1>4, <1>5, <1>6 DEF WorkerStep, Move

LEMMA WorkerIsOrdered ==
    ASSUME Typed, Exclusive, Truthful, faults = 0, faults' = 0, Ordered,
           NEW t \in Task, WorkerStep(t)
    PROVE  Ordered'
  <1>1. \A u \in Task : InProgress(u)' => InProgress(u)
    BY ProgressOfWorker
  <1>2. CASE ApplyChange(t) \/ RestoreFile(t)
    <2>1. worker[t] \in {"migrate", "restoreFiles"}
      BY <1>2 DEF ApplyChange, RestoreFile
    <2>2. InProgress(t) /\ ~Active
      BY <2>1, WorkerInProgress, CleanIsQuiet
    <2>3. StartIsOrdered' /\ TaskIsOrdered(t)'
      BY <1>2, <2>2, ApplyIsOrdered, RestoreIsOrdered DEF Ordered, Truthful
    <2>4. ASSUME NEW u \in Task, u # t
          PROVE  TaskIsOrdered(u)'
      BY <2>1, <2>4, UpgradeAssumption, <1>1, WorkerFrame DEF Exclusive, WorkerIsCurrent, PreparationIsAlone,
         Unlocked, InProgress, Ordered, TaskIsOrdered
    <2> QED
      BY <2>3, <2>4 DEF Ordered
  <1>3. CASE ~ApplyChange(t) /\ ~RestoreFile(t)
    BY <1>1, <1>3, MoveIsOrdered, WorkerFrame, SameOrder DEF Ordered
  <1> QED
    BY <1>2, <1>3

\* The steps of the Agent that leave the files alone, and deaths.
LEMMA OthersAreOrdered ==
    ASSUME Typed, Ordered, \A t \in Task : InProgress(t)' => InProgress(t),
           UNCHANGED <<migrated, bootstrap, origin>>,
           boot' = boot \/ boot'.pc \notin {"restore", "undo"},
           \A t \in Task :
             \/ worker'[t] = worker[t] /\ next'[t] = next[t] /\ mem'[t] = mem[t]
             \/ worker'[t] # "restoreFiles" /\ next'[t] = 0
    PROVE  Ordered'
  BY SameStart, SameOrder DEF Ordered

LEMMA PrepareIsOrdered ==
    ASSUME Typed, Exclusive, Ordered, NEW t \in Task, Prepare(t)
    PROVE  Ordered'
  <1>1. /\ UNCHANGED <<current, journal, migrated, boot, bootstrap, worker, mem, next>>
        /\ prep'.task = t /\ prep.pc = "idle" /\ ~Pending
        /\ origin'[t].migrated = migrated
        /\ \A u \in Task : u # t => origin'[u] = origin[u]
    BY DEF Prepare, agent, work, Typed, TypeOK
  <1>2. StartIsOrdered'
    BY <1>1, SameStart DEF Ordered
  <1>3. ASSUME NEW u \in Task, u # t
        PROVE  TaskIsOrdered(u)'
    <2>1. ~InProgress(u)'
      BY <1>1, <1>3, UpgradeAssumption DEF InProgress, Unfinished, Pending
    <2> QED
      BY <1>1, <2>1 DEF Ordered, TaskIsOrdered, Aligned
  <1>4. TaskIsOrdered(t)'
    BY <1>1 DEF Ordered, StartIsOrdered, Prefix, TaskIsOrdered, Aligned
  <1> QED
    BY <1>2, <1>3, <1>4 DEF Ordered

\* The preparation of one task is the progress of that task.
LEMMA ProgressOfPreparation ==
    ASSUME Typed, Exclusive, PrepareStep, NEW t \in Task, InProgress(t)'
    PROVE  InProgress(t)
  <1>1. prep.pc # "idle" /\ (prep'.pc # "idle" => prep'.task = prep.task)
    BY DEF PrepareStep, SaveCurrent, SaveJob, StartWorker, SavePrepareFailed, PrepareEnds,
           PrepGoto, Typed, TypeOK
  <1>2. \/ UNCHANGED <<current, journal>>
        \/ current' = prep.task
    BY DEF PrepareStep, SaveCurrent, SaveJob, StartWorker, SavePrepareFailed, disk,
           Exclusive, PreparationIsAlone
  <1> QED
    BY <1>1, <1>2 DEF InProgress, Unfinished

LEMMA AgentIsOrdered ==
    ASSUME Typed, Exclusive, Ordered,
           PrepareStep \/ Operation \/ Status \/ PruneCompleted
    PROVE  Ordered'
  <1>1. UNCHANGED <<migrated, bootstrap, origin, boot, mem, next>>
    BY DEF PrepareStep, SaveCurrent, SaveJob, StartWorker, SavePrepareFailed,
           Operation, CheckPending, StartOperation, EndOperation, Status, ReadStatus, Answer,
           PruneCompleted, disk, agent, work
  <1>2. CASE PrepareStep
    <2>1. \A t \in Task :
            worker'[t] = worker[t] \/ (worker'[t] = "load" /\ t = prep.task)
      BY <1>2 DEF PrepareStep, SaveCurrent, SaveJob, StartWorker, SavePrepareFailed, work,
                  Typed, TypeOK
    <2>2. worker[prep.task] = "dead"
      BY <1>2 DEF PrepareStep, SaveCurrent, SaveJob, StartWorker, SavePrepareFailed,
                  Exclusive, PreparationIsAlone
    <2>3. \A t \in Task :
            \/ worker'[t] = worker[t] /\ next'[t] = next[t] /\ mem'[t] = mem[t]
            \/ worker'[t] # "restoreFiles" /\ next'[t] = 0
      BY <1>1, <2>1, <2>2 DEF Ordered, TaskIsOrdered
    <2> QED
      BY <1>1, <1>2, <2>3, ProgressOfPreparation, OthersAreOrdered
  <1>3. CASE Operation \/ Status \/ PruneCompleted
    <2>1. UNCHANGED <<worker, current, prep>>
      BY <1>3 DEF Operation, CheckPending, StartOperation, EndOperation, Status, ReadStatus,
                  Answer, PruneCompleted, disk, work
    <2>2. \A t \in Task : Unfinished(t)' => Unfinished(t)
      BY <1>3 DEF Operation, CheckPending, StartOperation, EndOperation, Status, ReadStatus,
                  Answer, PruneCompleted, disk, Unfinished, NoJob
    <2>3. \A t \in Task : InProgress(t)' => InProgress(t)
      BY <2>1, <2>2 DEF InProgress
    <2> QED
      BY <1>1, <2>1, <2>3, OthersAreOrdered
  <1> QED
    BY <1>2, <1>3

LEMMA LossIsOrdered ==
    ASSUME Typed, Ordered, StartAgent \/ StopAgent \/ Death \/ UNCHANGED vars
    PROVE  Ordered'
  <1>1. /\ UNCHANGED <<migrated, bootstrap, origin, journal, current>>
        /\ boot' = boot \/ boot'.pc \notin {"restore", "undo"}
        /\ prep' = prep \/ prep'.pc = "idle"
    BY DEF StartAgent, StopAgent, Death, Crash, AgentDies, disk, vars, agent
  <1>2. \A t \in Task :
          \/ worker'[t] = worker[t] /\ next'[t] = next[t] /\ mem'[t] = mem[t]
          \/ worker'[t] # "restoreFiles" /\ next'[t] = 0
    BY DEF StartAgent, StopAgent, Death, Crash, work, vars
  <1>3. \A t \in Task : InProgress(t)' => InProgress(t)
    BY <1>1 DEF InProgress, Unfinished
  <1> QED
    BY <1>1, <1>2, <1>3, OthersAreOrdered

\* A starting Agent meets no task in progress.
LEMMA StartupIsOrdered ==
    ASSUME Typed, Exclusive, Truthful, faults = 0, Ordered, Startup
    PROVE  Ordered'
  <1>1. /\ UNCHANGED <<current, journal, worker, mem, next, origin>>
        /\ prep' = prep \/ prep'.pc = "idle"
    BY DEF Startup, FinishDeferred, BootLoad, BootRestore, BootPlan, BootApply, BootDone,
           bootRest, still, disk, work, BootGoto, BootEnds, BootFails, AgentDies
  <1>2. \A t \in Task : InProgress(t)' => InProgress(t)
    BY <1>1 DEF InProgress, Unfinished
  <1>3. CASE FinishDeferred
    BY <1>3, <1>1, <1>2, OthersAreOrdered DEF FinishDeferred, BootGoto, bootRest, disk
  <1>4. CASE ~FinishDeferred
    <2>1. Active
      BY <1>4 DEF Startup, BootLoad, BootRestore, BootPlan, BootApply, BootDone, Active
    <2>2. \A t \in Task : ~InProgress(t)
      BY <2>1, CleanIsQuiet
    <2>3. \A t \in Task : worker[t] \notin {"migrate", "restoreFiles"}
      BY <2>2, WorkerInProgress
    <2>4. \A t \in Task : TaskIsOrdered(t)'
      BY <1>1, <1>2, <2>2, <2>3 DEF Ordered, TaskIsOrdered
    <2>5. ~Pending
      BY <2>1 DEF Truthful, StartIsJournaled, Pending
    <2>6. StartIsOrdered'
      <3>1. CASE BootLoad
        BY <3>1, UpgradeAssumption DEF BootLoad, BootGoto, bootRest, disk, Ordered, StartIsOrdered, Aligned, Prefix,
           Change
      <3>2. CASE BootRestore
        <4> DEFINE kept == bootstrap.snapshots
                   n == boot.next
        <4>1. /\ ~bootstrap.complete /\ bootstrap' = bootstrap
              /\ Aligned(n, kept) /\ kept \subseteq migrated
              /\ Prefix(kept) /\ Prefix(migrated) /\ n \in 0..Changes
          BY <3>2 DEF BootRestore, Truthful, StartIsJournaled, Ordered, StartIsOrdered,
                      Typed, TypeOK
        <4>2. CASE migrated' = migrated /\ boot'.pc \notin {"restore", "undo"}
          BY <4>1, <4>2, SameStart DEF Ordered
        <4>3. CASE n > 0 /\ migrated' \in {migrated, BootRestored(n)}
          <5>1. n \in 1..Changes
            BY <4>1, <4>3, UpgradeAssumption
          <5>2. BootRestored(n) = IF n \in kept THEN migrated \cup {n} ELSE migrated \ {n}
            BY DEF BootRestored
          <5>3. /\ Prefix(BootRestored(n)) /\ kept \subseteq BootRestored(n)
                /\ \A f \in Change : f > n - 1 => (f \in BootRestored(n) <=> f \in kept)
            <6>1. \A f \in Change : f > n => (f \in migrated <=> f \in kept)
              BY <4>1 DEF Aligned
            <6> HIDE DEF kept, n
            <6> QED
              BY <4>1, <5>1, <5>2, <6>1, RestoreKeepsPrefix
          <5>4. Prefix(migrated') /\ kept \subseteq migrated'
            BY <4>1, <5>3, <4>3 DEF Prefix
          <5>5. boot'.pc \in {"restore", "undo"} =>
                  boot'.next = n - 1 /\ migrated' = BootRestored(n)
            BY <3>2, <4>3, <5>1, UpgradeAssumption
            DEF BootRestore, BootGoto, BootFails, BootEnds, AgentDies
          <5>6. boot'.pc \in {"restore", "undo"} => Aligned(boot.next, bootstrap.snapshots)'
            BY <4>1, <5>3, <5>5 DEF Aligned
          <5> QED
            BY <4>1, <5>4, <5>6 DEF StartIsOrdered, Prefix
        <4> QED
          BY <3>2, <4>2, <4>3 DEF BootRestore, BootGoto, BootFails, BootEnds, AgentDies
      <3>3. CASE BootPlan
        BY <3>3 DEF BootPlan, BootGoto, BootFails, BootEnds, AgentDies, disk, Ordered, StartIsOrdered, Prefix
      <3>4. CASE BootApply
        <4> DEFINE n == boot.next
        <4>1. /\ bootstrap' = bootstrap /\ n \in 0..Changes /\ n < Changes
              /\ 1..n \subseteq migrated
              /\ migrated' \in {migrated, migrated \cup {n + 1}}
              /\ boot'.pc \in {"restore", "undo"} => boot'.next = Changes
          BY <2>5, <3>4 DEF BootApply, BootGoto, Truthful, StartIsJournaled, Typed, TypeOK
        <4>2. Prefix(migrated \cup {n + 1})
          BY <4>1, AddKeepsPrefix DEF Ordered, StartIsOrdered
        <4>3. Prefix(migrated)' /\ migrated \subseteq migrated'
          BY <4>1, <4>2 DEF Ordered, StartIsOrdered, Prefix
        <4>4. Prefix(bootstrap.snapshots)'
          BY <4>1 DEF Ordered, StartIsOrdered, Prefix
        <4>5. ~bootstrap'.complete => bootstrap'.snapshots \subseteq migrated'
          BY <4>1, <4>3 DEF Ordered, StartIsOrdered
        <4>6. boot'.pc \in {"restore", "undo"} => Aligned(boot.next, bootstrap.snapshots)'
          BY <4>1, UpgradeAssumption DEF Aligned, Change
        <4> QED
          BY <4>3, <4>4, <4>5, <4>6 DEF StartIsOrdered
      <3>5. CASE BootDone
        <4>1. /\ migrated' = migrated
              /\ boot'.pc \in {"restore", "undo"} => boot'.next = Changes
              /\ bootstrap'.snapshots = bootstrap.snapshots
              /\ bootstrap'.complete = bootstrap.complete \/ bootstrap'.complete
          BY <3>5 DEF BootDone, BootGoto, BootFails, BootEnds, AgentDies, disk, Typed, TypeOK
        <4>2. Prefix(bootstrap.snapshots)' /\ Prefix(migrated)'
          BY <4>1 DEF Ordered, StartIsOrdered, Prefix
        <4>3. boot'.pc \in {"restore", "undo"} => Aligned(boot.next, bootstrap.snapshots)'
          BY <4>1, UpgradeAssumption DEF Aligned, Change
        <4> QED
          BY <4>1, <4>2, <4>3 DEF Ordered, StartIsOrdered
      <3> QED
        BY <1>4, <3>1, <3>2, <3>3, <3>4, <3>5 DEF Startup
    <2> QED
      BY <2>4, <2>6 DEF Ordered
  <1> QED
    BY <1>3, <1>4

-----------------------------------------------------------------------------
(* What a rollback needs.                                                  *)

\* A save that reports no error leaves the journal equal to the memory.
LEMMA CleanSave ==
    ASSUME Typed, Exclusive, Recoverable, NEW t \in Task, WorkerStep(t),
           faults' = faults, worker'[t] = "finish"
    PROVE  mem'[t] = journal'[t]
  <1>1. faults # faults + 1
    BY UpgradeAssumption DEF Typed, TypeOK
  <1>2. ~Spawn(t) /\ ~Load(t) /\ ~LockUpdate(t) /\ ~LockCore(t) /\ ~Finish(t)
    BY DEF Spawn, Load, LockUpdate, LockCore, Finish, Exit, Goto, Typed, TypeOK
  <1>3. ~Move(t)
    BY DEF Move, Download, Verify, Attempt, Backup, ApplyChange, ChangesApplied, Replace,
           Restart, RestartAgent, Confirm, WaitReady, RestoreBinary, RestoreFile,
           FilesRestored, RestartPrevious, ConfirmPrevious, Goto, Typed, TypeOK
  <1>4. ~SaveMigrating(t) /\ ~Resume(t)
    BY DEF SaveMigrating, Resume, Save, Goto, Typed, TypeOK
  <1>5. \E from, status, ok, err : Enter(t, from, status, ok, err)
    BY <1>2, <1>3, <1>4
    DEF WorkerStep, Move, SaveVerifying, SaveBackingUp, SaveReplacing, SaveRestarting,
        SaveChecking, SaveSucceeded, Fail, SaveRolledBack, SaveRollbackFailed
  <1> QED
    BY <1>1, <1>5, EnterFacts

LEMMA WorkerIsRecoverable ==
    ASSUME Typed, Exclusive, Truthful, faults = 0, faults' = 0, Recoverable,
           NEW t \in Task, WorkerStep(t)
    PROVE  Recoverable'
  <1>1. ASSUME NEW u \in Task, u # t
        PROVE  Supplied(u)'
    <2>1. InProgress(u)' => InProgress(u)
      BY ProgressOfWorker
    <2> QED
      BY <1>1, <2>1, WorkerFrame DEF Recoverable, Supplied, Unfinished
  <1>2. Supplied(t)'
    <2>1. (InProgress(t)' => InProgress(t)) /\ copies' = copies
      BY ProgressOfWorker, WorkerFrame
    <2>2. worker'[t] = "finish" => mem'[t] = journal'[t]
      BY CleanSave
    <2>3. worker'[t] # "dead" => t \in units'
      <3>1. CASE Spawn(t) \/ Load(t) \/ LockUpdate(t) \/ LockCore(t) \/ Finish(t)
        BY <3>1 DEF Spawn, Load, LockUpdate, LockCore, Finish, Exit, Goto, disk, Recoverable,
                    Supplied, Typed, TypeOK
      <3>2. CASE Move(t)
        BY <3>2 DEF Move, Download, Verify, Attempt, Backup, ApplyChange, ChangesApplied,
                    Replace, Restart, RestartAgent, Confirm, WaitReady, RestoreBinary,
                    RestoreFile, FilesRestored, RestartPrevious, ConfirmPrevious, disk,
                    Recoverable, Supplied
      <3>3. CASE ~Move(t) /\ ~Spawn(t) /\ ~Load(t) /\ ~LockUpdate(t) /\ ~LockCore(t)
                 /\ ~Finish(t)
        BY <3>3
        DEF WorkerStep, Move, Resume, SaveVerifying, SaveBackingUp, SaveMigrating,
            SaveReplacing, SaveRestarting, SaveChecking, SaveSucceeded, Fail, SaveRolledBack,
            SaveRollbackFailed, Enter, Save, disk, Recoverable, Supplied
      <3> QED
        BY <3>1, <3>2, <3>3
    <2>4. Unfinished(t)' /\ journal'[t].mutating => t \in units'
      <3>1. CASE worker'[t] # "dead"
        BY <2>3, <3>1
      <3>2. CASE worker'[t] = "dead"
        <4>1. Load(t) \/ LockUpdate(t) \/ LockCore(t) \/ Finish(t)
          <5>1. ~Move(t) /\ ~Spawn(t)
            BY <3>2 DEF Move, Download, Verify, Attempt, Backup, ApplyChange, ChangesApplied,
                        Replace, Restart, RestartAgent, Confirm, WaitReady, RestoreBinary,
                        RestoreFile, FilesRestored, RestartPrevious, ConfirmPrevious, Spawn,
                        Goto, Typed, TypeOK
          <5>2. ~SaveMigrating(t) /\ ~Resume(t)
            BY <3>2 DEF SaveMigrating, Resume, Save, Goto, Typed, TypeOK
          <5>3. ASSUME NEW from, NEW status, NEW ok, NEW err,
                       ok # "dead", err # "dead", Enter(t, from, status, ok, err)
                PROVE  FALSE
            BY <3>2, <5>3, EnterFacts
          <5> QED
            BY <5>1, <5>2, <5>3
            DEF WorkerStep, Move, SaveVerifying, SaveBackingUp, SaveReplacing, SaveRestarting,
                SaveChecking, SaveSucceeded, Fail, SaveRolledBack, SaveRollbackFailed
        <4>2. journal' = journal
          BY <4>1 DEF Load, LockUpdate, LockCore, Finish, disk
        <4>3. units' = units \/ (units' = units \ {t} /\ journal[t].status \in Final)
          BY <4>1 DEF Load, LockUpdate, LockCore, Finish, Done, disk, Recoverable, Supplied
        <4> QED
          BY <4>2, <4>3 DEF Recoverable, Supplied, Unfinished
      <3> QED
        BY <3>1, <3>2
    <2> QED
      BY <2>1, <2>2, <2>3, <2>4 DEF Recoverable, Supplied
  <1> QED
    BY <1>1, <1>2 DEF Recoverable

LEMMA PrepareIsRecoverable ==
    ASSUME Typed, Exclusive, Recoverable, NEW t \in Task, Prepare(t)
    PROVE  Recoverable'
  BY DEF Prepare, agent, work, Recoverable, Supplied, InProgress, Unfinished, Typed, TypeOK

LEMMA PrepareStepIsRecoverable ==
    ASSUME Typed, Exclusive, faults = 0, faults' = 0, Recoverable, PrepareStep
    PROVE  Recoverable'
  <1>1. PICK p \in Task : p = prep.task
    BY DEF PrepareStep, SaveCurrent, SaveJob, StartWorker, SavePrepareFailed, Typed
  <1>2. /\ InProgress(p) /\ worker[p] = "dead"
        /\ UNCHANGED <<copies, mem>>
    BY <1>1 DEF PrepareStep, SaveCurrent, SaveJob, StartWorker, SavePrepareFailed, InProgress,
                Exclusive, PreparationIsAlone, disk, work
  <1>3. \A u \in Task : u # p =>
          /\ worker'[u] = worker[u] /\ journal'[u] = journal[u] /\ (u \in units' <=> u \in units)
    BY <1>1, <1>2 DEF PrepareStep, SaveCurrent, SaveJob, StartWorker, SavePrepareFailed, disk,
                      work, Typed, TypeOK
  <1>4. ASSUME NEW u \in Task, u # p
        PROVE  Supplied(u)'
    BY <1>2, <1>3, <1>4, ProgressOfPreparation DEF Recoverable, Supplied, Unfinished
  <1>5. Supplied(p)'
    <2>1. InProgress(p)' => p \in copies'
      BY <1>2 DEF Recoverable, Supplied
    <2>2. worker'[p] \in {"dead", "load"} /\ (worker'[p] = "load" => p \in units')
      BY <1>1, <1>2 DEF PrepareStep, SaveCurrent, SaveJob, StartWorker, SavePrepareFailed,
                        work, Typed, TypeOK
    <2>3. Unfinished(p)' /\ journal'[p].mutating => p \in units'
      <3>1. CASE SaveCurrent
        <4>1. Queued.mutating = FALSE
          BY DEF Queued, NoJob
        <4>2. journal' = journal \/ journal' = [journal EXCEPT ![p] = Queued]
          BY <1>1, <3>1 DEF SaveCurrent
        <4> QED
          BY <3>1, <4>1, <4>2 DEF SaveCurrent, Recoverable, Supplied, Unfinished, Typed, TypeOK
      <3>2. CASE SaveJob \/ StartWorker
        BY <1>1, <3>2 DEF SaveJob, StartWorker, disk, Recoverable, Supplied, Unfinished
      <3>3. CASE SavePrepareFailed
        <4>1. [Queued EXCEPT !.status = "failed"].status = "failed"
          BY DEF Queued, NoJob
        <4>2. journal' = [journal EXCEPT ![p] = [Queued EXCEPT !.status = "failed"]]
          BY <1>1, <3>3 DEF SavePrepareFailed, Fault
        <4>3. journal'[p].status = "failed"
          BY <4>1, <4>2 DEF Typed, TypeOK
        <4> QED
          BY <4>3 DEF Unfinished, Final
      <3> QED
        BY <3>1, <3>2, <3>3 DEF PrepareStep
    <2> QED
      BY <2>1, <2>2, <2>3 DEF Supplied
  <1> QED
    BY <1>4, <1>5 DEF Recoverable

\* Worker programs are only pruned when no task is in progress.
LEMMA OthersAreRecoverable ==
    ASSUME Typed, Exclusive, Recoverable,
           \/ Operation \/ Status \/ PruneCompleted
           \/ Startup \/ StartAgent \/ StopAgent \/ Death \/ UNCHANGED vars
    PROVE  Recoverable'
  <1>1. CASE PruneCompleted
    <2>1. /\ UNCHANGED <<current, units, worker, mem, prep>>
          /\ \A t \in Task : journal'[t] = journal[t] \/ (t # current /\ journal'[t] = NoJob)
          /\ ~Pending /\ holder = Nobody
      BY <1>1 DEF PruneCompleted, Prunable, work
    <2>2. \A t \in Task : ~InProgress(t)
      BY <2>1, UpgradeAssumption
      DEF InProgress, Unfinished, Pending, Exclusive, PreparationIsAlone
    <2>3. \A t \in Task : worker[t] # "finish" \/ journal'[t] = journal[t]
      BY <2>1 DEF Exclusive, WorkerIsCurrent
    <2>4. \A t \in Task : Unfinished(t)' => Unfinished(t) /\ journal'[t] = journal[t]
      BY <2>1 DEF Unfinished, NoJob
    <2>5. \A t \in Task : ~InProgress(t)'
      BY <2>1, <2>2, <2>4 DEF InProgress
    <2> QED
      BY <2>1, <2>3, <2>4, <2>5 DEF Recoverable, Supplied
  <1>2. CASE ~PruneCompleted
    <2>1. /\ UNCHANGED <<current, journal, copies, units>>
          /\ prep' = prep \/ prep'.pc = "idle"
          /\ \A t \in Task : worker'[t] = "dead" \/ (worker'[t] = worker[t] /\ mem'[t] = mem[t])
      <3>1. CASE Operation \/ Status
        BY <3>1 DEF Operation, CheckPending, StartOperation, EndOperation, Status, ReadStatus,
                    Answer, disk, work
      <3>2. CASE Startup
        BY <3>2 DEF Startup, FinishDeferred, BootLoad, BootRestore, BootPlan, BootApply,
                    BootDone, bootRest, still, disk, work, BootGoto, BootEnds, BootFails,
                    AgentDies
      <3>3. CASE StartAgent \/ StopAgent \/ Death \/ UNCHANGED vars
        BY <3>3 DEF StartAgent, StopAgent, Death, Crash, AgentDies, disk, work, vars
      <3> QED
        BY <1>2, <3>1, <3>2, <3>3
    <2>2. \A t \in Task : (InProgress(t)' => InProgress(t)) /\ (Unfinished(t)' = Unfinished(t))
      BY <2>1 DEF InProgress, Unfinished
    <2> QED
      BY <2>1, <2>2 DEF Recoverable, Supplied
  <1> QED
    BY <1>1, <1>2

-----------------------------------------------------------------------------
(* While every journal write succeeds.                                     *)

LEMMA CleanInit == Init => Clean
  <1> SUFFICES ASSUME Init PROVE Ordered /\ Recoverable
    BY TruthfulInit DEF Clean
  <1>1. Prefix(Change) /\ Prefix({})
    BY UpgradeAssumption DEF Change, Prefix
  <1>2. Prefix(migrated) /\ Prefix(bootstrap.snapshots)
    BY <1>1 DEF Init, Prefix
  <1>3. \A t \in Task : ~InProgress(t)
    BY UpgradeAssumption DEF Init, InProgress
  <1>4. Ordered
    BY <1>2, <1>3 DEF Init, Ordered, StartIsOrdered, TaskIsOrdered
  <1>5. Recoverable
    BY <1>3 DEF Init, Recoverable, Supplied, Unfinished, NoJob
  <1> QED
    BY <1>4, <1>5

LEMMA CleanStep ==
    ASSUME UncertainStart = FALSE, Typed, Exclusive, Exclusive', Clean, [Next]_vars
    PROVE  Clean'
  <1> SUFFICES ASSUME faults' = 0
               PROVE  Truthful' /\ Ordered' /\ Recoverable'
    BY DEF Clean
  <1>1. faults = 0 /\ Truthful /\ Ordered /\ Recoverable
    BY FaultsGrow DEF Clean
  <1>2. Truthful'
    BY <1>1, TruthfulStep
  <1>3. Ordered'
    BY <1>1, WorkerIsOrdered, PrepareIsOrdered, AgentIsOrdered, LossIsOrdered, StartupIsOrdered
    DEF Next
  <1>4. Recoverable'
    BY <1>1, WorkerIsRecoverable, PrepareIsRecoverable, PrepareStepIsRecoverable,
       OthersAreRecoverable DEF Next
  <1> QED
    BY <1>2, <1>3, <1>4

LEMMA AlwaysClean ==
    ASSUME UncertainStart = FALSE
    PROVE  Spec => []Clean
  <1>1. Typed /\ Exclusive /\ [Next]_vars => Exclusive'
    BY ExclusiveStep
  <1>2. Typed /\ Exclusive /\ Exclusive' /\ Clean /\ [Next]_vars => Clean'
    BY CleanStep
  <1> QED
    BY AlwaysTyped, ExclusiveInit, CleanInit, <1>1, <1>2, PTL DEF Spec

\* While no write has failed (the property's own condition), the gate of the old
\* startup recovery is there as long as a reference to it is, at every step of a
\* worker, of a starting Agent and of their deaths.
THEOREM NoneDangling ==
    ASSUME UncertainStart = FALSE
    PROVE  Spec => []NoDanglingReference
  <1>1. Clean => NoDanglingReference
    BY DEF Clean, Ordered, StartIsOrdered, Prefix, NoDanglingReference
  <1> QED
    BY AlwaysClean, <1>1, PTL

\* While no write has failed, a task with changes to undo keeps its service and
\* the program of it.
THEOREM RecoveryKept ==
    ASSUME UncertainStart = FALSE
    PROVE  Spec => []RecoveryIsKept
  <1>1. Typed /\ Exclusive /\ Clean => RecoveryIsKept
    BY DEF RecoveryIsKept, Exclusive, UnfinishedIsCurrent, NoJob, Unfinished, Clean, Recoverable, Supplied,
       InProgress
  <1>2. Typed /\ Exclusive /\ [Next]_vars => Exclusive'
    BY ExclusiveStep
  <1> QED
    BY AlwaysTyped, AlwaysClean, ExclusiveInit, <1>1, <1>2, PTL DEF Spec

=============================================================================
