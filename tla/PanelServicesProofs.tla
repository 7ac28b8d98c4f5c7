------------------------- MODULE PanelServicesProofs --------------------------
(* Proofs about five services of the panel that module MCAgents runs beside     *)
(* others: the coordination of Agent updates (PanelUpgrade), the digests of the *)
(* update files (ArtifactCache), the shared fetches of subscriptions            *)
(* (SubscriptionFetch), the files clients download of them (ProviderDelivery)   *)
(* and the library of rule lists (RuleLibrary).  Every constant of theirs is    *)
(* left open.                                                                  *)
(*                                                                             *)
(* Each service has an inductive invariant of its own; the theorems at the end  *)
(* state the properties of the run for any behaviour of MCAgents.               *)
EXTENDS MCAgents, TLAPS

-------------------------------------------------------------------------------
(* Updates of an Agent: what a thread of the panel still believes.              *)

Tasks == {NoTask} \cup [id : 1..MaxTasks, status : Stages \cup {"unknown"}, protocol : {1, 2}, stamp : Nat,
                        previous : 0..MaxTasks, reported : BOOLEAN]
Jobs == {NoWork} \cup [id : 1..MaxTasks, status : Stages, stamp : Nat, legacy : BOOLEAN]
Beats == [version : 0..MaxTasks, afterDeadline : BOOLEAN, afterReport : BOOLEAN]
Infos == [answered : BOOLEAN, version : 0..MaxTasks, ready : BOOLEAN]
Threads(pcs) == [pc : pcs, id : 0..MaxTasks, view : Tasks, shown : Beats, job : Jobs, info : Infos]
Submitting == {"post", "lost", "refused", "accepted"}
StarterPcs == {"idle", "reserve"} \cup Submitting
AskerPcs == {"idle", "job", "info", "save", "decide"}

Typed ==
  /\ task \in Tasks /\ shown \in Beats /\ job \in Jobs
  /\ deploying \in BOOLEAN /\ late \in BOOLEAN
  /\ starter \in Threads(StarterPcs)
  /\ asker \in Threads(AskerPcs)
  /\ device \in [version : 0..MaxTasks, ready : BOOLEAN, before : 0..MaxTasks]

(* The request that starts an update works on the newest task, and until the    *)
(* Agent has created the journal nobody can have said anything of it.           *)
StarterIsCurrent ==
  /\ starter.pc # "idle" => starter.id = task.id /\ starter.shown.version <= task.id
  /\ starter.pc = "reserve" => task.id < MaxTasks
  /\ starter.pc \in Submitting => task.id # 0 /\ ~late
  /\ starter.pc = "post" => job.id # task.id /\ task.status = "queued"
  /\ starter.pc = "refused" => job.id # task.id

(* The journal is of the newest task or of one that is over, and says which     *)
(* program runs.                                                               *)
WorkerIsKnown ==
  /\ job.id <= task.id /\ device.version <= job.id
  /\ job.id # task.id => job.status \in {"none"} \cup Final
  /\ job.status \in {"queued", "working", "failed", "rolled_back"} => device.version < job.id
  /\ job.status \in {"checking", "rolling_back", "rollback_failed", "succeeded"} =>
       device.version = job.id /\ device.before < job.id
  /\ job.status = "succeeded" => device.ready
  /\ job.status \in {"rolling_back", "rollback_failed"} => ~device.ready
  /\ job.status = "checking" /\ job.legacy => ~device.ready
  /\ job.id = task.id /\ task.id # 0 => (job.legacy <=> task.protocol = 1)

WentBack == job.id = task.id /\ job.status = "rolled_back"
NothingGoesOn == job.id = task.id => job.status \in {"failed", "rolled_back"}

(* What a heartbeat after the report, or after the deadline, shows.             *)
BeatIsEvidence(beat) ==
  /\ beat.afterDeadline => late
  /\ beat.afterReport => task.reported
  /\ beat.afterReport /\ beat.version # task.id => WentBack
  /\ beat.afterDeadline /\ beat.version # task.id => NothingGoesOn

TimeIsKnown ==
  /\ late => starter.pc \notin Submitting /\ (job.id = task.id => job.status \in Ended)
  /\ task.reported => job.id = task.id /\ job.status \in {"rolling_back", "rollback_failed", "rolled_back"}
  /\ shown.version <= job.id /\ BeatIsEvidence(shown)
  /\ task.id # 0 => task.previous < task.id

(* The copies a poll works on are old, but true of its task as far as they go.  *)
PollIsTrue ==
  asker.pc # "idle" =>
    /\ asker.id # 0 /\ asker.id <= task.id /\ asker.view.id = asker.id
    /\ asker.job.id \in {0, asker.id} /\ (asker.pc = "save" => asker.job.id = asker.id)
    /\ asker.id = task.id =>
         /\ asker.view.protocol = task.protocol /\ asker.view.previous = task.previous
         /\ asker.view.reported => task.reported
         /\ BeatIsEvidence(asker.shown)
         /\ asker.job.id = asker.id =>
              job.id = task.id /\ (asker.job.status \in Final => job.status = asker.job.status)
         /\ asker.info.version = task.id /\ asker.info.ready /\ task.protocol = 1 =>
              job.id = task.id /\ job.status = "succeeded"

OutcomeIsKnown ==
  /\ task.status = "succeeded" => job.id = task.id /\ job.status = "succeeded"
  /\ task.status \in {"failed", "rolled_back"} => NothingGoesOn

UpgradeInv == Typed /\ StarterIsCurrent /\ WorkerIsKnown /\ TimeIsKnown /\ PollIsTrue /\ OutcomeIsKnown

(* A patch changes nothing but the status and its stamp, and nothing of a task  *)
(* that has ended or was replaced.                                              *)
LEMMA SaveFacts ==
  ASSUME Typed, NEW id \in 1..MaxTasks, NEW status \in Stages \cup {"unknown"}, NEW stamp \in Nat, NEW onlyQueued \in BOOLEAN,
         Save(id, status, stamp, onlyQueued)
  PROVE  /\ task' \in Tasks /\ task'.id = task.id /\ task'.protocol = task.protocol
         /\ task'.previous = task.previous /\ task'.reported = task.reported
         /\ \/ task'.status = task.status
            \/ /\ task'.status = status /\ task.id = id /\ task.status \notin Final
               /\ onlyQueued => task.status = "queued"
<1>1. CASE Stale(task, id, stamp, onlyQueued)
  BY <1>1 DEF Save, Typed
<1>2. CASE ~Stale(task, id, stamp, onlyQueued)
  <2>1. task \in [id : 1..MaxTasks, status : Stages \cup {"unknown"}, protocol : {1, 2}, stamp : Nat,
                  previous : 0..MaxTasks, reported : BOOLEAN]
    BY <1>2, UpgradeAssumption DEF Typed, Tasks, NoTask, Stale
  <2>2. task' = [task EXCEPT !.status = status, !.stamp = IF stamp > 0 THEN stamp ELSE task.stamp]
    BY <1>2 DEF Save
  <2>3. /\ task' \in Tasks /\ task'.id = task.id /\ task'.protocol = task.protocol
        /\ task'.previous = task.previous /\ task'.reported = task.reported /\ task'.status = status
    BY <2>1, <2>2 DEF Tasks
  <2> QED BY <1>2, <2>3 DEF Stale
<1> QED BY <1>1, <1>2

LEMMA RestingIsThread ==
  Resting \in Threads(StarterPcs) /\ Resting \in Threads(AskerPcs) /\ Resting.pc = "idle"
BY UpgradeAssumption DEF Resting, Threads, Tasks, Beats, Jobs, Infos, NoInfo, StarterPcs, AskerPcs

LEMMA ThreadFields ==
  ASSUME NEW pcs, NEW t \in Threads(pcs)
  PROVE  /\ t.pc \in pcs /\ t.id \in 0..MaxTasks /\ t.view \in Tasks /\ t.shown \in Beats /\ t.job \in Jobs /\ t.info \in Infos
BY DEF Threads

LEMMA AdvanceFacts ==
  ASSUME Typed, NEW s \in Stages, Advance(s), job.status # "none"
  PROVE  job' \in Jobs /\ job'.id = job.id /\ job'.status = s /\ job'.legacy = job.legacy /\ job.id \in 1..MaxTasks
<1>1. job \in [id : 1..MaxTasks, status : Stages, stamp : Nat, legacy : BOOLEAN]
  BY DEF Typed, Jobs, NoWork
<1>2. job' = [job EXCEPT !.status = s, !.stamp = job.stamp + 1]
  BY DEF Advance
<1>3. /\ job' \in [id : 1..MaxTasks, status : Stages, stamp : Nat, legacy : BOOLEAN]
      /\ job'.id = job.id /\ job'.status = s /\ job'.legacy = job.legacy /\ job.id \in 1..MaxTasks
  <2>1. job.stamp + 1 \in Nat BY <1>1
  <2> QED BY <1>1, <1>2, <2>1
<1> QED BY <1>3 DEF Jobs

(* Most steps of the panel change one thread only.                              *)
LEMMA ReadKeeps ==
  ASSUME UpgradeInv, UNCHANGED <<task, shown, late, device, job>>, deploying' \in BOOLEAN,
         \/ UNCHANGED starter \/ starter' = Resting,
         \/ UNCHANGED asker \/ asker' = Resting
  PROVE  UpgradeInv'
<1> USE DEF UpgradeInv
<1>1. Typed' BY RestingIsThread DEF Typed
<1>2. starter' = starter \/ starter'.pc = "idle" BY RestingIsThread
<1>3. asker' = asker \/ asker'.pc = "idle" BY RestingIsThread
<1>4. StarterIsCurrent' BY <1>2 DEF StarterIsCurrent, Submitting
<1>5. WorkerIsKnown' /\ OutcomeIsKnown' BY DEF WorkerIsKnown, OutcomeIsKnown, NothingGoesOn
<1>6. TimeIsKnown' BY <1>2 DEF TimeIsKnown, BeatIsEvidence, WentBack, NothingGoesOn, Submitting
<1>7. PollIsTrue' BY <1>3 DEF PollIsTrue, BeatIsEvidence, WentBack, NothingGoesOn
<1> QED BY <1>1, <1>4, <1>5, <1>6, <1>7

(* A patch keeps the invariant when what it says of a task that has not ended   *)
(* is so.                                                                       *)
LEMMA SaveKeeps ==
  ASSUME UpgradeInv, UNCHANGED <<deploying, shown, late, device, job>>,
         \/ UNCHANGED starter /\ asker' = Resting
         \/ UNCHANGED asker /\ starter' = Resting,
         NEW id \in 1..MaxTasks, NEW status \in Stages \cup {"unknown"}, NEW stamp \in Nat, NEW onlyQueued \in BOOLEAN,
         Save(id, status, stamp, onlyQueued),
         task.id = id /\ status = "succeeded" => job.id = task.id /\ job.status = "succeeded",
         task.id = id /\ status \in {"failed", "rolled_back"} => NothingGoesOn,
         task.id = id /\ starter'.pc = "post" => status = "queued"
  PROVE  UpgradeInv'
<1> USE DEF UpgradeInv
<1>1. /\ task' \in Tasks /\ task'.id = task.id /\ task'.protocol = task.protocol
      /\ task'.previous = task.previous /\ task'.reported = task.reported
      /\ task'.status = task.status \/ (task'.status = status /\ task.id = id)
  BY SaveFacts
<1>2. Typed' BY <1>1, RestingIsThread DEF Typed
<1>3. starter' = starter \/ starter'.pc = "idle" BY RestingIsThread
<1>4. asker' = asker \/ asker'.pc = "idle" BY RestingIsThread
<1>5. StarterIsCurrent' BY <1>1, <1>3 DEF StarterIsCurrent, Submitting
<1>6. WorkerIsKnown' BY <1>1 DEF WorkerIsKnown
<1>7. OutcomeIsKnown' BY <1>1 DEF OutcomeIsKnown, NothingGoesOn
<1>8. TimeIsKnown' BY <1>1, <1>3 DEF TimeIsKnown, BeatIsEvidence, WentBack, NothingGoesOn, Submitting
<1>9. PollIsTrue' BY <1>1, <1>4 DEF PollIsTrue, BeatIsEvidence, WentBack, NothingGoesOn
<1> QED BY <1>2, <1>5, <1>6, <1>7, <1>8, <1>9

LEMMA StartReadKeeps == ASSUME UpgradeInv, StartRead PROVE UpgradeInv'
<1> USE DEF UpgradeInv
<1>1. starter' = [Resting EXCEPT !.pc = "reserve", !.id = task.id, !.shown = shown] /\ task.id < MaxTasks
  BY DEF StartRead
<1>2. task.id \in 0..MaxTasks /\ shown \in Beats
  BY UpgradeAssumption DEF Typed, Tasks, NoTask
<1>3. /\ starter' \in Threads(StarterPcs)
      /\ starter'.pc = "reserve" /\ starter'.id = task.id /\ starter'.shown = shown
  BY <1>1, <1>2, RestingIsThread DEF Threads, StarterPcs
<1>4. UNCHANGED <<task, deploying, shown, late, asker, device, job>> BY DEF StartRead
<1>5. Typed' BY <1>3, <1>4 DEF Typed
<1>6. StarterIsCurrent'
  BY <1>1, <1>2, <1>3, <1>4, UpgradeAssumption DEF StarterIsCurrent, Submitting, TimeIsKnown, WorkerIsKnown, Beats, Typed, Jobs, NoWork
<1>7. WorkerIsKnown' /\ OutcomeIsKnown' BY <1>4 DEF WorkerIsKnown, OutcomeIsKnown, NothingGoesOn
<1>8. TimeIsKnown' BY <1>3, <1>4 DEF TimeIsKnown, BeatIsEvidence, WentBack, NothingGoesOn, Submitting
<1>9. PollIsTrue' BY <1>4 DEF PollIsTrue, BeatIsEvidence, WentBack, NothingGoesOn
<1> QED BY <1>5, <1>6, <1>7, <1>8, <1>9

(* The task before has ended, so its worker has; nothing of the new one exists. *)
LEMMA ReserveKeeps == ASSUME UpgradeInv, Reserve PROVE UpgradeInv'
<1> USE DEF UpgradeInv
<1>1. CASE starter.id # task.id \/ Busy(task) \/ deploying
  BY <1>1, ReadKeeps DEF Reserve, Typed
<1>2. CASE ~(starter.id # task.id \/ Busy(task) \/ deploying)
  <2>1. PICK protocol \in {1, 2} :
          task' = [NoTask EXCEPT !.id = task.id + 1, !.status = "queued", !.protocol = protocol,
                                 !.previous = starter.shown.version]
    BY <1>2 DEF Reserve
  <2>2. /\ starter.pc = "reserve" /\ late' = FALSE /\ shown' = [shown EXCEPT !.afterDeadline = FALSE, !.afterReport = FALSE]
        /\ starter' = [starter EXCEPT !.pc = "post", !.id = task.id + 1]
        /\ UNCHANGED <<deploying, asker, device, job>>
    BY <1>2 DEF Reserve
  <2>3. task.id \in 0..MaxTasks /\ shown \in Beats /\ starter \in Threads(StarterPcs)
    BY UpgradeAssumption DEF Typed, Tasks, NoTask
  <2>4. starter.shown \in Beats /\ starter.shown.version \in 0..MaxTasks /\ starter.shown.version <= task.id
    BY <2>2, <2>3, ThreadFields DEF StarterIsCurrent, Beats
  <2>5. task.id + 1 \in 1..MaxTasks
    BY <2>2, <2>3, UpgradeAssumption DEF StarterIsCurrent
  <2>6. /\ task'.id = task.id + 1 /\ task'.status = "queued" /\ task'.protocol = protocol
        /\ task'.previous = starter.shown.version /\ ~task'.reported
    BY <2>1 DEF NoTask
  <2>7. task' \in Tasks
    BY <2>1, <2>4, <2>5 DEF Tasks, NoTask, Stages
  <2>8. shown' \in Beats /\ shown'.version = shown.version /\ ~shown'.afterDeadline /\ ~shown'.afterReport
    BY <2>2, <2>3 DEF Beats
  <2>9. /\ starter' \in Threads(StarterPcs)
        /\ starter'.pc = "post" /\ starter'.id = task.id + 1 /\ starter'.shown = starter.shown
    <3>1. "post" \in StarterPcs /\ task.id + 1 \in 0..MaxTasks BY <2>5 DEF Submitting, StarterPcs
    <3> HIDE DEF UpgradeInv
    <3> QED BY <2>2, <2>3, <3>1 DEF Threads
  <2>10. Typed' BY <2>2, <2>7, <2>8, <2>9 DEF Typed
  <2>11. job.id <= task.id /\ job.id \in 0..MaxTasks
    BY UpgradeAssumption DEF WorkerIsKnown, Typed, Jobs, NoWork
  <2>12. job.status \in {"none"} \cup Final
    BY <1>2, UpgradeAssumption
       DEF WorkerIsKnown, OutcomeIsKnown, NothingGoesOn, Busy, Final, Ended, Typed, Jobs, NoWork, Tasks, NoTask, Stages
  <2>13. StarterIsCurrent'
    BY <2>2, <2>3, <2>4, <2>5, <2>6, <2>9, <2>11 DEF StarterIsCurrent, Submitting
  <2>14. WorkerIsKnown'
    BY <2>2, <2>3, <2>6, <2>11, <2>12 DEF WorkerIsKnown
  <2>15. TimeIsKnown'
    BY <2>2, <2>3, <2>4, <2>6, <2>8, <2>11 DEF TimeIsKnown, BeatIsEvidence
  <2>16. PollIsTrue'
    BY <2>2, <2>3, <2>6, ThreadFields DEF PollIsTrue, Typed
  <2>17. OutcomeIsKnown' BY <2>6 DEF OutcomeIsKnown
  <2> QED BY <2>10, <2>13, <2>14, <2>15, <2>16, <2>17
<1> QED BY <1>1, <1>2

(* Nothing goes on while the request has not arrived, and it arrives once.      *)
LEMMA PostKeeps == ASSUME UpgradeInv, Post PROVE UpgradeInv'
<1> USE DEF UpgradeInv
<1>1. PICK pc \in {"lost", "refused", "accepted"} : starter' = [starter EXCEPT !.pc = pc]
  BY DEF Post
<1>2. starter.pc = "post" /\ UNCHANGED <<task, deploying, shown, late, asker, device>> BY DEF Post
<1>3. /\ starter' \in Threads(StarterPcs)
      /\ starter'.pc = pc /\ starter'.id = starter.id /\ starter'.shown = starter.shown
      /\ starter.id = task.id /\ task.id \in 1..MaxTasks /\ job.id # task.id /\ ~late
  <2>1. starter \in Threads(StarterPcs) /\ pc \in StarterPcs
    BY DEF Typed, Submitting, StarterPcs
  <2>2. starter.id = task.id /\ task.id \in 1..MaxTasks /\ job.id # task.id /\ ~late
    BY <1>2, UpgradeAssumption DEF Typed, Submitting, StarterIsCurrent, Tasks, NoTask
  <2>3. starter.id \in 0..MaxTasks BY <2>2
  <2> HIDE DEF UpgradeInv
  <2> QED BY <1>1, <2>1, <2>2, <2>3 DEF Threads
<1>4. CASE UNCHANGED job /\ pc \in {"lost", "refused"}
  <2>1. Typed' /\ StarterIsCurrent'
    BY <1>2, <1>3, <1>4 DEF Typed, StarterIsCurrent, Submitting
  <2>2. WorkerIsKnown' /\ OutcomeIsKnown' /\ PollIsTrue'
    BY <1>2, <1>4 DEF WorkerIsKnown, OutcomeIsKnown, PollIsTrue, NothingGoesOn, BeatIsEvidence, WentBack
  <2>3. TimeIsKnown'
    BY <1>2, <1>3, <1>4 DEF TimeIsKnown, NothingGoesOn, BeatIsEvidence, WentBack, Submitting
  <2> QED BY <2>1, <2>2, <2>3
<1>5. CASE /\ job' = [id |-> starter.id, status |-> "queued", stamp |-> 1,
                      legacy |-> task.id = starter.id /\ task.protocol = 1]
           /\ pc \in {"accepted", "lost"}
  <2>1. job' \in Jobs /\ job'.id = task.id /\ job'.status = "queued" /\ (job'.legacy <=> task.protocol = 1)
    BY <1>3, <1>5 DEF Jobs, Stages
  <2>2. Typed' BY <1>2, <1>3, <2>1 DEF Typed
  <2>3. StarterIsCurrent' BY <1>2, <1>3, <1>5 DEF StarterIsCurrent, Submitting
  <2>4. job.id \in Nat /\ device.version \in Nat /\ job.id < task.id /\ device.version < task.id /\ shown.version < task.id
        /\ shown.version \in Nat
    BY <1>3, UpgradeAssumption DEF WorkerIsKnown, TimeIsKnown, Typed, Jobs, NoWork, Beats
  <2>5. WorkerIsKnown' BY <1>2, <1>3, <2>1, <2>4 DEF WorkerIsKnown
  <2>6. task.status = "queued" /\ ~task.reported
    BY <1>2, <1>3 DEF StarterIsCurrent, TimeIsKnown
  <2>7. OutcomeIsKnown' BY <1>2, <2>6 DEF OutcomeIsKnown
  <2>8. TimeIsKnown'
    BY <1>2, <1>3, <2>1, <2>4, <2>6 DEF TimeIsKnown, BeatIsEvidence
  <2>9. PollIsTrue'
    BY <1>2, <1>3, <2>1, <2>4, <2>6 DEF PollIsTrue, BeatIsEvidence
  <2> QED BY <2>2, <2>3, <2>5, <2>7, <2>8, <2>9
<1>6. (UNCHANGED job /\ pc \in {"lost", "refused"}) \/
      (/\ job' = [id |-> starter.id, status |-> "queued", stamp |-> 1,
                    legacy |-> task.id = starter.id /\ task.protocol = 1]
       /\ pc \in {"accepted", "lost"})
  <2>1. starter \in Threads(StarterPcs) BY DEF Typed
  <2>2. \A s : [starter EXCEPT !.pc = s].pc = s BY <2>1 DEF Threads
  <2> QED BY <1>1, <2>2 DEF Post
<1> QED BY <1>4, <1>5, <1>6

(* Only a refusal fails a task, and a refused request left nothing behind.      *)
LEMMA StartAnsweredKeeps == ASSUME UpgradeInv, StartAnswered PROVE UpgradeInv'
<1> USE DEF UpgradeInv
<1>1. /\ starter.pc \in {"lost", "refused", "accepted"} /\ starter' = Resting
      /\ UNCHANGED <<deploying, shown, late, asker, device, job>>
  BY DEF StartAnswered
<1>2. starter.id = task.id /\ starter.id \in 1..MaxTasks
  BY <1>1, UpgradeAssumption DEF StarterIsCurrent, Submitting, Typed, Tasks, NoTask
<1>3. starter'.pc = "idle" BY <1>1, RestingIsThread
<1>4. CASE starter.pc = "refused"
  <2>1. Save(starter.id, "failed", 0, FALSE) BY <1>4 DEF StartAnswered
  <2>2. NothingGoesOn BY <1>4 DEF StarterIsCurrent, NothingGoesOn
  <2>3. "failed" \in Stages \cup {"unknown"} BY DEF Stages, Ended
  <2> QED BY <1>1, <1>2, <1>3, <2>1, <2>2, <2>3, SaveKeeps
<1>5. CASE starter.pc = "lost"
  <2>1. Save(starter.id, "checking", 0, TRUE) BY <1>5 DEF StartAnswered
  <2>2. "checking" \in Stages \cup {"unknown"} BY DEF Stages
  <2> QED BY <1>1, <1>2, <1>3, <2>1, <2>2, SaveKeeps
<1>6. CASE starter.pc = "accepted"
  <2>1. Save(starter.id, "queued", 0, TRUE) BY <1>6 DEF StartAnswered
  <2>2. "queued" \in Stages \cup {"unknown"} BY DEF Stages
  <2> QED BY <1>1, <1>2, <1>3, <2>1, <2>2, SaveKeeps
<1> QED BY <1>1, <1>4, <1>5, <1>6

(* ---- polls ---- *)
LEMMA PollReadKeeps == ASSUME UpgradeInv, PollRead PROVE UpgradeInv'
<1> USE DEF UpgradeInv
<1>1. /\ task.id # 0 /\ UNCHANGED <<task, deploying, shown, late, starter, device, job>>
      /\ asker' = [Resting EXCEPT !.pc = IF task.protocol = 2 THEN "job" ELSE "info",
                                  !.id = task.id, !.view = task, !.shown = shown]
  BY DEF PollRead, Busy
<1>2. task.id \in 0..MaxTasks /\ task \in Tasks /\ shown \in Beats
  BY UpgradeAssumption DEF Typed, Tasks, NoTask
<1>3. /\ asker' \in Threads(AskerPcs)
      /\ asker'.pc \in {"job", "info"} /\ asker'.id = task.id /\ asker'.view = task /\ asker'.shown = shown
      /\ asker'.job = NoWork /\ asker'.info = NoInfo
  <2>1. Resting \in Threads(AskerPcs) /\ Resting.job = NoWork /\ Resting.info = NoInfo
    BY RestingIsThread DEF Resting
  <2> HIDE DEF UpgradeInv
  <2> QED BY <1>1, <1>2, <2>1 DEF Threads, AskerPcs
<1>4. Typed' BY <1>1, <1>3 DEF Typed
<1>5. StarterIsCurrent' /\ WorkerIsKnown' /\ OutcomeIsKnown' /\ TimeIsKnown'
  BY <1>1 DEF StarterIsCurrent, WorkerIsKnown, OutcomeIsKnown, TimeIsKnown, NothingGoesOn, BeatIsEvidence, WentBack
<1>6. PollIsTrue'
  BY <1>1, <1>2, <1>3 DEF PollIsTrue, TimeIsKnown, BeatIsEvidence, WentBack, NothingGoesOn, NoWork, NoInfo
<1> QED BY <1>4, <1>5, <1>6

LEMMA PollStepKeeps ==
  ASSUME UpgradeInv, UNCHANGED <<task, deploying, shown, late, starter, device, job>>, asker.pc # "idle",
         asker' \in Threads(AskerPcs),
         UNCHANGED <<asker.id, asker.view, asker.shown>>,
         asker'.job.id \in {0, asker.id} /\ (asker'.pc = "save" => asker'.job.id = asker.id),
         asker'.job.id = asker.id => asker'.job = job \/ asker'.job = asker.job,
         asker'.info = asker.info \/ ~asker'.info.ready
           \/ (asker'.info.version = device.version /\ asker'.info.ready = device.ready)
  PROVE  UpgradeInv'
<1> USE DEF UpgradeInv
<1>1. Typed' BY DEF Typed
<1>2. StarterIsCurrent' /\ WorkerIsKnown' /\ OutcomeIsKnown' /\ TimeIsKnown'
  BY DEF StarterIsCurrent, WorkerIsKnown, OutcomeIsKnown, TimeIsKnown, NothingGoesOn, BeatIsEvidence, WentBack
<1>3. job.id \in Nat /\ task.id \in Nat /\ device.version \in Nat /\ asker.id \in Nat
  BY UpgradeAssumption DEF Typed, Jobs, NoWork, Tasks, NoTask, Threads
<1>4. ASSUME asker.id = task.id, asker'.info.version = task.id, asker'.info.ready, task.protocol = 1
      PROVE  job.id = task.id /\ job.status = "succeeded"
  <2>1. CASE asker'.info = asker.info BY <1>4, <2>1 DEF PollIsTrue
  <2>2. CASE asker'.info.version = device.version /\ asker'.info.ready = device.ready
    <3>1. job.id = task.id /\ task.id # 0 /\ job.legacy /\ device.version = job.id /\ device.ready
      BY <1>3, <1>4, <2>2 DEF WorkerIsKnown, PollIsTrue
    <3>2. job.status \in Stages BY <1>3, <3>1 DEF Typed, Jobs, NoWork
    <3> QED BY <1>3, <3>1, <3>2 DEF WorkerIsKnown, Stages, Ended
  <2> QED BY <1>4, <2>1, <2>2
<1>5. PollIsTrue'
  BY <1>3, <1>4 DEF PollIsTrue, BeatIsEvidence, WentBack, NothingGoesOn
<1> QED BY <1>1, <1>2, <1>5

LEMMA PollJobKeeps == ASSUME UpgradeInv, PollJob PROVE UpgradeInv'
<1> USE DEF UpgradeInv
<1>1. PICK heard \in {job, NoWork} :
        asker' = [asker EXCEPT !.job = IF heard.id = asker.id THEN heard ELSE NoWork,
                               !.pc = IF heard.id # asker.id \/ heard.status = "succeeded" THEN "info" ELSE "save"]
  BY DEF PollJob
<1>2. asker.pc = "job" /\ UNCHANGED <<task, deploying, shown, late, starter, device, job>> BY DEF PollJob
<1> DEFINE got == IF heard.id = asker.id THEN heard ELSE NoWork
           pc == IF heard.id # asker.id \/ heard.status = "succeeded" THEN "info" ELSE "save"
<1>3. got \in Jobs /\ pc \in {"info", "save"} /\ asker \in Threads(AskerPcs)
  BY DEF Typed, Jobs
<1>4. asker' = [asker EXCEPT !.job = got, !.pc = pc] BY <1>1
<1>5. /\ asker.id # 0 /\ got.id \in {0, asker.id} /\ (pc = "save" => got.id = asker.id)
      /\ got.id = asker.id => got = job
  BY <1>2 DEF NoWork, PollIsTrue
<1> HIDE DEF got, pc
<1>6. /\ asker' \in Threads(AskerPcs)
      /\ UNCHANGED <<asker.id, asker.view, asker.shown, asker.info>> /\ asker'.job = got /\ asker'.pc = pc
  BY <1>3, <1>4 DEF Threads, AskerPcs
<1> QED BY <1>2, <1>5, <1>6, PollStepKeeps

LEMMA PollInfoKeeps == ASSUME UpgradeInv, PollInfo PROVE UpgradeInv'
<1> USE DEF UpgradeInv
<1>1. PICK answered \in BOOLEAN :
        asker' = [asker EXCEPT !.pc = "decide",
                   !.info = IF answered THEN [answered |-> TRUE, version |-> device.version, ready |-> device.ready]
                            ELSE NoInfo]
  BY DEF PollInfo
<1>2. asker.pc = "info" /\ UNCHANGED <<task, deploying, shown, late, starter, device, job>> BY DEF PollInfo
<1> DEFINE got == IF answered THEN [answered |-> TRUE, version |-> device.version, ready |-> device.ready] ELSE NoInfo
<1>3. got \in Infos /\ asker \in Threads(AskerPcs)
  BY UpgradeAssumption DEF Typed, Infos, NoInfo
<1>4. asker' = [asker EXCEPT !.pc = "decide", !.info = got] BY <1>1
<1>5. ~got.ready \/ (got.version = device.version /\ got.ready = device.ready)
  BY DEF NoInfo
<1> HIDE DEF got
<1>6. /\ asker' \in Threads(AskerPcs)
      /\ UNCHANGED <<asker.id, asker.view, asker.shown, asker.job>> /\ asker'.info = got /\ asker'.pc = "decide"
  BY <1>3, <1>4 DEF Threads, AskerPcs
<1>7. asker.job.id \in {0, asker.id} BY <1>2 DEF PollIsTrue
<1> QED BY <1>2, <1>5, <1>6, <1>7, PollStepKeeps

(* The worker's own word of an outcome is final.                                *)
LEMMA PollSaveKeeps == ASSUME UpgradeInv, PollSave PROVE UpgradeInv'
<1> USE DEF UpgradeInv
<1>1. /\ asker.pc = "save" /\ Save(asker.id, asker.job.status, asker.job.stamp, FALSE) /\ asker' = Resting
      /\ UNCHANGED <<deploying, shown, late, starter, device, job>>
  BY DEF PollSave
<1>2. asker.job.id = asker.id /\ asker.id # 0 BY <1>1 DEF PollIsTrue
<1>3. asker.id \in 1..MaxTasks /\ asker.job.status \in Stages /\ asker.job.stamp \in Nat
  BY <1>2, ThreadFields, UpgradeAssumption DEF Typed, Jobs, NoWork
<1>4. task.id = asker.id => job.id = task.id /\ (asker.job.status \in Final => job.status = asker.job.status)
  BY <1>1, <1>2 DEF PollIsTrue
<1>5. starter.pc = "post" => job.id # task.id BY DEF StarterIsCurrent
<1>6. task.id = asker.id /\ asker.job.status = "succeeded" => job.id = task.id /\ job.status = "succeeded"
  BY <1>4 DEF Final, Ended
<1>7. task.id = asker.id /\ asker.job.status \in {"failed", "rolled_back"} => NothingGoesOn
  BY <1>4 DEF Final, Ended, NothingGoesOn
<1> QED BY <1>1, <1>3, <1>4, <1>5, <1>6, <1>7, SaveKeeps

LEMMA PollConfirmedKeeps == ASSUME UpgradeInv, PollConfirmed PROVE UpgradeInv'
<1> USE DEF UpgradeInv
<1>1. /\ asker.pc \in {"job", "info"} /\ ConfirmedRollback(asker) /\ Save(asker.id, "rolled_back", 0, FALSE)
      /\ asker' = Resting /\ UNCHANGED <<deploying, shown, late, starter, device, job>>
  BY DEF PollConfirmed
<1>2. asker.id \in 1..MaxTasks
  BY <1>1, ThreadFields, UpgradeAssumption DEF Typed, PollIsTrue
<1>3. task.id = asker.id => WentBack
  <2> SUFFICES ASSUME task.id = asker.id PROVE WentBack OBVIOUS
  <2>1. asker.shown.version = task.previous /\ task.previous < task.id /\ task.id \in Nat /\ task.previous \in Nat
    BY <1>1, <1>2, UpgradeAssumption DEF ConfirmedRollback, PollIsTrue, TimeIsKnown, Typed, Tasks, NoTask
  <2> QED BY <1>1, <2>1 DEF ConfirmedRollback, PollIsTrue, BeatIsEvidence
<1>4. "rolled_back" \in Stages \cup {"unknown"} BY DEF Stages, Ended
<1>5. task.id = asker.id => NothingGoesOn /\ starter.pc # "post"
  BY <1>3 DEF WentBack, NothingGoesOn, StarterIsCurrent
<1> QED BY <1>1, <1>2, <1>4, <1>5, SaveKeeps

(* Success needs the worker's word or the migrated program, and only a heartbeat *)
(* after the deadline releases a task that cannot be asked about.                *)
LEMMA DecideKeeps == ASSUME UpgradeInv, Decide PROVE UpgradeInv'
<1> USE DEF UpgradeInv
<1>1. asker.pc = "decide" /\ asker' = Resting /\ UNCHANGED <<deploying, shown, late, starter, device, job>>
  BY DEF Decide
<1>2. /\ asker.id \in 1..MaxTasks /\ asker.job \in Jobs /\ asker.job.stamp \in Nat /\ asker.view \in Tasks
      /\ deploying' \in BOOLEAN
  BY <1>1, ThreadFields, UpgradeAssumption DEF Typed, PollIsTrue, Jobs, NoWork
<1>3. {"succeeded", "checking", "failed", "unknown"} \subseteq Stages \cup {"unknown"} BY DEF Stages, Ended
<1>4. CASE Proven(asker)
  <2>1. Save(asker.id, "succeeded", asker.job.stamp, FALSE) BY <1>4 DEF Decide
  <2>2. task.id = asker.id => job.id = task.id /\ job.status = "succeeded"
    BY <1>1, <1>2, <1>4 DEF Proven, PollIsTrue, Jobs, NoWork, Final, Ended
  <2>3. task.id = asker.id => starter.pc # "post" BY <2>2 DEF StarterIsCurrent
  <2> QED BY <1>1, <1>2, <1>3, <2>1, <2>2, <2>3, SaveKeeps
<1>5. CASE ~Proven(asker) /\ asker.job.status = "succeeded" /\ asker.info.answered
  <2>1. Save(asker.id, "checking", asker.job.stamp, FALSE) BY <1>5 DEF Decide
  <2>2. task.id = asker.id => starter.pc # "post"
    BY <1>1, <1>2, <1>5 DEF PollIsTrue, Jobs, NoWork, StarterIsCurrent
  <2> QED BY <1>1, <1>2, <1>3, <2>1, <2>2, SaveKeeps
<1>6. CASE /\ ~Proven(asker) /\ ~(asker.job.status = "succeeded" /\ asker.info.answered)
           /\ late /\ asker.shown.version = asker.view.previous /\ asker.shown.afterDeadline
  <2>1. Save(asker.id, "failed", 0, FALSE) BY <1>6 DEF Decide
  <2>2. starter.pc # "post" BY <1>6 DEF StarterIsCurrent, Submitting
  <2>3. task.id = asker.id => NothingGoesOn
    <3> SUFFICES ASSUME task.id = asker.id PROVE NothingGoesOn OBVIOUS
    <3>1. asker.shown.version = task.previous /\ task.previous < task.id /\ task.id \in Nat /\ task.previous \in Nat
      BY <1>1, <1>2, <1>6, UpgradeAssumption DEF PollIsTrue, TimeIsKnown, Typed, Tasks, NoTask
    <3> QED BY <1>1, <1>6, <3>1 DEF PollIsTrue, BeatIsEvidence
  <2> QED BY <1>1, <1>2, <1>3, <2>1, <2>2, <2>3, SaveKeeps
<1>7. CASE /\ ~Proven(asker) /\ ~(asker.job.status = "succeeded" /\ asker.info.answered)
           /\ ~(late /\ asker.shown.version = asker.view.previous /\ asker.shown.afterDeadline)
  <2>1. CASE late /\ asker.view.status # "unknown"
    <3>1. Save(asker.id, "unknown", 0, FALSE) BY <1>7, <2>1 DEF Decide
    <3>2. starter.pc # "post" BY <2>1 DEF StarterIsCurrent, Submitting
    <3> QED BY <1>1, <1>2, <1>3, <3>1, <3>2, SaveKeeps
  <2>2. CASE ~(late /\ asker.view.status # "unknown")
    <3>1. UNCHANGED task BY <1>7, <2>2 DEF Decide
    <3> QED BY <1>1, <1>2, <3>1, ReadKeeps
  <2> QED BY <2>1, <2>2
<1> QED BY <1>4, <1>5, <1>6, <1>7

(* ---- heartbeats, reports and time ---- *)
LEMMA UpgradeNumbers ==
  ASSUME Typed
  PROVE  /\ {task.id, task.previous, job.id, device.version, device.before, shown.version} \subseteq Nat
         /\ job.status \in Stages \cup {"none"} /\ (job.status = "none" <=> job.id = 0)
         /\ (task.id # 0 => task.id \in 1..MaxTasks)
BY UpgradeAssumption DEF Typed, Tasks, NoTask, Jobs, NoWork, Beats, Stages, Ended

LEMMA HeartbeatKeeps == ASSUME UpgradeInv, Heartbeat PROVE UpgradeInv'
<1> USE DEF UpgradeInv
<1>1. /\ shown' = [version |-> device.version, afterDeadline |-> late, afterReport |-> task.reported]
      /\ UNCHANGED <<task, deploying, late, starter, asker, device, job>>
  BY DEF Heartbeat
<1>2. Typed'
  <2> HIDE DEF UpgradeInv
  <2>1. Typed BY DEF UpgradeInv
  <2>2. task.reported \in BOOLEAN
    <3>1. NoTask.reported \in BOOLEAN BY DEF NoTask
    <3> QED BY <2>1, <3>1 DEF Typed, Tasks
  <2>3. device.version \in 0..MaxTasks /\ late \in BOOLEAN BY <2>1 DEF Typed
  <2>4. shown' \in Beats BY <1>1, <2>2, <2>3 DEF Beats
  <2> QED BY <1>1, <2>1, <2>4 DEF Typed
<1>3. StarterIsCurrent' /\ WorkerIsKnown' /\ OutcomeIsKnown' /\ PollIsTrue'
  BY <1>1 DEF StarterIsCurrent, WorkerIsKnown, OutcomeIsKnown, PollIsTrue, NothingGoesOn, BeatIsEvidence, WentBack
<1>4. task.reported /\ device.version # task.id => WentBack
  BY UpgradeNumbers DEF TimeIsKnown, WorkerIsKnown, WentBack
<1>5. late /\ device.version # task.id => NothingGoesOn
  BY UpgradeNumbers DEF TimeIsKnown, WorkerIsKnown, NothingGoesOn, Ended
<1>6. TimeIsKnown'
  BY <1>1, <1>4, <1>5 DEF TimeIsKnown, WorkerIsKnown, BeatIsEvidence, WentBack, NothingGoesOn
<1> QED BY <1>2, <1>3, <1>6

LEMMA ReportLegacyKeeps == ASSUME UpgradeInv, ReportLegacy PROVE UpgradeInv'
<1> USE DEF UpgradeInv
<1>1. /\ job.status = "rolling_back" /\ job.id = task.id /\ task.status \notin Final
      /\ task' = [task EXCEPT !.status = "rolling_back", !.reported = TRUE]
      /\ shown' = [shown EXCEPT !.afterReport = FALSE]
      /\ UNCHANGED <<deploying, late, starter, asker, device, job>>
  BY DEF ReportLegacy, Stale
<1>2. /\ task' \in Tasks /\ task'.id = task.id /\ task'.protocol = task.protocol /\ task'.previous = task.previous
      /\ task'.reported /\ task'.status = "rolling_back"
  <2>1. task \in [id : 1..MaxTasks, status : Stages \cup {"unknown"}, protocol : {1, 2}, stamp : Nat,
                  previous : 0..MaxTasks, reported : BOOLEAN]
    BY <1>1 DEF Typed, Tasks, NoTask, Jobs, NoWork
  <2>2. "rolling_back" \in Stages \cup {"unknown"} BY DEF Stages
  <2> HIDE DEF UpgradeInv
  <2> QED BY <1>1, <2>1, <2>2 DEF Tasks
<1>3. /\ shown' \in Beats /\ shown'.version = shown.version /\ shown'.afterDeadline = shown.afterDeadline
      /\ ~shown'.afterReport
  BY <1>1 DEF Typed, Beats
<1>4. Typed' BY <1>1, <1>2, <1>3 DEF Typed
<1>5. StarterIsCurrent' BY <1>1, <1>2 DEF StarterIsCurrent, Submitting
<1>6. WorkerIsKnown' /\ OutcomeIsKnown' BY <1>1, <1>2 DEF WorkerIsKnown, OutcomeIsKnown
<1>7. TimeIsKnown' BY <1>1, <1>2, <1>3 DEF TimeIsKnown, BeatIsEvidence, NothingGoesOn
<1>8. PollIsTrue' BY <1>1, <1>2 DEF PollIsTrue, BeatIsEvidence, WentBack, NothingGoesOn
<1> QED BY <1>4, <1>5, <1>6, <1>7, <1>8

LEMMA DeadlineKeeps == ASSUME UpgradeInv, Deadline, ~SlowWorker PROVE UpgradeInv'
<1> USE DEF UpgradeInv
<1>1. /\ ~late /\ late' = TRUE /\ shown' = [shown EXCEPT !.afterDeadline = FALSE]
      /\ (job.id = task.id => job.status \in Ended) /\ starter.pc \notin Submitting
      /\ UNCHANGED <<task, deploying, starter, asker, device, job>>
  BY DEF Deadline, Submitting
<1>2. /\ shown' \in Beats /\ shown'.version = shown.version /\ ~shown'.afterDeadline
      /\ shown'.afterReport = shown.afterReport
  BY <1>1 DEF Typed, Beats
<1>3. Typed' BY <1>1, <1>2 DEF Typed
<1>4. StarterIsCurrent' BY <1>1 DEF StarterIsCurrent, Submitting
<1>5. WorkerIsKnown' /\ OutcomeIsKnown' BY <1>1 DEF WorkerIsKnown, OutcomeIsKnown, NothingGoesOn
<1>6. TimeIsKnown' BY <1>1, <1>2 DEF TimeIsKnown, BeatIsEvidence, WentBack
<1>7. PollIsTrue' BY <1>1 DEF PollIsTrue, BeatIsEvidence, WentBack, NothingGoesOn
<1> QED BY <1>3, <1>4, <1>5, <1>6, <1>7

LEMMA DeployKeeps == ASSUME UpgradeInv, Deploy PROVE UpgradeInv'
BY ReadKeeps DEF Deploy, UpgradeInv, Typed

LEMMA PanelDiesKeeps == ASSUME UpgradeInv, PanelDies PROVE UpgradeInv'
BY ReadKeeps DEF PanelDies, UpgradeInv, Typed

(* ---- the worker ---- *)
(* A worker that goes on is one whose task has neither ended nor come to its    *)
(* deadline; what it does makes nothing untrue that somebody has concluded.      *)
LEMMA WorkerKeeps ==
  ASSUME UpgradeInv, UNCHANGED <<task, deploying, shown, late, starter, asker>>,
         job' \in Jobs, device' \in [version : 0..MaxTasks, ready : BOOLEAN, before : 0..MaxTasks],
         job'.id = job.id, job'.legacy = job.legacy, job.id # 0, WorkerIsKnown',
         job.status \notin Final,
         late => job'.status \in Ended,
         job.status \in {"rolling_back", "rollback_failed"} =>
           job'.status \in {"rolling_back", "rollback_failed", "rolled_back"}
  PROVE  UpgradeInv'
<1> USE DEF UpgradeInv
<1>1. Typed' BY DEF Typed
<1>2. job.id = task.id
  BY UpgradeNumbers DEF WorkerIsKnown
<1>3. StarterIsCurrent' BY DEF StarterIsCurrent, Submitting
<1>4. OutcomeIsKnown' BY <1>2 DEF OutcomeIsKnown, NothingGoesOn, Final, Ended
<1>5. \A beat : BeatIsEvidence(beat) => BeatIsEvidence(beat)'
  BY <1>2 DEF BeatIsEvidence, WentBack, NothingGoesOn, Final, Ended
<1>6. TimeIsKnown'
  <2>1. late => starter.pc \notin Submitting /\ job'.status \in Ended BY DEF TimeIsKnown
  <2>2. task.reported => job'.status \in {"rolling_back", "rollback_failed", "rolled_back"}
    BY DEF TimeIsKnown, Final, Ended
  <2>3. BeatIsEvidence(shown)' BY <1>2 DEF TimeIsKnown, BeatIsEvidence, WentBack, NothingGoesOn, Final, Ended
  <2> QED BY <1>2, <2>1, <2>2, <2>3 DEF TimeIsKnown
<1>7. BeatIsEvidence(asker.shown) => BeatIsEvidence(asker.shown)'
  BY <1>2 DEF BeatIsEvidence, WentBack, NothingGoesOn, Final, Ended
<1>8. PollIsTrue'
  BY <1>2, <1>7 DEF PollIsTrue, Final, Ended
<1> QED BY <1>1, <1>3, <1>4, <1>6, <1>8

LEMMA WorkKeeps == ASSUME UpgradeInv, Work PROVE UpgradeInv'
<1> USE DEF UpgradeInv
<1>1. UNCHANGED <<task, deploying, shown, late, starter, asker>> BY DEF Work
<1>2. late /\ job.id = task.id => job.status \in Ended BY DEF TimeIsKnown
<1>3. job.status \notin {"none"} \cup Final => job.id = task.id /\ job.id # 0 BY UpgradeNumbers DEF WorkerIsKnown, Final, Ended
<1>4. ASSUME NEW s \in Stages, Advance(s), job.status \in {"queued", "working", "checking", "rolling_back"},
             UNCHANGED device \/ (job.status = "working" /\ device' = [version |-> job.id, ready |-> FALSE, before |-> device.version])
               \/ (job.status = "checking" /\ ~device.ready /\ device' = [device EXCEPT !.ready = TRUE])
               \/ (job.status = "rolling_back" /\ device' = [device EXCEPT !.version = device.before, !.ready = TRUE]),
             WorkerIsKnown',
             job.status = "rolling_back" => s \in {"rollback_failed", "rolled_back"}
      PROVE  UpgradeInv'
  <2>1. job' \in Jobs /\ job'.id = job.id /\ job'.status = s /\ job'.legacy = job.legacy /\ job.id \in 1..MaxTasks
    BY <1>4, AdvanceFacts
  <2>2. device' \in [version : 0..MaxTasks, ready : BOOLEAN, before : 0..MaxTasks]
    <3> HIDE DEF UpgradeInv
    <3> DEFINE Devices == [version : 0..MaxTasks, ready : BOOLEAN, before : 0..MaxTasks]
    <3>1. device \in Devices BY DEF Typed, UpgradeInv
    <3>2. job.id \in 0..MaxTasks BY <2>1, UpgradeAssumption
    <3>3. device.version \in 0..MaxTasks BY <3>1
    <3>4. [version |-> job.id, ready |-> FALSE, before |-> device.version] \in Devices BY <3>2, <3>3
    <3>5. [device EXCEPT !.ready = TRUE] \in Devices BY <3>1
    <3>6. [device EXCEPT !.version = device.before, !.ready = TRUE] \in Devices BY <3>1
    <3> HIDE DEF Devices
    <3>7. device' \in Devices BY <1>4, <3>1, <3>4, <3>5, <3>6
    <3> QED BY <3>7 DEF Devices
  <2>3. ~late /\ job.id # 0 /\ job.status \notin Final BY <1>2, <1>3, <1>4 DEF Ended, Final
  <2> QED BY <1>1, <1>4, <2>1, <2>2, <2>3, WorkerKeeps
<1>5. CASE job.status = "queued" /\ Advance("working") /\ UNCHANGED device
  <2>1. "working" \in Stages BY DEF Stages
  <2>2. job'.status = "working" /\ job'.id = job.id /\ job'.legacy = job.legacy BY <1>5, <2>1, AdvanceFacts
  <2>3. WorkerIsKnown' BY <1>1, <1>3, <1>5, <2>2 DEF WorkerIsKnown, Final, Ended
  <2> QED BY <1>4, <1>5, <2>1, <2>3
<1>6. CASE job.status = "queued" /\ Advance("failed") /\ UNCHANGED device
  <2>1. "failed" \in Stages BY DEF Stages, Ended
  <2>2. job'.status = "failed" /\ job'.id = job.id /\ job'.legacy = job.legacy BY <1>6, <2>1, AdvanceFacts
  <2>3. WorkerIsKnown' BY <1>1, <1>3, <1>6, <2>2 DEF WorkerIsKnown, Final, Ended
  <2> QED BY <1>4, <1>6, <2>1, <2>3
<1>7. CASE /\ job.status = "working" /\ Advance("checking")
           /\ device' = [version |-> job.id, ready |-> FALSE, before |-> device.version]
  <2>1. "checking" \in Stages BY DEF Stages
  <2>2. job'.status = "checking" /\ job'.id = job.id /\ job'.legacy = job.legacy BY <1>7, <2>1, AdvanceFacts
  <2>3. device'.version = job.id /\ ~device'.ready /\ device'.before = device.version BY <1>7
  <2>4. WorkerIsKnown' BY <1>1, <1>3, <1>7, <2>2, <2>3, UpgradeNumbers DEF WorkerIsKnown, Final, Ended
  <2> QED BY <1>4, <1>7, <2>1, <2>4
<1>8. CASE /\ job.status = "checking" /\ ~device.ready /\ device' = [device EXCEPT !.ready = TRUE]
           /\ IF job.legacy THEN Advance("succeeded") ELSE UNCHANGED job
  <2>1. device'.version = device.version /\ device'.ready /\ device'.before = device.before
        /\ device' \in [version : 0..MaxTasks, ready : BOOLEAN, before : 0..MaxTasks]
    BY <1>8 DEF Typed
  <2>2. CASE job.legacy
    <3>1. "succeeded" \in Stages BY DEF Stages, Ended
    <3>2. job'.status = "succeeded" /\ job'.id = job.id /\ job'.legacy = job.legacy BY <1>8, <2>2, <3>1, AdvanceFacts
    <3>3. WorkerIsKnown' BY <1>1, <1>3, <1>8, <2>1, <3>2 DEF WorkerIsKnown, Final, Ended
    <3> QED BY <1>4, <1>8, <2>2, <3>1, <3>3
  <2>3. CASE ~job.legacy
    <3>1. UNCHANGED job /\ job' \in Jobs BY <1>8, <2>3 DEF Typed
    <3>2. WorkerIsKnown' BY <1>1, <1>3, <1>8, <2>1, <2>3, <3>1 DEF WorkerIsKnown, Final, Ended
    <3>3. ~late /\ job.id # 0 /\ job.status \notin Final BY <1>2, <1>3, <1>8 DEF Ended, Final
    <3> QED BY <1>1, <1>8, <2>1, <3>1, <3>2, <3>3, WorkerKeeps
  <2> QED BY <2>2, <2>3
<1>9. CASE job.status = "checking" /\ device.ready /\ Advance("succeeded") /\ UNCHANGED device
  <2>1. "succeeded" \in Stages BY DEF Stages, Ended
  <2>2. job'.status = "succeeded" /\ job'.id = job.id /\ job'.legacy = job.legacy BY <1>9, <2>1, AdvanceFacts
  <2>3. WorkerIsKnown' BY <1>1, <1>3, <1>9, <2>2 DEF WorkerIsKnown, Final, Ended
  <2> QED BY <1>4, <1>9, <2>1, <2>3
<1>10. CASE job.status = "checking" /\ ~device.ready /\ Advance("rolling_back") /\ UNCHANGED device
  <2>1. "rolling_back" \in Stages BY DEF Stages
  <2>2. job'.status = "rolling_back" /\ job'.id = job.id /\ job'.legacy = job.legacy BY <1>10, <2>1, AdvanceFacts
  <2>3. WorkerIsKnown' BY <1>1, <1>3, <1>10, <2>2 DEF WorkerIsKnown, Final, Ended
  <2> QED BY <1>4, <1>10, <2>1, <2>3
<1>11. CASE /\ job.status = "rolling_back" /\ Advance("rolled_back")
            /\ device' = [device EXCEPT !.version = device.before, !.ready = TRUE]
  <2>1. "rolled_back" \in Stages BY DEF Stages, Ended
  <2>2. job'.status = "rolled_back" /\ job'.id = job.id /\ job'.legacy = job.legacy BY <1>11, <2>1, AdvanceFacts
  <2>3. device'.version = device.before /\ device'.ready BY <1>11 DEF Typed
  <2>4. WorkerIsKnown' BY <1>1, <1>3, <1>11, <2>2, <2>3, UpgradeNumbers DEF WorkerIsKnown, Final, Ended
  <2> QED BY <1>4, <1>11, <2>1, <2>4
<1>12. CASE job.status = "rolling_back" /\ Advance("rollback_failed") /\ UNCHANGED device
  <2>1. "rollback_failed" \in Stages BY DEF Stages, Ended
  <2>2. job'.status = "rollback_failed" /\ job'.id = job.id /\ job'.legacy = job.legacy BY <1>12, <2>1, AdvanceFacts
  <2>3. WorkerIsKnown' BY <1>1, <1>3, <1>12, <2>2 DEF WorkerIsKnown, Final, Ended
  <2> QED BY <1>4, <1>12, <2>1, <2>3
<1> QED BY <1>5, <1>6, <1>7, <1>8, <1>9, <1>10, <1>11, <1>12 DEF Work

LEMMA RecoveredKeeps == ASSUME UpgradeInv, Recovered PROVE UpgradeInv'
<1> USE DEF UpgradeInv
<1>1. /\ job.status = "rollback_failed" /\ Advance("rolled_back")
      /\ device' = [device EXCEPT !.version = device.before, !.ready = TRUE]
      /\ UNCHANGED <<task, deploying, shown, late, starter, asker>>
  BY DEF Recovered
<1>2. "rolled_back" \in Stages BY DEF Stages, Ended
<1>3. /\ job' \in Jobs /\ job'.status = "rolled_back" /\ job'.id = job.id /\ job'.legacy = job.legacy /\ job.id # 0
  BY <1>1, <1>2, AdvanceFacts
<1>4. /\ device'.version = device.before /\ device'.ready
      /\ device' \in [version : 0..MaxTasks, ready : BOOLEAN, before : 0..MaxTasks]
  BY <1>1 DEF Typed
<1>5. WorkerIsKnown' BY <1>1, <1>3, <1>4, UpgradeNumbers DEF WorkerIsKnown, Final, Ended
<1> QED BY <1>1, <1>3, <1>4, <1>5, WorkerKeeps DEF Final, Ended

LEMMA UpgradeStarts == UpgradeInit => UpgradeInv
<1> SUFFICES ASSUME UpgradeInit PROVE UpgradeInv OBVIOUS
<1>1. /\ task = NoTask /\ ~deploying /\ ~late /\ job = NoWork /\ starter = Resting /\ asker = Resting
      /\ deploying \in BOOLEAN /\ late \in BOOLEAN
      /\ shown = [version |-> 0, afterDeadline |-> FALSE, afterReport |-> FALSE]
      /\ device = [version |-> 0, ready |-> TRUE, before |-> 0]
  BY DEF UpgradeInit, Resting
<1>2. Typed BY <1>1, RestingIsThread, UpgradeAssumption DEF Typed, Tasks, Jobs, Beats
<1>3. starter.pc = "idle" /\ asker.pc = "idle" BY <1>1, RestingIsThread
<1>4. task.id = 0 /\ task.status = "none" /\ ~task.reported /\ job.id = 0 /\ job.status = "none"
  BY <1>1 DEF NoTask, NoWork
<1> QED BY <1>1, <1>2, <1>3, <1>4
        DEF UpgradeInv, StarterIsCurrent, WorkerIsKnown, TimeIsKnown, PollIsTrue, OutcomeIsKnown, BeatIsEvidence, Submitting

LEMMA UpgradeStep == ASSUME UpgradeInv, [UpgradeNext]_upgradeVars, ~SlowWorker PROVE UpgradeInv'
<1>1. CASE UpgradeNext
  BY <1>1, StartReadKeeps, ReserveKeeps, PostKeeps, StartAnsweredKeeps, PollReadKeeps, PollConfirmedKeeps, PollJobKeeps,
     PollSaveKeeps, PollInfoKeeps, DecideKeeps, HeartbeatKeeps, ReportLegacyKeeps, DeadlineKeeps, DeployKeeps,
     PanelDiesKeeps, WorkKeeps, RecoveredKeeps
     DEF UpgradeNext, Asking
<1>2. CASE UNCHANGED upgradeVars
  BY <1>2, ReadKeeps DEF upgradeVars, UpgradeInv, Typed
<1> QED BY <1>1, <1>2

LEMMA UpgradeInvMeans == ASSUME UpgradeInv PROVE UpgradeTypeOK /\ SuccessIsProven /\ ReleaseIsSafe
<1> USE DEF UpgradeInv
<1>1. UpgradeTypeOK
  BY DEF Typed, UpgradeTypeOK, Tasks, Jobs, Beats
<1>2. SuccessIsProven
  BY UpgradeNumbers DEF SuccessIsProven, OutcomeIsKnown, WorkerIsKnown
<1>3. ReleaseIsSafe
  BY UpgradeNumbers DEF ReleaseIsSafe, OutcomeIsKnown, WorkerIsKnown, NothingGoesOn, Ended
<1> QED BY <1>1, <1>2, <1>3

(* What a step of the upgrade coordination may never do.                        *)
OutcomeStep == task.status \in Final /\ task'.id = task.id => task'.status = task.status
JobStep == task'.id # task.id => job.status \in {"none"} \cup Final

LEMMA SaveIsCareful ==
  ASSUME NEW id, NEW status, NEW stamp, NEW onlyQueued, Typed, Save(id, status, stamp, onlyQueued)
  PROVE  OutcomeStep /\ JobStep
<1>1. CASE Stale(task, id, stamp, onlyQueued)
  BY <1>1 DEF Save, OutcomeStep, JobStep
<1>2. CASE ~Stale(task, id, stamp, onlyQueued)
  <2>1. task.status \notin Final BY <1>2 DEF Stale
  <2>2. \/ task = NoTask
        \/ task \in [id : 1..MaxTasks, status : Stages \cup {"unknown"}, protocol : {1, 2}, stamp : Nat,
                    previous : 0..MaxTasks, reported : BOOLEAN]
    BY DEF Typed, Tasks
  <2>3. task' = [task EXCEPT !.status = status, !.stamp = IF stamp > 0 THEN stamp ELSE task.stamp]
    BY <1>2 DEF Save
  <2>4. task'.id = task.id BY <2>2, <2>3 DEF NoTask
  <2> QED BY <2>1, <2>4 DEF OutcomeStep, JobStep
<1> QED BY <1>1, <1>2

LEMMA UpgradeIsCareful ==
  ASSUME UpgradeInv, [UpgradeNext]_upgradeVars PROVE OutcomeStep /\ JobStep
<1> DEFINE Careful == OutcomeStep /\ JobStep
<1>1. Typed BY DEF UpgradeInv
<1>2. UNCHANGED task => Careful BY DEF OutcomeStep, JobStep
<1>3. CASE Reserve
  <2>1. CASE Busy(task)
    <3>1. UNCHANGED task BY <1>3, <2>1 DEF Reserve
    <3> QED BY <1>2, <3>1
  <2>2. CASE ~Busy(task)
    <3>1. UNCHANGED task \/ task'.id = task.id + 1
      BY <1>3 DEF Reserve, NoTask
    <3>2. job.status \in {"none"} \cup Final
      BY <2>2, UpgradeNumbers, <1>1 DEF Busy, UpgradeInv, OutcomeIsKnown, WorkerIsKnown, NothingGoesOn, Final, Ended
    <3>3. task'.id = task.id + 1 => task'.id # task.id
      BY UpgradeNumbers, <1>1
    <3> QED BY <1>2, <3>1, <3>2, <3>3 DEF OutcomeStep, JobStep
  <2> QED BY <2>1, <2>2
<1>4. CASE ReportLegacy
  <2>1. task.status \notin Final /\ task'.id = task.id
    BY <1>1, <1>4 DEF ReportLegacy, Stale, Typed, Tasks, NoTask
  <2> QED BY <2>1 DEF OutcomeStep, JobStep
<1>5. CASE StartAnswered BY <1>1, <1>5, SaveIsCareful DEF StartAnswered
<1>6. CASE PollConfirmed BY <1>1, <1>6, SaveIsCareful DEF PollConfirmed
<1>7. CASE PollSave BY <1>1, <1>7, SaveIsCareful DEF PollSave
<1>8. CASE Decide BY <1>1, <1>2, <1>8, SaveIsCareful DEF Decide
<1>9. CASE StartRead \/ Post \/ PollRead \/ PollJob \/ PollInfo \/ Heartbeat \/ Deadline \/ Deploy \/ PanelDies
  BY <1>2, <1>9 DEF StartRead, Post, PollRead, PollJob, PollInfo, Heartbeat, Deadline, Deploy, PanelDies
<1>10. CASE Work \/ Recovered \/ UNCHANGED upgradeVars
  BY <1>2, <1>10 DEF Work, Recovered, upgradeVars
<1> QED BY <1>3, <1>4, <1>5, <1>6, <1>7, <1>8, <1>9, <1>10 DEF UpgradeNext, Asking

-------------------------------------------------------------------------------
(* The digests of the update files: what the reader holds is the file's, or the  *)
(* identity of the file has changed since.                                       *)

Blocks == [1..2 -> Nat]
Files == [stamp : Nat, blocks : Blocks, elf : BOOLEAN]
Digests == [path : Artifacts, stamp : Nat, digest : Blocks]

FilesAreKnown ==
  /\ writes \in Nat
  /\ file \in [Artifacts -> Files]
  /\ \A p \in Artifacts : file[p].stamp <= writes + 1

EntriesAreTrue ==
  /\ cache \in [Artifacts -> Digests \cup {None}]
  /\ \A p \in Artifacts : cache[p] # None =>
       /\ cache[p] \in Digests /\ cache[p].stamp # 0 /\ cache[p].stamp <= writes + 1
       /\ file[p].stamp = cache[p].stamp => file[p].blocks = cache[p].digest

(* Every change of a file gives it a stamp nobody has seen, so equal stamps are   *)
(* equal files.                                                                  *)
ReaderIsTrue ==
  /\ reader.pc \in {"open", "read", "again"} =>
       reader.path \in Artifacts /\ reader.expected \in Nat \ {0} /\ reader.expected <= writes + 1
  /\ reader.pc = "read" =>
       /\ reader.open \in Files /\ reader.open.stamp <= writes + 1
       /\ reader.digest \in Seq(Nat)
       /\ reader.open.stamp = reader.expected =>
            /\ \A i \in 1..Len(reader.digest) : i <= 2 => reader.digest[i] = reader.open.blocks[i]
            /\ file[reader.path].stamp = reader.expected => file[reader.path] = reader.open

Shape == reader \in [pc : {"free", "open", "read", "again"}, path : Artifacts \cup {""}, attempt : {0, 1},
                     expected : Nat, open : Files \cup {NoFile}, digest : Seq(Nat)]

ArtifactInv == FilesAreKnown /\ EntriesAreTrue /\ Shape /\ ReaderIsTrue

LEMMA NoFileIsFile == NoFile \in Files /\ NoFile.stamp = 0
BY DEF NoFile, Files, Blocks

LEMMA FreeIsShape == Free \in [pc : {"free", "open", "read", "again"}, path : Artifacts \cup {""}, attempt : {0, 1},
                     expected : Nat, open : Files \cup {NoFile}, digest : Seq(Nat)] /\ Free.pc = "free"
<1>1. <<>> \in Seq(Nat) OBVIOUS
<1> QED BY <1>1 DEF Free

LEMMA ForgetKeeps == ASSUME EntriesAreTrue, NEW path \in Artifacts, Forget(path), UNCHANGED <<file, writes>> PROVE EntriesAreTrue'
BY DEF EntriesAreTrue, Forget

LEMMA ChangedKeeps ==
  ASSUME ArtifactInv, reader.pc \in {"open", "read"}, Changed, UNCHANGED <<file, writes>>
  PROVE  Shape' /\ ReaderIsTrue'
<1>1. CASE reader.attempt = 0
  <2>1. reader' = [reader EXCEPT !.pc = "again"] BY <1>1 DEF Changed
  <2>2. Shape' BY <2>1 DEF Shape, ArtifactInv
  <2>3. reader'.pc = "again" /\ reader'.path = reader.path /\ reader'.expected = reader.expected
    BY <2>1 DEF ArtifactInv, Shape
  <2> QED BY <2>2, <2>3 DEF ArtifactInv, ReaderIsTrue
<1>2. CASE reader.attempt # 0
  BY <1>2, FreeIsShape DEF Changed, Shape, ReaderIsTrue
<1> QED BY <1>1, <1>2

LEMMA LookKeeps == ASSUME ArtifactInv, NEW path \in Artifacts, Look(path) PROVE ArtifactInv'
<1>1. UNCHANGED <<file, writes>> BY DEF Look
<1>2. FilesAreKnown' BY <1>1 DEF ArtifactInv, FilesAreKnown
<1>3. EntriesAreTrue'
  BY <1>1, ForgetKeeps DEF Look, ArtifactInv, EntriesAreTrue
<1>4. CASE reader' = Free
  BY <1>2, <1>3, <1>4, FreeIsShape DEF ArtifactInv, Shape, ReaderIsTrue
<1>5. CASE \E attempt \in {0, 1} : file[path].stamp # 0 /\
             reader' = [Free EXCEPT !.pc = "open", !.path = path, !.attempt = attempt, !.expected = file[path].stamp]
  <2>1. file[path].stamp \in Nat \ {0} /\ file[path].stamp <= writes + 1
    BY <1>5 DEF ArtifactInv, FilesAreKnown, Files
  <2>2. Shape' BY <1>5, <2>1, FreeIsShape DEF Shape
  <2>3. reader'.pc = "open" /\ reader'.path = path /\ reader'.expected = file[path].stamp
    BY <1>5 DEF Free
  <2> QED BY <1>1, <1>2, <1>3, <2>1, <2>2, <2>3 DEF ArtifactInv, ReaderIsTrue
<1>6. reader' = Free \/ (file[path].stamp # 0 /\ \E attempt \in {0, 1} :
             reader' = [Free EXCEPT !.pc = "open", !.path = path, !.attempt = attempt, !.expected = file[path].stamp])
  BY DEF Look, Answer
<1> QED BY <1>4, <1>5, <1>6

LEMMA OpenFileKeeps == ASSUME ArtifactInv, OpenFile PROVE ArtifactInv'
<1>1. UNCHANGED <<file, writes, cache>> /\ reader.pc = "open" BY DEF OpenFile
<1>2. FilesAreKnown' /\ EntriesAreTrue' BY <1>1 DEF ArtifactInv, FilesAreKnown, EntriesAreTrue
<1>3. CASE file[reader.path].stamp # reader.expected
  BY <1>1, <1>2, <1>3, ChangedKeeps DEF OpenFile, ArtifactInv
<1>4. CASE file[reader.path].stamp = reader.expected
  <2>1. reader' = [reader EXCEPT !.pc = "read", !.open = file[reader.path], !.digest = <<>>]
    BY <1>4 DEF OpenFile
  <2>2. reader.path \in Artifacts /\ file[reader.path] \in Files /\ <<>> \in Seq(Nat)
    BY <1>1 DEF ArtifactInv, ReaderIsTrue, FilesAreKnown
  <2>3. Shape' BY <2>1, <2>2 DEF Shape, ArtifactInv
  <2>4. /\ reader'.pc = "read" /\ reader'.path = reader.path /\ reader'.expected = reader.expected
        /\ reader'.open = file[reader.path] /\ reader'.digest = <<>>
    BY <2>1 DEF ArtifactInv, Shape
  <2>5. ReaderIsTrue' BY <1>1, <2>2, <2>4 DEF ArtifactInv, ReaderIsTrue, FilesAreKnown
  <2> QED BY <1>2, <2>3, <2>5 DEF ArtifactInv
<1> QED BY <1>3, <1>4

LEMMA ReadBlockKeeps == ASSUME ArtifactInv, ReadBlock PROVE ArtifactInv'
<1>1. UNCHANGED <<file, writes, cache>> /\ reader.pc = "read" /\ Len(reader.digest) < 2 BY DEF ReadBlock
<1>2. FilesAreKnown' /\ EntriesAreTrue' BY <1>1 DEF ArtifactInv, FilesAreKnown, EntriesAreTrue
<1> DEFINE block == reader.open.blocks[Len(reader.digest) + 1]
<1>3. reader' = [reader EXCEPT !.digest = Append(reader.digest, block)] BY DEF ReadBlock
<1>4. reader.digest \in Seq(Nat) /\ reader.open \in Files BY <1>1 DEF ArtifactInv, ReaderIsTrue
<1>5. Len(reader.digest) \in 0..1
  <2>1. Len(reader.digest) \in Nat BY <1>4
  <2>2. \A n \in Nat : n < 2 => n \in 0..1 OBVIOUS
  <2> QED BY <1>1, <2>1, <2>2 DEF ReadBlock
<1>6. block \in Nat
  <2>1. reader.open.blocks \in [1..2 -> Nat] BY <1>4 DEF Files, Blocks
  <2>2. \A n \in 0..1 : n + 1 \in 1..2 OBVIOUS
  <2>3. Len(reader.digest) + 1 \in 1..2 BY <1>5, <2>2
  <2> QED BY <2>1, <2>3
<1>7. /\ Append(reader.digest, block) \in Seq(Nat)
      /\ Len(Append(reader.digest, block)) = Len(reader.digest) + 1
      /\ \A i \in 1..Len(reader.digest) + 1 : Append(reader.digest, block)[i] =
           IF i = Len(reader.digest) + 1 THEN block ELSE reader.digest[i]
  BY <1>4, <1>6
<1> HIDE DEF block
<1>8. Shape' BY <1>3, <1>7 DEF ArtifactInv, Shape
<1>9. /\ reader'.pc = "read" /\ reader'.path = reader.path /\ reader'.expected = reader.expected
      /\ reader'.open = reader.open /\ reader'.digest = Append(reader.digest, block)
  BY <1>1, <1>3 DEF ArtifactInv, Shape
<1>10. reader.open.stamp = reader.expected =>
         \A i \in 1..Len(reader'.digest) : i <= 2 => reader'.digest[i] = reader.open.blocks[i]
  BY <1>1, <1>5, <1>7, <1>9 DEF ArtifactInv, ReaderIsTrue, block
<1>11. ReaderIsTrue' BY <1>1, <1>4, <1>7, <1>9, <1>10 DEF ArtifactInv, ReaderIsTrue
<1> QED BY <1>2, <1>8, <1>11 DEF ArtifactInv

LEMMA VerifyKeeps == ASSUME ArtifactInv, Verify PROVE ArtifactInv'
<1> DEFINE e == [path |-> reader.path, stamp |-> reader.expected, digest |-> reader.digest]
<1>1. UNCHANGED <<file, writes>> /\ reader.pc = "read" /\ Len(reader.digest) = 2 BY DEF Verify
<1>2. FilesAreKnown' BY <1>1 DEF ArtifactInv, FilesAreKnown
<1>3. CASE UNCHANGED cache /\ (Changed \/ reader' = Free)
  <2>1. EntriesAreTrue' BY <1>1, <1>3 DEF ArtifactInv, EntriesAreTrue
  <2>2. Shape' /\ ReaderIsTrue' BY <1>1, <1>3, ChangedKeeps, FreeIsShape DEF Shape, ReaderIsTrue
  <2> QED BY <1>2, <2>1, <2>2 DEF ArtifactInv
<1>4. CASE reader.open.stamp = reader.expected /\ file[reader.path].stamp = reader.expected
           /\ Answer(e) /\ Remember(e)
  <2>1. /\ reader.path \in Artifacts /\ reader.expected \in Nat \ {0} /\ reader.expected <= writes + 1
        /\ file[reader.path] = reader.open /\ reader.digest \in Seq(Nat)
        /\ \A i \in 1..2 : reader.digest[i] = reader.open.blocks[i]
    BY <1>1, <1>4 DEF ArtifactInv, ReaderIsTrue
  <2>2. reader.digest \in Blocks
    BY <1>1, <2>1 DEF Blocks
  <2>3. reader.open.blocks \in Blocks BY <1>1 DEF ArtifactInv, ReaderIsTrue, Files
  <2>4. file[reader.path].blocks = reader.digest BY <2>1, <2>2, <2>3 DEF Blocks
  <2>5. e \in Digests /\ e.path = reader.path /\ e.stamp = reader.expected /\ e.digest = reader.digest
    BY <2>1, <2>2 DEF Digests
  <2> HIDE DEF e
  <2>6. /\ cache' \in [Artifacts -> Digests \cup {None}]
        /\ \A p \in Artifacts : cache'[p] = None \/ cache'[p] = cache[p] \/ (p = e.path /\ cache'[p] = e)
    BY <1>4, <2>5 DEF Remember, ArtifactInv, EntriesAreTrue
  <2>7. EntriesAreTrue' BY <1>1, <1>4, <2>1, <2>4, <2>5, <2>6 DEF ArtifactInv, EntriesAreTrue
  <2> QED BY <1>2, <1>4, <2>7, FreeIsShape DEF ArtifactInv, Shape, ReaderIsTrue, Answer
<1>5. \/ UNCHANGED cache /\ (Changed \/ reader' = Free)
      \/ reader.open.stamp = reader.expected /\ file[reader.path].stamp = reader.expected
           /\ Answer(e) /\ Remember(e)
  BY DEF Verify, Answer
<1> QED BY <1>3, <1>4, <1>5

(* A stamp given by a change is newer than any the cache or the reader has seen.  *)
LEMMA WriteKeeps ==
  ASSUME ArtifactInv, NEW path \in Artifacts, NEW f \in Files, f.stamp \in {0, writes + 2},
         writes' = writes + 1, file' = [file EXCEPT ![path] = f], UNCHANGED cache,
         Shape',
         reader'.pc = reader.pc, reader'.path = reader.path, reader'.expected = reader.expected,
         reader'.digest = reader.digest,
         reader'.open = reader.open \/ (reader.pc = "read" /\ reader'.open = f /\ f.stamp # 0)
  PROVE  ArtifactInv'
<1>1. writes \in Nat /\ file \in [Artifacts -> Files] BY DEF ArtifactInv, FilesAreKnown
<1>2. /\ file' \in [Artifacts -> Files] /\ file'[path] = f
      /\ \A p \in Artifacts : p # path => file'[p] = file[p]
  BY <1>1
<1>3. FilesAreKnown' BY <1>1, <1>2 DEF ArtifactInv, FilesAreKnown, Files
<1>4. EntriesAreTrue' BY <1>1, <1>2 DEF ArtifactInv, EntriesAreTrue, Digests
<1>5. ReaderIsTrue'
  <2>1. reader.pc \in {"open", "read", "again"} =>
          reader.path \in Artifacts /\ reader.expected \in Nat \ {0} /\ reader.expected <= writes + 1
    BY DEF ArtifactInv, ReaderIsTrue
  <2>2. reader.pc = "read" => /\ reader'.open \in Files /\ reader'.open.stamp <= writes + 2
                              /\ reader.digest \in Seq(Nat)
    BY <1>1 DEF ArtifactInv, ReaderIsTrue, Files
  <2>3. reader.pc = "read" /\ reader'.open.stamp = reader.expected => reader'.open = reader.open
    BY <1>1, <2>1
  <2>4. reader.pc = "read" /\ file'[reader.path].stamp = reader.expected => file'[reader.path] = file[reader.path]
    BY <1>1, <1>2, <2>1
  <2> QED BY <1>1, <2>1, <2>2, <2>3, <2>4 DEF ArtifactInv, ReaderIsTrue
<1> QED BY <1>3, <1>4, <1>5 DEF ArtifactInv

LEMMA ReplaceKeeps == ASSUME ArtifactInv, NEW path \in Artifacts, Replace(path) PROVE ArtifactInv'
<1>1. PICK elf \in BOOLEAN :
        file' = [file EXCEPT ![path] = [stamp |-> writes + 2, blocks |-> <<writes + 2, writes + 2>>, elf |-> elf]]
  BY DEF Replace
<1> DEFINE f == [stamp |-> writes + 2, blocks |-> <<writes + 2, writes + 2>>, elf |-> elf]
<1>2. f \in Files /\ f.stamp = writes + 2 BY DEF ArtifactInv, FilesAreKnown, Files, Blocks
<1> HIDE DEF f
<1>3. file' = [file EXCEPT ![path] = f] BY <1>1 DEF f
<1>4. writes' = writes + 1 /\ UNCHANGED <<cache, reader>> BY DEF Replace
<1>5. Shape' BY <1>4 DEF ArtifactInv, Shape
<1> QED BY <1>2, <1>3, <1>4, <1>5, WriteKeeps

LEMMA RewriteKeeps == ASSUME ArtifactInv, NEW path \in Artifacts, Rewrite(path) PROVE ArtifactInv'
<1>1. PICK i \in 1..2 :
        LET g == [file[path] EXCEPT !.stamp = writes + 2, !.blocks[i] = writes + 2] IN
        /\ file' = [file EXCEPT ![path] = g]
        /\ reader' = IF reader.pc = "read" /\ reader.path = path /\ reader.open = file[path]
                     THEN [reader EXCEPT !.open = g] ELSE reader
  BY DEF Rewrite
<1> DEFINE f == [file[path] EXCEPT !.stamp = writes + 2, !.blocks[i] = writes + 2]
<1>2. file[path] \in Files /\ writes \in Nat BY DEF ArtifactInv, FilesAreKnown
<1>3. f \in Files /\ f.stamp = writes + 2 /\ f.stamp # 0
  <2>1. writes + 2 \in Nat /\ file[path].blocks \in Blocks BY <1>2 DEF Files
  <2>2. [file[path].blocks EXCEPT ![i] = writes + 2] \in Blocks BY <2>1 DEF Blocks
  <2>3. f = [file[path] EXCEPT !.stamp = writes + 2, !.blocks = [file[path].blocks EXCEPT ![i] = writes + 2]]
    BY <1>2 DEF Files
  <2> HIDE DEF f
  <2> DEFINE rewritten == [file[path].blocks EXCEPT ![i] = writes + 2]
  <2>4. rewritten \in Blocks BY <2>2
  <2> HIDE DEF rewritten
  <2>5. f = [file[path] EXCEPT !.stamp = writes + 2, !.blocks = rewritten] BY <2>3 DEF rewritten
  <2>6. writes + 2 # 0 BY <1>2
  <2> QED BY <1>2, <2>1, <2>4, <2>5, <2>6 DEF Files
<1> HIDE DEF f
<1>4. /\ file' = [file EXCEPT ![path] = f]
      /\ reader' = IF reader.pc = "read" /\ reader.path = path /\ reader.open = file[path]
                   THEN [reader EXCEPT !.open = f] ELSE reader
  BY <1>1 DEF f
<1>5. writes' = writes + 1 /\ UNCHANGED cache BY DEF Rewrite
<1>6. Shape' BY <1>3, <1>4 DEF ArtifactInv, Shape
<1>7. /\ reader'.pc = reader.pc /\ reader'.path = reader.path /\ reader'.expected = reader.expected
      /\ reader'.digest = reader.digest
      /\ reader'.open = reader.open \/ (reader.pc = "read" /\ reader'.open = f)
  BY <1>4 DEF ArtifactInv, Shape
<1> QED BY <1>2, <1>3, <1>4, <1>5, <1>6, <1>7, WriteKeeps

LEMMA UnlinkKeeps == ASSUME ArtifactInv, NEW path \in Artifacts, Unlink(path) PROVE ArtifactInv'
<1>1. writes' = writes + 1 /\ UNCHANGED <<cache, reader>> /\ file' = [file EXCEPT ![path] = NoFile]
  BY DEF Unlink
<1>2. Shape' BY <1>1 DEF ArtifactInv, Shape
<1> QED BY <1>1, <1>2, NoFileIsFile, WriteKeeps

LEMMA ArtifactStarts == ArtifactInit => ArtifactInv
<1> SUFFICES ASSUME ArtifactInit PROVE ArtifactInv OBVIOUS
<1>1. [stamp |-> 1, blocks |-> <<1, 1>>, elf |-> TRUE] \in Files BY DEF Files, Blocks
<1>2. FilesAreKnown BY <1>1 DEF ArtifactInit, FilesAreKnown
<1>3. EntriesAreTrue BY DEF ArtifactInit, EntriesAreTrue
<1>4. Shape /\ ReaderIsTrue BY FreeIsShape DEF ArtifactInit, Shape, ReaderIsTrue
<1> QED BY <1>2, <1>3, <1>4 DEF ArtifactInv

LEMMA ArtifactStep == ASSUME ArtifactInv, [ArtifactNext]_artifactVars PROVE ArtifactInv'
<1>1. CASE ArtifactNext
  BY <1>1, LookKeeps, OpenFileKeeps, ReadBlockKeeps, VerifyKeeps, ReplaceKeeps, RewriteKeeps, UnlinkKeeps DEF ArtifactNext
<1>2. CASE UNCHANGED artifactVars
  BY <1>2 DEF artifactVars, ArtifactInv, FilesAreKnown, EntriesAreTrue, Shape, ReaderIsTrue
<1> QED BY <1>1, <1>2

LEMMA ArtifactInvMeans == ASSUME ArtifactInv PROVE CachedIsTrue
BY DEF ArtifactInv, EntriesAreTrue, CachedIsTrue, Entered

-------------------------------------------------------------------------------
(* Shared fetches: an entry belongs to the thread that fetches or stores it, and *)
(* a stored one knows when it began and when it ends.                           *)

Expiries == Nat \cup {n + Cooldown(c) : n \in Nat, c \in Nat}
Flights == [state : {"none", "flying", "done", "failed"}, owner : Requests \cup {Nobody}, expires : Expiries,
            at : Nat, count : Nat]
Calls == [pc : {"idle", "wait", "fetch", "store", "answered"}, key : Keys, kind : Kinds,
          on : Requests \cup {Nobody}, tracked : BOOLEAN, got : Nat, ok : BOOLEAN]

FetchTyped ==
  /\ clock \in Nat /\ failures \in [Keys -> Nat]
  /\ flights \in [Keys -> Flights] /\ request \in [Requests -> Calls]

Holding(r) == request[r].tracked /\ request[r].pc \in {"fetch", "store"}
Outcome(r) == IF request[r].pc = "fetch" THEN "flying" ELSE IF request[r].ok THEN "done" ELSE "failed"

(* While its owner fetches or stores, an entry is its owner's and nobody's else.  *)
EntryHasItsOwner ==
  /\ \A r \in Requests : Holding(r) => flights[request[r].key].owner = r
                                       /\ flights[request[r].key].state = Outcome(r)
  /\ \A k \in Keys, r \in Requests : flights[k].owner = r => Holding(r) /\ request[r].key = k

ResultsAreDated ==
  /\ \A k \in Keys : Ends(k) =>
       /\ flights[k].state = "done" => flights[k].expires = flights[k].at + FetchReuse
       /\ flights[k].state = "failed" => flights[k].expires = flights[k].at + Cooldown(flights[k].count)
  /\ \A r \in Requests : request[r].pc = "store" =>
       request[r].got = clock /\ (request[r].tracked => flights[request[r].key].at = clock)

FetchInv == FetchTyped /\ EntryHasItsOwner /\ ResultsAreDated /\ FreshEnough

LEMMA ReuseIsPositive == ASSUME NEW kind PROVE Reuse(kind) \in Nat \ {0}
BY FetchAssumption DEF Reuse

LEMMA Blank == Empty \in Flights /\ Empty.state = "none" /\ Empty.owner = Nobody
               /\ NoRequest \in Calls /\ NoRequest.pc = "idle" /\ ~NoRequest.tracked
BY FetchAssumption DEF Empty, Flights, Expiries, NoRequest, Calls, Kinds

(* What nobody works on has an end, and only such an entry expires or is evicted. *)
LEMMA FreeHasEnd ==
  ASSUME FetchInv, NEW k \in Keys, NEW kind, ~Usable(k, kind) PROVE Ends(k)
<1>1. CASE flights[k].state = "none"
  <2>1. ASSUME NEW r \in Requests, flights[k].owner = r PROVE FALSE
    BY <1>1, <2>1 DEF FetchInv, EntryHasItsOwner, Holding, Outcome
  <2> QED BY <2>1 DEF Ends, FetchInv, FetchTyped, Flights
<1> QED BY <1>1 DEF Usable, Expired, TooOld

LEMMA DoneIsFresh ==
  ASSUME FetchInv, NEW k \in Keys, NEW kind, Usable(k, kind), flights[k].state = "done"
  PROVE  clock < flights[k].at + Reuse(kind)
<1>1. Reuse(kind) \in Nat \ {0} /\ FetchReuse \in Nat /\ clock \in Nat /\ flights[k].at \in Nat
  BY ReuseIsPositive, FetchAssumption DEF FetchInv, FetchTyped, Flights
<1>2. CASE Ends(k)
  <2>1. flights[k].expires = flights[k].at + FetchReuse BY <1>2 DEF FetchInv, ResultsAreDated
  <2>2. ~(clock + FetchReuse >= flights[k].expires + Reuse(kind)) BY <1>2 DEF Usable, TooOld
  <2> QED BY <1>1, <2>1, <2>2
<1>3. CASE ~Ends(k)
  <2>1. PICK r \in Requests : flights[k].owner = r BY <1>3 DEF Ends, FetchInv, FetchTyped, Flights
  <2>2. Holding(r) /\ request[r].key = k BY <2>1 DEF FetchInv, EntryHasItsOwner
  <2>3. request[r].pc = "store" BY <2>2 DEF FetchInv, EntryHasItsOwner, Outcome, Holding
  <2>4. flights[k].at = clock BY <2>2, <2>3 DEF FetchInv, ResultsAreDated, Holding
  <2> QED BY <1>1, <2>4
<1> QED BY <1>2, <1>3

LEMMA PassKeeps == ASSUME FetchInv, Pass PROVE FetchInv'
<1>1. clock' = clock + 1 /\ UNCHANGED <<flights, failures, request>>
      /\ \A r \in Requests : request[r].pc \notin {"store", "answered"}
  BY DEF Pass
<1> QED BY <1>1 DEF FetchInv, FetchTyped, EntryHasItsOwner, ResultsAreDated, FreshEnough, Holding, Outcome, Ends

LEMMA JoinKeeps ==
  ASSUME FetchInv, NEW r \in Requests, request[r].pc = "idle", NEW k \in Keys, NEW kind \in Kinds,
         Join(r, k, kind), UNCHANGED clock
  PROVE  FetchInv'
<1> DEFINE call == [NoRequest EXCEPT !.key = k, !.kind = kind, !.on = flights[k].owner, !.got = flights[k].at,
                      !.pc = IF flights[k].state = "flying" THEN "wait" ELSE "answered",
                      !.ok = flights[k].state # "failed"]
<1>1. /\ Usable(k, kind) /\ request' = [request EXCEPT ![r] = call]
      /\ flights' = [q \in Keys |-> IF Expired(q) THEN Empty ELSE flights[q]] /\ failures' = failures
  BY DEF Join
<1>2. /\ call \in Calls /\ ~call.tracked /\ call.pc \in {"wait", "answered"} /\ call.got = flights[k].at
      /\ call.kind = kind /\ (call.pc = "answered" /\ call.ok => flights[k].state = "done")
  <2>1. flights[k] \in Flights BY DEF FetchInv, FetchTyped
  <2>2. flights[k].state # "none" BY <1>1 DEF Usable
  <2> QED BY <2>1, <2>2, Blank DEF Calls, Flights
<1> HIDE DEF call
<1>3. /\ request'[r] = call /\ \A q \in Requests : q # r => request'[q] = request[q]
      /\ request' \in [Requests -> Calls]
  BY <1>1, <1>2 DEF FetchInv, FetchTyped
<1>4. /\ flights' \in [Keys -> Flights]
      /\ \A q \in Keys : flights'[q] = flights[q] \/ (Ends(q) /\ flights'[q] = Empty)
      /\ \A q \in Keys : ~Ends(q) => flights'[q] = flights[q]
  BY <1>1, Blank DEF FetchInv, FetchTyped, Expired
<1>5. FetchTyped' BY <1>1, <1>3, <1>4 DEF FetchInv, FetchTyped
<1>6. ~Holding(r) /\ ~Holding(r)' /\ \A q \in Requests : q # r => Holding(q)' = Holding(q) /\ Outcome(q)' = Outcome(q)
  BY <1>2, <1>3 DEF Holding, Outcome
<1>7. EntryHasItsOwner'
  <2>1. \A q \in Requests : Holding(q) => ~Ends(request[q].key)
    BY FetchAssumption DEF FetchInv, EntryHasItsOwner, Ends
  <2>2. \A q \in Requests : request[q].key \in Keys BY DEF FetchInv, FetchTyped, Calls
  <2>3. \A q \in Requests : Holding(q)' => flights'[request'[q].key].owner = q
                                           /\ flights'[request'[q].key].state = Outcome(q)'
    BY <1>3, <1>4, <1>6, <2>1, <2>2 DEF FetchInv, EntryHasItsOwner
  <2>4. \A q \in Keys, s \in Requests : flights'[q].owner = s => Holding(s)' /\ request'[s].key = q
    BY <1>3, <1>4, <1>6, Blank, FetchAssumption DEF FetchInv, EntryHasItsOwner
  <2> QED BY <2>3, <2>4 DEF EntryHasItsOwner
<1>8. ResultsAreDated'
  <2>1. \A q \in Keys : Ends(q)' => Ends(q) BY <1>4 DEF Ends
  <2>2. \A q \in Requests : request[q].tracked /\ request[q].pc = "store" =>
          flights'[request[q].key] = flights[request[q].key] /\ request[q].key \in Keys
    BY <1>4, FetchAssumption DEF FetchInv, FetchTyped, Calls, EntryHasItsOwner, Ends, Holding
  <2>3. \A q \in Keys : Ends(q)' =>
       /\ flights'[q].state = "done" => flights'[q].expires = flights'[q].at + FetchReuse
       /\ flights'[q].state = "failed" => flights'[q].expires = flights'[q].at + Cooldown(flights'[q].count)
    BY <1>4, <2>1, Blank DEF FetchInv, ResultsAreDated
  <2>4. \A q \in Requests : request'[q].pc = "store" =>
       request'[q].got = clock /\ (request'[q].tracked => flights'[request'[q].key].at = clock)
    BY <1>2, <1>3, <2>2 DEF FetchInv, ResultsAreDated
  <2> QED BY <2>3, <2>4 DEF ResultsAreDated
<1>9. FreshEnough' BY <1>1, <1>2, <1>3, DoneIsFresh DEF FetchInv, FreshEnough
<1> QED BY <1>5, <1>7, <1>8, <1>9 DEF FetchInv

LEMMA OwnKeeps ==
  ASSUME FetchInv, NEW r \in Requests, request[r].pc = "idle", NEW k \in Keys, NEW kind \in Kinds,
         Own(r, k, kind), UNCHANGED clock, ~Overtaken
  PROVE  FetchInv'
<1> DEFINE kept == {q \in Cached \ {k} : ~Expired(q)}
<1>0. PICK gone \in Evicted(kept, CacheRoom) :
       LET tracked == Cardinality(kept \ gone) < CacheRoom IN
       /\ flights' = [q \in Keys |-> IF q = k /\ tracked THEN [Empty EXCEPT !.state = "flying", !.owner = r]
                                     ELSE IF q \in kept \ gone THEN flights[q] ELSE Empty]
       /\ request' = [request EXCEPT ![r] = [NoRequest EXCEPT !.pc = "fetch", !.key = k, !.kind = kind, !.tracked = tracked]]
  BY DEF Own
<1> DEFINE tracked == Cardinality(kept \ gone) < CacheRoom
<1>1. /\ tracked \in BOOLEAN
      /\ flights' = [q \in Keys |-> IF q = k /\ tracked THEN [Empty EXCEPT !.state = "flying", !.owner = r]
                                     ELSE IF q \in kept \ gone THEN flights[q] ELSE Empty]
      /\ request' = [request EXCEPT ![r] = [NoRequest EXCEPT !.pc = "fetch", !.key = k, !.kind = kind, !.tracked = tracked]]
  BY <1>0
<1> HIDE DEF tracked
<1>2. failures' = failures /\ ~Usable(k, kind) BY DEF Own
<1>3. Ends(k) BY <1>2, FreeHasEnd
<1>4. \A q \in gone : Ends(q) BY <1>0 DEF Evicted
<1> DEFINE call == [NoRequest EXCEPT !.pc = "fetch", !.key = k, !.kind = kind, !.tracked = tracked]
           flight == [Empty EXCEPT !.state = "flying", !.owner = r]
<1>5. call \in Calls /\ call.pc = "fetch" /\ call.key = k /\ call.tracked = tracked
  BY <1>1, Blank DEF Calls
<1>6. flight \in Flights /\ flight.state = "flying" /\ flight.owner = r
  BY Blank DEF Flights
<1>7. /\ request' = [request EXCEPT ![r] = call]
      /\ flights' = [q \in Keys |-> IF q = k /\ tracked THEN flight
                                   ELSE IF q \in kept \ gone THEN flights[q] ELSE Empty]
  BY <1>1
<1> HIDE DEF call, flight
<1>8. /\ request'[r] = call /\ \A q \in Requests : q # r => request'[q] = request[q]
      /\ request' \in [Requests -> Calls]
  BY <1>5, <1>7 DEF FetchInv, FetchTyped
<1>9. \A q \in Keys : ~Ends(q) => q \in kept \ gone
  <2>1. ASSUME NEW q \in Keys, ~Ends(q) PROVE flights[q].state # "none"
    BY <2>1 DEF FetchInv, FetchTyped, Flights, EntryHasItsOwner, Ends, Outcome
  <2> QED BY <1>3, <1>4, <2>1 DEF Cached, Expired
<1>10. /\ flights' \in [Keys -> Flights]
       /\ \A q \in Keys : ~Ends(q) => flights'[q] = flights[q] /\ q # k
       /\ \A q \in Keys : \/ q = k /\ tracked /\ flights'[q] = flight
                          \/ flights'[q] = flights[q] /\ (q = k => ~tracked)
                          \/ Ends(q) /\ flights'[q] = Empty /\ (q = k => ~tracked)
       /\ tracked => flights'[k] = flight
  BY <1>3, <1>6, <1>7, <1>9, Blank DEF FetchInv, FetchTyped
<1>11. FetchTyped' BY <1>2, <1>8, <1>10 DEF FetchInv, FetchTyped
<1>12. ~Holding(r) /\ (Holding(r)' <=> tracked) /\ Outcome(r)' = "flying"
       /\ \A q \in Requests : q # r => Holding(q)' = Holding(q) /\ Outcome(q)' = Outcome(q)
  BY <1>5, <1>8 DEF Holding, Outcome
<1> HIDE DEF kept
<1>13. EntryHasItsOwner'
  <2>1. \A q \in Requests : request[q].key \in Keys /\ (Holding(q) => ~Ends(request[q].key))
    BY FetchAssumption DEF FetchInv, FetchTyped, Calls, EntryHasItsOwner, Ends
  <2>2. \A q \in Requests : Holding(q)' => flights'[request'[q].key].owner = q
                                           /\ flights'[request'[q].key].state = Outcome(q)'
    BY <1>5, <1>6, <1>8, <1>10, <1>12, <2>1 DEF FetchInv, EntryHasItsOwner
  <2>3. \A q \in Keys, s \in Requests : flights'[q].owner = s => Holding(s)' /\ request'[s].key = q
    BY <1>3, <1>5, <1>6, <1>8, <1>10, <1>12, Blank, FetchAssumption DEF FetchInv, EntryHasItsOwner, Ends
  <2> QED BY <2>2, <2>3 DEF EntryHasItsOwner
<1>14. ResultsAreDated'
  <2>1. \A q \in Requests : request[q].tracked /\ request[q].pc = "store" =>
          flights'[request[q].key] = flights[request[q].key] /\ request[q].key \in Keys
    BY <1>10, FetchAssumption DEF FetchInv, FetchTyped, Calls, EntryHasItsOwner, Ends, Holding
  <2>2. \A q \in Keys : Ends(q)' =>
       /\ flights'[q].state = "done" => flights'[q].expires = flights'[q].at + FetchReuse
       /\ flights'[q].state = "failed" => flights'[q].expires = flights'[q].at + Cooldown(flights'[q].count)
    BY <1>6, <1>10, Blank DEF FetchInv, ResultsAreDated, Ends
  <2>3. \A q \in Requests : request'[q].pc = "store" =>
       request'[q].got = clock /\ (request'[q].tracked => flights'[request'[q].key].at = clock)
    BY <1>5, <1>8, <2>1 DEF FetchInv, ResultsAreDated
  <2> QED BY <2>2, <2>3 DEF ResultsAreDated
<1>15. FreshEnough' BY <1>5, <1>8 DEF FetchInv, FreshEnough
<1> QED BY <1>11, <1>13, <1>14, <1>15 DEF FetchInv

LEMMA FetchedKeeps == ASSUME FetchInv, NEW r \in Requests, Fetched(r) PROVE FetchInv'
<1> DEFINE k == request[r].key
<1>1. UNCHANGED <<clock, failures>> /\ request[r].pc = "fetch" BY DEF Fetched
<1>2. PICK ok \in BOOLEAN :
       /\ flights' = IF flights[k].owner = r
                     THEN [flights EXCEPT ![k].state = IF ok THEN "done" ELSE "failed", ![k].at = clock] ELSE flights
       /\ request' = [q \in Requests |->
            IF q = r \/ (request[q].pc = "wait" /\ request[q].on = r)
            THEN [request[q] EXCEPT !.pc = IF q = r THEN "store" ELSE "answered", !.got = clock, !.ok = ok] ELSE request[q]]
  BY DEF Fetched
<1>3. k \in Keys /\ clock \in Nat /\ flights \in [Keys -> Flights] /\ request \in [Requests -> Calls]
  BY DEF FetchInv, FetchTyped, Calls
<1>4. /\ request' \in [Requests -> Calls]
      /\ \A q \in Requests : request'[q].key = request[q].key /\ request'[q].tracked = request[q].tracked
                             /\ request'[q].kind = request[q].kind
      /\ request'[r].pc = "store" /\ request'[r].got = clock /\ request'[r].ok = ok
      /\ \A q \in Requests : q # r => \/ request'[q] = request[q]
                                      \/ request[q].pc = "wait" /\ request'[q].pc = "answered" /\ request'[q].got = clock
  <2> HIDE DEF k
  <2>1. ASSUME NEW q \in Requests
        PROVE  /\ request'[q] \in Calls /\ request'[q].key = request[q].key /\ request'[q].tracked = request[q].tracked
               /\ request'[q].kind = request[q].kind
               /\ q = r => request'[r].pc = "store" /\ request'[r].got = clock /\ request'[r].ok = ok
               /\ q # r => \/ request'[q] = request[q]
                           \/ request[q].pc = "wait" /\ request'[q].pc = "answered" /\ request'[q].got = clock
    <3>1. request[q] \in Calls BY <1>3
    <3>2. CASE q = r \/ (request[q].pc = "wait" /\ request[q].on = r)
      <4>1. request'[q] = [request[q] EXCEPT !.pc = IF q = r THEN "store" ELSE "answered", !.got = clock, !.ok = ok]
        BY <1>2, <3>2
      <4> QED BY <1>3, <3>1, <3>2, <4>1 DEF Calls
    <3>3. CASE ~(q = r \/ (request[q].pc = "wait" /\ request[q].on = r))
      <4>1. request'[q] = request[q] BY <1>2, <3>3
      <4> QED BY <3>1, <3>3, <4>1
    <3> QED BY <3>2, <3>3
  <2>2. DOMAIN request' = Requests /\ request' = [q \in Requests |-> request'[q]] BY <1>2
  <2> QED BY <2>1, <2>2
<1> HIDE DEF k
<1>5. /\ flights' \in [Keys -> Flights] /\ \A q \in Keys : q # k => flights'[q] = flights[q]
      /\ flights[k].owner # r => flights' = flights
      /\ flights[k].owner = r => /\ flights'[k].owner = r /\ flights'[k].at = clock
                                 /\ flights'[k].state = IF ok THEN "done" ELSE "failed"
      /\ flights'[k].owner = flights[k].owner
  BY <1>2, <1>3 DEF Flights
<1>6. FetchTyped' BY <1>1, <1>4, <1>5 DEF FetchInv, FetchTyped
<1>7. /\ \A q \in Requests : Holding(q)' = Holding(q)
      /\ \A q \in Requests : q # r /\ Holding(q) => Outcome(q)' = Outcome(q)
      /\ Outcome(r)' = IF ok THEN "done" ELSE "failed"
  BY <1>1, <1>4 DEF Holding, Outcome
<1>8. EntryHasItsOwner'
  <2>1. \A q \in Requests : Holding(q)' => flights'[request'[q].key].owner = q
                                           /\ flights'[request'[q].key].state = Outcome(q)'
    <3>1. ASSUME NEW q \in Requests, Holding(q)'
          PROVE flights'[request'[q].key].owner = q /\ flights'[request'[q].key].state = Outcome(q)'
      <4>1. /\ request[q].key \in Keys /\ request'[q].key = request[q].key /\ flights[request[q].key].owner = q
            /\ flights[request[q].key].state = Outcome(q)
        BY <1>3, <1>4, <1>7, <3>1 DEF FetchInv, EntryHasItsOwner, Calls
      <4>2. CASE q = r BY <1>5, <1>7, <4>1, <4>2 DEF k
      <4>3. CASE q # r BY <1>5, <1>7, <3>1, <4>1, <4>3
      <4> QED BY <4>2, <4>3
    <3> QED BY <3>1
  <2>2. \A q \in Keys, s \in Requests : flights'[q].owner = s => Holding(s)' /\ request'[s].key = q
    BY <1>4, <1>5, <1>7 DEF FetchInv, EntryHasItsOwner
  <2> QED BY <2>1, <2>2 DEF EntryHasItsOwner
<1>9. ResultsAreDated'
  <2>1. \A q \in Keys : Ends(q)' => flights'[q] = flights[q] /\ Ends(q)
    BY <1>5, FetchAssumption DEF Ends
  <2>2. ASSUME NEW q \in Requests, request'[q].pc = "store"
        PROVE request'[q].got = clock /\ (request'[q].tracked => flights'[request'[q].key].at = clock)
    <3>1. CASE q = r BY <1>1, <1>4, <1>5, <3>1 DEF FetchInv, EntryHasItsOwner, Holding, k
    <3>2. CASE q # r
      <4>1. request'[q] = request[q] BY <1>4, <2>2, <3>2
      <4>2. request[q].tracked => request[q].key # k \/ flights' = flights
        BY <1>5, <2>2, <3>2, <4>1 DEF FetchInv, EntryHasItsOwner, Holding
      <4>3. request[q].key \in Keys BY <1>3 DEF Calls
      <4> QED BY <1>5, <2>2, <4>1, <4>2, <4>3 DEF FetchInv, ResultsAreDated
    <3> QED BY <3>1, <3>2
  <2> QED BY <1>1, <2>1, <2>2 DEF FetchInv, ResultsAreDated
<1>10. FreshEnough'
  <2>1. ASSUME NEW q \in Requests, request'[q].pc = "answered", request'[q].ok
        PROVE clock < request'[q].got + Reuse(request'[q].kind)
    <3>1. CASE request'[q] = request[q] BY <2>1, <3>1 DEF FetchInv, FreshEnough
    <3>2. CASE request'[q] # request[q]
      <4>1. request'[q].got = clock BY <1>4, <2>1, <3>2
      <4> QED BY <1>3, <4>1, ReuseIsPositive
    <3> QED BY <3>1, <3>2
  <2> QED BY <1>1, <2>1 DEF FreshEnough
<1> QED BY <1>6, <1>8, <1>9, <1>10 DEF FetchInv

LEMMA StoreKeeps == ASSUME FetchInv, NEW r \in Requests, Store(r) PROVE FetchInv'
<1> DEFINE k == request[r].key
<1>1. clock' = clock /\ request[r].pc = "store" /\ request' = [request EXCEPT ![r].pc = "answered"] BY DEF Store
<1>2. k \in Keys /\ clock \in Nat /\ flights \in [Keys -> Flights] /\ request \in [Requests -> Calls]
      /\ failures \in [Keys -> Nat] /\ FetchReuse \in Nat
  BY FetchAssumption DEF FetchInv, FetchTyped, Calls
<1>3. /\ request' \in [Requests -> Calls] /\ \A q \in Requests : q # r => request'[q] = request[q]
      /\ request'[r].pc = "answered" /\ request'[r].got = request[r].got /\ request'[r].kind = request[r].kind
  BY <1>1, <1>2 DEF Calls
<1>4. failures' \in [Keys -> Nat] BY <1>2 DEF Store
<1> DEFINE entry == IF request[r].ok
                    THEN [state |-> "done", owner |-> Nobody, expires |-> clock + FetchReuse, at |-> clock, count |-> 0]
                    ELSE [state |-> "failed", owner |-> Nobody, expires |-> clock + Cooldown(failures'[k]),
                          at |-> clock, count |-> failures'[k]]
<1>5. flights' = IF request[r].tracked THEN [flights EXCEPT ![k] = entry] ELSE flights
  BY DEF Store
<1>6. /\ entry \in Flights /\ entry.owner = Nobody
      /\ entry.state = "done" => entry.expires = entry.at + FetchReuse
      /\ entry.state = "failed" => entry.expires = entry.at + Cooldown(entry.count)
  <2>1. CASE request[r].ok BY <1>2, <2>1 DEF Flights, Expiries
  <2>2. CASE ~request[r].ok
    <3>1. failures'[k] \in Nat BY <1>2, <1>4
    <3>2. clock + Cooldown(failures'[k]) \in Expiries BY <1>2, <3>1 DEF Expiries
    <3> QED BY <1>2, <2>2, <3>1, <3>2 DEF Flights
  <2> QED BY <2>1, <2>2
<1> HIDE DEF entry, k
<1>7. /\ flights' \in [Keys -> Flights] /\ \A q \in Keys : q # k => flights'[q] = flights[q]
      /\ request[r].tracked => flights'[k] = entry
      /\ ~request[r].tracked => flights' = flights
  BY <1>2, <1>5, <1>6
<1>8. FetchTyped' BY <1>1, <1>2, <1>3, <1>4, <1>7 DEF FetchTyped
<1>9. ~Holding(r)' /\ \A q \in Requests : q # r => Holding(q)' = Holding(q) /\ Outcome(q)' = Outcome(q)
  BY <1>3 DEF Holding, Outcome
<1>10. \A q \in Requests : q # r /\ Holding(q) =>
         request[q].key \in Keys /\ flights'[request[q].key] = flights[request[q].key]
  <2>1. ASSUME NEW q \in Requests, q # r, Holding(q)
        PROVE request[q].key \in Keys /\ flights'[request[q].key] = flights[request[q].key]
    <3>1. request[q].key \in Keys /\ flights[request[q].key].owner = q
      BY <1>2, <2>1 DEF FetchInv, EntryHasItsOwner, Calls
    <3>2. request[r].tracked => flights[k].owner = r
      BY <1>1 DEF FetchInv, EntryHasItsOwner, Holding, k
    <3> QED BY <1>7, <2>1, <3>1, <3>2
  <2> QED BY <2>1
<1>11. EntryHasItsOwner'
  <2>1. \A q \in Requests : Holding(q)' => flights'[request'[q].key].owner = q
                                           /\ flights'[request'[q].key].state = Outcome(q)'
    BY <1>3, <1>9, <1>10 DEF FetchInv, EntryHasItsOwner
  <2>2. ASSUME NEW q \in Keys, NEW s \in Requests, flights'[q].owner = s
        PROVE Holding(s)' /\ request'[s].key = q
    <3>1. flights'[q] = flights[q] BY <1>6, <1>7, <2>2, FetchAssumption
    <3>2. Holding(s) /\ request[s].key = q BY <2>2, <3>1 DEF FetchInv, EntryHasItsOwner
    <3>3. s # r BY <1>6, <1>7, <2>2, <3>2, FetchAssumption DEF Holding, k
    <3> QED BY <1>3, <1>9, <3>2, <3>3
  <2> QED BY <2>1, <2>2 DEF EntryHasItsOwner
<1>12. ResultsAreDated'
  <2>1. \A q \in Keys : Ends(q)' =>
       /\ flights'[q].state = "done" => flights'[q].expires = flights'[q].at + FetchReuse
       /\ flights'[q].state = "failed" => flights'[q].expires = flights'[q].at + Cooldown(flights'[q].count)
    BY <1>6, <1>7 DEF FetchInv, ResultsAreDated, Ends
  <2>2. \A q \in Requests : request'[q].pc = "store" =>
       request'[q].got = clock /\ (request'[q].tracked => flights'[request'[q].key].at = clock)
    BY <1>3, <1>10 DEF FetchInv, ResultsAreDated, Holding
  <2> QED BY <1>1, <2>1, <2>2 DEF ResultsAreDated
<1>13. FreshEnough'
  <2>1. request[r].got = clock BY <1>1 DEF FetchInv, ResultsAreDated
  <2>2. clock < clock + Reuse(request[r].kind) BY <1>2, ReuseIsPositive
  <2> QED BY <1>1, <1>3, <2>1, <2>2 DEF FetchInv, FreshEnough
<1> QED BY <1>8, <1>11, <1>12, <1>13 DEF FetchInv

LEMMA ReturnKeeps == ASSUME FetchInv, NEW r \in Requests, Return(r) PROVE FetchInv'
<1>1. UNCHANGED <<clock, flights, failures>> /\ request[r].pc = "answered" /\ request' = [request EXCEPT ![r] = NoRequest]
  BY DEF Return
<1>2. /\ request' \in [Requests -> Calls] /\ request'[r] = NoRequest
      /\ \A q \in Requests : q # r => request'[q] = request[q]
  BY <1>1, Blank DEF FetchInv, FetchTyped
<1>3. ~Holding(r) /\ ~Holding(r)' /\ \A q \in Requests : q # r => Holding(q)' = Holding(q) /\ Outcome(q)' = Outcome(q)
  BY <1>1, <1>2, Blank DEF Holding, Outcome
<1>4. FetchTyped' BY <1>1, <1>2 DEF FetchInv, FetchTyped
<1>5. EntryHasItsOwner' BY <1>1, <1>2, <1>3 DEF FetchInv, EntryHasItsOwner
<1>6. ResultsAreDated' BY <1>1, <1>2, Blank DEF FetchInv, ResultsAreDated, Ends
<1>7. FreshEnough' BY <1>1, <1>2, Blank DEF FetchInv, FreshEnough
<1> QED BY <1>4, <1>5, <1>6, <1>7 DEF FetchInv

LEMMA FetchStarts == FetchInit => FetchInv
<1> SUFFICES ASSUME FetchInit PROVE FetchInv OBVIOUS
<1>1. FetchTyped BY Blank DEF FetchInit, FetchTyped
<1>2. EntryHasItsOwner BY Blank, FetchAssumption DEF FetchInit, EntryHasItsOwner, Holding
<1>3. ResultsAreDated BY Blank DEF FetchInit, ResultsAreDated
<1>4. FreshEnough BY Blank DEF FetchInit, FreshEnough
<1> QED BY <1>1, <1>2, <1>3, <1>4 DEF FetchInv

LEMMA FetchStep == ASSUME FetchInv, [FetchNext]_fetchVars, ~Overtaken PROVE FetchInv'
<1>1. CASE Pass BY <1>1, PassKeeps
<1>2. ASSUME NEW r \in Requests, Ask(r) PROVE FetchInv'
  BY <1>2, JoinKeeps, OwnKeeps DEF Ask
<1>3. CASE UNCHANGED fetchVars
  BY <1>3 DEF fetchVars, FetchInv, FetchTyped, EntryHasItsOwner, ResultsAreDated, FreshEnough, Holding, Outcome, Ends
<1> QED BY <1>1, <1>2, <1>3, FetchedKeeps, StoreKeeps, ReturnKeeps DEF FetchNext

(* A tracked fetch owns the entry of its subscription, so there is one.          *)
LEMMA FetchInvMeans == ASSUME FetchInv PROVE OneFlight /\ FreshEnough
BY DEF FetchInv, EntryHasItsOwner, OneFlight, Holding

(* What a step of the fetches may never do.                                      *)
CooldownStep ==
  \A r \in Requests : request[r].pc = "idle" /\ request'[r].pc = "fetch" =>
       LET f == flights[request'[r].key] IN f.state = "failed" => f.at + Cooldown(f.count) <= clock

LEMMA OwnWaitsForCooldown ==
  ASSUME FetchInv, NEW r \in Requests, NEW k \in Keys, NEW kind \in Kinds, Own(r, k, kind),
         NEW q \in Requests, request[q].pc = "idle", request'[q].pc = "fetch"
  PROVE  LET f == flights[request'[q].key] IN f.state = "failed" => f.at + Cooldown(f.count) <= clock
<1> DEFINE kept == {p \in Cached \ {k} : ~Expired(p)}
<1>1. PICK gone \in Evicted(kept, CacheRoom) :
        request' = [request EXCEPT ![r] = [NoRequest EXCEPT !.pc = "fetch", !.key = k, !.kind = kind,
                                             !.tracked = Cardinality(kept \ gone) < CacheRoom]]
  BY DEF Own
<1>2. q = r BY <1>1 DEF FetchInv, FetchTyped
<1>3. request'[q].key = k BY <1>1, <1>2, Blank DEF FetchInv, FetchTyped, Calls
<1>4. flights[k].state = "failed" => Ends(k) /\ flights[k].expires <= clock
  BY DEF Own, Usable, Expired, TooOld
<1>5. flights[k].state = "failed" => flights[k].expires = flights[k].at + Cooldown(flights[k].count)
  BY <1>4 DEF FetchInv, ResultsAreDated
<1> QED BY <1>3, <1>4, <1>5

LEMMA FetchIsCareful == ASSUME FetchInv, [FetchNext]_fetchVars PROVE CooldownStep
<1> SUFFICES ASSUME NEW q \in Requests, request[q].pc = "idle", request'[q].pc = "fetch"
             PROVE  LET f == flights[request'[q].key] IN f.state = "failed" => f.at + Cooldown(f.count) <= clock
  BY DEF CooldownStep
<1>1. request \in [Requests -> Calls] BY DEF FetchInv, FetchTyped
<1>2. CASE Pass \/ UNCHANGED fetchVars BY <1>2 DEF Pass, fetchVars
<1>3. ASSUME NEW r \in Requests, Ask(r)
      PROVE LET f == flights[request'[q].key] IN f.state = "failed" => f.at + Cooldown(f.count) <= clock
  <2>1. PICK k \in Keys, kind \in Kinds : Join(r, k, kind) \/ Own(r, k, kind) BY <1>3 DEF Ask
  <2>2. CASE Join(r, k, kind)
    <3>1. request'[q].pc # "fetch"
      BY <1>1, <2>2, Blank DEF Join, Calls
    <3> QED BY <3>1
  <2> QED BY <2>1, <2>2, OwnWaitsForCooldown
<1>4. ASSUME NEW r \in Requests, Fetched(r) PROVE FALSE
  BY <1>1, <1>4 DEF Fetched, Calls
<1>5. ASSUME NEW r \in Requests, Store(r) PROVE FALSE
  BY <1>1, <1>5 DEF Store, Calls
<1>6. ASSUME NEW r \in Requests, Return(r) PROVE FALSE
  BY <1>1, <1>6, Blank DEF Return, Calls
<1> QED BY <1>2, <1>3, <1>4, <1>5, <1>6 DEF FetchNext

-------------------------------------------------------------------------------
(* What clients download: a delivery carries what it fetched, and may write only *)
(* what it has checked.                                                          *)

SourceNames == SourceKinds \cup {"none"}
Origins == {"none", "cache", "refused", "absent", "download", "url", "fallback"}
FetchedSources == [origin : Origins, kind : SourceNames, born : Nat]
DatedEntries == {x \in [kind : SourceNames, born : Nat, at : Nat] : x.at = x.born}
DeliveryRecords == [pc : {"none", "fetch", "commit", "serve"}, want : SUBSET Providers,
                    source : [Subs -> FetchedSources], staged : SUBSET Subs]

DeliveryTyped ==
  /\ today \in Nat /\ edition \in Editions
  /\ remote \in [Subs -> SourceKinds \cup {"down"}]
  /\ nodeCache \in [Subs -> DatedEntries]
  /\ download \in [Subs -> DatedEntries]
  /\ byHand \in [Subs -> DatedEntries]
  /\ deliveries \in [Targets -> [Editions -> DeliveryRecords]]

(* Sound, of a delivery that is not yet, or no longer, the one in flight.         *)
Fit(t, e, d) ==
  LET parts == {Has(d, p) : p \in IF t = "all" THEN {"agg"} ELSE {t}} \cup {Has(d, p) : p \in d.want} IN
  /\ \A x \in parts : "bad" \notin x
  /\ HasChains(e) \/ (\E x \in parts : "dialing" \in x)
       => \A p \in Providers : Has(d, p) # {} /\ "loose" \notin Has(d, p)

(* Fitness is a matter of what is wanted and what was fetched.                    *)
LEMMA FitIsOfContent ==
  ASSUME NEW t, NEW e, NEW d, NEW n, n.want = d.want, n.source = d.source
  PROVE  Fit(t, e, n) <=> Fit(t, e, d)
<1>1. \A p : Has(n, p) = Has(d, p) BY DEF Has
<1> HIDE DEF Has
<1> DEFINE S(x) == {Has(x, p) : p \in IF t = "all" THEN {"agg"} ELSE {t}} \cup {Has(x, p) : p \in x.want}
<1>2. S(n) = S(d) BY <1>1
<1>3. Fit(t, e, d) <=>
        /\ \A x \in S(d) : "bad" \notin x
        /\ HasChains(e) \/ (\E x \in S(d) : "dialing" \in x)
             => \A p \in Providers : Has(d, p) # {} /\ "loose" \notin Has(d, p)
  BY DEF Fit
<1>4. Fit(t, e, n) <=>
        /\ \A x \in S(n) : "bad" \notin x
        /\ HasChains(e) \/ (\E x \in S(n) : "dialing" \in x)
             => \A p \in Providers : Has(n, p) # {} /\ "loose" \notin Has(n, p)
  BY DEF Fit
<1> HIDE DEF S
<1> QED BY <1>1, <1>2, <1>3, <1>4

(* Nothing malformed is carried on, and what may write is checked.                *)
IsCareful(t, e, d) ==
  /\ d.pc # "commit" => d.staged = {}
  /\ \A s \in Subs : d.source[s].kind # "bad"
  /\ d.pc \in {"commit", "serve"} => Fit(t, e, d)

DeliveryInv == DeliveryTyped /\ \A t \in Targets, e \in Editions : IsCareful(t, e, deliveries[t][e])

LEMMA SoundIsFit == \A t, e : Sound(t, e) <=> Fit(t, e, deliveries[t][e])
BY DEF Sound, Fit

LEMMA NoDeliveryIsCareful == NoDelivery \in DeliveryRecords /\ \A t, e : IsCareful(t, e, NoDelivery)
BY DeliveryAssumption DEF NoDelivery, NoSource, DeliveryRecords, FetchedSources, Origins, SourceNames, IsCareful

LEMMA NoDataIsDated == NoData \in DatedEntries
BY DEF NoData, DatedEntries, SourceNames

LEMMA DatedIsDated == \A k \in SourceNames, b \in Nat : Dated(k, b) \in DatedEntries
BY DEF Dated, DatedEntries

(* What a source gives is typed, and what it calls current is within its interval. *)
LEMMA SourceIsFresh ==
  ASSUME DeliveryTyped, NEW s \in Subs
  PROVE  /\ Source(s) \in FetchedSources
         /\ Source(s).origin = "url" => Source(s).kind \in SourceKinds
         /\ Source(s).origin \in {"cache", "download"} /\ Interval[s] > 0 => today - Source(s).born < Interval[s]
<1>1. nodeCache[s] \in DatedEntries /\ download[s] \in DatedEntries /\ remote[s] \in SourceKinds \cup {"down"}
      /\ today \in Nat /\ Interval[s] \in Nat
  BY DeliveryAssumption DEF DeliveryTyped
<1>2. CASE nodeCache[s] # NoData /\ (Interval[s] = 0 \/ Fresh(nodeCache[s], s))
  <2>1. Source(s) = FromCache(s, "cache") BY <1>2 DEF Source
  <2> QED BY <1>1, <1>2, <2>1 DEF FromCache, Fresh, FetchedSources, Origins, DatedEntries, SourceNames
<1>3. CASE nodeCache[s] = NoData /\ Interval[s] = 0
  <2>1. Source(s) = [NoSource EXCEPT !.origin = "refused"] BY <1>3 DEF Source
  <2> QED BY <2>1 DEF NoSource, FetchedSources, Origins, SourceNames
<1>4. CASE ~(nodeCache[s] # NoData /\ (Interval[s] = 0 \/ Fresh(nodeCache[s], s)))
           /\ ~(nodeCache[s] = NoData /\ Interval[s] = 0)
  <2>1. CASE Fresh(download[s], s)
    <3>1. Source(s) = [origin |-> "download", kind |-> download[s].kind, born |-> download[s].born]
      BY <1>4, <2>1 DEF Source
    <3> QED BY <1>1, <2>1, <3>1 DEF Fresh, FetchedSources, Origins, DatedEntries, SourceNames
  <2>2. CASE ~Fresh(download[s], s) /\ remote[s] # "down"
    <3>1. Source(s) = [origin |-> "url", kind |-> remote[s], born |-> today]
      BY <1>4, <2>2 DEF Source
    <3> QED BY <1>1, <2>2, <3>1 DEF FetchedSources, Origins, SourceNames
  <2>3. CASE ~Fresh(download[s], s) /\ remote[s] = "down"
    <3>1. Source(s) = IF nodeCache[s] # NoData THEN FromCache(s, "fallback") ELSE [NoSource EXCEPT !.origin = "absent"]
      BY <1>4, <2>3 DEF Source
    <3> QED BY <1>1, <3>1 DEF FromCache, NoSource, FetchedSources, Origins, DatedEntries, SourceNames
  <2> QED BY <2>1, <2>2, <2>3
<1> QED BY <1>2, <1>3, <1>4

(* A delivery that is put in the place of another disturbs no third one.          *)
LEMMA PutKeeps ==
  ASSUME DeliveryInv, NEW t \in Targets, NEW e \in Editions, NEW d \in DeliveryRecords,
         IsCareful(t, e, d), Put(t, e, d)
  PROVE  /\ deliveries' \in [Targets -> [Editions -> DeliveryRecords]]
         /\ \A u \in Targets, f \in Editions : IsCareful(u, f, deliveries'[u][f])
         /\ \A u \in Targets, f \in Editions : deliveries'[u][f] = IF u = t /\ f = e THEN d ELSE deliveries[u][f]
<1>1. \A u \in Targets, f \in Editions : deliveries'[u][f] = IF u = t /\ f = e THEN d ELSE deliveries[u][f]
  BY DEF Put, DeliveryInv, DeliveryTyped
<1>2. deliveries' \in [Targets -> [Editions -> DeliveryRecords]]
  BY DEF Put, DeliveryInv, DeliveryTyped
<1>3. \A u \in Targets, f \in Editions : IsCareful(u, f, deliveries'[u][f])
  <2> TAKE u \in Targets, f \in Editions
  <2>1. IsCareful(u, f, deliveries[u][f]) BY DEF DeliveryInv
  <2>2. CASE u = t /\ f = e
    <3>1. deliveries'[u][f] = d BY <1>1, <2>2
    <3> QED BY <2>2, <3>1
  <2>3. CASE ~(u = t /\ f = e)
    <3>1. deliveries'[u][f] = deliveries[u][f] BY <1>1, <2>3
    <3> QED BY <2>1, <3>1
  <2> QED BY <2>2, <2>3
<1> QED BY <1>1, <1>2, <1>3

(* What a delivery writes, and what it takes for current.                         *)
WholeStep ==
  /\ \A s \in Subs : nodeCache'[s] # nodeCache[s] =>
       \/ byHand[s] # NoData /\ byHand'[s] = NoData
       \/ \E t \in Targets, e \in Editions : s \in deliveries[t][e].staged /\ Sound(t, e)
  /\ \A p \in Providers : lastAnswer'[p] # lastAnswer[p] =>
       \E e \in Editions : deliveries'[p][e] # deliveries[p][e] /\ Sound(p, e)
  /\ artifact' # artifact => \E t \in Providers, e \in Editions :
       deliveries'[t][e] # deliveries[t][e] /\ Sound(t, e) /\ artifact' = Has(deliveries[t][e], "agg")

FreshStep ==
  \A t \in Targets, e \in Editions, s \in Subs :
    LET r == deliveries'[t][e].source[s] IN
    /\ deliveries[t][e].source[s] = NoSource
    /\ r.origin \in {"cache", "download"} /\ Interval[s] > 0
    => today - r.born < Interval[s]

(* Most steps fetch nothing.                                                      *)
LEMMA NothingFetched ==
  ASSUME \A t \in Targets, e \in Editions, s \in Subs :
           deliveries'[t][e].source[s] \in {deliveries[t][e].source[s], NoSource}
  PROVE  FreshStep
<1> SUFFICES ASSUME NEW t \in Targets, NEW e \in Editions, NEW s \in Subs,
                    deliveries[t][e].source[s] = NoSource,
                    deliveries'[t][e].source[s].origin \in {"cache", "download"}
             PROVE  FALSE
  BY DEF FreshStep
<1> QED BY DEF NoSource

(* A step that puts an unchanged source, or none, fetches nothing.                 *)
LEMMA PutFetchesNothing ==
  ASSUME DeliveryInv, NEW t \in Targets, NEW e \in Editions, NEW d \in DeliveryRecords,
         IsCareful(t, e, d), Put(t, e, d), d.source = deliveries[t][e].source \/ d = NoDelivery
  PROVE  FreshStep
<1>1. \A u \in Targets, f \in Editions : deliveries'[u][f] = IF u = t /\ f = e THEN d ELSE deliveries[u][f]
  BY PutKeeps
<1>2. NoDelivery.source = [s \in Subs |-> NoSource]
  BY DEF NoDelivery
<1>3. \A u \in Targets, f \in Editions, s \in Subs :
        deliveries'[u][f].source[s] \in {deliveries[u][f].source[s], NoSource}
  BY <1>1, <1>2
<1> QED BY <1>3, NothingFetched

LEMMA SameDeliveries ==
  ASSUME DeliveryInv, UNCHANGED deliveries
  PROVE  /\ deliveries' \in [Targets -> [Editions -> DeliveryRecords]]
         /\ \A t \in Targets, e \in Editions : IsCareful(t, e, deliveries'[t][e])
         /\ FreshStep
<1>1. deliveries' \in [Targets -> [Editions -> DeliveryRecords]]
  BY DEF DeliveryInv, DeliveryTyped
<1>2. \A t \in Targets, e \in Editions : IsCareful(t, e, deliveries'[t][e])
  BY DEF DeliveryInv
<1>3. FreshStep
  BY NothingFetched
<1> QED BY <1>1, <1>2, <1>3

(* The parts of the invariant that no delivery touches.                            *)
DataTyped ==
  /\ today \in Nat /\ edition \in Editions
  /\ remote \in [Subs -> SourceKinds \cup {"down"}]
  /\ nodeCache \in [Subs -> DatedEntries]
  /\ download \in [Subs -> DatedEntries]
  /\ byHand \in [Subs -> DatedEntries]

LEMMA InvIsSplit ==
  DeliveryInv <=> /\ DataTyped /\ deliveries \in [Targets -> [Editions -> DeliveryRecords]]
                  /\ \A t \in Targets, e \in Editions : IsCareful(t, e, deliveries[t][e])
BY DEF DeliveryInv, DeliveryTyped, DataTyped

(* The step of the whole is put together from its data and its deliveries.         *)
DeliveriesKept ==
  /\ deliveries' \in [Targets -> [Editions -> DeliveryRecords]]
  /\ \A t \in Targets, e \in Editions : IsCareful(t, e, deliveries'[t][e])

LEMMA StepIsSplit == ASSUME DataTyped', DeliveriesKept PROVE DeliveryInv'
BY DEF DeliveryInv, DeliveryTyped, DataTyped, DeliveriesKept, IsCareful, Fit, Has, HasChains

LEMMA BeginKeeps ==
  ASSUME DeliveryInv, NEW t \in Targets, Begin(t)
  PROVE  DeliveriesKept /\ FreshStep
<1> DEFINE d == [NoDelivery EXCEPT !.pc = "fetch",
                                   !.want = IF HasChains(edition) /\ t # "all" THEN Providers ELSE {t} \ {"all"}]
<1>1. edition \in Editions BY DEF DeliveryInv, DeliveryTyped
<1>2. d \in DeliveryRecords
  BY NoDeliveryIsCareful DEF DeliveryRecords, Targets
<1>3. d.pc = "fetch" /\ d.staged = {} /\ d.source = [s \in Subs |-> NoSource]
  BY DEF NoDelivery
<1>4. IsCareful(t, edition, d)
  BY <1>3 DEF IsCareful, NoSource
<1>5. Put(t, edition, d) BY DEF Begin
<1>6. deliveries[t][edition] = NoDelivery BY DEF Begin
<1>7. d.source = deliveries[t][edition].source BY <1>3, <1>6 DEF NoDelivery
<1> HIDE DEF d
<1> QED BY <1>1, <1>2, <1>4, <1>5, <1>7, PutKeeps, PutFetchesNothing DEF DeliveriesKept

LEMMA RefuseKeeps ==
  ASSUME DeliveryInv, NEW t \in Targets, NEW e \in Editions, Put(t, e, NoDelivery)
  PROVE  DeliveriesKept /\ FreshStep
BY NoDeliveryIsCareful, PutKeeps, PutFetchesNothing DEF DeliveriesKept

LEMMA FetchKeeps ==
  ASSUME DeliveryInv, NEW t \in Targets, NEW e \in Editions, NEW s \in Subs, Fetch(t, e, s)
  PROVE  DeliveriesKept /\ FreshStep
<1> DEFINE d == deliveries[t][e]
           r == Source(s)
           new == [d EXCEPT !.source[s] = r]
<1>1. DeliveryTyped /\ d \in DeliveryRecords /\ IsCareful(t, e, d)
  BY DEF DeliveryInv, DeliveryTyped
<1>2. d.pc = "fetch" BY DEF Fetch
<1>3. CASE r.origin = "refused" \/ r.kind = "bad"
  <2>1. Put(t, e, NoDelivery) BY <1>3 DEF Fetch, Refuse
  <2> QED BY <2>1, RefuseKeeps
<1>4. CASE ~(r.origin = "refused" \/ r.kind = "bad")
  <2>1. Put(t, e, new) BY <1>4 DEF Fetch
  <2>2. r \in FetchedSources /\ (r.origin \in {"cache", "download"} /\ Interval[s] > 0 => today - r.born < Interval[s])
    BY <1>1, SourceIsFresh
  <2> HIDE DEF r
  <2>3. new \in DeliveryRecords /\ new.pc = "fetch" /\ new.staged = d.staged
        /\ \A z \in Subs : new.source[z] = IF z = s THEN r ELSE d.source[z]
    BY <1>1, <1>2, <2>2 DEF DeliveryRecords
  <2>4. IsCareful(t, e, new)
    BY <1>1, <1>2, <1>4, <2>3 DEF IsCareful
  <2> HIDE DEF new
  <2>5. DeliveriesKept
        /\ \A u \in Targets, f \in Editions : deliveries'[u][f] = IF u = t /\ f = e THEN new ELSE deliveries[u][f]
    BY <2>1, <2>3, <2>4, PutKeeps DEF DeliveriesKept
  <2>6. FreshStep
    <3> SUFFICES ASSUME NEW u \in Targets, NEW f \in Editions, NEW z \in Subs,
                        deliveries[u][f].source[z] = NoSource,
                        deliveries'[u][f].source[z].origin \in {"cache", "download"}, Interval[z] > 0
                 PROVE  today - deliveries'[u][f].source[z].born < Interval[z]
      BY DEF FreshStep
    <3>1. CASE u = t /\ f = e /\ z = s
      BY <2>2, <2>3, <2>5, <3>1
    <3>2. CASE ~(u = t /\ f = e /\ z = s)
      <4>1. deliveries'[u][f].source[z] = deliveries[u][f].source[z] BY <2>3, <2>5, <3>2
      <4> QED BY <4>1 DEF NoSource
    <3> QED BY <3>1, <3>2
  <2> QED BY <2>5, <2>6
<1> QED BY <1>3, <1>4

(* What passes the validation is fit for the clients.                              *)
LEMMA AcceptedIsFit ==
  ASSUME NEW t \in Targets, NEW e \in Editions, NEW d \in DeliveryRecords, IsCareful(t, e, d),
         ~(Active(e, d) /\ d.want # Providers), Accepted(e, d)
  PROVE  Fit(t, e, d)
<1> DEFINE parts == {Has(d, p) : p \in IF t = "all" THEN {"agg"} ELSE {t}} \cup {Has(d, p) : p \in d.want}
<1>1. \A x \in parts : \A k \in x : \E s \in Subs : d.source[s].kind = k
  <2>1. t = "all" \/ t \in Providers BY DEF Targets
  <2>2. d.want \subseteq Providers BY DEF DeliveryRecords
  <2>3. \A p \in Providers : \A k \in Has(d, p) : \E s \in Subs : d.source[s].kind = k
    BY DEF Has
  <2>4. "agg" \in Providers BY DEF Providers
  <2> QED BY <2>1, <2>2, <2>3, <2>4
<1>2. \A x \in parts : "bad" \notin x
  BY <1>1 DEF IsCareful
<1>3. ASSUME HasChains(e) \/ \E x \in parts : "dialing" \in x
      PROVE  \A p \in Providers : Has(d, p) # {} /\ "loose" \notin Has(d, p)
  <2>1. Active(e, d) BY <1>1, <1>3 DEF Active, Dials
  <2> QED BY <2>1 DEF Accepted
<1> QED BY <1>2, <1>3 DEF Fit

LEMMA ValidateKeeps ==
  ASSUME DeliveryInv, NEW t \in Targets, NEW e \in Editions, Validate(t, e)
  PROVE  DeliveriesKept /\ FreshStep
<1> DEFINE d == deliveries[t][e]
<1>1. d \in DeliveryRecords /\ IsCareful(t, e, d)
  BY DEF DeliveryInv, DeliveryTyped
<1>2. d.pc = "fetch" BY DEF Validate
<1>3. CASE Active(e, d) /\ d.want # Providers
  <2> DEFINE new == [d EXCEPT !.want = Providers]
  <2>1. Put(t, e, new) BY <1>3 DEF Validate
  <2>2. new \in DeliveryRecords /\ new.pc = "fetch" /\ new.staged = d.staged /\ new.source = d.source
    BY <1>1, <1>2 DEF DeliveryRecords
  <2>3. IsCareful(t, e, new) BY <1>1, <1>2, <2>2 DEF IsCareful
  <2> HIDE DEF new
  <2> QED BY <2>1, <2>2, <2>3, PutKeeps, PutFetchesNothing DEF DeliveriesKept
<1>4. CASE ~(Active(e, d) /\ d.want # Providers) /\ Accepted(e, d)
  <2> DEFINE new == [d EXCEPT !.pc = "commit", !.staged = Staged(t, e, d)]
  <2>1. Put(t, e, new) BY <1>4 DEF Validate
  <2>2. Staged(t, e, d) \subseteq Subs BY DEF Staged, Dry
  <2>3. new \in DeliveryRecords /\ new.pc = "commit" /\ new.want = d.want /\ new.source = d.source
    BY <1>1, <2>2 DEF DeliveryRecords
  <2>4. Fit(t, e, d) BY <1>1, <1>4, AcceptedIsFit
  <2>5. IsCareful(t, e, new) BY <1>1, <2>3, <2>4, FitIsOfContent DEF IsCareful
  <2> HIDE DEF new
  <2> QED BY <2>1, <2>3, <2>5, PutKeeps, PutFetchesNothing DEF DeliveriesKept
<1>5. CASE ~(Active(e, d) /\ d.want # Providers) /\ ~Accepted(e, d)
  <2>1. Put(t, e, NoDelivery) BY <1>5 DEF Validate, Refuse
  <2> QED BY <2>1, RefuseKeeps
<1> QED BY <1>3, <1>4, <1>5

LEMMA CommitKeeps ==
  ASSUME DeliveryInv, NEW t \in Targets, NEW e \in Editions,
         CommitArtifact(t, e) \/ \E s \in Subs : CommitCache(t, e, s)
  PROVE  DeliveriesKept /\ FreshStep
<1> DEFINE d == deliveries[t][e]
<1>1. d \in DeliveryRecords /\ IsCareful(t, e, d) /\ d.pc = "commit"
  BY DEF DeliveryInv, DeliveryTyped, CommitArtifact, CommitCache
<1>2. CASE CommitArtifact(t, e)
  <2> DEFINE new == [d EXCEPT !.pc = "serve"]
  <2>1. Put(t, e, new) /\ d.staged = {} BY <1>2 DEF CommitArtifact
  <2>2. new \in DeliveryRecords /\ new.pc = "serve" /\ new.staged = {} /\ new.want = d.want /\ new.source = d.source
    BY <1>1, <2>1 DEF DeliveryRecords
  <2>3. IsCareful(t, e, new) BY <1>1, <2>2, FitIsOfContent DEF IsCareful
  <2> HIDE DEF new
  <2> QED BY <2>1, <2>2, <2>3, PutKeeps, PutFetchesNothing DEF DeliveriesKept
<1>3. ASSUME NEW s \in Subs, CommitCache(t, e, s) PROVE DeliveriesKept /\ FreshStep
  <2> DEFINE new == [d EXCEPT !.staged = @ \ {s}]
  <2>1. Put(t, e, new) BY <1>3 DEF CommitCache
  <2>2. new \in DeliveryRecords /\ new.pc = "commit" /\ new.want = d.want /\ new.source = d.source
    BY <1>1 DEF DeliveryRecords
  <2>3. IsCareful(t, e, new) BY <1>1, <2>2, FitIsOfContent DEF IsCareful
  <2> HIDE DEF new
  <2> QED BY <2>1, <2>2, <2>3, PutKeeps, PutFetchesNothing DEF DeliveriesKept
<1> HIDE DEF d
<1> QED BY <1>2, <1>3

(* The data: whatever is written carries the date of its download.                  *)
LEMMA CacheKeeps ==
  ASSUME DeliveryInv, NEW t \in Targets, NEW e \in Editions, NEW s \in Subs, CommitCache(t, e, s)
  PROVE  nodeCache' \in [Subs -> DatedEntries]
<1>1. deliveries[t][e] \in DeliveryRecords /\ nodeCache \in [Subs -> DatedEntries]
  BY DEF DeliveryInv, DeliveryTyped
<1>2. deliveries[t][e].source[s] \in FetchedSources BY <1>1 DEF DeliveryRecords
<1>3. Dated(deliveries[t][e].source[s].kind, deliveries[t][e].source[s].born) \in DatedEntries
  BY <1>2, DatedIsDated DEF FetchedSources
<1> HIDE DEF DatedEntries
<1> QED BY <1>1, <1>3 DEF CommitCache

LEMMA DownloadKeeps ==
  ASSUME DeliveryInv, NEW t \in Targets, NEW e \in Editions, NEW s \in Subs, Fetch(t, e, s)
  PROVE  download' \in [Subs -> DatedEntries]
<1>1. DeliveryTyped /\ today \in Nat /\ download \in [Subs -> DatedEntries]
  BY DEF DeliveryInv, DeliveryTyped
<1>2. CASE Source(s).origin = "url"
  <2>1. Dated(Source(s).kind, today) \in DatedEntries
    BY <1>1, <1>2, SourceIsFresh, DatedIsDated DEF SourceNames
  <2>2. download' = [download EXCEPT ![s] = Dated(Source(s).kind, today)] BY <1>2 DEF Fetch
  <2> QED BY <1>1, <2>1, <2>2
<1>3. CASE Source(s).origin # "url"
  BY <1>1, <1>3 DEF Fetch
<1> QED BY <1>2, <1>3

LEMMA ByHandKeeps ==
  ASSUME DeliveryInv, NEW s \in Subs, Download(s) \/ Keep(s)
  PROVE  DataTyped'
<1>1. DataTyped BY InvIsSplit
<1>2. CASE Download(s)
  <2>1. Dated(remote[s], today) \in DatedEntries
    BY <1>1, <1>2, DatedIsDated DEF DataTyped, Download, SourceNames
  <2> QED BY <1>1, <1>2, <2>1 DEF DataTyped, Download
<1>3. CASE Keep(s)
  <2>1. byHand[s] \in DatedEntries /\ NoData \in DatedEntries BY <1>1, NoDataIsDated DEF DataTyped
  <2> QED BY <1>1, <1>3, <2>1 DEF DataTyped, Keep, world
<1> QED BY <1>2, <1>3

(* One step of the deliveries.                                                    *)
LEMMA DeliveryStarts == ASSUME DeliveryInit PROVE DeliveryInv
<1>1. \A k \in SourceKinds : Dated(k, 0) \in DatedEntries
  BY DatedIsDated DEF SourceNames
<1>2. DataTyped
  <2>1. {NoData} \cup {Dated(c, 0) : c \in SourceKinds} \subseteq DatedEntries
    BY <1>1, NoDataIsDated
  <2>2. nodeCache \in [Subs -> DatedEntries] BY <2>1 DEF DeliveryInit
  <2>3. download \in [Subs -> DatedEntries] /\ byHand = download BY NoDataIsDated DEF DeliveryInit
  <2>4. today \in Nat /\ edition \in Editions /\ remote \in [Subs -> SourceKinds \cup {"down"}]
    BY DeliveryAssumption DEF DeliveryInit, Editions
  <2> QED BY <2>2, <2>3, <2>4 DEF DataTyped
<1>3. deliveries \in [Targets -> [Editions -> DeliveryRecords]]
      /\ \A t \in Targets, e \in Editions : deliveries[t][e] = NoDelivery
  BY NoDeliveryIsCareful DEF DeliveryInit
<1> QED BY <1>2, <1>3, NoDeliveryIsCareful, InvIsSplit

LEMMA DeliveryStep == ASSUME DeliveryInv, [DeliveryNext]_deliveryVars PROVE DeliveryInv' /\ FreshStep
<1>1. DataTyped BY InvIsSplit
<1>2. ASSUME UNCHANGED <<today, edition, remote, data>> PROVE DataTyped'
  BY <1>1, <1>2 DEF data, DataTyped
<1>3. ASSUME UNCHANGED deliveries PROVE DeliveriesKept /\ FreshStep
  BY <1>3, SameDeliveries DEF DeliveriesKept
<1>4. ASSUME NEW p \in Providers, AskProvider(p) PROVE DeliveryInv' /\ FreshStep
  <2>1. DataTyped' BY <1>4, <1>2 DEF AskProvider, world
  <2>2. CASE Begin(p)
    BY <2>1, <2>2, BeginKeeps, StepIsSplit DEF Targets
  <2>3. CASE ~Begin(p)
    <3>1. UNCHANGED deliveries BY <1>4, <2>3 DEF AskProvider
    <3> QED BY <2>1, <3>1, <1>3, StepIsSplit
  <2> QED BY <2>2, <2>3
<1>5. ASSUME AskAll PROVE DeliveryInv' /\ FreshStep
  <2>1. DataTyped' BY <1>5, <1>2 DEF AskAll, world
  <2>2. Begin("all") BY <1>5 DEF AskAll
  <2> QED BY <2>1, <2>2, BeginKeeps, StepIsSplit DEF Targets
<1>6. ASSUME NEW t \in Targets, NEW e \in Editions,
             Validate(t, e) \/ CommitArtifact(t, e) \/ Serve(t, e)
      PROVE  DeliveryInv' /\ FreshStep
  <2>1. DataTyped' BY <1>6, <1>2 DEF Validate, CommitArtifact, Serve, world
  <2>2. DeliveriesKept /\ FreshStep
    <3>1. CASE Serve(t, e)
      <4>1. Put(t, e, NoDelivery) BY <3>1 DEF Serve
      <4> QED BY <4>1, RefuseKeeps
    <3> QED BY <1>6, <3>1, ValidateKeeps, CommitKeeps
  <2> QED BY <2>1, <2>2, StepIsSplit
<1>7. ASSUME NEW t \in Targets, NEW e \in Editions, NEW s \in Subs, Fetch(t, e, s)
      PROVE  DeliveryInv' /\ FreshStep
  <2>1. DeliveriesKept /\ FreshStep BY <1>7, FetchKeeps
  <2>2. download' \in [Subs -> DatedEntries] BY <1>7, DownloadKeeps
  <2>3. DataTyped' BY <1>1, <1>7, <2>2 DEF DataTyped, Fetch, world
  <2> QED BY <2>1, <2>3, StepIsSplit
<1>8. ASSUME NEW t \in Targets, NEW e \in Editions, NEW s \in Subs, CommitCache(t, e, s)
      PROVE  DeliveryInv' /\ FreshStep
  <2>1. DeliveriesKept /\ FreshStep BY <1>8, CommitKeeps
  <2>2. nodeCache' \in [Subs -> DatedEntries] BY <1>8, CacheKeeps
  <2>3. DataTyped' BY <1>1, <1>8, <2>2 DEF DataTyped, CommitCache, world
  <2> QED BY <2>1, <2>3, StepIsSplit
<1>9. ASSUME NEW s \in Subs, Download(s) \/ Keep(s) PROVE DeliveryInv' /\ FreshStep
  <2>1. UNCHANGED deliveries BY <1>9 DEF Download, Keep
  <2> QED BY <1>9, <2>1, <1>3, ByHandKeeps, StepIsSplit
<1>10. ASSUME NEW s \in Subs, SourceChanges(s) PROVE DeliveryInv' /\ FreshStep
  <2>1. UNCHANGED deliveries /\ UNCHANGED <<today, edition, data>> BY <1>10 DEF SourceChanges
  <2>2. remote' \in [Subs -> SourceKinds \cup {"down"}] BY <1>1, <1>10 DEF SourceChanges, DataTyped
  <2>3. DataTyped' BY <1>1, <2>1, <2>2 DEF DataTyped, data
  <2> QED BY <2>1, <2>3, <1>3, StepIsSplit
<1>11. CASE Edit
  <2>1. UNCHANGED deliveries BY <1>11 DEF Edit
  <2>2. edition' \in Editions BY <1>1, <1>11, DeliveryAssumption DEF Edit, Editions, DataTyped
  <2>3. DataTyped' BY <1>1, <1>11, <2>2 DEF Edit, DataTyped, data
  <2> QED BY <2>1, <2>3, <1>3, StepIsSplit
<1>12. CASE DayPasses
  <2>1. UNCHANGED deliveries BY <1>12 DEF DayPasses
  <2>2. DataTyped' BY <1>1, <1>12 DEF DayPasses, DataTyped, data
  <2> QED BY <2>1, <2>2, <1>3, StepIsSplit
<1>13. CASE Restart
  <2>1. \A t \in Targets, e \in Editions : deliveries'[t][e] = NoDelivery BY <1>13 DEF Restart
  <2>2. DeliveriesKept BY <1>13, NoDeliveryIsCareful DEF Restart, DeliveriesKept
  <2>3. NoDelivery.source = [s \in Subs |-> NoSource] BY DEF NoDelivery
  <2>4. FreshStep BY <2>1, <2>3, NothingFetched
  <2>5. byHand' \in [Subs -> DatedEntries] BY <1>13, NoDataIsDated DEF Restart
  <2>6. DataTyped' BY <1>1, <1>13, <2>5 DEF Restart, DataTyped
  <2> QED BY <2>2, <2>4, <2>6, StepIsSplit
<1>14. ASSUME NEW p \in Providers, TimeOut(p) PROVE DeliveryInv' /\ FreshStep
  <2>1. DataTyped' BY <1>14, <1>2 DEF TimeOut, world
  <2>2. UNCHANGED deliveries BY <1>14 DEF TimeOut
  <2> QED BY <2>1, <2>2, <1>3, StepIsSplit
<1>15. CASE UNCHANGED deliveryVars
  <2>1. UNCHANGED deliveries BY <1>15 DEF deliveryVars
  <2>2. DataTyped' BY <1>15, <1>2 DEF deliveryVars, data
  <2> QED BY <2>1, <2>2, <1>3, StepIsSplit
<1> QED BY <1>4, <1>5, <1>6, <1>7, <1>8, <1>9, <1>10, <1>11, <1>12, <1>13, <1>14, <1>15 DEF DeliveryNext

LEMMA DeliveryIsWhole == ASSUME DeliveryInv, [DeliveryNext]_deliveryVars PROVE WholeStep
<1>1. ASSUME UNCHANGED <<nodeCache, lastAnswer, artifact>> PROVE WholeStep
  BY <1>1 DEF WholeStep
<1>2. ASSUME NEW t \in Targets, NEW e \in Editions
      PROVE  /\ deliveries[t][e] \in DeliveryRecords /\ IsCareful(t, e, deliveries[t][e])
             /\ (Sound(t, e) <=> Fit(t, e, deliveries[t][e]))
             /\ \A d : Put(t, e, d) => deliveries'[t][e] = d
  BY SoundIsFit DEF DeliveryInv, DeliveryTyped, Put
<1>3. ASSUME NEW t \in Targets, NEW e \in Editions, NEW s \in Subs, CommitCache(t, e, s) PROVE WholeStep
  <2>1. Sound(t, e) /\ s \in deliveries[t][e].staged
    BY <1>2, <1>3 DEF CommitCache, IsCareful
  <2>2. \A z \in Subs : nodeCache'[z] # nodeCache[z] => z = s
    BY <1>3 DEF CommitCache, DeliveryInv, DeliveryTyped
  <2>3. UNCHANGED <<lastAnswer, artifact>> BY <1>3 DEF CommitCache, answers
  <2> QED BY <2>1, <2>2, <2>3 DEF WholeStep
<1>4. ASSUME NEW t \in Targets, NEW e \in Editions, CommitArtifact(t, e) PROVE WholeStep
  <2> DEFINE d == deliveries[t][e]
  <2>1. UNCHANGED <<nodeCache, lastAnswer>> /\ Sound(t, e) /\ d.pc = "commit"
    BY <1>2, <1>4 DEF CommitArtifact, data, IsCareful
  <2>2. deliveries'[t][e] # d
    <3>1. deliveries'[t][e] = [d EXCEPT !.pc = "serve"] BY <1>2, <1>4 DEF CommitArtifact
    <3>2. deliveries'[t][e].pc = "serve" BY <3>1, <1>2 DEF DeliveryRecords
    <3> QED BY <2>1, <3>2
  <2>3. artifact' # artifact => t # "all" /\ artifact' = Has(d, "agg") BY <1>4 DEF CommitArtifact
  <2>4. t # "all" => t \in Providers BY DEF Targets
  <2> HIDE DEF d
  <2> QED BY <2>1, <2>2, <2>3, <2>4 DEF WholeStep, d
<1>5. ASSUME NEW t \in Targets, NEW e \in Editions, Serve(t, e) PROVE WholeStep
  <2>1. UNCHANGED <<nodeCache, artifact>> /\ Sound(t, e) /\ deliveries[t][e].pc = "serve"
    BY <1>2, <1>5 DEF Serve, data, IsCareful
  <2>2. deliveries'[t][e] # deliveries[t][e]
    BY <1>2, <1>5, <2>1 DEF Serve, NoDelivery
  <2>3. \A p : lastAnswer'[p] # lastAnswer[p] => p = t BY <1>5 DEF Serve
  <2> QED BY <2>1, <2>2, <2>3 DEF WholeStep
<1>6. ASSUME NEW s \in Subs, Keep(s) PROVE WholeStep
  <2>1. UNCHANGED <<lastAnswer, artifact>> BY <1>6 DEF Keep, answers
  <2>2. \A z \in Subs : nodeCache'[z] # nodeCache[z] => z = s
    BY <1>6 DEF Keep, DeliveryInv, DeliveryTyped
  <2>3. byHand[s] # NoData /\ byHand'[s] = NoData
    BY <1>6 DEF Keep, DeliveryInv, DeliveryTyped
  <2> QED BY <2>1, <2>2, <2>3 DEF WholeStep
<1>7. ASSUME NEW t \in Targets, NEW e \in Editions, Validate(t, e) \/ \E s \in Subs : Fetch(t, e, s)
      PROVE  UNCHANGED <<nodeCache, lastAnswer, artifact>>
  BY <1>7 DEF Validate, Fetch, Refuse, answers, data
<1>8. ASSUME \/ \E p \in Providers : AskProvider(p) \/ TimeOut(p)
             \/ AskAll \/ \E s \in Subs : Download(s) \/ SourceChanges(s)
             \/ Edit \/ DayPasses \/ Restart \/ UNCHANGED deliveryVars
      PROVE  UNCHANGED <<nodeCache, lastAnswer, artifact>>
  BY <1>8 DEF AskProvider, TimeOut, AskAll, Begin, Download, SourceChanges, Edit, DayPasses, Restart,
              answers, data, deliveryVars
<1> QED BY <1>1, <1>3, <1>4, <1>5, <1>6, <1>7, <1>8 DEF DeliveryNext

-------------------------------------------------------------------------------
(* The library of rule lists: what a request may still write, and whose an old   *)
(* file is.                                                                      *)

Batches == {"test", "cache"}
EditorPcs == {"idle", "save", "unlink", "remove", "draft", "serve", "use", "fallback"} \cup Batches
MaybeEntries == RuleEntries \cup {NoEntry}
RuleLists == RuleFiles \cup {NoList}
EditorRecords == [pc : EditorPcs, rule : RuleIds \cup {"none"}, entry : MaybeEntries, old : RuleNames \cup {"none"},
                  path : {"file", "old"}, sure : BOOLEAN, snapshot : [RuleIds -> MaybeEntries],
                  left : SUBSET RuleIds, failed : SUBSET RuleIds]

WellFormed(e) ==
  /\ e \in EditorRecords
  /\ e.pc = "idle" => e.rule = "none"
  /\ e.pc \notin {"idle"} \cup Batches => e.rule \in RuleIds
  /\ e.pc \in {"save", "serve", "use", "fallback"} => e.entry \in RuleEntries
  /\ e.pc \in {"unlink", "remove"} => e.old \in RuleNames
  /\ e.pc \in Batches => \A r \in e.left \cup e.failed : e.snapshot[r].stored

LibraryTyped ==
  /\ ruleLibrary \in [RuleIds -> MaybeEntries]
  /\ ruleFile \in [RuleIds -> RuleLists]
  /\ oldFile \in [OldFiles -> RuleLists]
  /\ overlapped \subseteq RuleIds
  /\ editor \in [Editors -> EditorRecords]
  /\ \A q \in Editors : WellFormed(editor[q])

(* The old file of an entry that is no longer called so is about to be removed.  *)
Leaves(e, f) == e.pc \in {"remove", "unlink"} /\ OldFile[e.old] = f
Means(entry, f) == entry.stored /\ OldFile[entry.name] = f
LegacyIsKnown ==
  \A f \in OldFiles : oldFile[f] # NoList =>
    Means(ruleLibrary[oldFile[f].owner], f) \/ \E q \in Editors : Leaves(editor[q], f)
ReadsItsOwn(e, old) ==
  e.pc \in {"serve", "fallback"} /\ e.path = "old" /\ e.sure =>
    old[OldFile[e.entry.name]] = NoList \/ old[OldFile[e.entry.name]].owner = e.rule

(* A request that works on an entry alone knows it, and writes its file unless   *)
(* the file is current.                                                         *)
Knows(e, r, entry) == IF e.pc \in Batches THEN e.snapshot[r] = entry ELSE e.entry = entry
FileIsCurrent(r) ==
  ruleLibrary[r].stored /\ ByHand(ruleLibrary[r]) /\ ruleFile[r] # NoList => ruleFile[r] = Content(r, ruleLibrary[r])
WillWrite(e, r) == e.rule = r /\ e.pc \in {"save", "unlink", "remove"}

LibraryInv ==
  /\ LibraryTyped
  /\ \A r \in RuleIds : ruleFile[r] = NoList \/ ruleFile[r].owner = r
  /\ LegacyIsKnown
  /\ \A q \in Editors : ReadsItsOwn(editor[q], oldFile)
  /\ Overlapping(editor) \subseteq overlapped
  /\ \A r \in RuleIds \ overlapped :
       /\ \A q \in Editors : r \in Touches(editor[q]) => Knows(editor[q], r, ruleLibrary[r])
       /\ FileIsCurrent(r) \/ \E q \in Editors : WillWrite(editor[q], r)

LEMMA RestFacts == WellFormed(AtRest) /\ AtRest.pc = "idle" /\ AtRest.rule = "none"
BY DEF AtRest, WellFormed, EditorRecords, EditorPcs, Batches, MaybeEntries

LEMMA WorkingFacts ==
  ASSUME NEW pc \in EditorPcs, NEW r \in RuleIds, NEW entry \in MaybeEntries
  PROVE  /\ Working(pc, r, entry) \in EditorRecords
         /\ Working(pc, r, entry).pc = pc /\ Working(pc, r, entry).rule = r
         /\ Working(pc, r, entry).entry = entry
<1>1. AtRest \in EditorRecords BY RestFacts DEF WellFormed
<1> QED BY <1>1 DEF Working, EditorRecords

LEMMA ContentIsList == ASSUME NEW r \in RuleIds, NEW entry \in RuleEntries
  PROVE Content(r, entry) \in RuleLists /\ Content(r, entry) # NoList /\ Content(r, entry).owner = r
BY LibraryAssumption DEF Content, RuleLists, RuleFiles, RuleEntries, NoList

LEMMA NoEntryIsNone == NoEntry \in MaybeEntries /\ ~NoEntry.stored /\ (\A entry \in RuleEntries : entry.stored)
BY DEF NoEntry, MaybeEntries, RuleEntries

(* A step of one request keeps the invariant when what it leaves behind is so.    *)
LEMMA TurnKeeps ==
  ASSUME LibraryInv, NEW q \in Editors, NEW e, Turn(q, e), WellFormed(e),
         ruleLibrary' \in [RuleIds -> MaybeEntries], ruleFile' \in [RuleIds -> RuleLists],
         oldFile' \in [OldFiles -> RuleLists],
         \A r \in RuleIds : ruleFile'[r] = NoList \/ ruleFile'[r].owner = r,
         \A f \in OldFiles : oldFile'[f] # NoList =>
           /\ oldFile'[f] = oldFile[f]
           /\ Means(ruleLibrary[oldFile[f].owner], f) =>
                Means(ruleLibrary'[oldFile[f].owner], f) \/ Leaves(e, f)
           /\ Leaves(editor[q], f) => Leaves(e, f),
         ReadsItsOwn(e, oldFile'),
         \A r \in RuleIds : ruleLibrary'[r] # ruleLibrary[r] => r \in Touches(editor[q]) \cup Touches(e),
         \A r \in RuleIds \ overlapped : r \in Touches(e) => Knows(e, r, ruleLibrary'[r]),
         \A r \in RuleIds \ overlapped :
           FileIsCurrent(r)' \/ WillWrite(e, r)
             \/ (UNCHANGED <<ruleLibrary[r], ruleFile[r]>> /\ ~WillWrite(editor[q], r))
  PROVE  LibraryInv'
<1>1. /\ editor' = [editor EXCEPT ![q] = e] /\ editor'[q] = e
      /\ \A p \in Editors \ {q} : editor'[p] = editor[p]
      /\ overlapped' = overlapped \cup Overlapping(editor')
  BY DEF Turn, LibraryInv, LibraryTyped
<1>2. LibraryTyped'
  <2>1. \A p \in Editors : WellFormed(editor'[p]) BY <1>1 DEF LibraryInv, LibraryTyped
  <2>2. editor' \in [Editors -> EditorRecords] BY <1>1 DEF LibraryInv, LibraryTyped, WellFormed
  <2>3. overlapped' \subseteq RuleIds BY <1>1 DEF LibraryInv, LibraryTyped, Overlapping
  <2> QED BY <2>1, <2>2, <2>3 DEF LibraryTyped
<1>3. LegacyIsKnown'
  <2> SUFFICES ASSUME NEW f \in OldFiles, oldFile'[f] # NoList
               PROVE  Means(ruleLibrary'[oldFile'[f].owner], f) \/ \E p \in Editors : Leaves(editor'[p], f)
    BY DEF LegacyIsKnown
  <2>1. oldFile'[f] = oldFile[f] OBVIOUS
  <2>2. CASE Means(ruleLibrary[oldFile[f].owner], f)
    BY <2>1, <2>2, <1>1
  <2>3. CASE \E p \in Editors : Leaves(editor[p], f)
    BY <2>1, <2>3, <1>1
  <2> QED BY <2>1, <2>2, <2>3 DEF LibraryInv, LegacyIsKnown
<1>4. \A p \in Editors : ReadsItsOwn(editor'[p], oldFile')
  <2> SUFFICES ASSUME NEW p \in Editors, p # q PROVE ReadsItsOwn(editor[p], oldFile')
    BY <1>1
  <2>1. ReadsItsOwn(editor[p], oldFile) /\ WellFormed(editor[p]) BY DEF LibraryInv, LibraryTyped
  <2>2. editor[p].pc \in {"serve", "fallback"} => OldFile[editor[p].entry.name] \in OldFiles
    BY <2>1 DEF WellFormed, OldFiles, RuleEntries
  <2> QED BY <2>1, <2>2 DEF ReadsItsOwn
<1>5. Overlapping(editor)' \subseteq overlapped'
  BY <1>1
<1>6. ASSUME NEW r \in RuleIds, r \notin overlapped'
      PROVE  /\ \A p \in Editors : r \in Touches(editor'[p]) => Knows(editor'[p], r, ruleLibrary'[r])
             /\ FileIsCurrent(r)' \/ \E p \in Editors : WillWrite(editor'[p], r)
  <2>1. r \notin overlapped BY <1>1, <1>6
  <2>2. ASSUME NEW p \in Editors, r \in Touches(editor'[p]), p # q PROVE Knows(editor'[p], r, ruleLibrary'[r])
    <3>1. editor'[p] = editor[p] BY <1>1, <2>2
    <3>2. r \notin Touches(e) BY <1>1, <1>6, <2>2 DEF Overlapping
    <3>3. r \notin Touches(editor[q]) BY <2>1, <2>2, <3>1 DEF LibraryInv, Overlapping
    <3>4. ruleLibrary'[r] = ruleLibrary[r] BY <3>2, <3>3
    <3> QED BY <3>1, <3>4, <2>1, <2>2 DEF LibraryInv
  <2>3. \A p \in Editors : r \in Touches(editor'[p]) => Knows(editor'[p], r, ruleLibrary'[r])
    BY <2>1, <2>2, <1>1
  <2>4. CASE WillWrite(e, r) BY <1>1, <2>3, <2>4
  <2>5. CASE UNCHANGED <<ruleLibrary[r], ruleFile[r]>> /\ ~WillWrite(editor[q], r)
    <3>1. FileIsCurrent(r) => FileIsCurrent(r)' BY <2>5 DEF FileIsCurrent, Content, ByHand
    <3>2. \A p \in Editors : WillWrite(editor[p], r) => WillWrite(editor'[p], r) BY <2>5, <1>1
    <3> QED BY <3>1, <3>2, <2>1, <2>3 DEF LibraryInv
  <2> QED BY <2>1, <2>3, <2>4, <2>5
<1> QED BY <1>2, <1>3, <1>4, <1>5, <1>6 DEF LibraryInv

LEMMA TypedParts ==
  ASSUME LibraryInv, NEW q \in Editors
  PROVE  /\ ruleLibrary \in [RuleIds -> MaybeEntries] /\ ruleFile \in [RuleIds -> RuleLists]
         /\ oldFile \in [OldFiles -> RuleLists] /\ WellFormed(editor[q]) /\ editor[q] \in EditorRecords
         /\ ReadsItsOwn(editor[q], oldFile)
         /\ \A r \in RuleIds : ruleFile[r] = NoList \/ ruleFile[r].owner = r
         /\ \A r \in RuleIds \ overlapped : r \in Touches(editor[q]) => Knows(editor[q], r, ruleLibrary[r])
BY DEF LibraryInv, LibraryTyped, WellFormed

(* A step that writes no file and stores no entry.                              *)
LEMMA IdleStepKeeps ==
  ASSUME LibraryInv, NEW q \in Editors, NEW e, Turn(q, e), Kept, WellFormed(e), ReadsItsOwn(e, oldFile),
         \A f : ~Leaves(editor[q], f), \A r \in RuleIds : ~WillWrite(editor[q], r),
         \A r \in RuleIds \ overlapped : r \in Touches(e) => Knows(e, r, ruleLibrary[r])
  PROVE  LibraryInv'
<1> USE DEF Kept
<1>1. UNCHANGED <<ruleLibrary, ruleFile, oldFile>> OBVIOUS
<1>2. ASSUME NEW r \in RuleIds PROVE UNCHANGED <<ruleLibrary[r], ruleFile[r]>> BY <1>1
<1> QED BY <1>1, <1>2, TurnKeeps, TypedParts

(* A request ends by writing what it holds, or not at all if nobody entered it.  *)
LEMMA WriteRuleKeeps ==
  ASSUME LibraryInv, NEW q \in Editors, editor[q].pc \in {"save", "serve", "use", "fallback"}, Turn(q, AtRest),
         Write(editor[q].rule, editor[q].entry) \/ (~ByHand(editor[q].entry) /\ Kept)
  PROVE  LibraryInv'
<1> DEFINE r == editor[q].rule
           entry == editor[q].entry
<1>1. /\ r \in RuleIds /\ entry \in RuleEntries /\ WellFormed(editor[q])
      /\ Turn(q, AtRest) /\ UNCHANGED <<ruleLibrary, oldFile>>
      /\ \/ ruleFile' = [ruleFile EXCEPT ![r] = Content(r, entry)]
         \/ (~ByHand(entry) /\ UNCHANGED ruleFile)
  BY TypedParts DEF Write, Kept, WellFormed, Batches
<1>2. Touches(editor[q]) = {r} /\ Touches(AtRest) = {"none"} BY <1>1, RestFacts DEF Touches, Batches
<1>3. r \notin overlapped => entry = ruleLibrary[r]
  BY <1>1, <1>2, TypedParts DEF Knows, Batches
<1>4. ruleFile' \in [RuleIds -> RuleLists] /\ \A s \in RuleIds : ruleFile'[s] = NoList \/ ruleFile'[s].owner = s
  BY <1>1, TypedParts, ContentIsList
<1>5. ASSUME NEW s \in RuleIds \ overlapped
      PROVE  FileIsCurrent(s)' \/ (UNCHANGED <<ruleLibrary[s], ruleFile[s]>> /\ ~WillWrite(editor[q], s))
  <2>1. CASE s = r
    <3>1. ruleLibrary'[s] = entry BY <1>1, <1>3, <2>1
    <3>2. ruleFile'[s] = Content(s, entry) \/ ~ByHand(entry) BY <1>1, <2>1, TypedParts
    <3>3. ruleFile'[s] = Content(s, ruleLibrary'[s]) \/ ~ByHand(ruleLibrary'[s]) BY <3>1, <3>2
    <3>4. FileIsCurrent(s)' BY <3>3 DEF FileIsCurrent, ByHand, Content
    <3> QED BY <3>4
  <2>2. CASE s # r
    <3>1. ruleFile'[s] = ruleFile[s] BY <1>1, <2>2, TypedParts
    <3>2. ruleLibrary'[s] = ruleLibrary[s] BY <1>1
    <3> QED BY <2>2, <3>1, <3>2 DEF WillWrite
  <2> QED BY <2>1, <2>2
<1>6. \A f : ~Leaves(editor[q], f) BY DEF Leaves
<1>7. ReadsItsOwn(AtRest, oldFile') BY RestFacts DEF ReadsItsOwn
<1>8. "none" \notin RuleIds BY LibraryAssumption
<1> HIDE DEF r, entry
<1> QED BY <1>1, <1>2, <1>4, <1>5, <1>6, <1>7, <1>8, TurnKeeps, TypedParts, RestFacts


(* A request stores an entry, or deletes it, and has its files still to write.   *)
LEMMA EntryKeeps ==
  ASSUME LibraryInv, NEW q \in Editors, NEW r \in RuleIds, NEW entry \in MaybeEntries, NEW e,
         Turn(q, e), WellFormed(e), ruleLibrary' = [ruleLibrary EXCEPT ![r] = entry], UNCHANGED <<ruleFile, oldFile>>,
         editor[q].pc \in {"idle", "draft"}, e.pc \in {"save", "unlink", "remove"}, e.rule = r, e.entry = entry,
         \A f : Means(ruleLibrary[r], f) => Means(entry, f) \/ Leaves(e, f)
  PROVE  LibraryInv'
<1>1. ruleLibrary' \in [RuleIds -> MaybeEntries] BY TypedParts
<1>2. \A s \in RuleIds : ruleLibrary'[s] = IF s = r THEN entry ELSE ruleLibrary[s] BY TypedParts
<1>3. \A f : ~Leaves(editor[q], f) BY DEF Leaves
<1>4. Touches(e) = {r} BY DEF Touches
<1>5. \A s \in RuleIds : s \in Touches(e) => Knows(e, s, ruleLibrary'[s]) BY <1>2, <1>4 DEF Knows, Batches
<1>6. ASSUME NEW s \in RuleIds
      PROVE  WillWrite(e, s) \/ (UNCHANGED <<ruleLibrary[s], ruleFile[s]>> /\ ~WillWrite(editor[q], s))
  BY <1>2 DEF WillWrite
<1>7. ASSUME NEW f \in OldFiles, oldFile'[f] # NoList, Means(ruleLibrary[oldFile[f].owner], f)
      PROVE  Means(ruleLibrary'[oldFile[f].owner], f) \/ Leaves(e, f)
  <2>1. oldFile[f].owner \in RuleIds BY <1>7, TypedParts DEF RuleLists, RuleFiles
  <2> QED BY <1>2, <1>7, <2>1
<1>8. ReadsItsOwn(e, oldFile') BY DEF ReadsItsOwn
<1> QED BY <1>1, <1>2, <1>3, <1>4, <1>5, <1>6, <1>7, <1>8, TurnKeeps, TypedParts

LEMMA AddRuleKeeps ==
  ASSUME LibraryInv, NEW q \in Editors, NEW r \in RuleIds, NEW entry \in RuleEntries, AddRule(q, r, entry)
  PROVE  LibraryInv'
<1> DEFINE e == Working("save", r, entry)
<1>1. entry \in MaybeEntries /\ "save" \in EditorPcs BY DEF MaybeEntries, EditorPcs
<1>2. e.pc = "save" /\ e.rule = r /\ e.entry = entry /\ e \in EditorRecords BY <1>1, WorkingFacts
<1>3. WellFormed(e) BY <1>2 DEF WellFormed, Batches
<1>4. /\ ~ruleLibrary[r].stored /\ Turn(q, e) /\ editor[q].pc = "idle"
      /\ ruleLibrary' = [ruleLibrary EXCEPT ![r] = entry] /\ UNCHANGED <<ruleFile, oldFile>>
  BY DEF AddRule, BeginEdit, StoreEntry
<1>5. \A f : ~Means(ruleLibrary[r], f) BY <1>4 DEF Means
<1> HIDE DEF e
<1> QED BY <1>1, <1>2, <1>3, <1>4, <1>5, EntryKeeps

LEMMA UpdateRuleKeeps ==
  ASSUME LibraryInv, NEW q \in Editors, NEW r \in RuleIds, NEW entry \in RuleEntries, UpdateRule(q, r, entry)
  PROVE  LibraryInv'
<1> DEFINE pc == IF entry.name = ruleLibrary[r].name THEN "save" ELSE "unlink"
           w == Working(pc, r, entry)
           e == [w EXCEPT !.old = ruleLibrary[r].name]
<1>1. entry \in MaybeEntries /\ pc \in EditorPcs /\ pc \in {"save", "unlink"} BY DEF MaybeEntries, EditorPcs
<1>2. /\ ruleLibrary[r].stored /\ Turn(q, e) /\ editor[q].pc = "idle"
      /\ ruleLibrary' = [ruleLibrary EXCEPT ![r] = entry] /\ UNCHANGED <<ruleFile, oldFile>>
  BY DEF UpdateRule, BeginEdit, StoreEntry
<1>3. ruleLibrary[r].name \in RuleNames BY <1>2, TypedParts, NoEntryIsNone DEF MaybeEntries, RuleEntries
<1> HIDE DEF pc
<1>4. w.pc = pc /\ w.rule = r /\ w.entry = entry /\ w \in EditorRecords BY <1>1, WorkingFacts
<1> HIDE DEF w
<1>5. /\ e.pc = pc /\ e.rule = r /\ e.entry = entry /\ e.old = ruleLibrary[r].name /\ e \in EditorRecords
  BY <1>3, <1>4 DEF EditorRecords
<1> HIDE DEF e
<1>6. WellFormed(e) BY <1>1, <1>3, <1>5 DEF WellFormed, Batches
<1>7. ASSUME NEW f, Means(ruleLibrary[r], f) PROVE Means(entry, f) \/ Leaves(e, f)
  BY <1>5, <1>7, NoEntryIsNone DEF Means, Leaves, pc
<1> QED BY <1>1, <1>2, <1>5, <1>6, <1>7, EntryKeeps

LEMMA DeleteRuleKeeps ==
  ASSUME LibraryInv, NEW q \in Editors, NEW r \in RuleIds, DeleteRule(q, r) PROVE LibraryInv'
<1> DEFINE w == Working("remove", r, NoEntry)
           e == [w EXCEPT !.old = ruleLibrary[r].name]
<1>1. NoEntry \in MaybeEntries /\ "remove" \in EditorPcs BY DEF MaybeEntries, EditorPcs
<1>2. /\ ruleLibrary[r].stored /\ Turn(q, e) /\ editor[q].pc = "idle"
      /\ ruleLibrary' = [ruleLibrary EXCEPT ![r] = NoEntry] /\ UNCHANGED <<ruleFile, oldFile>>
  BY DEF DeleteRule, BeginEdit
<1>3. ruleLibrary[r].name \in RuleNames BY <1>2, TypedParts, NoEntryIsNone DEF MaybeEntries, RuleEntries
<1>4. w.pc = "remove" /\ w.rule = r /\ w.entry = NoEntry /\ w \in EditorRecords BY <1>1, WorkingFacts
<1> HIDE DEF w
<1>5. /\ e.pc = "remove" /\ e.rule = r /\ e.entry = NoEntry /\ e.old = ruleLibrary[r].name /\ e \in EditorRecords
  BY <1>3, <1>4 DEF EditorRecords
<1> HIDE DEF e
<1>6. WellFormed(e) BY <1>3, <1>5 DEF WellFormed, Batches
<1>7. \A f : Means(ruleLibrary[r], f) => Leaves(e, f) BY <1>5 DEF Means, Leaves
<1> QED BY <1>1, <1>2, <1>5, <1>6, <1>7, EntryKeeps

LEMMA SaveDraftKeeps ==
  ASSUME LibraryInv, NEW q \in Editors, NEW t \in RuleTexts, SaveDraft(q, t) PROVE LibraryInv'
<1> PICK r : r = editor[q].rule OBVIOUS
<1> PICK entry : entry = [ruleLibrary[r] EXCEPT !.source = <<"content", t>>] OBVIOUS
<1> DEFINE e == Working("save", r, entry)
<1>1. /\ editor[q].pc = "draft" /\ ByHand(ruleLibrary[r]) /\ Turn(q, e)
      /\ ruleLibrary' = [ruleLibrary EXCEPT ![r] = entry] /\ UNCHANGED <<ruleFile, oldFile>>
  BY DEF SaveDraft, Continue, StoreEntry
<1>2. r \in RuleIds BY <1>1, TypedParts DEF WellFormed, Batches
<1>3. ruleLibrary[r] \in RuleEntries BY <1>1, <1>2, TypedParts DEF MaybeEntries, ByHand, NoEntry
<1>4. <<"content", t>> \in RuleSources BY DEF RuleSources
<1>5. entry \in RuleEntries /\ entry.name = ruleLibrary[r].name BY <1>3, <1>4 DEF RuleEntries
<1>6. entry \in MaybeEntries /\ "save" \in EditorPcs BY <1>5 DEF MaybeEntries, EditorPcs
<1>7. e.pc = "save" /\ e.rule = r /\ e.entry = entry /\ e \in EditorRecords BY <1>2, <1>6, WorkingFacts
<1>8. WellFormed(e) BY <1>2, <1>5, <1>7 DEF WellFormed, Batches
<1>9. \A f : Means(ruleLibrary[r], f) => Means(entry, f) BY <1>5, NoEntryIsNone DEF Means
<1> HIDE DEF e
<1> QED BY <1>1, <1>2, <1>6, <1>7, <1>8, <1>9, EntryKeeps

LEMMA RemoveFileKeeps == ASSUME LibraryInv, NEW q \in Editors, RemoveFile(q) PROVE LibraryInv'
<1> PICK r : r = editor[q].rule OBVIOUS
<1> PICK e : e = [editor[q] EXCEPT !.pc = "unlink"] OBVIOUS
<1>1. /\ editor[q].pc = "remove" /\ Turn(q, e) /\ ruleFile' = [ruleFile EXCEPT ![r] = NoList]
      /\ UNCHANGED <<ruleLibrary, oldFile>>
  BY DEF RemoveFile, Continue
<1>2. /\ editor[q] \in EditorRecords /\ r \in RuleIds /\ editor[q].old \in RuleNames
  BY <1>1, TypedParts DEF WellFormed, Batches
<1>3. /\ e.pc = "unlink" /\ e.rule = r /\ e.old = editor[q].old /\ e.entry = editor[q].entry /\ e \in EditorRecords
  BY <1>2 DEF EditorRecords, EditorPcs
<1>4. WellFormed(e) BY <1>2, <1>3 DEF WellFormed, Batches
<1>5. NoList \in RuleLists BY DEF RuleLists
<1>6. /\ ruleFile' \in [RuleIds -> RuleLists] /\ ruleFile'[r] = NoList
      /\ \A s \in RuleIds \ {r} : ruleFile'[s] = ruleFile[s]
  BY <1>1, <1>2, <1>5, TypedParts
<1>7. Touches(e) = {r} /\ Touches(editor[q]) = {r} BY <1>1, <1>3 DEF Touches, Batches
<1>8. \A s \in RuleIds \ overlapped : s \in Touches(e) => Knows(e, s, ruleLibrary'[s])
  BY <1>1, <1>3, <1>7, TypedParts DEF Knows, Batches
<1>9. \A f : Leaves(editor[q], f) => Leaves(e, f) BY <1>3 DEF Leaves
<1>10. ASSUME NEW s \in RuleIds
       PROVE  WillWrite(e, s) \/ (UNCHANGED <<ruleLibrary[s], ruleFile[s]>> /\ ~WillWrite(editor[q], s))
  BY <1>1, <1>3, <1>6 DEF WillWrite
<1>11. ReadsItsOwn(e, oldFile') BY <1>3 DEF ReadsItsOwn
<1>12. \A s \in RuleIds : ruleFile'[s] = NoList \/ ruleFile'[s].owner = s BY <1>6, TypedParts
<1> QED BY <1>1, <1>4, <1>6, <1>8, <1>9, <1>10, <1>11, <1>12, TurnKeeps, TypedParts

LEMMA RemoveOldFileKeeps == ASSUME LibraryInv, NEW q \in Editors, RemoveOldFile(q) PROVE LibraryInv'
<1> PICK r : r = editor[q].rule OBVIOUS
<1> PICK e : e = IF editor[q].entry.stored THEN [editor[q] EXCEPT !.pc = "save"] ELSE AtRest OBVIOUS
<1>1. /\ editor[q].pc = "unlink" /\ Turn(q, e) /\ oldFile' = [oldFile EXCEPT ![OldFile[editor[q].old]] = NoList]
      /\ UNCHANGED <<ruleLibrary, ruleFile>>
  BY DEF RemoveOldFile, Continue
<1>2. /\ editor[q] \in EditorRecords /\ r \in RuleIds /\ editor[q].old \in RuleNames
  BY <1>1, TypedParts DEF WellFormed, Batches
<1>4. /\ WellFormed(e) /\ e.pc \in {"save", "idle"} /\ (e.pc = "save" => e.rule = r /\ e.entry = editor[q].entry)
      /\ (e.pc = "idle" => e.rule = "none" /\ ~editor[q].entry.stored)
  <2>1. CASE ~editor[q].entry.stored BY <2>1, RestFacts
  <2>2. CASE editor[q].entry.stored
    <3>1. e = [editor[q] EXCEPT !.pc = "save"] BY <2>2
    <3>2. /\ e.pc = "save" /\ e.rule = r /\ e.entry = editor[q].entry /\ e \in EditorRecords
      BY <1>2, <3>1 DEF EditorRecords, EditorPcs
    <3>3. e.entry \in RuleEntries BY <1>2, <2>2, <3>2, NoEntryIsNone DEF EditorRecords, MaybeEntries
    <3> QED BY <1>2, <3>2, <3>3 DEF WellFormed, Batches
  <2> QED BY <2>1, <2>2
<1>5. /\ OldFile[editor[q].old] \in OldFiles /\ NoList \in RuleLists BY <1>2 DEF OldFiles, RuleLists
<1>6. /\ oldFile' \in [OldFiles -> RuleLists]
      /\ \A f \in OldFiles : oldFile'[f] = IF f = OldFile[editor[q].old] THEN NoList ELSE oldFile[f]
  BY <1>1, <1>5, TypedParts
<1>7. \A f \in OldFiles : oldFile'[f] # NoList => oldFile'[f] = oldFile[f] /\ ~Leaves(editor[q], f)
  BY <1>6 DEF Leaves
<1>8. Touches(editor[q]) = {r} /\ Touches(e) \subseteq {r, "none"}
  BY <1>1, <1>4 DEF Touches, Batches
<1>9. r \notin overlapped => editor[q].entry = ruleLibrary[r]
  BY <1>1, <1>2, <1>8, TypedParts DEF Knows, Batches
<1>10. "none" \notin RuleIds BY LibraryAssumption
<1>11. \A s \in RuleIds \ overlapped : s \in Touches(e) => Knows(e, s, ruleLibrary'[s])
  BY <1>1, <1>4, <1>8, <1>9, <1>10 DEF Knows, Batches, Touches
<1>12. ASSUME NEW s \in RuleIds \ overlapped
       PROVE  \/ FileIsCurrent(s)' \/ WillWrite(e, s)
              \/ (UNCHANGED <<ruleLibrary[s], ruleFile[s]>> /\ ~WillWrite(editor[q], s))
  <2>1. UNCHANGED <<ruleLibrary[s], ruleFile[s]>> BY <1>1
  <2>2. CASE s = r
    <3>1. ~WillWrite(e, s) => ~ruleLibrary'[s].stored BY <1>1, <1>4, <1>9, <2>2 DEF WillWrite
    <3> QED BY <3>1 DEF FileIsCurrent
  <2>3. CASE s # r BY <2>1, <2>3 DEF WillWrite
  <2> QED BY <2>2, <2>3
<1>13. ReadsItsOwn(e, oldFile') BY <1>4 DEF ReadsItsOwn
<1>14. \A s \in RuleIds : ruleFile'[s] = NoList \/ ruleFile'[s].owner = s BY <1>1, TypedParts
<1> QED BY <1>1, <1>4, <1>6, <1>7, <1>11, <1>12, <1>13, <1>14, TurnKeeps, TypedParts

(* What a request is given to read: its own list, or an old one only it can mean. *)
LEMMA ReadingFacts ==
  ASSUME LibraryInv, NEW r \in RuleIds, ruleLibrary[r].stored, NEW pc \in {"serve", "use", "fallback"}
  PROVE  LET e == Reading(pc, r)
         IN  /\ WellFormed(e) /\ ReadsItsOwn(e, oldFile) /\ e.pc = pc
             /\ Touches(e) = {r} /\ Knows(e, r, ruleLibrary[r])
<1> DEFINE w == Working(pc, r, ruleLibrary[r])
           named == OldFile[ruleLibrary[r].name]
           e == [w EXCEPT !.path = PathOf(r), !.sure = ~Leaving(named)]
<1>1. ruleLibrary[r] \in MaybeEntries /\ pc \in EditorPcs BY DEF LibraryInv, LibraryTyped, EditorPcs
<1>2. ruleLibrary[r] \in RuleEntries BY <1>1, NoEntryIsNone DEF MaybeEntries
<1>3. w.pc = pc /\ w.rule = r /\ w.entry = ruleLibrary[r] /\ w \in EditorRecords BY <1>1, WorkingFacts
<1> HIDE DEF w
<1>4. PathOf(r) \in {"file", "old"} /\ (~Leaving(named)) \in BOOLEAN BY DEF PathOf, Leaving
<1>5. /\ e.pc = pc /\ e.rule = r /\ e.entry = ruleLibrary[r] /\ e \in EditorRecords
      /\ e.path = PathOf(r) /\ e.sure = ~Leaving(named)
  BY <1>3, <1>4 DEF EditorRecords
<1>6. e = Reading(pc, r) BY DEF Reading, w
<1> HIDE DEF e
<1>7. WellFormed(e) BY <1>2, <1>5 DEF WellFormed, Batches
<1>8. named \in OldFiles BY <1>2 DEF OldFiles, RuleEntries
<1>9. ASSUME e.path = "old", e.sure PROVE oldFile[named] = NoList \/ oldFile[named].owner = r
  <2>1. Meaning(named) = {r} /\ ~Leaving(named) /\ oldFile[named] # NoList BY <1>5, <1>9 DEF PathOf
  <2>2. \A q \in Editors : ~Leaves(editor[q], named) BY <2>1 DEF Leaving, Leaves
  <2>3. Means(ruleLibrary[oldFile[named].owner], named) BY <1>8, <2>1, <2>2 DEF LibraryInv, LegacyIsKnown
  <2>4. oldFile[named].owner \in RuleIds BY <1>8, <2>1 DEF LibraryInv, LibraryTyped, RuleLists, RuleFiles
  <2>5. oldFile[named].owner \in Meaning(named) BY <2>3, <2>4 DEF Means, Meaning
  <2> QED BY <2>1, <2>5
<1>10. ReadsItsOwn(e, oldFile) BY <1>5, <1>9 DEF ReadsItsOwn
<1>11. Touches(e) = {r} /\ Knows(e, r, ruleLibrary[r]) BY <1>5 DEF Touches, Knows, Batches
<1> QED BY <1>5, <1>6, <1>7, <1>10, <1>11

LEMMA ReadKeepsLibrary ==
  ASSUME LibraryInv, NEW q \in Editors, NEW r \in RuleIds, ServeRule(q, r) \/ UseRule(q, r) PROVE LibraryInv'
<1> PICK pc \in {"serve", "use", "fallback"} :
      /\ ruleLibrary[r].stored /\ Kept /\ editor[q].pc = "idle" /\ Turn(q, Reading(pc, r))
  BY DEF ServeRule, UseRule, BeginEdit
<1> PICK e : e = Reading(pc, r) OBVIOUS
<1>1. /\ WellFormed(e) /\ ReadsItsOwn(e, oldFile) /\ Touches(e) = {r} /\ Knows(e, r, ruleLibrary[r])
  BY ReadingFacts
<1>2. (\A f : ~Leaves(editor[q], f)) /\ \A s \in RuleIds : ~WillWrite(editor[q], s)
  BY DEF Leaves, WillWrite
<1> QED BY <1>1, <1>2, IdleStepKeeps

LEMMA DraftKeeps ==
  ASSUME LibraryInv, NEW q \in Editors, CloseDraft(q) \/ \E r \in RuleIds : OpenDraft(q, r) PROVE LibraryInv'
<1> USE DEF Leaves, WillWrite, Batches
<1>1. CASE CloseDraft(q)
  <2>1. editor[q].pc = "draft" /\ Kept /\ Turn(q, AtRest) BY <1>1 DEF CloseDraft, Continue
  <2>2. Touches(AtRest) = {"none"} /\ "none" \notin RuleIds BY RestFacts, LibraryAssumption DEF Touches
  <2>3. ReadsItsOwn(AtRest, oldFile) BY RestFacts DEF ReadsItsOwn
  <2> QED BY <2>1, <2>2, <2>3, RestFacts, IdleStepKeeps
<1>2. ASSUME NEW r \in RuleIds, OpenDraft(q, r) PROVE LibraryInv'
  <2> PICK entry : entry = ruleLibrary[r] OBVIOUS
  <2> DEFINE e == Working("draft", r, entry)
  <2>1. editor[q].pc = "idle" /\ Kept /\ Turn(q, e) /\ entry \in MaybeEntries
    BY <1>2, TypedParts DEF OpenDraft, BeginEdit
  <2>2. e.pc = "draft" /\ e.rule = r /\ e.entry = entry /\ e \in EditorRecords
    BY <2>1, WorkingFacts DEF EditorPcs
  <2>3. WellFormed(e) BY <2>2 DEF WellFormed
  <2>4. Touches(e) = {r} /\ Knows(e, r, ruleLibrary[r]) /\ ReadsItsOwn(e, oldFile)
    BY <2>2 DEF Touches, Knows, ReadsItsOwn
  <2> HIDE DEF e
  <2> QED BY <2>1, <2>3, <2>4, IdleStepKeeps
<1> QED BY <1>1, <1>2

LEMMA DownloadFailsKeeps == ASSUME LibraryInv, NEW q \in Editors, DownloadFails(q) PROVE LibraryInv'
<1> PICK e : e = IF editor[q].pc = "serve" THEN [editor[q] EXCEPT !.pc = "fallback"] ELSE AtRest OBVIOUS
<1>1. editor[q].pc \in {"serve", "use"} /\ Kept /\ Turn(q, e) BY DEF DownloadFails, Continue
<1>2. CASE e = AtRest
  <2>1. Touches(AtRest) = {"none"} /\ "none" \notin RuleIds BY RestFacts, LibraryAssumption DEF Touches, Batches
  <2>2. ReadsItsOwn(AtRest, oldFile) BY RestFacts DEF ReadsItsOwn
  <2> QED BY <1>1, <1>2, <2>1, <2>2, RestFacts, IdleStepKeeps DEF Leaves, WillWrite
<1>3. CASE editor[q].pc = "serve"
  <2>1. editor[q] \in EditorRecords BY TypedParts
  <2>2. e = [editor[q] EXCEPT !.pc = "fallback"] BY <1>3
  <2>3. /\ e.pc = "fallback" /\ e.rule = editor[q].rule /\ e.entry = editor[q].entry /\ e.path = editor[q].path
        /\ e.sure = editor[q].sure /\ e \in EditorRecords
    BY <2>1, <2>2 DEF EditorRecords, EditorPcs
  <2>4. WellFormed(e) BY <1>3, <2>3, TypedParts DEF WellFormed, Batches
  <2>5. ReadsItsOwn(e, oldFile) BY <1>3, <2>3, TypedParts DEF ReadsItsOwn
  <2>6. Touches(e) = Touches(editor[q]) /\ \A r, entry : Knows(editor[q], r, entry) <=> Knows(e, r, entry)
    BY <1>3, <2>3 DEF Touches, Knows, Batches
  <2>7. (\A f : ~Leaves(editor[q], f)) /\ \A r \in RuleIds : ~WillWrite(editor[q], r)
    BY <1>3 DEF Leaves, WillWrite
  <2> QED BY <1>1, <2>4, <2>5, <2>6, <2>7, TypedParts, IdleStepKeeps
<1> QED BY <1>1, <1>2, <1>3

LEMMA EndKeeps ==
  ASSUME LibraryInv, NEW q \in Editors, SaveRule(q) \/ DownloadRule(q) \/ AnswerFile(q) \/ Regenerate(q)
  PROVE  LibraryInv'
<1>1. CASE AnswerFile(q)
  <2>1. editor[q].pc = "fallback" /\ Kept /\ Turn(q, AtRest) BY <1>1 DEF AnswerFile, Continue
  <2>2. Touches(AtRest) = {"none"} /\ "none" \notin RuleIds BY RestFacts, LibraryAssumption DEF Touches, Batches
  <2>3. ReadsItsOwn(AtRest, oldFile) BY RestFacts DEF ReadsItsOwn
  <2> QED BY <2>1, <2>2, <2>3, RestFacts, IdleStepKeeps DEF Leaves, WillWrite
<1>2. CASE SaveRule(q) \/ DownloadRule(q) \/ Regenerate(q)
  <2>1. /\ editor[q].pc \in {"save", "serve", "use", "fallback"} /\ Turn(q, AtRest)
        /\ Write(editor[q].rule, editor[q].entry) \/ (~ByHand(editor[q].entry) /\ Kept)
    BY <1>2 DEF SaveRule, DownloadRule, Regenerate, Continue
  <2> QED BY <2>1, WriteRuleKeeps
<1> QED BY <1>1, <1>2

LEMMA BeginBatchKeeps ==
  ASSUME LibraryInv, NEW q \in Editors, NEW batch \in SUBSET RuleIds, NEW pc \in Batches, BeginBatch(q, pc, batch)
  PROVE  LibraryInv'
<1> PICK e : e = [AtRest EXCEPT !.pc = pc, !.snapshot = ruleLibrary, !.left = batch] OBVIOUS
<1>1. editor[q].pc = "idle" /\ Kept /\ Turn(q, e) /\ \A r \in batch : ruleLibrary[r].stored
  BY DEF BeginBatch, BeginEdit
<1>2. AtRest \in EditorRecords /\ AtRest.failed = {} BY RestFacts DEF WellFormed, AtRest
<1>3. e.pc = pc /\ e.snapshot = ruleLibrary /\ e.left = batch /\ e.failed = {} /\ e \in EditorRecords
  BY <1>2, TypedParts DEF EditorRecords, EditorPcs
<1>4. WellFormed(e) BY <1>1, <1>3 DEF WellFormed, Batches
<1>5. \A r \in RuleIds : Knows(e, r, ruleLibrary[r]) BY <1>3 DEF Knows
<1>6. ReadsItsOwn(e, oldFile) BY <1>3 DEF ReadsItsOwn, Batches
<1>7. (\A f : ~Leaves(editor[q], f)) /\ \A r \in RuleIds : ~WillWrite(editor[q], r)
  BY <1>1 DEF Leaves, WillWrite
<1> QED BY <1>1, <1>4, <1>5, <1>6, <1>7, IdleStepKeeps

LEMMA BatchStepKeeps ==
  ASSUME LibraryInv, NEW q \in Editors, NEW r \in RuleIds, BatchOne(q, r) \/ BatchOneFails(q, r) PROVE LibraryInv'
<1>1. editor[q].pc \in Batches /\ r \in editor[q].left /\ editor[q] \in EditorRecords /\ WellFormed(editor[q])
  BY TypedParts DEF BatchOne, BatchOneFails, Batches
<1> PICK failed \in SUBSET RuleIds : /\ failed \subseteq editor[q].failed \cup {r}
                                      /\ Turn(q, [Handled(q, r) EXCEPT !.failed = failed])
  <2>1. CASE BatchOne(q, r)
    <3>1. Handled(q, r) = [Handled(q, r) EXCEPT !.failed = editor[q].failed] BY <1>1 DEF Handled, EditorRecords
    <3> QED BY <1>1, <2>1, <3>1 DEF BatchOne, Continue, EditorRecords
  <2>2. CASE BatchOneFails(q, r)
    <3>1. Handled(q, r).failed = editor[q].failed BY <1>1 DEF Handled, EditorRecords
    <3>2. [Handled(q, r) EXCEPT !.failed = @ \cup {r}] = [Handled(q, r) EXCEPT !.failed = editor[q].failed \cup {r}]
      BY <3>1
    <3> QED BY <1>1, <2>2, <3>2 DEF BatchOneFails, Continue, EditorRecords
  <2> QED BY <2>1, <2>2
<1> PICK e : e = [Handled(q, r) EXCEPT !.failed = failed] OBVIOUS
<1>2. /\ WellFormed(e) /\ e.pc = editor[q].pc /\ e.snapshot = editor[q].snapshot /\ Turn(q, e)
      /\ editor[q].snapshot[r].stored
  <2>1. /\ e.pc = editor[q].pc /\ e.snapshot = editor[q].snapshot /\ e.left = editor[q].left \ {r} /\ e.failed = failed
        /\ e.rule = editor[q].rule /\ e \in EditorRecords
    BY <1>1 DEF EditorRecords, Handled
  <2>2. editor[q].snapshot[r].stored BY <1>1 DEF WellFormed, EditorRecords
  <2>3. WellFormed(e) BY <1>1, <2>1, <2>2 DEF WellFormed, Batches
  <2> QED BY <2>1, <2>2, <2>3
<1>3. Touches(e) = Touches(editor[q]) /\ r \in Touches(editor[q])
      /\ \A s, entry : Knows(editor[q], s, entry) <=> Knows(e, s, entry)
  BY <1>1, <1>2 DEF Touches, Knows, Batches
<1>4. (\A f : ~Leaves(editor[q], f)) /\ \A s \in RuleIds : ~WillWrite(editor[q], s)
  BY <1>1 DEF Leaves, WillWrite, Batches
<1>5. \A old : ReadsItsOwn(e, old) BY <1>1, <1>2 DEF ReadsItsOwn, Batches
<1>6. CASE Kept BY <1>2, <1>3, <1>4, <1>5, <1>6, TypedParts, IdleStepKeeps
<1>7. CASE Write(r, editor[q].snapshot[r])
  <2> PICK entry : entry = editor[q].snapshot[r] OBVIOUS
  <2>1. entry \in RuleEntries BY <1>1, <1>2, NoEntryIsNone DEF EditorRecords, MaybeEntries
  <2>2. UNCHANGED <<ruleLibrary, oldFile>> /\ ruleFile' = [ruleFile EXCEPT ![r] = Content(r, entry)]
    BY <1>7 DEF Write
  <2>3. /\ ruleFile' \in [RuleIds -> RuleLists] /\ ruleFile'[r] = Content(r, entry)
        /\ \A s \in RuleIds \ {r} : ruleFile'[s] = ruleFile[s]
    BY <2>1, <2>2, ContentIsList, TypedParts
  <2>4. \A s \in RuleIds : ruleFile'[s] = NoList \/ ruleFile'[s].owner = s
    BY <2>1, <2>3, ContentIsList, TypedParts
  <2>5. r \notin overlapped => entry = ruleLibrary'[r] BY <1>1, <1>3, <2>2, TypedParts DEF Knows
  <2>6. ASSUME NEW s \in RuleIds \ overlapped
        PROVE  FileIsCurrent(s)' \/ (UNCHANGED <<ruleLibrary[s], ruleFile[s]>> /\ ~WillWrite(editor[q], s))
    <3>1. CASE s = r BY <2>3, <2>5, <3>1 DEF FileIsCurrent, Content, ByHand
    <3>2. CASE s # r BY <1>4, <2>2, <2>3, <3>2
    <3> QED BY <3>1, <3>2
  <2> QED BY <1>2, <1>3, <1>4, <1>5, <2>2, <2>3, <2>4, <2>6, TypedParts, TurnKeeps
<1> QED BY <1>6, <1>7 DEF BatchOne, BatchOneFails

(* Switching off is all a batch can do to an entry.                              *)
LEMMA MergedFacts ==
  ASSUME NEW current \in MaybeEntries, NEW base \in MaybeEntries, NEW proposed,
         proposed \in {base, [base EXCEPT !.enabled = FALSE]}
  PROVE  /\ Merged(current, base, proposed) \in {current, [current EXCEPT !.enabled = FALSE]}
         /\ proposed = base => Merged(current, base, proposed) = current
<1>1. proposed.name = base.name /\ proposed.source = base.source /\ proposed.enabled \in {base.enabled, FALSE}
  BY DEF MaybeEntries, RuleEntries, NoEntry
<1>2. Merged(current, base, proposed) =
        [current EXCEPT !.enabled = IF proposed.enabled # base.enabled THEN proposed.enabled ELSE current.enabled]
  BY <1>1 DEF Merged, MaybeEntries, RuleEntries, NoEntry
<1>3. current = [current EXCEPT !.enabled = current.enabled]
  BY DEF MaybeEntries, RuleEntries, NoEntry
<1> QED BY <1>1, <1>2, <1>3

LEMMA FinishFacts ==
  ASSUME LibraryInv, NEW q \in Editors, FinishBatch(q)
  PROVE  /\ editor[q].pc \in Batches /\ Turn(q, AtRest) /\ UNCHANGED <<ruleFile, oldFile>>
         /\ ruleLibrary' = [r \in RuleIds |-> ruleLibrary'[r]]
         /\ \A r \in RuleIds : ruleLibrary'[r] # ruleLibrary[r] =>
              /\ ruleLibrary[r].stored /\ editor[q].snapshot[r].stored /\ r \in editor[q].failed
              /\ ruleLibrary'[r] = [ruleLibrary[r] EXCEPT !.enabled = FALSE]
<1> DEFINE e == editor[q]
           Proposed(r) == IF r \in e.failed THEN [e.snapshot[r] EXCEPT !.enabled = FALSE] ELSE e.snapshot[r]
<1>1. /\ e.pc \in Batches /\ Turn(q, AtRest) /\ UNCHANGED <<ruleFile, oldFile>>
      /\ ruleLibrary' = [r \in RuleIds |-> IF ruleLibrary[r].stored /\ e.snapshot[r].stored
                                           THEN Merged(ruleLibrary[r], e.snapshot[r], Proposed(r)) ELSE ruleLibrary[r]]
  BY DEF FinishBatch, Continue, Batches
<1>2. ASSUME NEW r \in RuleIds, ruleLibrary'[r] # ruleLibrary[r]
      PROVE  /\ ruleLibrary[r].stored /\ e.snapshot[r].stored /\ r \in e.failed
             /\ ruleLibrary'[r] = [ruleLibrary[r] EXCEPT !.enabled = FALSE]
  <2>1. ruleLibrary[r].stored /\ e.snapshot[r].stored
        /\ ruleLibrary'[r] = Merged(ruleLibrary[r], e.snapshot[r], Proposed(r))
    BY <1>1, <1>2
  <2>2. ruleLibrary[r] \in MaybeEntries /\ e.snapshot[r] \in MaybeEntries
    BY TypedParts DEF EditorRecords
  <2>3. Proposed(r) \in {e.snapshot[r], [e.snapshot[r] EXCEPT !.enabled = FALSE]} OBVIOUS
  <2>4. r \notin e.failed => Proposed(r) = e.snapshot[r] OBVIOUS
  <2> PICK proposed : proposed = Proposed(r) OBVIOUS
  <2> HIDE DEF Proposed
  <2>5. /\ Merged(ruleLibrary[r], e.snapshot[r], proposed) \in {ruleLibrary[r], [ruleLibrary[r] EXCEPT !.enabled = FALSE]}
        /\ proposed = e.snapshot[r] => Merged(ruleLibrary[r], e.snapshot[r], proposed) = ruleLibrary[r]
    BY <2>2, <2>3, MergedFacts
  <2> QED BY <1>2, <2>1, <2>4, <2>5
<1> HIDE DEF Proposed
<1>3. ruleLibrary' = [r \in RuleIds |-> ruleLibrary'[r]] BY <1>1
<1> QED BY <1>1, <1>2, <1>3

LEMMA FinishBatchKeeps == ASSUME LibraryInv, NEW q \in Editors, FinishBatch(q) PROVE LibraryInv'
<1>1. /\ editor[q].pc \in Batches /\ Turn(q, AtRest) /\ UNCHANGED <<ruleFile, oldFile>>
      /\ ruleLibrary' = [r \in RuleIds |-> ruleLibrary'[r]]
  BY FinishFacts
<1>2. ASSUME NEW r \in RuleIds, ruleLibrary'[r] # ruleLibrary[r]
      PROVE  /\ r \in Touches(editor[q]) /\ ruleLibrary'[r] \in MaybeEntries /\ ruleLibrary'[r].stored
             /\ ruleLibrary'[r].name = ruleLibrary[r].name /\ ruleLibrary'[r].source = ruleLibrary[r].source
             /\ ruleLibrary[r].stored
  <2>1. /\ ruleLibrary[r].stored /\ editor[q].snapshot[r].stored
        /\ ruleLibrary'[r] = [ruleLibrary[r] EXCEPT !.enabled = FALSE]
    BY <1>2, FinishFacts
  <2>2. ruleLibrary[r] \in RuleEntries BY <2>1, TypedParts, NoEntryIsNone DEF MaybeEntries
  <2>3. /\ ruleLibrary'[r] \in RuleEntries
        /\ ruleLibrary'[r].name = ruleLibrary[r].name /\ ruleLibrary'[r].source = ruleLibrary[r].source
    BY <2>1, <2>2 DEF RuleEntries
  <2> QED BY <1>1, <2>1, <2>3, NoEntryIsNone DEF Touches, MaybeEntries, Batches
<1>3. ruleLibrary' \in [RuleIds -> MaybeEntries]
  <2>1. \A r \in RuleIds : ruleLibrary'[r] \in MaybeEntries BY <1>2, TypedParts
  <2> QED BY <1>1, <2>1
<1>4. ASSUME NEW f \in OldFiles, oldFile[f] # NoList, Means(ruleLibrary[oldFile[f].owner], f)
      PROVE  Means(ruleLibrary'[oldFile[f].owner], f)
  <2>1. oldFile[f].owner \in RuleIds BY <1>4, TypedParts DEF RuleLists, RuleFiles
  <2> QED BY <1>2, <1>4, <2>1 DEF Means
<1>5. (\A f : ~Leaves(editor[q], f)) /\ \A s \in RuleIds : ~WillWrite(editor[q], s)
  BY <1>1 DEF Leaves, WillWrite, Batches
<1>6. Touches(AtRest) = {"none"} /\ "none" \notin RuleIds BY RestFacts, LibraryAssumption DEF Touches
<1>7. ReadsItsOwn(AtRest, oldFile) BY RestFacts DEF ReadsItsOwn
<1>8. ASSUME NEW r \in RuleIds \ overlapped
      PROVE  FileIsCurrent(r)' \/ (UNCHANGED <<ruleLibrary[r], ruleFile[r]>> /\ ~WillWrite(editor[q], r))
  <2>1. CASE ruleLibrary'[r] = ruleLibrary[r] BY <1>1, <1>5, <2>1
  <2>2. CASE ruleLibrary'[r] # ruleLibrary[r]
    <3>1. \A p \in Editors \ {q} : r \notin Touches(editor[p]) BY <1>2, <2>2 DEF LibraryInv, Overlapping
    <3>2. \A p \in Editors : ~WillWrite(editor[p], r) BY <1>5, <3>1 DEF WillWrite, Touches
    <3>3. FileIsCurrent(r) BY <3>2 DEF LibraryInv
    <3> QED BY <1>1, <1>2, <2>2, <3>3 DEF FileIsCurrent, Content, ByHand
  <2> QED BY <2>1, <2>2
<1>9. \A r \in RuleIds : ruleFile'[r] = NoList \/ ruleFile'[r].owner = r BY <1>1, TypedParts
<1>10. WellFormed(AtRest) /\ ruleFile' \in [RuleIds -> RuleLists] /\ oldFile' \in [OldFiles -> RuleLists]
  BY <1>1, RestFacts, TypedParts
<1> QED BY <1>1, <1>2, <1>3, <1>4, <1>5, <1>6, <1>7, <1>8, <1>9, <1>10, TurnKeeps

LEMMA LibraryStarts == LibraryInit => LibraryInv
<1> SUFFICES ASSUME LibraryInit PROVE LibraryInv OBVIOUS
<1>1. /\ ruleLibrary \in [RuleIds -> MaybeEntries] /\ ruleFile = [r \in RuleIds |-> NoList]
      /\ editor = [q \in Editors |-> AtRest] /\ overlapped = {}
  BY LibraryAssumption DEF LibraryInit, MaybeEntries
<1>2. \A q \in Editors : editor[q] = AtRest /\ Touches(editor[q]) = {"none"}
  BY <1>1, RestFacts DEF Touches, Batches
<1>3. \A r \in RuleIds : r # "none" BY LibraryAssumption
<1>4. oldFile \in [OldFiles -> RuleLists]
  <2>1. ASSUME NEW r \in RuleIds, ruleLibrary[r].stored PROVE Content(r, ruleLibrary[r]) \in RuleLists
    BY <1>1, <2>1, ContentIsList, NoEntryIsNone DEF MaybeEntries
  <2>2. {NoList} \cup {Content(r, ruleLibrary[r]) : r \in {s \in RuleIds : ruleLibrary[s].stored}} \subseteq RuleLists
    BY <2>1 DEF RuleLists
  <2>3. oldFile \in [OldFiles -> {NoList} \cup {Content(r, ruleLibrary[r]) : r \in {s \in RuleIds : ruleLibrary[s].stored}}]
    BY DEF LibraryInit
  <2> QED BY <2>2, <2>3
<1>5. LibraryTyped
  <2>1. NoList \in RuleLists BY DEF RuleLists
  <2>2. AtRest \in EditorRecords /\ WellFormed(AtRest) BY RestFacts DEF WellFormed
  <2> QED BY <1>1, <1>2, <1>4, <2>1, <2>2 DEF LibraryTyped
<1>6. LegacyIsKnown BY DEF LibraryInit, LegacyIsKnown, Meaning, Means
<1>7. \A q \in Editors : ReadsItsOwn(editor[q], oldFile) BY <1>2, RestFacts DEF ReadsItsOwn
<1>8. Overlapping(editor) \subseteq overlapped BY <1>2, <1>3 DEF Overlapping
<1>9. \A r \in RuleIds : ruleFile[r] = NoList BY <1>1
<1>10. \A r \in RuleIds : FileIsCurrent(r) BY <1>9 DEF FileIsCurrent
<1> QED BY <1>2, <1>3, <1>5, <1>6, <1>7, <1>8, <1>9, <1>10 DEF LibraryInv

LEMMA LibraryStep == ASSUME LibraryInv, [LibraryNext]_libraryVars PROVE LibraryInv'
<1>1. CASE UNCHANGED libraryVars
  BY <1>1 DEF libraryVars, LibraryInv, LibraryTyped, LegacyIsKnown, Overlapping, FileIsCurrent, Content, ByHand
<1>2. ASSUME LibraryNext PROVE LibraryInv'
  <2> PICK q \in Editors :
        \/ \E r \in RuleIds :
             \/ \E entry \in RuleEntries : AddRule(q, r, entry) \/ UpdateRule(q, r, entry)
             \/ DeleteRule(q, r) \/ OpenDraft(q, r) \/ ServeRule(q, r) \/ UseRule(q, r)
             \/ BatchOne(q, r) \/ BatchOneFails(q, r)
        \/ \E batch \in SUBSET RuleIds, pc \in {"test", "cache"} : BeginBatch(q, pc, batch)
        \/ \E t \in RuleTexts : SaveDraft(q, t)
        \/ RemoveFile(q) \/ RemoveOldFile(q) \/ SaveRule(q) \/ CloseDraft(q) \/ DownloadRule(q) \/ DownloadFails(q)
        \/ AnswerFile(q) \/ Regenerate(q) \/ FinishBatch(q)
    BY <1>2 DEF LibraryNext
  <2> HIDE DEF LibraryInv
  <2>1. ASSUME NEW r \in RuleIds,
               \/ \E entry \in RuleEntries : AddRule(q, r, entry) \/ UpdateRule(q, r, entry)
               \/ DeleteRule(q, r) \/ OpenDraft(q, r) \/ ServeRule(q, r) \/ UseRule(q, r)
               \/ BatchOne(q, r) \/ BatchOneFails(q, r)
        PROVE  LibraryInv'
    BY <2>1, AddRuleKeeps, UpdateRuleKeeps, DeleteRuleKeeps, DraftKeeps, ReadKeepsLibrary, BatchStepKeeps
  <2>2. ASSUME NEW batch \in SUBSET RuleIds, NEW pc \in {"test", "cache"}, BeginBatch(q, pc, batch) PROVE LibraryInv'
    BY <2>2, BeginBatchKeeps DEF Batches
  <2>3. ASSUME NEW t \in RuleTexts, SaveDraft(q, t) PROVE LibraryInv'
    BY <2>3, SaveDraftKeeps
  <2>4. ASSUME RemoveFile(q) \/ RemoveOldFile(q) \/ CloseDraft(q) \/ DownloadFails(q) \/ FinishBatch(q) PROVE LibraryInv'
    BY <2>4, RemoveFileKeeps, RemoveOldFileKeeps, DraftKeeps, DownloadFailsKeeps, FinishBatchKeeps
  <2>5. ASSUME SaveRule(q) \/ DownloadRule(q) \/ AnswerFile(q) \/ Regenerate(q) PROVE LibraryInv'
    BY <2>5, EndKeeps
  <2> QED BY <2>1, <2>2, <2>3, <2>4, <2>5
<1> QED BY <1>1, <1>2

LEMMA LibraryInvMeans == ASSUME LibraryInv PROVE ServedIsOwn /\ SettledIsCurrent
<1>1. ASSUME NEW q \in Editors, editor[q].pc = "fallback", editor[q].sure
      PROVE  FileRead(editor[q]) = NoList \/ FileRead(editor[q]).owner = editor[q].rule
  <2>1. editor[q].rule \in RuleIds BY <1>1, TypedParts DEF WellFormed, Batches
  <2>2. CASE editor[q].path = "old" BY <1>1, <2>2, TypedParts DEF FileRead, ReadsItsOwn
  <2>3. CASE editor[q].path # "old" BY <2>1, <2>3, TypedParts DEF FileRead
  <2> QED BY <2>2, <2>3
<1>2. ASSUME NEW r \in RuleIds \ overlapped, \A q \in Editors : r \notin Touches(editor[q]) PROVE FileIsCurrent(r)
  <2>1. \A q \in Editors : ~WillWrite(editor[q], r) BY <1>2 DEF WillWrite, Touches
  <2> QED BY <2>1 DEF LibraryInv
<1> QED BY <1>1, <1>2 DEF ServedIsOwn, SettledIsCurrent, FileIsCurrent

(* The step of BatchKeepsEdits.                                                  *)
BatchIsCareful ==
  \A q \in Editors : editor[q].pc \in {"test", "cache"} =>
    \A r \in RuleIds : ruleLibrary'[r] # ruleLibrary[r] =>
      /\ r \in editor[q].failed \/ editor'[q] = editor[q]
      /\ editor'[q] # editor[q] => ruleLibrary'[r] = [ruleLibrary[r] EXCEPT !.enabled = FALSE]

LEMMA BatchesAreCareful == ASSUME LibraryInv, [LibraryNext]_libraryVars PROVE BatchIsCareful
<1> SUFFICES ASSUME NEW q \in Editors, editor[q].pc \in Batches, NEW r \in RuleIds, ruleLibrary'[r] # ruleLibrary[r],
                    editor'[q] # editor[q]
             PROVE  r \in editor[q].failed /\ ruleLibrary'[r] = [ruleLibrary[r] EXCEPT !.enabled = FALSE]
  BY DEF BatchIsCareful, Batches
<1>1. LibraryNext BY DEF libraryVars
<1>2. ASSUME NEW p \in Editors, NEW e, Turn(p, e) PROVE p = q BY <1>2 DEF Turn, LibraryInv, LibraryTyped
<1>3. ruleLibrary' # ruleLibrary OBVIOUS
<1>4. FinishBatch(q)
  <2> USE DEF BeginEdit, Continue, Kept, Write
  <2>1. ASSUME NEW s \in RuleIds, NEW p \in Editors,
               \/ \E entry \in RuleEntries : AddRule(p, s, entry) \/ UpdateRule(p, s, entry)
               \/ DeleteRule(p, s)
               \/ \E t \in RuleTexts : SaveDraft(p, t)
        PROVE  FALSE
    <3>1. PICK e : Turn(p, e) BY <2>1 DEF AddRule, UpdateRule, DeleteRule, SaveDraft
    <3>2. editor[p].pc \in {"idle", "draft"} BY <2>1 DEF AddRule, UpdateRule, DeleteRule, SaveDraft
    <3> QED BY <1>2, <3>1, <3>2 DEF Batches
  <2>2. ASSUME NEW s \in RuleIds, NEW p \in Editors,
               \/ OpenDraft(p, s) \/ ServeRule(p, s) \/ UseRule(p, s) \/ BatchOne(p, s) \/ BatchOneFails(p, s)
        PROVE  FALSE
    BY <1>3, <2>2 DEF OpenDraft, ServeRule, UseRule, BatchOne, BatchOneFails
  <2>3. ASSUME NEW batch \in SUBSET RuleIds, NEW pc \in {"test", "cache"}, NEW p \in Editors, BeginBatch(p, pc, batch)
        PROVE  FALSE
    BY <1>3, <2>3 DEF BeginBatch
  <2>4. ASSUME NEW p \in Editors,
               \/ RemoveFile(p) \/ RemoveOldFile(p) \/ SaveRule(p) \/ CloseDraft(p) \/ DownloadRule(p) \/ DownloadFails(p)
               \/ AnswerFile(p) \/ Regenerate(p)
        PROVE  FALSE
    BY <1>3, <2>4 DEF RemoveFile, RemoveOldFile, SaveRule, CloseDraft, DownloadRule, DownloadFails, AnswerFile, Regenerate
  <2>5. ASSUME NEW p \in Editors, FinishBatch(p) PROVE FinishBatch(q)
    BY <1>2, <2>5 DEF FinishBatch
  <2> QED BY <1>1, <2>1, <2>2, <2>3, <2>4, <2>5 DEF LibraryNext
<1> QED BY <1>4, FinishFacts

-------------------------------------------------------------------------------
(* The services together: a step of the run is a step of one of them and leaves  *)
(* the others alone.                                                             *)

LEMMA StepOfEach ==
  ASSUME [Next]_vars
  PROVE  [UpgradeNext]_upgradeVars /\ [ArtifactNext]_artifactVars /\ [FetchNext]_fetchVars
         /\ [DeliveryNext]_deliveryVars /\ [LibraryNext]_libraryVars
<1> USE DEF UpgradeVars, ArtifactsVars, FetchVars, DeliveryVars, LibraryVars,
            upgradeVars, artifactVars, fetchVars, deliveryVars, libraryVars
<1>1. CASE UNCHANGED vars
  BY <1>1 DEF vars
<1>2. CASE Next
  <2>1. CASE UNCHANGED <<ArtifactsVars, UpgradeVars, FetchVars, DeliveryVars, LibraryVars>>
    BY <2>1
  <2>2. CASE ArtifactNext /\ UNCHANGED <<UpgradeVars, FetchVars, DeliveryVars, LibraryVars>>
    BY <2>2
  <2>3. CASE UpgradeNext /\ UNCHANGED <<ArtifactsVars, FetchVars, DeliveryVars, LibraryVars>>
    BY <2>3
  <2>4. CASE FetchNext /\ UNCHANGED <<ArtifactsVars, UpgradeVars, DeliveryVars, LibraryVars>>
    BY <2>4
  <2>5. CASE DeliveryNext /\ UNCHANGED <<ArtifactsVars, UpgradeVars, FetchVars, LibraryVars>>
    BY <2>5
  <2>6. CASE LibraryNext /\ UNCHANGED <<ArtifactsVars, UpgradeVars, FetchVars, DeliveryVars>>
    BY <2>6
  <2> QED BY <1>2, <2>1, <2>2, <2>3, <2>4, <2>5, <2>6 DEF Next
<1> QED BY <1>1, <1>2

(* An Agent update is called done only when the Agent runs the version and has    *)
(* migrated, is released only when its worker has ended, keeps its outcome, and   *)
(* digests are of one stable file (upgrades.py): for any number of updates and    *)
(* any files, when a worker ends within the ten minutes the panel gives it.       *)
THEOREM UpgradesHold == ASSUME ~SlowWorker PROVE Spec => UpgradesAreProven
<1> DEFINE Inv == UpgradeInv /\ ArtifactInv
           OutcomeBody == task.status \in Final /\ task'.id = task.id => task'.status = task.status
           JobBody == task'.id # task.id => job.status \in {"none"} \cup Final
           Careful == OutcomeBody /\ JobBody
<1>1. Init => Inv
  BY UpgradeStarts, ArtifactStarts DEF Init
<1>2. Inv /\ [Next]_vars => Inv'
  BY StepOfEach, UpgradeStep, ArtifactStep
<1>3. Inv => UpgradeTypeOK /\ SuccessIsProven /\ ReleaseIsSafe /\ CachedIsTrue
  BY UpgradeInvMeans, ArtifactInvMeans
<1>4. Inv /\ [Next]_vars => Careful
  BY StepOfEach, UpgradeIsCareful DEF OutcomeStep, JobStep
<1>5. Careful => [OutcomeBody]_upgradeVars /\ [JobBody]_upgradeVars
  OBVIOUS
<1> HIDE DEF Inv, Careful
<1> QED BY <1>1, <1>2, <1>3, <1>4, <1>5, PTL DEF Spec, UpgradesAreProven, OutcomeStands, OnlyOneJob

(* Caches, artifacts and last good answers are written only by a delivery whose    *)
(* files are sound together, and what a delivery takes for current is within its   *)
(* interval (provider_delivery.py): for any subscriptions, intervals and contents, *)
(* and any interleaving of deliveries, edits, downloads by hand and restarts.      *)
THEOREM DeliveriesHold == Spec => DeliveriesAreWhole /\ CurrentIsFresh
<1>1. Init => DeliveryInv
  BY DeliveryStarts DEF Init
<1>2. DeliveryInv /\ [Next]_vars => DeliveryInv'
  BY StepOfEach, DeliveryStep
<1>3. DeliveryInv /\ [Next]_vars => WholeStep /\ FreshStep
  BY StepOfEach, DeliveryStep, DeliveryIsWhole
<1>4. WholeStep /\ FreshStep => [WholeStep]_deliveryVars /\ [FreshStep]_deliveryVars
  OBVIOUS
<1>5. [][WholeStep]_deliveryVars => DeliveriesAreWhole
  BY PTL DEF DeliveriesAreWhole, WholeStep
<1>6. [][FreshStep]_deliveryVars => CurrentIsFresh
  BY PTL DEF CurrentIsFresh, FreshStep
<1> QED BY <1>1, <1>2, <1>3, <1>4, <1>5, <1>6, PTL DEF Spec

(* A rule list a client downloads is never another entry's, a text entered by    *)
(* hand is what its file holds once nobody works on it unless two requests did at  *)
(* once, and a test of many reverts no edit (rule_library.py, rule_utils.py): for  *)
(* any library, names that share old files, requests and failed downloads.        *)
THEOREM RuleFilesHold == Spec => []ServedIsOwn /\ []SettledIsCurrent /\ BatchKeepsEdits
<1>1. Init => LibraryInv
  BY LibraryStarts DEF Init
<1>2. LibraryInv /\ [Next]_vars => LibraryInv'
  BY StepOfEach, LibraryStep
<1>3. LibraryInv => ServedIsOwn /\ SettledIsCurrent
  BY LibraryInvMeans
<1>4. LibraryInv /\ [Next]_vars => BatchIsCareful
  BY StepOfEach, BatchesAreCareful
<1>5. BatchIsCareful => [BatchIsCareful]_libraryVars
  OBVIOUS
<1>6. [][BatchIsCareful]_libraryVars => BatchKeepsEdits
  BY PTL DEF BatchKeepsEdits, BatchIsCareful
<1> QED BY <1>1, <1>2, <1>3, <1>4, <1>5, <1>6, PTL DEF Spec

(* A subscription has one fetch at a time, a result is never older than its       *)
(* asker accepts, and a failure is not fetched again before its cooldown is over  *)
(* (sub_store_client.py): for any keys, requests, room and reuse, when no entry    *)
(* is evicted between its result and its end; and what clients download of it and  *)
(* of the rule library holds as in DeliveriesHold and RuleFilesHold.              *)
THEOREM FetchesHold == ASSUME ~Overtaken PROVE Spec => FetchesAreShared
<1> DEFINE CooldownBody ==
      \A r \in Requests : request[r].pc = "idle" /\ request'[r].pc = "fetch" =>
        LET f == flights[request'[r].key] IN f.state = "failed" => f.at + Cooldown(f.count) <= clock
<1>1. Init => FetchInv
  BY FetchStarts DEF Init
<1>2. FetchInv /\ [Next]_vars => FetchInv'
  BY StepOfEach, FetchStep
<1>3. FetchInv => OneFlight /\ FreshEnough
  BY FetchInvMeans
<1>4. FetchInv /\ [Next]_vars => CooldownBody
  BY StepOfEach, FetchIsCareful DEF CooldownStep
<1>5. CooldownBody => [CooldownBody]_fetchVars
  OBVIOUS
<1> HIDE DEF CooldownBody
<1>6. [][CooldownBody]_fetchVars => CooldownHolds
  BY PTL DEF CooldownHolds, CooldownBody
<1> QED BY <1>1, <1>2, <1>3, <1>4, <1>5, <1>6, DeliveriesHold, RuleFilesHold, PTL DEF Spec, FetchesAreShared

===============================================================================
