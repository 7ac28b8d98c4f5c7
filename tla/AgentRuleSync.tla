--------------------------- MODULE AgentRuleSync ---------------------------
(* Rules that reach one device without a person (agents/rule_sync*.py): the receipt of *)
(* the last successful release is the base, only the scopes switched on are projected  *)
(* onto it, contents are downloaded by the core and structures are hot-loaded.         *)
EXTENDS Naturals, FiniteSets

CONSTANTS
  Lists,             \* referenced rule sets
  MaxEdits,          \* bound on edits of the profile
  MaxTrouble,        \* bound on failed calls, switches, departures and deaths
  MaxReleases,       \* bound on releases by a person
  TakenBackLate      \* whether an edit may be taken back once a device may have downloaded it

VARIABLES
  core,              \* "mihomo" or "oxidns"
  profile,           \* what the profile holds now
  settings,          \* the scopes switched on for this device
  online,            \* whether the device answers
  applied,           \* the confirmed publication and the source its receipt holds
  deploy,            \* the latest deployment
  live,              \* what the device runs
  task,              \* the core's own download task
  sync,              \* the recorded state of the synchronisation
  worker,            \* the worker that holds the device's lock, with what it has read
  spent              \* edits, trouble and releases so far

ruleSyncVars == <<core, profile, settings, online, applied, deploy, live, task, sync, worker, spent>>

Scopes == [library : BOOLEAN, rules : BOOLEAN]
Terminal == {"succeeded", "failed", "none"}
NoKey == <<"none">>
NoTask == [id |-> 0, status |-> "idle", left |-> {}]
NoDeploy == [id |-> 0, status |-> "none", auto |-> FALSE, source |-> profile]
NoState == [status |-> "none", key |-> NoKey, native |-> 0, force |-> FALSE, wait |-> "none", deploy |-> 0]
Idle == [pc |-> "idle", view |-> [settings |-> settings, applied |-> 0], old |-> sync, base |-> profile,
         source |-> profile, todo |-> {}, snap |-> live]
State(status) == [NoState EXCEPT !.status = status]

\* a publication receives a number that nobody used
NextId == 1 + CHOOSE n \in {applied.id, deploy.id} : n >= applied.id /\ n >= deploy.id

RuleSyncInit ==
  /\ core \in {"mihomo", "oxidns"}
  /\ profile = [content |-> [l \in Lists |-> 0], sets |-> 0, rules |-> 0, other |-> 0]
  /\ settings = [library |-> TRUE, rules |-> FALSE]
  /\ online = TRUE
  /\ applied = [id |-> 1, source |-> profile]
  /\ deploy = [id |-> 1, status |-> "succeeded", auto |-> FALSE, source |-> profile]
  /\ live = profile
  /\ task = NoTask /\ sync = NoState
  /\ worker = Idle
  /\ spent = [edits |-> 0, trouble |-> 0, releases |-> 0]

\* the Agent's operation lock excludes deployments, snapshots and the core's download task
AgentFree == task.status # "running"
Trouble == spent.trouble < MaxTrouble /\ spent' = [spent EXCEPT !.trouble = @ + 1]

(* -------------------------------- everybody else -------------------------------- *)
\* an edit is new, or takes a content back to what the device confirmed
Returned(l) == IF TakenBackLate \/ (core = "mihomo" /\ sync.status # "running") THEN {applied.source.content[l]} ELSE {}
EditProfile ==
  /\ spent.edits < MaxEdits
  /\ LET new == spent.edits + 1 IN
     \/ \E l \in Lists : \E v \in ({new} \cup Returned(l)) \ {profile.content[l]} :
          profile' = [profile EXCEPT !.content[l] = v]
     \/ \E f \in {"sets", "rules", "other"} : profile' = [profile EXCEPT ![f] = new]
  /\ spent' = [spent EXCEPT !.edits = @ + 1]
  /\ UNCHANGED <<core, settings, online, applied, deploy, live, task, sync, worker>>

Configure ==
  /\ Trouble
  /\ settings' \in Scopes \ {settings}
  /\ UNCHANGED <<core, profile, online, applied, deploy, live, task, sync, worker>>

Departs ==
  /\ online /\ Trouble /\ online' = FALSE
  /\ UNCHANGED <<core, profile, settings, applied, deploy, live, task, sync, worker>>
Returns ==
  /\ ~online /\ online' = TRUE
  /\ UNCHANGED <<core, profile, settings, applied, deploy, live, task, sync, worker, spent>>

\* a person publishes the whole profile, and the receipt becomes the base
ReleaseBegins ==
  /\ spent.releases < MaxReleases /\ deploy.status \in Terminal
  /\ deploy' = [id |-> NextId, status |-> "running", auto |-> FALSE, source |-> profile]
  /\ spent' = [spent EXCEPT !.releases = @ + 1]
  /\ UNCHANGED <<core, profile, settings, online, applied, live, task, sync, worker>>
ReleaseEnds ==
  /\ deploy.status = "running" /\ ~deploy.auto
  /\ \/ /\ AgentFree /\ deploy' = [deploy EXCEPT !.status = "succeeded"]
        /\ applied' = [id |-> deploy.id, source |-> deploy.source] /\ live' = deploy.source
     \/ deploy' = [deploy EXCEPT !.status = "failed"] /\ UNCHANGED <<applied, live>>
  /\ UNCHANGED <<core, profile, settings, online, task, sync, worker, spent>>

\* another profile, or a release taken back: no receipt describes the device
Forget ==
  /\ applied.id # 0 /\ deploy.status \in Terminal /\ Trouble
  /\ applied' = [applied EXCEPT !.id = 0]
  /\ UNCHANGED <<core, profile, settings, online, deploy, live, task, sync, worker>>

\* the core's task fetches one list after the other from the panel, as it is by then
TaskStep ==
  /\ task.status = "running"
  /\ \/ \E l \in task.left :
          /\ live' = [live EXCEPT !.content[l] = profile.content[l]]
          /\ task' = [task EXCEPT !.left = @ \ {l}, !.status = IF task.left = {l} THEN "succeeded" ELSE "running"]
          /\ UNCHANGED spent
     \/ Trouble /\ task' = [task EXCEPT !.status = "failed"] /\ UNCHANGED live
  /\ UNCHANGED <<core, profile, settings, online, applied, deploy, sync, worker>>

TimePasses ==
  /\ sync.wait # "none" /\ sync' = [sync EXCEPT !.wait = "none"]
  /\ UNCHANGED <<core, profile, settings, online, applied, deploy, live, task, worker, spent>>

(* ----------------------------------- the worker ---------------------------------- *)
\* only the scopes switched on advance; everything else stays as it was published
Project(base, current, scopes) ==
  [content |-> IF scopes.library THEN current.content ELSE base.content,
   sets |-> IF scopes.library THEN current.sets ELSE base.sets,
   rules |-> IF scopes.rules THEN current.rules ELSE base.rules, other |-> base.other]
Kind(base, source) ==
  IF source = base THEN "none" ELSE IF [source EXCEPT !.content = base.content] = base THEN "content" ELSE "structure"
Unchanged(own) ==
  settings = worker.view.settings /\ applied.id = worker.view.applied /\ (deploy.status \in Terminal \/ deploy.id = own)
EndWith(new) == worker' = Idle /\ sync' = new
Quit == worker' = Idle /\ UNCHANGED sync
\* run() keeps what a later run needs to finish an accepted task
Failed == [State("failed") EXCEPT !.force = TRUE, !.wait = "retry", !.native = sync.native, !.key = sync.key]

Read ==
  /\ worker.pc = "idle" /\ (settings.library \/ settings.rules) /\ sync.wait # "retry"
  /\ IF ~online THEN
       /\ sync' = [State("pending") EXCEPT !.native = sync.native, !.key = sync.key,
                                           !.force = sync.force \/ sync.status = "running"]
       /\ UNCHANGED worker
     ELSE IF deploy.status \notin Terminal THEN
       /\ sync' = [State(IF sync.deploy = deploy.id THEN "running" ELSE "pending") EXCEPT !.deploy = sync.deploy]
       /\ UNCHANGED worker
     ELSE IF sync.deploy = deploy.id /\ deploy.status # "succeeded" THEN
       sync' = [State("failed") EXCEPT !.wait = "retry"] /\ UNCHANGED worker
     ELSE IF applied.id = 0 THEN sync' = State("blocked") /\ UNCHANGED worker
     ELSE
       /\ sync' = IF sync.deploy = deploy.id /\ deploy.id # 0 THEN State("succeeded") ELSE sync
       /\ worker' = [Idle EXCEPT !.pc = "compare", !.view = [settings |-> settings, applied |-> applied.id],
                                 !.base = applied.source, !.old = sync]
  /\ UNCHANGED <<core, profile, settings, online, applied, deploy, live, task, spent>>

Reconciles(old, scopes) == old.native # 0 \/ (scopes.library /\ (old.force \/ old.status = "running"))

Compare ==
  LET view == worker.view.settings
      old == worker.old
      source == Project(worker.base, profile, view)
      key == <<source, view, worker.view.applied>>
      kind == Kind(worker.base, source) IN
  /\ worker.pc = "compare"
  /\ \/ /\ kind = "none" /\ ~Reconciles(old, view)
        /\ IF old.status = "succeeded" THEN Quit ELSE EndWith(State("idle"))
     \/ /\ kind # "none" \/ Reconciles(old, view)
        /\ IF old.native # 0 /\ core = "oxidns" THEN worker' = [worker EXCEPT !.pc = "ask", !.source = source] /\ UNCHANGED sync
           ELSE IF old.key # key THEN
             EndWith([State("pending") EXCEPT !.key = key, !.wait = "notice", !.force = old.force \/ old.status = "running"])
           ELSE IF old.wait = "notice" THEN Quit
           ELSE /\ worker' = [worker EXCEPT !.pc = IF kind = "structure" THEN "reserve" ELSE "refresh", !.source = source]
                /\ UNCHANGED sync
  /\ UNCHANGED <<core, profile, settings, online, applied, deploy, live, task, spent>>

\* the live files, whole and of the confirmed publication, become the receipt's bytes
Acknowledge(source, new) ==
  IF Unchanged(0) /\ applied.id # 0
  THEN applied' = [applied EXCEPT !.source = source] /\ EndWith(new)
  ELSE UNCHANGED applied /\ EndWith(State("pending"))

Ask ==
  LET view == worker.view.settings
      key == <<worker.source, view, worker.view.applied>>
      own == task.id = worker.old.native IN
  /\ worker.pc = "ask" /\ online
  /\ UNCHANGED <<core, profile, settings, online, deploy, live, task, spent>>
  /\ IF own /\ task.status = "running" THEN Quit /\ UNCHANGED applied
     ELSE IF applied.id # worker.view.applied THEN EndWith(Failed) /\ UNCHANGED applied
     ELSE IF ~view.library THEN
       IF Unchanged(0) THEN Acknowledge(worker.base, State("idle")) ELSE Quit /\ UNCHANGED applied
     ELSE IF own /\ task.status = "succeeded" /\ key = worker.old.key /\ Unchanged(0) THEN
       worker' = [worker EXCEPT !.pc = "snapshot"] /\ UNCHANGED <<sync, applied>>
     ELSE /\ UNCHANGED applied
          /\ EndWith(IF own /\ task.status = "failed"
                     THEN [State("failed") EXCEPT !.force = TRUE, !.wait = "retry"]
                     ELSE [State("pending") EXCEPT !.key = key, !.wait = "notice", !.force = TRUE])

StartRefresh ==
  LET key == <<worker.source, worker.view.settings, worker.view.applied>> IN
  /\ worker.pc = "refresh"
  /\ IF ~Unchanged(0) THEN Quit
     ELSE /\ sync' = [State("running") EXCEPT !.key = key]
          /\ worker' = [worker EXCEPT !.pc = IF core = "mihomo" THEN "put" ELSE "busy", !.todo = Lists]
  /\ UNCHANGED <<core, profile, settings, online, applied, deploy, live, task, spent>>

\* Mihomo: the core downloads one provider per call
Put ==
  /\ worker.pc = "put" /\ worker.todo # {}
  /\ UNCHANGED <<core, profile, settings, online, applied, deploy, task, spent>>
  /\ IF ~Unchanged(0) THEN Quit /\ UNCHANGED live
     ELSE /\ online
          /\ \E l \in worker.todo :
               /\ live' = [live EXCEPT !.content[l] = profile.content[l]]
               /\ worker' = [worker EXCEPT !.todo = @ \ {l}]
          /\ UNCHANGED sync
PutDone ==
  /\ worker.pc = "put" /\ worker.todo = {}
  /\ worker' = [worker EXCEPT !.pc = "verify"]
  /\ UNCHANGED <<core, profile, settings, online, applied, deploy, live, task, sync, spent>>

\* OxiDNS: a task that runs already is waited for; ours is remembered by its number
Busy ==
  /\ worker.pc = "busy" /\ online
  /\ IF task.status = "running"
     THEN EndWith([State("pending") EXCEPT !.key = sync.key])
     ELSE worker' = [worker EXCEPT !.pc = "post"] /\ UNCHANGED sync
  /\ UNCHANGED <<core, profile, settings, online, applied, deploy, live, task, spent>>
Post ==
  /\ worker.pc = "post" /\ online /\ task.status # "running"
  /\ task' = [id |-> task.id + 1, status |-> "running", left |-> Lists]
  /\ \/ EndWith([sync EXCEPT !.native = task.id + 1]) /\ UNCHANGED spent
     \/ Trouble /\ EndWith(Failed)                                   \* the answer is lost
  /\ UNCHANGED <<core, profile, settings, online, applied, deploy, live>>

\* a source edited during the download is looked at again
Verify ==
  /\ worker.pc = "verify"
  /\ IF ~Unchanged(0) THEN Quit
     ELSE IF Project(worker.base, profile, worker.view.settings) # worker.source THEN EndWith(State("pending"))
     ELSE worker' = [worker EXCEPT !.pc = "snapshot"] /\ UNCHANGED sync
  /\ UNCHANGED <<core, profile, settings, online, applied, deploy, live, task, spent>>
Snapshot ==
  /\ worker.pc = "snapshot" /\ online /\ AgentFree
  /\ worker' = [worker EXCEPT !.pc = "advance", !.snap = live]
  /\ UNCHANGED <<core, profile, settings, online, applied, deploy, live, task, sync, spent>>
Advance ==
  /\ worker.pc = "advance"
  /\ IF Unchanged(0) THEN Acknowledge(worker.source, State("succeeded")) ELSE Quit /\ UNCHANGED applied
  /\ UNCHANGED <<core, profile, settings, online, deploy, live, task, spent>>

\* a structure is published as a deployment of its own, reserved like every other
Reserve ==
  /\ worker.pc = "reserve"
  /\ IF deploy.status \notin Terminal THEN EndWith(State("pending")) /\ UNCHANGED deploy
     ELSE /\ deploy' = [id |-> NextId, status |-> "running", auto |-> TRUE, source |-> worker.source]
          /\ sync' = [State("running") EXCEPT !.deploy = NextId,
                                              !.key = <<worker.source, worker.view.settings, worker.view.applied>>]
          /\ worker' = [worker EXCEPT !.pc = "prepare"]
  /\ UNCHANGED <<core, profile, settings, online, applied, live, task, spent>>
Prepare ==
  /\ worker.pc = "prepare" /\ online /\ AgentFree
  /\ worker' = [worker EXCEPT !.pc = "publish", !.snap = live]
  /\ UNCHANGED <<core, profile, settings, online, applied, deploy, live, task, sync, spent>>

\* rule files come from the projection where their scope is on, all other bytes from the snapshot
Candidate ==
  [worker.source EXCEPT !.content = IF worker.view.settings.library THEN @ ELSE worker.snap.content,
                        !.other = worker.snap.other]
Publish ==
  /\ worker.pc = "publish" /\ online
  /\ UNCHANGED <<core, profile, settings, online, task>>
  /\ IF ~Unchanged(deploy.id)
     THEN deploy' = [deploy EXCEPT !.status = "failed"] /\ EndWith(Failed) /\ UNCHANGED <<applied, live, spent>>
     ELSE \/ /\ AgentFree /\ deploy' = [deploy EXCEPT !.status = "succeeded"]
             /\ live' = Candidate /\ applied' = [id |-> deploy.id, source |-> worker.source]
             /\ EndWith(State("succeeded")) /\ UNCHANGED spent
          \/ /\ Trouble /\ deploy' = [deploy EXCEPT !.status = "failed"]
             /\ EndWith([State("failed") EXCEPT !.wait = "retry"]) /\ UNCHANGED <<applied, live>>
          \/ /\ Trouble /\ AgentFree /\ deploy' = [deploy EXCEPT !.status = "unknown"]    \* the answer is lost
             /\ live' = Candidate /\ Quit /\ UNCHANGED applied

\* the manager's own polls settle a publication whose answer was lost, or whose worker is gone
Polled ==
  /\ deploy.auto /\ online /\ worker.pc \notin {"prepare", "publish"}
  /\ \/ /\ deploy.status = "unknown" /\ deploy' = [deploy EXCEPT !.status = "succeeded"]
        /\ applied' = [id |-> deploy.id, source |-> deploy.source]
     \/ deploy.status = "running" /\ deploy' = [deploy EXCEPT !.status = "failed"] /\ UNCHANGED applied
  /\ UNCHANGED <<core, profile, settings, online, live, task, sync, worker, spent>>

\* a call of the worker fails: the exception ends this run
CallFails ==
  /\ worker.pc \in {"ask", "put", "busy", "post", "snapshot", "prepare"}
  /\ IF online \/ worker.pc = "prepare" THEN Trouble ELSE UNCHANGED spent
  /\ deploy' = IF worker.pc = "prepare" THEN [deploy EXCEPT !.status = "failed"] ELSE deploy
  /\ EndWith(Failed)
  /\ UNCHANGED <<core, profile, settings, online, applied, live, task>>
Crash ==
  /\ worker.pc # "idle" /\ Trouble
  /\ worker' = Idle
  /\ UNCHANGED <<core, profile, settings, online, applied, deploy, live, task, sync>>

WorkerStep ==
  \/ Read \/ Compare \/ Ask \/ StartRefresh \/ Put \/ PutDone \/ Busy \/ Post \/ Verify \/ Snapshot \/ Advance
  \/ Reserve \/ Prepare \/ Publish
RuleSyncNext ==
  \/ EditProfile \/ Configure \/ Departs \/ Returns \/ ReleaseBegins \/ ReleaseEnds \/ Forget \/ TaskStep \/ TimePasses
  \/ WorkerStep \/ Polled \/ CallFails \/ Crash

(* ----------------------------------- properties ---------------------------------- *)
(* An automatic change moves rules only: no draft of nodes or DNS and no scope that is  *)
(* switched off reaches the device, and no newer release of a person is put back, however *)
(* old what the worker read is (prepare_candidate, isolate_rule_bundle, _unchanged).      *)
OnlyRulesMove ==
  [][worker.pc = "publish" /\ live' # live /\ UNCHANGED task =>
       /\ live'.other = live.other
       /\ ~worker.view.settings.rules => live'.rules = live.rules
       /\ ~worker.view.settings.library => live'.sets = live.sets /\ live'.content = live.content]_ruleSyncVars

(* What is acknowledged as synchronised is what the device runs: exactly for Mihomo, whose   *)
(* downloads are over when the source is compared again; for OxiDNS an edit that overtakes    *)
(* the acknowledgement is still seen as a difference (rule_sync.py, the second projection).     *)
AcknowledgedIsLive ==
  [][sync'.status = "succeeded" /\ sync.status # "succeeded" /\ applied'.source # applied.source =>
       LET said == applied'.source IN
       /\ said.other = live'.other
       /\ worker.view.settings.library =>
            said.content = live'.content \/ (core = "oxidns" /\ profile.content # said.content)]_ruleSyncVars

(* No download is asked for by a run that found the library switched off (rule_sync.py).   *)
OffMeansNoDownload ==
  [][task'.id # task.id => worker.view.settings.library]_ruleSyncVars

(* Once nobody edits, switches or fails, a device with a receipt and a switched-on scope    *)
(* runs what the profile says within that scope (RuleSyncWorker).                             *)
Settled ==
  /\ settings.library => live.content = profile.content /\ live.sets = profile.sets
  /\ settings.rules => live.rules = profile.rules
RulesReachTheDevice == <>[](applied.id # 0 => Settled)
=============================================================================
