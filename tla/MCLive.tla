-------------------------------- MODULE MCLive --------------------------------
(* Small instances of the panel's background work under the fairness of its    *)
(* schedulers: each behaviour is about one component.                          *)
EXTENDS Integers, Sequences, FiniteSets

CONSTANTS t1, v1, v2, v3, NoWorkerTask, NoVersion, AgentDown, Nobody, TheAgent

VARIABLE focus    \* the component this behaviour is about
VARIABLES current, journal, copies, units, binary, migrated, process, boot, bootstrap, restartQueued, holder,
  worker_op, checked, prep, worker_worker, mem, next, seen, reported, origin, faults, worker_crashes
VARIABLES upgrade_task, deploying, shown, upgrade_late, starter, asker, upgrade_device, upgrade_job
VARIABLES service, launched, files, spare, converter, updater, exclusive, mode, recorded, idle,
  substore_crashes
VARIABLES clock, flights, failures, request
VARIABLES rulesync_settings, remote, rulecache, receipt, rows, rulesync_job, manual, rulesync_spent,
  rulesync_late
VARIABLES source, draft, follow_applied, follow_device, child, binding, state, follow_task, follow_round,
  upsets
VARIABLES library, served, rules, discovery_settings, traffic, probes, discovery_job, discovery_op,
  discovery_round, used
VARIABLES core, profile, device_settings, online, device_applied, deploy, live, device_task, sync,
  device_worker, device_spent

MCTarget == [t \in {t1} |-> v2]
Worker == INSTANCE AgentUpgrade WITH Task <- {t1}, Version <- {v1, v2, v3}, Target <- MCTarget, Installed <- v1, Broken <- {},
    Changes <- 2, Deferred <- FALSE, Flaky <- FALSE, UncertainStart <- TRUE, MaxFaults <- 0,
    MaxCrashes <- 2, NoTask <- NoWorkerTask, Down <- AgentDown, Agent <- TheAgent, op <- worker_op,
    worker <- worker_worker, crashes <- worker_crashes

Upgrade == INSTANCE PanelUpgrade WITH MaxTasks <- 1, SlowWorker <- FALSE, task <- upgrade_task, late <- upgrade_late,
    device <- upgrade_device, job <- upgrade_job

SubStore == INSTANCE SubStoreRuntime WITH Converters <- {"c1", "c2"}, Releases <- {2, 3}, MaxCrashes <- 1, crashes <- substore_crashes

Fetch == INSTANCE SubscriptionFetch WITH Keys <- {"k1"}, Requests <- {"r1", "r2"}, CacheRoom <- 1, ManualReuse <- 1, FetchReuse <- 2,
    BackgroundReuse <- 3, MaxCooldown <- 1, MaxFailures <- 3, Overtaken <- FALSE, Nobody <- "none",
    MaxTime <- 1

RuleSync == INSTANCE RouterRuleSync WITH Nets <- {"a", "p"}, PolicyNets <- {"p"}, RemoteVersions <- {{"a"}, {"p"}}, LocalVersions <- {{}},
    MaxSettings <- 0, MaxTrouble <- 1, settings <- rulesync_settings, job <- rulesync_job,
    spent <- rulesync_spent, late <- rulesync_late

Follow == INSTANCE DnsFollow WITH Addresses <- {"x", "y"}, MaxReleases <- 2, MaxDrafts <- 1, MaxUpsets <- 2,
    applied <- follow_applied, device <- follow_device, task <- follow_task, round <- follow_round

DomainsDef == <<"a", "b">>
Sample(d, p) == [direct |-> d, proxy |-> p, directHealthy |-> TRUE, proxyHealthy |-> TRUE, agree |-> TRUE, passive |-> FALSE, directFast |-> TRUE]
SamplesDef == {Sample("fail", "ok"), Sample("ok", "ok")}
Discovery == INSTANCE DomainDiscovery WITH Domains <- DomainsDef, Rulesets <- {"r1", "r2"}, FirstRuleset <- "r1", OwnCovers <- {"a"},
    Samples <- SamplesDef, Threshold <- 80, ProbeLimit <- 1, RecheckLimit <- 1, MaxRequests <- 1,
    MaxAges <- 1, MaxJobFaults <- 0, settings <- discovery_settings, job <- discovery_job,
    op <- discovery_op, round <- discovery_round

Device == INSTANCE AgentRuleSync WITH Lists <- {"a"}, MaxEdits <- 2, MaxTrouble <- 1, MaxReleases <- 0, TakenBackLate <- FALSE,
    settings <- device_settings, applied <- device_applied, task <- device_task,
    worker <- device_worker, spent <- device_spent

WorkerVars == <<current, journal, copies, units, binary, migrated, process, boot, bootstrap, restartQueued, holder,
  worker_op, checked, prep, worker_worker, mem, next, seen, reported, origin, faults, worker_crashes>>
UpgradeVars == <<upgrade_task, deploying, shown, upgrade_late, starter, asker, upgrade_device, upgrade_job>>
SubStoreVars == <<service, launched, files, spare, converter, updater, exclusive, mode, recorded, idle,
  substore_crashes>>
FetchVars == <<clock, flights, failures, request>>
RuleSyncVars == <<rulesync_settings, remote, rulecache, receipt, rows, rulesync_job, manual, rulesync_spent,
  rulesync_late>>
FollowVars == <<source, draft, follow_applied, follow_device, child, binding, state, follow_task, follow_round,
  upsets>>
DiscoveryVars == <<library, served, rules, discovery_settings, traffic, probes, discovery_job, discovery_op,
  discovery_round, used>>
DeviceVars == <<core, profile, device_settings, online, device_applied, deploy, live, device_task, sync,
  device_worker, device_spent>>
vars == <<focus, WorkerVars, UpgradeVars, SubStoreVars, FetchVars, RuleSyncVars, FollowVars, DiscoveryVars,
  DeviceVars>>

Init ==
  /\ focus \in {"Worker", "Upgrade", "SubStore", "Fetch", "RuleSync", "Follow", "Discovery", "Device"}
  /\ Worker!Init
  /\ Upgrade!UpgradeInit
  /\ SubStore!RuntimeInit
  /\ focus # "SubStore" => mode = "always" /\ files = spare
  /\ Fetch!FetchInit
  /\ RuleSync!SyncInit
  /\ focus # "RuleSync" => remote = {"a"}
  /\ Follow!FollowInit
  /\ Discovery!DiscoveryInit
  /\ Device!RuleSyncInit
  /\ focus # "Device" => core = "oxidns"

Next ==
  /\ UNCHANGED focus
  /\ \/ focus = "Worker" /\ Worker!Next /\ UNCHANGED <<UpgradeVars, SubStoreVars, FetchVars, RuleSyncVars, FollowVars, DiscoveryVars, DeviceVars>>
     \/ focus = "Upgrade" /\ Upgrade!UpgradeNext /\ UNCHANGED <<WorkerVars, SubStoreVars, FetchVars, RuleSyncVars, FollowVars, DiscoveryVars, DeviceVars>>
     \/ focus = "SubStore" /\ SubStore!RuntimeNext /\ UNCHANGED <<WorkerVars, UpgradeVars, FetchVars, RuleSyncVars, FollowVars, DiscoveryVars, DeviceVars>>
     \/ focus = "Fetch" /\ Fetch!FetchNext /\ UNCHANGED <<WorkerVars, UpgradeVars, SubStoreVars, RuleSyncVars, FollowVars, DiscoveryVars, DeviceVars>>
     \/ focus = "RuleSync" /\ RuleSync!SyncNext /\ UNCHANGED <<WorkerVars, UpgradeVars, SubStoreVars, FetchVars, FollowVars, DiscoveryVars, DeviceVars>>
     \/ focus = "Follow" /\ Follow!FollowNext /\ UNCHANGED <<WorkerVars, UpgradeVars, SubStoreVars, FetchVars, RuleSyncVars, DiscoveryVars, DeviceVars>>
     \/ focus = "Discovery" /\ Discovery!DiscoveryNext /\ UNCHANGED <<WorkerVars, UpgradeVars, SubStoreVars, FetchVars, RuleSyncVars, FollowVars, DeviceVars>>
     \/ focus = "Device" /\ Device!RuleSyncNext /\ UNCHANGED <<WorkerVars, UpgradeVars, SubStoreVars, FetchVars, RuleSyncVars, FollowVars, DiscoveryVars>>

\* The component a behaviour is about runs under its own fairness.
Fairness ==
  /\ WF_WorkerVars(focus = "Worker" /\ (Worker!WorkerStep(t1)))
  /\ WF_WorkerVars(focus = "Worker" /\ (Worker!PrepareStep))
  /\ WF_WorkerVars(focus = "Worker" /\ (Worker!StartOperation))
  /\ WF_WorkerVars(focus = "Worker" /\ (Worker!EndOperation))
  /\ WF_WorkerVars(focus = "Worker" /\ (Worker!Answer))
  /\ WF_WorkerVars(focus = "Worker" /\ (Worker!StartAgent))
  /\ WF_WorkerVars(focus = "Worker" /\ (Worker!StopAgent))
  /\ WF_WorkerVars(focus = "Worker" /\ (Worker!Startup))
  /\ WF_UpgradeVars(focus = "Upgrade" /\ (Upgrade!Reserve))
  /\ WF_UpgradeVars(focus = "Upgrade" /\ (Upgrade!Post))
  /\ WF_UpgradeVars(focus = "Upgrade" /\ (Upgrade!StartAnswered))
  /\ WF_UpgradeVars(focus = "Upgrade" /\ (Upgrade!Asking))
  /\ SF_UpgradeVars(focus = "Upgrade" /\ (Upgrade!JobHeard))
  /\ SF_UpgradeVars(focus = "Upgrade" /\ (Upgrade!InfoHeard))
  /\ WF_UpgradeVars(focus = "Upgrade" /\ (Upgrade!Heartbeat))
  /\ WF_UpgradeVars(focus = "Upgrade" /\ (Upgrade!ReportLegacy))
  /\ WF_UpgradeVars(focus = "Upgrade" /\ (Upgrade!Deadline))
  /\ WF_UpgradeVars(focus = "Upgrade" /\ (Upgrade!Work))
  /\ WF_UpgradeVars(focus = "Upgrade" /\ (Upgrade!Recovered))
  /\ <>[][~Upgrade!PanelDies]_UpgradeVars
  /\ WF_SubStoreVars(focus = "SubStore" /\ (SubStore!Tick))
  /\ WF_SubStoreVars(focus = "SubStore" /\ (SubStore!IdleTimePasses))
  /\ WF_SubStoreVars(focus = "SubStore" /\ (SubStore!Updating))
  /\ \A c \in {"c1", "c2"} : WF_SubStoreVars(focus = "SubStore" /\ (SubStore!Started(c)))
  /\ \A c \in {"c1", "c2"} : WF_SubStoreVars(focus = "SubStore" /\ (SubStore!Used(c)))
  /\ \A r \in {"r1", "r2"} : WF_FetchVars(focus = "Fetch" /\ (Fetch!Fetched(r)))
  /\ \A r \in {"r1", "r2"} : WF_FetchVars(focus = "Fetch" /\ (Fetch!Store(r)))
  /\ \A r \in {"r1", "r2"} : WF_FetchVars(focus = "Fetch" /\ (Fetch!Return(r)))
  /\ WF_RuleSyncVars(focus = "RuleSync" /\ (RuleSync!JobStep))
  /\ WF_RuleSyncVars(focus = "RuleSync" /\ (RuleSync!Begin))
  /\ WF_RuleSyncVars(focus = "RuleSync" /\ (RuleSync!Cancelled))
  /\ WF_RuleSyncVars(focus = "RuleSync" /\ (RuleSync!Capture))
  /\ WF_FollowVars(focus = "Follow" /\ (Follow!Tick))
  /\ WF_FollowVars(focus = "Follow" /\ (Follow!RoundStep))
  /\ WF_FollowVars(focus = "Follow" /\ (Follow!AgentEnds))
  /\ WF_FollowVars(focus = "Follow" /\ (Follow!SourceEnds))
  /\ \A a \in {"user", "auto"} : WF_DiscoveryVars(focus = "Discovery" /\ (Discovery!ReadTargets(a) \/ Discovery!AppendLines(a) \/ Discovery!Save(a) \/ Discovery!Record(a)))
  /\ WF_DiscoveryVars(focus = "Discovery" /\ (Discovery!RemoveLines \/ Discovery!DropHistory \/ Discovery!Reference))
  /\ WF_DiscoveryVars(focus = "Discovery" /\ (Discovery!ProbeHost \/ Discovery!EndJob))
  /\ WF_DiscoveryVars(focus = "Discovery" /\ (Discovery!BeginRound \/ Discovery!Adopt \/ Discovery!BeginRecheck \/ Discovery!RecordRecheck))
  /\ WF_DeviceVars(focus = "Device" /\ (Device!WorkerStep))
  /\ WF_DeviceVars(focus = "Device" /\ (Device!Polled))
  /\ WF_DeviceVars(focus = "Device" /\ (Device!Returns))
  /\ WF_DeviceVars(focus = "Device" /\ (Device!ReleaseEnds))
  /\ WF_DeviceVars(focus = "Device" /\ (Device!TaskStep))
  /\ WF_DeviceVars(focus = "Device" /\ (Device!TimePasses))

Spec == Init /\ [][Next]_vars /\ Fairness

\* However answers are lost and processes end, an update ends at the Agent and in the panel, a pending
\* synchronisation ends, a released address is followed or refused, a due domain is rechecked, edited
\* rules reach their device, whoever waits for a subscription is answered and an idle Sub-Store goes to
\* sleep.
WorkIsAnswered ==
  /\ Worker!UpdateConverges
  /\ Worker!LocksAreReleased
  /\ Upgrade!UpgradeResolves
  /\ RuleSync!PendingEnds
  /\ Follow!ReleaseIsAnswered
  /\ Discovery!EntriesAreRechecked
  /\ Device!RulesReachTheDevice
  /\ Fetch!WaitersAreAnswered
  /\ SubStore!SleepsWhenIdle

\* Sub-Store is never stopped under a conversion, and an update is whole or undone
\* (sub_store_runtime.py).
SubStoreIsKept ==
  /\ SubStore!NeverStoppedInUse
  /\ []SubStore!UpdateIsWhole
  /\ []SubStore!ActiveIsInstalled
===============================================================================
