# ConfigFlow: TLA+ models, checks and proofs

ConfigFlow manages proxy and DNS cores (Mihomo, MosDNS, OxiDNS) on remote devices. A **panel** (Python, `backend/`)
keeps configuration spaces, generates configurations and publishes them; a **Go Agent** on every device
(`backend/agents/go-agent/`) installs them, supervises the core and updates itself; a **router** (RouterOS, iKuai) may
be written by the panel directly. This directory specifies the parts of the system whose correctness depends on order,
failure, concurrency or on a compilation that must keep a meaning, checks them with TLC and proves part of the results
with TLAPS.

Paths are relative to `src/backend/` unless said otherwise; `routes/…go` and `upgrade/…` are in `agents/go-agent/`.

## Inventory

| Component | State it keeps | Operations | What is hard, and what makes it correct |
|---|---|---|---|
| Agent deployment engine (`routes/deployment*.go`, `cleanup.go`) | one journal per deployment, staged files, backups, two manifests, the live directory, `operation.lock` | upload, activate, roll back, retention, recovery | every file operation may fail or be cut off. No half-installed release without a journal that repairs it; a recorded outcome is true |
| Agent service lifecycle, watchdog (`restart.go`, `*_reload.go`, `dns_watchdog.go`) | the core process, counters | stop, start, reload, tick | uncertain results; the running state is restored; the watchdog takes only the lock |
| Agent upgrade worker (`upgrade/`, `routes/update.go`) | `current.json`, job files, backups, a unit of the service manager | prepare, run, roll back, report | worker and Agent die independently; one task, a true outcome for each |
| Panel deployment coordination (`agents/manager.py`) | `deployments`, `latest_deployment`, `applied_content` of each Agent | begin, publish, poll, activate, roll back | lost, late and overlapping answers; an outcome never regresses; one unfinished deployment per Agent |
| Panel Agent registry (`agents/manager.py`, `routes/agents.py`) | Agent records, tokens, bindings | register, bind, move, delete, publish | what a page showed against what is bound when it is used |
| Panel upgrade coordination (`agents/upgrades.py`) | `latest_upgrade`, digests of the update files | start, poll, legacy report | lost acceptance, a ten-minute deadline, files replaced while they are hashed |
| Gateway installation wizard (`agents/gateway_installation.py`) | sessions | enrol, publish, retry | an ordered pair of deployments across restarts and deployments by hand |
| Panel DNS follow (`agents/dns_follow.py`) | binding, state, job | tick, configure, retry, finish | the child deployment is reserved, stored and finished in separate writes |
| Panel rule synchronisation (`agents/rule_sync*.py`) | settings, receipt, state | run, push, acknowledge | the base is read before slow calls and used after them |
| Router release and rule sync (`routers/`) | objects on the device, manifest, receipt | release, undo, sync | other administrators, lost answers, undo in reverse order |
| Router drivers and planning (`routers/base.py`, `ros_policy*.py`, `plan.py`) | the device's tables | judge, plan | longest prefix, NAT exemption |
| Subscription fetching and Sub-Store (`utils/sub_store_*.py`) | shared flights, cooldowns; a local service | fetch; start, stop, update | one flight per key, eviction; an update under use |
| Provider delivery (`utils/provider_delivery.py`) | node caches, artifacts, last-good answers | deliver, update by hand | a set is sound together; what is written last is not older |
| Configuration repository (`common/config_repository.py`) | one document, its backup and cache, directories | transactions, import, migration | lost updates, power loss, a publication without its record |
| Proxy topology compiler (`converters/mihomo.py`, `utils/proxy_chains.py`, …) | the generated configuration | edit, compile | what is accepted stays usable; a chain keeps its path |
| Rules and clients of other brands (`routes/rules.py`, `converters/surge.py`, `loon.py`) | the ordered rules, groups, nodes | edit; generate | the same request meets the same rule in every client |
| Rule library (`routes/rule_library.py`, `utils/rule_utils.py`) | entries, their files, old files named after them | edit, rename, download, test | the transaction and the files are separate writes |
| Rule matching (`utils/rule_matcher.py`, `domain_matcher_cache.py`) | an index, a cache of indexes | look up | the index is the first match; a handle is current |
| Domain discovery (`utils/domain_discovery_service.py`) | probes, library lists, rounds | probe, apply, undo, recheck | requests that interleave between transaction and file |
| DNS generator (`converters/mosdns.py`, `oxidns.py`, `common/oxidns_*.py`) | the native document | generate, switch, form, edit by hand | order of the rules, references, what a person wired |
| Panel content checks (`agents/content_sync.py`), HTTP queue watch (`http_queue.py`) | one digest; waiting times | | nothing else is decided by them; not modelled |
| Return routing and Linux gateway, Agent HTTP server, monitors, preflight, importer, MCP server, frontend, scripts | none of the system's own | | kernel tables, transport, views and text; not modelled |

**Interactions.** The panel calls the Agent over HTTP, one deployment or update at a time per Agent. Inside the Agent the
operation lock serialises deployments, recovery, restarts, the watchdog, the cleanup and (with `update.lock`) the upgrade
worker. Rule synchronisation, DNS follow and the gateway wizard are clients of the panel's deployment coordination. All
pages, and the MCP server, edit one repository through transactions of revision-checked documents; what lies outside the
document (files of rule lists, artifacts, devices) is written before or after the transaction, which is where most of
the hazards are. `PROJECT.json` lists them with their lines and the properties that cover them.

## Modules

Every module models one component. Actions bear the names of the handlers; what happens in one transaction or under one
lock is one action, and everything between two transactions, file operations or calls may interleave with all others.
Operators named `Name_Defect` are plausible mistakes in `Name` that no action uses; each property is violated when one
of them takes the place of `Name`.

| Module | State and actions against the code |
|---|---|
| `Deployment`, `AtomicConfig` | see *The engine* below; the second is the promise of the first: whole versions, switched at one instant |
| `AgentUpgrade` | see *The Agent's update of itself* below |
| `PanelDeployment` | `deployments`, `latest`, `applied` are the Agent's entry in the repository; `pub`, `polls`, `op` the requests that publish, poll and roll back; `journal`, `live` the Agent. Each transaction is one step, each call may lose its request or its answer; `Record`, with `Refused` and `AppliedAfter`, is `record_deployment` |
| `PanelUpgrade`, `ArtifactCache` | `task` is `latest_upgrade`, `starter`/`asker` the calls of `start` and `poll` between reading and storing, `device`/`job` the Agent and its worker; the cache reads a file block by block while it is replaced |
| `AgentRegistry`, `GatewayInstallation` | records, tokens, pages and one publish request that re-checks its binding; sessions frozen on a revision, with the thread that publishes Mihomo and then OxiDNS |
| `AgentRuleSync`, `DnsFollow` | one worker per device with everything it has read (`worker`, `round`), the receipt or binding, the latest deployment, and people who edit and publish meanwhile |
| `RouterPublication`, `RouterRuleSync`, `RouterForwarding` | a release as a list of steps computed from settings and device, its journal and its undo; the receipt and the job that may only touch its objects; the tables and what is concluded from them |
| `ConfigRepository`, `ConfigStore`, `LegacyImport`, `ConfigMigration` | transactions with the locks they take; the two files, the cache and the loss of power under them; the conversion of old catalogs; the start over any old layout |
| `ProxyTopology` | the stored groups, nodes and sources, `Accepted` edits, and the configuration compiled from them |
| `ClientRules`, `ClientGroups` | the ordered rules with the pages that edit them and what Mihomo, Surge and Loon decide; the groups and nodes Surge and Loon are given, with Loon's removal of empty groups one by one |
| `RuleLibrary` | `ruleLibrary` is the stored library, `ruleFile`/`oldFile` the files, `editor` each request between its transaction and its files |
| `RuleMatcher`, `RuleIndexCache` | the index against a scan; handles, stamps and retries |
| `SubscriptionFetch`, `SubStoreRuntime`, `ProviderDelivery` | flights with owner and expiry; the supervisor and the work lock; deliveries with what they fetched |
| `DomainDiscovery` | library, served files and rules, one request of a user and one of the automatic round, the probe job |
| `MosdnsRouting`, `OxidnsRouting`, `OxidnsCommon`, `OxidnsNativeForm` | the generated pipeline, and the OxiDNS document as plugins that refer to each other, with the edits that analyse and change it in place |
| `MC…` | instances for TLC, below |
| `…Proofs` | the theorems, below |

### The engine (`Deployment`)

| TLA+ | code |
|---|---|
| `journal`, `effective`, `active` | `state.json`, `effective-manifest.json`, `active-manifest.json` |
| `staged`, `corrupt` | `bundle.tar.gz` and `stage/`; a backup whose checksum no longer matches |
| `live`, `running`, `core` | the managed files, the process, the files it loaded last |
| `pc`, `cur`, `job`, `mem`, `hot`, `done`, `scan` | the goroutine that holds `operation.lock`: next step, deployment, purpose, its `DeploymentState`, whether it has a reloader, and its loops |
| `Enter`, `SaveDeployment` | `saveDeployment`: the memory changes first; a failed save may or may not have reached the disk (the rename is done before the directory is synced) |
| `Upload` … `SaveReady`, `Activate`, `Reverify` | `DeploymentUploadHandler`, `prepareDeployment`, `DeploymentHandler` |
| `Precheck` … `SaveSucceeded`, `SaveFailed` | `activateDeployment`, one action per phase and per file |
| `SaveRollingBack` … `SaveRollbackFailed` | `rollbackDeployment` |
| `ManualRollback`, `Finish` | `manualRollbackHandler` |
| `Cleanup`, `PruneDirectory`, `CleanupDisk` | `cleanupDeployments`, `cleanupDeploymentPayloads` |
| `Recover` … `SaveRecovered` | `RecoverDeployments(cfg, true)` |
| `Restart`, `WatchdogRestart`, `CoreEdit`, `BackupRots`, `Crash` | the other users of the lock, the core, and the environment |

A step of the lock holder is one phase record, one file, or one command: exactly the points between which a crash can
fall. `AtomicConfig` is the abstract promise: a directory that moves from one complete version to another and back; the
refinement mapping lets a transaction count for what its recovery would restore until it is resolved.

A file's content is the deployment that shipped it, the original, or "edited by the core". Bundles, digests, formats and
messages are abstracted to success or failure. What is *recent* in the retention is an arbitrary choice: `updated_at` is
an RFC3339Nano string, which does not sort by time within a second. Removing a directory whose first record failed
(`Abandon`) is assumed to succeed. `ReconcileLinuxGateway` acts on the kernel and not on this state. The disabled legacy
`ConfigUpdateHandler` is left out. Uploads, activations, rollbacks, restarts, updates, uninstallation, rule snapshots and
rule updates check the journals before they touch the service; the watchdog, DNS follow, gateway and panel-proxy handlers
only take the lock (hence `WatchdogRestart`; its look at the process, `dns_watchdog.go:101`, and its restart, line 136, are
one step, which no property depends on).

### The Agent's update of itself (`AgentUpgrade`)

| TLA+ | code (`upgrade/`) |
|---|---|
| `current`, `journal` | `current.json` and `job-ID.json`: `journal[t]` is what `loadJob` returns, which prefers the task's own file |
| `copies`, `units` | `worker-ID`, and the enabled `configflow-upgrade-ID` service that runs it |
| `binary`, `migrated`, `Change` | the installed program; the files of `MigrationPlan` in their new form, numbered in plan order: references to the old recovery gate, the gate, the Agent's configuration |
| `process`, `boot`, `bootstrap`, `restartQueued` | the Agent: the program it is, its step in `ensureInstalled` or `deferMigration`, `.agent-migration.json`, a restart the service manager has still to carry out |
| `holder`, `op` | `update.lock`, `operation.lock` |
| `prep` | `Prepare` in the Agent, one action per record or command |
| `worker`, `mem`, `next` | `Run`, its `Job`, and its loop over the files |
| `checked` | `acquireServiceOperation` between its look at the pending update and its lock |
| `seen`, `reported` | `ReadStatus` between loading and answering; what it answered last (history) |
| `Save`, `Enter`, `Fault` | `Job.save`; a failing write may have taken effect |
| `Load` … `SaveSucceeded` | `Run` from its start to success, one action per record, file and command |
| `Fail` … `Finish` | the deferred function of `Run` |
| `StartAgent` … `BootDone` | `EnsureInstalled` and `finishDeferredMigration` |
| `StopAgent`, `Spawn`, `Crash` | the service manager, and deaths |

A program is its version, and every program runs the code of this version: readiness is `migrationReadyStrict`. The
exception for schema 1 is left out, since the worker modelled here writes the current schema before the new program
starts; `Deferred` gives the start in which an older worker has left the migration to this Agent. Download, candidate
check, plan and reload succeed or fail. One Agent uses a program. The service manager is systemd: removing a unit does
not stop its process and a restart is queued; OpenRC also stops the worker. Its start limits, the offline update script
and the bridge from the updaters of 1.0.8 and 1.1.0 are left out. `waitReady`'s 45 seconds are longer than a start that
does not fail; its failure is otherwise arbitrary (`Flaky`). `UncertainStart` is a worker that runs although its start was
reported as failed.

### What the other models leave to data

- **Panel.** A report of an Agent is a status with a stamp; a device's configuration is a version of each of its parts; a
  heartbeat is the version it shows and whether it came after the deadline and the report. In `PanelUpgrade` every task has
  a version of its own (the code accepts one that ran before, `upgrades.py:179`), a refusal is never that of a worker that
  runs, the Agent's error after an uncertain start is not passed on (203-208), and an answer of *info* other than 200
  counts as none, where the code shows *checking* (252-256). In `AgentRuleSync` a live configuration without rule providers
  is refreshed like any other, where the code publishes (`rule_sync.py:281`), and a POST that is answered at once with an
  outcome (299-322) is left to the next poll. In `DnsFollow` people publish and roll back at any time, more than the
  manager allows while a follow is open, and a rollback of the target by a person is one step.
- **Routers.** The device is a set of objects with who wrote them last and what they cover. Two groups of names stand for
  256, one row for the routes of a destination; networks are sets of addresses. The Agent's own safety blockers and
  iKuai's calls beyond the shared plan are external. Routes are read back after every stage (`release.py:182-195` skips
  it for some). The undo of `RouterRuleSync` ends at its first failing step, where `restore()` goes on with the rest
  (`ros_policy_write.py:168`); in both the receipt then waits for a person.
- **Repository.** A document is a version of each field, the references that validation follows, the router and the
  settings of the installation (`github_proxy_domain`, `server_domain`, `config_token`), which enter every generated text;
  labels, metadata and file formats are left out.
- **Deliveries.** A source is *plain*, *loose* (a name twice), *dialing* or *bad*; names and graph checks are what those
  four tell apart. Surge and Loon forms of an answer are left out. A source keeps its URL, so the comparison of a cache's
  URL with it (`subscription_refresh.py:74`) is not exercised. Sub-Store has one updater: `_update_lock`
  (`dependencies.py:39`) is of the process, and the supervisor of the image runs one.
- **Rules and groups.** A rule is the entries it holds; an entry is what it matches. In Surge, an MRS list, `no-resolve`
  inside a list's content and an inline RULE-SET value are not modelled, nor are names of policies, filters and regular
  expressions; one selection list stands for direct and proxy and for both DNS engines. What Mihomo, Surge and Loon do
  with the list they are given is external.
- **DNS.** The document is plugins with their calls and files. Include files, rotation, logging and worker fields,
  options of a download entry and the text forms that restore a job are left out; one-label names are dropped, unreadable
  upstream items are skipped and one MosDNS prefix keeps its text raw, as in the code.
- **Rule library.** What a list contains is its source; the order of the library is left out, and so is a crash between
  the transaction and the removal of an old file.

## Model checking

`MCDeployment`, `MCAgentUpgrade` and `MCPanelDeployment` are instances of one component each. `MCConfig`, `MCRouter`,
`MCAgents` and `MCLive` hold several: a variable `focus` is chosen at the start, the component it names takes all steps
of that behaviour and the others rest, so that the state space is the sum and not the product of theirs. A property of
such a module is the conjunction of its components' properties. The instances' bounds are in the `INSTANCE` lines, except
for the components theorems are about, so that a theorem speaks of the very property the run checks: the five that
`MCAgents` EXTENDS, its `Registry` and its `Gateway` have their constants in `MCAgents.cfg`, and the publication, the two
rule synchronisations and the DNS follow of `MCRouter` theirs in `MCRouter.cfg`.

All runs but those of `MCDeployment` have `CHECK_DEADLOCK FALSE`: when every task, edit and fault of the bounds is used
up, the system really stops.

| Run | What it asks | Instance |
|---|---|---|
| `core` | overlap, write-ahead order, retried rollbacks, consistency of a resolved directory, a success that is served, the run state | 2 deployments, 3 paths, one refreshed by the core, 1 fault, 1 crash, 1 edit, a service that may fail, 3.9 million states |
| `converge` | repeated recovery resolves everything, the lock is released, refinement of `AtomicConfig`, pruning | 2 deployments, one of them a legacy journal, a damaged backup, `KeepCompleted` 0, 1 fault, 1 crash, fairness |
| `upgrade_core` | true outcomes, one unfinished task, order of the files, what a rollback needs, exclusion of deployments, confirmed success | 2 tasks, 3 files, everything may fail, 1 fault, 1 death, 2.9 million states |
| `panel_deployment` | one unfinished deployment, true and final outcomes, what is shown as applied, rollback only on request | 2 deployments, 2 profiles, a poller, one change of profile or one death of the panel, symmetry, 4.0 million states |
| `panel_live` | a publication reaches an outcome or waits for a person | 1 deployment, 1 death, fairness |
| `config` | repository, store, import and migration, topology, groups of Surge and Loon, discovery | `MCConfig` |
| `router` | publication, forwarding, MosDNS and OxiDNS documents, rule synchronisation, DNS follow, device rules | `MCRouter`, 1.9 million states |
| `agents` | registry, gateway wizard, matching, rules of three clients, updates, fetches, deliveries, rule library | `MCAgents`, 0.9 million states |
| `live` | background work ends under fairness; Sub-Store | `MCLive` |
| `intent`, `panel_stuck`, `discovery_served` | disagreements with the code's comments and documents, see *Findings* | |

The combined properties stand for:

| Property | Conjuncts |
|---|---|
| `RepositoryIsSafe` | `EveryChangeIsVisible`, `NoEditIsLost`, `UsedStaysEnabled`, `NoOrphanDirectory`, `PublicationIsRecorded`, `OwnershipIsKnown` |
| `StoreIsDurable` | `CacheIsTrue`, `AckedSurvives`, `FailureLeavesNothing`, `BackupIsKept` |
| `ImportsKeepTheirMeaning` | `DialersKeepTheirTarget`, `LibrariesStayApart`, `NeverFromLess`, `CurrentIsKept`, `SnapshotFirst`, `CachesBelong` |
| `PublishedPathsAreRight` | `PathsArePreserved`, `AcceptedIsUsable`, `PublishedIsClosed`, `PoliciesFollowTheirGroup`, `SurgeDefinesWhatItNames`, `LoonGroupsAreUsable` |
| `DiscoveryIsReversible` | `UndoRemovesWhatWasWritten`, `RouteGoesFirst` |
| `PublicationIsSafe` | `OthersAreKept`, `RolledBackIsWhole`, `PathIsKept`, `DnsNeedsPath`, `ManifestIsTrue` |
| `ForwardingIsJudgedRight` | `RouteEvidenceIsSound`, `ExemptionIsSound`, `NarrowestPolicyWins` |
| `DnsRulesAreKept` | `PipelineIsRuleOrder`, `NamesAreDefinite`, `ListsAreConverted`, `ShownIsDecided`, `AskedIsRead`, `NothingDangles`, `UpdatesFollow` |
| `DnsControlsAreSafe` | `OthersAreKept`, `NothingDangles`, `OnlyTheDefaultDangles`, `OrderIsRestored`, `WithdrawnStaysOut`, `OnlyAskedChanges`, `OwnWorkIsKept`, `FormKeepsOptions`, `CallsFollowTheName`, `HostsStayWithdrawn` |
| `AutomationIsCareful` | `UnfinishedWaits`, `OnlyEnrolledChange`, `EditStopsJob`, `NothingIsForgotten`, `OnlyUpstreamIsPublished`, `EditSurvives`, `ConnectedWhenConfirmed`, `OnlyRulesMove`, `AcknowledgedIsLive`, `OffMeansNoDownload` |
| `BindingsAreRespected` | `BoundSpaceExists`, `WorkKeepsItsSpace`, `GuardedPublishIsShown`, `MihomoFirst`, `RetryKeepsWhatWorked` |
| `MatchingIsRight` | `IndexIsFirstMatch`, `CurrentHandleIsRight`, `SurgeDecidesAsMihomo`, `LoonOnlyPrefersLocal`, `DuplicatesDecideNothing` |
| `UpgradesAreProven` | `UpgradeTypeOK`, `SuccessIsProven`, `ReleaseIsSafe`, `OutcomeStands`, `OnlyOneJob`, `CachedIsTrue` |
| `FetchesAreShared` | `OneFlight`, `FreshEnough`, `CooldownHolds`, `DeliveriesAreWhole`, `CurrentIsFresh`, `ServedIsOwn`, `SettledIsCurrent`, `BatchKeepsEdits` |
| `WorkIsAnswered` | `UpdateConverges`, `LocksAreReleased`, `UpgradeResolves`, `PendingEnds`, `ReleaseIsAnswered`, `EntriesAreRechecked`, `RulesReachTheDevice`, `WaitersAreAnswered`, `SleepsWhenIdle` |
| `SubStoreIsKept` | `NeverStoppedInUse`, `UpdateIsWhole`, `ActiveIsInstalled` |

**Bounds and why they are enough.** Two deployments are every relation between a transaction and its predecessor, two
updates every relation between a task and the one before it. Two paths distinguish replaced, persistent (Geo) and stale
files; a third is refreshed by the core. One fault and one crash at any point are every single cut; the theorems take
the numbers of deployments, crashes and files out of the bounds. With three faults and two crashes the outcome
properties of the engine still hold, and `LiveMatchesActive` and `LiveWritesAreJournaled` are refuted by two faults in
the way of `intent`; `RecoveryIsKept` and `NoDanglingReference` speak of `faults = 0` because a final record that cannot
be written leaves a removed service and an unfinished journal. For the panel two concurrent requests of each kind give
every interleaving of read, call and store; a third would repeat what one of them does. A settings digest of a router
has two values, so that an edit may be taken back; the ids of the wizard's deployments are interchangeable, and the
constraint `NextTaskFirst` draws the lowest; the deliveries start with one of two sources sound, and a change of it makes
the other combinations. The routing documents have two or three rules, because a defect shows between neighbours. The
data of the pure algorithms (indexes, tables, groups, documents) is enumerated completely within its instance.

**Fairness.** The engine's lock holder is one goroutine that never waits for another operation: weak fairness of its
steps. `RecoverySpec` adds strong fairness of `Recover`: an operator who repeats `-recover-and-exit` gets the lock some
time. The update worker is started again by the service manager after two seconds or at boot (`Restart=on-failure`), so
every worker, the requests the Agent is serving, its start and the queued restart are weakly fair. Background loops of
the panel (polls, sweeps, jobs, rounds) run on timers: weak fairness of their steps. What needs an answer over the
network (`JobHeard`, `InfoHeard`, polls of a deployment) is strongly fair, since a call that is repeated for ever gets
through some time; the upgrade further assumes that the panel dies only finitely often. Requests, edits, faults and
deaths are never fair.

## Findings

- `intent` (`routes/deployment.go:1068`): `rollbackDeployment` ignores the error of recording `rolling_back`. If recording
  `succeeded` reported an error after its rename, the files are restored under a journal that says `succeeded`, and a
  crash is then never retried, contrary to the comment above the save.
- `panel_stuck` (`agents/manager.py:604`): the panel stores `rolling_back` before it sends the request. When it dies in
  between, polling finds the publication succeeded and waits for ever; a second rollback returns the reservation.
- `discovery_served` (`utils/domain_discovery_service.py:603`): two requests whose transactions and whose files are written
  in different orders leave a served list that lacks a domain the library holds.

Also seen while modelling, without a run of its own:

- *Engine.* The watchdog restarts the core while a transaction is unresolved, which `docs/DEPLOYMENT.md` says blocks
  restarts. A hot reload backs up while the core runs, so a rollback loses a provider file refreshed after its backup. A
  directory whose removal was cut off after `state.json` blocks deployments until it is removed by hand. A manual rollback
  is refused after the core refreshed a provider, and leaves stopped a core that was found stopped.
- *Update.* A death of the Agent between `current.json` and the service leaves a queued task that nothing runs. An update
  prepared before a deferred migration has run can never confirm its rollback and repeats it for ever. A worker loads its
  job before it waits for `update.lock`, so one whose start was reported as failed resumes a task recorded as failed
  (`UncertainStart`). A worker that dies between its final record and the removal of its service leaves an enabled service
  whose program `PruneCompleted` removes. `ReadStatus` loads the result before it takes the lock.
- *Panel deployment.* Two overlapping polls repeat a rollback whose request was lost; the second is refused and
  `_cancel_manual_rollback` (`manager.py:609`) writes `succeeded` over a rollback that runs, against the comment at line
  717. `panel_deployment` has one poller and `Overlooked` in the proofs is the exception. An edit of the service type
  during an unfinished deployment lets what is applied be that of the other service (hypothesis `OneService`).
- *Panel updates.* A worker that goes on after the panel's ten minutes finishes a task already recorded as failed
  (`SlowWorker`).
- *Rule synchronisation.* `agents/rule_sync.py:314` records `pending` without `force_refresh`: an edit taken back after the
  device has downloaded the list is not downloaded again, and an edit taken back during a download of Mihomo is
  acknowledged with the next one although the device holds what was taken back (`TakenBackLate`; the comments at 221 and
  309 promise otherwise). `router` allows it and has one list, with which `AcknowledgedIsLive` says nothing of it; two
  lists refute it, so that the theorem has the hypothesis `~TakenBackLate`.
- *Fetching.* A flight whose entry is evicted between its result and its end is overwritten, and two fetches of one URL run
  (`Overtaken`, `sub_store_client.py:214`). Evicted failures lose their cooldown.
- *Deliveries.* A last-good answer may be older than the copy a client holds. Malformed text is remembered in the download
  cache before it is parsed. A transport failure uses any cache without a look at its URL; `save_subscription_nodes` has no
  guard; `record_fetch` reads and writes without a lock.
- *Rule library.* A late download, a `cache_rules` with an old snapshot or two saves in the other order may overwrite a
  newer file (`SettledIsCurrent` excepts entries two requests worked on at once). When the URL of an entry changes and its
  download fails, the old URL's file stays and is preferred. A PUT compares no revision, unlike the draft. A batch test
  switches off an entry whose URL was changed meanwhile. Providers are asked by name: a name given to another entry gives
  an old configuration that entry's list.
- *Rules and groups.* Surge and Loon drop `no-resolve` of a logic rule, Loon that of rulesets. Loon reads rules behind a
  MATCH. The order page posts the whole list, so a rule another page added lands behind MATCH. Batch ids are used again,
  so a page with an old DNS selection may select another rule. Surge names nodes it cannot say and disabled groups without
  defining them; a disabled followed group leaves its ordered-only nodes undefined (hypothesis of
  `SurgeDefinesWhatItNames`); a follower included by the group it follows names itself; groups that only hold each other
  stay in Loon when they hold a usable node. A DIRECT below the entry of a nested chain, and cycles or duplicate names of
  groups without dialers, are not refused.
- *OxiDNS controls.* Switching the default to local resolution writes a jump to `default_direct_ip` without a look whether
  that helper is still there (`oxidns_common_routing.py:380-390`, `490-496`; the comment at 488 says the jump is skipped):
  a draft whose helper was removed by hand gets a jump into nothing, until the validator refuses its publication.
  `OnlyTheDefaultDangles` says that nothing else makes one. Positions of calls are stale when a chain is edited by hand while a feature is off. An unexpanded
  `${…}` can resurrect a removed download (`oxidns_common_updates.py:163`). Removing `rules_cron` with the form loses its
  schedule.
- *Routers.* A write whose answer is lost is not undone by the route editor (`routes/routers.py:297`); a crash during a
  release leaves policy objects without a manifest; deleting a route or its comment has no `expected` guard; errors other
  than `RouterError` and `RuntimeError` are not undone by the synchronisation.
- *DNS follow.* A target whose rollback failed keeps the follow *publishing* (`dns_follow.py:347-349`): every tick resumes it
  and it is neither retried nor given up until somebody recovers the Agent (`AwaitsRecovery` in `ReleaseIsAnswered`;
  nothing is fair to `AgentRecovers`).
- *Registry and wizard.* The last look at the pair (`gateway_installation.py:422`) and the record *published* (423-426) are
  two steps: a deployment by hand may begin in between, so `MihomoFirst` claims the pair for the look (`LastLook`) and only
  healthy deployments for the record (`Finish`). A publish without a guard after a rebind uses the new binding. A record may be renamed onto
  another's name and host. A rollback by hand between success and the final check, and a panel that ends during
  "publishing", are left to the person.
- *Repository.* `update_system_transaction` raises no profile's revision (`config_repository.py:998-1006`, `743-747`), although
  the system's settings change the text every profile generates (`converters/mihomo.py:85`, `529-555`): a change of a
  domain or the token shows no Agent as out of date. `EveryChangeIsVisible` excepts exactly the transactions that change
  nothing else. `import_all` leaves the directories of dropped profiles.

## Proofs

Eight modules hold theorems; all are for every value of the constants. Where a hypothesis is needed, `Also seen` names
the execution that refutes the statement without it.

**`DeploymentProofs`** — `TypeCorrect`, `OneUnresolved`. `TypeOK` alone is not inductive: a save writes `journal[cur]`, so
`Typed` adds that the lock holder works on a deployment except when idle or between two recovered journals. An unresolved
journal is the one the lock holder works on unless the lock holder is idle or recovering, in which case there is at most
one; every action changes the status of the current deployment only (`OnlyCurrent`), and new work starts above resolved
journals.

For what is served there are three invariants on top of one another. `Outcome` (any number of faults) carries
`SuccessServed` and `RunStateIsRestored`: what is backed up, switched and started at each step. `Consistent` describes
the live directory by the journal's backups; it needs that a rollback in progress is recorded, so
`LiveIsConsistent` is `Spec /\ []RollbackIntentDurable => []LiveMatchesActive`: the durable intention is all that
consistency depends on. `Intent` gives that for `MaxFaults <= 1` (`IntentIsDurable`, `LiveIsWhole`, `WritesAreJournaled`);
two faults refute it, which `intent` shows. `RetentionKeeps` holds for any faults.

Last, the refinement: `EngineIsAtomic`, for `MaxFaults <= 1` and releases that ship a file the core does not
rewrite, `Spec => ImplementsAtomicConfig`. A journal becomes or ceases to be pending only where the directory is the one
it would restore (`Synced`); `Faithful` says that at every step the journal and the lock holder would restore the same.
Each action is then a switch, an undo or a stutter of `AtomicConfig`.

**`AgentUpgradeProofs`** — `TypeCorrect` (a rollback always has a program to restore), `OperationsExcluded` (`LockDiscipline`:
without the part that a preparation holds `update.lock` in an Agent whose start is over, the end of a deferred migration
could free a preparation's lock), `OneUnfinished` for `UncertainStart = FALSE`. The lock alone does not give the last,
because the worker loads its record and Prepare looks for a pending task before either holds it. `Exclusive` says why what
they read is still true: only the current task can be unfinished, a worker that waits for the lock waits for an unfinished
task, a task being prepared has no worker, one never prepared has no service.

Of its outcome: worker and starting Agent both change program and files, one under a lock and one under
none. `Truthful` relates the journal on disk, the worker's memory and the files at every step of both: `OutcomeHolds`,
`SuccessConfirmed`, `ChangesJournaled` for `MaxFaults <= 1` and `UncertainStart = FALSE`. `Clean` orders the three files
against the gate: `NoneDangling` and `RecoveryKept`, whose properties are about executions in which no write has failed
(`faults = 0`): what a failed final record leaves behind refutes both, so they say nothing of it.

**`PanelDeploymentProofs`** — `TypeCorrect` (`EveryVariableTyped`: every variable, with what requests remember and the Agent's
journal, which the inductive invariant needs anyway), `OneTask`, `OutcomeHolds`, `RollbackOnRequest`, `FinalStays`, and
`AppliedServed` for one service type. The invariant is what a request may still believe when it acts: an answer is a copy of the
Agent's journal that may be old (`Past`), a view is an old record (`PollOK`), and no step of the others makes such a
belief wrong (`Steady`). `AppliedServed` adds the stack of deployments the Agent has served.

**`PanelServicesProofs`** — five services that `MCAgents` runs, each with an invariant of its own, for the very properties of the
run `agents`. `UpgradesHold` (`~SlowWorker`): what starter and poll still know of a task, when a report can be of a task
that ended, and that an entry of the digest cache is of the file it was read from as long as its stamp is the same.
`FetchesHold` (`~Overtaken`): who owns a flight, until when a result counts. `DeliveriesHold`: what is written as a set was
validated as a set, of one edition. `RuleFilesHold`, without hypotheses: whose an old file is (`files owned`), what a
request that works alone knows of its entry's file, and what it is still going to write; the exception for overlapping
requests is the history variable and not an assumption.

**`ClientConfigProofs`** — `SurgeFollowsMihomo`, `LoonFollowsMihomo`, `DuplicatesMayGo` for every list of rules: statements
about positions, so that no induction over the list is needed. `LoonGroupsHold`: every set of groups that holds what each
of its members needs survives the removal, in whatever order groups are removed. `SurgeNodesHold` for groups whose
inclusions are groups, in an installation where groups and nodes have different ids. `MatchingHolds`: `MatchingIsRight`
for every list and query. Its first half is about the index: the retained lines are the file's in their order, packed lines
are found again at their numbers, and what the index calls the first match is the first line that matches; lists are
followed line by line, by the least number at which a claim about them would fail. Its second half is about the matchers
that requests share (`CacheInv`): stamps are no newer than what was seen and the file no older, what was read with a stamp
the file still has is what the file holds, remembered results follow from rulesets that were read, and there is room for one more
matcher because fewer than all places are pinned. `MatcherAssumption` and `IndexAssumption` say what the constants are: lines and queries have a
label, a profile with local rulesets has one, no host is called like the mark of a file that was not read, and finitely
many hold a matcher.

**`PanelBindingProofs`** — `BindingsHold`: who an Agent belongs to and who installs it, without hypotheses. `RegistryInv`:
a record that exists is bound to a space that exists, an id is given out once, and from its snapshot on a guarded publish
request works on what its page showed, up to the task it has opened for the very record. `GatewayInv`: the two tasks of a
session come together and are no other session's, a task that is healthy was recorded, what a session shows as failed did
fail, and a worker reaches OxiDNS only behind a healthy Mihomo, its last look only behind both, and writes *published* only
after that look.

**`AgentAutomationProofs`** and **`RouterProofs`** — `FollowIsCareful` and `AutomationHolds`, the whole of
`AutomationIsCareful` for any rules, lists, objects on the router and numbers of edits and faults, the latter with
`~TakenBackLate`. Three automata write without a person, and each has its invariant; those of an Agent's DNS and rules
are in the first module, which the second extends.
`SyncInv` of the router's job: a job that is not waiting works from the receipt on disk and without a release by a person
(`JobIsAlone`); what an unfinished run left keeps the receipt *running* or *paused* until somebody releases (`DirtyWaits`);
a write that was decided was decided under settings the job works with (`WritesAreFew`); and every object the job created
is, at each of its steps, in the receipt or in the journal that the next receipt is made of, across undo and re-creation
under a new identity (`RowsAreRemembered`). `FollowInv` of the DNS that follows another Agent: an address taken from a
release of the source is where the source listens as long as that release is its last, unreturned success
(`AddressesAreTrue`), and while no publication of the target is open the panel knows what the target runs
(`OpenIsUnknown`). `DeviceInv` of the rules that reach a device: the live configuration has the structure of the last
receipt unless a publication is open (`LiveIsReceived`), a candidate differs from its base only in what is switched on
(`SourceIsProjected`), and a list a finished task has downloaded holds the content the key of that task names or one that
was edited since (`PairOk`, `DownloadIsExact`).

`ForwardingHolds`, for any routes, rules, policies and target with `ForwardingAssumption` (networks hold each other or
nothing of each other, and are finite): an active route as long as the selected ones is inside the target and selected
itself; along the rules, a pair of addresses that is still pending has met no rule that translates it, and one that is not
has met a certain exemption before any (`Judged`); and the last policy that holds a device, broad ones first, is the
narrowest.

**Model-checked only.** Liveness and fairness are outside the prover's reach: `RecoveryConverges`, `LockIsReleased`,
`PublicationResolves`, `WorkIsAnswered`, and of `SubStoreIsKept` the sleep. What a recursive function computes over a list is proved
above by least numbers; the compilers of the DNS documents (`DnsRulesAreKept`, `DnsControlsAreSafe`) and of proxy paths
(`PublishedPathsAreRight`, with RECURSIVE operators) stay with TLC. The properties of the repository and its store, of discovery and
of router publication (`PublicationIsSafe`) are provable in principle and stated for TLC so far.

## Not modelled, and why

Return routing and the Linux gateway's own scripts act on kernel tables; the Agent's HTTP server, monitors, queries and
probes are transport and views; content checks and the queue watch decide nothing else in the system; the importer and
the MCP server go through the transactions of `ConfigRepository`; the frontend, scripts and images keep none of the
system's state. `PROJECT.json` names for each component what of it is left out.

## Next

1. `PublicationIsSafe`, whose steps are lists of writes on a device.
2. `RepositoryIsSafe` and `StoreIsDurable`.
