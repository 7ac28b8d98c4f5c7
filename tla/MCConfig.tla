------------------------------- MODULE MCConfig -------------------------------
(* Small instances of the panel's configuration: each behaviour is one of the  *)
(* repository, its store, the two importers, the proxy topology or the library *)
(* of discovered domains.                                                      *)
EXTENDS Integers, Sequences, FiniteSets

VARIABLE focus    \* the component this behaviour is about
VARIABLES doc, lock, operation, repository_job, directory, client, worker, device, backup, edits, dropped
VARIABLES config, bak, stamp, synced, holder, txn, cache, newest, acked, undone, faults, damage
VARIABLES legacy
VARIABLES main, mainBak, layout, origin, snapshots, sharedCache, starting, ends, losses
VARIABLES topology, generated, topologyEdits
VARIABLES library, served, rules, settings, traffic, probes, discovery_job, op, round, used
VARIABLES body, on, phase, emitted, groupEdits

NeedsDef == [r \in {"aggregation", "node"} |-> IF r = "aggregation" THEN {"node"} ELSE {}]
Repository == INSTANCE ConfigRepository WITH Profiles <- {"home", "work"}, Fields <- {"groups", "rules"}, Resources <- {"aggregation", "node"},
    Needs <- NeedsDef, Endpoints <- {"e1", "e2"}, Clients <- {"c1"}, MaxEdits <- 2,
    job <- repository_job

Store == INSTANCE ConfigStore WITH Processes <- {"panel", "tool"}, MaxGenerations <- 3, MaxFaults <- 2, MaxDamage <- 1

TwoProfiles == <<"p", "q">>
TwoIds == <<"x", "y">>
Legacy == INSTANCE LegacyImport WITH LegacyProfiles <- TwoProfiles, Names <- {"a", "b"}, Versions <- {1, 2}, LibraryIds <- TwoIds

Migration == INSTANCE ConfigMigration WITH MaxEnds <- 3, MaxLoss <- 2

TheNode(x) == <<"node", <<x>> >>
TheGroup(x) == <<"group", <<x>> >>
TheDirect == <<"builtin", <<"DIRECT">> >>
Empty == [state |-> "on", kind |-> "select", name |-> "nothing", members |-> <<>>, subs |-> {}, aggs |-> {},
          follow |-> "nothing", entry |-> <<"none", <<"none">> >>, exit |-> <<"none", <<"none">> >>]
BodiesDef ==
  {[Empty EXCEPT !.members = m, !.subs = s, !.aggs = v] :
     m \in {<<TheNode("a")>>, <<TheNode("b"), TheGroup("h")>>}, s \in {{}, {"s"}}, v \in {{}, {"v"}}} \cup
  {[Empty EXCEPT !.subs = {"s"}], [Empty EXCEPT !.members = <<TheNode("c"), TheDirect>>], [Empty EXCEPT !.follow = "h"]} \cup
  {[Empty EXCEPT !.kind = "chain", !.entry = x[1], !.exit = x[2]] :
     x \in {<<TheNode("a"), TheNode("b")>>, <<TheNode("c"), TheGroup("h")>>,
             <<TheGroup("k"), TheNode("c")>>, <<TheGroup("h"), TheGroup("k")>>}}
NamesDef == [g \in {"g", "h", "k"} |-> IF g = "g" THEN {"G", "X"} ELSE {g}]
Topology == INSTANCE ProxyTopology WITH NodeIds <- {"a", "b", "c"}, GroupIds <- {"g", "h", "k"}, SubIds <- {"s"}, AggIds <- {"v"},
    GroupNames <- NamesDef, RawDialers <- {"b", "h"}, Bodies <- BodiesDef, MaxTopologyEdits <- 3

DomainsDef == <<"a", "b">>
Sample(d, p) == [direct |-> d, proxy |-> p, directHealthy |-> TRUE, proxyHealthy |-> TRUE, agree |-> TRUE, passive |-> FALSE, directFast |-> TRUE]
SamplesDef == {Sample("fail", "ok"), Sample("ok", "ok")}
Discovery == INSTANCE DomainDiscovery WITH Domains <- DomainsDef, Rulesets <- {"r1", "r2"}, FirstRuleset <- "r1", OwnCovers <- {"a"},
    Samples <- SamplesDef, Threshold <- 80, ProbeLimit <- 1, RecheckLimit <- 1, MaxRequests <- 3,
    MaxAges <- 0, MaxJobFaults <- 0, job <- discovery_job

\* Loon cannot say the second node; a group holds a node, itself, a cycle of two, the third group or the aggregation.
SourceNodesDef == [s \in {"a"} |-> {"n1", "n2"}]
KnownDef == [c \in {"surge", "loon"} |-> IF c = "surge" THEN {"n1", "n2"} ELSE {"n1"}]
BodyOf(follows, manual, ordered, included, sources) ==
  [follows |-> follows, manual |-> manual, ordered |-> ordered, included |-> included, sources |-> sources]
GroupBodiesDef ==
  {BodyOf("itself", m, o, i, {}) : m \in {{}, {"n2"}}, o \in {{}, {"n1", "g1"}}, i \in {{}, {"g1", "g2"}, {"g3"}}}
  \cup {BodyOf("itself", {"DIRECT"}, {}, {}, {}), BodyOf("itself", {}, {}, {"g3"}, {"a"}), BodyOf("itself", {}, {"n1"}, {}, {"a"})}
  \cup {BodyOf(g, {}, o, {}, {}) : g \in {"g1", "g2", "g3"}, o \in {{}, {"n2"}}}
ClientGroups == INSTANCE ClientGroups WITH Nodes <- {"n1", "n2"}, Groups <- {"g1", "g2", "g3"}, Sources <- {"a"},
    SourceNodes <- SourceNodesDef, Known <- KnownDef, GroupBodies <- GroupBodiesDef, Itself <- "itself",
    MaxGroupEdits <- 1

RepositoryVars == <<doc, lock, operation, repository_job, directory, client, worker, device, backup, edits, dropped>>
StoreVars == <<config, bak, stamp, synced, holder, txn, cache, newest, acked, undone, faults, damage>>
LegacyVars == <<legacy>>
MigrationVars == <<main, mainBak, layout, origin, snapshots, sharedCache, starting, ends, losses>>
TopologyVars == <<topology, generated, topologyEdits>>
DiscoveryVars == <<library, served, rules, settings, traffic, probes, discovery_job, op, round, used>>
ClientGroupsVars == <<body, on, phase, emitted, groupEdits>>
vars == <<focus, RepositoryVars, StoreVars, LegacyVars, MigrationVars, TopologyVars, DiscoveryVars, ClientGroupsVars>>

Init ==
  /\ focus \in {"Repository", "Store", "Legacy", "Migration", "Topology", "Discovery", "ClientGroups"}
  /\ Repository!RepoInit
  /\ focus # "Repository" => \A p \in {"home", "work"} : doc.profiles[p].router = Repository!NoRouter
  /\ Store!StoreInit
  /\ Legacy!ImportInit
  /\ Migration!MigrationInit
  /\ focus # "Migration" => main = "absent" /\ layout = "none" /\ sharedCache = "none"
  /\ Topology!TopologyInit
  /\ Discovery!DiscoveryInit
  /\ ClientGroups!GroupsInit
  /\ focus # "ClientGroups" => body = [g \in {"g1", "g2", "g3"} |-> BodyOf("itself", {}, {}, {}, {})]

Next ==
  /\ UNCHANGED focus
  /\ \/ focus = "Repository" /\ Repository!RepoNext /\ UNCHANGED <<StoreVars, LegacyVars, MigrationVars, TopologyVars, DiscoveryVars, ClientGroupsVars>>
     \/ focus = "Store" /\ Store!StoreNext /\ UNCHANGED <<RepositoryVars, LegacyVars, MigrationVars, TopologyVars, DiscoveryVars, ClientGroupsVars>>
     \/ focus = "Legacy" /\ Legacy!ImportNext /\ UNCHANGED <<RepositoryVars, StoreVars, MigrationVars, TopologyVars, DiscoveryVars, ClientGroupsVars>>
     \/ focus = "Migration" /\ Migration!MigrationNext /\ UNCHANGED <<RepositoryVars, StoreVars, LegacyVars, TopologyVars, DiscoveryVars, ClientGroupsVars>>
     \/ focus = "Topology" /\ Topology!TopologyNext /\ UNCHANGED <<RepositoryVars, StoreVars, LegacyVars, MigrationVars, DiscoveryVars, ClientGroupsVars>>
     \/ focus = "Discovery" /\ Discovery!DiscoveryNext /\ UNCHANGED <<RepositoryVars, StoreVars, LegacyVars, MigrationVars, TopologyVars, ClientGroupsVars>>
     \/ focus = "ClientGroups" /\ ClientGroups!GroupsNext /\ UNCHANGED <<RepositoryVars, StoreVars, LegacyVars, MigrationVars, TopologyVars, DiscoveryVars>>

Spec == Init /\ [][Next]_vars

\* A change of what a profile generates raises its revision, a stale save loses no edit, no used resource
\* is disabled, and neither a deletion nor an import strips a directory of its profile, a running
\* publication of its router or the record of what a router holds (config_repository.py).
RepositoryIsSafe ==
  /\ Repository!EveryChangeIsVisible
  /\ Repository!NoEditIsLost
  /\ Repository!UsedStaysEnabled
  /\ []Repository!NoOrphanDirectory
  /\ []Repository!PublicationIsRecorded
  /\ []Repository!OwnershipIsKnown

\* A cached document is the file's, an acknowledged one survives crashes, power losses and failed writes,
\* a failed one is gone, and the backup is never lost together with the file (config_repository.py,
\* json_store.py).
StoreIsDurable ==
  /\ []Store!CacheIsTrue
  /\ []Store!AckedSurvives
  /\ []Store!FailureLeavesNothing
  /\ Store!BackupIsKept

\* Merging the profiles of an old installation changes no dialer's target and no library's content, and
\* the migration never starts from less than there is, over a current document or without a snapshot.
ImportsKeepTheirMeaning ==
  /\ []Legacy!DialersKeepTheirTarget
  /\ []Legacy!LibrariesStayApart
  /\ Migration!NeverFromLess
  /\ Migration!CurrentIsKept
  /\ []Migration!SnapshotFirst
  /\ []Migration!CachesBelong

\* What a person saves as groups and chains is published with the same hops, names nothing undefined, is
\* refused at the save if at all, and the rules follow a renamed group; Surge is given the nodes its
\* groups name and Loon every group that can be used (surge.py, loon.py).
PublishedPathsAreRight ==
  /\ []Topology!PathsArePreserved
  /\ []Topology!AcceptedIsUsable
  /\ []Topology!PublishedIsClosed
  /\ Topology!PoliciesFollowTheirGroup
  /\ []ClientGroups!SurgeDefinesWhatItNames
  /\ []ClientGroups!LoonGroupsAreUsable

\* An undo removes a domain from the ruleset it went to, and a routed domain meets no older rule first
\* (domain_discovery_service.py).
DiscoveryIsReversible ==
  /\ Discovery!UndoRemovesWhatWasWritten
  /\ Discovery!RouteGoesFirst

\* What is served is what the library holds once nobody works (domain_discovery_service.py); two requests
\* that write their files in the other order break it.
DiscoveryServes == Discovery!ServedIsStored
===============================================================================
