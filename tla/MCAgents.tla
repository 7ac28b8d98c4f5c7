------------------------------- MODULE MCAgents -------------------------------
(* Small instances of what the panel keeps about its Agents, rule lists and    *)
(* subscriptions: each behaviour is about one component.                       *)
EXTENDS Integers, Sequences, FiniteSets, ArtifactCache, PanelUpgrade, SubscriptionFetch, ProviderDelivery,
  RuleLibrary

CONSTANTS Spaces, FirstSpace, Machines, MaxAgents, MaxActs, Sessions, MaxAgentIds, MaxGatewayTasks, MaxEvents,
  Lines, Queries, AddressBits, MaxLines, Order, Hosts, Contents, FirstContent, Holders, RetryDelay,
  MaxIndexWrites, MaxIndexFaults, MaxIndexTime, Entries, NamesOf, AddressesOf, Forms, OwnIds,
  NumberedIds, ClientRequests, NoName, FirstRules, Pages, MaxRuleEdits

VARIABLE focus    \* the component this behaviour is about
VARIABLES spaces, default, registry_edition, registry_agents, tokens, review, push, sent, used, acts
VARIABLES gateway_edition, ready, session, gateway_agents, credentials, tasks, latest, worker, given, events
VARIABLES ruleset, enabled
VARIABLES files, library, blocked, slot, held, handles, index_clock, budget
VARIABLES rules, selected, page, ruleEdits

\* One subscription is updated daily, the other by hand only.
IntervalDef == [s \in Subs |-> IF s = "s1" THEN 1 ELSE 0]

\* A name may mean the old file of another, and a text may be older than the checks.
OldFileDef == [n \in RuleNames |-> IF n = "a:b" THEN "a_b" ELSE n]
LibraryOf(first, second) == [r \in RuleIds |-> IF r = "r1" THEN first ELSE second]
StoredRule(name, source) == [stored |-> TRUE, name |-> name, source |-> source, enabled |-> TRUE]
FirstLibrariesDef == {
  LibraryOf(StoredRule("a:b", <<"content", "x">>), StoredRule("a_b", <<"url", "u">>)),
  LibraryOf(StoredRule("a:b", <<"url", "u">>), StoredRule("c", <<"content", "x">>)),
  LibraryOf(StoredRule("a_b", <<"content", "bad">>), NoEntry),
  LibraryOf(NoEntry, NoEntry)}

Registry == INSTANCE AgentRegistry WITH edition <- registry_edition, agents <- registry_agents

Gateway == INSTANCE GatewayInstallation WITH MaxTasks <- MaxGatewayTasks, edition <- gateway_edition, agents <- gateway_agents

Line(t, v, s) == [type |-> t, value |-> v, shared |-> s]
LinesDef ==
  {Line("DOMAIN", <<"a", "x">>, TRUE), Line("DOMAIN-SUFFIX", <<"x">>, FALSE), Line("DOMAIN-SUFFIX", <<"x">>, TRUE),
   Line("SUBDOMAIN-ONLY", <<"a", "x">>, FALSE), Line("DIRECT-SUBDOMAIN", <<"x">>, FALSE),
   Line("DOMAIN-KEYWORD", "b", FALSE), Line("REGEX", {<<"a", "x">>}, FALSE), Line("PROCESS-NAME", <<"x">>, FALSE),
   Line("IP", 5, FALSE), Line("IP-CIDR", <<4, 2>>, FALSE), Line("IP-CIDR", <<5, 2>>, FALSE), Line("IP-CIDR", <<6, 1>>, FALSE)}
QueriesDef == [domain : {<<"x">>, <<"a", "x">>, <<"b", "a", "x">>, <<"b">>}] \cup [address : {4, 5, 7, 1}]
Matcher == INSTANCE RuleMatcher

\* A domain, and the value of a line for domains and what is below them, has at least one label.
Labels(s) == s # <<>> /\ s \in Seq(Range(s))
MayBeLine(l) == l.type \in {"DOMAIN-SUFFIX", "SUBDOMAIN-ONLY", "DIRECT-SUBDOMAIN"} => Labels(l.value)
MayBeQuery(q) == "domain" \in DOMAIN q => Labels(q.domain)
ASSUME MatcherAssumption == (\A l \in Lines : MayBeLine(l)) /\ (\A q \in Queries : MayBeQuery(q))

OrderDef == <<"p", "q">>
Index == INSTANCE RuleIndexCache WITH MaxWrites <- MaxIndexWrites, MaxFaults <- MaxIndexFaults, MaxTime <- MaxIndexTime,
    clock <- index_clock

\* A profile with local rulesets has one, and no host is named like the mark of what was not read.
ASSUME IndexAssumption ==
  /\ Order # <<>> /\ Order \in Seq(Index!Rulesets)
  /\ FirstContent \in Contents /\ \A c \in Contents : Index!NotRead \notin c
  /\ IsFiniteSet(Holders)

\* Entries for a host, a network and the application both belong to; two requests carry only the address.
EntriesDef == {"host", "net", "app"}
NamesDef == [e \in EntriesDef |-> IF e = "net" THEN {} ELSE IF e = "app" THEN {"n", "m"} ELSE {"n"}]
AddressesDef == [e \in EntriesDef |-> IF e = "host" THEN {} ELSE {"a"}]
FormOf(kind, type, entries) == [kind |-> kind, type |-> type, entries |-> entries]
FormsDef == {
  FormOf("rule", "plain", {"host"}), FormOf("rule", "plain", {"net"}), FormOf("rule", "logic", {"net"}),
  FormOf("rule", "other", {"app"}), FormOf("rule", "match", {}),
  FormOf("ruleset", "text", {"host", "net"}), FormOf("ruleset", "binary", {"host"})}
NumberedDef == <<"rule_1", "rule_2">>
RequestsDef == {[name |-> n, address |-> "a"] : n \in {"n", "m", "none"}} \cup {[name |-> "none", address |-> "b"]}
RuleOf(id, form, noResolve) == [id |-> id, form |-> form, enabled |-> TRUE, noResolve |-> noResolve]
FirstRulesDef == {
  <<RuleOf("r1", FormOf("ruleset", "text", {"host", "net"}), FALSE), RuleOf("r2", FormOf("rule", "plain", {"net"}), FALSE),
    RuleOf("rule_1", FormOf("rule", "match", {}), FALSE)>>,
  <<RuleOf("r1", FormOf("rule", "logic", {"net"}), TRUE), RuleOf("r2", FormOf("rule", "plain", {"net"}), FALSE),
    RuleOf("rule_1", FormOf("rule", "match", {}), FALSE)>>,
  <<>>}
Rules == INSTANCE ClientRules WITH Requests <- ClientRequests

\* At first one of the two sources is sound; a change of it makes the other combinations.
OneIsSound == (\E s \in Subs : Interval[s] > 0 /\ remote[s] = "plain")
              \/ (\E s \in Subs : Interval[s] = 0 /\ nodeCache[s].kind = "plain")

\* Deployment ids are interchangeable (fresh uuids): the lowest unused one is drawn next.
NextTaskFirst == \A t \in Gateway!Tasks \ Gateway!FreshTasks : t - 1 \notin Gateway!FreshTasks

RegistryVars == <<spaces, default, registry_edition, registry_agents, tokens, review, push, sent, used, acts>>
GatewayVars == <<gateway_edition, ready, session, gateway_agents, credentials, tasks, latest, worker, given, events>>
MatcherVars == <<ruleset, enabled>>
IndexVars == <<files, library, blocked, slot, held, handles, index_clock, budget>>
ArtifactsVars == <<file, cache, recent, reader, answer, writes>>
UpgradeVars == <<task, deploying, shown, late, starter, asker, device, job>>
FetchVars == <<clock, flights, failures, request>>
DeliveryVars == <<today, edition, remote, nodeCache, download, byHand, deliveries, artifact, lastAnswer, client,
  changes, begun>>
LibraryVars == <<ruleLibrary, ruleFile, oldFile, editor, overlapped, libraryEdits>>
RulesVars == <<rules, selected, page, ruleEdits>>
vars == <<focus, RegistryVars, GatewayVars, MatcherVars, IndexVars, ArtifactsVars, UpgradeVars, FetchVars,
  DeliveryVars, LibraryVars, RulesVars>>

Init ==
  /\ focus \in {"Registry", "Gateway", "Matcher", "Index", "Artifacts", "Upgrade", "Fetch", "Delivery", "Library",
    "Rules"}
  /\ Registry!RegistryInit
  /\ Gateway!GatewayInit
  /\ Matcher!MatcherInit
  /\ focus # "Matcher" => enabled = FALSE
  /\ Index!CacheInit
  /\ ArtifactInit
  /\ UpgradeInit
  /\ FetchInit
  /\ DeliveryInit
  /\ focus # "Delivery" => \A s \in Subs : remote[s] = "plain" /\ nodeCache[s] = NoData
  /\ focus = "Delivery" => OneIsSound
  /\ LibraryInit
  /\ focus # "Library" => ruleLibrary = [r \in RuleIds |-> NoEntry]
  /\ Rules!RulesInit
  /\ focus # "Rules" => rules = <<>>

Next ==
  /\ UNCHANGED focus
  /\ \/ focus = "Registry" /\ Registry!RegistryNext /\ UNCHANGED <<GatewayVars, MatcherVars, IndexVars, ArtifactsVars, UpgradeVars, FetchVars, DeliveryVars,
         LibraryVars, RulesVars>>
     \/ focus = "Gateway" /\ Gateway!GatewayNext /\ UNCHANGED <<RegistryVars, MatcherVars, IndexVars, ArtifactsVars, UpgradeVars, FetchVars, DeliveryVars,
         LibraryVars, RulesVars>>
     \/ focus = "Matcher" /\ Matcher!MatcherNext /\ UNCHANGED <<RegistryVars, GatewayVars, IndexVars, ArtifactsVars, UpgradeVars, FetchVars, DeliveryVars,
         LibraryVars, RulesVars>>
     \/ focus = "Index" /\ Index!CacheNext /\ UNCHANGED <<RegistryVars, GatewayVars, MatcherVars, ArtifactsVars, UpgradeVars, FetchVars, DeliveryVars,
         LibraryVars, RulesVars>>
     \/ focus = "Artifacts" /\ ArtifactNext /\ UNCHANGED <<RegistryVars, GatewayVars, MatcherVars, IndexVars, UpgradeVars, FetchVars, DeliveryVars,
         LibraryVars, RulesVars>>
     \/ focus = "Upgrade" /\ UpgradeNext /\ UNCHANGED <<RegistryVars, GatewayVars, MatcherVars, IndexVars, ArtifactsVars, FetchVars, DeliveryVars,
         LibraryVars, RulesVars>>
     \/ focus = "Fetch" /\ FetchNext /\ UNCHANGED <<RegistryVars, GatewayVars, MatcherVars, IndexVars, ArtifactsVars, UpgradeVars, DeliveryVars,
         LibraryVars, RulesVars>>
     \/ focus = "Delivery" /\ DeliveryNext /\ UNCHANGED <<RegistryVars, GatewayVars, MatcherVars, IndexVars, ArtifactsVars, UpgradeVars, FetchVars,
         LibraryVars, RulesVars>>
     \/ focus = "Library" /\ LibraryNext /\ UNCHANGED <<RegistryVars, GatewayVars, MatcherVars, IndexVars, ArtifactsVars, UpgradeVars, FetchVars,
         DeliveryVars, RulesVars>>
     \/ focus = "Rules" /\ Rules!RulesNext /\ UNCHANGED <<RegistryVars, GatewayVars, MatcherVars, IndexVars, ArtifactsVars, UpgradeVars, FetchVars,
         DeliveryVars, LibraryVars>>

Spec == Init /\ [][Next]_vars

\* An Agent is bound to a space that exists, stays there while work is open and receives the revision its
\* page showed; a gateway's OxiDNS starts after its Mihomo is healthy, its installation is called published
\* only of two healthy deployments, and a retry replaces only what failed (manager.py, routes/agents.py,
\* gateway_installation.py).
BindingsAreRespected ==
  /\ []Registry!BoundSpaceExists
  /\ Registry!WorkKeepsItsSpace
  /\ Registry!GuardedPublishIsShown
  /\ Gateway!MihomoFirst
  /\ Gateway!RetryKeepsWhatWorked

\* The compiled index answers the first matching line and a matcher for the current files answers what
\* they hold, whatever reads failed or raced; the three clients decide a request by the same item unless
\* one must not, and what is called a duplicate decides nothing (rule_matcher.py,
\* domain_matcher_cache.py, surge.py, loon.py, routes/rules.py).
MatchingIsRight ==
  /\ focus = "Matcher" => Matcher!IndexIsFirstMatch
  /\ focus = "Index" => Index!CurrentHandleIsRight
  /\ focus = "Rules" =>
       Rules!SurgeDecidesAsMihomo /\ Rules!LoonOnlyPrefersLocal /\ Rules!DuplicatesDecideNothing

\* The panel calls an Agent update done only when the Agent runs the version, releases it only when its
\* worker has ended, keeps outcomes, and serves digests of the files as they are (upgrades.py).
UpgradesAreProven ==
  /\ []UpgradeTypeOK
  /\ []SuccessIsProven
  /\ []ReleaseIsSafe
  /\ OutcomeStands
  /\ OnlyOneJob
  /\ []CachedIsTrue

\* A subscription is fetched by one request at a time, no sooner than its cooldown and never older than
\* asked, and what a client downloads of it is written and served only when all it loads together is
\* sound, from data within its interval; a rule list is never another entry's and its text the one that
\* was entered last, and a test of many reverts no edit (sub_store_client.py, provider_delivery.py,
\* rule_library.py).
FetchesAreShared ==
  /\ []OneFlight
  /\ []FreshEnough
  /\ CooldownHolds
  /\ DeliveriesAreWhole
  /\ CurrentIsFresh
  /\ []ServedIsOwn
  /\ []SettledIsCurrent
  /\ BatchKeepsEdits
===============================================================================
