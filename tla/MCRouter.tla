------------------------------- MODULE MCRouter -------------------------------
(* Small instances of the panel's work on routers and their DNS: each          *)
(* behaviour is one of a publication, the judgement of forwarding tables, the  *)
(* rule synchronisation of a router or of a device, the DNS that follows       *)
(* another Agent, or the documents of the two DNS services.                    *)
EXTENDS Integers, Sequences, FiniteSets

CONSTANTS Cidrs, Vendors, Selections, MaxReleases, MaxFaults, MaxForeign, Nets, PolicyNets, RemoteVersions,
  LocalVersions, MaxSettings, MaxHandEdits, Addresses, MaxSourceReleases, MaxDrafts, MaxUpsets, Lists,
  MaxProfileEdits, MaxDeviceTrouble, MaxDeviceReleases, TakenBackLate, Target, TableRows, NatRules, DevicePolicies,
  ClientSources, GatewayAddress, MaxTableRows

VARIABLE focus    \* the component this behaviour is about
VARIABLES router, publication_live, release, touched, publication_spent
VARIABLES routes, rules, policies
VARIABLES rulesync_settings, remote, rulecache, receipt, rows, job, manual, rulesync_spent, late
VARIABLES source, follow_draft, follow_applied, device, child, binding, state, follow_task, round, upsets
VARIABLES core, profile, device_settings, online, device_applied, deploy, device_live, device_task, sync,
  worker, device_spent
VARIABLES rule_configs, disabled, direct, proxied, mosdns_settings
VARIABLES library, document, oxidns_asked, edits
VARIABLES form_draft, session, origin, form_asked, edited, formed

SelectionsDef == {<<{"a", "b"}, {}>>, <<{"a"}, {"b"}>>, <<{}, {"a", "b"}>>}
Publication == INSTANCE RouterPublication WITH live <- publication_live, spent <- publication_spent

RowsDef ==
  [net : {{1, 2}, {1}, {2}}, hop : {"gateway", "other"}, active : BOOLEAN, distance : {1, 2}, managed : {FALSE}] \cup
  [net : {{1, 2}}, hop : {"gateway"}, active : {TRUE}, distance : {1}, managed : {TRUE}]
RulesDef ==
  [src : {{1}, {1, 2}}, dst : {{1}, {1, 2}}, out : {"any"}, action : {"accept"}, other : BOOLEAN, managed : {TRUE}] \cup
  [src : {{2}, {1, 2}}, dst : {{2}}, out : {"lan", "list"}, action : {"accept"}, other : {FALSE}, managed : {FALSE}] \cup
  [src : {{1, 2}}, dst : {{1, 2}}, out : {"any", "wan", "lan", "list"}, action : {"masquerade"}, other : {FALSE}, managed : {FALSE}] \cup
  [src : {{1}}, dst : {{1, 2}}, out : {"any"}, action : {"masquerade", "log", "jump"}, other : BOOLEAN, managed : {FALSE}]
PoliciesDef == [net : {{1}, {2}, {1, 2}, {1, 2, 3, 4}}, mode : {"smart", "direct"}]
Forwarding == INSTANCE RouterForwarding WITH Rows <- TableRows, Rules <- NatRules, Policies <- DevicePolicies,
    MaxRows <- MaxTableRows

\* Networks hold each other or nothing of each other; a rule names no interface, one of two, or a list of them.
Apart(net, other) == net \subseteq other \/ other \subseteq net \/ net \cap other = {}
ASSUME ForwardingAssumption ==
  /\ IsFiniteSet(Target) /\ \A r \in TableRows : IsFiniteSet(r.net) /\ Apart(r.net, Target)
  /\ \A r \in NatRules : r.out \in {"any", "lan", "wan", "list"}
  /\ \A p, o \in DevicePolicies : IsFiniteSet(p.net) /\ Apart(p.net, o.net)
  /\ Forwarding!Decided \cap (ClientSources \X Target) = {}

RuleSync == INSTANCE RouterRuleSync WITH MaxTrouble <- MaxHandEdits, settings <- rulesync_settings, spent <- rulesync_spent

Follow == INSTANCE DnsFollow WITH MaxReleases <- MaxSourceReleases, draft <- follow_draft, applied <- follow_applied,
    task <- follow_task

Device == INSTANCE AgentRuleSync WITH MaxEdits <- MaxProfileEdits, MaxTrouble <- MaxDeviceTrouble, MaxReleases <- MaxDeviceReleases,
    settings <- device_settings, applied <- device_applied, live <- device_live, task <- device_task,
    spent <- device_spent

MosdnsRules == [d1 |-> "domain", d2 |-> "domain", i1 |-> "ip", i2 |-> "ip"]
TheRuleSet(name, behavior, lines) == [name |-> name, behavior |-> behavior, source |-> lines]
MosdnsSets == [s1 |-> TheRuleSet(<<"list">>, "classical", "L"), s2 |-> TheRuleSet(<<"list", "ip">>, "domain", "K"),
               s3 |-> TheRuleSet(<<"list">>, "classical", "L")]
MosdnsOrders == {<<"d1", "s1", "d2", "s2">>, <<"i1", "s1", "s3", "i2">>, <<"s2", "d1", "d2", "s1">>}
TheCustom(id, on) == [id |-> id, enabled |-> on, complete |-> TRUE]
MosdnsSettings ==
  {[position |-> "head", default |-> "forward_local", cache |-> TRUE, hosts |-> TRUE, customs |-> <<TheCustom("c1", TRUE)>>],
   [position |-> "tail", default |-> "forward_remote", cache |-> FALSE, hosts |-> FALSE,
    customs |-> <<TheCustom("c2", FALSE), TheCustom("c1", TRUE)>>]}
MosdnsQueries ==
  [host : {FALSE}, names : {n \in SUBSET {"d1", "d2", "L", "K"} : Cardinality(n) <= 2},
   addresses : {{}, {"L"}, {"i1", "L"}, {"i2", "L"}}, custom : {{}, {"c1"}}]
  \cup {[host |-> TRUE, names |-> {"d1"}, addresses |-> {}, custom |-> {"c1"}]}
MosdnsNames == UNION {[1 .. n -> {"a", "b"}] : n \in 1 .. 3}
MosdnsLines ==
  [shape : {"DOMAIN", "DOMAIN-SUFFIX", "+.", ".", "*.", "plain", "full", "domain"}, value : {<<"a">>, <<"a", "b">>}]
  \cup [shape : {"DOMAIN-KEYWORD", "keyword"}, value : {"a"}] \cup [shape : {"DOMAIN-REGEX", "regexp"}, value : {{<<"b", "a">>}}]
  \cup [shape : {"GEOIP", "ip"}, value : {<<"a", "b">>}]
TheUpstream(addr, form) == [addr |-> addr, form |-> form]
TheText(yaml, items) == [yaml |-> yaml, items |-> items]
MosdnsTexts ==
  {TheText("blank", <<>>), TheText("list", <<>>), TheText("list", <<TheUpstream("x", "dash")>>),
   TheText("list", <<TheUpstream("none", "dash"), TheUpstream("y", "dash")>>), TheText("list", <<TheUpstream("none", "dash")>>),
   TheText("object", <<TheUpstream("x", "word")>>), TheText("none", <<TheUpstream("x", "word"), TheUpstream("y", "word")>>),
   TheText("none", <<TheUpstream("x", "word"), TheUpstream("y", "indent")>>),
   TheText("broken", <<TheUpstream("x", "dash"), TheUpstream("y", "word")>>)}
Mosdns == INSTANCE MosdnsRouting WITH SingleRules <- MosdnsRules, RuleSets <- MosdnsSets, RuleOrders <- MosdnsOrders,
    Settings <- MosdnsSettings, DnsQueries <- MosdnsQueries, DnsLines <- MosdnsLines,
    DnsNames <- MosdnsNames, DnsTexts <- MosdnsTexts, settings <- mosdns_settings

OxidnsRules == [d1 |-> {"domain"}, d2 |-> {"domain"}, s1 |-> {"domain", "ip"}, i1 |-> {"ip"}]
OxidnsOrder == <<"d1", "s1", "d2", "i1">>
TheRoutes(d1, d2, s1, i1) == [d1 |-> d1, d2 |-> d2, s1 |-> s1, i1 |-> i1]
OxidnsChanges ==
  {[routes |-> TheRoutes("direct", "direct", "proxy", "direct")], [routes |-> TheRoutes("proxy", "direct", "proxy", "none")],
   [routes |-> TheRoutes("direct", "none", "none", "direct"), default |-> "remote"],
   [aggregate |-> "yes"], [aggregate |-> "no"], [default |-> "local"], [default |-> "remote"],
   [customs |-> <<>>], [customs |-> <<"c1">>], [customs |-> <<"block", "c1">>], [position |-> "head"], [position |-> "tail"]}
ThePolicy(clients, mode) == [clients |-> clients, mode |-> mode]
OxidnsPolicies == {{}, {ThePolicy({"a"}, "direct")}, {ThePolicy({"a", "b"}, "direct"), ThePolicy({"a"}, "smart")}}
TheTemplate(extra, paths, aggregate, default, customs, position) ==
  [dynamic |-> extra, updates |-> extra,
   values |-> [routes |-> paths, aggregate |-> aggregate, default |-> default, customs |-> customs, position |-> position]]
OxidnsTemplates ==
  {TheTemplate(TRUE, TheRoutes("direct", "direct", "proxy", "direct"), TRUE, "local", <<"c1">>, "head"),
   TheTemplate(FALSE, TheRoutes("proxy", "direct", "none", "proxy"), FALSE, "remote", <<>>, "tail")}
Oxidns == INSTANCE OxidnsRouting WITH OxiRules <- OxidnsRules, OxiSets <- {"s1"}, OxiOrder <- OxidnsOrder, OxiChanges <- OxidnsChanges,
    OxiPolicies <- OxidnsPolicies, OxiClients <- {"a", "b"}, OxiTemplates <- OxidnsTemplates,
    MaxOxiEdits <- 2, asked <- oxidns_asked


Flip(field) == {[x \in {field} |-> TRUE], [x \in {field} |-> FALSE]}
To(field, values) == {[x \in {field} |-> v] : v \in values}
SwitchSession == UNION {Flip(field) : field \in {"cache_enabled", "probe_cache_enabled", "recorder_enabled", "selector_enabled", "route_enabled"}} \cup {[cache_enabled |-> TRUE, cache_size |-> 3]}
FallbackSession == To("fallback_dns", {"", "x", "y"}) \cup To("fallback_threshold", {500, 700})
  \cup Flip("tcp_enabled") \cup To("listen", {"53", "5353"}) \cup To("local_dns", {"a"})
  \cup Flip("remote_ttl")
ApiSession == Flip("api_enabled") \cup To("api_listen", {"1"}) \cup To("webui_root", {"", "/ui", "/b"})
  \cup To("api_user", {"", "me"}) \cup {[api_enabled |-> TRUE, api_user |-> "you"]}
DumpSession == Flip("dump_enabled") \cup To("dump_file", {"", "g"}) \cup To("dump_interval", {7})
  \cup Flip("cache_enabled") \cup To("cache_size", {4}) \cup Flip("route_enabled") \cup To("route_tls", {"", "ca"})
MainSession == Flip("prefer_ipv4") \cup Flip("metrics_enabled") \cup Flip("block_qtypes") \cup Flip("recorder_enabled")
  \cup To("custom_hosts", {"", "h"})
DynamicSession == Flip("dynamic_enabled") \cup Flip("dynamic_learn") \cup To("dynamic_route", {"direct", "proxy"})
  \cup To("dynamic_size", {2}) \cup {[dynamic_enabled |-> TRUE, dynamic_learn |-> TRUE]}
UpdateSession == Flip("update_enabled") \cup To("update_schedule", {"hourly"}) \cup To("update_timezone", {"UTC"})
  \cup To("update_timeout", {9}) \cup Flip("adguard_enabled") \cup To("adguard_urls", {{}, {"u1"}, {"u2"}})
  \cup To("adguard_mode", {"null"})
Edits(kind, tags) == {<<kind, t>> : t \in tags}
BothEdits(tags) == Edits("remove", tags) \cup Edits("add", tags)
Person(changes, hands, forms) == [changes |-> changes, hands |-> hands, forms |-> forms]
FormSessions == {Person(SwitchSession, {"lazy_cache", "ros_route", "step"}, BothEdits({"lazy_cache", "ip_selector"})
  \cup Edits("rename", {"query_recorder"})),
  Person(FallbackSession, {"fallback", "listener"}, BothEdits({"forward_fallback", "fallback_dns"})
  \cup {<<"empty", "fallback">>, <<"rename", "forward_fallback">>}),
  Person(ApiSession, {}, {}),
  Person(DumpSession, {"ros_route", "variable"}, BothEdits({"ros_route"}) \cup {<<"empty", "dump">>, <<"rename", "lazy_cache">>}),
  Person(MainSession, {"variable"}, BothEdits({"custom_hosts", "query_recorder"}) \cup {<<"empty", "hosts">>}),
  Person(DynamicSession, {"variable"}, BothEdits({"dynamic_domains", "learn_classified_domain"})
  \cup Edits("rename", {"dynamic_domains"})),
  Person(UpdateSession, {"job", "refresh", "download", "provider", "no rules", "adguard_block"},
  BothEdits({"rules_download", "rules_cron", "adguard_rules"}) \cup Edits("rename", {"adguard_block"}))}
Form == INSTANCE OxidnsNativeForm WITH CommonSessions <- FormSessions, MaxCommonEdits <- 3, draft <- form_draft, asked <- form_asked

PublicationVars == <<router, publication_live, release, touched, publication_spent>>
ForwardingVars == <<routes, rules, policies>>
RuleSyncVars == <<rulesync_settings, remote, rulecache, receipt, rows, job, manual, rulesync_spent, late>>
FollowVars == <<source, follow_draft, follow_applied, device, child, binding, state, follow_task, round, upsets>>
DeviceVars == <<core, profile, device_settings, online, device_applied, deploy, device_live, device_task, sync,
  worker, device_spent>>
MosdnsVars == <<rule_configs, disabled, direct, proxied, mosdns_settings>>
OxidnsVars == <<library, document, oxidns_asked, edits>>
FormVars == <<form_draft, session, origin, form_asked, edited, formed>>
vars == <<focus, PublicationVars, ForwardingVars, RuleSyncVars, FollowVars, DeviceVars, MosdnsVars, OxidnsVars,
  FormVars>>

Init ==
  /\ focus \in {"Publication", "Forwarding", "RuleSync", "Follow", "Device", "Mosdns", "Oxidns", "Form"}
  /\ Publication!PublicationInit
  /\ focus # "Publication" => /\ router.vendor = "routeros" /\ router.static = {"a", "b"} /\ router.policy = {}
                           /\ ~router.dns /\ ~router.ret /\ publication_live[<<"route", "a">>] = Publication!Absent
  /\ Forwarding!ForwardingInit
  /\ RuleSync!SyncInit
  /\ focus # "RuleSync" => remote = {"a"}
  /\ Follow!FollowInit
  /\ Device!RuleSyncInit
  /\ focus # "Device" => core = "oxidns"
  /\ IF focus = "Mosdns" THEN Mosdns!MosdnsInit ELSE rule_configs = 0 /\ disabled = 0 /\ direct = 0 /\ proxied = 0 /\ mosdns_settings = 0
  /\ IF focus = "Oxidns" THEN Oxidns!OxiInit ELSE library = 0 /\ document = 0 /\ oxidns_asked = <<>> /\ edits = 0
  /\ IF focus = "Form" THEN Form!FormInit ELSE form_draft = 0 /\ session = 0 /\ origin = 0 /\ form_asked = <<>> /\ edited = 0 /\ formed = <<>>

Next ==
  /\ UNCHANGED focus
  /\ \/ focus = "Publication" /\ Publication!PublicationNext /\ UNCHANGED <<ForwardingVars, RuleSyncVars, FollowVars, DeviceVars, MosdnsVars, OxidnsVars, FormVars>>
     \/ focus = "Forwarding" /\ Forwarding!ForwardingNext /\ UNCHANGED <<PublicationVars, RuleSyncVars, FollowVars, DeviceVars, MosdnsVars, OxidnsVars, FormVars>>
     \/ focus = "RuleSync" /\ RuleSync!SyncNext /\ UNCHANGED <<PublicationVars, ForwardingVars, FollowVars, DeviceVars, MosdnsVars, OxidnsVars, FormVars>>
     \/ focus = "Follow" /\ Follow!FollowNext /\ UNCHANGED <<PublicationVars, ForwardingVars, RuleSyncVars, DeviceVars, MosdnsVars, OxidnsVars, FormVars>>
     \/ focus = "Device" /\ Device!RuleSyncNext /\ UNCHANGED <<PublicationVars, ForwardingVars, RuleSyncVars, FollowVars, MosdnsVars, OxidnsVars, FormVars>>
     \/ focus = "Mosdns" /\ Mosdns!MosdnsNext /\ UNCHANGED <<PublicationVars, ForwardingVars, RuleSyncVars, FollowVars, DeviceVars, OxidnsVars, FormVars>>
     \/ focus = "Oxidns" /\ Oxidns!OxiNext /\ UNCHANGED <<PublicationVars, ForwardingVars, RuleSyncVars, FollowVars, DeviceVars, MosdnsVars, FormVars>>
     \/ focus = "Form" /\ Form!FormNext /\ UNCHANGED <<PublicationVars, ForwardingVars, RuleSyncVars, FollowVars, DeviceVars, MosdnsVars, OxidnsVars>>

Spec == Init /\ [][Next]_vars

\* A converted line matches what it matched in the panel, and every upstream is one that was entered
\* (mosdns.py); true of all lines and texts, in no state in particular.
ListsAreConverted ==
  /\ Mosdns!ConversionKeepsMeaning
  /\ Mosdns!UpstreamsAreEntered

\* A release touches no object of others, restores all of its own when it fails, keeps proxied
\* destinations proxied at every step, hands out the proxy's DNS only with a path, and records what it
\* left (release.py).
PublicationIsSafe ==
  /\ Publication!OthersAreKept
  /\ []Publication!RolledBackIsWhole
  /\ []Publication!PathIsKept
  /\ Publication!DnsNeedsPath
  /\ []Publication!ManifestIsTrue

\* What is reported as forwarded to the gateway or exempt from NAT is so for every packet, unknown
\* matchers included, and the narrowest device policy wins (base.py, routeros_nat.py).
ForwardingIsJudgedRight == focus = "Forwarding" =>
  /\ Forwarding!RouteEvidenceIsSound
  /\ Forwarding!ExemptionIsSound
  /\ Forwarding!NarrowestPolicyWins

\* A DNS document decides every query as the rules shown by the panel do, also after edits of it by hand,
\* keeps what was asked, has no dangling reference and no clashing name (mosdns.py, oxidns.py,
\* oxidns_common_routing.py).
DnsRulesAreKept ==
  /\ (focus = "Mosdns" => Mosdns!PipelineIsRuleOrder /\ Mosdns!NamesAreDefinite /\ ListsAreConverted)
  /\ (focus = "Oxidns" => Oxidns!ShownIsDecided /\ Oxidns!AskedIsRead /\ Oxidns!NothingDangles /\ Oxidns!UpdatesFollow)

\* The common controls and the form of the complete parameters change only what was asked, keep the
\* options, jobs, downloads and order of what is switched off, bring nothing withdrawn back and leave
\* nothing dangling (oxidns_common.py, oxidns_common_updates.py, oxidns_native_apply.py).
DnsControlsAreSafe ==
  /\ Oxidns!OthersAreKept
  /\ Oxidns!OnlyTheDefaultDangles
  /\ [](focus = "Form" => Form!NothingDangles)
  /\ [](focus = "Form" => Form!OrderIsRestored)
  /\ [](focus = "Form" => Form!WithdrawnStaysOut)
  /\ Form!OnlyAskedChanges
  /\ Form!OwnWorkIsKept
  /\ Form!FormKeepsOptions
  /\ Form!CallsFollowTheName
  /\ Form!HostsStayWithdrawn

\* What is written to a router or a device without a person changes only what was enrolled, waits after
\* an unfinished write and stops for an edit; it brings only the followed upstream or the rules switched
\* on, never loses a draft edit, and is called connected or synchronised only when the device runs it
\* (dns_follow.py, rule_sync.py).
AutomationIsCareful ==
  /\ RuleSync!UnfinishedWaits
  /\ RuleSync!OnlyEnrolledChange
  /\ []RuleSync!EditStopsJob
  /\ []RuleSync!NothingIsForgotten
  /\ Follow!OnlyUpstreamIsPublished
  /\ Follow!EditSurvives
  /\ Follow!ConnectedWhenConfirmed
  /\ Device!OnlyRulesMove
  /\ Device!AcknowledgedIsLive
  /\ Device!OffMeansNoDownload
===============================================================================
