---------------------------- MODULE OxidnsCommon ----------------------------
(***************************************************************************)
(* The common controls of an OxiDNS document (common/oxidns_common.py,     *)
(* oxidns_common_updates.py, oxidns_references.py): switches and options   *)
(* read from the native document and written into it in place.  A plugin   *)
(* that is switched off is taken out of the document and kept aside; what  *)
(* a person wired by hand makes a control unavailable.                     *)
(***************************************************************************)
EXTENDS Integers, Sequences, SequencesExt, FiniteSets, FiniteSetsExt, TLC

CONSTANTS
  CommonSessions,   \* what one person works on: [changes: sets of field -> value, hands, forms: edits by hand and with the form]
  MaxCommonEdits    \* bound: edits

VARIABLES
  draft,    \* the document, what is kept aside, and the sources of its files
  session,  \* the changes and edits of this behaviour
  origin,   \* the chains and the switches at the last edit that was not of a switch alone
  asked,    \* the changes of the last edit, none by hand
  edited    \* number of edits

commonVars == <<draft, session, origin, asked, edited>>

(***************************************************************************)
(* The document: [tag -> args].  The args of a sequence are its items; an  *)
(* item has a condition, a verb and the plugin it goes to.                 *)
(***************************************************************************)

Item(when, do, to) == [when |-> when, do |-> do, to |-> to]
Call(tag) == Item("", "$", tag)
Word(word) == Item("", word, "")
Accept == Item("has_resp", "accept", "")
AdguardCall == Item("adguard_rules", "goto", "adguard_reject")
DynamicCall(route) == Item("dynamic_domains", "goto", IF route = "direct" THEN "china_dns" ELSE "proxy_dns_seq")

FeatureChains ==
  [query_recorder |-> {"sequence_main"}, lazy_cache |-> {"china_dns"}, local_probe_cache |-> {"local_probe"},
   ip_selector |-> {"china_dns", "direct_ip", "default_direct_ip"}, ros_route |-> {"china_dns", "direct_ip", "default_direct_ip"}]
SwitchOf == [cache_enabled |-> "lazy_cache", probe_cache_enabled |-> "local_probe_cache", recorder_enabled |-> "query_recorder",
             selector_enabled |-> "ip_selector", route_enabled |-> "ros_route"]
Switches == <<"cache_enabled", "probe_cache_enabled", "recorder_enabled", "selector_enabled", "route_enabled">>

\* _DIRECT: options that are one argument of one plugin.
OptionOf == [cache_size |-> <<"lazy_cache", "size">>, recorder_size |-> <<"query_recorder", "size">>, local_dns |-> <<"forward_local", "upstreams">>,
             fallback_threshold |-> <<"fallback", "threshold">>, dynamic_size |-> <<"dynamic_domains", "size">>,
             update_timeout |-> <<"rules_download", "timeout">>]

DefaultArgs ==
  [query_recorder |-> [size |-> 1], lazy_cache |-> [size |-> 1, dump |-> "", interval |-> 0], local_probe_cache |-> [size |-> 1],
   ip_selector |-> [size |-> 1], ros_route |-> [tls |-> ""], forward_local |-> [upstreams |-> ""],
   forward_fallback |-> [upstreams |-> ""], fallback |-> [threshold |-> 500],
   fallback_dns |-> <<Call("forward_fallback"), Item("!has_resp", "reject 3", "")>>,
   dynamic_domains |-> [size |-> 1], learn_classified_domain |-> [provider |-> "dynamic_domains"],
   adguard_rules |-> [files |-> {}], adguard_block |-> [mode |-> "nxdomain"], adguard_reject |-> <<Call("adguard_block"), Word("accept")>>,
   custom_hosts |-> [files |-> {}], rules_download |-> [downloads |-> {}, timeout |-> 30], rules_reload |-> [providers |-> {}],
   rules_refresh |-> <<Call("rules_download"), Call("rules_reload")>>, rules_cron |-> [timezone |-> "UTC", jobs |-> {}]]
Refresh == DefaultArgs.rules_refresh
DownloadOnly == <<Call("rules_download")>>

SequenceTags == {"sequence_main", "china_dns", "direct_ip", "default_direct_ip", "ip_requery_proxy", "local_probe", "remote_dns",
                 "proxy_dns_seq", "fallback_dns", "adguard_reject", "rules_refresh"}
Environment == "${env}"

Has(c, tag) == tag \in DOMAIN c.plugins
Seqn(c, tag) == c.plugins[tag]
Positions(items, item) == {i \in DOMAIN items : items[i] = item}
DropItems(items, item) == SelectSeq(items, LAMBDA x : x # item)
FirstAt(items, Test(_), otherwise) == LET at == {i \in DOMAIN items : Test(items[i])} IN IF at = {} THEN otherwise ELSE Min(at)

(***************************************************************************)
(* reference_locations: what refers to what.  An unexpanded variable may   *)
(* stand for any plugin.                                                   *)
(***************************************************************************)

EdgesOf(tag, args) ==
  CASE tag \in SequenceTags -> UNION {{<<tag, args[i], t>> : t \in {args[i].when, args[i].to}} : i \in DOMAIN args}
    [] tag = "rules_reload" -> {<<tag, Word("arg"), t>> : t \in args.providers}
    [] tag = "rules_cron" -> UNION {{<<tag, Word(job.name), t>> : t \in job.executors} : job \in args.jobs}
    [] tag = "learn_classified_domain" -> {<<tag, Word("arg"), args.provider>>}
    [] tag = "fallback" -> {<<tag, Word("arg"), t>> : t \in {"remote_dns", "fallback_dns"}}
    [] tag \in {"server_udp", "server_tcp"} -> {<<tag, Word("arg"), args.entry>>}
    [] OTHER -> {}

Edges(c) == UNION {EdgesOf(tag, c.plugins[tag]) : tag \in DOMAIN c.plugins}
References(c, tags) == {e \in Edges(c) : e[3] \in tags \cup {Environment}}

(***************************************************************************)
(* _Context                                                                *)
(***************************************************************************)

With(f, key, value) == (key :> value) @@ f
Without(f, key) == [k \in DOMAIN f \ {key} |-> f[k]]
Fail(c) == [c EXCEPT !.ok = FALSE]

Put(c, tag, args) == [c EXCEPT !.plugins = With(@, tag, args)]
Park(c, name, value) == [c EXCEPT !.parked = With(@, name, value)]
ParkPlugin(c, tag) == IF Has(c, tag) THEN [Park(c, tag, c.plugins[tag]) EXCEPT !.plugins = Without(@, tag)] ELSE c
ParkPlugins(c, tags) == FoldLeft(ParkPlugin, c, tags)

\* A plugin that was kept aside comes back as it was.
Ensure_Fresh(c, tag, args) == IF Has(c, tag) THEN c ELSE Put(c, tag, args)
Ensure(c, tag, args) == IF Has(c, tag) THEN c ELSE Put(c, tag, IF tag \in DOMAIN c.parked THEN c.parked[tag] ELSE args)
EnsureDefault(c, tag) == Ensure(c, tag, DefaultArgs[tag])

Kept(c, name, otherwise) == IF name \in DOMAIN c.parked THEN c.parked[name] ELSE otherwise
StoredArgs(c, tag) == IF Has(c, tag) THEN c.plugins[tag] ELSE Kept(c, tag, DefaultArgs[tag])

\* alias_capability: a managed plugin under another name is edited by hand.
Aliased(c, tag) == /\ tag \in DOMAIN c.renamed /\ Has(c, c.renamed[tag])

\* call_state: a switch is on when something calls the plugin, and usable when exactly its own calls do.
OwnCalls(tag, chains) == {<<chain, Call(tag), tag>> : chain \in chains}
IsCalled(c, tag) == \E e \in Edges(c) : e[3] = (IF Aliased(c, tag) THEN c.renamed[tag] ELSE tag)
CallsUsable(c, tag, chains) ==
  /\ ~Aliased(c, tag) /\ chains \subseteq DOMAIN c.plugins
  /\ References(c, {tag}) \subseteq OwnCalls(tag, chains)
  /\ \A chain \in chains : Cardinality(Positions(Seqn(c, chain), Call(tag))) = (IF IsCalled(c, tag) THEN 1 ELSE 0)

\* toggle_call: where a call goes back to is remembered from the first switch that was turned off.
Place(c, tag, chain, saved) ==
  LET items == Seqn(c, chain)
      following == IF tag \in saved.disabled /\ Positions(saved.items, Call(tag)) # {}
                   THEN SubSeq(saved.items, Min(Positions(saved.items, Call(tag))) + 1, Len(saved.items)) ELSE <<>>
  IN CASE tag \in saved.disabled /\ Positions(saved.items, Call(tag)) # {} ->
            LET near == {i \in DOMAIN following : Positions(items, following[i]) # {}}
            IN IF near = {} THEN Len(items) + 1 ELSE Min(Positions(items, following[Min(near)]))
       [] chain = "sequence_main" -> FirstAt(items, LAMBDA x : x \notin {Word("metrics"), Call("query_recorder")}, Len(items) + 1)
       [] tag = "lazy_cache" -> FirstAt(items, LAMBDA x : x = Call("forward_local"), 1)
       [] OTHER -> 1

NoPlace == [items |-> <<>>, disabled |-> {}]
SwitchChain(c, tag, chain, on) ==
  LET places == Kept(c, "feature_calls", <<>>)
      saved == IF chain \in DOMAIN places THEN places[chain] ELSE NoPlace
      items == Seqn(c, chain)
      called == Positions(items, Call(tag)) # {}
  IN IF on
     THEN IF called THEN c
          ELSE LET left == saved.disabled \ {tag}
                   next == IF left = {} THEN Without(places, chain) ELSE With(places, chain, [saved EXCEPT !.disabled = left])
               IN Park(Put(c, chain, InsertAt(items, Place(c, tag, chain, saved), Call(tag))), "feature_calls", next)
     ELSE IF ~called THEN c
          ELSE Park(Put(c, chain, DropItems(items, Call(tag))), "feature_calls",
                    With(places, chain, [items |-> IF saved.disabled = {} THEN items ELSE saved.items,
                                         disabled |-> saved.disabled \cup {tag}]))

ToggleCall(c, tag, on) ==
  FoldLeft(LAMBDA x, chain : SwitchChain(x, tag, chain, on), IF on THEN EnsureDefault(c, tag) ELSE c,
           SetToSeq(FeatureChains[tag]))

(***************************************************************************)
(* The fallback of the proxy chain                                         *)
(***************************************************************************)

FallbackOn == <<Call("fallback"), Word("accept")>>
FallbackOff == <<Item("", "goto", "remote_dns")>>
FallbackPlugins == <<"forward_fallback", "fallback_dns", "fallback">>

FallbackIsOn(c) == Seqn(c, "proxy_dns_seq") = FallbackOn
FallbackUsable(c) ==
  /\ \A tag \in ToSet(FallbackPlugins) \cup {"proxy_dns_seq", "remote_dns"} : ~Aliased(c, tag)
  /\ Seqn(c, "proxy_dns_seq") \in {FallbackOn, FallbackOff}
  /\ FallbackIsOn(c) => ToSet(FallbackPlugins) \subseteq DOMAIN c.plugins
  /\ StoredArgs(c, "fallback_dns") = DefaultArgs.fallback_dns
  /\ {e \in References(c, ToSet(FallbackPlugins)) : e[1] \notin {"proxy_dns_seq", "fallback_dns", "fallback"}} = {}

TouchesFallback(changes) == DOMAIN changes \cap {"fallback_dns", "fallback_threshold"} # {}
PrepareFallback(c) == FoldLeft(EnsureDefault, c, FallbackPlugins)
FinishFallback(c, changes, before) ==
  IF ~TouchesFallback(changes) THEN c
  ELSE LET on == IF "fallback_dns" \in DOMAIN changes THEN changes.fallback_dns # "" ELSE FallbackIsOn(before)
       IN IF on THEN IF c.plugins["forward_fallback"].upstreams = "" THEN Fail(c) ELSE Put(c, "proxy_dns_seq", FallbackOn)
          ELSE ParkPlugins(Put(c, "proxy_dns_seq", FallbackOff), FallbackPlugins)

(***************************************************************************)
(* The main chain, the answers' TTL, listeners and the API                 *)
(***************************************************************************)

MainItem == [prefer_ipv4 |-> Word("prefer_ipv4"), metrics_enabled |-> Word("metrics"), block_qtypes |-> Item("qtype", "reject 0", "")]
MainOn(c, field) == Positions(Seqn(c, "sequence_main"), MainItem[field]) # {}

\* _patch_main
PatchMain(c, field, on) ==
  LET items == Seqn(c, "sequence_main")
      at == IF field = "metrics_enabled" THEN 1
            ELSE FirstAt(items, LAMBDA x : x \notin {Word("metrics"), Call("query_recorder"), Word("prefer_ipv4")}, Len(items) + 1)
  IN Put(c, "sequence_main", IF on = MainOn(c, field) THEN items
                             ELSE IF on THEN InsertAt(items, at, MainItem[field]) ELSE DropItems(items, MainItem[field]))

PatchTtl(c, on) == LET rest == DropItems(Seqn(c, "remote_dns"), Word("ttl 60"))
                   IN Put(c, "remote_dns", IF ~on THEN rest ELSE IF rest # Seqn(c, "remote_dns") THEN Seqn(c, "remote_dns") ELSE Append(rest, Word("ttl 60")))

ListenersAgree(c) == Has(c, "server_tcp") => c.plugins["server_tcp"] = c.plugins["server_udp"]
PatchListen(c, value) ==
  LET udp == Put(c, "server_udp", [c.plugins["server_udp"] EXCEPT !.listen = value])
  IN IF Has(c, "server_tcp") THEN Put(udp, "server_tcp", [c.plugins["server_tcp"] EXCEPT !.listen = value]) ELSE udp
PatchTcp(c, on) ==
  IF on THEN IF Has(c, "server_tcp") THEN c ELSE Put(c, "server_tcp", c.plugins["server_udp"])
  ELSE ParkPlugin(c, "server_tcp")

\* _patch_api: the API's settings are kept while it is off, and its account and page while they are empty.
NoApi == [on |-> FALSE, listen |-> "9199", user |-> "", root |-> "", index |-> ""]
PatchApi(c, field, value) ==
  IF field = "api_enabled"
  THEN IF value THEN IF c.api.on THEN c ELSE [c EXCEPT !.api = Kept(c, "api_http", [NoApi EXCEPT !.on = TRUE])]
       ELSE IF c.api.on THEN [Park(c, "api_http", c.api) EXCEPT !.api = NoApi] ELSE c
  ELSE CASE field = "api_listen" -> [c EXCEPT !.api.listen = value]
         [] field = "api_user" -> [c EXCEPT !.api.user = value]
         [] field = "webui_root" ->
              IF value = "" THEN IF c.api.root = "" THEN c ELSE [Park(c, "api_webui", c.api.index) EXCEPT !.api.root = "", !.api.index = ""]
              ELSE [c EXCEPT !.api.root = value, !.api.index = IF c.api.root # "" THEN @ ELSE Kept(c, "api_webui", "index.html")]

\* _patch_cache_dump: the file and the interval survive the switch.
DumpFields == {"dump_enabled", "dump_file", "dump_interval"}
DumpFile(c) == LET kept == Kept(c, "cache_dump_file", "") IN IF kept = "" THEN "cache.dump" ELSE kept
Given(changes, field, otherwise) == IF field \in DOMAIN changes THEN changes[field] ELSE otherwise
ParkGiven(c, key, changes, field) == IF field \in DOMAIN changes THEN Park(c, key, changes[field]) ELSE c
SetDump(c, args, on, path) ==
  Put(c, "lazy_cache", IF on /\ path # "" THEN [args EXCEPT !.dump = path, !.interval = Kept(c, "cache_dump_interval", 600)]
                       ELSE [args EXCEPT !.dump = "", !.interval = 0])
ParkDump(c, args, changes) ==
  ParkGiven(ParkGiven(IF args.dump # "" THEN Park(Park(c, "cache_dump_file", args.dump), "cache_dump_interval", args.interval) ELSE c,
                      "cache_dump_file", changes, "dump_file"), "cache_dump_interval", changes, "dump_interval")
DumpWith(c, args, changes) ==
  SetDump(c, args, Given(changes, "dump_enabled", args.dump # ""),
          Given(changes, "dump_file", IF args.dump # "" THEN args.dump ELSE DumpFile(c)))
EnsuredDump(c, changes) == DumpWith(ParkDump(c, c.plugins["lazy_cache"], changes), c.plugins["lazy_cache"], changes)
PatchDump(c, changes) == IF DOMAIN changes \cap DumpFields = {} THEN c ELSE EnsuredDump(EnsureDefault(c, "lazy_cache"), changes)

(***************************************************************************)
(* Dynamic domains and what learns them                                    *)
(***************************************************************************)

DynamicItems(c) == SelectSeq(Seqn(c, "sequence_main"), LAMBDA x : x.when = "dynamic_domains")
DynamicOn(c) == DynamicItems(c) # <<>>
DynamicRoute(c) == IF DynamicOn(c) THEN IF DynamicItems(c)[1] = DynamicCall("direct") THEN "direct" ELSE "proxy" ELSE "none"
LearnChain(route) == IF route = "direct" THEN "direct_ip" ELSE "ip_requery_proxy"
LearnOn(c) == IsCalled(c, "learn_classified_domain")

\* _dynamic_state and the learner's capability
DynamicUsable(c) ==
  /\ ~Aliased(c, "dynamic_domains") /\ Len(DynamicItems(c)) <= 1
  /\ \A i \in DOMAIN DynamicItems(c) : DynamicItems(c)[i] \in {DynamicCall("direct"), DynamicCall("proxy")}
  /\ {e \in References(c, {"dynamic_domains"}) :
        ~(e[1] = "sequence_main" /\ e[2].when = "dynamic_domains") /\ e[1] # "learn_classified_domain"} = {}
LearnUsable(c) == CallsUsable(c, "learn_classified_domain", {LearnChain(DynamicRoute(c))})

DynamicFields == {"dynamic_enabled", "dynamic_route", "dynamic_learn"}
Learners(c) == {chain \in {"direct_ip", "ip_requery_proxy"} : Positions(Seqn(c, chain), Call("learn_classified_domain")) # {}}
DynamicState(c, changes, state) ==
  [route |-> Given(changes, "dynamic_route", IF DynamicOn(c) THEN DynamicRoute(c) ELSE state.route),
   learn |-> Given(changes, "dynamic_learn", IF DynamicOn(c) THEN Learners(c) # {} ELSE state.learn)]

\* The call keeps its place, or goes before the probe, or before the last entry.
RouteDynamic(c, main, on, route) ==
  LET previous == FirstAt(main, LAMBDA x : x.when = "dynamic_domains", 0)
      rest == IF previous = 0 THEN main ELSE RemoveAt(main, previous)
      at == IF previous # 0 THEN previous
            ELSE FirstAt(rest, LAMBDA x : x = Item("", "jump", "local_probe"), IF rest = <<>> THEN 1 ELSE Len(rest))
  IN Put(c, "sequence_main", IF on THEN InsertAt(rest, at, DynamicCall(route)) ELSE rest)
Unlearn(c, chains) ==
  FoldLeft(LAMBDA x, chain : Put(x, chain, DropItems(Seqn(x, chain), Call("learn_classified_domain"))), c, SetToSeq(chains))
LearnIn(c, chain) ==
  Put(c, chain, InsertAt(Seqn(c, chain), IF Seqn(c, chain) = <<>> THEN 1 ELSE Len(Seqn(c, chain)), Call("learn_classified_domain")))
Learning(c, on, state) ==
  IF on /\ state.learn THEN LearnIn(EnsureDefault(c, "learn_classified_domain"), LearnChain(state.route)) ELSE c
Routing(c, changes, on, route) ==
  IF DOMAIN changes \cap {"dynamic_enabled", "dynamic_route"} = {} THEN c ELSE RouteDynamic(c, Seqn(c, "sequence_main"), on, route)
SetDynamic(c, changes, on, state) ==
  LET parked == Park(c, "dynamic_domain_set_state", state)
  IN Learning(Unlearn(Routing(IF on THEN EnsureDefault(parked, "dynamic_domains") ELSE parked, changes, on, state.route), Learners(c)), on, state)
PatchDynamic(c, changes) ==
  IF DOMAIN changes \cap DynamicFields = {} THEN c
  ELSE SetDynamic(c, changes, Given(changes, "dynamic_enabled", DynamicOn(c)),
                  DynamicState(c, changes, Kept(c, "dynamic_domain_set_state", [route |-> "direct", learn |-> FALSE])))

(***************************************************************************)
(* Files: hosts, AdGuard subscriptions                                     *)
(***************************************************************************)

FileTags == {"adguard_rules", "rule_set", "own_rules", "custom_hosts"}
FilesInUse(c) == UNION {c.plugins[tag].files : tag \in FileTags \cap DOMAIN c.plugins}
LibraryFiles == {"s1"}
\* resource_downloads
ResourceDownloads(c) == FilesInUse(c) \cap (LibraryFiles \cup c.urls)
FileProviders(c) == {tag \in {"adguard_rules", "rule_set", "own_rules"} \cap DOMAIN c.plugins : c.plugins[tag].files # {}}

HostsUsable(c) == CallsUsable(c, "custom_hosts", {"sequence_main"}) /\ StoredArgs(c, "custom_hosts").files \subseteq {"hosts"}
PatchHosts(c, changes) ==
  IF "custom_hosts" \notin DOMAIN changes THEN c
  ELSE LET a == [c EXCEPT !.parked = Without(@, "native_hosts_source")]
           main == Seqn(c, "sequence_main")
           at == FirstAt(main, LAMBDA x : x \notin {Word("metrics"), Call("query_recorder"), Word("prefer_ipv4")} /\ x.when # "qtype", 1)
           called == FirstAt(main, LAMBDA x : x = Call("custom_hosts"), 0)
           uncalled == IF called = 0 THEN main
                       ELSE LET r == RemoveAt(main, called) IN IF called <= Len(r) /\ r[called] = Accept THEN RemoveAt(r, called) ELSE r
       IN IF changes.custom_hosts # ""
          THEN LET e == Put(a, "custom_hosts", [files |-> {"hosts"}])
               IN [Put(e, "sequence_main", IF called # 0 THEN main ELSE InsertAt(InsertAt(main, at, Accept), at, Call("custom_hosts")))
                     EXCEPT !.hosts = changes.custom_hosts]
          ELSE LET e == IF Has(c, "custom_hosts") THEN Put(Put(a, "custom_hosts", [files |-> {}]), "sequence_main", uncalled) ELSE a
               IN [IF References(e, {"custom_hosts"}) = {} THEN ParkPlugin(e, "custom_hosts") ELSE e EXCEPT !.hosts = ""]

AdguardPlugins == <<"adguard_rules", "adguard_reject", "adguard_block">>
AdguardOn(c) == Positions(Seqn(c, "sequence_main"), AdguardCall) # {}
AdguardUsable(c) ==
  /\ \A tag \in ToSet(AdguardPlugins) : ~Aliased(c, tag)
  /\ Has(c, "adguard_reject") => Seqn(c, "adguard_reject") = DefaultArgs.adguard_reject
  /\ Cardinality(Positions(Seqn(c, "sequence_main"), AdguardCall)) <= 1
  /\ {e \in References(c, ToSet(AdguardPlugins)) :
        ~(e[1] = "sequence_main" /\ e[2] = AdguardCall) /\ e[1] # "adguard_reject" /\ e[3] # Environment
        /\ ~(e[1] = "rules_reload" /\ e[3] = "adguard_rules")} = {}
  /\ References(c, {}) = {}
AdguardFilesUsable(c) == StoredArgs(c, "adguard_rules").files \subseteq c.urls \cup {"custom"}
AdguardUrls(c) == StoredArgs(c, "adguard_rules").files \cap c.urls

AdguardFields == {"adguard_enabled", "adguard_urls", "adguard_mode"}
\* The subscriptions: their files are the provider's, and a source a provider of one's own still reads is kept.
AdguardSources(c, changes) ==
  LET restored == IF "adguard_enabled" \in DOMAIN changes /\ changes.adguard_enabled /\ "adguard_rules" \in DOMAIN c.parked
                  THEN EnsureDefault(c, "adguard_rules") ELSE c
      urls == IF "adguard_urls" \in DOMAIN changes THEN changes.adguard_urls ELSE AdguardUrls(c)
      e == Put(EnsureDefault(restored, "adguard_rules"), "adguard_rules", [files |-> urls])
  IN IF "adguard_urls" \in DOMAIN changes \/ ("adguard_enabled" \in DOMAIN changes /\ changes.adguard_enabled /\ ~Has(restored, "adguard_rules"))
     THEN [e EXCEPT !.urls = urls \cup (c.urls \cap FilesInUse(e))] ELSE restored
AdguardCalls(c, changes) ==
  LET main == Seqn(c, "sequence_main")
      at == FirstAt(main, LAMBDA x : x.do \in {"goto", "jump"}, IF main = <<>> THEN 1 ELSE Len(main))
      e == FoldLeft(EnsureDefault, c, <<"adguard_block", "adguard_reject">>)
  IN IF "adguard_enabled" \notin DOMAIN changes THEN c
     ELSE IF ~changes.adguard_enabled THEN Put(c, "sequence_main", DropItems(main, AdguardCall))
     ELSE IF AdguardOn(c) THEN e ELSE Put(e, "sequence_main", InsertAt(main, at, AdguardCall))
AdguardParked(c) ==
  IF AdguardOn(c) \/ ~AdguardUsable(c) THEN c
  ELSE LET p == ParkPlugins(c, AdguardPlugins)
       IN IF Has(p, "rules_reload") THEN Put(p, "rules_reload", [providers |-> p.plugins["rules_reload"].providers \ {"adguard_rules"}]) ELSE p
\* The downloads follow the subscriptions; every other entry stays.
AdguardDownloads(c, changes, old) ==
  IF DOMAIN changes \cap {"adguard_enabled", "adguard_urls"} = {} \/ ~Has(c, "rules_download") THEN c
  ELSE LET known == old \cup c.urls
           d == Put(c, "rules_download", [c.plugins["rules_download"] EXCEPT !.downloads = (@ \ known) \cup (ResourceDownloads(c) \cap known)])
       IN IF Has(d, "rules_reload") /\ Has(d, "adguard_rules")
          THEN Put(d, "rules_reload", [providers |-> d.plugins["rules_reload"].providers \cup {"adguard_rules"}]) ELSE d

PatchAdguard(c, changes) ==
  IF DOMAIN changes \cap AdguardFields = {} THEN c
  ELSE LET s == AdguardSources(c, changes)
           m == IF "adguard_mode" \in DOMAIN changes THEN Put(s, "adguard_block", [mode |-> changes.adguard_mode]) ELSE s
       IN AdguardDownloads(AdguardParked(AdguardCalls(m, changes)), changes, c.urls)

(***************************************************************************)
(* The scheduled update of the files                                       *)
(***************************************************************************)

Pipeline == <<"rules_download", "rules_reload", "rules_refresh">>
RefreshJob == [name |-> "refresh_rules", executors |-> {"rules_refresh"}, schedule |-> "daily"]
Jobs(c) == IF Has(c, "rules_cron") THEN c.plugins["rules_cron"].jobs ELSE {}
ManagedJobs(c) == {job \in Jobs(c) : job.name = "refresh_rules" \/ "rules_refresh" \in job.executors}

\* _cron_job, _managed_jobs: a job of one's own that runs the refresh makes the switch unusable.
JobsUsable(c) == /\ Cardinality(ManagedJobs(c)) <= 1
                 /\ \A job \in ManagedJobs(c) : job.name = "refresh_rules" /\ job.executors = {"rules_refresh"}
CronUsable(c) == JobsUsable(c) /\ \A tag \in ToSet(Pipeline) \cup {"rules_cron"} : ~Aliased(c, tag)
SetJobs(c, jobs) == Put(c, "rules_cron", [c.plugins["rules_cron"] EXCEPT !.jobs = jobs])
ParkEmptyCron(c) == IF Has(c, "rules_cron") /\ Jobs(c) = {} THEN ParkPlugin(c, "rules_cron") ELSE c

\* _external_references
CalledFromOutside(c, targets, jobs) ==
  \/ References(c, {}) # {}
  \/ \E e \in References(c, targets) : e[1] \notin targets /\ ~(e[1] = "rules_cron" /\ \E job \in jobs : e[2] = Word(job.name))

Targets(c) == ToSet(Pipeline) \cap DOMAIN c.plugins
Canonical(c) == Has(c, "rules_refresh") => Seqn(c, "rules_refresh") \in {Refresh, DownloadOnly, <<>>}

StopPipeline(c, targets) ==
  IF ~Canonical(c) \/ ~JobsUsable(c) \/ CalledFromOutside(c, targets, ManagedJobs(c)) THEN Fail(c)
  ELSE LET managed == ManagedJobs(c)
           p == IF managed = {} THEN c ELSE SetJobs(Park(c, "rules_cron_job", CHOOSE job \in managed : TRUE), Jobs(c) \ managed)
       IN ParkEmptyCron(ParkPlugins(p, SelectSeq(Pipeline, LAMBDA tag : tag \in targets)))

\* _providers: those that still exist, then every provider that loads files.
Providers(c, existing) == (existing \cap DOMAIN c.plugins) \cup FileProviders(c)
SetReload(c, providers) == Put(c, "rules_reload", [providers |-> providers])

\* prepare_rule_update: what comes back downloads what is in use now and the entries a person added.
Downloads(c, stored) == ResourceDownloads(c) \cup Kept(c, "rules_download_custom_entries", {})
Returns(c, tag) == ~Has(c, tag) /\ tag \in DOMAIN c.parked
ReturnDownload(c) ==
  IF ~Returns(c, "rules_download") THEN c
  ELSE Put(c, "rules_download", [c.parked["rules_download"] EXCEPT !.downloads = Downloads(c, c.parked["rules_download"])])
ReturnReload(c) ==
  IF Returns(c, "rules_reload") THEN SetReload(c, Providers(c, c.parked["rules_reload"].providers)) ELSE c
ReturnRefresh(c) ==
  IF ~Returns(c, "rules_refresh") THEN c
  ELSE Put(c, "rules_refresh", IF c.parked["rules_refresh"] = <<>> THEN Refresh ELSE c.parked["rules_refresh"])
ReloadsAgain(c) ==
  IF Has(c, "rules_refresh") /\ Seqn(c, "rules_refresh") = DownloadOnly /\ Has(c, "rules_reload") /\ c.plugins["rules_reload"].providers # {}
  THEN Put(c, "rules_refresh", Refresh) ELSE c
PrepareUpdate(c) == ReloadsAgain(ReturnRefresh(ReturnReload(ReturnDownload(c))))

Reloading(c) == Ensure(c, "rules_reload", [providers |-> FileProviders(c)])
Scheduling(c, job) == SetJobs(c, Jobs(c) \cup {job})
EnableUpdate(c) ==
  IF ResourceDownloads(c) = {} THEN Fail(c)
  ELSE Scheduling(EnsureDefault(EnsureDefault(
         Reloading(Ensure(c, "rules_download", [DefaultArgs.rules_download EXCEPT !.downloads = ResourceDownloads(c)])),
         "rules_refresh"), "rules_cron"), Kept(c, "rules_cron_job", RefreshJob))
DisableUpdate(c, jobs) == SetJobs(Park(c, "rules_cron_job", CHOOSE job \in jobs : TRUE), Jobs(c) \ jobs)

UpdateFields == {"update_enabled", "update_schedule", "update_timezone"}
TouchesUpdate(changes) == DOMAIN changes \cap (UpdateFields \cup {"update_timeout"}) # {}
Asks(changes, field, value) == field \in DOMAIN changes /\ changes[field] = value

\* The steps of _patch_rule_update, in their order: the scheduler back, the switch, the schedule, the time zone.
CronReturns(c, changes) ==
  IF (Asks(changes, "update_enabled", TRUE) \/ "update_timezone" \in DOMAIN changes) /\ Returns(c, "rules_cron")
  THEN EnsureDefault(c, "rules_cron") ELSE c
SwitchUpdate(c, changes) ==
  CASE Asks(changes, "update_enabled", TRUE) /\ ManagedJobs(c) = {} -> EnableUpdate(c)
    [] Asks(changes, "update_enabled", FALSE) /\ ManagedJobs(c) # {} -> DisableUpdate(c, ManagedJobs(c))
    [] OTHER -> c
SetSchedule(c, changes) ==
  IF "update_schedule" \notin DOMAIN changes THEN c
  ELSE IF ManagedJobs(c) # {}
  THEN SetJobs(c, (Jobs(c) \ ManagedJobs(c)) \cup {[job EXCEPT !.schedule = changes.update_schedule] : job \in ManagedJobs(c)})
  ELSE Park(c, "rules_cron_job", [Kept(c, "rules_cron_job", RefreshJob) EXCEPT !.schedule = changes.update_schedule])
WithTimezone(c, timezone) == Put(c, "rules_cron", [c.plugins["rules_cron"] EXCEPT !.timezone = timezone])
SetTimezone(c, changes) ==
  IF "update_timezone" \in DOMAIN changes THEN WithTimezone(EnsureDefault(c, "rules_cron"), changes.update_timezone) ELSE c
PatchUpdate(c, changes) ==
  IF ~TouchesUpdate(changes) THEN c
  ELSE ParkEmptyCron(SetTimezone(SetSchedule(SwitchUpdate(CronReturns(
         IF Asks(changes, "update_enabled", TRUE) THEN PrepareUpdate(c) ELSE c, changes), changes), changes), changes))

\* finish_rule_updates: an update nothing schedules, or that has nothing left to load, is put aside.
Unscheduled(c) == /\ JobsUsable(c) /\ ManagedJobs(c) = {} /\ Targets(c) # {} /\ Canonical(c)
                  /\ ~CalledFromOutside(c, Targets(c), {})
PutAside(c) ==
  LET managed == ResourceDownloads(c) \cup Kept(c, "rules_download_managed_paths", {})
      p == IF Has(c, "rules_download")
           THEN Park(Park(c, "rules_download_managed_paths", managed), "rules_download_custom_entries", c.plugins["rules_download"].downloads \ managed) ELSE c
  IN StopPipeline(p, Targets(p))

RemoveEmptyReload(c) ==
  IF (Has(c, "rules_refresh") /\ Seqn(c, "rules_refresh") \notin {Refresh, DownloadOnly})
     \/ (\E e \in Edges(c) : e[3] = "rules_reload" /\ e[1] \notin {"rules_reload", "rules_refresh"}) THEN Fail(c)
  ELSE LET p == ParkPlugin(c, "rules_reload")
       IN IF Has(p, "rules_refresh") THEN Put(Park(p, "rules_refresh", Seqn(p, "rules_refresh")), "rules_refresh", DownloadOnly) ELSE p

FinishUpdates(c, changes) ==
  LET has == [tag \in ToSet(Pipeline) |-> Has(c, tag)]
      download == IF has["rules_download"] THEN c.plugins["rules_download"].downloads ELSE {}
      reload == IF has["rules_reload"] THEN c.plugins["rules_reload"].providers ELSE {}
      noDownload == has["rules_download"] /\ download = {}
      noRefresh == has["rules_refresh"] /\ Seqn(c, "rules_refresh") = <<>>
      saved == Kept(c, "rules_reload", [providers |-> {}]).providers
  IN IF ~TouchesUpdate(changes) /\ DOMAIN changes \cap AdguardFields = {} THEN c
     ELSE IF TouchesUpdate(changes) /\ Unscheduled(c) THEN PutAside(c)
     ELSE IF noDownload \/ noRefresh THEN StopPipeline(c, IF noRefresh /\ ~noDownload /\ reload # {} THEN {"rules_refresh"} ELSE Targets(c))
     ELSE IF has["rules_reload"] /\ reload = {} THEN IF download # {} THEN RemoveEmptyReload(c) ELSE StopPipeline(c, Targets(c))
     ELSE IF has["rules_download"] /\ ~has["rules_reload"] /\ "rules_reload" \in DOMAIN c.parked /\ Providers(c, saved) # {}
     THEN LET r == SetReload(c, Providers(c, saved))
          IN IF has["rules_refresh"] /\ Seqn(r, "rules_refresh") = DownloadOnly THEN Put(r, "rules_refresh", Refresh) ELSE r
     ELSE c

(***************************************************************************)
(* _read: the values a person sees, or would see were the feature on       *)
(***************************************************************************)

MainFields == DOMAIN MainItem
ApiFields == {"api_listen", "api_user", "webui_root"}
Dump(c) == StoredArgs(c, "lazy_cache").dump
ApiKept(c) == IF c.api.on THEN c.api ELSE Kept(c, "api_http", NoApi)
Value(c, field) ==
  CASE field \in DOMAIN SwitchOf -> IsCalled(c, SwitchOf[field])
    [] field \in DOMAIN OptionOf -> StoredArgs(c, OptionOf[field][1])[OptionOf[field][2]]
    [] field \in MainFields -> MainOn(c, field)
    [] field = "remote_ttl" -> Positions(Seqn(c, "remote_dns"), Word("ttl 60")) # {}
    [] field = "fallback_dns" -> IF ~FallbackIsOn(c) /\ FallbackUsable(c) THEN "" ELSE StoredArgs(c, "forward_fallback").upstreams
    [] field = "listen" -> c.plugins["server_udp"].listen
    [] field = "tcp_enabled" -> Has(c, "server_tcp")
    [] field = "api_enabled" -> c.api.on
    [] field = "api_listen" -> ApiKept(c).listen
    [] field = "api_user" -> ApiKept(c).user
    [] field = "webui_root" -> ApiKept(c).root
    [] field = "dump_enabled" -> Dump(c) # ""
    [] field = "dump_file" -> IF Dump(c) # "" THEN Dump(c) ELSE DumpFile(c)
    [] field = "dump_interval" -> IF Dump(c) # "" THEN StoredArgs(c, "lazy_cache").interval ELSE Kept(c, "cache_dump_interval", 600)
    [] field = "route_tls" -> StoredArgs(c, "ros_route").tls
    [] field = "dynamic_enabled" -> DynamicOn(c)
    [] field = "dynamic_route" -> IF DynamicOn(c) THEN DynamicRoute(c) ELSE Kept(c, "dynamic_domain_set_state", [route |-> "direct"]).route
    [] field = "dynamic_learn" -> IF DynamicOn(c) THEN LearnOn(c) ELSE Kept(c, "dynamic_domain_set_state", [learn |-> FALSE]).learn
    [] field = "adguard_enabled" -> AdguardOn(c)
    [] field = "adguard_urls" -> AdguardUrls(c)
    [] field = "adguard_mode" -> StoredArgs(c, "adguard_block").mode
    [] field = "custom_hosts" -> IF Has(c, "custom_hosts") /\ "hosts" \in c.plugins["custom_hosts"].files THEN c.hosts ELSE ""
    [] field = "update_enabled" -> ManagedJobs(c) # {}
    [] field = "update_schedule" -> LET jobs == ManagedJobs(c)
                                    IN (IF jobs # {} THEN CHOOSE job \in jobs : TRUE ELSE Kept(c, "rules_cron_job", RefreshJob)).schedule
    [] field = "update_timezone" -> StoredArgs(c, "rules_cron").timezone

\* The capabilities: which controls may be used.
Editable(c, field, changes) ==
  CASE field \in DOMAIN SwitchOf -> CallsUsable(c, SwitchOf[field], FeatureChains[SwitchOf[field]])
    [] field \in {"fallback_dns", "fallback_threshold"} -> FallbackUsable(c)
    [] field \in DOMAIN OptionOf -> ~Aliased(c, OptionOf[field][1])
    [] field \in {"listen", "tcp_enabled"} -> ListenersAgree(c)
    [] field \in ApiFields -> c.api.on \/ ("api_enabled" \in DOMAIN changes /\ changes.api_enabled)
    [] field \in DumpFields -> ~Aliased(c, "lazy_cache")
    [] field = "route_tls" -> ~Aliased(c, "ros_route")
    [] field \in {"dynamic_enabled", "dynamic_route"} ->
         DynamicUsable(c) /\ (LearnOn(c) => LearnUsable(c))
    [] field = "dynamic_learn" -> LearnUsable(c)
    [] field = "adguard_enabled" -> AdguardUsable(c)
    [] field = "adguard_urls" -> ~Aliased(c, "adguard_rules") /\ AdguardFilesUsable(c)
    [] field = "adguard_mode" -> ~Aliased(c, "adguard_block")
    [] field = "custom_hosts" -> HostsUsable(c)
    [] field \in UpdateFields -> CronUsable(c)
    [] OTHER -> TRUE

(***************************************************************************)
(* apply_common_settings                                                   *)
(***************************************************************************)

PatchField(c, field, value) ==
  CASE field \in DOMAIN OptionOf ->
         LET e == EnsureDefault(c, OptionOf[field][1])
         IN Put(e, OptionOf[field][1], [e.plugins[OptionOf[field][1]] EXCEPT ![OptionOf[field][2]] = value])
    [] field \in ApiFields -> PatchApi(c, field, value)
    [] field \in MainFields -> PatchMain(c, field, value)
    [] field = "remote_ttl" -> PatchTtl(c, value)
    [] field = "fallback_dns" -> Put(c, "forward_fallback", [c.plugins["forward_fallback"] EXCEPT !.upstreams = value])
    [] field = "listen" -> PatchListen(c, value)
    [] field = "tcp_enabled" -> PatchTcp(c, value)
    [] field = "route_tls" -> LET e == EnsureDefault(c, "ros_route") IN Put(e, "ros_route", [tls |-> value])
    [] OTHER -> c

\* _park_disabled_features: an option of a feature that is off brings its plugin back only while it is written.
FeatureFields(tag) ==
  {f \in DOMAIN SwitchOf : SwitchOf[f] = tag} \cup {f \in DOMAIN OptionOf : OptionOf[f][1] = tag}
  \cup (IF tag = "lazy_cache" THEN DumpFields ELSE IF tag = "ros_route" THEN {"route_tls"} ELSE {})
ParkIdle(c, changes) ==
  FoldLeft(LAMBDA x, s : LET tag == SwitchOf[s] IN
                         IF FeatureFields(tag) \cap DOMAIN changes # {} /\ ~IsCalled(x, tag) /\ CallsUsable(x, tag, FeatureChains[tag])
                         THEN ParkPlugin(x, tag) ELSE x, c, Switches)
ParkDynamic(c) == IF ~DynamicOn(c) /\ DynamicUsable(c) THEN ParkPlugin(c, "dynamic_domains") ELSE c
ParkLearner(c) == IF References(c, {"learn_classified_domain"}) = {} THEN ParkPlugin(c, "learn_classified_domain") ELSE c
ParkIdleDynamic(c, changes) ==
  IF DOMAIN changes \cap (DynamicFields \cup {"dynamic_size"}) # {} /\ DynamicUsable(c) THEN ParkDynamic(ParkLearner(c)) ELSE c
ParkDisabled(c, changes) == ParkIdleDynamic(ParkIdle(c, changes), changes)

PatchFields(c, changes) ==
  FoldLeft(LAMBDA x, field : PatchField(x, field, changes[field]), c, SetToSeq(DOMAIN changes))
PatchSwitches(c, changes) ==
  FoldLeft(LAMBDA x, s : IF s \in DOMAIN changes THEN ToggleCall(x, SwitchOf[s], changes[s]) ELSE x, c, Switches)
ApiFirst(c, changes) == IF "api_enabled" \in DOMAIN changes THEN PatchApi(c, "api_enabled", changes.api_enabled) ELSE c
Apply(c, changes) ==
  FinishUpdates(ParkDisabled(FinishFallback(PatchFields(PatchDump(PatchUpdate(PatchAdguard(PatchHosts(PatchDynamic(
    PatchSwitches(ApiFirst(IF TouchesFallback(changes) THEN PrepareFallback(c) ELSE c, changes), changes),
    changes), changes), changes), changes), changes), changes), changes, c), changes), changes)

(***************************************************************************)
(* Edits                                                                   *)
(***************************************************************************)

OnNow(c) == {s \in DOMAIN SwitchOf : IsCalled(c, SwitchOf[s])}
Chains(c) == [chain \in UNION {FeatureChains[tag] : tag \in DOMAIN FeatureChains} |-> Seqn(c, chain)]
\* A chain edited otherwise while one of its features is off is compared with nothing: the remembered order is older.
Snapshot(c) == [on |-> IF \A chain \in DOMAIN Kept(c, "feature_calls", <<>>) : c.parked["feature_calls"][chain].disabled = {}
                       THEN OnNow(c) ELSE {"nothing"}, chains |-> Chains(c)]

CommonEdit ==
  \E changes \in session.changes : \E next \in {Apply(draft, changes)} :
       /\ edited < MaxCommonEdits
       /\ \A field \in DOMAIN changes : Editable(draft, field, changes)
       /\ next.ok /\ next # draft /\ draft' = next
       /\ origin' = IF DOMAIN changes \subseteq DOMAIN SwitchOf THEN origin ELSE Snapshot(next)
       /\ asked' = changes /\ edited' = edited + 1 /\ UNCHANGED session

\* By hand: a call of one's own, a job, a download, a provider, a listener, a step, a variable, the rules' file given up.
OwnItem(tag) == Item("own", "$", tag)
Hand(c, name) ==
  CASE name \in DOMAIN FeatureChains \cup {"fallback", "adguard_block"} ->
         Put(c, "sequence_main", IF Positions(Seqn(c, "sequence_main"), OwnItem(name)) = {} THEN InsertAt(Seqn(c, "sequence_main"), 1, OwnItem(name))
                                 ELSE DropItems(Seqn(c, "sequence_main"), OwnItem(name)))
    [] name = "variable" -> Put(c, "sequence_main", IF References(c, {}) = {} THEN InsertAt(Seqn(c, "sequence_main"), 1, OwnItem(Environment))
                                                    ELSE DropItems(Seqn(c, "sequence_main"), OwnItem(Environment)))
    [] name = "step" -> Put(c, "china_dns", InsertAt(Seqn(c, "china_dns"), 2, Word("own")))
    [] name = "job" -> Put(c, "rules_cron", [StoredArgs(c, "rules_cron") EXCEPT !.jobs = Jobs(c) \cup {[name |-> "mine", executors |-> {"flush"}, schedule |-> "weekly"]}])
    [] name = "refresh" -> SetJobs(c, Jobs(c) \cup {[name |-> "mine", executors |-> {"rules_refresh"}, schedule |-> "weekly"]})
    [] name = "download" -> Put(c, "rules_download", [c.plugins["rules_download"] EXCEPT !.downloads = @ \cup {"own"}])
    [] name = "provider" -> Put(c, "own_rules", [files |-> {"u1"}])
    [] name = "listener" -> Put(c, "server_tcp", [c.plugins["server_udp"] EXCEPT !.listen = "own"])
    [] name = "no rules" -> LET r == [c EXCEPT !.plugins = Without(@, "rule_set")]
                                s == Put(r, "sequence_main", SelectSeq(Seqn(r, "sequence_main"), LAMBDA x : x.when # "rule_set"))
                            IN IF Has(s, "rules_reload") THEN SetReload(s, s.plugins["rules_reload"].providers \ {"rule_set"}) ELSE s

Needs(name) == CASE name \in DOMAIN FeatureChains \cup {"fallback", "adguard_block"} -> {name}
                 [] name = "refresh" -> {"rules_cron", "rules_refresh"}
                 [] name = "download" -> {"rules_download"}
                 [] OTHER -> {}

EditByHand ==
  \E name \in session.hands :
    /\ edited < MaxCommonEdits /\ Needs(name) \subseteq DOMAIN draft.plugins
    /\ draft' = Hand(draft, name) /\ draft' # draft
    /\ origin' = Snapshot(draft') /\ asked' = <<>> /\ edited' = edited + 1 /\ UNCHANGED session

\* generate_oxidns_config: the document a person starts from, with every feature of the settings or without any.
GeneratedArgs(tag) ==
  CASE tag = "lazy_cache" -> [size |-> 2, dump |-> "f", interval |-> 5]
    [] tag = "forward_fallback" -> [upstreams |-> "x"]
    [] tag = "adguard_rules" -> [files |-> {"u1"}]
    [] tag = "rules_download" -> [downloads |-> {"s1", "u1"}, timeout |-> 30]
    [] tag = "rules_reload" -> [providers |-> {"rule_set", "adguard_rules"}]
    [] tag = "rules_cron" -> [timezone |-> "Asia", jobs |-> {RefreshJob}]
    [] OTHER -> DefaultArgs[tag]
Generated(full) ==
  LET If(items) == IF full THEN items ELSE <<>>
      tags == IF full THEN DOMAIN DefaultArgs \ {"custom_hosts"} ELSE {"forward_local"}
      chains == [sequence_main |-> If(<<Word("metrics"), Call("query_recorder")>>) \o <<Word("prefer_ipv4")>> \o If(<<MainItem.block_qtypes>>)
                                   \o <<Item("rule_set", "goto", "china_dns")>> \o If(<<AdguardCall, DynamicCall("proxy")>>)
                                   \o <<Item("", "jump", "local_probe"), Item("", "goto", "proxy_dns_seq")>>,
                 china_dns |-> If(<<Call("ip_selector"), Call("ros_route"), Call("lazy_cache")>>) \o <<Call("forward_local"), Word("accept")>>,
                 direct_ip |-> If(<<Call("ip_selector"), Call("ros_route")>>) \o <<Word("accept")>>,
                 default_direct_ip |-> If(<<Call("ros_route"), Call("ip_selector")>>) \o <<Word("accept")>>,
                 ip_requery_proxy |-> If(<<Call("learn_classified_domain")>>) \o <<Item("", "goto", "proxy_dns_seq")>>,
                 local_probe |-> If(<<Call("local_probe_cache")>>) \o <<Call("forward_local")>>,
                 remote_dns |-> <<Word("forward"), Word("ttl 60")>>, proxy_dns_seq |-> IF full THEN FallbackOn ELSE FallbackOff]
  IN [ok |-> TRUE, parked |-> <<>>, renamed |-> <<>>, urls |-> IF full THEN {"u1"} ELSE {}, hosts |-> "",
      api |-> IF full THEN [on |-> TRUE, listen |-> "9199", user |-> "", root |-> "/ui", index |-> "own.html"] ELSE NoApi,
      plugins |-> chains @@ [tag \in tags |-> GeneratedArgs(tag)]
                  @@ [rule_set |-> [files |-> {"s1"}], server_udp |-> [listen |-> "53", entry |-> "sequence_main"]]]

CommonInit ==
  /\ draft \in {Generated(TRUE), Generated(FALSE)} /\ session \in CommonSessions
  /\ origin = Snapshot(draft) /\ asked = <<>> /\ edited = 0

CommonNext == CommonEdit \/ EditByHand

CommonSpec == CommonInit /\ [][CommonNext]_commonVars

(***************************************************************************)
(* Properties                                                              *)
(***************************************************************************)

ReferenceNames == {"sequence_main"} \cup SequenceTags \cup DOMAIN DefaultArgs \cup {"rule_set"}

\* No edit of a control leaves a reference to a plugin that is not there: OxiDNS would refuse the whole document
\* (call_state, _fallback_state, _adguard_state, _external_references).
NothingDangles == {e[3] : e \in Edges(draft)} \cap ReferenceNames \subseteq DOMAIN draft.plugins

\* Switched off and on again in whatever order, the features stand in the chains where they stood (toggle_call), unless a
\* chain was edited by hand while one of its features was off.
OrderIsRestored == OnNow(draft) = origin.on => Chains(draft) = origin.chains

\* Nothing is fetched for a subscription that no provider loads any more, whatever was switched off meanwhile
\* (_patch_resources, prepare_rule_update).
WithdrawnStaysOut ==
  Has(draft, "rules_download") => draft.plugins["rules_download"].downloads \cap {"u1", "u2"} \subseteq FilesInUse(draft)

Fields == UNION {DOMAIN changes : changes \in session.changes}
ByControl == edited' # edited /\ asked' # <<>>
Answered(field) == \/ field \in DOMAIN asked' /\ asked'[field] = Value(draft', field)
                   \/ field \in DumpFields /\ "dump_file" \in DOMAIN asked' /\ asked'.dump_file = ""
                   \/ field = "update_enabled" /\ ResourceDownloads(draft') = {}

\* An edit does what was asked and changes nothing else a person can see or was told is kept; only a cache without a file
\* and an update with nothing left to load go off by themselves (apply_common_settings).
OnlyAskedChanges ==
  [][ByControl => \A field \in Fields : Answered(field) \/ (Value(draft', field) = Value(draft, field) /\ field \notin DOMAIN asked')]_commonVars

\* A person's own jobs and downloads survive every use of the controls, also while the update is switched off
\* (_managed_jobs, rules_download_custom_entries).
OwnWorkIsKept ==
  [][ByControl => /\ {job \in Jobs(draft) : job.name = "mine"} \subseteq Jobs(draft')
                  /\ Has(draft, "rules_download") /\ "own" \in draft.plugins["rules_download"].downloads
                        => "own" \in (IF Has(draft', "rules_download") THEN draft'.plugins["rules_download"].downloads
                                      ELSE Kept(draft', "rules_download_custom_entries", {}))]_commonVars
=============================================================================
