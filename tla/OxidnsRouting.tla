---------------------------- MODULE OxidnsRouting ----------------------------
(***************************************************************************)
(* The routing of an OxiDNS document: the template the panel generates from*)
(* the selected rules (backend/converters/oxidns.py), the controls that    *)
(* read it back and change it in place (common/oxidns_common_routing.py),  *)
(* the device policies put in front of it (common/oxidns_device_policy.py) *)
(* and edits of the whole document by hand.  The document is the source of *)
(* truth: Analyze recognises what it can, everything else is kept.         *)
(***************************************************************************)
EXTENDS Integers, Sequences, SequencesExt, FiniteSets, FiniteSetsExt, TLC

CONSTANTS
  OxiRules,      \* [id -> set of parts]: rules and rule sets of the library, "domain" and "ip"
  OxiSets,       \* those of them that are rule sets, loaded from a file
  OxiOrder,      \* their order
  OxiChanges,    \* what a person may ask of the controls: records of some of the values
  OxiPolicies,   \* device policies: sets of [clients, mode]
  OxiClients,
  OxiTemplates,  \* [dynamic, updates, values]: templates
  MaxOxiEdits    \* bound: edits of the document and the library

VARIABLES
  library,   \* [id -> "off", or the version of its value]
  document,  \* the native document
  asked,     \* the values the last edit of the controls should have led to; <<>> after any other edit
  edits

oxiVars == <<library, document, asked, edits>>

Route == {"direct", "proxy"}
Available == SelectSeq(OxiOrder, LAMBDA id : library[id] # "off")

(***************************************************************************)
(* _routing_groups: what the selected rules become.                        *)
(***************************************************************************)

\* One rule's share of a part: a file of its own, or its value.
Atom(id) == IF id \in OxiSets THEN <<id>> ELSE <<id, library[id]>>
Own(id) == [files |-> IF id \in OxiSets THEN <<Atom(id)>> ELSE <<>>, values |-> IF id \in OxiSets THEN <<>> ELSE <<Atom(id)>>]

Joined(a, b) == [files |-> a.files \o b.files, values |-> a.values \o b.values]

AddToGroups(groups, route, args, aggregate) ==
  IF aggregate /\ groups # <<>> /\ Last(groups).route = route
  THEN [groups EXCEPT ![Len(groups)].args = Joined(@, args)]
  ELSE Append(groups, [route |-> route, args |-> args])

RoutingGroups(routes, aggregate, part) ==
  LET selected == SelectSeq(Available, LAMBDA id : routes[id] \in Route /\ part \in OxiRules[id])
  IN FoldLeft(LAMBDA groups, id : AddToGroups(groups, routes[id], Own(id), aggregate), <<>>, selected)

(***************************************************************************)
(* The document: providers [tag -> [part, args]], the main sequence,       *)
(* callers (providers something else refers to), the helper sequences that *)
(* exist, the rule update's downloads and reloads, and the policy rows.    *)
(***************************************************************************)

Entry(match, tag, exec) == [match |-> match, tag |-> tag, exec |-> exec]
Helpers == {"china_dns", "proxy_dns_seq", "direct_ip", "ip_requery_proxy", "default_direct_ip", "local_probe"}
NoTag == <<"", 0, 0>>
Hook == Entry("always", NoTag, "cf_device_policy")
Prefix == <<Entry("always", NoTag, "prefer_ipv4"), Entry("qtype", NoTag, "reject 0")>>
Custom(c) == IF c = "block" THEN Entry("qtype", <<c, 0, 0>>, "reject 0") ELSE Entry("custom", <<c, 0, 0>>, c)
Probe == Entry("always", NoTag, "local_probe")
Dynamic == Entry("dynamic", NoTag, "proxy_dns_seq")
DomainEntry(tag, route) == Entry("qname", tag, IF route = "direct" THEN "china_dns" ELSE "proxy_dns_seq")
IpEntry(tag, route) == Entry("resp_ip", tag, IF route = "direct" THEN "direct_ip" ELSE "ip_requery_proxy")
Final(default) == Entry("always", NoTag, IF default = "local" THEN "china_dns" ELSE "proxy_dns_seq")
AfterIp(default) == IF default = "local" THEN Entry("has_resp", NoTag, "default_direct_ip") ELSE Entry("always", NoTag, "drop_resp")

Customs(names) == [i \in DOMAIN names |-> Custom(names[i])]

IpRegion(ip, default) == IF ip = <<>> THEN <<>> ELSE <<Probe>> \o ip \o <<AfterIp(default)>>

Main(prefix, customs, position, domain, dynamic, ip, default) ==
  prefix \o (IF position = "head" THEN customs \o domain ELSE domain \o customs)
  \o dynamic \o IpRegion(ip, default) \o <<Final(default)>>

Tagged(groups, part) == [i \in DOMAIN groups |-> [tag |-> <<part, i, 1>>, part |-> part, route |-> groups[i].route, args |-> groups[i].args]]
DomainEntries(groups) == [i \in DOMAIN groups |-> DomainEntry(groups[i].tag, groups[i].route)]
IpEntries(groups) == [i \in DOMAIN groups |-> IpEntry(groups[i].tag, groups[i].route)]
Tags(groups) == [i \in DOMAIN groups |-> groups[i].tag]
ProvidersOf(groups) == [t \in ToSet(Tags(groups)) |-> LET g == CHOOSE g \in ToSet(groups) : g.tag = t IN [part |-> g.part, args |-> g.args]]

\* get_oxidns_ruleset_downloads and resource_downloads: a file for every part of a rule set some provider loads.
FilesIn(providers) == UNION {{<<f[1], providers[t].part>> : f \in ToSet(providers[t].args.files)} : t \in DOMAIN providers}

\* generate_oxidns_config
Generated(template) ==
  LET v == template.values
      domain == Tagged(RoutingGroups(v.routes, v.aggregate, "domain"), "domain")
      ip == Tagged(RoutingGroups(v.routes, v.aggregate, "ip"), "ip")
      providers == ProvidersOf(domain \o ip)
  IN [providers |-> providers, callers |-> {}, helpers |-> Helpers, policies |-> {}, updates |-> template.updates,
      main |-> Main(Prefix, Customs(v.customs), v.position, DomainEntries(domain),
                    IF template.dynamic THEN <<Dynamic>> ELSE <<>>, IpEntries(ip), v.default),
      downloads |-> IF template.updates THEN FilesIn(providers) ELSE {},
      reload |-> IF template.updates THEN ToSet(Tags(domain \o ip)) ELSE {}]

(***************************************************************************)
(* _analyze                                                                *)
(***************************************************************************)

\* _prefix_end: the built-in steps in front, a hook of the device policies among them.
IsBuiltin(e) == \/ e = Hook
               \/ <<e.match, e.exec>> \in {<<"qtype", "reject 0">>, <<"always", "prefer_ipv4">>}
PrefixEnd(args) == Min({i \in 1 .. Len(args) + 1 : i = Len(args) + 1 \/ ~IsBuiltin(args[i])}) - 1

IsGroup(doc, e, kind) == /\ e.match = kind /\ e.tag \in DOMAIN doc.providers
                         /\ doc.providers[e.tag].part = (IF kind = "qname" THEN "domain" ELSE "ip")
                         /\ e.exec \in (IF kind = "qname" THEN {"china_dns", "proxy_dns_seq"} ELSE {"direct_ip", "ip_requery_proxy"})

GroupOf(doc, e) == [tag |-> e.tag, part |-> doc.providers[e.tag].part, args |-> doc.providers[e.tag].args,
                    route |-> IF e.exec \in {"china_dns", "direct_ip"} THEN "direct" ELSE "proxy"]
Described(groups) == [i \in DOMAIN groups |-> [route |-> groups[i].route, args |-> groups[i].args]]

\* _catalog: which available rules an expression or a file may stand for; twins share one.
Owners(atom) == {id \in ToSet(Available) : Atom(id) = atom}
Atoms(group) == ToSet(group.args.files \o group.args.values)

Analyze(doc) ==
  LET args == doc.main
      final == Last(args)
      default == IF final = Final("local") THEN "local" ELSE IF final = Final("remote") THEN "remote" ELSE "none"
      domain == SelectSeq(args, LAMBDA e : IsGroup(doc, e, "qname"))
      ip == SelectSeq(args, LAMBDA e : IsGroup(doc, e, "resp_ip"))
      dynamic == SelectSeq(args, LAMBDA e : e = Dynamic)
      middle == Min({i \in DOMAIN args : args[i] = Dynamic \/ IsGroup(doc, args[i], "resp_ip") \/ args[i] = Probe} \cup {Len(args)})
      suffix == dynamic \o IpRegion(ip, default) \o <<final>>
      prefix == PrefixEnd(SubSeq(args, 1, middle - 1))
      at == {i \in DOMAIN args : IsGroup(doc, args[i], "qname")}
      shape == /\ default # "none" /\ Len(dynamic) <= 1
               /\ SubSeq(args, middle, Len(args)) = suffix
               /\ \A i \in at : i > prefix /\ i < middle
      customs == {i \in prefix + 1 .. middle - 1 : i \notin at}
      between == /\ at # {} /\ customs # {}
                 /\ Max(customs) >= Min(at) /\ Min(customs) <= Max(at)
      valid == ~between /\ \A i \in customs : args[i].match # "always"
      groups == [i \in DOMAIN domain |-> GroupOf(doc, domain[i])] \o [i \in DOMAIN ip |-> GroupOf(doc, ip[i])]
      routes == [id \in DOMAIN OxiRules |->
                  LET g == SelectSeq(groups, LAMBDA x : library[id] # "off" /\ Atom(id) \in Atoms(x))
                  IN IF g = <<>> THEN "none" ELSE g[1].route]
      Same(aggregate) == \A part \in {"domain", "ip"} :
                           RoutingGroups(routes, aggregate, part) = Described(SelectSeq(groups, LAMBDA g : g.part = part))
      known == /\ valid
               /\ \A g \in ToSet(groups) : \A a \in Atoms(g) : Cardinality(Owners(a)) = 1
               /\ (Same(TRUE) \/ Same(FALSE))
  IN [shape |-> shape, valid |-> shape /\ valid, known |-> shape /\ known, groups |-> groups, dynamic |-> dynamic,
      prefix |-> SubSeq(args, 1, prefix), final |-> final, entries |-> [domain |-> domain, ip |-> ip],
      customs |-> SelectSeq(SubSeq(args, prefix + 1, middle - 1), LAMBDA e : ~IsGroup(doc, e, "qname")),
      values |-> [routes |-> routes, default |-> default,
                  customs |-> LET c == SelectSeq(SubSeq(args, prefix + 1, middle - 1), LAMBDA e : ~IsGroup(doc, e, "qname"))
                              IN [i \in DOMAIN c |-> c[i].tag[1]],
                  position |-> IF at # {} /\ customs # {} /\ Max(customs) < Min(at) THEN "head" ELSE "tail",
                  aggregate |-> IF ~known THEN "either" ELSE IF Same(TRUE) = Same(FALSE) THEN "either" ELSE IF Same(TRUE) THEN "yes" ELSE "no"]]

\* Which controls may be used: the capabilities.
Editable(a, field) ==
  CASE field = "default" -> a.shape
    [] field = "customs" -> a.valid
    [] field = "position" -> a.valid /\ a.customs # <<>>
    [] field = "routes" -> a.known
    [] OTHER -> a.known /\ a.values.aggregate # "either"

(***************************************************************************)
(* apply_routing                                                           *)
(***************************************************************************)

\* Fields that are not mentioned keep what was read.
Merged(a, changes) == [f \in DOMAIN a.values |-> IF f \in DOMAIN changes THEN changes[f] ELSE a.values[f]]

NewName(preferred, occupied) == IF preferred \notin occupied THEN preferred
                                ELSE LET free == {k \in 2 .. Cardinality(occupied) + 2 : <<preferred[1], preferred[2], k>> \notin occupied}
                                     IN <<preferred[1], preferred[2], Min(free)>>

\* A provider with the same content keeps its tag; a new one avoids every tag that exists.
Named(doc, a, wanted) ==
  FoldLeft(LAMBDA acc, g :
             LET same == SelectSeq(a.groups, LAMBDA o : o.tag \notin acc.retained /\ o.part = g.part /\ o.args = g.args)
                 tag == IF same # <<>> THEN same[1].tag ELSE NewName(g.tag, acc.occupied)
             IN [groups |-> Append(acc.groups, [g EXCEPT !.tag = tag]), occupied |-> acc.occupied \cup {tag},
                 retained |-> IF same # <<>> THEN acc.retained \cup {tag} ELSE acc.retained],
           [groups |-> <<>>, occupied |-> DOMAIN doc.providers, retained |-> {}], wanted)

\* Old providers that nothing else refers to are removed.
Removable(doc, a, named) == ({a.groups[i].tag : i \in DOMAIN a.groups} \ named.retained) \ doc.callers

\* _sync_updates: the reload list follows the providers, the downloads of library rule sets the files in use.
SyncUpdates(doc, a, groups, providers) ==
  IF ~doc.updates THEN doc
  ELSE LET old == {a.groups[i].tag : i \in DOMAIN a.groups}
           known == UNION {{<<id, p>> : p \in OxiRules[id]} : id \in {k \in OxiSets : library[k] # "off"}}
       IN [doc EXCEPT !.reload = ToSet(Tags(groups)) \cup {t \in @ : t \notin old \/ t \in DOMAIN providers},
                      !.downloads = (@ \ known) \cup (FilesIn(providers) \cap known)]

\* Rules, aggregation and whatever else is asked: the recognised regions are built again around the rest.
Rebuilt(doc, a, v) ==
  LET aggregate == v.aggregate # "no"
      wanted == Tagged(RoutingGroups(v.routes, aggregate, "domain"), "domain") \o Tagged(RoutingGroups(v.routes, aggregate, "ip"), "ip")
      named == Named(doc, a, wanted)
      domain == SelectSeq(named.groups, LAMBDA g : g.part = "domain")
      ip == SelectSeq(named.groups, LAMBDA g : g.part = "ip")
      kept == [t \in DOMAIN doc.providers \ Removable(doc, a, named) |-> doc.providers[t]]
      providers == ProvidersOf(named.groups) @@ kept
  IN SyncUpdates([doc EXCEPT !.providers = providers,
                             !.main = Main(a.prefix, Customs(v.customs), v.position, DomainEntries(domain), a.dynamic,
                                           IpEntries(ip), v.default)],
                 a, named.groups, providers)

\* Nothing about rules: the entries stay as they are.
Rearranged(doc, a, v) ==
  [doc EXCEPT !.main = Main(a.prefix, Customs(v.customs), v.position, a.entries.domain, a.dynamic, a.entries.ip, v.default)]

\* The helper sequences the new entries jump to must exist.  Of a change of the default alone, or with custom matches,
\* only the last entry is looked at: what stands before it jumps to default_direct_ip unseen.
Needed(doc, changes, result) ==
  (IF "default" \in DOMAIN changes THEN {Last(result.main).exec} ELSE {})
  \cup (IF DOMAIN changes \cap {"routes", "aggregate"} = {} THEN {}
        ELSE {result.main[i].exec : i \in {k \in DOMAIN result.main : result.main[k].match \in {"qname", "resp_ip", "has_resp"} \/ result.main[k] = Probe}})

\* Only the default: the last entry, and what stands between the addresses and it.
Switched(doc, a, v) ==
  LET n == Len(doc.main)
  IN [doc EXCEPT !.main = [i \in DOMAIN @ |-> IF i = n THEN Final(v.default)
                                              ELSE IF i = n - 1 /\ a.entries.ip # <<>> THEN AfterIp(v.default) ELSE @[i]]]

Routed(doc, a, v, changes) ==
  IF DOMAIN changes = {"default"} THEN Switched(doc, a, v)
  ELSE IF DOMAIN changes \cap {"routes", "aggregate"} # {} THEN Rebuilt(doc, a, v)
  ELSE Rearranged(doc, a, v)

ApplyRouting ==
  \E a \in {Analyze(document)}, changes \in OxiChanges :
    /\ \A f \in DOMAIN changes : Editable(a, f)
    /\ "routes" \in DOMAIN changes => \A id \in DOMAIN OxiRules : library[id] = "off" => changes.routes[id] = "none"
    /\ asked' = <<Merged(a, changes)>>
    /\ document' = Routed(document, a, asked'[1], changes)
    /\ Needed(document, changes, document') \subseteq document.helpers
    /\ edits' = edits + 1 /\ UNCHANGED library

(***************************************************************************)
(* Device policies                                                         *)
(***************************************************************************)

\* _policy_plugin: no plugin without a direct row; otherwise the narrowest row first.
HasPolicy(rows) == \E r \in rows : r.mode = "direct"
Narrowest(rows, client) == LET own == {r \in rows : client \in r.clients}
                           IN {r \in own : \A o \in own : Cardinality(r.clients) <= Cardinality(o.clients)}
PolicyDirect(rows, client) == \E r \in Narrowest(rows, client) : r.mode = "direct"

Hooks(args) == {i \in DOMAIN args : args[i] = Hook}

\* patch_document: refuses a changed chain, a moved or doubled hook and a name that is taken.
Unhooked(doc) == IF HasPolicy(doc.policies) THEN RemoveAt(doc.main, Min(Hooks(doc.main))) ELSE doc.main
Patchable(doc) ==
  /\ Last(doc.main) \in {Final("local"), Final("remote")}
  /\ Cardinality(Hooks(doc.main)) = (IF HasPolicy(doc.policies) THEN 1 ELSE 0)
  /\ HasPolicy(doc.policies) => Min(Hooks(doc.main)) = PrefixEnd(Unhooked(doc)) + 1

PatchDocument(doc, rows) ==
  LET args == Unhooked(doc)
  IN [doc EXCEPT !.policies = rows, !.main = IF HasPolicy(rows) THEN InsertAt(args, PrefixEnd(args) + 1, Hook) ELSE args]

ApplyPolicies ==
  /\ Patchable(document)
  /\ \E rows \in OxiPolicies \ {document.policies} : document' = PatchDocument(document, rows)
  /\ edits' = edits + 1 /\ UNCHANGED <<library, asked>>

(***************************************************************************)
(* Edits of the document by hand, and of the library                       *)
(***************************************************************************)

\* A custom match anywhere, another sequence that uses a provider, a helper nothing jumps to dropped, two entries exchanged.
InsertCustom(i) == document' = [document EXCEPT !.main = InsertAt(@, i, Custom("c1"))]
Exchange(i) == document' = [document EXCEPT !.main = [@ EXCEPT ![i] = document.main[i + 1], ![i + 1] = document.main[i]]]
CallProvider == \E t \in DOMAIN document.providers : document' = [document EXCEPT !.callers = @ \cup {t}]
DropHelper == \E h \in {"direct_ip", "local_probe", "default_direct_ip"} :
                /\ \A i \in DOMAIN document.main : document.main[i].exec # h
                /\ document' = [document EXCEPT !.helpers = @ \ {h}]

EditByHand ==
  /\ edits < MaxOxiEdits
  /\ CallProvider \/ DropHelper \/ (\E i \in 1 .. Len(document.main) - 1 : InsertCustom(i) \/ Exchange(i))
  /\ asked' = <<>> /\ edits' = edits + 1 /\ UNCHANGED library

EditLibrary ==
  /\ edits < MaxOxiEdits
  /\ \E id \in DOMAIN OxiRules : library' = [library EXCEPT ![id] = IF @ = "off" THEN "new" ELSE IF id \in OxiSets \/ @ = "new" THEN "off" ELSE "new"]
  /\ asked' = <<>> /\ edits' = edits + 1 /\ UNCHANGED document

OxiInit ==
  /\ library = [id \in DOMAIN OxiRules |-> "old"] /\ edits = 0
  /\ \E t \in OxiTemplates : /\ document = Generated(t)
                             /\ asked = <<[t.values EXCEPT !.aggregate = IF @ THEN "yes" ELSE "no"]>>

OxiNext == \/ edits < MaxOxiEdits /\ (ApplyRouting \/ ApplyPolicies)
           \/ EditByHand \/ EditLibrary

OxiSpec == OxiInit /\ [][OxiNext]_oxiVars

(***************************************************************************)
(* How OxiDNS runs the document: a query has a client, the rules its name  *)
(* and its domestic answer are of, the custom matches it meets and whether *)
(* its name was learned.                                                   *)
(***************************************************************************)

Meets(doc, q, group, ids) == \E id \in ids : library[id] # "off" /\ Atom(id) \in ToSet(doc.providers[group].args.files \o doc.providers[group].args.values)

Met(doc, q, i) ==
  LET e == doc.main[i]
      answered == \E j \in 1 .. i - 1 : doc.main[j] = Probe
  IN CASE e = Hook -> PolicyDirect(doc.policies, q.client)
       [] e.match = "always" -> e.exec \in {"china_dns", "proxy_dns_seq"}
       [] e.match = "qname" -> Meets(doc, q, e.tag, q.names)
       [] e.match = "resp_ip" -> answered /\ Meets(doc, q, e.tag, q.addresses)
       [] e.match = "has_resp" -> answered
       [] e = Dynamic -> q.learned
       [] OTHER -> e.tag[1] \in q.custom

Outcome(e) == CASE e = Hook -> "device"
                [] e.match = "custom" -> e.tag[1]
                [] e.exec \in {"china_dns", "direct_ip", "default_direct_ip"} -> "direct"
                [] OTHER -> "proxy"

Decide(doc, q) == Outcome(doc.main[Min({i \in DOMAIN doc.main : Met(doc, q, i)})])

OxiQueries == [client : OxiClients, names : {n \in SUBSET DOMAIN OxiRules : Cardinality(n) <= 2 /\ \A id \in n : "domain" \in OxiRules[id]},
               addresses : {n \in SUBSET DOMAIN OxiRules : Cardinality(n) <= 2 /\ \A id \in n : "ip" \in OxiRules[id]},
               custom : {{}, {"c1"}}, learned : BOOLEAN]

First(v, ids, part, otherwise) ==
  LET hits == SelectSeq(Available, LAMBDA id : id \in ids /\ part \in OxiRules[id] /\ v.routes[id] # "none")
  IN IF hits = <<>> THEN otherwise ELSE v.routes[hits[1]]

Expected(v, q) ==
  LET default == IF v.default = "local" THEN "direct" ELSE "proxy"
      byAddress == First(v, q.addresses, "ip", default)
      learned == IF q.learned /\ Dynamic \in ToSet(document.main) THEN "proxy" ELSE byAddress
      custom(otherwise) == IF ToSet(v.customs) \cap q.custom # {} THEN "c1" ELSE otherwise
  IN IF PolicyDirect(document.policies, q.client) THEN "device"
     ELSE IF v.position = "head" THEN custom(First(v, q.names, "domain", learned))
     ELSE First(v, q.names, "domain", custom(learned))

(***************************************************************************)
(* Properties                                                              *)
(***************************************************************************)

\* What the controls show as editable routing is what the document does with every query, edited by hand or not:
\* device policies first, explicit rules over learned names, names over answers, the library's order within each.
ShownIsDecided == \A a \in {Analyze(document)} :
                    a.known => \A q \in OxiQueries : Decide(document, q) = Expected(a.values, q)

\* A custom match that looks like one of the built-in steps is taken for one when it directly follows them.
Absorbed(v, domain) ==
  LET names == v.customs
      first == Min({i \in 1 .. Len(names) + 1 : i = Len(names) + 1 \/ names[i] # "block"})
  IN IF v.position = "head" \/ domain = <<>> THEN SubSeq(names, first, Len(names)) ELSE names

\* What was asked is what the controls show next, and so is what was not mentioned.
AskedIsRead ==
  asked # <<>> => \A a \in {Analyze(document)} :
    LET v == asked[1]
        r == a.values
    IN /\ a.shape /\ r.default = v.default
       /\ r.customs = Absorbed(v, a.entries.domain)
       /\ a.known => /\ r.routes = [id \in DOMAIN OxiRules |-> IF library[id] = "off" THEN "none" ELSE v.routes[id]]
                     /\ (v.aggregate = r.aggregate \/ "either" \in {r.aggregate, v.aggregate})
       /\ (r.customs # <<>> /\ a.entries.domain # <<>>) => r.position = v.position

\* Jumps to helper sequences that are not there.
Missing(doc) == {e \in ToSet(doc.main) : e.exec \in Helpers \ doc.helpers}

\* No edit leaves a reference to a provider without its target, whatever uses the providers besides the main sequence,
\* nor a jump to an absent helper sequence but the one OnlyTheDefaultDangles speaks of.
NothingDangles ==
  /\ \A e \in ToSet(document.main) : e.match \in {"qname", "resp_ip"} => e.tag \in DOMAIN document.providers
  /\ document.callers \cup document.reload \subseteq DOMAIN document.providers
  /\ Missing(document) \subseteq {AfterIp("local")}

\* That one, to default_direct_ip, arises only when the default is switched to local resolution: no edit of rules,
\* custom matches, policies or the library, by the controls or by hand, makes a jump into nothing.
OnlyTheDefaultDangles ==
  [][document' # document /\ Missing(document') # {} =>
       \/ Missing(document) # {}
       \/ Last(document.main) = Final("remote") /\ Last(document'.main) = Final("local")]_oxiVars

\* The scheduled update downloads the files in use and reloads all who load them.
UpdatesFollow ==
  document.updates /\ asked # <<>> =>
    /\ {f \in FilesIn(document.providers) : library[f[1]] # "off"} \subseteq document.downloads
    /\ {f \in document.downloads : library[f[1]] # "off"} \subseteq FilesIn(document.providers)
    /\ {document.main[i].tag : i \in {k \in DOMAIN document.main : document.main[k].match \in {"qname", "resp_ip"}}} \subseteq document.reload

\* The controls leave alone what is not theirs: the built-in steps and their hook, learned names, what others use.
OthersAreKept ==
  [][document' # document /\ ApplyRouting =>
                     /\ \E a \in {Analyze(document)} : Analyze(document').dynamic = a.dynamic /\ IsPrefix(a.prefix, document'.main)
                     /\ \A t \in document.callers : document'.providers[t] = document.providers[t]
                     /\ document'.policies = document.policies /\ document'.helpers = document.helpers]_oxiVars

==============================================================================
