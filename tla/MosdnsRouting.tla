---------------------------- MODULE MosdnsRouting ----------------------------
(***************************************************************************)
(* The MosDNS configuration the panel generates                            *)
(* (backend/converters/mosdns.py): which plugins and files stand for the   *)
(* selected rules, in which order the main sequence asks them, and what    *)
(* becomes of the lines of a rule set.  The pipeline is run by Decide, and *)
(* compared with the order of the rules in the panel.                      *)
(*                                                                         *)
(* A name is the sequence of its parts, so that what is appended to one    *)
(* (_2, _ip) may meet another name.                                        *)
(***************************************************************************)
EXTENDS Integers, Sequences, SequencesExt, FiniteSets, FiniteSetsExt, TLC

CONSTANTS
  SingleRules,  \* [id -> part]: single rules, "domain" or "ip"
  RuleSets,     \* [id -> [name, behavior, source]]: rule sets; source stands for library entry and URL
  RuleOrders,   \* the orders the rules may be put in
  Settings,     \* [position, default, cache, hosts, customs]: the other settings
  DnsQueries,   \* [host, names, addresses, custom]: what matches a query's name, its domestic answer, the custom matches
  DnsLines,     \* [shape, value]: lines of a rule set
  DnsNames,     \* domains, sequences of labels
  DnsTexts      \* upstream texts: [yaml, items]

VARIABLES
  rule_configs,  \* the rules of the configuration, in order
  disabled,      \* switched off there or in the library
  direct,        \* selected for domestic DNS
  proxied,       \* selected for foreign DNS
  settings

mosdnsVars == <<rule_configs, disabled, direct, proxied, settings>>

BuiltinTags == {<<"lazy_cache">>, <<"forward_local">>, <<"custom_hosts">>, <<"remote_dns">>, <<"proxy_dns_seq">>,
                <<"china_dns">>, <<"sequence_main">>, <<"ip_requery_proxy">>}

\* split_rules_and_rulesets
Enabled(id) == id \notin disabled
Selected(id) == id \in direct \cup proxied
Route(id) == IF id \in direct THEN "direct" ELSE "proxy"

RuleSetParts(behavior) ==
  CASE behavior = "ipcidr" -> <<"ip">> [] behavior = "classical" -> <<"domain", "ip">> [] OTHER -> <<"domain">>

(***************************************************************************)
(* Tags and files.                                                         *)
(***************************************************************************)

GroupBase(id) == IF SingleRules[id] = "ip" THEN IF id \in direct THEN "direct_ip_rules" ELSE "proxy_ip_rules"
                 ELSE IF id \in direct THEN "direct_rules" ELSE "proxy_rules"

GroupWith(acc, id, base) ==
  IF acc.previous = base
  THEN [acc EXCEPT !.groups[Len(acc.groups)].ids = Append(@, id)]
  ELSE LET count == Cardinality({i \in DOMAIN acc.groups : acc.groups[i].base = base}) + 1
       IN [groups |-> Append(acc.groups, [base |-> base, tag |-> IF count = 1 THEN <<base>> ELSE <<base, ToString(count)>>,
                                          part |-> SingleRules[id], ids |-> <<id>>]),
           previous |-> base]

Grouped_SetsIgnored(acc, id) ==
  IF id \notin DOMAIN SingleRules THEN acc
  ELSE IF ~Enabled(id) \/ ~Selected(id) THEN [acc EXCEPT !.previous = "none"]
  ELSE GroupWith(acc, id, GroupBase(id))

Grouped(acc, id) ==
  IF id \notin DOMAIN SingleRules \/ ~Enabled(id) \/ ~Selected(id) THEN [acc EXCEPT !.previous = "none"]
  ELSE GroupWith(acc, id, GroupBase(id))

\* _single_rule_groups: only neighbours with the same route and matcher share a file.
SingleRuleGroups == FoldLeft(Grouped, [groups |-> <<>>, previous |-> "none"], rule_configs).groups

\* _ruleset_execution_order: disabled rule sets keep their place, and under their id a tag.
ExecutionOrder == SelectSeq(rule_configs, LAMBDA id : id \in DOMAIN RuleSets)
Known(id) == IF Enabled(id) THEN RuleSets[id] ELSE [name |-> <<id>>, behavior |-> "domain", source |-> id]

Endings(behavior) == IF behavior = "classical" THEN {<<>>, <<"ip">>} ELSE {<<>>}

Candidate(name, index) == IF index = 1 THEN name ELSE Append(name, ToString(index))

\* _build_ruleset_tag_map: the first name that is free with everything that will be appended to it.
TagMap(reserved) ==
  FoldLeft(LAMBDA acc, id :
             LET suffixes == Endings(Known(id).behavior)
                 Free(index) == \A s \in suffixes : Candidate(Known(id).name, index) \o s \notin acc.used
                 tag == Candidate(Known(id).name, Min({i \in 1 .. Cardinality(acc.used) + 1 : Free(i)}))
             IN [tags |-> (id :> tag) @@ acc.tags, used |-> acc.used \cup {tag \o s : s \in suffixes}],
           [tags |-> <<>>, used |-> BuiltinTags \cup reserved], ExecutionOrder).tags

\* _ruleset_layout: references to one library entry share the file of the first of them.
Layout ==
  LET groups == SingleRuleGroups
      order == ExecutionOrder
      tags == TagMap({groups[i].tag : i \in DOMAIN groups})
      Stem(id) == tags[order[Min({i \in DOMAIN order : Known(order[i]) = Known(id)})]]
  IN [groups |-> groups, tag |-> tags, stem |-> [id \in ToSet(order) |-> Stem(id)]]

\* _ruleset_local_path, _ruleset_ip_tag: only the addresses of a mixed rule set need a name of their own.
PartName(id, part, name) == IF part = "ip" /\ RuleSets[id].behavior = "classical" THEN Append(name, "ip") ELSE name

\* _ruleset_files
Files(layout, id) ==
  LET parts == RuleSetParts(RuleSets[id].behavior)
  IN [i \in DOMAIN parts |-> [part |-> parts[i], content |-> <<RuleSets[id].source, parts[i]>>,
                              path |-> PartName(id, parts[i], layout.stem[id]),
                              tag |-> PartName(id, parts[i], layout.tag[id])]]

InUse == SelectSeq(ExecutionOrder, LAMBDA id : Enabled(id) /\ Selected(id))

\* get_mosdns_ruleset_downloads
Downloads(layout) == LET used == InUse IN FlattenSeq([i \in DOMAIN used |-> Files(layout, used[i])])

\* get_mosdns_custom_files
CustomFiles(layout) ==
  [i \in DOMAIN layout.groups |-> [path |-> layout.groups[i].tag, content |-> layout.groups[i].ids]]
  \o (IF settings.hosts THEN <<[path |-> <<"custom_hosts">>, content |-> <<"hosts">>]>> ELSE <<>>)

(***************************************************************************)
(* generate_mosdns_config                                                  *)
(***************************************************************************)

Match(kind, tag) == [kind |-> kind, tag |-> tag]
Always == Match("always", <<>>)
Step(match, do, tag) == [match |-> match, do |-> do, tag |-> tag]
Run(tag) == Step(Always, "run", <<tag>>)
Goto(match, tag) == Step(match, "goto", <<tag>>)
Accept(match) == Step(match, "accept", <<>>)

\* The plugins that load rules: one for every file of a rule set in use, one for every group of single rules.
Matchers(layout) ==
  LET sets == Downloads(layout)
  IN [i \in DOMAIN sets |-> [tag |-> sets[i].tag, type |-> sets[i].part, path |-> sets[i].path]]
     \o [i \in DOMAIN layout.groups |->
          [tag |-> layout.groups[i].tag, type |-> layout.groups[i].part, path |-> layout.groups[i].tag]]

CacheTags == IF settings.cache THEN {<<"lazy_cache">>} ELSE {}
ForwardTags == {<<"forward_local">>, <<"forward_remote">>, <<"forward_remote_fallback">>}
HostTags == IF settings.hosts THEN {<<"custom_hosts">>} ELSE {}

\* The sequences around the forwards, and what each calls.
Calls == [remote_dns |-> {<<"forward_remote">>}, remote_dns_fallback |-> {<<"forward_remote_fallback">>},
          proxy_dns |-> {<<"remote_dns">>, <<"remote_dns_fallback">>}, proxy_dns_seq |-> {<<"proxy_dns">>},
          china_dns |-> {<<"forward_local">>} \cup CacheTags]

FixedTags == CacheTags \cup ForwardTags \cup HostTags \cup {<<t>> : t \in DOMAIN Calls} \cup {<<"sequence_main">>}

\* _ip_match_entry
IpEntry(tag, route) ==
  IF route = "direct" THEN Accept(Match("resp_ip", tag)) ELSE Goto(Match("resp_ip", tag), "ip_requery_proxy")
NameEntry(tag, route) == Goto(Match("qname", tag), IF route = "direct" THEN "china_dns" ELSE "proxy_dns_seq")

\* What an item adds to the entries about names or about answers; a group is added where its first member stands.
EntriesOf(layout, id, part) ==
  LET Entry(f) == IF part = "ip" THEN IpEntry(f.tag, Route(id)) ELSE NameEntry(f.tag, Route(id))
      sources == IF id \in DOMAIN RuleSets THEN Files(layout, id)
                 ELSE SelectSeq(layout.groups, LAMBDA g : g.ids[1] = id)
      wanted == SelectSeq(sources, LAMBDA f : f.part = part)
  IN IF Enabled(id) /\ Selected(id) THEN [i \in DOMAIN wanted |-> Entry(wanted[i])] ELSE <<>>

RuleEntries(layout, part) == FlattenSeq([i \in DOMAIN rule_configs |-> EntriesOf(layout, rule_configs[i], part)])

\* _parse_custom_matches: switched off and incomplete ones are passed over.
CustomEntries == LET kept == SelectSeq(settings.customs, LAMBDA c : c.enabled /\ c.complete)
                 IN [i \in DOMAIN kept |-> Step(Match("custom", <<kept[i].id>>), "custom", <<kept[i].id>>)]

\* The probe of the domestic DNS, the rules about its answer, and what follows when none matches.
IpEntries(layout) ==
  LET entries == RuleEntries(layout, "ip")
  IN IF entries = <<>> THEN <<>>
     ELSE <<Run("forward_local")>> \o entries
          \o (IF settings.default = "forward_local" THEN <<Accept(Match("has_resp", <<>>))>>
              ELSE <<Step(Always, "drop", <<>>)>>)

MainSequence(layout) ==
  (IF settings.hosts THEN <<Run("custom_hosts"), Accept(Match("has_resp", <<>>))>> ELSE <<>>)
  \o (IF settings.position = "head" THEN CustomEntries \o RuleEntries(layout, "domain")
      ELSE RuleEntries(layout, "domain") \o CustomEntries)
  \o IpEntries(layout)
  \o <<Goto(Always, IF settings.default = "forward_local" THEN "china_dns" ELSE "proxy_dns_seq")>>

(***************************************************************************)
(* How MosDNS runs it: what a query met, or "none" while it goes on.       *)
(***************************************************************************)

\* What each matcher has loaded at the Agent: the last file written under its path.
Loaded(layout) ==
  LET written == Downloads(layout) \o CustomFiles(layout)
      matchers == Matchers(layout)
      Content(path) == ToSet(written[Max({i \in DOMAIN written : written[i].path = path})].content)
  IN [t \in {<<matchers[i].type, matchers[i].tag>> : i \in DOMAIN matchers} |->
        Content((CHOOSE m \in ToSet(matchers) : <<m.type, m.tag>> = t).path)]

\* A matcher of names cannot load addresses, nor the other way round.
Holds(loaded, kind, tag, known) == <<kind, tag>> \in DOMAIN loaded /\ loaded[<<kind, tag>>] \cap known # {}

\* A step, after the hosts and, when probed, after the domestic answer.
Met(loaded, step, probed, q) ==
  LET m == step.match
  IN CASE m.kind = "always" -> TRUE
       [] m.kind = "has_resp" -> probed \/ (settings.hosts /\ q.host)
       [] m.kind = "qname" -> Holds(loaded, "domain", m.tag, q.names)
       [] m.kind = "resp_ip" -> probed /\ Holds(loaded, "ip", m.tag, q.addresses)
       [] OTHER -> m.tag[1] \in q.custom

Outcome(step, probed) ==
  CASE step.do = "custom" -> step.tag[1]
    [] step.do = "accept" -> IF probed THEN "direct" ELSE "hosts"
    [] OTHER -> IF step.tag = <<"china_dns">> THEN "direct" ELSE "proxy"

Decide(loaded, steps, q) ==
  LET probe == Min({i \in DOMAIN steps : steps[i] = Run("forward_local")} \cup {Len(steps)})
      ends == {i \in DOMAIN steps : steps[i].do \in {"goto", "accept", "custom"} /\ Met(loaded, steps[i], i > probe, q)}
  IN Outcome(steps[Min(ends)], Min(ends) > probe)

(***************************************************************************)
(* The lines of a rule set                                                 *)
(***************************************************************************)

ClashTypes == {"DOMAIN", "DOMAIN-SUFFIX", "DOMAIN-KEYWORD", "DOMAIN-REGEX"}
MosdnsTypes == {"full", "domain", "keyword", "regexp"}

M == INSTANCE RuleMatcher WITH Lines <- {}, Queries <- {}, AddressBits <- 1, MaxLines <- 0,
                               ruleset <- <<>>, enabled <- FALSE

\* What MosDNS' matchers mean; an unprefixed value in a file is a "domain" one, one with a wildcard finds nothing.
MosdnsHits(type, value, d) ==
  CASE type = "full" -> d = value
    [] type \in {"domain", "raw"} -> IsSuffix(value, d)
    [] type = "keyword" -> value \in ToSet(d)
    [] type = "regexp" -> d \in value
    [] type = "below" -> d # value /\ IsSuffix(value, d)
    [] type = "child" -> IsSuffix(value, d) /\ Len(d) = Len(value) + 1
    [] OTHER -> FALSE

\* convert_rule_content_for_mosdns of one line, for the file of domains; <<>> when the line is dropped.  below and
\* child stand for the regular expressions written for .example.com and *.example.com.
Converted(line) ==
  CASE line.shape = "DOMAIN" -> <<"full", line.value>>
    [] line.shape \in {"DOMAIN-SUFFIX", "+."} -> <<"domain", line.value>>
    [] line.shape = "DOMAIN-KEYWORD" -> <<"keyword", line.value>>
    [] line.shape = "DOMAIN-REGEX" -> <<"regexp", line.value>>
    [] line.shape = "." -> <<"below", line.value>>
    [] line.shape = "*." -> <<"child", line.value>>
    [] line.shape = "plain" /\ Len(line.value) > 1 -> <<"full", line.value>>
    [] line.shape \in MosdnsTypes -> <<line.shape, line.value>>
    [] OTHER -> <<>>

\* A prefix of MosDNS in one of the first lines makes the whole text count as its format, kept as it is.
ConvertedFile(lines) ==
  IF \E l \in lines : l.shape \in MosdnsTypes
  THEN {IF l.shape \in MosdnsTypes THEN <<l.shape, l.value>> ELSE <<"raw", <<l.shape, l.value>>>>
        : l \in {k \in lines : k.shape # "ip"}}
  ELSE {Converted(l) : l \in lines} \ {<<>>}

\* How the panel's own matcher reads the line (parse_rule).
Panel(line) ==
  CASE line.shape \in {"DOMAIN", "plain", "full"} -> "DOMAIN"
    [] line.shape \in {"DOMAIN-SUFFIX", "+.", "domain"} -> "DOMAIN-SUFFIX"
    [] line.shape \in {"DOMAIN-KEYWORD", "keyword"} -> "DOMAIN-KEYWORD"
    [] line.shape \in {"DOMAIN-REGEX", "regexp"} -> "REGEX"
    [] line.shape = "." -> "SUBDOMAIN-ONLY"
    [] line.shape = "*." -> "DIRECT-SUBDOMAIN"
    [] OTHER -> "NONE"

(***************************************************************************)
(* Upstreams: parse_dns_upstreams.  A text is [yaml, items]: yaml says what*)
(* it parses as, an item is [addr, form], form the shape of its line.      *)
(***************************************************************************)

Addressed(items) == SelectSeq(items, LAMBDA i : i.addr # "none")

ParseUpstreams(text) ==
  CASE text.yaml = "blank" -> <<>>
    [] text.yaml = "list" /\ Addressed(text.items) # <<>> -> Addressed(text.items)
    [] text.yaml = "object" /\ Addressed(text.items) # <<>> -> <<text.items[1]>>
    [] OTHER -> SelectSeq(text.items, LAMBDA i : i.form = "word" /\ i.addr # "none")

DefaultLocal == <<[addr |-> "223.5.5.5", form |-> "word"]>>

\* The upstreams of forward_local, and those of its copy: an empty fallback is domestic.
LocalUpstreams(text) == IF ParseUpstreams(text) = <<>> THEN DefaultLocal ELSE ParseUpstreams(text)
CopiedUpstreams(text, local) == IF ParseUpstreams(text) = <<>> THEN LocalUpstreams(local) ELSE ParseUpstreams(text)

Refused == <<[addr |-> "refused", form |-> "none"]>>

\* OxiDNS' _forward and _fallback_upstreams: what cannot be read is refused, an empty fallback is none.
OxiForward(text, otherwise) ==
  IF text.yaml = "blank" THEN otherwise
  ELSE IF text.yaml = "broken" \/ (text.yaml = "list" /\ Addressed(text.items) # text.items) THEN Refused
  ELSE IF ParseUpstreams(text) = <<>> THEN Refused ELSE ParseUpstreams(text)

OxiFallback(text) == IF text.yaml \in {"blank", "list"} /\ text.items = <<>> THEN <<>> ELSE OxiForward(text, <<>>)

(***************************************************************************)
(* Edits of the configuration                                              *)
(***************************************************************************)

MosdnsInit ==
  /\ rule_configs \in RuleOrders /\ settings \in Settings
  /\ disabled = {} /\ direct = {} /\ proxied = {}

SelectRoute ==
  /\ \E id \in ToSet(rule_configs), to \in {"direct", "proxy", "none"} :
       /\ direct' = IF to = "direct" THEN direct \cup {id} ELSE direct \ {id}
       /\ proxied' = IF to = "proxy" THEN proxied \cup {id} ELSE proxied \ {id}
  /\ UNCHANGED <<rule_configs, disabled, settings>>

ToggleRule ==
  /\ \E id \in ToSet(rule_configs) : disabled' \in {disabled \ {id}, {id}}
  /\ UNCHANGED <<rule_configs, direct, proxied, settings>>

MosdnsNext == SelectRoute \/ ToggleRule

MosdnsSpec == MosdnsInit /\ [][MosdnsNext]_mosdnsVars

(***************************************************************************)
(* Properties                                                              *)
(***************************************************************************)

\* The first enabled and selected rule that matches the query, as the panel lists them.
Unit(id) == IF id \in DOMAIN RuleSets THEN RuleSets[id].source ELSE id
HasPart(id, part) == IF id \in DOMAIN RuleSets THEN part \in ToSet(RuleSetParts(RuleSets[id].behavior))
                     ELSE SingleRules[id] = part
FirstRule(known, part) ==
  SelectSeq(rule_configs, LAMBDA id : Enabled(id) /\ Selected(id) /\ HasPart(id, part) /\ Unit(id) \in known)

Chosen(rules, otherwise) == IF rules = <<>> THEN otherwise ELSE Route(rules[1])
FirstCustom(q, otherwise) ==
  LET hits == SelectSeq(settings.customs, LAMBDA c : c.enabled /\ c.complete /\ c.id \in q.custom)
  IN IF hits = <<>> THEN otherwise ELSE hits[1].id

Expected(q) ==
  LET default == IF settings.default = "forward_local" THEN "direct" ELSE "proxy"
      byAddress == Chosen(FirstRule(q.addresses, "ip"), default)
  IN IF settings.hosts /\ q.host THEN "hosts"
     ELSE IF settings.position = "head" THEN FirstCustom(q, Chosen(FirstRule(q.names, "domain"), byAddress))
     ELSE Chosen(FirstRule(q.names, "domain"), FirstCustom(q, byAddress))

\* The generated pipeline sends every query where the first rule that matches it says, rules about names before rules
\* about answers: merging neighbours, splitting a rule set in two files and sharing files change no decision.
PipelineIsRuleOrder ==
  LET layout == Layout
      loaded == Loaded(layout)
      steps == MainSequence(layout)
  IN \A q \in DnsQueries : Decide(loaded, steps, q) = Expected(q)

\* Every tag is given once and every reference names a plugin; a path has one content, and every file loaded is there.
NamesAreDefinite ==
  LET layout == Layout
      matchers == Matchers(layout)
      tags == {matchers[i].tag : i \in DOMAIN matchers}
      files == ToSet(Downloads(layout) \o CustomFiles(layout))
      helpers == FixedTags \cup (IF RuleEntries(layout, "ip") # <<>> THEN {<<"ip_requery_proxy">>} ELSE {})
  IN /\ Cardinality(tags) = Len(matchers) /\ tags \cap helpers = {}
     /\ \A t \in DOMAIN Calls : Calls[t] \subseteq helpers
     /\ \A s \in ToSet(MainSequence(layout)) :
          /\ s.do \in {"run", "goto"} => s.tag \in helpers
          /\ s.match.kind \in {"qname", "resp_ip"} => s.match.tag \in tags
     /\ \A f \in files, g \in files : f.path = g.path => f.content = g.content
     /\ {matchers[i].path : i \in DOMAIN matchers} \subseteq {f.path : f \in files}

\* A text in one format means the same to MosDNS as to the panel's own matcher, but for names of one label.
ConversionKeepsMeaning ==
  \A a, b \in DnsLines :
    (a.shape \in MosdnsTypes <=> b.shape \in MosdnsTypes) =>
      \A d \in DnsNames :
        (\E c \in ConvertedFile({a, b}) : MosdnsHits(c[1], c[2], d))
        <=> \E l \in {a, b} : (l.shape = "plain" => Len(l.value) > 1) /\ M!MatchDomain(d, Panel(l), l.value)

\* An upstream that is used was entered, or nothing that can be read was; OxiDNS passes over no item of a list and
\* replaces nothing that was entered.
UpstreamsAreEntered ==
  \A text \in DnsTexts :
    LET used == LocalUpstreams(text)
        strict == OxiForward(text, DefaultLocal)
    IN /\ ToSet(used) \subseteq ToSet(text.items) \/ used = DefaultLocal
       /\ \/ strict \in {Refused, text.items}
          \/ strict = DefaultLocal /\ text.items = <<>>
          \/ text.yaml = "none" /\ strict = SelectSeq(text.items, LAMBDA i : i.form = "word")
       /\ OxiFallback(text) = DefaultLocal => DefaultLocal = text.items

==============================================================================
