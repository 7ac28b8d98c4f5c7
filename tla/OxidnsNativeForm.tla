-------------------------- MODULE OxidnsNativeForm --------------------------
(***************************************************************************)
(* The form of the complete parameters (common/oxidns_native_apply.py): a  *)
(* person removes, adds or renames plugins of the document of OxidnsCommon *)
(* and the form carries their calls along, or refuses.                     *)
(***************************************************************************)
EXTENDS OxidnsCommon

VARIABLE formed    \* the last edit with the form: <<kind, plugin>>; <<>> after any other

formVars == <<draft, session, origin, asked, edited, formed>>

FallbackTags == ToSet(FallbackPlugins)
AdguardTags == ToSet(AdguardPlugins)
DynamicTags == {"dynamic_domains", "learn_classified_domain"}
UpdaterTags == ToSet(Pipeline) \cup {"rules_cron"}
SwitchField(tag) == CHOOSE s \in DOMAIN SwitchOf : SwitchOf[s] = tag

Refused(c) == [c EXCEPT !.ok = FALSE]
Removed(c, tag) == [c EXCEPT !.plugins = Without(@, tag)]

(***************************************************************************)
(* _mask_owned, _reject_references: the edges the panel itself made to a   *)
(* feature; any other edge is a person's and stops the form.               *)
(***************************************************************************)

Owned(e, targets) ==
  \/ e[1] \in targets
  \/ e[3] \in DOMAIN FeatureChains /\ e[2] = Call(e[3]) /\ e[1] \in FeatureChains[e[3]]
  \/ e[1] = "sequence_main" /\ e[2] \in {Call("custom_hosts"), AdguardCall, DynamicCall("direct"), DynamicCall("proxy")}
  \/ e[1] \in {"direct_ip", "ip_requery_proxy"} /\ e[2] = Call("learn_classified_domain")
  \/ e[1] = "proxy_dns_seq" /\ e[2] = Call("fallback")
  \/ e[1] = "rules_cron" /\ e[2] = Word("refresh_rules")
  \/ e[1] = "rules_reload" /\ e[3] = "adguard_rules"
Foreign(c, targets) == {e \in References(c, targets) : ~Owned(e, targets)}

\* A change of the common controls, with their guards.
Controlled(c, changes) ==
  IF \A field \in DOMAIN changes : Editable(c, field, changes) THEN Apply(c, changes) ELSE Refused(c)

(***************************************************************************)
(* A plugin taken out of the form                                          *)
(***************************************************************************)

RemovalChanges(c, tag) ==
  CASE tag \in DOMAIN FeatureChains -> [s \in {SwitchField(tag)} |-> FALSE]
    [] tag = "dynamic_domains" -> [dynamic_enabled |-> FALSE]
    [] tag = "learn_classified_domain" -> [dynamic_learn |-> FALSE]
    [] tag = "custom_hosts" -> [custom_hosts |-> ""]
    [] tag \in AdguardTags -> [adguard_enabled |-> FALSE]
    [] tag \in FallbackTags -> [fallback_dns |-> ""]
    [] tag \in UpdaterTags /\ (tag = "rules_cron" \/ \E e \in Edges(Removed(c, tag)) : e[3] = tag) -> [update_enabled |-> FALSE]
    [] OTHER -> <<>>

RemovalTargets(tag, changes) ==
  IF changes = <<>> THEN {}
  ELSE CASE tag = "dynamic_domains" -> DynamicTags
         [] tag \in AdguardTags -> AdguardTags
         [] tag \in FallbackTags -> FallbackTags
         [] tag \in UpdaterTags -> ToSet(Pipeline)
         [] OTHER -> {tag}

\* What is put back while the controls take the calls away: the plugin as it was, a hosts plugin without its sources.
Restored(c, tag, targets) ==
  IF tag \notin targets THEN Removed(c, tag)
  ELSE IF tag = "custom_hosts" THEN Put(c, tag, [files |-> {}]) ELSE c

\* Hosts are kept with their source; the common control would forget it.
KeepHosts(c, before, tag) ==
  IF tag # "custom_hosts" THEN c
  ELSE LET p == Park(c, "custom_hosts", before.plugins["custom_hosts"])
       IN IF before.hosts = "" THEN p ELSE Park(p, "native_hosts_source", before.hosts)

Unreferenced(c, tag, result) == IF References(result, {tag}) # {} THEN Refused(c) ELSE result
RemovedWith(c, tag, targets, applied) ==
  LET candidate == Removed(c, tag)
  IN IF Foreign(candidate, targets) # {} \/ (~applied.ok /\ References(candidate, {tag}) # {}) THEN Refused(c)
     ELSE Unreferenced(c, tag, KeepHosts(Removed(IF applied.ok THEN applied ELSE candidate, tag), c, tag))

(***************************************************************************)
(* A standard plugin added: connected the way the controls connect it      *)
(***************************************************************************)

AdditionTargets(tag) ==
  CASE tag \in DynamicTags -> DynamicTags
    [] tag \in AdguardTags -> AdguardTags
    [] tag \in UpdaterTags -> UpdaterTags
    [] tag \in FallbackTags -> FallbackTags
    [] OTHER -> {tag}

AdditionChanges(tag) ==
  CASE tag \in DOMAIN FeatureChains -> [s \in {SwitchField(tag)} |-> TRUE]
    [] tag = "dynamic_domains" -> [dynamic_enabled |-> TRUE]
    [] tag = "learn_classified_domain" -> [dynamic_enabled |-> TRUE, dynamic_learn |-> TRUE]
    [] tag \in AdguardTags -> [adguard_enabled |-> TRUE]
    [] tag \in UpdaterTags -> [update_enabled |-> TRUE]
    [] OTHER -> <<>>

\* The hosts plugin comes back with the source it was removed with; a call of it must answer what it finds.
AddHosts(c) ==
  LET args == Kept(c, "custom_hosts", [files |-> {}])
      source == Kept(c, "native_hosts_source", "")
      main == Seqn(c, "sequence_main")
      called == FirstAt(main, LAMBDA x : x = Call("custom_hosts"), 0)
      at == FirstAt(main, LAMBDA x : x \notin {Word("metrics"), Call("query_recorder"), Word("prefer_ipv4")} /\ x.when # "qtype", 1)
      h == [Put(c, "custom_hosts", args) EXCEPT !.parked = Without(@, "native_hosts_source"),
                                                !.hosts = IF source # "" /\ "hosts" \in args.files THEN source ELSE @]
  IN CASE ~CallsUsable(Put(c, "custom_hosts", args), "custom_hosts", {"sequence_main"}) -> Refused(c)
       [] called = 0 -> Put(h, "sequence_main", InsertAt(InsertAt(main, at, Accept), at, Call("custom_hosts")))
       [] OTHER -> IF called < Len(main) /\ main[called + 1] = Accept THEN h ELSE Refused(c)

\* A fallback without an address stays a draft beside the chain.
AddBackup(c) == Put(c, "forward_fallback", [Kept(c, "forward_fallback", DefaultArgs.forward_fallback) EXCEPT !.upstreams = ""])

AddOwn(c, tag) == IF tag = "custom_hosts" THEN AddHosts(c) ELSE AddBackup(c)

(***************************************************************************)
(* A plugin renamed: every reference follows, and the controls of a        *)
(* managed plugin wait until it has its name again.                        *)
(***************************************************************************)

Renamed(x, old, new) == IF x = old THEN new ELSE x
RenamedSet(tags, old, new) == {Renamed(t, old, new) : t \in tags}
RenamedArgs(tag, args, old, new) ==
  CASE tag \in SequenceTags -> [i \in DOMAIN args |-> [args[i] EXCEPT !.to = Renamed(@, old, new), !.when = Renamed(@, old, new)]]
    [] tag = "rules_reload" -> [providers |-> RenamedSet(args.providers, old, new)]
    [] tag = "rules_cron" -> [args EXCEPT !.jobs = {[job EXCEPT !.executors = RenamedSet(@, old, new)] : job \in args.jobs}]
    [] tag = "learn_classified_domain" -> [provider |-> Renamed(args.provider, old, new)]
    [] OTHER -> args

\* renamed_plugins: a second name replaces the first, the original one ends the alias.
Aliases(c, old, new) ==
  LET originals == {t \in DOMAIN c.renamed : c.renamed[t] = old}
      moved == [t \in {x \in DOMAIN c.renamed : ~(x \in originals /\ x = new)} |-> IF t \in originals THEN new ELSE c.renamed[t]]
  IN IF originals = {} /\ old \in DOMAIN DefaultArgs THEN With(moved, old, new) ELSE moved

FormRename(c, old, new) ==
  IF References(c, {}) # {} THEN Refused(c)
  ELSE LET kept == Removed(c, old)
           moved == With(kept.plugins, new, c.plugins[old])
       IN [c EXCEPT !.plugins = [t \in DOMAIN moved |-> RenamedArgs(t, moved[t], old, new)], !.renamed = Aliases(c, old, new)]

(***************************************************************************)
(* Options emptied in the form                                             *)
(***************************************************************************)

\* _stop_removed_cache_dump, _stop_empty_hosts and the cleared address of the fallback
EmptyHosts(c) == Put(c, "custom_hosts", [files |-> {}])
EmptyChanges(what) ==
  CASE what = "dump" -> [dump_enabled |-> FALSE] [] what = "hosts" -> [custom_hosts |-> ""] [] what = "fallback" -> [fallback_dns |-> ""]
EmptyTargets(what) == IF what = "hosts" THEN {"custom_hosts"} ELSE FallbackTags
Filled(c, what) ==
  CASE what = "dump" -> Has(c, "lazy_cache") /\ c.plugins["lazy_cache"].dump # ""
    [] what = "hosts" -> Has(c, "custom_hosts") /\ c.plugins["custom_hosts"].files # {}
    [] what = "fallback" -> Has(c, "forward_fallback") /\ c.plugins["forward_fallback"].upstreams # ""

OwnName(tag) == "own " \o tag

\* What the edit asks of the common controls, from which document.
FormChanges(c, edit) ==
  CASE edit[1] = "remove" -> RemovalChanges(c, edit[2])
    [] edit[1] = "add" -> AdditionChanges(edit[2])
    [] edit[1] = "empty" -> EmptyChanges(edit[2])
FormBase(c, edit) ==
  CASE edit[1] = "remove" -> Restored(c, edit[2], RemovalTargets(edit[2], RemovalChanges(c, edit[2])))
    [] edit = <<"empty", "hosts">> -> EmptyHosts(c)
    [] OTHER -> c

FormAllowed(c, edit) ==
  CASE edit[1] = "remove" -> Has(c, edit[2])
    [] edit[1] = "add" -> /\ ~Has(c, edit[2]) /\ Foreign(c, AdditionTargets(edit[2])) = {} /\ References(c, {}) = {}
                          /\ edit[2] \in UpdaterTags => ResourceDownloads(c) # {}
    [] edit[1] = "empty" -> Filled(c, edit[2]) /\ (edit[2] # "dump" => Foreign(c, EmptyTargets(edit[2])) = {})
    [] edit[1] = "rename" -> Has(c, edit[2]) # Has(c, OwnName(edit[2]))

\* Edits made by hand in the form, and those that go through the common controls.
ByHand(c, edit) == \/ edit[1] = "rename" \/ edit \in {<<"add", "custom_hosts">>, <<"add", "forward_fallback">>}
                   \/ edit[1] = "remove" /\ RemovalChanges(c, edit[2]) = <<>>
FormResult(c, edit) ==
  CASE ~FormAllowed(c, edit) -> Refused(c)
    [] ~ByHand(c, edit) -> LET applied == Controlled(FormBase(c, edit), FormChanges(c, edit))
                           IN IF edit[1] # "remove" THEN applied
                              ELSE RemovedWith(c, edit[2], RemovalTargets(edit[2], RemovalChanges(c, edit[2])), applied)
    [] edit[1] = "remove" -> Unreferenced(c, edit[2], Removed(c, edit[2]))
    [] edit[1] = "add" -> AddOwn(c, edit[2])
    [] edit[1] = "rename" -> IF Has(c, edit[2]) THEN FormRename(c, edit[2], OwnName(edit[2])) ELSE FormRename(c, OwnName(edit[2]), edit[2])

FormEdit ==
  \E edit \in session.forms : \E next \in {FormResult(draft, edit)} :
    /\ edited < MaxCommonEdits /\ next.ok /\ draft' = next /\ next # draft
    /\ origin' = Snapshot(next) /\ asked' = <<>> /\ edited' = edited + 1 /\ formed' = edit /\ UNCHANGED session

FormInit == CommonInit /\ formed = <<>>
FormNext == (CommonNext /\ formed' = <<>>) \/ FormEdit
FormSpec == FormInit /\ [][FormNext]_formVars

(***************************************************************************)
(* Properties                                                              *)
(***************************************************************************)

AllFields == DOMAIN SwitchOf \cup DOMAIN OptionOf \cup MainFields \cup ApiFields \cup DumpFields \cup DynamicFields \cup AdguardFields \cup UpdateFields
             \cup {"remote_ttl", "fallback_dns", "listen", "tcp_enabled", "api_enabled", "route_tls", "custom_hosts"}

\* What an edit with the form may change: the switch of the feature it is about.  The scheduler is given up with its
\* schedule and time zone: its jobs are the person's, and the form keeps none of them aside.
Concerned(edit) ==
  CASE edit[1] = "empty" -> IF edit[2] = "dump" THEN {"dump_enabled"} ELSE IF edit[2] = "hosts" THEN {"custom_hosts"} ELSE {"fallback_dns"}
    [] edit[2] \in DynamicTags -> {"dynamic_enabled", "dynamic_learn"}
    [] edit[2] \in AdguardTags -> {"adguard_enabled", "update_enabled"}
    [] edit[2] = "rules_cron" -> {"update_enabled", "update_schedule", "update_timezone"}
    [] edit[2] \in UpdaterTags -> {"update_enabled"}
    [] edit[2] \in FallbackTags -> {"fallback_dns"}
    [] edit[2] = "custom_hosts" -> {"custom_hosts"}
    [] OTHER -> {SwitchField(edit[2])}

\* Removing a feature with the form and adding it again changes only whether it is on: every option, of this feature and of
\* all others, keeps the value a person gave it, and a renamed plugin works as before (apply_native_settings, _activate).
FormKeepsOptions ==
  [][formed' # <<>> /\ edited' # edited =>
       \A field \in AllFields \ Concerned(formed') :
         formed'[1] = "rename" \/ Value(draft', field) = Value(draft, field)]_formVars

\* A plugin that was renamed is called as often as before, under its new name (_rename).
CallsFollowTheName ==
  [][formed' # <<>> /\ edited' # edited /\ formed'[1] = "rename" =>
       LET was == IF Has(draft, formed'[2]) THEN formed'[2] ELSE OwnName(formed'[2])
           is == IF was = formed'[2] THEN OwnName(was) ELSE formed'[2]
       IN {<<e[1], e[3] = was>> : e \in Edges(draft)} = {<<e[1], e[3] = is>> : e \in Edges(draft')}]_formVars

\* Once another hosts text was asked for, the text the plugin was removed with does not come back (native_hosts_source).
HostsStayWithdrawn ==
  [][asked' # <<>> /\ edited' # edited /\ "custom_hosts" \in DOMAIN asked' => "native_hosts_source" \notin DOMAIN draft'.parked]_formVars
=============================================================================
