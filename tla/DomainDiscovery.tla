--------------------------- MODULE DomainDiscovery ---------------------------
(***************************************************************************)
(* Domain discovery (backend/utils/domain_discovery_service.py, with the   *)
(* verdicts of domain_probe.py and the tags of domain_discovery.py): the   *)
(* domains Agents saw falling to the catch-all rule, the single probe job, *)
(* the requests that append them to the default rulesets, undo them or     *)
(* send them to a policy group, and the background round that probes,      *)
(* adopts and rechecks on its own.  A request is a sequence of repository  *)
(* transactions and file writes; two requests interleave between them.     *)
(* One host stands for a registrable domain, one Agent for the collectors. *)
(***************************************************************************)
EXTENDS Naturals, Sequences, SequencesExt

CONSTANTS
  Domains,       \* the domains met; a sequence, in the order lists are sorted
  Rulesets,      \* identities rulesets of the library may have
  FirstRuleset,  \* the one that exists already
  OwnCovers,     \* what the user's own rule matches
  Samples,       \* what a probe may measure
  Threshold,     \* auto_apply_min_confidence
  ProbeLimit,    \* AUTO_PROBE_BATCH
  RecheckLimit,  \* RECHECK_BATCH
  MaxRequests,   \* bound: requests of users
  MaxAges,       \* bound: times something becomes old enough to be probed again
  MaxJobFaults   \* bound: jobs that fail as a whole

VARIABLES
  library,   \* the shared rulesets: [kind, lines]
  served,    \* the cached files Mihomo downloads
  rules,     \* rule_configs of the profile, enabled ones in order
  settings,  \* domain_discovery of the profile
  traffic,   \* domains seen falling to the catch-all rule
  probes,    \* the last result of each domain
  job,       \* the probe job
  op,        \* the request each actor is executing
  round,     \* the automatic round
  used       \* what is left of the bounds

discoveryVars == <<library, served, rules, settings, traffic, probes, job, op, round, used>>
requestVars == <<library, served, rules, settings, op>>

None == "none"
Names == ToSet(Domains)
Targets == {"direct", "proxy"}
Actors == {"user", "auto"}
Idle == [step |-> "idle"]
NoJob == [owner |-> "nobody"]
NoProbe == [judged |-> [verdict |-> None, target |-> None, confidence |-> 0], fresh |-> FALSE]
RoundIdle == [step |-> "idle"]
Match == [of |-> "match", policy |-> "group"]

(***************************************************************************)
(* What is read: the verdict of a probe, the rule a domain meets, the      *)
(* ruleset behind a target.                                                *)
(***************************************************************************)

\* judge: a failing path is only blamed while its control target answers.  direct and proxy are "none" (not
\* measured), "fail" (never), "some" (less than half) or "ok".
Judge(s) ==
  LET Verdict(v, t, c) == [verdict |-> v, target |-> t, confidence |-> IF c > 99 THEN 99 ELSE c]
      sure == IF s.agree THEN 15 ELSE 0
  IN CASE "none" \in {s.direct, s.proxy} -> Verdict("incomplete", None, 0)
       [] s.direct = "fail" /\ s.proxy = "ok" ->
            IF s.directHealthy THEN Verdict("needs_proxy", "proxy", 70 + sure + (IF s.passive THEN 15 ELSE 0))
            ELSE Verdict("direct_down", None, 0)
       [] s.direct = "ok" /\ s.proxy = "fail" ->
            IF s.proxyHealthy THEN Verdict("direct_only", "direct", 70 + sure) ELSE Verdict("proxy_down", None, 0)
       [] s.direct = "ok" /\ s.proxy = "ok" ->
            IF s.directFast THEN Verdict("both_ok", "direct", 60) ELSE Verdict("both_ok", "proxy", 50)
       [] s.direct = "fail" /\ s.proxy = "fail" ->
            Verdict(IF ~s.proxyHealthy THEN "proxy_down" ELSE IF ~s.directHealthy THEN "direct_down"
                    ELSE "unreachable", None, 0)
       [] OTHER -> Verdict("flaky", None, 0)

Covers(r, d) == IF r.of = "own" THEN d \in OwnCovers ELSE r.of # "match" /\ d \in served[r.of]

\* RuleConfigMatcher.match over the served files: the first rule that covers d, 0 when only the catch-all does.
FirstRule(d) ==
  LET hits == {i \in DOMAIN rules : Covers(rules[i], d)}
  IN IF hits = {} THEN 0 ELSE CHOOSE i \in hits : \A j \in hits : i <= j

Writable(r) == r # None /\ library[r].kind = "content"

\* ruleset_info(...)['active']: referenced before the catch-all.
Active(r) == \E i \in DOMAIN rules : rules[i].of = r /\ \A j \in 1 .. i : rules[j].of # "match"

ProbePath == \E i \in DOMAIN rules : /\ rules[i].of = settings.proxy
                                     /\ rules[i].policy # "DIRECT"
                                     /\ \A j \in 1 .. i : rules[j].of # "match"

\* load_domains(view='uncovered') in list order, without what is ignored or already pending.
Uncovered == SelectSeq(Domains, LAMBDA d : d \in traffic \ settings.ignored /\ FirstRule(d) = 0)

Suggestion(d) == probes[d].judged

Without(history, keys) == SelectSeq(history, LAMBDA h : <<h.value, h.target>> \notin keys)

FirstOf(seq, n) == SubSeq(seq, 1, IF Len(seq) < n THEN Len(seq) ELSE n)

Spend(what) == used[what] > 0 /\ used' = [used EXCEPT ![what] = @ - 1]

(***************************************************************************)
(* Writing: append the lines, save the cached file, record the history.    *)
(***************************************************************************)

NewApply(entries, source) == [step |-> "read", entries |-> entries, source |-> source]

\* POST /apply: parse_apply_items accepts direct and proxy only.
Apply(d, t) ==
  /\ op["user"] = Idle
  /\ Spend("requests")
  /\ op' = [op EXCEPT !["user"] = NewApply({[value |-> d, target |-> t]}, "manual")]
  /\ UNCHANGED <<library, served, rules, settings, traffic, probes, job, round>>

\* apply_domains: the rulesets are resolved from a first read of the configuration.
ReadTargets(a) ==
  /\ op[a].step = "read"
  /\ LET targets == {e.target : e \in op[a].entries}
     IN op' = [op EXCEPT ![a] = IF \A t \in targets : Writable(settings[t])
                                THEN [@ EXCEPT !.step = "append"] @@ [into |-> [t \in targets |-> settings[t]]]
                                ELSE Idle]
  /\ UNCHANGED <<library, served, rules, settings, traffic, probes, job, round, used>>

\* append_lines, one transaction; it keeps the items as they were when it committed.
AppendLines(a) ==
  /\ op[a].step = "append"
  /\ LET into == op[a].into
         added == {e \in op[a].entries : e.value \notin library[into[e.target]].lines}
         grown == {into[e.target] : e \in added}
     IN IF \A t \in DOMAIN into : Writable(into[t])
        THEN /\ library' = [r \in Rulesets |->
                  [library[r] EXCEPT !.lines = @ \cup {e.value : e \in {x \in added : into[x.target] = r}}]]
             /\ op' = [op EXCEPT ![a] = IF added = {} THEN Idle
                         ELSE [step |-> "save", source |-> @.source, added |-> added, into |-> into,
                               items |-> [r \in grown |-> library'[r].lines]]]
        ELSE op' = [op EXCEPT ![a] = Idle] /\ UNCHANGED library
  /\ UNCHANGED <<served, rules, settings, traffic, probes, job, round, used>>

\* save_rule_to_local for the updated items: outside the transaction, with the content it committed.
Save(a) ==
  /\ op[a].step = "save"
  /\ served' = op[a].items @@ served
  /\ op' = [op EXCEPT ![a] = IF "dropped" \in DOMAIN @ THEN [@ EXCEPT !.step = "drop"] ELSE [@ EXCEPT !.step = "record"]]
  /\ UNCHANGED <<library, rules, settings, traffic, probes, job, round, used>>

\* record: the entry carries the ruleset it was written to.
Record(a) ==
  /\ op[a].step = "record"
  /\ LET added == SetToSeq(op[a].added)
         entry(e) == [value |-> e.value, target |-> e.target, ruleset |-> op[a].into[e.target],
                      source |-> op[a].source, due |-> FALSE, remove |-> FALSE]
     IN settings' = [settings EXCEPT !.history =
                       Without(@, {<<e.value, e.target>> : e \in op[a].added}) \o
                       [i \in DOMAIN added |-> entry(added[i])]]
  /\ op' = [op EXCEPT ![a] = Idle]
  /\ UNCHANGED <<library, served, rules, traffic, probes, job, round, used>>

WrittenTo_CurrentDefault(d, t) == settings[t]

WrittenTo(d, t) ==
  LET known == SelectSeq(settings.history, LAMBDA h : h.value = d /\ h.target = t)
  IN IF known # <<>> THEN known[1].ruleset ELSE settings[t]

\* undo_domain: a first read finds the ruleset, the next transaction takes the line out of it.
Undo(d, t) ==
  /\ op["user"] = Idle
  /\ Spend("requests")
  /\ op' = [op EXCEPT !["user"] =
              [step |-> "remove", value |-> d, target |-> t, from |-> WrittenTo(d, t),
               seen |-> ToSet(SelectSeq(settings.history, LAMBDA h : h.value = d /\ h.target = t))]]
  /\ UNCHANGED <<library, served, rules, settings, traffic, probes, job, round>>

RemoveLines ==
  /\ op["user"].step = "remove"
  /\ LET o == op["user"]
         found == Writable(o.from) /\ o.value \in library[o.from].lines
     IN /\ library' = IF found THEN [library EXCEPT ![o.from].lines = @ \ {o.value}] ELSE library
        /\ op' = [op EXCEPT !["user"] =
             [step |-> IF found THEN "save" ELSE "drop", dropped |-> <<o.value, o.target>>,
              items |-> IF found THEN [r \in {o.from} |-> library'[r].lines] ELSE <<>>]]
  /\ UNCHANGED <<served, rules, settings, traffic, probes, job, round, used>>

DropHistory ==
  /\ op["user"].step = "drop"
  /\ settings' = [settings EXCEPT !.history = Without(@, {op["user"].dropped})]
  /\ op' = [op EXCEPT !["user"] = Idle]
  /\ UNCHANGED <<library, served, rules, traffic, probes, job, round, used>>

(***************************************************************************)
(* Rulesets: created, referenced and replaced by the user.                 *)
(***************************************************************************)

Fresh == {r \in Rulesets : library[r].kind = "absent"}
Content(lines) == [kind |-> "content", lines |-> lines]
CatchAll == CHOOSE i \in DOMAIN rules : rules[i].of = "match"

\* init_rulesets for one target: a new empty ruleset, referenced right before the catch-all, becomes the default.
InitRuleset(t) ==
  /\ op["user"] = Idle /\ Spend("requests")
  /\ \E r \in Fresh :
       /\ library' = [library EXCEPT ![r] = Content({})]
       /\ served' = [served EXCEPT ![r] = {}]
       /\ rules' = InsertAt(rules, CatchAll, [of |-> r, policy |-> IF t = "direct" THEN "DIRECT" ELSE "group"])
       /\ settings' = [settings EXCEPT ![t] = r]
  /\ UNCHANGED <<traffic, probes, job, op, round>>

\* update_settings: another writable ruleset (or none) as a default, the automation switches; update_ignored.
UpdateSettings ==
  /\ op["user"] = Idle /\ Spend("requests")
  /\ \/ \E t \in Targets, r \in Rulesets \cup {None} :
          (r # None => Writable(r)) /\ settings' = [settings EXCEPT ![t] = r]
     \/ \E on, adopt \in BOOLEAN : settings' = [settings EXCEPT !.auto = on, !.adopt = adopt]
     \/ \E d \in Names : settings' = [settings EXCEPT !.ignored = IF d \in @ THEN @ \ {d} ELSE @ \cup {d}]
  /\ UNCHANGED <<library, served, rules, traffic, probes, job, op, round>>

\* The user moves the first rule behind the others (or turns it off and on again at the end).
MoveRule ==
  /\ op["user"] = Idle /\ Spend("requests")
  /\ rules' = Tail(rules) \o <<Head(rules)>>
  /\ UNCHANGED <<library, served, settings, traffic, probes, job, op, round>>

Anchors(competing) == {i \in DOMAIN rules : i \in competing \/ rules[i].of \in {settings.proxy, "match"}}

\* route_to_policy: ensure_policy_ruleset finds or creates the group's ruleset ...
Route(d) ==
  /\ op["user"] = Idle /\ Spend("requests")
  /\ LET mine == settings.policy
         next(r) == [step |-> "reference", of |-> r, value |-> d, competing |-> {FirstRule(d)} \ {0}, seen |-> rules, files |-> served']
     IN IF Writable(mine)
        THEN /\ served' = served
             /\ op' = [op EXCEPT !["user"] = IF Active(mine) THEN NewApply({[value |-> d, target |-> "policy"]}, "region")
                                             ELSE next(mine)]
             /\ UNCHANGED library
        ELSE \E r \in Fresh :
             /\ library' = [library EXCEPT ![r] = Content({})]
             /\ served' = [served EXCEPT ![r] = {}]
             /\ op' = [op EXCEPT !["user"] = next(r)]
  /\ UNCHANGED <<rules, settings, traffic, probes, job, round>>

\* ... references it before the default proxy ruleset, the catch-all and what already matches, then applies.
Reference ==
  /\ op["user"].step = "reference"
  /\ LET o == op["user"]
         at == Anchors({i \in DOMAIN rules : \E j \in o.competing : rules[i].of = o.seen[j].of})
         position == IF at = {} THEN Len(rules) + 1 ELSE CHOOSE i \in at : \A j \in at : i <= j
     IN /\ rules' = IF \E i \in DOMAIN rules : rules[i].of = o.of THEN rules
                    ELSE InsertAt(rules, position, [of |-> o.of, policy |-> "region"])
        /\ settings' = [settings EXCEPT !.policy = o.of]
        /\ op' = [op EXCEPT !["user"] = NewApply({[value |-> o.value, target |-> "policy"]}, "region")]
  /\ UNCHANGED <<library, served, traffic, probes, job, round, used>>

(***************************************************************************)
(* The probe job: one at a time over all profiles.                         *)
(***************************************************************************)

StartJob(owner, values) == job' = [owner |-> owner, todo |-> values, found |-> {}]

\* start_probe_job from the page; while one runs the request is refused (ProbeBusy).
StartProbe(d) ==
  /\ job = NoJob
  /\ Spend("requests")
  /\ StartJob("user", <<d>>)
  /\ UNCHANGED <<requestVars, traffic, probes, round>>

\* run_probes, one host: a result is stored, or the Agent gave none.
ProbeHost ==
  /\ job # NoJob /\ job.todo # <<>>
  /\ LET d == Head(job.todo)
     IN \/ \E s \in Samples : /\ probes' = [probes EXCEPT ![d] = [judged |-> Judge(s), fresh |-> TRUE]]
                              /\ job' = [job EXCEPT !.todo = Tail(@), !.found = @ \cup {d}]
        \/ job' = [job EXCEPT !.todo = Tail(@)] /\ UNCHANGED probes
  /\ UNCHANGED <<requestVars, traffic, round, used>>

\* The automatic round waits for its own job and gets what it found; a failed one ends the round (ProbeError).
EndJob ==
  /\ job # NoJob
  /\ \E done \in BOOLEAN :
       /\ IF done THEN job.todo = <<>> /\ UNCHANGED used
          ELSE (job.todo # <<>> /\ ~ProbePath /\ UNCHANGED used) \/ Spend("faults")
       /\ round' = IF job.owner # "auto" THEN round
                   ELSE IF done THEN round @@ [found |-> job.found] ELSE RoundIdle
  /\ job' = NoJob
  /\ UNCHANGED <<requestVars, traffic, probes>>

(***************************************************************************)
(* The automatic round.                                                    *)
(***************************************************************************)

Stale(d) == ~probes[d].fresh

\* auto_round: the settings read here also decide, after the probes, whether to adopt.
BeginRound ==
  /\ round.step = "idle" /\ op["auto"] = Idle
  /\ settings.auto /\ ProbePath
  /\ LET candidates == FirstOf(SelectSeq(Uncovered, Stale), ProbeLimit)
     IN IF candidates = <<>> THEN round' = [step |-> "recheck"] /\ UNCHANGED job
        ELSE IF job # NoJob THEN UNCHANGED <<round, job>>
        ELSE /\ StartJob("auto", candidates)
             /\ round' = [step |-> "probing", candidates |-> candidates, adopt |-> settings.adopt]
  /\ UNCHANGED <<requestVars, traffic, probes, used>>

\* What is still uncovered and sure enough is applied.
Adopt ==
  /\ round.step = "probing" /\ "found" \in DOMAIN round
  /\ LET sure == {d \in ToSet(round.candidates) \cap ToSet(Uncovered) :
                    Suggestion(d).target # None /\ Suggestion(d).confidence >= Threshold}
     IN op' = IF round.adopt /\ sure # {}
              THEN [op EXCEPT !["auto"] =
                      NewApply({[value |-> d, target |-> Suggestion(d).target] : d \in sure}, "auto")]
              ELSE op
  /\ round' = [step |-> "recheck"]
  /\ UNCHANGED <<library, served, rules, settings, traffic, probes, job, used>>

DueEntries == FirstOf(SelectSeq(settings.history, LAMBDA h : h.target \in Targets /\ h.due), RecheckLimit)

BeginRecheck ==
  /\ round.step = "recheck" /\ op["auto"] = Idle
  /\ IF DueEntries = <<>> \/ job # NoJob THEN round' = RoundIdle /\ UNCHANGED job
     ELSE /\ StartJob("auto", [i \in DOMAIN DueEntries |-> DueEntries[i].value])
          /\ round' = [step |-> "rechecking", entries |-> {<<h.value, h.target>> : h \in ToSet(DueEntries)}]
  /\ UNCHANGED <<requestVars, traffic, probes, used>>

\* _recheck_outcome: whether the entry should be removed.
SuggestRemove(h) ==
  LET p == Suggestion(h.value)
  IN \/ p.verdict = "unreachable"
     \/ h.target = "proxy" /\ p.target = "direct" /\ p.verdict \in {"direct_only", "both_ok"}
     \/ h.target = "direct" /\ p.verdict = "needs_proxy"

Rechecked(entries, found) == entries

\* An entry without a result is recorded too: it would stay due and be probed in every round.
RecordRecheck ==
  /\ round.step = "rechecking" /\ "found" \in DOMAIN round
  /\ LET outcomes == Rechecked(round.entries, round.found)
         seen(h) == [h EXCEPT !.due = FALSE, !.remove = h.value \in round.found /\ SuggestRemove(h)]
     IN settings' = [settings EXCEPT !.history = [i \in DOMAIN @ |->
                       IF <<@[i].value, @[i].target>> \in outcomes THEN seen(@[i]) ELSE @[i]]]
  /\ round' = RoundIdle
  /\ UNCHANGED <<library, served, rules, traffic, probes, job, op, used>>

(***************************************************************************)
(* Agents and time.                                                        *)
(***************************************************************************)

\* A report of an Agent names a domain that fell to the catch-all.
Observe(d) == /\ d \notin traffic /\ traffic' = traffic \cup {d}
              /\ UNCHANGED <<requestVars, probes, job, round, used>>

\* Three days after a probe it is stale; thirty days after an entry was written or rechecked it is due.
GrowOld ==
  /\ Spend("ages")
  /\ \/ \E d \in Names : /\ probes[d].fresh
                         /\ probes' = [probes EXCEPT ![d].fresh = FALSE] /\ UNCHANGED settings
     \/ \E i \in DOMAIN settings.history : /\ ~settings.history[i].due
                                           /\ settings' = [settings EXCEPT !.history[i].due = TRUE]
                                           /\ UNCHANGED probes
  /\ UNCHANGED <<library, served, rules, traffic, job, op, round>>

\* The user has set up a proxy ruleset and one rule of their own.
DiscoveryInit ==
  /\ library = [r \in Rulesets |-> [kind |-> IF r = FirstRuleset THEN "content" ELSE "absent", lines |-> {}]]
  /\ served = [r \in Rulesets |-> {}]
  /\ rules = <<[of |-> "own", policy |-> "own"], [of |-> FirstRuleset, policy |-> "group"], Match>>
  /\ settings = [direct |-> None, proxy |-> FirstRuleset, policy |-> None, auto |-> TRUE, adopt |-> TRUE,
                 ignored |-> {}, history |-> <<>>]
  /\ traffic = {} /\ probes = [d \in Names |-> NoProbe]
  /\ job = NoJob /\ op = [a \in Actors |-> Idle] /\ round = RoundIdle
  /\ used = [requests |-> MaxRequests, ages |-> MaxAges, faults |-> MaxJobFaults]

RequestNext ==
  \/ \E d \in Names : Route(d) \/ \E t \in Targets : Apply(d, t) \/ Undo(d, t)
  \/ \E t \in Targets : InitRuleset(t)
  \/ UpdateSettings \/ MoveRule
  \/ \E d \in Names : StartProbe(d)

WorkNext ==
  \/ \E a \in Actors : ReadTargets(a) \/ AppendLines(a) \/ Save(a) \/ Record(a)
  \/ RemoveLines \/ DropHistory \/ Reference
  \/ ProbeHost \/ EndJob
  \/ BeginRound \/ Adopt \/ BeginRecheck \/ RecordRecheck

DiscoveryNext == RequestNext \/ WorkNext \/ GrowOld \/ \E d \in Names : Observe(d)

\* Request threads, the job's thread and the automatic loop keep running; nobody has to ask or to report.
DiscoveryFairness ==
  /\ \A a \in Actors : WF_discoveryVars(ReadTargets(a) \/ AppendLines(a) \/ Save(a) \/ Record(a))
  /\ WF_discoveryVars(RemoveLines \/ DropHistory \/ Reference)
  /\ WF_discoveryVars(ProbeHost \/ EndJob)
  /\ WF_discoveryVars(BeginRound \/ Adopt \/ BeginRecheck \/ RecordRecheck)

(***************************************************************************)
(* Properties.                                                             *)
(***************************************************************************)

\* An undo takes the domain out of the ruleset it was written to, also when another ruleset has become the
\* default since (undo_domain, history[0]['ruleset_id']).
UndoRemovesWhatWasWritten ==
  [][\A h \in IF op["user"].step = "remove" /\ op'["user"].step # "remove" THEN op["user"].seen ELSE {} :
       Writable(h.ruleset) => h.value \notin library'[h.ruleset].lines]_discoveryVars

\* A domain sent to a policy group meets no older rule first when the reference is created, unless the rules
\* or the files changed while the request ran (ensure_policy_ruleset, the anchors).
RouteGoesFirst ==
  [][(/\ op["user"].step = "reference" /\ op'["user"].step = "read"
      /\ rules = op["user"].seen /\ served = op["user"].files /\ rules' # rules)
     => \A i \in DOMAIN rules' : rules'[i].of = op["user"].of =>
          \A j \in 1 .. i - 1 : ~Covers(rules'[j], op["user"].value)]_discoveryVars

\* An entry due for a recheck is rechecked or withdrawn while the automation stays on: an entry whose probe never
\* answers does not keep the others waiting (auto_round, the defaults of outcomes).
EntriesAreRechecked ==
  \A d \in Names, t \in Targets :
    LET Due == \E i \in DOMAIN settings.history :
                 settings.history[i].value = d /\ settings.history[i].target = t /\ settings.history[i].due
    IN Due ~> (~Due \/ ~settings.auto \/ ~ProbePath)

DiscoverySpec == DiscoveryInit /\ [][DiscoveryNext]_discoveryVars /\ DiscoveryFairness

\* What a page or an Agent downloads is what the library holds once nobody is writing (doc/module/domain-discovery.md:14).
ServedIsStored ==
  (\A a \in Actors : op[a] = Idle) => \A r \in Rulesets : library[r].kind = "content" => served[r] = library[r].lines

==============================================================================
