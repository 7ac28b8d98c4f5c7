----------------------------- MODULE ClientRules -----------------------------
(* The ordered rules of a profile: the edits of the rule pages (routes/rules.py), *)
(* the rules a DNS service routes directly (routes/mosdns.py, oxidns_settings.py) *)
(* and what three clients decide from the list they are given: Mihomo             *)
(* (converters/mihomo.py), Surge (surge.py) and Loon (loon.py).                   *)
(*                                                                                *)
(* A rule is the entries it holds: one for a rule, those of its list for a        *)
(* ruleset.  A request carries a name, an address, or a name that a client        *)
(* resolves when a rule for addresses needs it.  How a client reads its list -    *)
(* the first match, in Loon the local rules before the remote ones - is external. *)
EXTENDS Naturals, Sequences, FiniteSets, SequencesExt

CONSTANTS
  Entries,          \* rule entries: a type and a value
  NamesOf,          \* the names each entry matches
  AddressesOf,      \* the addresses each entry matches
  Forms,            \* what a rule may say: [kind, type, entries]; a MATCH has no entry
  OwnIds,           \* ids a page chooses
  NumberedIds,      \* ids a batch chooses, in this order
  Requests,         \* what clients ask for: a name or NoName, and the address
  NoName,
  FirstRules,       \* the lists a behaviour may start with
  Pages,            \* open pages
  MaxRuleEdits      \* bound: edits

VARIABLES
  rules,            \* profile['rule_configs']
  selected,         \* the rules and rulesets the DNS service routes: <<kind, id>>
  page,             \* what each open page was shown
  ruleEdits

rulesVars == <<rules, selected, page, ruleEdits>>

RuleKinds == {"rule", "ruleset"}
Ids == OwnIds \cup Range(NumberedIds)
Rule == [id : Ids, form : Forms, enabled : BOOLEAN, noResolve : BOOLEAN]
NoPage == [open |-> FALSE, order |-> <<>>, selected |-> {}]
IdsOf(list) == {list[i].id : i \in DOMAIN list}
KindOf(list, id) == list[CHOOSE i \in DOMAIN list : list[i].id = id].form.kind

(* -------------------------------- the edits --------------------------------- *)
(* What the repository accepts: ids are unique and what the DNS service routes    *)
(* exists with the right kind (_validate_profile_document).                       *)
Acceptable(list, chosen) ==
  /\ \A i, j \in DOMAIN list : list[i].id = list[j].id => i = j
  /\ \A c \in chosen : c[2] \in IdsOf(list) /\ KindOf(list, c[2]) = c[1]
Save(list, chosen) ==
  /\ Acceptable(list, chosen)
  /\ rules' = list /\ selected' = chosen
Edit == ruleEdits < MaxRuleEdits /\ ruleEdits' = ruleEdits + 1

(* New rules come first.                                                          *)
AddRule(r) == Edit /\ Save(<<r>> \o rules, selected) /\ UNCHANGED page
FreeIds == SelectSeq(NumberedIds, LAMBDA id : id \notin IdsOf(rules))
BatchAdd(forms) ==
  LET New(i) == [id |-> FreeIds[i], form |-> forms[i], enabled |-> TRUE, noResolve |-> FALSE]
  IN  /\ Edit /\ Len(FreeIds) >= Len(forms)
      /\ Save([i \in DOMAIN forms |-> New(i)] \o rules, selected)
      /\ UNCHANGED page

(* _mutate_rule: a deleted rule leaves the selections in the same transaction.    *)
ChangeRule(r) ==
  /\ Edit /\ r.id \in IdsOf(rules)
  /\ Save([i \in DOMAIN rules |-> IF rules[i].id = r.id THEN r ELSE rules[i]], selected)
  /\ UNCHANGED page
DeleteRule(id) ==
  /\ Edit /\ id \in IdsOf(rules)
  /\ Save(SelectSeq(rules, LAMBDA r : r.id # id), {c \in selected : c[2] # id})
  /\ UNCHANGED page

(* reorder_by_ids: the ids go to one end, in their order; what the page does not  *)
(* know keeps its order at the other end.                                         *)
Reordered(list, ids, position) ==
  LET moved == [i \in DOMAIN ids |-> list[CHOOSE j \in DOMAIN list : list[j].id = ids[i]]]
      rest == SelectSeq(list, LAMBDA r : r.id \notin Range(ids))
  IN  IF position = "top" THEN moved \o rest ELSE rest \o moved
MoveRules(ids, position) ==
  /\ Edit /\ Range(ids) \subseteq IdsOf(rules)
  /\ Save(Reordered(rules, ids, position), selected)
  /\ UNCHANGED page

(* A page is opened and saved later: the order of the whole list, or the routed   *)
(* rules, as the page knows them.                                                 *)
OpenPage(p) ==
  /\ ~page[p].open
  /\ page' = [page EXCEPT ![p] = [open |-> TRUE, order |-> [i \in DOMAIN rules |-> rules[i].id], selected |-> selected]]
  /\ UNCHANGED <<rules, selected, ruleEdits>>
ClosePage(p) == page' = [page EXCEPT ![p] = NoPage]
SaveOrder(p, ids) ==
  /\ page[p].open /\ ids \in SetToSeqs(Range(page[p].order))
  /\ Edit /\ Range(ids) \subseteq IdsOf(rules)
  /\ Save(Reordered(rules, ids, "top"), selected)
  /\ ClosePage(p)
SelectRules(p, id, kind) ==
  /\ page[p].open /\ Edit
  /\ Save(rules, page[p].selected \cup {<<kind, id>>})
  /\ ClosePage(p)

(* ------------------------------- what is given ------------------------------ *)
(* split_rules_and_rulesets: what is switched off reaches no client.              *)
Positions == 1..Len(rules)
Shown(i) == i \in Positions /\ rules[i].enabled
IsMatch(i) == rules[i].form.type = "match"
IsLocal(i) == rules[i].form.kind = "rule" /\ ~IsMatch(i)

(* Mihomo gets every item in the order of the list; in a logic rule no-resolve    *)
(* goes into the conditions.  Surge gets the same list, but logic rules without   *)
(* it.  Loon cannot say some types, nor lists that are YAML or MRS; remote rules  *)
(* and logic rules have no no-resolve, and only the last MATCH is kept.           *)
Clients == {"mihomo", "surge", "loon"}
LastMatch(i) == \A j \in Positions : Shown(j) /\ IsMatch(j) => j <= i
Says(client, i) ==
  /\ Shown(i)
  /\ client = "loon" =>
       /\ rules[i].form.type \notin {"other", "binary"}
       /\ IsMatch(i) => LastMatch(i)
NoResolve(client, i) ==
  /\ rules[i].noResolve
  /\ client # "mihomo" => rules[i].form.type # "logic"
  /\ client = "loon" => rules[i].form.kind = "rule"

(* Loon reads its local rules, then the remote ones, then FINAL.                  *)
Turn(i) == IF IsLocal(i) THEN 1 ELSE IF IsMatch(i) THEN 3 ELSE 2
Precedes(client, i, j) ==
  IF client = "loon" /\ Turn(i) # Turn(j) THEN Turn(i) < Turn(j) ELSE i < j

(* ------------------------------ what is decided ----------------------------- *)
NamesIn(i) == UNION {NamesOf[e] : e \in rules[i].form.entries}
AddressesIn(i) == UNION {AddressesOf[e] : e \in rules[i].form.entries}
Resolves(client, i) == Says(client, i) /\ AddressesIn(i) # {} /\ ~NoResolve(client, i)
Resolved(client, i, q) ==
  \/ q.name = NoName \/ Resolves(client, i)
  \/ \E j \in Positions : Precedes(client, j, i) /\ Resolves(client, j)
Hits(client, i, q) ==
  /\ Says(client, i)
  /\ \/ IsMatch(i) \/ q.name \in NamesIn(i)
     \/ q.address \in AddressesIn(i) /\ Resolved(client, i, q)
Decides(client, i, q) ==
  /\ Hits(client, i, q)
  /\ \A j \in Positions : Precedes(client, j, i) => ~Hits(client, j, q)

(* find_duplicate_rules: an enabled rule whose entry an enabled item above it has *)
(* too.  A MATCH has no entry.                                                    *)
Duplicate(i, j) ==
  /\ i < j /\ Shown(i) /\ Shown(j) /\ rules[j].form.kind = "rule" /\ ~IsMatch(j)
  /\ rules[j].form.entries \subseteq rules[i].form.entries

(* ------------------------------ specification ------------------------------- *)
RulesInit ==
  /\ rules \in FirstRules
  /\ selected = {} /\ page = [p \in Pages |-> NoPage] /\ ruleEdits = 0

RulesNext ==
  \/ \E r \in Rule : (r.id \in OwnIds /\ AddRule(r)) \/ ChangeRule(r)
  \/ \E f, g \in Forms : f.kind = "rule" /\ g.kind = "rule" /\ (BatchAdd(<<f>>) \/ BatchAdd(<<f, g>>))
  \/ \E id \in Ids : DeleteRule(id) \/ \E position \in {"top", "bottom"} : MoveRules(<<id>>, position)
  \/ \E p \in Pages :
       \/ OpenPage(p)
       \/ \E ids \in SetToSeqs(Range(page[p].order)) : SaveOrder(p, ids)
       \/ \E id \in Ids, kind \in RuleKinds : SelectRules(p, id, kind)

(* -------------------------------- properties -------------------------------- *)
(* Requests that the clients cannot tell apart: the address is known, or every    *)
(* rule may resolve it.                                                           *)
Plain(q) == q.name = NoName \/ \A i \in Positions : Shown(i) => ~rules[i].noResolve

(* Surge decides every request by the item Mihomo decides it by (surge.py) - but  *)
(* a logic rule that asks for no-resolve resolves there.                          *)
SurgeDecidesAsMihomo ==
  \A q \in Requests :
    q.name = NoName \/ (\A i \in Positions : Shown(i) /\ rules[i].noResolve => rules[i].form.type # "logic")
    => \A i \in Positions : Decides("surge", i, q) <=> Decides("mihomo", i, q)

(* Loon decides otherwise only where it must (loon.py): by something that comes   *)
(* later in the list, when it cannot say the item, when a local rule comes before *)
(* a ruleset, or when rules come after a MATCH.                                   *)
LoonOnlyPrefersLocal ==
  \A q \in Requests, i, j \in Positions :
    Plain(q) /\ Decides("mihomo", i, q) /\ Decides("loon", j, q) /\ j # i =>
      /\ i < j
      /\ \/ ~Says("loon", i) \/ IsMatch(i)
         \/ rules[i].form.kind # "rule" /\ IsLocal(j)

(* A rule reported as the duplicate of an item above it decides nothing, in       *)
(* Mihomo, and can be removed (find_duplicate_rules).                             *)
DuplicatesDecideNothing ==
  \A i, j \in Positions : Duplicate(i, j) =>
    \A q \in Requests : Plain(q) => ~Decides("mihomo", j, q)
=============================================================================
