----------------------------- MODULE ClientGroups -----------------------------
(* The nodes and policy groups that Surge (converters/surge.py) and Loon          *)
(* (converters/loon.py) are given.  Subscriptions and aggregations are named by   *)
(* their address, and Loon gets no group that would be empty: those are removed   *)
(* one by one until none is left.                                                 *)
EXTENDS Naturals, FiniteSets

CONSTANTS
  Nodes, Groups, Sources,
  SourceNodes,      \* the nodes each aggregation has; a subscription has none
  Known,            \* the nodes each client can say
  GroupBodies,      \* what a group may be made of: records as below
  Itself,           \* the group a group follows that follows none
  MaxGroupEdits     \* bound: edits

VARIABLES
  body,             \* the body of each group
  on,               \* the nodes, groups and sources that are enabled
  phase,            \* "editing", "settling" or "done"
  emitted,          \* the groups Loon is still given
  groupEdits

groupsVars == <<body, on, phase, emitted, groupEdits>>

Builtins == {"DIRECT"}

(* A body has what is chosen by hand, the order a person gave (it may hold groups *)
(* too), the groups included without one, the sources and the group it follows.   *)
(*   [manual, ordered, included, sources, follows]                                *)

(* _effective_group: a group that follows another one is made of that one's body, *)
(* which is not followed further.                                                 *)
ShownGroups == {g \in Groups : g \in on}
Effective(g) == IF body[g].follows = Itself THEN body[g] ELSE body[body[g].follows]

(* _group_member_refs: with an order the groups included apart from it are not    *)
(* members, the nodes are.                                                        *)
MemberRefs(b) == b.manual \cup IF b.ordered # {} THEN b.ordered ELSE b.included

(* ----------------------------------- Surge ---------------------------------- *)
(* Nodes of aggregations come with them, unless a group chooses them itself.  Of  *)
(* a group that follows, the first pass reads its own order, the second the       *)
(* order of the group it follows.                                                 *)
UsedNodes == {n \in Nodes : \E g \in ShownGroups : n \in Effective(g).manual \cup body[g].ordered}
ChosenNodes == {n \in Nodes : \E g \in ShownGroups : n \in Effective(g).manual \cup Effective(g).ordered}
UsedSources == {s \in Sources : \E g \in ShownGroups : s \in Effective(g).sources}
OnlyInSources == {n \in Nodes \ ChosenNodes : \E s \in UsedSources \cap on : n \in SourceNodes[s]}
SurgeNodes == (UsedNodes \cap on \cap Known["surge"]) \ OnlyInSources

(* convert_proxy_group_to_surge: every member of the profile is named.            *)
SurgeNames(g) == MemberRefs(Effective(g))
SurgeGroups == {g \in ShownGroups : SurgeNames(g) # {} \/ Effective(g).sources \cap on # {}}

(* ----------------------------------- Loon ----------------------------------- *)
LoonNodes == {n \in Nodes \cap on \cap Known["loon"] : \E g \in ShownGroups : n \in MemberRefs(Effective(g))}

(* What a group offers that is not a group, and the groups it offers: not itself, *)
(* whom the group it follows may include.                                         *)
LoonLeaves(g) ==
  LET b == Effective(g) IN (MemberRefs(b) \cap (Builtins \cup LoonNodes)) \cup (b.sources \cap on)
LoonGroupsOf(g) == (MemberRefs(Effective(g)) \cap Groups) \ {g}
NonEmpty(g, groups) == LoonLeaves(g) # {} \/ LoonGroupsOf(g) \cap groups # {}

Generate ==
  /\ phase = "editing" /\ phase' = "settling"
  /\ emitted' = ShownGroups
  /\ UNCHANGED <<body, on, groupEdits>>
Omit(g) ==
  /\ phase = "settling" /\ g \in emitted /\ ~NonEmpty(g, emitted)
  /\ emitted' = emitted \ {g}
  /\ UNCHANGED <<body, on, phase, groupEdits>>
Emit ==
  /\ phase = "settling" /\ \A g \in emitted : NonEmpty(g, emitted)
  /\ phase' = "done"
  /\ UNCHANGED <<body, on, emitted, groupEdits>>

(* --------------------------------- the edits -------------------------------- *)
EditGroups == phase = "editing" /\ groupEdits < MaxGroupEdits /\ groupEdits' = groupEdits + 1
PutGroup(g, b) ==
  /\ EditGroups /\ b.follows # g
  /\ body' = [body EXCEPT ![g] = b]
  /\ UNCHANGED <<on, phase, emitted>>
Switch(x) ==
  /\ EditGroups
  /\ on' = IF x \in on THEN on \ {x} ELSE on \cup {x}
  /\ UNCHANGED <<body, phase, emitted>>

GroupsInit ==
  /\ body \in [Groups -> {b \in GroupBodies : b.follows = Itself}]
  /\ on = Nodes \cup Groups \cup Sources
  /\ phase = "editing" /\ emitted = {} /\ groupEdits = 0

GroupsNext ==
  \/ \E g \in Groups : Omit(g) \/ \E b \in GroupBodies : PutGroup(g, b)
  \/ \E x \in Nodes \cup Groups \cup Sources : Switch(x)
  \/ Generate \/ Emit

(* -------------------------------- properties -------------------------------- *)
(* What Surge is given of a node it knows is defined where a group names it, also *)
(* when an aggregation brings the node too - while a group that is followed is    *)
(* itself shown (the two passes of generate_surge_config).                        *)
SurgeDefinesWhatItNames ==
  \A g \in SurgeGroups : body[g].follows \in ShownGroups \cup {Itself} =>
    SurgeNames(g) \cap Nodes \cap on \cap Known["surge"] \subseteq SurgeNodes

(* Loon is given no group without a member, and every group that can be used: if  *)
(* groups hold each other and something that Loon knows, none of them goes,       *)
(* whatever the order in which empty ones are removed (generate_loon_config).     *)
LoonGroupsAreUsable ==
  /\ phase = "done" => \A g \in emitted : NonEmpty(g, emitted)
  /\ phase # "editing" =>
       \A groups \in SUBSET ShownGroups : (\A g \in groups : NonEmpty(g, groups)) => groups \subseteq emitted
=============================================================================
