---------------------------- MODULE ProxyTopology ----------------------------
(* Policy groups, proxy chains and raw dialers of one profile: the endpoints that *)
(* edit them, what a transaction accepts, and the Mihomo configuration generated  *)
(* from what was accepted (routes/proxy_groups.py, routes/nodes.py,               *)
(* utils/group_candidates.py, dialer_references.py, proxy_chains.py,              *)
(* mihomo_listeners.py, converters/mihomo.py).                                    *)
(*                                                                                *)
(* A reference is <<kind, id>>.  An id is a tuple of strings: <<"g">> for what is *)
(* stored, longer for the private copies a chain is compiled to.                  *)
EXTENDS Naturals, FiniteSets, Sequences, SequencesExt, TLC

CONSTANTS
  NodeIds, GroupIds, SubIds, AggIds,
  GroupNames,           \* group -> the names an edit may give it
  RawDialers,           \* names a node may give as its raw dialer
  Bodies,               \* what an edit may make of a group, its name aside
  MaxTopologyEdits      \* bound: accepted edits

VARIABLES
  topology,             \* the stored document: nodes, groups, sources, rule, listener
  generated,            \* {the configuration generated from it}, or {} when it is refused
  topologyEdits

topologyVars == <<topology, generated, topologyEdits>>

Nothing == "nothing"
NoRef == <<"none", <<"none">> >>
Direct == <<"builtin", <<"DIRECT">> >>
On(object) == object.state = "on"
Stored(object) == object.state # "absent"
Plain == [state |-> "on", kind |-> "select", name |-> Nothing, members |-> <<>>, subs |-> {}, aggs |-> {},
          follow |-> Nothing, entry |-> NoRef, exit |-> NoRef]

Nodes == {<<n>> : n \in NodeIds}
NodeRef(n) == <<"node", <<n>> >>
GroupRef(g) == <<"group", <<g>> >>
Chains(d) == {g \in GroupIds : Stored(d.group[g]) /\ d.group[g].kind = "chain"}

RECURSIVE Reach(_, _)
Reach(edges, from) ==
  LET next == from \cup {e[2] : e \in {x \in edges : x[1] \in from}}
  IN  IF next = from THEN from ELSE Reach(edges, next)
Below(edges, r) == {e[2] : e \in {x \in edges : x[1] = r}}
Cyclic(edges) == \E e \in edges : e[1] \in Reach(edges, {e[2]})
Edges(refs, Targets(_)) == UNION {{<<r, t>> : t \in Targets(r)} : r \in refs}

(* ------------------------- what a document refers to ----------------------- *)
StoredObject(d, ref) ==
  CASE ref[1] = "node" -> d.node[ref[2][1]]
    [] ref[1] = "group" -> d.group[ref[2][1]]
    [] ref[1] = "sub" -> d.sub[ref[2][1]]
    [] ref[1] = "agg" -> d.agg[ref[2][1]]
    [] OTHER -> [state |-> "on"]

Sources(group) == {<<"sub", <<s>> >> : s \in group.subs} \cup {<<"agg", <<a>> >> : a \in group.aggs}

(* group_dependencies: what a group chooses from, or the group it follows.       *)
GroupDependencies(group) ==
  IF group.follow # Nothing THEN {GroupRef(group.follow)} ELSE ToSet(group.members) \cup Sources(group)

AggregationMembers(agg) == {NodeRef(n) : n \in agg.nodes} \cup {<<"sub", <<s>> >> : s \in agg.subs}

(* dialer_target: a raw name means the one enabled object that has it.           *)
Named(d, name) ==
  {NodeRef(n) : n \in {m \in NodeIds : m = name /\ On(d.node[m])}} \cup
  {GroupRef(g) : g \in {h \in GroupIds : d.group[h].name = name /\ On(d.group[h])}}
DialerTargets(d, node) == IF node.raw = Nothing THEN {} ELSE Named(d, node.raw)

(* _collect_resource_refs: the nodes a profile is resolved with.                 *)
ResolvedNodes(d) ==
  LET direct == {r \in UNION {ToSet(d.group[g].members) \cup {d.group[g].entry, d.group[g].exit} :
                              g \in {h \in GroupIds : Stored(d.group[h])}} : r[1] = "node"}
      grouped == UNION {AggregationMembers(d.agg[a]) :
                        a \in UNION {d.group[g].aggs : g \in {h \in GroupIds : Stored(d.group[h])}}}
      dials == {<<NodeRef(n), NodeRef(d.node[n].raw)>> : n \in {m \in NodeIds : On(d.node[m]) /\ d.node[m].raw \in NodeIds}}
  IN  {r[2][1] : r \in {x \in Reach(dials, direct \cup grouped) : x[1] = "node"}}
Resolved(d) == [d EXCEPT !.node = [n \in NodeIds |-> IF n \in ResolvedNodes(d) THEN @[n] ELSE [@[n] EXCEPT !.state = "absent"]]]

(* chain_exit_dependencies: the candidates of an exit and the chains below it.   *)
ExitChildren(d, ref) ==
  IF ref[1] = "group" /\ StoredObject(d, ref).kind # "chain" THEN GroupDependencies(StoredObject(d, ref))
  ELSE IF ref[1] = "agg" THEN AggregationMembers(StoredObject(d, ref))
  ELSE {}
AllRefs == {NodeRef(n) : n \in NodeIds} \cup {GroupRef(g) : g \in GroupIds}
           \cup {<<"sub", <<s>> >> : s \in SubIds} \cup {<<"agg", <<a>> >> : a \in AggIds} \cup {Direct}
ExitEdges(d) == Edges(AllRefs, LAMBDA r : ExitChildren(d, r))
IsChain(d, ref) == ref[1] = "group" /\ StoredObject(d, ref).kind = "chain"
ExitIsUsable(d, exit) ==
  LET edges == ExitEdges(d)
      below == Reach(edges, {exit})
  IN  /\ Direct \notin below
      /\ \A r \in below :
           /\ On(StoredObject(d, r))
           /\ r[1] \in {"agg", "group"} /\ ~IsChain(d, r) => Below(edges, r) # {}
      /\ ~Cyclic({e \in edges : e[1] \in below})
ExitChains(d, exit) == {r \in Reach(ExitEdges(d), {exit}) : IsChain(d, r)}

(* dependency_graph: everything a dialed node or an enabled chain depends on.    *)
Children(d, ref) ==
  CASE ref[1] = "node" -> DialerTargets(d, StoredObject(d, ref))
    [] ref[1] = "agg" -> AggregationMembers(StoredObject(d, ref))
    [] ref[1] = "group" /\ StoredObject(d, ref).kind = "chain" ->
         {StoredObject(d, ref).entry} \cup ExitChains(d, StoredObject(d, ref).exit)
    [] ref[1] = "group" /\ StoredObject(d, ref).kind # "chain" -> GroupDependencies(StoredObject(d, ref))
    [] OTHER -> {}
DialRoots(d) ==
  {NodeRef(n) : n \in {m \in NodeIds : On(d.node[m]) /\ d.node[m].raw # Nothing}} \cup
  {GroupRef(g) : g \in {h \in Chains(d) : On(d.group[h])}}
DependencyGraph(d) ==
  LET edges == Edges({r \in AllRefs : Stored(StoredObject(d, r))}, LAMBDA r : Children(d, r))
      keys == Reach(edges, DialRoots(d))
  IN  [keys |-> keys, edges |-> {e \in edges : e[1] \in keys}]
GraphIsUsable(d, graph) ==
  /\ \A r \in graph.keys :
       /\ On(StoredObject(d, r))
       /\ r[1] = "node" /\ StoredObject(d, r).raw # Nothing => Cardinality(Below(graph.edges, r)) = 1
       /\ r[1] \in {"group", "agg"} => Below(graph.edges, r) # {}
       /\ r[1] = "group" /\ IsChain(d, r) => ExitIsUsable(d, StoredObject(d, r).exit)
  /\ ~Cyclic(graph.edges)

(* ----------------------------- what is accepted ---------------------------- *)
(* _validate_profile: every reference names something stored, and no group is    *)
(* its own candidate.                                                            *)
ReferencesExist(d) ==
  \A g \in {h \in GroupIds : Stored(d.group[h])} :
    LET group == d.group[g]
        refs == (IF group.kind = "chain" THEN {group.entry, group.exit} ELSE ToSet(group.members) \cup Sources(group))
    IN  /\ \A r \in refs : Stored(StoredObject(d, r))
        /\ group.kind # "chain" => GroupRef(g) \notin refs /\ group.follow # g
        /\ group.follow # Nothing => Stored(d.group[group.follow]) /\ d.group[group.follow].kind # "chain"
        /\ \A h \in GroupIds \ {g} : Stored(d.group[h]) => d.group[h].name # group.name

(* validate_proxy_chains *)
ChainsAreUsable(d) ==
  /\ \A g \in Chains(d) : LET group == d.group[g] IN
       /\ On(StoredObject(d, group.entry)) /\ Stored(StoredObject(d, group.exit))
       /\ On(group) => On(StoredObject(d, group.exit))
       /\ group.entry[1] = "node" => group.entry # group.exit
  /\ Chains(d) # {} => \A g \in GroupIds \ Chains(d) : On(d.group[g]) =>
       \A r \in ToSet(d.group[g].members) : r[1] = "group" => On(StoredObject(d, r))

(* validate_dialers: with dialers in use names are unique, and what a chain      *)
(* reaches - a disabled chain through its entry - is enabled.                    *)
DialersAreUsable(d) ==
  LET graph == DependencyGraph(d)
      active == Chains(d) # {} \/ \E n \in NodeIds : Stored(d.node[n]) /\ d.node[n].raw # Nothing
      Contract(r) == IF r[1] = "agg" \/ ~Stored(StoredObject(d, r)) THEN {}
                     ELSE IF IsChain(d, r) THEN {StoredObject(d, r).entry} ELSE Children(d, r)
      contract == graph.edges \cup Edges(AllRefs \ graph.keys, Contract)
      roots == {GroupRef(g) : g \in Chains(d)}
  IN  /\ active => \A g \in GroupIds : On(d.group[g]) => d.group[g].name \notin {n \in NodeIds : On(d.node[n])}
      /\ GraphIsUsable(d, graph)
      /\ \A r \in Reach(contract, roots) \ roots : On(StoredObject(d, r))

(* _collect_resource_refs also refuses a selected node whose raw dialer names    *)
(* nothing, or several things, of the shared catalog and this profile.           *)
RawNamesAreUnique(d) ==
  \A n \in ResolvedNodes(d) : On(d.node[n]) /\ d.node[n].raw # Nothing =>
    Cardinality({m \in NodeIds : m = d.node[n].raw /\ Stored(d.node[m])})
      + Cardinality({g \in GroupIds : d.group[g].name = d.node[n].raw /\ Stored(d.group[g])}) = 1

Accepted(d) ==
  /\ ReferencesExist(d) /\ RawNamesAreUnique(d)
  /\ \A a \in AggIds : Stored(d.agg[a]) => \A r \in AggregationMembers(d.agg[a]) : Stored(StoredObject(d, r))
  /\ ChainsAreUsable(Resolved(d)) /\ DialersAreUsable(Resolved(d))

(* ----------------------------- the compiled chains ------------------------- *)
(* lower_proxy_chains.  A clone of the exit is dialed through the entry; a chain *)
(* as the exit is (entry -> its entry) -> its exit; a followed group is copied.  *)
RECURSIVE Original(_, _)
Original(d, g) == IF d.group[g].follow = Nothing THEN d.group[g] ELSE Original(d, d.group[g].follow)

Copies(clones) == [nodes |-> UNION {c.nodes : c \in clones}, groups |-> UNION {c.groups : c \in clones}]
ById(copies) == [i \in {c.id : c \in copies} |-> CHOOSE c \in copies : c.id = i]
Digits == <<"1", "2", "3", "4">>

RECURSIVE Clone(_, _, _, _)
(* The exit of a nested chain dialed through the outer entry: A -> C.            *)
Clone(d, ref, dialer, seed) ==
  IF ref[1] = "node" THEN
    [ref |-> <<"node", seed>>, groups |-> {}, nodes |-> {[id |-> seed, origin |-> ref[2], dialer |-> dialer]}]
  ELSE LET original == Original(d, ref[2][1]) IN
    IF original.kind = "chain" THEN
      LET entry == Clone(d, original.entry, dialer, Append(seed, "entry"))
          exit == Clone(d, original.exit, entry.ref, Append(seed, "exit"))
          both == Copies({entry, exit})
      IN  [ref |-> exit.ref, nodes |-> both.nodes, groups |-> both.groups]
    ELSE
      LET candidates == [i \in DOMAIN original.members |->
                           Clone(d, original.members[i], dialer, Append(seed, Digits[i]))]
          all == Copies({candidates[i] : i \in DOMAIN candidates})
      IN  [ref |-> <<"group", seed>>, nodes |-> all.nodes,
           groups |-> all.groups \cup {[id |-> seed, members |-> [i \in DOMAIN candidates |-> candidates[i].ref],
                                        subs |-> original.subs, aggs |-> original.aggs, dialer |-> dialer]}]

(* clone refuses DIRECT as soon as it meets it, also below the entry of a chain  *)
(* that is the exit of another one.                                              *)
RECURSIVE Clonable(_, _)
Clonable(d, ref) ==
  /\ ref # Direct
  /\ ref[1] = "group" => LET original == Original(d, ref[2][1]) IN
       IF original.kind = "chain" THEN Clonable(d, original.entry) /\ Clonable(d, original.exit)
       ELSE \A m \in ToSet(original.members) : Clonable(d, m)
Compiles(d) == \A c \in Chains(d) : On(d.group[c]) => Clonable(d, d.group[c].exit)

RECURSIVE BuildChain(_, _)
BuildChain(d, c) ==
  LET entry == d.group[c].entry
      dialer == IF entry[1] = "group" /\ entry[2][1] \in Chains(d) THEN BuildChain(d, entry[2][1]).ref ELSE entry
  IN  Clone(d, d.group[c].exit, dialer, <<"~", c>>)

Compiled(d) ==
  LET built == {c \in Chains(d) : On(d.group[c])}
      chain == [c \in built |-> BuildChain(d, c)]
      Relinked(r) == IF r[1] = "group" /\ r[2][1] \in built THEN chain[r[2][1]].ref ELSE r
      all == Copies({chain[c] : c \in built})
      plain == {g \in GroupIds : On(d.group[g])} \ Chains(d)
      kept == {n \in NodeIds : On(d.node[n])}
      Own(g) == Original(d, g)
      Dialer(n) == LET t == DialerTargets(d, d.node[n]) IN IF t = {} THEN NoRef ELSE Relinked(CHOOSE r \in t : TRUE)
  IN  [nodes |-> ById(all.nodes \cup {[id |-> <<n>>, origin |-> <<n>>, dialer |-> Dialer(n)] : n \in kept}),
       groups |-> ById(all.groups \cup
         {[id |-> <<g>>, members |-> [i \in DOMAIN Own(g).members |-> Relinked(Own(g).members[i])],
           subs |-> Own(g).subs, aggs |-> Own(g).aggs, dialer |-> NoRef] : g \in plain}),
       chain |-> [c \in built |-> chain[c].ref]]

(* --------------------------- the generated document ------------------------ *)
(* generate_mihomo_config: nodes no group needs are left out, and so are nodes   *)
(* only an aggregation delivers; a subscription an aggregation of the same group *)
(* covers is not delivered twice.                                                *)
Uncovered(d, group) == group.subs \ UNION {d.agg[a].subs : a \in {b \in group.aggs : On(d.agg[b])}}
UsedAggregations(c) == UNION {c.groups[g].aggs : g \in DOMAIN c.groups}
UsedSubscriptions(d, c) == UNION {Uncovered(d, c.groups[g]) : g \in DOMAIN c.groups}

CompiledChildren(c, r) ==
  IF r[1] = "node" /\ r[2] \in DOMAIN c.nodes THEN {c.nodes[r[2]].dialer} \ {NoRef}
  ELSE IF r[1] = "group" /\ r[2] \in DOMAIN c.groups THEN ToSet(c.groups[r[2]].members)
  ELSE {}
CompiledRefs(c) == {<<"node", n>> : n \in DOMAIN c.nodes} \cup {<<"group", g>> : g \in DOMAIN c.groups}
(* dependency_node_ids *)
DependencyNodes(c, roots) ==
  {r \in Reach(Edges(CompiledRefs(c), LAMBDA x : CompiledChildren(c, x)), roots) : r[1] = "node"}

(* The dialers of other nodes left out with what only an aggregation delivers.   *)
EmittedProxies(d, c) ==
  LET direct == {r \in UNION {ToSet(c.groups[g].members) \cup ({c.groups[g].dialer} \ {NoRef}) : g \in DOMAIN c.groups} : r[1] = "node"}
                \cup {<<"node", n>> : n \in {m \in DOMAIN c.nodes : Len(m) > 1}}
      aggregated == {r \in UNION {AggregationMembers(d.agg[a]) : a \in {b \in UsedAggregations(c) : On(d.agg[b])}} : r[1] = "node"}
      needed == DependencyNodes(c, UNION {CompiledChildren(c, r) : r \in direct \cup aggregated})
      used == DependencyNodes(c, direct \cup aggregated)
  IN  (used \ (aggregated \ (direct \cup needed))) \cap {<<"node", n>> : n \in DOMAIN c.nodes}

(* render_members *)
RenderedMembers(d, c, g) ==
  SelectSeq(c.groups[g].members, LAMBDA r : r = Direct \/ Len(r[2]) > 1 \/ Stored(StoredObject(d, r)))
RenderedUse(d, c, g) ==
  {<<"sub", <<s>> >> : s \in Uncovered(d, c.groups[g])} \cup
  {<<"agg", <<a>> >> : a \in {b \in c.groups[g].aggs : On(d.agg[b])}}

Providers(d, c) ==
  {<<"sub", <<s>> >> : s \in {t \in UsedSubscriptions(d, c) : On(d.sub[t])}} \cup
  {<<"agg", <<a>> >> : a \in {b \in UsedAggregations(c) : On(d.agg[b])}}

PoliciesOf(d, e) ==
  {r[2][1] : r \in {p \in e.proxies : Len(p[2]) = 1}} \cup {d.group[g].name : g \in {h \in GroupIds : On(d.group[h])}} \cup {"DIRECT"}

(* lower_chain_providers: a group compiled for a chain has providers of its own, *)
(* dialed through the entry of that chain.                                       *)
Generated(d) ==
  LET r == Resolved(d)
      c == Compiled(r)
  IN  [proxies |-> EmittedProxies(r, c),
       dialer |-> [n \in EmittedProxies(r, c) |-> c.nodes[n[2]].dialer],
       origin |-> [n \in EmittedProxies(r, c) |-> c.nodes[n[2]].origin],
       members |-> [g \in DOMAIN c.groups |-> RenderedMembers(r, c, g)],
       use |-> [g \in DOMAIN c.groups |-> RenderedUse(r, c, g)],
       override |-> [g \in DOMAIN c.groups |-> c.groups[g].dialer],
       providers |-> Providers(r, c),
       chain |-> c.chain,
       rule |-> d.rule, listener |-> d.listener]
Generation(d) == IF Compiles(Resolved(d)) THEN {Generated(d)} ELSE {}

Available(e) == e.proxies \cup {<<"group", g>> : g \in DOMAIN e.members} \cup {Direct}

(* validate_emitted looks only when something is dialed.                         *)
Dialed(e) == (\E n \in e.proxies : e.dialer[n] # NoRef) \/ (\E g \in DOMAIN e.override : e.override[g] # NoRef)
EmittedGraph(e) ==
  Edges(Available(e), LAMBDA r : IF r[1] = "node" THEN {e.dialer[r]} \ {NoRef}
                                 ELSE IF r[1] = "group" THEN ToSet(e.members[r[2]])
                                      \cup (IF e.use[r[2]] # {} THEN {e.override[r[2]]} \ {NoRef} ELSE {})
                                 ELSE {})
EmittedIsUsable(e) ==
  Dialed(e) =>
    /\ \A g \in DOMAIN e.members : IsInjective(e.members[g]) /\ ToSet(e.members[g]) \subseteq Available(e)
    /\ \A n \in e.proxies : e.dialer[n] # NoRef => e.dialer[n] \in Available(e)
    /\ ~Cyclic(EmittedGraph(e))
    /\ \A r \in Reach(EmittedGraph(e), {e.dialer[n] : n \in {m \in e.proxies : e.dialer[m] # NoRef}}) :
         r[1] = "group" => e.members[r[2]] # <<>> \/ e.use[r[2]] # {}

(* validate_rule_policies and validate_listener_policies                         *)
Published(d, e) ==
  /\ EmittedIsUsable(e)
  /\ d.rule \in PoliciesOf(d, e) \cup {Nothing} /\ d.listener \in PoliciesOf(d, e) \cup {Nothing}

(* -------------------------------- the endpoints ---------------------------- *)
(* validate_candidates: an ordinary group - or the group it follows - selects    *)
(* enabled resources and renders at least one of them.                           *)
CandidatesAreUsable(d, group) ==
  group.kind = "chain" \/
  LET source == IF group.follow = Nothing THEN group ELSE d.group[group.follow] IN
  /\ group.follow # Nothing => On(source) /\ source.kind # "chain" /\ source.follow = Nothing
  /\ \A r \in ToSet(source.members) \cup Sources(source) : On(StoredObject(d, r))
  /\ IsInjective(source.members)
  /\ source.members # <<>> \/ Sources(source) # {}

Save(d) == topology' = d

(* incoming_dialers, and the other places that mention a group                   *)
Mentions(d, g) ==
  \/ \E h \in GroupIds \ {g} : Stored(d.group[h]) /\
       (d.group[h].follow = g \/ GroupRef(g) \in ToSet(d.group[h].members) \cup {d.group[h].entry, d.group[h].exit})
  \/ \E e \in DependencyGraph(Resolved(d)).edges : e[2] = GroupRef(g)
  \/ d.rule = d.group[g].name

(* relink_group_listeners, and the rules that name the group                     *)
Renamed_RulesOnly(d, old, new) == [d EXCEPT !.rule = IF @ = old THEN new ELSE @]
Renamed(d, old, new) ==
  [d EXCEPT !.rule = IF @ = old THEN new ELSE @, !.listener = IF @ = old THEN new ELSE @]
Unlinked(d, old) == [d EXCEPT !.listener = IF @ = old THEN Nothing ELSE @]

CreateGroup(g, body) ==
  /\ ~Stored(topology.group[g])
  /\ CandidatesAreUsable(topology, body)
  /\ Save([topology EXCEPT !.group[g] = body])

UpdateGroup(g, body) ==
  LET old == topology.group[g]
      new == [topology EXCEPT !.group[g] = body]
  IN /\ Stored(old) /\ body # old
     /\ CandidatesAreUsable(new, body)
     /\ ~On(body) => ~Mentions(topology, g)
     /\ \A f \in GroupIds : Stored(new.group[f]) /\ new.group[f].follow = g => CandidatesAreUsable(new, new.group[f])
     /\ Save(IF On(body) THEN Renamed(new, old.name, body.name) ELSE Unlinked(new, old.name))

DeleteGroup(g) ==
  /\ Stored(topology.group[g]) /\ ~Mentions(topology, g)
  /\ Save(Unlinked([topology EXCEPT !.group[g] = [Plain EXCEPT !.state = "absent"]], topology.group[g].name))

(* update_shared_transaction: what something selects is neither disabled nor     *)
(* removed.                                                                      *)
NodeInUse(d, n) == n \in ResolvedNodes(d) \/ \E a \in AggIds : Stored(d.agg[a]) /\ n \in d.agg[a].nodes
HandleNode(n, node) ==
  /\ node # topology.node[n]
  /\ On(topology.node[n]) /\ ~On(node) => ~NodeInUse(topology, n)
  /\ Stored(topology.node[n]) \/ node.state = "on"
  /\ Save([topology EXCEPT !.node[n] = node])

AggregationInUse(d, a) == \E g \in GroupIds : Stored(d.group[g]) /\ a \in d.group[g].aggs
HandleAggregation(a, agg) ==
  /\ Stored(topology.agg[a]) /\ agg # topology.agg[a]
  /\ On(topology.agg[a]) /\ ~On(agg) => ~AggregationInUse(topology, a)
  /\ Save([topology EXCEPT !.agg[a] = agg])

HandleRule(policy) == topology.rule # policy /\ Save([topology EXCEPT !.rule = policy])
SaveCustomConfig(target) == topology.listener # target /\ Save([topology EXCEPT !.listener = target])

TopologyInit ==
  /\ topology = [node |-> [n \in NodeIds |-> [state |-> "on", raw |-> Nothing]],
                 group |-> [g \in GroupIds |-> [Plain EXCEPT !.state = "absent"]],
                 sub |-> [s \in SubIds |-> [state |-> "on"]],
                 agg |-> [a \in AggIds |-> [state |-> "on", nodes |-> NodeIds, subs |-> SubIds]],
                 rule |-> Nothing, listener |-> Nothing]
  /\ generated = Generation(topology)
  /\ topologyEdits = 0
(* Every endpoint ends in the transaction that checks the document it leaves.    *)
Commit == Accepted(topology') /\ generated' = Generation(topology') /\ topologyEdits' = topologyEdits + 1
TopologyNext ==
  /\ topologyEdits < MaxTopologyEdits
  /\ \/ \E g \in GroupIds, body \in Bodies : \E n \in GroupNames[g] :
          \/ CreateGroup(g, [body EXCEPT !.name = n])
          \/ \E s \in {"on", "off"} : UpdateGroup(g, [body EXCEPT !.name = n, !.state = s])
     \/ \E g \in GroupIds : DeleteGroup(g)
     \/ \E n \in NodeIds, s \in {"on", "off", "absent"}, t \in {Nothing} \cup RawDialers : HandleNode(n, [state |-> s, raw |-> t])
     \/ \E a \in AggIds, s \in {"on", "off"} : HandleAggregation(a, [topology.agg[a] EXCEPT !.state = s])
     \/ \E p \in UNION {GroupNames[g] : g \in GroupIds} : HandleRule(p) \/ SaveCustomConfig(p)
  /\ Commit

(* -------------------------------- properties ------------------------------- *)
(* The hops a client's traffic takes, read off the stored document: a dialed     *)
(* node is reached through its dialer, a chain's exit through the chain's entry, *)
(* which replaces whatever dialer a candidate of the exit had.                   *)
RECURSIVE Through(_, _, _)
Through(d, ref, before) ==
  IF ref[1] # "group" THEN {Append(p, ref) : p \in before}
  ELSE LET group == Original(d, ref[2][1]) IN
    IF group.kind = "chain" THEN Through(d, group.exit, Through(d, group.entry, before))
    ELSE UNION {Through(d, m, before) : m \in ToSet(group.members)}
         \cup {Append(p, u) : p \in before, u \in Sources([group EXCEPT !.subs = Uncovered(d, group)])}

RECURSIVE Hops(_, _)
Hops(d, ref) ==
  IF ref[1] = "node" THEN
    LET dialers == DialerTargets(d, StoredObject(d, ref)) IN
    IF dialers = {} THEN {<<ref>>} ELSE {Append(p, ref) : p \in UNION {Hops(d, t) : t \in dialers}}
  ELSE IF ref = Direct THEN {<<Direct>>}
  ELSE LET group == Original(d, ref[2][1]) IN
    IF group.kind = "chain" THEN Through(d, group.exit, Hops(d, group.entry))
    ELSE UNION {Hops(d, m) : m \in ToSet(group.members)}
         \cup {<<u>> : u \in Sources([group EXCEPT !.subs = Uncovered(d, group)])}

(* The same read off the generated configuration.                                *)
RECURSIVE EmittedHops(_, _)
EmittedHops(e, ref) ==
  IF ref = Direct THEN {<<Direct>>}
  ELSE IF ref[1] = "node" THEN
    LET self == <<"node", e.origin[ref]>> IN
    IF e.dialer[ref] = NoRef THEN {<<self>>} ELSE {Append(p, self) : p \in EmittedHops(e, e.dialer[ref])}
  ELSE UNION {EmittedHops(e, m) : m \in ToSet(e.members[ref[2]])} \cup
       (IF e.override[ref[2]] = NoRef THEN {<<u>> : u \in e.use[ref[2]]}
        ELSE {Append(p, u) : p \in EmittedHops(e, e.override[ref[2]]), u \in e.use[ref[2]]})

(* A published configuration sends the traffic of every enabled group and chain  *)
(* over exactly the hops the stored document says (lower_proxy_chains, its       *)
(* private copies, and lower_chain_providers).                                   *)
PathsArePreserved ==
  LET d == Resolved(topology)
  IN  \A e \in generated : Dialed(e) /\ EmittedIsUsable(e) =>
        \A g \in {h \in GroupIds : On(topology.group[h])} :
          EmittedHops(e, IF g \in Chains(topology) THEN e.chain[g] ELSE GroupRef(g)) = Hops(d, GroupRef(g))

(* A configuration that is published names nothing it does not define, although  *)
(* candidates, dialers and providers are left out for a dozen reasons and        *)
(* validate_emitted looks only when something is dialed.                         *)
PublishedIsClosed ==
  \A e \in generated : Published(topology, e) =>
    /\ \A g \in DOMAIN e.members : ToSet(e.members[g]) \subseteq Available(e) /\ e.use[g] \subseteq e.providers
    /\ \A n \in e.proxies : e.dialer[n] \in Available(e) \cup {NoRef}
    /\ \A g \in DOMAIN e.members : e.members[g] # <<>> \/ e.use[g] # {}

(* What a transaction accepts passes validate_emitted too: the checks on the      *)
(* stored document foresee everything the compiler makes of it.  One refusal they *)
(* do not foresee: DIRECT below the entry of a chain that is another's exit.      *)
AcceptedIsUsable == \A e \in generated : EmittedIsUsable(e)

(* A rule and a listener keep meaning the group they named, through renames and  *)
(* edits of any group; a listener of a group that goes is released.              *)
PolicyMeans(d, name) == {g \in GroupIds : On(d.group[g]) /\ d.group[g].name = name}
PoliciesFollowTheirGroup ==
  [][topology'.group # topology.group =>
       /\ PolicyMeans(topology, topology.rule) \subseteq PolicyMeans(topology', topology'.rule)
       /\ \/ PolicyMeans(topology, topology.listener) \subseteq PolicyMeans(topology', topology'.listener)
          \/ /\ topology'.listener = Nothing
             /\ \A g \in PolicyMeans(topology, topology.listener) : ~On(topology'.group[g])]_topologyVars
=============================================================================
