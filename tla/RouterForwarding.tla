--------------------------- MODULE RouterForwarding ---------------------------
(* What the panel concludes from a router's tables before it writes (routers/base.py *)
(* StaticRouteIndex, routers/routeros_nat.py, ros_policy.smart_sources), against what  *)
(* the router does with a packet. Networks are the sets of their addresses.            *)
EXTENDS Naturals, FiniteSets, Sequences

CONSTANTS
  Target,           \* the destination that is published
  Rows,             \* main-table routes: [net, hop, active, distance, managed], one hop is "gateway"
  Rules,            \* source NAT rules: [src, dst, out, action, other, managed]
  Policies,         \* device policies: [net, mode]
  ClientSources, GatewayAddress,
  MaxRows           \* bound on each table

VARIABLES routes, rules, policies

tables == <<routes, rules, policies>>

(* --------------------------------- forwarding ------------------------------ *)
(* The router: of the active routes that hold the address, those of the longest prefix. *)
Longest(rs, x) == {r \in rs : x \in r.net /\ \A o \in rs : x \in o.net => Cardinality(r.net) <= Cardinality(o.net)}
Forwards(x) == Longest({r \in routes : r.active}, x)

(* _preferred_routes: what may be chosen; an inactive sibling at no greater distance is   *)
(* not ruled out.                                                                        *)
Preferred(group) ==
  LET live == {r \in group : r.active}
      least == CHOOSE d \in {r.distance : r \in live} : \A r \in live : d <= r.distance
  IN  IF live = {} THEN {} ELSE {r \in group : r.active \/ r.distance <= least}
Group(net) == {r \in routes : r.net = net}
Inside == {r.net : r \in {o \in routes : o.net \subseteq Target}}

(* select: every part of the target takes the group of its longest prefix.               *)
SelectedNet(x) ==
  LET nets == {n \in Inside : x \in n /\ Preferred(Group(n)) # {}}
  IN  {n \in nets : \A m \in nets : Cardinality(n) <= Cardinality(m)}
Selected == UNION {Preferred(Group(n)) : n \in UNION {SelectedNet(x) : x \in Target}}
Covered == \A x \in Target : SelectedNet(x) # {}
Conflict == \E r \in Selected : r.hop # "gateway"
Anchors == Preferred(Group(Target))
(* Who must own them: the exact route when it goes to the gateway, or else all the parts. *)
Candidates ==
  LET Own(g) == LET live == {r \in g : r.active} IN CHOOSE r \in live : (\E o \in live : o.managed) => r.managed
  IN  IF ~Covered \/ Conflict THEN {}
      ELSE IF Anchors # {} /\ \A r \in Anchors : r.hop = "gateway" THEN {Own(Anchors)}
      ELSE {Own(Preferred(Group(n))) : n \in UNION {SelectedNet(x) : x \in Target}}

RouteStatus ==
  IF Candidates # {} THEN (IF \A r \in Candidates : r.managed THEN "synced" ELSE "adoptable")
  ELSE IF Group(Target) # {} \/ Conflict THEN "conflict" ELSE "missing"

(* ------------------------------------ NAT ---------------------------------- *)
(* _egress: the interface of the selected routes, or of the gateway's own network.        *)
Egress == IF Conflict \/ (~Covered /\ Group(Target) # {}) THEN "unknown" ELSE "lan"
(* _selector_matches: TRUE, FALSE or not known.                                            *)
OutMatches(rule, egress) ==
  IF rule.out = "any" THEN "yes"
  ELSE IF rule.out = "list" \/ egress = "unknown" THEN "maybe"
  ELSE IF rule.out = egress THEN "yes" ELSE "no"
Translates(rule) == rule.action = "masquerade"

(* What the chain does to a packet. A matcher that the panel does not know may match.       *)
May(rule, src, dst) ==
  IF src \notin rule.src \/ dst \notin rule.dst THEN {FALSE}
  ELSE CASE rule.out \in {"any", "lan"} /\ ~rule.other -> {TRUE}
         [] rule.out = "wan" -> {FALSE}
         [] OTHER -> BOOLEAN
MayTranslate(chain, src, dst) ==
  \E i \in DOMAIN chain :
    /\ Translates(chain[i]) /\ TRUE \in May(chain[i], src, dst)
    /\ \A j \in 1..(i - 1) : chain[j].action # "log" => FALSE \in May(chain[j], src, dst)

(* preserves_sources: the pairs that no rule has decided, rule after rule.                  *)
Discharges_AnyMatcher(rule) == rule.action = "accept"
Discharges(rule) == rule.action = "accept" /\ ~rule.other /\ OutMatches(rule, Egress) = "yes"
Decided == {<<0, 0>>}
Left(pairs, rule) ==
  LET hit == {p \in pairs : p[1] \in rule.src /\ p[2] \in rule.dst}
  IN  IF hit = {} \/ OutMatches(rule, Egress) = "no" \/ rule.action = "log" \/ pairs = Decided THEN pairs
      ELSE IF rule.action # "accept" THEN Decided
      ELSE IF Discharges(rule) THEN pairs \ hit ELSE pairs
Pending(chain) ==
  LET pending[n \in 0..Len(chain)] ==
        IF n = 0 THEN ClientSources \X Target ELSE Left(pending[n - 1], chain[n])
  IN  pending[Len(chain)]
PreservesSources(chain) == Pending(chain) # Decided
Accepting(chain) ==
  {i \in DOMAIN chain : Pending(SubSeq(chain, 1, i)) # Pending(SubSeq(chain, 1, i - 1)) /\ chain[i].action = "accept"}

(* assess_nat: may any rule translate at all?                                              *)
AssessNat(chain) ==
  LET may == {i \in DOMAIN chain : chain[i].action \notin {"accept", "log"} /\ OutMatches(chain[i], Egress) # "no"}
  IN  CASE \E i \in may : OutMatches(chain[i], Egress) = "maybe" \/ chain[i].action = "jump" -> "unknown"
        [] may = {} -> "not_required"
        [] OTHER -> "missing"

AssessBypass(chain) ==
  IF AssessNat(chain) = "not_required" THEN "not_required"
  ELSE IF PreservesSources(chain)
  THEN IF Accepting(chain) = {} THEN "not_required"
       ELSE IF \A i \in Accepting(chain) : chain[i].managed THEN "synced" ELSE "adoptable"
  ELSE IF \E i \in DOMAIN chain : chain[i].action = "accept" /\ chain[i].dst \cap Target # {} THEN "unknown"
  ELSE AssessNat(chain)

(* nat_add: first of the chain, for the clients and this destination.                        *)
NewExemption == [src |-> ClientSources, dst |-> Target, out |-> "any", action |-> "accept", other |-> FALSE, managed |-> TRUE]
Published == IF AssessBypass(rules) = "missing" THEN <<NewExemption>> \o rules ELSE rules

(* --------------------------------- sources --------------------------------- *)
(* smart_sources: broad policies first, so that narrow ones correct them; never the gateway. *)
BroadFirst(list) ==
  /\ \A p \in policies : \E i \in DOMAIN list : list[i] = p
  /\ \A i, j \in DOMAIN list : i < j => Cardinality(list[j].net) <= Cardinality(list[i].net)
Ordered == CHOOSE list \in [1..Cardinality(policies) -> policies] : BroadFirst(list)
Smart(list) ==
  LET smart[n \in 0..Len(list)] ==
        IF n = 0 THEN {}
        ELSE IF list[n].mode = "smart" THEN smart[n - 1] \cup list[n].net ELSE smart[n - 1] \ list[n].net
  IN  smart[Len(list)]
SmartSources == Smart(Ordered) \ {GatewayAddress}

(* -------------------------------- behaviour -------------------------------- *)
AddRoute == \E r \in Rows \ routes : Cardinality(routes) < MaxRows /\ routes' = routes \cup {r} /\ UNCHANGED <<rules, policies>>
AddRule == \E r \in Rules : Len(rules) < MaxRows /\ rules' = Append(rules, r) /\ UNCHANGED <<routes, policies>>
AddPolicy ==
  \E p \in Policies : /\ \A o \in policies : o.net # p.net
                      /\ policies' = policies \cup {p} /\ UNCHANGED <<routes, rules>>

ForwardingInit == routes = {} /\ rules = <<>> /\ policies = {}
ForwardingNext ==
  \/ rules = <<>> /\ policies = {} /\ AddRoute
  \/ Cardinality(routes) <= 1 /\ policies = {} /\ AddRule
  \/ routes = {} /\ rules = <<>> /\ AddPolicy
ForwardingSpec == ForwardingInit /\ [][ForwardingNext]_tables

(* -------------------------------- properties ------------------------------- *)
(* A destination that is reported synced or adoptable is forwarded to the gateway, all of it, *)
(* and the routes to own are active, lead there and cover it.                                 *)
RouteEvidenceIsSound ==
  RouteStatus \in {"synced", "adoptable"} =>
    /\ \A x \in Target : Forwards(x) # {} /\ \A r \in Forwards(x) : r.hop = "gateway"
    /\ Target \subseteq UNION {r.net : r \in Candidates}
    /\ \A r \in Candidates : r.active /\ r.hop = "gateway"

(* A destination reported exempt has no client packet translated, whatever the matchers that  *)
(* the panel cannot judge do; and so has one that was missing, once published.                *)
ExemptionIsSound ==
  AssessBypass(rules) \in {"synced", "adoptable", "not_required", "missing"} =>
    \A s \in ClientSources, d \in Target : ~MayTranslate(Published, s, d)

(* A device takes the policy of the narrowest entry that holds it; the gateway takes none.    *)
NarrowestPolicyWins ==
  \A a \in (UNION {p.net : p \in policies}) \cup {GatewayAddress} :
    a \in SmartSources <=>
      a # GatewayAddress /\ \E p \in policies :
        a \in p.net /\ p.mode = "smart" /\ \A o \in policies : a \in o.net => Cardinality(p.net) <= Cardinality(o.net)
=============================================================================
