-------------------------- MODULE RouterPublication --------------------------
(* Publishing to an upstream router (routers/release.py, plan.py, ros_policy*.py,   *)
(* the RouterOS and iKuai drivers, route_editor.py, routes/routers.py): a release is  *)
(* planned from the settings and the device, its stages are written and read back in  *)
(* order, and a failure undoes what was done in reverse. Other administrators change   *)
(* the device at any time and answers to writes get lost.                              *)
(*                                                                                     *)
(* The device is a set of objects, each with who wrote it last and what it covers; it   *)
(* has one main route per destination. Two groups of names stand for the 256.           *)
EXTENDS Naturals, FiniteSets, SequencesExt

CONSTANTS
  Cidrs,            \* destinations that the rule sets and the fake-ip range give
  Vendors,          \* subset of {"routeros", "ikuai"}
  Selections,       \* <<static, policy>> destinations that the settings may select
  MaxReleases, MaxFaults, MaxForeign      \* bounds: operations, lost or refused writes, changes by others

VARIABLES
  router,           \* settings, and the manifest of the policy bundle (ros_policy_state)
  live,             \* the device and the Agent of the gateway
  release,          \* the operation that has the router's lock
  touched,          \* <<object others wrote during it, the DNS stage had begun, they wrote it last>>
  spent

publicationVars == <<router, live, release, touched, spent>>

Groups == {"g1", "g2"}
Route(c) == <<"route", c>>
Exempt(c) == <<"nat", c>>
Dns == <<"dns", "-">>
ReturnRouting == <<"return", "-">>
Stream == <<"stream", "-">>
Bundle(g) == <<<<"list", g>>, <<"table", g>>, <<"jump", g>>>>
User(g) == <<"user", g>>              \* another program's rule that uses the names of g
Devices ==
  {Route(c) : c \in Cidrs} \cup {Exempt(c) : c \in Cidrs} \cup {Dns, ReturnRouting, Stream} \cup
  UNION {Range(Bundle(g)) \cup {User(g)} : g \in Groups}

Absent == [by |-> "none", is |-> {}]
Managed(s) == [by |-> "cf", is |-> s]
ByHand(s) == [by |-> "hand", is |-> s]
NoBundle == [group |-> "none", dst |-> {}]
Parts(manifest) == IF manifest.group = "none" THEN <<>> ELSE Bundle(manifest.group)

(* What a smart source reaches through the proxy.                                     *)
Proxied(d, c) ==
  \/ d[Route(c)].is = {c}
  \/ c \in d[Stream].is
  \/ \E g \in Groups : \A i \in 1..3 : c \in d[Bundle(g)[i]].is

(* ----------------------------------- plan ---------------------------------- *)
Write(tag, obj, to) == [do |-> "write", tag |-> tag, obj |-> obj, was |-> live[obj], to |-> to]
Writes(tag, objs, To(_)) == [i \in DOMAIN objs |-> Write(tag, objs[i], To(objs[i]))]
Check(stage) == [do |-> "check", tag |-> stage, obj |-> Dns, was |-> Absent, to |-> Absent]
Recheck(stage) == [Check(stage) EXCEPT !.do = "recheck"]
Delete(tag, objs) == Writes(tag, objs, LAMBDA o : Absent)
Objects(Of(_), s) == SetToSeq({Of(c) : c \in s})

(* A destination whose own route goes elsewhere is skipped, and stays as it is.        *)
Conflicts == {c \in router.static : live[Route(c)].by # "none" /\ live[Route(c)].is = {}}
Wanted == router.static \ Conflicts

ByPolicyRule == router.vendor = "ikuai"
PolicyOnly == router.policy \ router.static
Owned == {o \in Range(Parts(router.manifest)) : live[o] # Absent}
OwnedIsOurs == \A o \in Owned : live[o] = Managed(router.manifest.dst)
Unreferenced == router.manifest.group # "none" => live[User(router.manifest.group)] = Absent
Migrating == IF router.policy = {} THEN {} ELSE {c \in PolicyOnly : live[Route(c)] = Managed({c})}
NatMigrating == IF router.policy = {} THEN {} ELSE {c \in PolicyOnly : live[Exempt(c)] = Managed({c})}
Unchanged ==
  IF router.policy = {} THEN router.manifest = NoBundle
  ELSE /\ router.manifest.dst = router.policy /\ Cardinality(Owned) = 3
       /\ Migrating = {} /\ NatMigrating = {}
Free == {g \in Groups : live[User(g)] = Absent /\ \A o \in Range(Bundle(g)) : live[o] = Absent}
NextGroup == CHOOSE g \in Free : TRUE
Foreign == {g \in Groups \ {router.manifest.group} : live[<<"jump", g>>] # Absent}

RouteSteps(tag) ==
  Writes(tag, Objects(Route, {c \in Wanted : live[Route(c)] # Managed({c})}), LAMBDA o : Managed({o[2]})) \o
  Delete(tag, Objects(Route, {c \in Cidrs \ (router.static \cup Migrating) : live[Route(c)].by = "cf"}))
StreamSteps ==
  (IF live[Stream] # Managed(Wanted) THEN <<Write("route", Stream, Managed(Wanted))>> ELSE <<>>) \o
  Delete("route", Objects(Route, {c \in Cidrs : live[Route(c)].is = {c} /\ (c \in Wanted \/ live[Route(c)].by = "cf")}))
NatSteps(tag) == Writes(tag, Objects(Exempt, {c \in Wanted : live[Exempt(c)] # Managed({c})}), LAMBDA o : Managed({o[2]}))

(* Destinations that go from the old policy to the main table.                          *)
Withdrawn == Wanted \cap (router.manifest.dst \ router.policy)
NewParts == IF router.policy = {} THEN <<>> ELSE Bundle(NextGroup)
OldPart(kind) == LET o == <<kind, router.manifest.group>> IN IF o \in Owned THEN <<o>> ELSE <<>>
PolicySteps ==
  IF Unchanged THEN <<>> ELSE
  Writes("policy", NewParts, LAMBDA o : Managed(router.policy)) \o
  Delete("policy", Objects(Route, Migrating) \o Objects(Exempt, NatMigrating)) \o
  Delete("policy", OldPart("jump") \o OldPart("table") \o OldPart("list"))

RoutesAndNat ==
  LET Prepare == NatSteps("prepare") \o RouteSteps("prepare")
  IN  IF ByPolicyRule THEN StreamSteps \o <<Check("routes")>> \o NatSteps("nat") \o <<Check("nat")>>
      ELSE IF ~Unchanged /\ Withdrawn # {}
      THEN Prepare \o <<Check("static"), Check("nat")>> \o PolicySteps \o <<Check("routes"), Check("nat")>>
      ELSE RouteSteps("route") \o PolicySteps \o <<Check("routes")>> \o NatSteps("nat") \o <<Check("nat")>>

ReturnSpec ==
  Wanted \cup router.policy \cup {c \in Cidrs : live[Exempt(c)].is = {c}} \cup (live[ReturnRouting].is \cap Conflicts)
ReturnSteps ==
  IF ~router.ret THEN <<>>
  ELSE (IF live[ReturnRouting] # Managed(ReturnSpec) THEN <<Write("return", ReturnRouting, Managed(ReturnSpec))>> ELSE <<>>)
       \o <<Check("return")>>

(* "Recheck its scope and forwarding prerequisites immediately before advertising it".  *)
DnsSteps ==
  IF ~router.dns THEN <<>>
  ELSE IF live[Dns] # Managed({}) THEN <<Recheck("routes"), Recheck("nat"), Write("dns", Dns, Managed({})), Check("dns")>>
  ELSE <<Check("dns")>>

Blocked ==
  \/ router.dns /\ Conflicts # {}
  \/ \E c \in Wanted : live[Exempt(c)].by # "none" /\ live[Exempt(c)].is = {}
  \/ ~ByPolicyRule /\ (router.policy # {} \/ router.manifest # NoBundle) /\
       \/ ~OwnedIsOurs \/ ~Unreferenced
       \/ router.policy # {} /\ (Foreign # {} \/ (~Unchanged /\ Free = {}))
       \/ ~Unchanged /\ Conflicts \cap (router.manifest.dst \ router.policy) # {}

Plan == ReturnSteps \o RoutesAndNat \o DnsSteps

(* ---------------------------------- release -------------------------------- *)
Idle == [pc |-> "idle", kind |-> "release", todo |-> <<>>, done |-> <<>>, failed |-> FALSE, grouped |-> FALSE,
         before |-> live, wanted |-> {}, spec |-> {}, bundle |-> NoBundle]

(* router_apply: the plan is built again under the lock and is the one that was          *)
(* previewed, fingerprint and all.                                                        *)
Apply ==
  /\ release.pc = "idle" /\ spent.releases < MaxReleases /\ ~Blocked
  /\ release' = [Idle EXCEPT !.pc = "run", !.todo = Plan, !.wanted = Wanted \cup router.policy, !.spec = ReturnSpec,
       !.bundle = IF Unchanged THEN router.manifest ELSE IF router.policy = {} THEN NoBundle
                  ELSE [group |-> NextGroup, dst |-> router.policy]]
  /\ touched' = {}
  /\ spent' = [spent EXCEPT !.releases = @ + 1]
  /\ UNCHANGED <<router, live>>

(* apply_device_route: one route that was read in this very operation, any owner.         *)
EditRoute ==
  /\ release.pc = "idle" /\ spent.releases < MaxReleases
  /\ \E c \in Cidrs : \E to \in {Absent, ByHand({}), ByHand({c})} \ {live[Route(c)]} :
       release' = [Idle EXCEPT !.pc = "run", !.kind = "manual", !.todo = <<Write("manual", Route(c), to)>>]
  /\ touched' = {}
  /\ spent' = [spent EXCEPT !.releases = @ + 1]
  /\ UNCHANGED <<router, live>>

(* Only some writes look again at what they replace; the rest name the object by its id.   *)
Ready(s) ==
  CASE s.was = Absent -> live[s.obj] = Absent
    [] s.tag \in {"policy", "dns"} \/ s.obj[1] = "nat" -> live[s.obj] = s.was
    [] OTHER -> live[s.obj] # Absent

(* A route is adopted by its comment alone.                                                *)
Result(s) == IF s.tag \in {"route", "prepare"} /\ s.obj[1] = "route" /\ s.was # Absent /\ s.to # Absent
             THEN Managed(live[s.obj].is) ELSE s.to
Perform(s) ==
  /\ live' = [live EXCEPT ![s.obj] = Result(s)]
  /\ touched' = {IF t[1] = s.obj THEN <<t[1], t[2], FALSE>> ELSE t : t \in touched}
Undo(s) == [tag |-> s.tag, obj |-> s.obj, was |-> IF s.was = Absent THEN Absent ELSE live[s.obj], wrote |-> Result(s)]
Fail(kept) == release' = [release EXCEPT !.pc = "undo", !.todo = <<>>, !.failed = @ \/ kept]
FailAfter(s, kept) ==
  release' = [release EXCEPT !.pc = "undo", !.todo = <<>>, !.done = Append(@, Undo(s)), !.failed = @ \/ kept]

Put ==
  /\ release.pc = "run" /\ release.todo # <<>> /\ Head(release.todo).do = "write"
  /\ LET s == Head(release.todo) IN
       IF Ready(s)
       THEN /\ Perform(s)
            /\ release' = [release EXCEPT !.todo = Tail(@), !.done = Append(@, Undo(s))]
       ELSE Fail(FALSE) /\ UNCHANGED <<live, touched>>
  /\ UNCHANGED <<router, spent>>

Fault == spent.faults < MaxFaults /\ spent' = [spent EXCEPT !.faults = @ + 1]
Refused ==
  /\ release.pc = "run" /\ release.todo # <<>> /\ Head(release.todo).do = "write" /\ Fault
  /\ Fail(FALSE)
  /\ UNCHANGED <<router, live, touched>>

(* The answer got lost. An object that RouterOS was to create is left to whoever looks, for *)
(* its owner is unknown; a policy object is recognised by its values. What was to be         *)
(* changed or removed was recorded before. iKuai and the Agent have no record, except of      *)
(* the DHCP form and of a route that an editor named.                                        *)
Recorded(s, applied) ==
  IF s.obj = ReturnRouting THEN FALSE
  ELSE IF router.vendor = "ikuai" THEN s.tag \in {"dns", "manual"}
  ELSE s.was # Absent \/ (s.tag = "policy" /\ applied)
LeftToLook(s, applied) ==
  /\ router.vendor = "routeros" /\ s.was = Absent /\ s.obj # ReturnRouting
  /\ IF s.tag = "policy" THEN ~applied ELSE s.tag # "manual" \/ applied

LostBy(Rec(_, _)) ==
  /\ release.pc = "run" /\ release.todo # <<>> /\ Head(release.todo).do = "write" /\ Ready(Head(release.todo)) /\ Fault
  /\ LET s == Head(release.todo) IN \E applied \in BOOLEAN :
       /\ IF applied THEN Perform(s) ELSE UNCHANGED <<live, touched>>
       /\ IF Rec(s, applied) THEN FailAfter(s, LeftToLook(s, applied)) ELSE Fail(LeftToLook(s, applied))
  /\ UNCHANGED router
Lost == LostBy(Recorded)

Routed(c) == IF ByPolicyRule THEN c \in live[Stream].is ELSE live[Route(c)] = Managed({c})
Holds(stage) ==
  CASE stage = "return" -> live[ReturnRouting] = Managed(release.spec)
    [] stage = "dns" -> live[Dns] = Managed({})
    [] stage = "nat" -> \A c \in release.wanted \cap router.static : live[Exempt(c)] = Managed({c})
    [] stage = "static" -> \A c \in release.wanted \cap router.static : Routed(c)
    [] OTHER ->
         /\ \A c \in release.wanted \cap router.static : Routed(c)
         /\ ~ByPolicyRule => /\ \A o \in Range(Parts(release.bundle)) : live[o] = Managed(release.bundle.dst)
                             /\ router.manifest # release.bundle =>
                                  \A o \in Range(Parts(router.manifest)) : live[o] = Absent

(* The stage is read back; an object that was changed meanwhile fails it.                   *)
Verify ==
  /\ release.pc = "run" /\ release.todo # <<>> /\ Head(release.todo).do \in {"check", "recheck"}
  /\ IF Holds(Head(release.todo).tag) THEN release' = [release EXCEPT !.todo = Tail(@)] ELSE Fail(FALSE)
  /\ UNCHANGED <<router, live, touched, spent>>

ReadBack ==
  /\ release.pc = "run" /\ release.todo = <<>>
  /\ IF release.kind = "manual" /\ \E i \in DOMAIN release.done : live[release.done[i].obj] # release.done[i].wrote
     THEN Fail(FALSE)
     ELSE release' = [release EXCEPT !.pc = "save"]
  /\ UNCHANGED <<router, live, touched, spent>>

(* --------------------------------- rollback -------------------------------- *)
GroupOf(u) == u.obj[2]
(* The undo entries go in reverse. Objects others use stay, and the replacement of a path    *)
(* stays when the path could not be restored.                                                 *)
Kept(u) ==
  \/ u.tag = "policy" /\ u.was = Absent /\ u.obj[1] \in {"list", "table", "jump"} /\ live[User(GroupOf(u))] # Absent
  \/ u.tag = "prepare" /\ release.grouped

Popped(failed) ==
  LET u == Last(release.done) IN
  release' = [release EXCEPT !.done = Front(@), !.failed = @ \/ failed,
                             !.grouped = @ \/ (failed /\ u.tag = "policy")]

Rollback_Unguarded ==
  /\ release.pc = "undo" /\ release.done # <<>>
  /\ LET u == Last(release.done) IN live' = [live EXCEPT ![u.obj] = u.was] /\ Popped(FALSE)
  /\ UNCHANGED <<router, touched, spent>>

Rollback ==
  /\ release.pc = "undo" /\ release.done # <<>>
  /\ LET u == Last(release.done) IN
       CASE Kept(u) -> Popped(TRUE) /\ UNCHANGED live
         [] ~Kept(u) /\ live[u.obj] = u.was -> Popped(FALSE) /\ UNCHANGED live
         [] ~Kept(u) /\ live[u.obj] # u.was /\ (live[u.obj] = u.wrote \/ (router.vendor = "ikuai" /\ release.kind = "release"
                                                    /\ u.obj # Dns /\ live[u.obj] # Absent)) ->
              live' = [live EXCEPT ![u.obj] = u.was] /\ Popped(FALSE)
         [] OTHER -> Popped(TRUE) /\ UNCHANGED live
  /\ UNCHANGED <<router, touched, spent>>

RollbackFails ==
  /\ release.pc = "undo" /\ release.done # <<>> /\ Fault
  /\ LET u == Last(release.done) IN
       /\ ~Kept(u) /\ live[u.obj] = u.wrote
       /\ \/ UNCHANGED live
          \/ live' = [live EXCEPT ![u.obj] = u.was]
  /\ Popped(TRUE)
  /\ UNCHANGED <<router, touched>>

RolledBack ==
  /\ release.pc = "undo" /\ release.done = <<>>
  /\ release' = [release EXCEPT !.pc = "undone"]
  /\ UNCHANGED <<router, live, touched, spent>>

(* save_router_publication: the manifest of what is on the device now.                       *)
Save ==
  /\ release.pc \in {"save", "undone"}
  /\ router' = IF release.kind = "release" /\ release.pc = "save" THEN [router EXCEPT !.manifest = release.bundle] ELSE router
  /\ release' = Idle
  /\ UNCHANGED <<live, touched, spent>>

(* --------------------------------- settings -------------------------------- *)
(* PUT of the router: a rule set is static or policy, the latter on RouterOS only.            *)
UpdateRouter ==
  /\ release.pc = "idle" /\ spent.releases < MaxReleases
  /\ \E s \in Selections \ {<<router.static, router.policy>>} :
       /\ s[1] \cap s[2] = {} /\ (ByPolicyRule => s[2] = {})
       /\ router' = [router EXCEPT !.static = s[1], !.policy = s[2]]
  /\ UNCHANGED <<live, release, touched, spent>>

(* -------------------------------- environment ------------------------------ *)
Theirs(s) == [by |-> "other", is |-> s]
ByOthers(o) ==
  CASE o[1] \in {"route", "nat"} -> {Absent, Theirs({}), Theirs({o[2]})}
    [] o[1] \in {"dns", "user"} -> {Theirs({})}
    [] OTHER -> {Absent, Theirs(Cidrs)}

InDnsStage == release.pc = "run" /\ release.todo # <<>> /\ (Head(release.todo).do = "recheck" \/ Head(release.todo).tag = "dns")
OthersWrite ==
  /\ spent.foreign < MaxForeign
  /\ \E o \in Devices \ {ReturnRouting, Stream} : \E v \in ByOthers(o) \ {live[o]} :
       /\ o[1] \in {"list", "table", "jump"} => live[o] # Absent
       /\ o[1] = "user" => live[<<"table", o[2]>>] # Absent
       /\ live' = [live EXCEPT ![o] = v]
       /\ touched' = touched \cup {<<o, InDnsStage, TRUE>>}
  /\ spent' = [spent EXCEPT !.foreign = @ + 1]
  /\ UNCHANGED <<router, release>>

(* The panel ends: the rest of the operation, its undo and its manifest are gone.              *)
PanelEnds ==
  /\ release.pc # "idle" /\ Fault
  /\ release' = Idle
  /\ UNCHANGED <<router, live, touched>>

PublicationInit ==
  /\ \E v \in Vendors, s \in Selections, d, r \in BOOLEAN :
       /\ v = "ikuai" => s[2] = {}
       /\ router = [vendor |-> v, static |-> s[1], policy |-> s[2], dns |-> d, ret |-> r, manifest |-> NoBundle]
  /\ \E hand \in {{}, Cidrs} :
       live = [o \in Devices |-> IF o[1] = "route" /\ o[2] \in hand THEN ByHand({o[2]})
                                 ELSE IF o = Dns THEN ByHand({}) ELSE Absent]
  /\ release = Idle /\ touched = {}
  /\ spent = [releases |-> 0, faults |-> 0, foreign |-> 0]

PublicationNext ==
  \/ Apply \/ EditRoute \/ Put \/ Refused \/ Lost \/ Verify \/ ReadBack
  \/ Rollback \/ RollbackFails \/ RolledBack \/ Save \/ UpdateRouter \/ OthersWrite \/ PanelEnds
PublicationSpec == PublicationInit /\ [][PublicationNext]_publicationVars

(* -------------------------------- properties ------------------------------- *)
Touched == {t[1] : t \in touched}

(* A rollback on RouterOS leaves alone what somebody else wrote during the release             *)
(* ("Compensate only objects whose stable fields still match our write").                      *)
OthersAreKept ==
  [][\A o \in {t[1] : t \in {u \in touched : u[3]}} :
       release.pc = "undo" /\ router.vendor = "routeros" /\ spent'.foreign = spent.foreign /\ live[o] # Absent
         => live'[o] = live[o]]_publicationVars

(* Unless a failed undo was reported or others changed it, a failed RouterOS release leaves     *)
(* every object of the router as it was.                                                       *)
RolledBackIsWhole ==
  release.pc = "undone" /\ router.vendor = "routeros" /\ ~release.failed =>
    \A o \in Devices \ (Touched \cup {ReturnRouting}) : live[o] = release.before[o]

(* "Roll back in reverse on failure": so it should be on every router.                           *)
FailedReleaseIsUndone ==
  release.pc = "undone" /\ ~release.failed => \A o \in Devices \ Touched : live[o] = release.before[o]

(* A destination that was proxied and stays so is proxied at every step of a release, its        *)
(* rollback included, until others change something, an undo fails or an answer of iKuai is lost. *)
PathIsKept ==
  /\ release.pc # "idle" /\ release.kind = "release" /\ touched = {} /\ ~release.failed
  /\ router.vendor = "ikuai" => spent.faults = 0
  =>
    \A c \in release.wanted : Proxied(release.before, c) => Proxied(live, c)

(* DHCP sends clients to the proxy's DNS only when the destinations it answers with are          *)
(* routed and exempt from NAT, whatever others did in the stages before.                         *)
DnsNeedsPath ==
  [][live[Dns] # Managed({}) /\ live'[Dns] = Managed({}) /\ release.pc = "run" =>
       \A c \in release.wanted \cap router.static :
         \/ \E t \in touched : t[1] \in {Route(c), Exempt(c)} /\ t[2]
         \/ Routed(c) /\ live[Exempt(c)] = Managed({c})]_publicationVars

(* Policy objects on the router that the stored manifest does not name were left by a lost answer,  *)
(* by the end of the panel, or for others who use them.                                          *)
ManifestIsTrue ==
  release.pc = "idle" /\ spent.faults = 0 =>
    \A g \in Groups \ {router.manifest.group} :
      live[User(g)] = Absent => \A o \in Range(Bundle(g)) : live[o].by # "cf"
=============================================================================
