--------------------------- MODULE ProviderDelivery ---------------------------
(* What a client downloads as a provider (utils/provider_delivery.py,             *)
(* provider_response.py, subscription_refresh.py, routes/aggregations.py,          *)
(* routes/subscriptions.py): the sources are fetched or taken from a cache, the     *)
(* whole set is validated once a single proxy in it dials through another, and       *)
(* caches, the artifact of the aggregation and the last good answer are written      *)
(* only then, while the profile is edited and other deliveries run.                  *)
EXTENDS Integers, FiniteSets

CONSTANTS
  Subs,            \* subscriptions; one aggregation merges them
  Interval,        \* subscription -> how many days its data is good, 0 when only a person updates it
  SourceKinds,        \* what a source may hold, of "plain", "loose", "dialing", "bad"
  Chained,         \* editions of the profile whose own configuration has chains
  MaxEditions, MaxChanges, MaxDays, MaxDeliveries     \* bounds

ASSUME DeliveryAssumption ==
  /\ {"agg", "all"} \cap Subs = {} /\ Interval \in [Subs -> Nat]
  /\ {"none", "down"} \cap SourceKinds = {} /\ MaxEditions \in Nat \ {0}

(* "loose" has a name twice, which only a configuration without dialers accepts;    *)
(* "dialing" has a proxy that dials through another; "bad" is malformed or dials      *)
(* what does not exist.                                                              *)
VARIABLES
  today,           \* the clock
  edition,         \* revision of the profile
  remote,          \* subscription -> what its URL delivers, or "down"
  nodeCache,           \* its published nodes, with the date the cache gives them
  download,        \* its last download, dated
  byHand,          \* its manual update between the download and the cache
  deliveries,      \* target -> edition -> the delivery in flight
  artifact,        \* the aggregation's file
  lastAnswer,          \* provider -> last content served with success
  client,          \* provider -> the edition it waits for, 0 when answered
  changes, begun

deliveryVars ==
  <<today, edition, remote, nodeCache, download, byHand, deliveries, artifact, lastAnswer, client, changes, begun>>
data == <<nodeCache, download, byHand>>
answers == <<artifact, lastAnswer, client>>
world == <<today, edition, remote, changes>>

Providers == Subs \cup {"agg"}
Targets == Providers \cup {"all"}     \* "all" is the list of every subscription's proxies
Editions == 1..MaxEditions
NoData == [kind |-> "none", born |-> 0, at |-> 0]
NoSource == [origin |-> "none", kind |-> "none", born |-> 0]
NoDelivery == [pc |-> "none", want |-> {}, source |-> [s \in Subs |-> NoSource], staged |-> {}]
NoContent == {"none"}

(* --------------------------------- sources ---------------------------------- *)
Fresh(entry, s) == entry # NoData /\ today - entry.at < Interval[s]
FromCache(s, origin) == [origin |-> origin, kind |-> nodeCache[s].kind, born |-> nodeCache[s].born]

(* fetch_subscription_source: the cache while it is good, or for ever; the last     *)
(* download; the URL. A transport failure falls back to any cache.                   *)
Source(s) ==
  CASE nodeCache[s] # NoData /\ (Interval[s] = 0 \/ Fresh(nodeCache[s], s)) -> FromCache(s, "cache")
    [] nodeCache[s] = NoData /\ Interval[s] = 0 -> [NoSource EXCEPT !.origin = "refused"]
    [] OTHER ->
         IF Fresh(download[s], s) THEN [origin |-> "download", kind |-> download[s].kind, born |-> download[s].born]
         ELSE IF remote[s] # "down" THEN [origin |-> "url", kind |-> remote[s], born |-> today]
         ELSE IF nodeCache[s] # NoData THEN FromCache(s, "fallback")
         ELSE [NoSource EXCEPT !.origin = "absent"]

(* An entry is dated by its download, however late it is written.                    *)
Dated(kind, born) == [kind |-> kind, born |-> born, at |-> born]

(* -------------------------------- deliveries --------------------------------- *)
Has(d, p) == {d.source[s].kind : s \in IF p \in Subs THEN {p} ELSE Subs} \ {"none"}
Needed(t, d) == IF t = "all" \/ "agg" \in d.want THEN Subs ELSE d.want \cap Subs
Waiting(t, d) == {s \in Needed(t, d) : d.source[s] = NoSource}
HasChains(e) == e \in Chained
Dials(d) == \E s \in Subs : d.source[s].kind = "dialing"

Put(t, e, d) == deliveries' = [deliveries EXCEPT ![t][e] = d]

(* The end of a delivery answers whoever waits for it.                               *)
Answered(t, e) == client' = [p \in Providers |-> IF p = t /\ client[p] = e THEN 0 ELSE client[p]]
Refuse(t, e) == Put(t, e, NoDelivery) /\ Answered(t, e) /\ UNCHANGED <<artifact, lastAnswer>>

(* The configuration is captured before anything is fetched.                          *)
Begin(t) ==
  /\ begun < MaxDeliveries /\ deliveries[t][edition] = NoDelivery
  /\ Put(t, edition,
         [NoDelivery EXCEPT !.pc = "fetch",
                            !.want = IF HasChains(edition) /\ t # "all" THEN Providers ELSE {t} \ {"all"}])
  /\ begun' = begun + 1

(* serve_provider: a request joins the delivery of its configuration or begins it.    *)
AskProvider(p) ==
  /\ client[p] = 0
  /\ client' = [client EXCEPT ![p] = edition]
  /\ \/ Begin(p)
     \/ deliveries[p][edition] # NoDelivery /\ UNCHANGED <<deliveries, begun>>
  /\ UNCHANGED <<world, data, artifact, lastAnswer>>

AskAll == Begin("all") /\ UNCHANGED <<world, data, answers>>

Fetch(t, e, s) ==
  LET d == deliveries[t][e]
      r == Source(s) IN
  /\ d.pc = "fetch" /\ s \in Waiting(t, d)
  /\ download' = IF r.origin = "url" THEN [download EXCEPT ![s] = Dated(r.kind, today)] ELSE download
  /\ IF r.origin = "refused" \/ r.kind = "bad" THEN Refuse(t, e)
     ELSE Put(t, e, [d EXCEPT !.source[s] = r]) /\ UNCHANGED answers
  /\ UNCHANGED <<world, nodeCache, byHand, begun>>

(* One proxy that dials makes every provider of the configuration count.              *)
Active(e, d) == HasChains(e) \/ Dials(d)

Accepted(e, d) ==
  /\ \A s \in d.want \cap Subs : d.source[s].origin # "absent"
  /\ Active(e, d) => \A p \in d.want : Has(d, p) # {} /\ "loose" \notin Has(d, p)

(* A delivery of one subscription without chains keeps only its own nodes.            *)
Dry(t, e) == t \in Subs /\ ~HasChains(e)
Staged(t, e, d) ==
  {s \in IF Dry(t, e) THEN {t} ELSE Subs : d.source[s].origin \in {"url", "download"}}

Validate(t, e) ==
  LET d == deliveries[t][e] IN
  /\ d.pc = "fetch" /\ Waiting(t, d) = {}
  /\ IF Active(e, d) /\ d.want # Providers
     THEN Put(t, e, [d EXCEPT !.want = Providers]) /\ UNCHANGED answers
     ELSE IF Accepted(e, d)
     THEN Put(t, e, [d EXCEPT !.pc = "commit", !.staged = Staged(t, e, d)]) /\ UNCHANGED answers
     ELSE Refuse(t, e)
  /\ UNCHANGED <<world, data, begun>>

CommitCache(t, e, s) ==
  LET d == deliveries[t][e] IN
  /\ d.pc = "commit" /\ s \in d.staged
  /\ nodeCache' = [nodeCache EXCEPT ![s] = Dated(d.source[s].kind, d.source[s].born)]
  /\ Put(t, e, [d EXCEPT !.staged = @ \ {s}])
  /\ UNCHANGED <<world, download, byHand, answers, begun>>

CommitArtifact(t, e) ==
  LET d == deliveries[t][e] IN
  /\ d.pc = "commit" /\ d.staged = {}
  /\ artifact' = IF "agg" \in d.want /\ t # "all" /\ ~Dry(t, e) THEN Has(d, "agg") ELSE artifact
  /\ Put(t, e, [d EXCEPT !.pc = "serve"])
  /\ UNCHANGED <<world, data, lastAnswer, client, begun>>

Serve(t, e) ==
  LET d == deliveries[t][e] IN
  /\ d.pc = "serve"
  /\ lastAnswer' = IF t = "all" THEN lastAnswer ELSE [lastAnswer EXCEPT ![t] = Has(d, t)]
  /\ Put(t, e, NoDelivery) /\ Answered(t, e)
  /\ UNCHANGED <<world, data, artifact, begun>>

(* After RESPONSE_SECONDS the last good content answers; the delivery goes on.         *)
LastGood(p) == IF lastAnswer[p] # NoContent THEN lastAnswer[p] ELSE IF p = "agg" THEN artifact ELSE NoContent
TimeOut(p) ==
  /\ client[p] # 0 /\ LastGood(p) # NoContent
  /\ client' = [client EXCEPT ![p] = 0]
  /\ UNCHANGED <<world, data, deliveries, artifact, lastAnswer, begun>>

(* -------------------------------- the rest ----------------------------------- *)
(* fetch_subscription: a person downloads now; nothing but the text is checked.        *)
Download(s) ==
  /\ changes < MaxChanges /\ changes' = changes + 1
  /\ byHand[s] = NoData /\ remote[s] # "down"
  /\ byHand' = [byHand EXCEPT ![s] = Dated(remote[s], today)]
  /\ download' = [download EXCEPT ![s] = Dated(remote[s], today)]
  /\ UNCHANGED <<today, edition, remote, nodeCache, deliveries, answers, begun>>

Keep(s) ==
  /\ byHand[s] # NoData
  /\ nodeCache' = [nodeCache EXCEPT ![s] = byHand[s]]
  /\ byHand' = [byHand EXCEPT ![s] = NoData]
  /\ UNCHANGED <<world, download, deliveries, answers, begun>>

Edit == edition < MaxEditions /\ edition' = edition + 1
        /\ changes < MaxChanges /\ changes' = changes + 1
        /\ UNCHANGED <<today, remote, data, deliveries, answers, begun>>
DayPasses == today < MaxDays /\ today' = today + 1
        /\ UNCHANGED <<edition, remote, changes, data, deliveries, answers, begun>>
SourceChanges(s) ==
  /\ changes < MaxChanges /\ changes' = changes + 1
  /\ \E c \in (SourceKinds \cup {"down"}) \ {remote[s]} : remote' = [remote EXCEPT ![s] = c]
  /\ UNCHANGED <<today, edition, data, deliveries, answers, begun>>

(* The panel ends: requests and deliveries are gone, files stay.                       *)
Restart ==
  /\ changes < MaxChanges /\ changes' = changes + 1
  /\ deliveries' = [t \in Targets |-> [e \in Editions |-> NoDelivery]]
  /\ client' = [p \in Providers |-> 0]
  /\ byHand' = [s \in Subs |-> NoData]
  /\ UNCHANGED <<today, edition, remote, nodeCache, download, artifact, lastAnswer, begun>>

DeliveryInit ==
  /\ today = 0 /\ edition = 1 /\ changes = 0 /\ begun = 0
  /\ remote \in [Subs -> SourceKinds \cup {"down"}]
  /\ nodeCache \in [Subs -> {NoData} \cup {Dated(c, 0) : c \in SourceKinds}]
  /\ \A s \in Subs : IF Interval[s] > 0 THEN nodeCache[s] = NoData ELSE remote[s] = "plain"
  /\ download = [s \in Subs |-> NoData] /\ byHand = download
  /\ deliveries = [t \in Targets |-> [e \in Editions |-> NoDelivery]]
  /\ artifact = NoContent /\ lastAnswer = [p \in Providers |-> NoContent]
  /\ client = [p \in Providers |-> 0]

DeliveryNext ==
  \/ \E p \in Providers : AskProvider(p) \/ TimeOut(p)
  \/ AskAll
  \/ \E t \in Targets, e \in Editions :
       \/ Validate(t, e) \/ CommitArtifact(t, e) \/ Serve(t, e)
       \/ \E s \in Subs : Fetch(t, e, s) \/ CommitCache(t, e, s)
  \/ \E s \in Subs : Download(s) \/ Keep(s) \/ SourceChanges(s)
  \/ Edit \/ DayPasses \/ Restart

(* -------------------------------- properties --------------------------------- *)
(* What Mihomo needs of the files it loads together: none is bad, and where        *)
(* anything dials every provider of the configuration is there with unique names.   *)
Sound(t, e) ==
  LET d == deliveries[t][e]
      parts == {Has(d, p) : p \in IF t = "all" THEN {"agg"} ELSE {t}} \cup {Has(d, p) : p \in d.want} IN
  /\ \A x \in parts : "bad" \notin x
  /\ HasChains(e) \/ (\E x \in parts : "dialing" \in x)
       => \A p \in Providers : Has(d, p) # {} /\ "loose" \notin Has(d, p)

\* A delivery writes a cache, the artifact or a last good answer only when all that a client
\* will load with it has been fetched and is sound; a refused one leaves no trace there.
DeliveriesAreWhole ==
  [][/\ \A s \in Subs : nodeCache'[s] # nodeCache[s] =>
          \/ byHand[s] # NoData /\ byHand'[s] = NoData
          \/ \E t \in Targets, e \in Editions : s \in deliveries[t][e].staged /\ Sound(t, e)
     /\ \A p \in Providers : lastAnswer'[p] # lastAnswer[p] =>
          \E e \in Editions : deliveries'[p][e] # deliveries[p][e] /\ Sound(p, e)
     /\ artifact' # artifact => \E t \in Providers, e \in Editions :
          deliveries'[t][e] # deliveries[t][e] /\ Sound(t, e) /\ artifact' = Has(deliveries[t][e], "agg")]_deliveryVars

\* What a delivery takes for current, from the cache or the last download, is younger than the
\* interval of its source, however long other deliveries held it before they wrote it.
CurrentIsFresh ==
  [][\A t \in Targets, e \in Editions, s \in Subs :
       LET r == deliveries'[t][e].source[s] IN
       /\ deliveries[t][e].source[s] = NoSource
       /\ r.origin \in {"cache", "download"} /\ Interval[s] > 0
       => today - r.born < Interval[s]]_deliveryVars
===============================================================================
