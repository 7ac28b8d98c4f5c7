-------------------------- MODULE SubscriptionFetch --------------------------
(* Reuse of fetched subscriptions (utils/sub_store_client.py): requests for the    *)
(* same URL and format share one fetch and its result, a failure is repeated to      *)
(* callers until its cooldown is over, and the cache has room for a few keys.        *)
EXTENDS Naturals, FiniteSets, FiniteSetsExt

CONSTANTS
  Keys, Requests,        \* URLs with a format; the threads that ask
  CacheRoom,             \* FETCH_CACHE_LIMIT
  ManualReuse, FetchReuse, BackgroundReuse,   \* how old a result may be, by kind of request
  MaxCooldown,           \* longest wait after failures
  MaxFailures,           \* more failures than these count as these
  Overtaken,             \* TRUE: an entry may be evicted between its result and its end
  MaxTime                \* bound on the clock

(* Nobody is no request, a cache has keys, and results are good for some time.        *)
CONSTANT Nobody
ASSUME FetchAssumption ==
  /\ Nobody \notin Requests /\ Keys # {}
  /\ {ManualReuse, FetchReuse, BackgroundReuse} \subseteq Nat \ {0}

VARIABLES
  clock,
  flights,               \* key -> the cached future: in flight, done or failed
  failures,              \* key -> consecutive failures
  request                \* thread -> what it waits for

fetchVars == <<clock, flights, failures, request>>

Empty == [state |-> "none", owner |-> Nobody, expires |-> 0, at |-> 0, count |-> 0]
NoRequest == [pc |-> "idle", key |-> CHOOSE k \in Keys : TRUE, kind |-> "auto", on |-> Nobody, tracked |-> FALSE, got |-> 0, ok |-> TRUE]
Kinds == {"manual", "auto", "background"}
Reuse(kind) == CASE kind = "manual" -> ManualReuse [] kind = "auto" -> FetchReuse [] OTHER -> BackgroundReuse
Cooldown(n) == IF 2 ^ (n - 1) < MaxCooldown THEN 2 ^ (n - 1) ELSE MaxCooldown
Cached == {k \in Keys : flights[k].state # "none"}

(* A result is kept as long as the most patient kind of request may use it, a         *)
(* failure until its cooldown ends; a flight, and a result whose owner has not stored  *)
(* its end, have none yet.                                                            *)
Ends(k) == flights[k].owner = Nobody
Expired(k) ==
  \/ flights[k].state = "done" /\ Ends(k) /\ flights[k].expires + BackgroundReuse <= clock + FetchReuse
  \/ flights[k].state = "failed" /\ Ends(k) /\ flights[k].expires <= clock

(* The request's own limit is stricter; it never bypasses a flight or a cooldown.      *)
TooOld(k, kind) ==
  flights[k].state = "done" /\ Ends(k) /\ clock + FetchReuse >= flights[k].expires + Reuse(kind)

Usable_OwnAge(k, kind) ==
  flights[k].state # "none" /\ ~Expired(k) /\ ~(flights[k].state = "failed" /\ Ends(k) /\ kind = "manual")

Usable(k, kind) == flights[k].state # "none" /\ ~Expired(k) /\ ~TooOld(k, kind)

(* Finished entries make room (the oldest in the code, any here), flights never do.     *)
Evicted(kept, room) ==
  LET done == {k \in kept : flights[k].state # "flying" /\ (Overtaken \/ Ends(k))} IN
  IF Cardinality(kept) < room \/ done = {} THEN {{}}
  ELSE {d \in SUBSET done : Cardinality(d) = IF Cardinality(kept) - room + 1 < Cardinality(done)
                                             THEN Cardinality(kept) - room + 1 ELSE Cardinality(done)}

Join(r, k, kind) ==
  LET f == flights[k] IN
  /\ Usable(k, kind)
  /\ request' = [request EXCEPT ![r] = [NoRequest EXCEPT !.key = k, !.kind = kind, !.on = f.owner, !.got = f.at,
                    !.pc = IF f.state = "flying" THEN "wait" ELSE "answered", !.ok = f.state # "failed"]]
  /\ flights' = [q \in Keys |-> IF Expired(q) THEN Empty ELSE flights[q]]
  /\ UNCHANGED failures

Own(r, k, kind) ==
  LET kept == {q \in Cached \ {k} : ~Expired(q)} IN
  /\ ~Usable(k, kind)
  /\ \E gone \in Evicted(kept, CacheRoom) :
       LET tracked == Cardinality(kept \ gone) < CacheRoom IN
       /\ flights' = [q \in Keys |-> IF q = k /\ tracked THEN [Empty EXCEPT !.state = "flying", !.owner = r]
                                     ELSE IF q \in kept \ gone THEN flights[q] ELSE Empty]
       /\ request' = [request EXCEPT ![r] = [NoRequest EXCEPT !.pc = "fetch", !.key = k, !.kind = kind, !.tracked = tracked]]
  /\ UNCHANGED failures

Ask(r) ==
  /\ request[r].pc = "idle"
  /\ \E k \in Keys, kind \in Kinds : Join(r, k, kind) \/ Own(r, k, kind)
  /\ UNCHANGED clock

(* The future of the owner gets its result and its waiters go on; a thread whose entry  *)
(* was evicted answers its own waiters all the same.                                    *)
Fetched(r) ==
  LET k == request[r].key IN
  /\ request[r].pc = "fetch"
  /\ \E ok \in BOOLEAN :
       /\ flights' = IF flights[k].owner = r
                     THEN [flights EXCEPT ![k].state = IF ok THEN "done" ELSE "failed", ![k].at = clock] ELSE flights
       /\ request' = [q \in Requests |->
            IF q = r \/ (request[q].pc = "wait" /\ request[q].on = r)
            THEN [request[q] EXCEPT !.pc = IF q = r THEN "store" ELSE "answered", !.got = clock, !.ok = ok] ELSE request[q]]
  /\ UNCHANGED <<clock, failures>>

(* Then, under the lock again, the entry gets its end: when a result may no longer be    *)
(* used, or when the cooldown of the failure is over.                                    *)
Store(r) ==
  LET k == request[r].key
      End(state, expires, count) ==
        IF request[r].tracked
        THEN [flights EXCEPT ![k] = [state |-> state, owner |-> Nobody, expires |-> expires, at |-> clock, count |-> count]]
        ELSE flights
  IN
  /\ request[r].pc = "store"
  /\ IF request[r].ok
     THEN failures' = [failures EXCEPT ![k] = 0] /\ flights' = End("done", clock + FetchReuse, 0)
     ELSE /\ failures' = [failures EXCEPT ![k] = IF request[r].tracked /\ @ < MaxFailures THEN @ + 1 ELSE @]
          /\ flights' = End("failed", clock + Cooldown(failures'[k]), failures'[k])
  /\ request' = [request EXCEPT ![r].pc = "answered"]
  /\ UNCHANGED clock

Return(r) ==
  /\ request[r].pc = "answered"
  /\ request' = [request EXCEPT ![r] = NoRequest]
  /\ UNCHANGED <<clock, flights, failures>>

(* Time stands still while a thread that has its answer stores and returns it.         *)
Pass ==
  /\ clock < MaxTime /\ \A r \in Requests : request[r].pc \notin {"store", "answered"}
  /\ clock' = clock + 1
  /\ UNCHANGED <<flights, failures, request>>

FetchInit ==
  /\ clock = 0 /\ flights = [k \in Keys |-> Empty] /\ failures = [k \in Keys |-> 0]
  /\ request = [r \in Requests |-> NoRequest]

FetchNext == Pass \/ \E r \in Requests : Ask(r) \/ Fetched(r) \/ Store(r) \/ Return(r)
FetchSpec == FetchInit /\ [][FetchNext]_fetchVars

(* The upstream answers or times out, and threads run.                                  *)
FetchFairness == \A r \in Requests : WF_fetchVars(Fetched(r)) /\ WF_fetchVars(Store(r)) /\ WF_fetchVars(Return(r))
FairFetchSpec == FetchSpec /\ FetchFairness

(* -------------------------------- properties ------------------------------- *)
(* A fetch the cache knows of is the only one of its subscription, whatever kinds of     *)
(* requests meet and however full the cache is ("never evict a flight with waiters"):     *)
(* unless an entry is evicted between its result and its end, when its owner overwrites   *)
(* a later flight.                                                                        *)
OneFlight ==
  \A r, q \in Requests :
    request[r].pc = "fetch" /\ request[q].pc = "fetch" /\ request[r].tracked /\ request[q].tracked
    /\ request[r].key = request[q].key => r = q

(* Nobody gets a result older than his kind of request accepts.                         *)
FreshEnough ==
  \A r \in Requests : request[r].pc = "answered" /\ request[r].ok =>
    clock < request[r].got + Reuse(request[r].kind)

(* While a failure is cached, a new fetch starts only after the cooldown its failures earned   *)
(* ("Never bypass an in-flight request or a failure's cooldown").                        *)
CooldownHolds ==
  [][\A r \in Requests : request[r].pc = "idle" /\ request'[r].pc = "fetch" =>
       LET f == flights[request'[r].key] IN f.state = "failed" => f.at + Cooldown(f.count) <= clock]_fetchVars

(* Whoever joined a flight is answered: an entry with waiters is never evicted.          *)
WaitersAreAnswered == \A r \in Requests : request[r].pc = "wait" ~> request[r].pc # "wait"
=============================================================================
