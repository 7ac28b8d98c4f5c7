---------------------------- MODULE RuleIndexCache ----------------------------
(***************************************************************************)
(* The shared matchers of local rule files                                 *)
(* (backend/utils/domain_matcher_cache.py): a request takes a handle whose *)
(* signature covers the rules and the stamps of the files, the handle      *)
(* reads a file when a lookup first needs it, remembers results per host   *)
(* and reads again, READ_RETRY_SECONDS later, what it could not read or    *)
(* what changed under its hands.  Files are replaced and become unreadable *)
(* at any moment.  A ruleset is the set of hosts it matches; the rules of  *)
(* a profile reference every ruleset in the order given.                   *)
(***************************************************************************)
EXTENDS Naturals, Sequences, FiniteSets, SequencesExt

CONSTANTS
  Order,       \* the referenced rulesets, a sequence
  Hosts,
  Contents,    \* what a ruleset file may hold, sets of hosts
  FirstContent, \* what every ruleset holds at first
  Holders,     \* requests that keep a handle
  RetryDelay,  \* READ_RETRY_SECONDS
  MaxWrites,   \* bound: replacements of a file
  MaxFaults,   \* bound: periods in which a file cannot be read
  MaxTime

VARIABLES
  files,     \* the cached files: [stamp, content], stamp 0 when there is none
  library,   \* the inline content of the rulesets in the shared library
  blocked,   \* files that cannot be read now
  slot,      \* the cache's entry for the profile: a handle, or none
  held,      \* the handle each request holds
  handles,   \* the matchers in use: stamps, indexes, failed, retryAt, results
  clock,
  budget

cacheVars == <<files, library, blocked, slot, held, handles, clock, budget>>

Rulesets == ToSet(Order)
None == 0
NotRead == "not read"

Stamps == [r \in Rulesets |-> files[r].stamp]

(***************************************************************************)
(* Acquiring a handle.                                                     *)
(***************************************************************************)

NewHandle == [stamps |-> Stamps, seen |-> Stamps, inline |-> library, index |-> [r \in Rulesets |-> {NotRead}],
              failed |-> {}, retryAt |-> 0, results |-> [x \in {} |-> 0]]

\* A matcher nobody refers to is gone; its place is used again.
Used == ({slot} \cup {held[u] : u \in Holders}) \ {None}

\* _signature: the rules, the referenced library entries and the stamps of their files.
Signature(h) == <<handles[h].stamps, handles[h].inline>>

\* local_matcher: the entry of the profile when its signature still holds, else a new matcher replaces it.
Acquire(u) ==
  /\ held[u] = None
  /\ IF slot # None /\ Signature(slot) = <<Stamps, library>>
     THEN held' = [held EXCEPT ![u] = slot] /\ UNCHANGED <<slot, handles>>
     ELSE LET new == CHOOSE h \in DOMAIN handles : h \notin Used
          IN /\ handles' = [handles EXCEPT ![new] = NewHandle]
             /\ slot' = new
             /\ held' = [held EXCEPT ![u] = new]
  /\ UNCHANGED <<files, library, blocked, clock, budget>>

Release(u) == /\ held[u] # None /\ held' = [held EXCEPT ![u] = None]
              /\ UNCHANGED <<files, library, blocked, slot, handles, clock, budget>>

\* _evict_idle_locked, the limit of matchers and clear_cache: the cache lets go of a matcher (idle for long enough,
\* which the model does not count); who holds it keeps it.
Evict ==
  /\ slot # None
  /\ slot' = None
  /\ UNCHANGED <<files, library, blocked, held, handles, clock, budget>>

(***************************************************************************)
(* Matching with a handle.                                                 *)
(***************************************************************************)

\* A retry is due: the failed indexes go, and every remembered result with them.
Retried_KeepResults(m) == [m EXCEPT !.index = [r \in Rulesets |-> IF r \in m.failed THEN {NotRead} ELSE m.index[r]],
                                    !.failed = {}, !.retryAt = 0]
Retried(m) == [m EXCEPT !.index = [r \in Rulesets |-> IF r \in m.failed THEN {NotRead} ELSE m.index[r]],
                        !.failed = {}, !.retryAt = 0, !.results = [x \in {} |-> 0]]

Due(m) == m.retryAt # 0 /\ clock >= m.retryAt

Failing(m, r) == [m EXCEPT !.failed = @ \cup {r}, !.retryAt = IF @ = 0 THEN clock + RetryDelay ELSE @]

\* _LocalSource: what one read of ruleset r gives the matcher.  A read that differs
\* from the signature, an unreadable file and a file that went away are tried again.
Loaded(m, r) ==
  LET f == files[r]
      With(n, content) == [n EXCEPT !.index[r] = content]
  IN IF r \in blocked THEN With(Failing(m, r), m.inline[r])
     ELSE IF f.stamp = 0 THEN With(IF m.seen[r] # 0 THEN Failing(m, r) ELSE m, m.inline[r])
     ELSE [With(IF f.stamp # m.seen[r] THEN Failing(m, r) ELSE m, f.content) EXCEPT !.seen[r] = f.stamp]

\* The lookup reads rulesets in order until one matches.
Reads(m, host) ==
  LET read[n \in 0 .. Len(Order)] ==
        IF n = 0 THEN [m |-> m, hit |-> FALSE, at |-> 0]
        ELSE LET before == read[n - 1].m
                 after == IF NotRead \in before.index[Order[n]] THEN Loaded(before, Order[n]) ELSE before
             IN IF read[n - 1].hit THEN read[n - 1]
                ELSE [m |-> after, hit |-> host \in after.index[Order[n]], at |-> n]
  IN read[Len(Order)]

Remember(m, host, answer) ==
  [m EXCEPT !.results = [x \in DOMAIN @ \cup {host} |-> IF x = host THEN answer ELSE @[x]]]

\* _CachedMatcher.match, under the matcher's own lock.
MatchHost(u, host) ==
  /\ held[u] # None
  /\ LET h == held[u]
         m == IF Due(handles[h]) THEN Retried(handles[h]) ELSE handles[h]
         read == Reads(m, host)
         answer == IF read.hit THEN read.at ELSE 0
     IN handles' = [handles EXCEPT ![h] =
          IF host \in DOMAIN m.results THEN m ELSE Remember(read.m, host, answer)]
  /\ UNCHANGED <<files, library, blocked, slot, held, clock, budget>>

\* A lookup whose first unread ruleset is replaced between opening the file and checking it again.
MatchRaced(u, host) ==
  /\ held[u] # None /\ budget.writes > 0
  /\ LET h == held[u]
         m == IF Due(handles[h]) THEN Retried(handles[h]) ELSE handles[h]
         r == Order[1]
     IN /\ host \notin DOMAIN m.results /\ NotRead \in m.index[r]
        /\ r \notin blocked /\ files[r].stamp # 0
        /\ \E c \in Contents \ {files[r].content} :
             files' = [files EXCEPT ![r] = [stamp |-> @.stamp + 1, content |-> c]]
        /\ LET read == Reads([Failing(m, r) EXCEPT !.index[r] = files[r].content], host)
           IN handles' = [handles EXCEPT ![h] = Remember(read.m, host, IF read.hit THEN read.at ELSE 0)]
  /\ budget' = [budget EXCEPT !.writes = @ - 1]
  /\ UNCHANGED <<library, blocked, slot, held, clock>>

(***************************************************************************)
(* The files and time.                                                     *)
(***************************************************************************)

\* save_rule_to_local: the library changes first, the file is replaced later (write_shared_text is atomic).
EditLibrary ==
  /\ budget.writes > 0 /\ budget' = [budget EXCEPT !.writes = @ - 1]
  /\ \E r \in Rulesets, c \in Contents : library[r] # c /\ library' = [library EXCEPT ![r] = c]
  /\ UNCHANGED <<files, blocked, slot, held, handles, clock>>

SaveFile ==
  /\ \E r \in Rulesets : /\ files[r].content # library[r] \/ files[r].stamp = 0
                         /\ files' = [files EXCEPT ![r] = [stamp |-> @.stamp + 1, content |-> library[r]]]
  /\ UNCHANGED <<library, blocked, slot, held, handles, clock, budget>>

\* A file cannot be opened for a while (permissions, a failing disk), its stamp unchanged.
Block == /\ budget.faults > 0 /\ budget' = [budget EXCEPT !.faults = @ - 1]
         /\ \E r \in Rulesets \ blocked : blocked' = blocked \cup {r}
         /\ UNCHANGED <<files, library, slot, held, handles, clock>>

Unblock == /\ \E r \in blocked : blocked' = blocked \ {r}
           /\ UNCHANGED <<files, library, slot, held, handles, clock, budget>>

Tick == clock < MaxTime /\ clock' = clock + 1 /\ UNCHANGED <<files, library, blocked, slot, held, handles, budget>>

CacheInit ==
  /\ library = [r \in Rulesets |-> FirstContent]
  /\ files = [r \in Rulesets |-> [stamp |-> 1, content |-> library[r]]]
  /\ blocked = {} /\ slot = None /\ held = [u \in Holders |-> None] /\ handles = [h \in 1 .. Cardinality(Holders) + 1 |-> NewHandle] /\ clock = 1
  /\ budget = [writes |-> MaxWrites, faults |-> MaxFaults]

CacheNext ==
  \/ \E u \in Holders : Acquire(u) \/ Release(u) \/ \E x \in Hosts : MatchHost(u, x) \/ MatchRaced(u, x)
  \/ Evict \/ EditLibrary \/ SaveFile \/ Block \/ Unblock \/ Tick

CacheSpec == CacheInit /\ [][CacheNext]_cacheVars

\* The position a scan of the current files would give.
Truth(host) ==
  LET hits == {i \in DOMAIN Order : host \in files[Order[i]].content}
  IN IF hits = {} THEN 0 ELSE CHOOSE i \in hits : \A j \in hits : i <= j

\* A matcher taken for the files as they are answers what they hold, however its reads raced with writes or failed,
\* unless a failed read is still waiting for its retry.
CurrentHandleIsRight ==
  \A h \in Used :
    (Signature(h) = <<Stamps, library>> /\ handles[h].failed = {}) =>
      \A x \in DOMAIN handles[h].results : handles[h].results[x] = Truth(x)

==============================================================================
