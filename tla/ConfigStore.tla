----------------------------- MODULE ConfigStore -----------------------------
(* How the profile repository keeps its document on disk (_document,            *)
(* _read_document_locked, _read_recoverable, _commit_guard, _write_atomic):      *)
(* every process has a cache of one validated generation, config.json is          *)
(* replaced before config.json.bak is refreshed, and a corrupt config.json is     *)
(* put back from the backup.  Writes fail, the machine loses power, and somebody   *)
(* edits or damages the file without taking the lock.                              *)
EXTENDS Naturals, FiniteSets

CONSTANTS
  Processes,        \* the processes that open the repository
  MaxGenerations,   \* bound: versions of the document
  MaxFaults,        \* bound: failed steps of a write
  MaxDamage         \* bound: times somebody else changes config.json

VARIABLES
  config, bak,      \* generation in each file; 0 is unreadable or missing
  stamp,            \* identity of config.json: inode, size and times
  synced,           \* the generations a power loss cannot undo
  holder,           \* the process that has .config.lock
  txn, cache,       \* process -> its transaction, its cached generation
  newest, acked,    \* last generation made, and last one a caller was told of
  undone,           \* ghost: generations whose caller was told of a failure
  faults, damage

storeVars == <<config, bak, stamp, synced, holder, txn, cache, newest, acked, undone, faults, damage>>
disk == <<config, bak, stamp, synced>>
history == <<newest, acked, undone>>
bounds == <<faults, damage>>

NoTxn == [pc |-> "idle", write |-> FALSE, sig |-> 0, doc |-> 0, prev |-> 0]
NoCache == [sig |-> 0, doc |-> 0]

To(p, pc) == txn' = [txn EXCEPT ![p].pc = pc]
Leave(p) == holder' = "none" /\ txn' = [txn EXCEPT ![p] = NoTxn]
Fault == faults < MaxFaults /\ faults' = faults + 1 /\ UNCHANGED damage
Replace(gen) == config' = gen /\ stamp' = stamp + 1

(* _document: the lock, then the cached generation when the file is the same one.  *)
Acquire(p, write) ==
  LET hit == cache[p] # NoCache /\ cache[p].sig = stamp IN
  /\ holder = "none" /\ holder' = p
  /\ txn' = [txn EXCEPT ![p] = [pc |-> IF hit THEN "have" ELSE "load", write |-> write, sig |-> stamp,
                                doc |-> IF hit THEN cache[p].doc ELSE 0, prev |-> 0]]
  /\ cache' = [cache EXCEPT ![p] = IF hit THEN @ ELSE NoCache]
  /\ UNCHANGED <<disk, history, bounds>>

(* _read_recoverable: the file, or a valid backup; with neither the request fails.  *)
Load(p) ==
  /\ txn[p].pc = "load"
  /\ \/ config # 0 /\ txn' = [txn EXCEPT ![p].doc = config, ![p].pc = "label"] /\ UNCHANGED holder
     \/ config = 0 /\ bak # 0 /\ txn' = [txn EXCEPT ![p].doc = bak, ![p].pc = "recover"] /\ UNCHANGED holder
     \/ config = 0 /\ bak = 0 /\ Leave(p)
  /\ UNCHANGED <<disk, cache, history, bounds>>

(* The backup is copied over the damaged file, and stays as it is.                  *)
Recover(p) ==
  /\ txn[p].pc = "recover"
  /\ \/ Replace(txn[p].doc) /\ synced' = [synced EXCEPT !.config = txn[p].doc] /\ To(p, "label")
        /\ acked' = txn[p].doc /\ UNCHANGED <<holder, bounds>>
     \/ Fault /\ Leave(p) /\ UNCHANGED <<config, stamp, synced, acked>>
  /\ UNCHANGED <<bak, cache, newest, undone>>

(* The cache is labelled with the identity read before the file, and only if the    *)
(* file still has it.                                                               *)
Label(p) ==
  /\ txn[p].pc = "label"
  /\ cache' = [cache EXCEPT ![p] = IF txn[p].sig = stamp THEN [sig |-> stamp, doc |-> txn[p].doc] ELSE @]
  /\ To(p, "have")
  /\ UNCHANGED <<disk, holder, history, bounds>>

Serve(p) ==
  /\ txn[p].pc = "have" /\ ~txn[p].write
  /\ Leave(p)
  /\ UNCHANGED <<disk, cache, history, bounds>>

(* A mutating transaction forgets the cache; the document may be refused before     *)
(* anything is written.                                                             *)
Change(p) ==
  /\ txn[p].pc = "have" /\ txn[p].write
  /\ cache' = [cache EXCEPT ![p] = NoCache]
  /\ \/ newest < MaxGenerations /\ newest' = newest + 1
        /\ txn' = [txn EXCEPT ![p].pc = "write", ![p].doc = newest + 1, ![p].prev = config] /\ UNCHANGED holder
     \/ Leave(p) /\ UNCHANGED newest
  /\ UNCHANGED <<disk, acked, undone, bounds>>

Write_BackupFirst(p) ==
  /\ txn[p].pc = "write"
  /\ \/ bak' = txn[p].prev /\ Replace(txn[p].doc) /\ To(p, "sync") /\ UNCHANGED faults
     \/ bak' = 0 /\ faults < MaxFaults /\ faults' = faults + 1 /\ To(p, "undo") /\ UNCHANGED <<config, stamp>>
  /\ UNCHANGED <<synced, holder, cache, history, damage>>

(* _write_atomic.  A complete temporary file replaces config.json...                *)
Write(p) ==
  /\ txn[p].pc = "write"
  /\ \/ Replace(txn[p].doc) /\ To(p, "sync") /\ UNCHANGED faults
     \/ faults < MaxFaults /\ faults' = faults + 1 /\ To(p, "undo") /\ UNCHANGED <<config, stamp>>
  /\ UNCHANGED <<bak, synced, holder, cache, history, damage>>

Sync(p) ==
  /\ txn[p].pc = "sync"
  /\ \/ synced' = [config |-> config, bak |-> bak] /\ To(p, "backup") /\ UNCHANGED faults
     \/ faults < MaxFaults /\ faults' = faults + 1 /\ To(p, "undo") /\ UNCHANGED synced
  /\ UNCHANGED <<config, bak, stamp, holder, cache, history, damage>>

(* ...and only then what it held becomes the backup, or the old backup stays.        *)
Backup(p) ==
  /\ txn[p].pc = "backup"
  /\ \/ bak' = txn[p].prev /\ synced' \in {synced, [synced EXCEPT !.bak = txn[p].prev]}
        /\ UNCHANGED faults
     \/ faults < MaxFaults /\ faults' = faults + 1 /\ UNCHANGED <<bak, synced>>
  /\ acked' = txn[p].doc
  /\ Leave(p)
  /\ UNCHANGED <<config, stamp, cache, newest, undone, damage>>

(* _commit_guard: a failed write leaves what was there, unless that fails as well.    *)
Undo(p) ==
  /\ txn[p].pc = "undo"
  /\ \/ config = txn[p].prev /\ undone' = undone \cup {txn[p].doc} /\ UNCHANGED <<config, stamp, synced, faults>>
     \/ config # txn[p].prev /\ Replace(txn[p].prev) /\ synced' = [synced EXCEPT !.config = txn[p].prev]
        /\ undone' = undone \cup {txn[p].doc} /\ UNCHANGED faults
     \/ config # txn[p].prev /\ faults < MaxFaults /\ faults' = faults + 1 /\ UNCHANGED <<config, stamp, synced, undone>>
  /\ Leave(p)
  /\ UNCHANGED <<bak, cache, newest, acked, damage>>

(* Somebody else changes or damages config.json, at any time.                         *)
Outside ==
  /\ damage < MaxDamage /\ damage' = damage + 1
  /\ \/ Replace(0) /\ synced' = [synced EXCEPT !.config = 0] /\ UNCHANGED newest
     \/ newest < MaxGenerations /\ newest' = newest + 1
        /\ Replace(newest + 1) /\ synced' = [synced EXCEPT !.config = newest + 1]
  /\ UNCHANGED <<bak, holder, txn, cache, acked, undone, faults>>

(* A process ends, or the machine does: a rename that was not synced may be gone.      *)
Die(p) ==
  /\ txn[p].pc # "idle" \/ cache[p] # NoCache
  /\ txn' = [txn EXCEPT ![p] = NoTxn] /\ cache' = [cache EXCEPT ![p] = NoCache]
  /\ holder' = IF holder = p THEN "none" ELSE holder
  /\ UNCHANGED <<disk, history, bounds>>

PowerLoss ==
  /\ config # synced.config \/ bak # synced.bak
  /\ config' \in {config, synced.config} /\ bak' \in {bak, synced.bak} /\ stamp' = stamp + 1
  /\ synced' = [config |-> config', bak |-> bak']
  /\ txn' = [p \in Processes |-> NoTxn] /\ cache' = [p \in Processes |-> NoCache] /\ holder' = "none"
  /\ UNCHANGED <<history, bounds>>

StoreInit ==
  /\ config = 1 /\ bak = 0 /\ stamp = 1 /\ synced = [config |-> 1, bak |-> 0]
  /\ holder = "none" /\ txn = [p \in Processes |-> NoTxn] /\ cache = [p \in Processes |-> NoCache]
  /\ newest = 1 /\ acked = 1 /\ undone = {} /\ faults = 0 /\ damage = 0

StoreNext ==
  \/ \E p \in Processes :
       \/ \E write \in BOOLEAN : Acquire(p, write)
       \/ Load(p) \/ Recover(p) \/ Label(p) \/ Serve(p) \/ Change(p)
       \/ Write(p) \/ Sync(p) \/ Backup(p) \/ Undo(p) \/ Die(p)
  \/ Outside \/ PowerLoss

StoreSpec == StoreInit /\ [][StoreNext]_storeVars

(* -------------------------------- properties ------------------------------- *)
(* A cached generation whose label matches the file is what the file holds, even     *)
(* when the file was replaced during the read ("must never label an older document    *)
(* with the newer file's signature").                                                 *)
CacheIsTrue == \A p \in Processes : cache[p] # NoCache /\ cache[p].sig = stamp => cache[p].doc = config

(* A generation whose caller was told of success is not lost to a failed write, a      *)
(* crash or a power loss: only a damaged file takes the repository back, to its backup. *)
AckedSurvives == holder = "none" /\ config # 0 => config >= acked

(* A transaction that failed is not in the file afterwards (_commit_guard).            *)
FailureLeavesNothing == config \notin undone

(* Once a backup is on disk no failed write, crash or power loss costs it; only damage   *)
(* that a write runs into may, when config.json is good again ("losing both copies at     *)
(* once").                                                                                *)
BackupIsKept ==
  [][bak # 0 /\ synced.bak # 0 => bak' # 0 \/ (damage > 0 /\ config' # 0)]_storeVars
=============================================================================
