--------------------------- MODULE RouterRuleSync ---------------------------
(* Automatic refresh of remote rules on a RouterOS router (routers/rule_sync*.py):   *)
(* a manual release enrols the objects it verified, and from then on a job may add     *)
(* or withdraw destinations of that receipt while everything else stays as released.   *)
EXTENDS Naturals, Sequences, FiniteSets, SequencesExt

CONSTANTS
  Nets,                  \* destinations a rule set may list
  PolicyNets,            \* those listed by the policy's rule sets: members of an address list
  RemoteVersions,        \* what the remote source may list
  LocalVersions,         \* what the local rule set may hold
  MaxSettings,           \* bound on edits of the router's settings (of two digests) and local rules
  MaxTrouble             \* bound on hand edits, refused writes and ends of the panel

VARIABLES
  settings,              \* the configuration: a digest of the settings, local rules, the switch, the manifest
  remote, rulecache,     \* the remote source (or "down"), the cached copy
  receipt,               \* the synchronisation record on disk
  rows,                  \* objects on the router
  job,                   \* the one job: queued, or the steps of sync
  manual,                \* a release by a person that is not yet recorded: what it released
  spent,                 \* edits and trouble so far
  late                   \* ghost: the job's writes since the settings differ from those it works with,
                         \* and whether a run left the router unfinished since the last release

syncVars == <<settings, remote, rulecache, receipt, rows, job, manual, spent, late>>

(* Object identities are never used twice while anything remembers them.                 *)
Known == {<<o.net, o.gen>> : o \in rows} \cup receipt.base.ids \cup job.base.ids \cup settings.manifest
         \cup {j.id : j \in ToSet(job.journal)}
Fresh(n) == CHOOSE g \in 1..(Cardinality(Known) + 1) : <<n, g>> \notin Known /\ \A h \in 1..(g - 1) : <<n, h>> \in Known
Object(n, g) == [net |-> n, gen |-> g, cf |-> TRUE, by |-> "sync"]
Of(set) == {<<o.net, o.gen>> : o \in set}
OnPolicy(ids) == {i \in ids : i[1] \in PolicyNets}
NoBase == [ready |-> FALSE, control |-> 0, remote |-> {}, local |-> {}, ids |-> {}]
NoJob == [pc |-> "idle", base |-> NoBase, control |-> 0, got |-> {}, local |-> {}, manifest |-> {},
          add |-> {}, drop |-> {}, journal |-> <<>>, checked |-> FALSE, begun |-> FALSE, error |-> "none"]
NoRelease == [pc |-> "none", wanted |-> {}, changed |-> FALSE]

SyncInit ==
  /\ settings = [control |-> 0, local |-> {}, auto |-> TRUE, manifest |-> {}]
  /\ remote \in RemoteVersions /\ rulecache = remote
  /\ receipt = [status |-> "waiting", base |-> NoBase]
  /\ rows = {}
  /\ job = NoJob /\ manual = NoRelease
  /\ spent = [edits |-> 0, trouble |-> 0]
  /\ late = [writes |-> 0, dirty |-> FALSE]

(* What the job works with, as far as people edit it.                                   *)
Stands(s) == s.control = job.base.control /\ s.local = job.base.local

(* Local changes of the settings, of a local rule set, of the switch: any time, and an   *)
(* edit may be taken back.                                                               *)
EditSettings ==
  /\ spent.edits < MaxSettings
  /\ \/ \E v \in LocalVersions \ {settings.local} : settings' = [settings EXCEPT !.local = v]
     \/ \E c \in 0..1 \ {settings.control} : settings' = [settings EXCEPT !.control = c]
  /\ late' = [late EXCEPT !.writes = IF Stands(settings') THEN 0 ELSE @]
  /\ manual' = [manual EXCEPT !.changed = TRUE]
  /\ spent' = [spent EXCEPT !.edits = @ + 1]
  /\ UNCHANGED <<remote, rulecache, receipt, rows, job>>

(* The switch is saved under the locks of the job and of the router.                     *)
Switch ==
  /\ spent.edits < MaxSettings /\ job.pc \in {"idle", "queued"} /\ manual.pc = "none"
  /\ settings' = [settings EXCEPT !.auto = ~@]
  /\ spent' = [spent EXCEPT !.edits = @ + 1]
  /\ UNCHANGED <<remote, rulecache, receipt, rows, job, manual, late>>

(* Text that is not a rule list, or holds an invalid line, is refused as a whole.          *)
Readable(content) == content \notin {{"down"}, {"unreadable"}}
Upstream ==
  /\ remote' \in (RemoteVersions \cup {{"down"}, {"unreadable"}}) \ {remote}
  /\ UNCHANGED <<settings, rulecache, receipt, rows, job, manual, spent, late>>

RefreshCache ==
  /\ Readable(remote) /\ rulecache # remote
  /\ rulecache' = remote
  /\ UNCHANGED <<settings, remote, receipt, rows, job, manual, spent, late>>

(* Somebody changes the router itself, with a comment that may look like the panel's.     *)
ByHand ==
  /\ spent.trouble < MaxTrouble
  /\ \/ \E n \in Nets \ PolicyNets, cf \in BOOLEAN :
          rows' = rows \cup {[Object(n, Fresh(n)) EXCEPT !.cf = cf, !.by = "hand"]}
     \/ \E o \in rows : rows' = rows \ {o}
  /\ spent' = [spent EXCEPT !.trouble = @ + 1]
  /\ UNCHANGED <<settings, remote, rulecache, receipt, job, manual, late>>

(* A release by a person, under the job lock: the cached rules decide, the panel's own    *)
(* routes are kept or withdrawn, other routes are left.                                    *)
Release ==
  LET wanted == rulecache \cup settings.local
      kept == {o \in rows : o.cf /\ o.net \in wanted}
      missing == wanted \ {o.net : o \in rows} IN
  /\ job.pc \in {"idle", "queued"} /\ manual.pc = "none"
  /\ rows' = {o \in rows : ~o.cf} \cup {[o EXCEPT !.by = "release"] : o \in kept}
             \cup {[Object(n, Fresh(n)) EXCEPT !.by = "release"] : n \in missing}
  /\ settings' = [settings EXCEPT !.manifest = OnPolicy(Of({o \in rows' : o.cf}))]
  /\ manual' = [pc |-> "released", wanted |-> wanted, changed |-> FALSE]
  /\ late' = [late EXCEPT !.dirty = FALSE]
  /\ UNCHANGED <<remote, rulecache, receipt, job, spent>>

(* Enrolled are managed rows only, one for each wanted destination.                        *)
Enrols(wanted) ==
  LET own == {o \in rows : o.cf /\ o.net \in wanted} IN
  {o.net : o \in own} = wanted /\ Cardinality(own) = Cardinality(wanted)
Enrolled(wanted) == Of({o \in rows : o.cf /\ o.net \in wanted})

(* The receipt of the release is made from what is current and what was released; when     *)
(* they differ the old receipt is not kept either.                                           *)
Capture ==
  /\ manual.pc = "released"
  /\ LET wanted == rulecache \cup settings.local IN
     receipt' = IF ~manual.changed /\ wanted = manual.wanted /\ Enrols(wanted)
       THEN [status |-> "synced", base |-> [ready |-> TRUE, control |-> settings.control, remote |-> rulecache,
                                           local |-> settings.local, ids |-> Enrolled(wanted)]]
       ELSE [status |-> "waiting", base |-> NoBase]
  /\ manual' = NoRelease
  /\ UNCHANGED <<settings, remote, rulecache, rows, job, spent, late>>

(* Synchronise now: accepted when nothing is pending; the thread starts the job later.       *)
StartJob ==
  /\ job.pc = "idle" /\ manual.pc = "none" /\ settings.auto
  /\ receipt.base.ready /\ receipt.status \notin {"running", "paused", "queued"}
  /\ receipt' = [receipt EXCEPT !.status = "queued"]
  /\ job' = [NoJob EXCEPT !.pc = "queued"]
  /\ UNCHANGED <<settings, remote, rulecache, rows, manual, spent, late>>

Due_Elapsed == receipt.base.ready /\ receipt.status \notin {"paused", "running", "queued"}
Due == receipt.base.ready /\ receipt.status # "paused"

(* The thread or the scheduler's round; one that cannot run does not leave a queued state.    *)
Cancelled ==
  /\ job.pc = "queued" /\ (manual.pc # "none" \/ ~settings.auto \/ ~receipt.base.ready)
  /\ receipt' = IF receipt.status = "queued" THEN [receipt EXCEPT !.status = "failed"] ELSE receipt
  /\ job' = NoJob
  /\ UNCHANGED <<settings, remote, rulecache, rows, manual, spent, late>>

(* A record that still says running belongs to a run that did not end: paused.                *)
Begin ==
  /\ job.pc = "queued" \/ (job.pc = "idle" /\ Due)
  /\ manual.pc = "none" /\ settings.auto /\ receipt.base.ready
  /\ IF receipt.status \in {"running", "paused"}
     THEN receipt' = [receipt EXCEPT !.status = "paused"] /\ job' = NoJob /\ UNCHANGED late
     ELSE /\ receipt' = [receipt EXCEPT !.status = "running"]
          /\ job' = [NoJob EXCEPT !.pc = "load", !.base = receipt.base, !.manifest = settings.manifest,
                                  !.control = settings.control]
          /\ late' = [late EXCEPT !.writes = 0]
  /\ UNCHANGED <<settings, remote, rulecache, rows, manual, spent>>

Refuse(kind) == job' = [job EXCEPT !.pc = "end", !.error = kind]

(* Local rules as released; no source that listed addresses lists none now.                   *)
Updates(got, local) == local = job.base.local /\ (job.base.remote = {} \/ got # {})

Fetch ==
  /\ job.pc = "load"
  /\ IF job.control # job.base.control \/ job.manifest # OnPolicy(job.base.ids) THEN Refuse("router")
     ELSE IF remote = {"down"} THEN Refuse("download")
     ELSE IF ~Readable(remote) \/ ~Updates(remote, settings.local) THEN Refuse("router")
     ELSE job' = [job EXCEPT !.pc = "plan", !.got = remote, !.local = settings.local]
  /\ UNCHANGED <<settings, remote, rulecache, receipt, rows, manual, spent, late>>

(* What ensure_current compares, at a configuration revision not seen before.                  *)
Current == settings.auto /\ settings.control = job.base.control /\ settings.local = job.local
           /\ settings.manifest = job.manifest

Removable(ids, wanted) == {i \in ids \cap Of({o \in rows : o.cf}) : i[1] \notin wanted}

(* Under the operation lock: the router is read, and the plan kept to what the receipt         *)
(* enrolled. A missing object, a route of somebody else on a wanted destination, refuse.       *)
Inspect ==
  LET wanted == job.got \cup job.local  ids == job.base.ids IN
  /\ job.pc = "plan"
  /\ IF \/ ~Current
        \/ ~(ids \subseteq Of(rows))
        \/ \E o \in rows : o.net \in wanted /\ <<o.net, o.gen>> \notin ids
     THEN Refuse("router")
     ELSE job' = [job EXCEPT !.pc = "write", !.begun = TRUE, !.add = wanted \ {i[1] : i \in ids}, !.drop = Removable(ids, wanted)]
  /\ UNCHANGED <<settings, remote, rulecache, receipt, rows, manual, spent, late>>

Stop(kind) == job' = [job EXCEPT !.pc = "undo", !.error = kind]
Journaled(op, id) == [job EXCEPT !.add = @ \ {id[1]}, !.drop = @ \ {id}, !.checked = FALSE,
                                 !.journal = Append(@, [op |-> op, id |-> id])]
Left == job.add \cup job.drop

(* ensure_current before every write and once more at the end.                                   *)
Recheck ==
  /\ job.pc = "write" /\ ~job.checked
  /\ IF Current THEN job' = [job EXCEPT !.checked = TRUE] ELSE Stop("router")
  /\ UNCHANGED <<settings, remote, rulecache, receipt, rows, manual, spent, late>>

(* One object is created or deleted, additions first; the journal knows it, also when the        *)
(* answer is lost. A write that is refused, or finds the router changed, stops the run.           *)
Change(effect, id, op) ==
  \/ /\ rows' = effect
     /\ late' = [late EXCEPT !.writes = IF Stands(settings) THEN @ ELSE @ + 1]
     /\ \/ job' = Journaled(op, id) /\ UNCHANGED spent
        \/ /\ spent.trouble < MaxTrouble /\ spent' = [spent EXCEPT !.trouble = @ + 1]
           /\ job' = [Journaled(op, id) EXCEPT !.pc = "undo", !.error = "router"]
  \/ /\ spent.trouble < MaxTrouble /\ spent' = [spent EXCEPT !.trouble = @ + 1]
     /\ \E kind \in {"router", "runtime"} : Stop(kind)
     /\ UNCHANGED <<rows, late>>

Write ==
  /\ job.pc = "write" /\ job.checked
  /\ \/ \E n \in job.add :
          IF n \notin PolicyNets /\ \E o \in rows : o.net = n
          THEN Stop("router") /\ UNCHANGED <<rows, late, spent>>
          ELSE Change(rows \cup {Object(n, Fresh(n))}, <<n, Fresh(n)>>, "add")
     \/ /\ job.add = {}
        /\ \E i \in job.drop :
             IF i \notin Of(rows) THEN Stop("router") /\ UNCHANGED <<rows, late, spent>>
             ELSE Change({o \in rows : <<o.net, o.gen>> # i}, i, "delete")
  /\ UNCHANGED <<settings, remote, rulecache, receipt, manual>>

Added == {j.id : j \in {x \in ToSet(job.journal) : x.op = "add"}}
Removed == {j.id : j \in {x \in ToSet(job.journal) : x.op = "delete"}}
NewIds == (job.base.ids \ Removed) \cup Added

(* Read back: what was added is there, what was removed is gone.                                   *)
Verified ==
  /\ job.pc = "write" /\ Left = {} /\ job.checked
  /\ IF Added \subseteq Of(rows) /\ Removed \cap Of(rows) = {}
     THEN job' = [job EXCEPT !.pc = "manifest"] ELSE Stop("router")
  /\ UNCHANGED <<settings, remote, rulecache, receipt, rows, manual, spent, late>>

SaveManifest ==
  /\ job.pc = "manifest"
  /\ settings' = [settings EXCEPT !.manifest = OnPolicy(NewIds)]
  /\ job' = [job EXCEPT !.pc = "baseline"]
  /\ UNCHANGED <<remote, rulecache, receipt, rows, manual, spent, late>>

(* The new receipt is on disk, still running, before the cache is refreshed from it.              *)
SaveBaseline ==
  /\ job.pc = "baseline"
  /\ LET base == [job.base EXCEPT !.remote = job.got, !.ids = NewIds] IN
     /\ receipt' = [status |-> "running", base |-> base]
     /\ job' = [job EXCEPT !.pc = "cache", !.base = base]
  /\ UNCHANGED <<settings, remote, rulecache, rows, manual, spent, late>>

CacheSources ==
  /\ job.pc = "cache"
  /\ \/ rulecache' = job.got /\ receipt' = [receipt EXCEPT !.status = "synced"] /\ job' = NoJob /\ UNCHANGED spent
     \/ /\ spent.trouble < MaxTrouble /\ spent' = [spent EXCEPT !.trouble = @ + 1]
        /\ Refuse("other") /\ UNCHANGED <<rulecache, receipt>>
  /\ UNCHANGED <<settings, remote, rows, manual, late>>

(* Undo in reverse order; a deleted object is created anew and gets a new identity, which the      *)
(* receipt takes over. An undo that fails leaves the router for a person.                           *)
UndoStep ==
  LET step == job.journal[Len(job.journal)]
      rest == [job EXCEPT !.journal = SubSeq(@, 1, Len(@) - 1)] IN
  /\ job.pc = "undo" /\ job.journal # <<>>
  /\ \/ /\ step.op = "add" /\ rows' = {o \in rows : <<o.net, o.gen>> # step.id} /\ job' = rest
        /\ UNCHANGED <<spent, late>>
     \/ /\ step.op = "delete"
        /\ IF step.id \in Of(rows) THEN job' = rest /\ UNCHANGED rows
           ELSE LET n == step.id[1] IN
                /\ rows' = rows \cup {Object(n, Fresh(n))}
                /\ job' = [rest EXCEPT !.base.ids = (@ \ {step.id}) \cup {<<n, Fresh(n)>>}]
        /\ UNCHANGED <<spent, late>>
     \/ /\ spent.trouble < MaxTrouble /\ spent' = [spent EXCEPT !.trouble = @ + 1]
        /\ job' = [job EXCEPT !.pc = "end", !.error = "rollback"]
        /\ late' = [late EXCEPT !.dirty = TRUE] /\ UNCHANGED rows
  /\ UNCHANGED <<settings, remote, rulecache, receipt, manual>>
Undone ==
  /\ job.pc = "undo" /\ job.journal = <<>>
  /\ job' = [job EXCEPT !.pc = "end"]
  /\ UNCHANGED <<settings, remote, rulecache, receipt, rows, manual, spent, late>>

(* After writes began the receipt takes the identities of what is there now, and the manifest     *)
(* is saved; when that cannot be read the run counts as not undone.                                *)
Statics(base) == {i[1] : i \in base.ids} \ PolicyNets
Read(base) == [base EXCEPT !.ids = OnPolicy(@) \cup Enrolled(Statics(base))]
Ending(waits, base) ==
  /\ job.pc = "end"
  /\ receipt' = [status |-> IF waits THEN "paused" ELSE "failed", base |-> base]
  /\ settings' = IF job.begun THEN [settings EXCEPT !.manifest = OnPolicy(job.base.ids)] ELSE settings
  /\ job' = NoJob
  /\ UNCHANGED <<remote, rulecache, rows, manual, spent, late>>

Unread == job.begun /\ ~Enrols(Statics(job.base))
Seen == IF job.begun /\ ~Unread THEN Read(job.base) ELSE job.base
(* A failed download, or an error that is no answer of the router, is tried again later; the       *)
(* rest waits for a person.                                                                         *)
End == Ending(Unread \/ job.error \in {"router", "rollback"}, Seen)

(* The panel ends: queued and running records stay as they are.                                      *)
PanelEnds ==
  /\ spent.trouble < MaxTrouble /\ spent' = [spent EXCEPT !.trouble = @ + 1]
  /\ job.pc # "idle" \/ manual.pc # "none"
  /\ job' = NoJob /\ manual' = NoRelease
  /\ late' = [late EXCEPT !.dirty = @ \/ job.journal # <<>>]
  /\ UNCHANGED <<settings, remote, rulecache, receipt, rows>>

JobStep == Fetch \/ Inspect \/ Recheck \/ Write \/ Verified \/ SaveManifest \/ SaveBaseline \/ CacheSources
           \/ UndoStep \/ Undone \/ End
SyncNext ==
  \/ EditSettings \/ Switch \/ Upstream \/ RefreshCache \/ ByHand \/ Release \/ Capture
  \/ StartJob \/ Cancelled \/ Begin \/ JobStep \/ PanelEnds
SyncSpec == SyncInit /\ [][SyncNext]_syncVars

(* The scheduler comes round every thirty seconds, and the job's steps have time limits.            *)
SyncFairness == WF_syncVars(JobStep) /\ WF_syncVars(Begin) /\ WF_syncVars(Cancelled) /\ WF_syncVars(Capture)

JobWrites == job.pc = "write" /\ job' # job /\ rows' # rows

(* A run that ended with the router half changed, because the panel ended or the undo failed, is    *)
(* not taken up by a later run: only a release by a person makes the job write again.                *)
UnfinishedWaits == [][JobWrites => ~late.dirty]_syncVars

(* The job withdraws only objects of its receipt, whatever comments others give theirs, and it        *)
(* publishes no local rule that a person has not released.                                            *)
OnlyEnrolledChange ==
  [][JobWrites => /\ Of(rows \ rows') \subseteq receipt.base.ids
                  /\ {o.net : o \in rows' \ rows} \subseteq job.got \cup receipt.base.local]_syncVars

(* A change of the settings stops a running job: while it stands, at most the write already decided   *)
(* still happens.                                                                                      *)
EditStopsJob == late.writes <= 1

(* Whatever the job created and left on the router is in the receipt it will work from next, so        *)
(* that a later withdrawal finds it; restored objects included.                                        *)
NothingIsForgotten ==
  job.pc \in {"idle", "queued"} /\ manual.pc = "none" /\ receipt.status \in {"synced", "failed"}
    => Of({o \in rows : o.by = "sync"}) \subseteq receipt.base.ids

(* A synchronisation asked for or interrupted does not stay pending while the switch is on.            *)
PendingEnds ==
  receipt.status \in {"queued", "running"} ~> (receipt.status \notin {"queued", "running"} \/ ~settings.auto)
=============================================================================
