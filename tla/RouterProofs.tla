----------------------------- MODULE RouterProofs -----------------------------
(* Proofs about routers: the rules a router fetches by itself, with an inductive          *)
(* invariant kept action by action, the theorem of everything that is written without a     *)
(* person, and what the panel concludes from a router's tables before it writes.             *)
EXTENDS AgentAutomationProofs

-------------------------------------------------------------------------------
(* Rules that a router fetches by itself.                                            *)

(* Records have their fields; what a field holds matters only where it is said below.  *)
IsSettings(s) == s \in [control : {s.control}, local : {s.local}, auto : {s.auto}, manifest : {s.manifest}]
IsBase(b) == b \in [ready : {b.ready}, control : {b.control}, remote : {b.remote}, local : {b.local}, ids : {b.ids}]
IsRow(o) == o \in [net : {o.net}, gen : {o.gen}, cf : {o.cf}, by : {o.by}]
IsJob(j) ==
  j \in [pc : {"idle", "queued", "load", "plan", "write", "manifest", "baseline", "cache", "undo", "end"}, base : {j.base},
         control : {j.control}, got : {j.got}, local : {j.local}, manifest : {j.manifest}, add : {j.add}, drop : {j.drop},
         journal : {j.journal}, checked : {j.checked}, begun : {j.begun}, error : {j.error}]
Sequential(q) == \E S : q \in Seq(S)

SyncShaped ==
  /\ IsSettings(rulesync_settings)
  /\ receipt \in [status : {receipt.status}, base : {receipt.base}] /\ IsBase(receipt.base)
  /\ IsJob(job) /\ IsBase(job.base) /\ Sequential(job.journal)
  /\ manual \in [pc : {manual.pc}, wanted : {manual.wanted}, changed : {manual.changed}]
  /\ late \in [writes : Nat, dirty : BOOLEAN]
  /\ \A o \in rows : IsRow(o)

Pending == job.pc \in {"idle", "queued"}
Remembered(ids) == \A o \in rows : o.by = "sync" => <<o.net, o.gen>> \in ids

JobIsAlone ==
  /\ ~Pending => receipt.status = "running" /\ manual.pc = "none"
  /\ job.pc \in {"load", "plan", "write", "manifest", "baseline", "cache"} => job.base = receipt.base
  /\ job.pc \in {"plan", "write"} => job.local = job.base.local
  /\ job.pc = "write" => job.add \subseteq job.got \cup job.local /\ job.drop \subseteq job.base.ids
  /\ job.pc \in {"idle", "queued", "load", "plan"} => job.journal = <<>>
DirtyWaits ==
  late.dirty => /\ receipt.status \in {"running", "paused"} /\ manual.pc = "none" /\ job.pc \in {"idle", "end"}
                /\ job.pc = "end" => job.error = "rollback"
WritesAreFew ==
  /\ late.writes <= 1
  /\ ~Pending /\ RuleSync!Stands(rulesync_settings) => late.writes = 0
  /\ job.pc = "write" /\ job.checked => late.writes = 0
RowsAreRemembered ==
  /\ \A o \in rows : o.by = "sync" => o.cf
  /\ manual.pc # "none" => Remembered({})
  /\ Pending /\ receipt.status \notin {"running", "paused"} => Remembered(receipt.base.ids)
  /\ job.pc \in {"load", "plan", "write", "undo"} => Remembered(job.base.ids \cup RuleSync!Added)
  /\ job.pc \in {"manifest", "baseline"} => Remembered(RuleSync!NewIds)
  /\ job.pc = "cache" \/ (job.pc = "end" /\ job.error # "rollback") => Remembered(job.base.ids)

SyncInv == SyncShaped /\ JobIsAlone /\ DirtyWaits /\ WritesAreFew /\ RowsAreRemembered

LEMMA ToSetOfAppend ==
  ASSUME NEW S, NEW q \in Seq(S), NEW e
  PROVE  RuleSync!ToSet(Append(q, e)) = RuleSync!ToSet(q) \cup {e}
<1>1. Append(q, e) \in Seq(S \cup {e}) /\ Len(Append(q, e)) = Len(q) + 1
  <2>1. q \in Seq(S \cup {e})
    OBVIOUS
  <2> QED BY <2>1
<1>2. \A i \in 1..(Len(q) + 1) : Append(q, e)[i] = IF i = Len(q) + 1 THEN e ELSE q[i]
  <2>1. q \in Seq(S \cup {e})
    OBVIOUS
  <2> QED BY <2>1
<1>3. DOMAIN Append(q, e) = 1..(Len(q) + 1) /\ DOMAIN q = 1..Len(q) /\ Len(q) \in Nat
  BY <1>1
<1> QED BY <1>2, <1>3 DEF RuleSync!ToSet

LEMMA ToSetOfFront ==
  ASSUME NEW S, NEW q \in Seq(S), q # <<>>
  PROVE  /\ SubSeq(q, 1, Len(q) - 1) \in Seq(S)
         /\ RuleSync!ToSet(q) = RuleSync!ToSet(SubSeq(q, 1, Len(q) - 1)) \cup {q[Len(q)]}
<1>1. Len(q) \in Nat /\ Len(q) > 0 /\ DOMAIN q = 1..Len(q)
  OBVIOUS
<1>2. SubSeq(q, 1, Len(q) - 1) \in Seq(S) /\ Len(SubSeq(q, 1, Len(q) - 1)) = Len(q) - 1
  BY <1>1
<1>3. DOMAIN SubSeq(q, 1, Len(q) - 1) = 1..(Len(q) - 1)
  BY <1>2
<1>4. \A i \in 1..(Len(q) - 1) : SubSeq(q, 1, Len(q) - 1)[i] = q[i]
  BY <1>1
<1>5. 1..Len(q) = 1..(Len(q) - 1) \cup {Len(q)}
  BY <1>1
<1>6. RuleSync!ToSet(q) = {q[i] : i \in 1..(Len(q) - 1)} \cup {q[Len(q)]}
  BY <1>1, <1>5 DEF RuleSync!ToSet
<1>7. RuleSync!ToSet(SubSeq(q, 1, Len(q) - 1)) = {q[i] : i \in 1..(Len(q) - 1)}
  BY <1>3, <1>4 DEF RuleSync!ToSet
<1> QED BY <1>2, <1>6, <1>7

Kept(j, k) == k.base = j.base /\ k.control = j.control /\ k.manifest = j.manifest /\ k.begun = j.begun
Planned(j, k) == k.got = j.got /\ k.local = j.local /\ k.add = j.add /\ k.drop = j.drop

Pcs == {"idle", "queued", "load", "plan", "write", "manifest", "baseline", "cache", "undo", "end"}

LEMMA JobGoes ==
  ASSUME NEW j, IsJob(j), NEW p \in Pcs, NEW k, k = [j EXCEPT !.pc = p]
  PROVE  /\ IsJob(k) /\ Kept(j, k) /\ Planned(j, k)
         /\ k.pc = p /\ k.error = j.error /\ k.journal = j.journal /\ k.checked = j.checked
BY DEF IsJob, Pcs, Kept, Planned

LEMMA SettingsEdited ==
  ASSUME NEW s, IsSettings(s), NEW v, NEW t, t = [s EXCEPT !.local = v] \/ t = [s EXCEPT !.control = v]
  PROVE  IsSettings(t)
<1>1. CASE t = [s EXCEPT !.local = v]
  BY <1>1 DEF IsSettings
<1>2. CASE t = [s EXCEPT !.control = v]
  BY <1>2 DEF IsSettings
<1> QED BY <1>1, <1>2

LEMMA SettingsSwitched ==
  ASSUME NEW s, IsSettings(s), NEW v, NEW t, t = [s EXCEPT !.auto = v]
  PROVE  IsSettings(t) /\ t.control = s.control /\ t.local = s.local
BY DEF IsSettings

LEMMA SettingsRelease ==
  ASSUME NEW s, IsSettings(s), NEW v, NEW t, t = [s EXCEPT !.manifest = v]
  PROVE  IsSettings(t) /\ t.control = s.control /\ t.local = s.local
BY DEF IsSettings

LEMMA RowIsMade ==
  ASSUME NEW n, NEW g, NEW c, NEW b, NEW o, o = [net |-> n, gen |-> g, cf |-> c, by |-> b]
  PROVE  IsRow(o) /\ o.cf = c /\ o.by = b /\ o.net = n /\ o.gen = g
BY DEF IsRow

LEMMA RowIsMarked ==
  ASSUME NEW o, IsRow(o), NEW b, NEW p, p = [o EXCEPT !.by = b] PROVE IsRow(p) /\ p.by = b
BY DEF IsRow

LEMMA ObjectIsRow ==
  ASSUME NEW n, NEW g, NEW o, o = RuleSync!Object(n, g)
  PROVE  IsRow(o) /\ o.cf /\ o.net = n /\ o.gen = g
<1>1. PICK c : c = TRUE /\ o = [net |-> n, gen |-> g, cf |-> c, by |-> "sync"]
  BY DEF RuleSync!Object
<1> QED BY <1>1, RowIsMade

LEMMA LateChanges ==
  ASSUME NEW l, l \in [writes : Nat, dirty : BOOLEAN], NEW w \in Nat, NEW d \in BOOLEAN
  PROVE  /\ [l EXCEPT !.writes = w] \in [writes : Nat, dirty : BOOLEAN]
         /\ [l EXCEPT !.writes = w].writes = w /\ [l EXCEPT !.writes = w].dirty = l.dirty
         /\ [l EXCEPT !.dirty = d] \in [writes : Nat, dirty : BOOLEAN]
         /\ [l EXCEPT !.dirty = d].dirty = d /\ [l EXCEPT !.dirty = d].writes = l.writes
OBVIOUS

LEMMA ReceiptChanges ==
  ASSUME NEW r, r \in [status : {r.status}, base : {r.base}], NEW s, NEW t, t = [r EXCEPT !.status = s]
  PROVE 
         t \in [status : {t.status}, base : {t.base}] /\ t.status = s /\ t.base = r.base
OBVIOUS

LEMMA ManualChanges ==
  ASSUME NEW m, m \in [pc : {m.pc}, wanted : {m.wanted}, changed : {m.changed}], NEW c, NEW n, n = [m EXCEPT !.changed = c]
  PROVE 
         n \in [pc : {n.pc}, wanted : {n.wanted}, changed : {n.changed}] /\ n.pc = m.pc
OBVIOUS

LEMMA NoRecords ==
  /\ IsJob(RuleSync!NoJob) /\ IsBase(RuleSync!NoBase) /\ RuleSync!NoJob.pc = "idle" /\ RuleSync!NoJob.base = RuleSync!NoBase
  /\ RuleSync!NoJob.journal = <<>> /\ Sequential(<<>>)
  /\ RuleSync!NoRelease \in [pc : {RuleSync!NoRelease.pc}, wanted : {RuleSync!NoRelease.wanted}, changed : {RuleSync!NoRelease.changed}]
  /\ RuleSync!NoRelease.pc = "none"
<1>1. IsBase(RuleSync!NoBase)
  BY DEF IsBase, RuleSync!NoBase
<1>2. /\ RuleSync!NoJob.pc = "idle" /\ RuleSync!NoJob.base = RuleSync!NoBase /\ RuleSync!NoJob.journal = <<>>
  BY DEF RuleSync!NoJob
<1>3. IsJob(RuleSync!NoJob)
  <2>1. \A b, c, g, l, m, a, d, q, x, y, e :
          LET j == [pc |-> "idle", base |-> b, control |-> c, got |-> g, local |-> l, manifest |-> m, add |-> a, drop |-> d,
                    journal |-> q, checked |-> x, begun |-> y, error |-> e] IN IsJob(j)
    BY DEF IsJob
  <2> QED BY <2>1 DEF RuleSync!NoJob
<1>4. Sequential(<<>>)
  <2>1. <<>> \in Seq({})
    OBVIOUS
  <2> QED BY <2>1 DEF Sequential
<1> QED BY <1>1, <1>2, <1>3, <1>4 DEF RuleSync!NoRelease

(* What the invariant says follows from how these few things move.                       *)
LEMMA AddedStays ==
  job'.journal = job.journal => RuleSync!Added' = RuleSync!Added /\ RuleSync!Removed' = RuleSync!Removed
BY DEF RuleSync!Added, RuleSync!Removed

LEMMA SyncStands ==
  ASSUME SyncInv, UNCHANGED <<rulesync_settings, receipt, rows, job, manual, late>> PROVE SyncInv'
<1>1. RuleSync!Added' = RuleSync!Added /\ RuleSync!NewIds' = RuleSync!NewIds
  BY DEF RuleSync!Added, RuleSync!NewIds, RuleSync!Removed
<1>2. SyncShaped'
  BY DEF SyncInv, SyncShaped
<1>3. JobIsAlone' /\ DirtyWaits' /\ WritesAreFew'
  BY DEF SyncInv, JobIsAlone, DirtyWaits, WritesAreFew, Pending, RuleSync!Stands
<1>4. RowsAreRemembered'
  BY <1>1 DEF SyncInv, RowsAreRemembered, Pending, Remembered
<1> QED BY <1>2, <1>3, <1>4 DEF SyncInv

LEMMA SyncStarts == Init => SyncInv
<1> SUFFICES ASSUME Init PROVE SyncInv
  OBVIOUS
<1>0. /\ IsSettings(rulesync_settings) /\ receipt.status = "waiting" /\ receipt.base = RuleSync!NoBase /\ rows = {}
      /\ receipt \in [status : {receipt.status}, base : {receipt.base}]
      /\ job = RuleSync!NoJob /\ manual = RuleSync!NoRelease
      /\ late \in [writes : Nat, dirty : BOOLEAN] /\ late.writes = 0 /\ late.dirty = FALSE
  BY DEF Init, RuleSync!SyncInit, IsSettings
<1>1. SyncShaped
  BY <1>0, NoRecords DEF SyncShaped
<1>2. JobIsAlone /\ DirtyWaits /\ WritesAreFew
  BY <1>0, NoRecords DEF JobIsAlone, DirtyWaits, WritesAreFew, Pending
<1>3. RowsAreRemembered
  BY <1>0 DEF RowsAreRemembered, Remembered
<1> QED BY <1>1, <1>2, <1>3 DEF SyncInv

LEMMA SyncEditKeeps == SyncInv /\ RuleSync!EditSettings => SyncInv'
<1> SUFFICES ASSUME SyncInv, RuleSync!EditSettings PROVE SyncInv'
  OBVIOUS
<1>0. /\ UNCHANGED <<receipt, rows, job>> /\ IsSettings(rulesync_settings')
      /\ manual' \in [pc : {manual'.pc}, wanted : {manual'.wanted}, changed : {manual'.changed}] /\ manual'.pc = manual.pc
      /\ late' \in [writes : Nat, dirty : BOOLEAN] /\ late'.dirty = late.dirty
      /\ late'.writes = IF RuleSync!Stands(rulesync_settings') THEN 0 ELSE late.writes
  <2>1. IsSettings(rulesync_settings')
    <3>1. PICK v : \/ rulesync_settings' = [rulesync_settings EXCEPT !.local = v]
                   \/ rulesync_settings' = [rulesync_settings EXCEPT !.control = v]
      BY DEF RuleSync!EditSettings
    <3> QED BY <3>1, SettingsEdited DEF SyncInv, SyncShaped
  <2>2. manual' \in [pc : {manual'.pc}, wanted : {manual'.wanted}, changed : {manual'.changed}] /\ manual'.pc = manual.pc
    BY ManualChanges DEF SyncInv, SyncShaped, RuleSync!EditSettings
  <2>3. PICK w \in Nat : w = (IF RuleSync!Stands(rulesync_settings') THEN 0 ELSE late.writes)
    BY DEF SyncInv, SyncShaped
  <2>4. late' = [late EXCEPT !.writes = w]
    BY <2>3 DEF RuleSync!EditSettings
  <2> QED BY <2>1, <2>2, <2>3, <2>4, LateChanges DEF SyncInv, SyncShaped, RuleSync!EditSettings
<1>1. SyncShaped'
  BY <1>0 DEF SyncInv, SyncShaped
<1>2. JobIsAlone' /\ DirtyWaits'
  BY <1>0 DEF SyncInv, JobIsAlone, DirtyWaits, Pending
<1>3. RuleSync!Stands(rulesync_settings)' <=> RuleSync!Stands(rulesync_settings')
  BY <1>0 DEF RuleSync!Stands
<1>4. WritesAreFew'
  BY <1>0, <1>3 DEF SyncInv, SyncShaped, WritesAreFew, Pending
<1>5. RowsAreRemembered'
  BY <1>0, AddedStays DEF SyncInv, RowsAreRemembered, Remembered, Pending, RuleSync!NewIds
<1> QED BY <1>1, <1>2, <1>4, <1>5 DEF SyncInv

LEMMA SyncSwitchKeeps == SyncInv /\ RuleSync!Switch => SyncInv'
<1> SUFFICES ASSUME SyncInv, RuleSync!Switch PROVE SyncInv'
  OBVIOUS
<1>0. /\ UNCHANGED <<receipt, rows, job, manual, late>> /\ IsSettings(rulesync_settings')
      /\ rulesync_settings'.control = rulesync_settings.control /\ rulesync_settings'.local = rulesync_settings.local
  <2>1. PICK a : rulesync_settings' = [rulesync_settings EXCEPT !.auto = a]
    BY DEF RuleSync!Switch
  <2> QED BY <2>1, SettingsSwitched DEF SyncInv, SyncShaped, RuleSync!Switch
<1>1. SyncShaped'
  BY <1>0 DEF SyncInv, SyncShaped
<1>2. JobIsAlone' /\ DirtyWaits'
  BY <1>0 DEF SyncInv, JobIsAlone, DirtyWaits, Pending
<1>3. RuleSync!Stands(rulesync_settings)' <=> RuleSync!Stands(rulesync_settings)
  BY <1>0 DEF RuleSync!Stands
<1>4. WritesAreFew'
  BY <1>0, <1>3 DEF SyncInv, WritesAreFew, Pending
<1>5. RowsAreRemembered'
  BY <1>0, AddedStays DEF SyncInv, RowsAreRemembered, Remembered, Pending, RuleSync!NewIds
<1> QED BY <1>1, <1>2, <1>4, <1>5 DEF SyncInv

LEMMA SyncByHandKeeps == SyncInv /\ RuleSync!ByHand => SyncInv'
<1> SUFFICES ASSUME SyncInv, RuleSync!ByHand PROVE SyncInv'
  OBVIOUS
<1>0. UNCHANGED <<rulesync_settings, receipt, job, manual, late>>
  BY DEF RuleSync!ByHand
<1>1. \A o \in rows' : IsRow(o) /\ (o.by = "sync" => o \in rows)
  <2>1. CASE \E n \in Nets \ PolicyNets, cf \in BOOLEAN :
               rows' = rows \cup {[RuleSync!Object(n, RuleSync!Fresh(n)) EXCEPT !.cf = cf, !.by = "hand"]}
    <3>1. PICK n, c, g : rows' = rows \cup {[RuleSync!Object(n, g) EXCEPT !.cf = c, !.by = "hand"]}
      BY <2>1
    <3>2. PICK o, p : o = RuleSync!Object(n, g) /\ p = [o EXCEPT !.cf = c, !.by = "hand"]
      OBVIOUS
    <3>3. IsRow(p) /\ p.by = "hand"
      <4>1. IsRow(o)
        BY <3>2, ObjectIsRow
      <4> QED BY <3>2, <4>1 DEF IsRow
    <3> QED BY <3>1, <3>2, <3>3 DEF SyncInv, SyncShaped
  <2>2. CASE \E o \in rows : rows' = rows \ {o}
    BY <2>2 DEF SyncInv, SyncShaped
  <2> QED BY <2>1, <2>2 DEF RuleSync!ByHand
<1>2. SyncShaped'
  BY <1>0, <1>1 DEF SyncInv, SyncShaped
<1>3. JobIsAlone' /\ DirtyWaits' /\ WritesAreFew'
  BY <1>0 DEF SyncInv, JobIsAlone, DirtyWaits, WritesAreFew, Pending, RuleSync!Stands
<1>4. RowsAreRemembered'
  BY <1>0, <1>1, AddedStays DEF SyncInv, RowsAreRemembered, Remembered, Pending, RuleSync!NewIds
<1> QED BY <1>2, <1>3, <1>4 DEF SyncInv

LEMMA SyncReleaseKeeps == SyncInv /\ RuleSync!Release => SyncInv'
<1> SUFFICES ASSUME SyncInv, RuleSync!Release PROVE SyncInv'
  OBVIOUS
<1>0. /\ Pending /\ manual.pc = "none" /\ UNCHANGED <<receipt, job>>
      /\ IsSettings(rulesync_settings') /\ manual'.pc = "released"
      /\ manual' \in [pc : {manual'.pc}, wanted : {manual'.wanted}, changed : {manual'.changed}]
      /\ late' \in [writes : Nat, dirty : BOOLEAN] /\ late'.writes = late.writes /\ late'.dirty = FALSE
  <2>1. PICK d, m : d \in BOOLEAN /\ d = FALSE /\ rulesync_settings' = [rulesync_settings EXCEPT !.manifest = m]
    BY DEF RuleSync!Release
  <2>2. late' = [late EXCEPT !.dirty = d]
    BY <2>1 DEF RuleSync!Release
  <2>3. PICK w, c : manual' = [pc |-> "released", wanted |-> w, changed |-> c]
    BY DEF RuleSync!Release
  <2>4. IsSettings(rulesync_settings')
    BY <2>1, SettingsRelease DEF SyncInv, SyncShaped
  <2>5. late' \in [writes : Nat, dirty : BOOLEAN] /\ late'.writes = late.writes /\ late'.dirty = FALSE
    BY <2>1, <2>2, LateChanges DEF SyncInv, SyncShaped
  <2> QED BY <2>3, <2>4, <2>5 DEF RuleSync!Release, Pending
<1>1. \A o \in rows' : IsRow(o) /\ o.by # "sync"
  <2>1. ASSUME NEW o \in rows', NEW n, NEW g, NEW p, p = RuleSync!Object(n, g), o = [p EXCEPT !.by = "release"]
        PROVE  IsRow(o) /\ o.by = "release"
    <3>1. IsRow(p)
      BY <2>1, ObjectIsRow
    <3> QED BY <2>1, <3>1, RowIsMarked
  <2>2. ASSUME NEW o \in rows', NEW p \in rows, o = [p EXCEPT !.by = "release"] PROVE IsRow(o) /\ o.by = "release"
    BY <2>2, RowIsMarked DEF SyncInv, SyncShaped
  <2>3. \A o \in rows : o.by = "sync" => o.cf
    BY DEF SyncInv, RowsAreRemembered
  <2>4. \A o \in rows' : \/ o \in rows /\ ~o.cf
                         \/ \E p \in rows : o = [p EXCEPT !.by = "release"]
                         \/ \E n, g, p : p = RuleSync!Object(n, g) /\ o = [p EXCEPT !.by = "release"]
    BY DEF RuleSync!Release
  <2> QED BY <2>1, <2>2, <2>3, <2>4 DEF SyncInv, SyncShaped
<1>2. SyncShaped'
  BY <1>0, <1>1 DEF SyncInv, SyncShaped
<1>3. JobIsAlone' /\ DirtyWaits' /\ WritesAreFew'
  BY <1>0 DEF SyncInv, JobIsAlone, DirtyWaits, WritesAreFew, Pending
<1>4. RowsAreRemembered'
  BY <1>1 DEF RowsAreRemembered, Remembered
<1> QED BY <1>2, <1>3, <1>4 DEF SyncInv

LEMMA SyncCaptureKeeps == SyncInv /\ RuleSync!Capture => SyncInv'
<1> SUFFICES ASSUME SyncInv, RuleSync!Capture PROVE SyncInv'
  OBVIOUS
<1>0. /\ manual.pc = "released" /\ manual' = RuleSync!NoRelease /\ UNCHANGED <<rulesync_settings, rows, job, late>>
      /\ receipt' \in [status : {receipt'.status}, base : {receipt'.base}] /\ IsBase(receipt'.base)
  <2>1. \A y, c, r, l, i : IsBase([ready |-> y, control |-> c, remote |-> r, local |-> l, ids |-> i])
    BY DEF IsBase
  <2>2. PICK s, y, c, r, l, i : receipt' = [status |-> s, base |-> [ready |-> y, control |-> c, remote |-> r, local |-> l, ids |-> i]]
    BY DEF RuleSync!Capture, RuleSync!NoBase
  <2> QED BY <2>1, <2>2 DEF RuleSync!Capture
<1>1. Pending /\ Remembered({}) /\ ~late.dirty
  BY <1>0 DEF SyncInv, SyncShaped, JobIsAlone, DirtyWaits, RowsAreRemembered
<1>2. SyncShaped'
  BY <1>0, NoRecords DEF SyncInv, SyncShaped
<1>3. JobIsAlone' /\ DirtyWaits' /\ WritesAreFew'
  BY <1>0, <1>1 DEF SyncInv, JobIsAlone, DirtyWaits, WritesAreFew, Pending
<1>4. RowsAreRemembered'
  BY <1>0, <1>1, NoRecords DEF SyncInv, RowsAreRemembered, Remembered, Pending
<1> QED BY <1>2, <1>3, <1>4 DEF SyncInv

LEMMA BaseIsSame == job'.base = job.base /\ UNCHANGED rulesync_settings => (RuleSync!Stands(rulesync_settings)' <=> RuleSync!Stands(rulesync_settings))
BY DEF RuleSync!Stands

LEMMA NothingAdded ==
  job.journal = <<>> => RuleSync!Added = {} /\ RuleSync!Removed = {}
<1> SUFFICES ASSUME job.journal = <<>> PROVE RuleSync!Added = {} /\ RuleSync!Removed = {}
  OBVIOUS
<1>1. DOMAIN <<>> = {}
  OBVIOUS
<1>2. RuleSync!ToSet(job.journal) = {}
  BY <1>1 DEF RuleSync!ToSet
<1> QED BY <1>2 DEF RuleSync!Added, RuleSync!Removed

LEMMA SyncStartKeeps == SyncInv /\ RuleSync!StartJob => SyncInv'
<1> SUFFICES ASSUME SyncInv, RuleSync!StartJob PROVE SyncInv'
  OBVIOUS
<1>0. /\ UNCHANGED <<rulesync_settings, rows, manual, late>> /\ manual.pc = "none" /\ Pending /\ Pending'
      /\ receipt.status \notin {"running", "paused"} /\ receipt'.base = receipt.base
      /\ receipt' \in [status : {receipt'.status}, base : {receipt'.base}]
      /\ IsJob(job') /\ IsBase(job'.base) /\ job'.journal = <<>> /\ job'.pc = "queued"
  <2>1. receipt' \in [status : {receipt'.status}, base : {receipt'.base}] /\ receipt'.base = receipt.base
    BY ReceiptChanges DEF SyncInv, SyncShaped, RuleSync!StartJob
  <2>2. PICK j : j = RuleSync!NoJob
    OBVIOUS
  <2>3. "queued" \in Pcs /\ job' = [j EXCEPT !.pc = "queued"]
    BY <2>2 DEF Pcs, RuleSync!StartJob
  <2>4. IsJob(job') /\ job'.base = j.base /\ job'.journal = j.journal /\ job'.pc = "queued"
    BY <2>2, <2>3, NoRecords, JobGoes DEF Kept
  <2> QED BY <2>1, <2>2, <2>4, NoRecords DEF RuleSync!StartJob, Pending
<1>1. ~late.dirty /\ Remembered(receipt.base.ids)
  BY <1>0 DEF SyncInv, DirtyWaits, RowsAreRemembered
<1>2. SyncShaped'
  BY <1>0, NoRecords DEF SyncInv, SyncShaped
<1>3. JobIsAlone' /\ DirtyWaits' /\ WritesAreFew'
  BY <1>0, <1>1 DEF SyncInv, JobIsAlone, DirtyWaits, WritesAreFew, Pending
<1>4. RowsAreRemembered'
  BY <1>0, <1>1 DEF SyncInv, RowsAreRemembered, Remembered
<1> QED BY <1>2, <1>3, <1>4 DEF SyncInv

LEMMA SyncCancelledKeeps == SyncInv /\ RuleSync!Cancelled => SyncInv'
<1> SUFFICES ASSUME SyncInv, RuleSync!Cancelled PROVE SyncInv'
  OBVIOUS
<1>0. /\ UNCHANGED <<rulesync_settings, rows, manual, late>> /\ job' = RuleSync!NoJob /\ Pending
      /\ receipt' \in [status : {receipt'.status}, base : {receipt'.base}] /\ receipt'.base = receipt.base
      /\ receipt'.status = IF receipt.status = "queued" THEN "failed" ELSE receipt.status
  BY ReceiptChanges DEF SyncInv, SyncShaped, RuleSync!Cancelled, Pending
<1>1. SyncShaped'
  BY <1>0, NoRecords DEF SyncInv, SyncShaped
<1>2. JobIsAlone' /\ DirtyWaits' /\ WritesAreFew'
  BY <1>0, NoRecords DEF SyncInv, JobIsAlone, DirtyWaits, WritesAreFew, Pending
<1>3. RowsAreRemembered'
  BY <1>0, NoRecords DEF SyncInv, RowsAreRemembered, Remembered, Pending
<1> QED BY <1>1, <1>2, <1>3 DEF SyncInv

LEMMA SyncBeginKeeps == SyncInv /\ RuleSync!Begin => SyncInv'
<1> SUFFICES ASSUME SyncInv, RuleSync!Begin PROVE SyncInv'
  OBVIOUS
<1>0. UNCHANGED <<rulesync_settings, rows, manual>> /\ manual.pc = "none" /\ Pending
  BY DEF RuleSync!Begin, Pending
<1>1. CASE receipt.status \in {"running", "paused"}
  <2>0. /\ job' = RuleSync!NoJob /\ UNCHANGED late /\ receipt'.status = "paused" /\ receipt'.base = receipt.base
        /\ receipt' \in [status : {receipt'.status}, base : {receipt'.base}]
    <3>1. receipt' = [receipt EXCEPT !.status = "paused"] /\ job' = RuleSync!NoJob /\ UNCHANGED late
      BY <1>1 DEF RuleSync!Begin
    <3> QED BY <3>1, ReceiptChanges DEF SyncInv, SyncShaped
  <2>1. SyncShaped'
    BY <1>0, <2>0, NoRecords DEF SyncInv, SyncShaped
  <2>2. JobIsAlone' /\ DirtyWaits' /\ WritesAreFew'
    BY <1>0, <2>0, NoRecords DEF SyncInv, JobIsAlone, DirtyWaits, WritesAreFew, Pending
  <2>3. RowsAreRemembered'
    BY <1>0, <2>0, NoRecords DEF SyncInv, RowsAreRemembered, Remembered, Pending
  <2> QED BY <2>1, <2>2, <2>3 DEF SyncInv
<1>2. CASE receipt.status \notin {"running", "paused"}
  <2>0. /\ IsJob(job') /\ job'.pc = "load" /\ job'.base = receipt.base /\ job'.journal = <<>>
        /\ late' \in [writes : Nat, dirty : BOOLEAN] /\ late'.writes = 0 /\ late'.dirty = late.dirty
        /\ receipt' \in [status : {receipt'.status}, base : {receipt'.base}]
        /\ receipt'.status = "running" /\ receipt'.base = receipt.base
    <3>1. receipt' = [receipt EXCEPT !.status = "running"] /\ late' = [late EXCEPT !.writes = 0]
      BY <1>2 DEF RuleSync!Begin
    <3>2. IsJob(job') /\ job'.pc = "load" /\ job'.base = receipt.base /\ job'.journal = <<>>
      <4>1. PICK b, m, c : /\ b = receipt.base
                           /\ job' = [RuleSync!NoJob EXCEPT !.pc = "load", !.base = b, !.manifest = m, !.control = c]
        <5>1. PICK b, m, c : b = receipt.base /\ m = rulesync_settings.manifest /\ c = rulesync_settings.control
          OBVIOUS
        <5>2. job' = [RuleSync!NoJob EXCEPT !.pc = "load", !.base = b, !.manifest = m, !.control = c]
          BY <1>2, <5>1 DEF RuleSync!Begin
        <5> QED BY <5>1, <5>2
      <4>2. PICK j : j = RuleSync!NoJob
        OBVIOUS
      <4>3. IsJob(j) /\ j.journal = <<>> /\ job' = [j EXCEPT !.pc = "load", !.base = b, !.manifest = m, !.control = c]
        BY <4>1, <4>2, NoRecords
      <4> QED BY <4>1, <4>3 DEF IsJob
    <3>3. late' \in [writes : Nat, dirty : BOOLEAN] /\ late'.writes = 0 /\ late'.dirty = late.dirty
      BY <3>1, LateChanges DEF SyncInv, SyncShaped
    <3>4. receipt' \in [status : {receipt'.status}, base : {receipt'.base}] /\ receipt'.status = "running" /\ receipt'.base = receipt.base
      BY <3>1, ReceiptChanges DEF SyncInv, SyncShaped
    <3> QED BY <3>2, <3>3, <3>4
  <2>1. ~late.dirty /\ Remembered(receipt.base.ids)
    BY <1>0, <1>2 DEF SyncInv, DirtyWaits, RowsAreRemembered
  <2>2. SyncShaped'
    BY <1>0, <2>0, NoRecords DEF SyncInv, SyncShaped
  <2>3. JobIsAlone' /\ DirtyWaits' /\ WritesAreFew'
    BY <1>0, <2>0, <2>1 DEF SyncInv, JobIsAlone, DirtyWaits, WritesAreFew, Pending
  <2>4. RowsAreRemembered'
    BY <1>0, <2>0, <2>1 DEF SyncInv, RowsAreRemembered, Remembered, Pending
  <2> QED BY <2>2, <2>3, <2>4 DEF SyncInv
<1> QED BY <1>1, <1>2

(* A job that is refused or stopped keeps what it knows.                                 *)
LEMMA JobEnds ==
  SyncInv /\ UNCHANGED <<rulesync_settings, receipt, rows, manual, late>> /\ IsJob(job') /\ Kept(job, job')
  /\ job'.journal = job.journal /\ job.pc \in {"load", "plan", "write"} /\ job'.pc \in {"undo", "end"}
  /\ (job'.pc = "end" => job.pc \in {"load", "plan"}) => SyncInv'
<1> SUFFICES ASSUME SyncInv, UNCHANGED <<rulesync_settings, receipt, rows, manual, late>>, IsJob(job'), Kept(job, job'),
                    job'.journal = job.journal, job.pc \in {"load", "plan", "write"}, job'.pc \in {"undo", "end"},
                    job'.pc = "end" => job.pc \in {"load", "plan"}
             PROVE  SyncInv'
  OBVIOUS
<1>1. SyncShaped'
  BY DEF SyncInv, SyncShaped, Kept
<1>2. JobIsAlone' /\ DirtyWaits' /\ WritesAreFew'
  BY BaseIsSame DEF SyncInv, JobIsAlone, DirtyWaits, WritesAreFew, Pending, Kept
<1>3. RuleSync!Added' = RuleSync!Added
  BY AddedStays
<1>4. Remembered(job.base.ids \cup RuleSync!Added) /\ (job'.pc = "end" => RuleSync!Added = {})
  BY NothingAdded DEF SyncInv, RowsAreRemembered, JobIsAlone
<1>5. RowsAreRemembered'
  BY <1>3, <1>4 DEF SyncInv, RowsAreRemembered, Remembered, Pending, Kept, JobIsAlone
<1> QED BY <1>1, <1>2, <1>5 DEF SyncInv

LEMMA SyncFetchKeeps == SyncInv /\ RuleSync!Fetch => SyncInv'
<1> SUFFICES ASSUME SyncInv, RuleSync!Fetch PROVE SyncInv'
  OBVIOUS
<1>0. job.pc = "load" /\ UNCHANGED <<rulesync_settings, receipt, rows, manual, late>>
  BY DEF RuleSync!Fetch
<1>1. CASE \E e : job' = [job EXCEPT !.pc = "end", !.error = e]
  <2>1. PICK p, e : p = "end" /\ job' = [job EXCEPT !.pc = p, !.error = e]
    BY <1>1
  <2>2. IsJob(job') /\ Kept(job, job') /\ job'.pc = "end" /\ job'.journal = job.journal
    BY <2>1 DEF SyncInv, SyncShaped, IsJob, Kept
  <2> QED BY <1>0, <2>2, JobEnds
<1>2. CASE /\ job' = [job EXCEPT !.pc = "plan", !.got = remote, !.local = rulesync_settings.local]
           /\ rulesync_settings.local = job.base.local
  <2>0. /\ IsJob(job') /\ Kept(job, job') /\ job'.pc = "plan" /\ job'.journal = job.journal /\ job'.local = job.base.local
    <3>1. PICK g, l : l = rulesync_settings.local /\ job' = [job EXCEPT !.pc = "plan", !.got = g, !.local = l]
      BY <1>2
    <3>2. IsJob(job) /\ "plan" \in Pcs
      BY DEF SyncInv, SyncShaped, Pcs
    <3> QED BY <1>2, <3>1, <3>2 DEF IsJob, Kept, Pcs
  <2>1. SyncShaped'
    BY <1>0, <2>0 DEF SyncInv, SyncShaped, Kept
  <2>2. JobIsAlone' /\ DirtyWaits' /\ WritesAreFew'
    BY <1>0, <2>0, BaseIsSame DEF SyncInv, JobIsAlone, DirtyWaits, WritesAreFew, Pending, Kept
  <2>3. RowsAreRemembered'
    BY <1>0, <2>0, AddedStays DEF SyncInv, RowsAreRemembered, Remembered, Pending, Kept, JobIsAlone
  <2> QED BY <2>1, <2>2, <2>3 DEF SyncInv
<1> QED BY <1>1, <1>2 DEF RuleSync!Fetch, RuleSync!Refuse, RuleSync!Updates

LEMMA SyncInspectKeeps == SyncInv /\ RuleSync!Inspect => SyncInv'
<1> SUFFICES ASSUME SyncInv, RuleSync!Inspect PROVE SyncInv'
  OBVIOUS
<1>0. job.pc = "plan" /\ UNCHANGED <<rulesync_settings, receipt, rows, manual, late>>
  BY DEF RuleSync!Inspect
<1>1. CASE \E e : job' = [job EXCEPT !.pc = "end", !.error = e]
  <2>1. PICK p, e : p = "end" /\ job' = [job EXCEPT !.pc = p, !.error = e]
    BY <1>1
  <2>2. IsJob(job') /\ Kept(job, job') /\ job'.pc = "end" /\ job'.journal = job.journal
    BY <2>1 DEF SyncInv, SyncShaped, IsJob, Kept
  <2> QED BY <1>0, <2>2, JobEnds
<1>2. CASE /\ RuleSync!Current
           /\ job' = [job EXCEPT !.pc = "write", !.begun = TRUE,
                                 !.add = (job.got \cup job.local) \ {i[1] : i \in job.base.ids},
                                 !.drop = RuleSync!Removable(job.base.ids, job.got \cup job.local)]
  <2>0. /\ IsJob(job') /\ job'.base = job.base /\ job'.got = job.got /\ job'.local = job.local /\ job'.pc = "write"
        /\ job'.journal = job.journal
        /\ job'.add \subseteq job.got \cup job.local /\ job'.drop \subseteq job.base.ids
    <3>1. PICK b, a, d : /\ b = TRUE /\ a = (job.got \cup job.local) \ {i[1] : i \in job.base.ids}
                         /\ d = RuleSync!Removable(job.base.ids, job.got \cup job.local)
                         /\ job' = [job EXCEPT !.pc = "write", !.begun = b, !.add = a, !.drop = d]
      BY <1>2
    <3>3. a \subseteq job.got \cup job.local /\ d \subseteq job.base.ids
      BY <3>1 DEF RuleSync!Removable
    <3>2. IsJob(job) /\ "write" \in Pcs
      BY DEF SyncInv, SyncShaped, Pcs
    <3> QED BY <3>1, <3>2, <3>3 DEF IsJob, Pcs
  <2>1. RuleSync!Stands(rulesync_settings)
    BY <1>0, <1>2 DEF RuleSync!Current, RuleSync!Stands, SyncInv, JobIsAlone
  <2>2. SyncShaped'
    BY <1>0, <2>0 DEF SyncInv, SyncShaped
  <2>3. JobIsAlone' /\ DirtyWaits' /\ WritesAreFew'
    BY <1>0, <2>0, <2>1, BaseIsSame DEF SyncInv, JobIsAlone, DirtyWaits, WritesAreFew, Pending
  <2>4. RowsAreRemembered'
    BY <1>0, <2>0, AddedStays DEF SyncInv, RowsAreRemembered, Remembered, Pending, JobIsAlone
  <2> QED BY <2>2, <2>3, <2>4 DEF SyncInv
<1> QED BY <1>1, <1>2 DEF RuleSync!Inspect, RuleSync!Refuse

LEMMA SyncRecheckKeeps == SyncInv /\ RuleSync!Recheck => SyncInv'
<1> SUFFICES ASSUME SyncInv, RuleSync!Recheck PROVE SyncInv'
  OBVIOUS
<1>0. job.pc = "write" /\ UNCHANGED <<rulesync_settings, receipt, rows, manual, late>>
  BY DEF RuleSync!Recheck
<1>1. CASE \E e : job' = [job EXCEPT !.pc = "undo", !.error = e]
  <2>1. PICK p, e : p = "undo" /\ job' = [job EXCEPT !.pc = p, !.error = e]
    BY <1>1
  <2>2. IsJob(job') /\ Kept(job, job') /\ job'.pc = "undo" /\ job'.journal = job.journal
    BY <2>1 DEF SyncInv, SyncShaped, IsJob, Kept
  <2> QED BY <1>0, <2>2, JobEnds
<1>2. CASE RuleSync!Current /\ job' = [job EXCEPT !.checked = TRUE]
  <2>0. IsJob(job') /\ Kept(job, job') /\ Planned(job, job') /\ job'.pc = job.pc /\ job'.journal = job.journal
    <3>1. PICK c : job' = [job EXCEPT !.checked = c]
      BY <1>2
    <3> QED BY <3>1 DEF SyncInv, SyncShaped, IsJob, Kept, Planned
  <2>1. RuleSync!Stands(rulesync_settings)
    BY <1>0, <1>2 DEF RuleSync!Current, RuleSync!Stands, SyncInv, JobIsAlone
  <2>2. SyncShaped'
    BY <1>0, <2>0 DEF SyncInv, SyncShaped, Kept
  <2>3. JobIsAlone' /\ DirtyWaits' /\ WritesAreFew'
    BY <1>0, <2>0, <2>1 DEF SyncInv, JobIsAlone, DirtyWaits, WritesAreFew, Pending, Kept, Planned
  <2>4. RowsAreRemembered'
    BY <1>0, <2>0, AddedStays DEF SyncInv, RowsAreRemembered, Remembered, Pending, Kept
  <2> QED BY <2>2, <2>3, <2>4 DEF SyncInv
<1> QED BY <1>1, <1>2 DEF RuleSync!Recheck, RuleSync!Stop

(* One object was created or deleted, and the journal says so.                           *)
LEMMA ChangeKeeps ==
  SyncInv /\ UNCHANGED <<rulesync_settings, receipt, manual>> /\ job.pc = "write" /\ job.checked
  /\ IsJob(job') /\ Kept(job, job') /\ job'.got = job.got /\ job'.local = job.local /\ job'.pc \in {"write", "undo"}
  /\ job'.add \subseteq job.add /\ job'.drop \subseteq job.drop /\ ~job'.checked /\ Sequential(job'.journal)
  /\ late' = [late EXCEPT !.writes = IF RuleSync!Stands(rulesync_settings) THEN @ ELSE @ + 1]
  /\ (\A o \in rows' : IsRow(o) /\ (o.by = "sync" => o.cf))
  /\ (\A o \in rows' : o.by = "sync" => <<o.net, o.gen>> \in job.base.ids \cup RuleSync!Added') => SyncInv'
<1> SUFFICES ASSUME SyncInv, UNCHANGED <<rulesync_settings, receipt, manual>>, job.pc = "write", job.checked, IsJob(job'),
                    Kept(job, job'), job'.got = job.got, job'.local = job.local, job'.pc \in {"write", "undo"},
                    job'.add \subseteq job.add, job'.drop \subseteq job.drop, ~job'.checked, Sequential(job'.journal),
                    late' = [late EXCEPT !.writes = IF RuleSync!Stands(rulesync_settings) THEN @ ELSE @ + 1],
                    \A o \in rows' : IsRow(o) /\ (o.by = "sync" => o.cf),
                    \A o \in rows' : o.by = "sync" => <<o.net, o.gen>> \in job.base.ids \cup RuleSync!Added'
             PROVE  SyncInv'
  OBVIOUS
<1>0. late.writes = 0 /\ ~late.dirty
  BY DEF SyncInv, WritesAreFew, DirtyWaits
<1>1. /\ late' \in [writes : Nat, dirty : BOOLEAN] /\ late'.dirty = late.dirty
      /\ late'.writes = IF RuleSync!Stands(rulesync_settings) THEN 0 ELSE 1
  <2>1. PICK w : w = (IF RuleSync!Stands(rulesync_settings) THEN late.writes ELSE late.writes + 1)
    OBVIOUS
  <2>2. late' = [late EXCEPT !.writes = w] /\ w = (IF RuleSync!Stands(rulesync_settings) THEN 0 ELSE 1) /\ w \in Nat
    BY <1>0, <2>1
  <2> QED BY <2>2, LateChanges DEF SyncInv, SyncShaped
<1>2. SyncShaped'
  BY <1>1 DEF SyncInv, SyncShaped, Kept
<1>3. JobIsAlone' /\ DirtyWaits'
  BY <1>0, <1>1 DEF SyncInv, JobIsAlone, DirtyWaits, Pending, Kept
<1>4. WritesAreFew'
  BY <1>0, <1>1, BaseIsSame DEF WritesAreFew, Pending, Kept
<1>5. RowsAreRemembered'
  BY DEF SyncInv, RowsAreRemembered, JobIsAlone, Remembered, Pending, Kept
<1> QED BY <1>2, <1>3, <1>4, <1>5 DEF SyncInv

(* The journal with one more entry.                                                      *)
LEMMA JournalGrows ==
  ASSUME IsJob(job), Sequential(job.journal), NEW op, NEW id, NEW k, k = RuleSync!Journaled(op, id)
  PROVE  /\ IsJob(k) /\ Kept(job, k) /\ k.got = job.got /\ k.local = job.local /\ k.pc = job.pc
         /\ k.add \subseteq job.add /\ k.drop \subseteq job.drop /\ ~k.checked
         /\ k.journal = Append(job.journal, [op |-> op, id |-> id]) /\ Sequential(k.journal)
<1>1. PICK a, d, c, q : /\ a = job.add \ {id[1]} /\ d = job.drop \ {id} /\ c = FALSE
                        /\ q = Append(job.journal, [op |-> op, id |-> id])
  OBVIOUS
<1>2. k = [job EXCEPT !.add = a, !.drop = d, !.checked = c, !.journal = q]
  BY <1>1 DEF RuleSync!Journaled
<1>3. /\ IsJob(k) /\ Kept(job, k) /\ k.got = job.got /\ k.local = job.local /\ k.pc = job.pc
      /\ k.add = a /\ k.drop = d /\ k.checked = c /\ k.journal = q
  BY <1>2 DEF IsJob, Kept
<1>4. Sequential(q)
  <2>1. PICK S : job.journal \in Seq(S)
    BY DEF Sequential
  <2>2. PICK e : e = [op |-> op, id |-> id]
    OBVIOUS
  <2>3. job.journal \in Seq(S \cup {e})
    BY <2>1
  <2>4. Append(job.journal, e) \in Seq(S \cup {e})
    BY <2>3
  <2> QED BY <1>1, <2>2, <2>4 DEF Sequential
<1> QED BY <1>1, <1>3, <1>4

LEMMA AddedGrows ==
  ASSUME Sequential(job.journal), NEW op, NEW id, job'.journal = Append(job.journal, [op |-> op, id |-> id])
  PROVE  /\ op = "add" => RuleSync!Added' = RuleSync!Added \cup {id}
         /\ op = "delete" => RuleSync!Added' = RuleSync!Added
<1>1. PICK S : job.journal \in Seq(S)
  BY DEF Sequential
<1>2. PICK e : e = [op |-> op, id |-> id]
  OBVIOUS
<1>3. RuleSync!ToSet(Append(job.journal, e)) = RuleSync!ToSet(job.journal) \cup {e}
  BY <1>1, ToSetOfAppend
<1>4. RuleSync!ToSet(job.journal)' = RuleSync!ToSet(job.journal) \cup {e}
  <2>1. RuleSync!ToSet(job.journal)' = RuleSync!ToSet(Append(job.journal, e))
    BY <1>2 DEF RuleSync!ToSet
  <2> QED BY <1>3, <2>1
<1>5. e.op = op /\ e.id = id
  BY <1>2
<1> QED BY <1>4, <1>5 DEF RuleSync!Added

(* A change that is made, and one that is refused.                                        *)
LEMMA ChangeIsOne ==
  ASSUME SyncInv, UNCHANGED <<rulesync_settings, receipt, manual>>, job.pc = "write", job.checked,
         NEW op \in {"add", "delete"}, NEW id, RuleSync!Change(rows', id, op),
         \A o \in rows' : IsRow(o) /\ (o.by = "sync" => o.cf),
         \A o \in rows' : o.by = "sync" /\ o \notin rows => op = "add" /\ <<o.net, o.gen>> = id
  PROVE  SyncInv'
<1>1. CASE UNCHANGED <<rows, late>> /\ \E kind : RuleSync!Stop(kind)
  <2>1. PICK p, e : p = "undo" /\ job' = [job EXCEPT !.pc = p, !.error = e]
    BY <1>1 DEF RuleSync!Stop
  <2>2. IsJob(job') /\ Kept(job, job') /\ job'.pc = "undo" /\ job'.journal = job.journal
    BY <2>1 DEF SyncInv, SyncShaped, IsJob, Kept
  <2> QED BY <1>1, <2>2, JobEnds
<1>2. CASE /\ late' = [late EXCEPT !.writes = IF RuleSync!Stands(rulesync_settings) THEN @ ELSE @ + 1]
           /\ \/ job' = RuleSync!Journaled(op, id)
              \/ job' = [RuleSync!Journaled(op, id) EXCEPT !.pc = "undo", !.error = "router"]
  <2>1. PICK k : k = RuleSync!Journaled(op, id)
    OBVIOUS
  <2>2. /\ IsJob(k) /\ Kept(job, k) /\ k.got = job.got /\ k.local = job.local /\ k.pc = job.pc
        /\ k.add \subseteq job.add /\ k.drop \subseteq job.drop /\ ~k.checked
        /\ k.journal = Append(job.journal, [op |-> op, id |-> id]) /\ Sequential(k.journal)
    BY <2>1, JournalGrows DEF SyncInv, SyncShaped
  <2>3. /\ IsJob(job') /\ Kept(k, job') /\ job'.got = k.got /\ job'.local = k.local /\ job'.pc \in {"write", "undo"}
        /\ job'.add = k.add /\ job'.drop = k.drop /\ job'.checked = k.checked /\ job'.journal = k.journal
    <3>1. CASE job' = k
      BY <2>2, <3>1 DEF Kept
    <3>2. CASE job' = [k EXCEPT !.pc = "undo", !.error = "router"]
      BY <2>2, <3>2 DEF IsJob, Kept
    <3> QED BY <1>2, <2>1, <3>1, <3>2
  <2>4. /\ op = "add" => RuleSync!Added' = RuleSync!Added \cup {id}
        /\ op = "delete" => RuleSync!Added' = RuleSync!Added
    BY <2>2, <2>3, AddedGrows DEF SyncInv, SyncShaped
  <2>5. \A o \in rows : o.by = "sync" => <<o.net, o.gen>> \in job.base.ids \cup RuleSync!Added
    BY DEF SyncInv, RowsAreRemembered, Remembered
  <2>6. \A o \in rows' : o.by = "sync" => <<o.net, o.gen>> \in job.base.ids \cup RuleSync!Added'
    BY <2>4, <2>5
  <2>7. Kept(job, job')
    BY <2>2, <2>3 DEF Kept
  <2> QED BY <1>2, <2>2, <2>3, <2>6, <2>7, ChangeKeeps
<1> QED BY <1>1, <1>2 DEF RuleSync!Change

LEMMA SyncWriteKeeps == SyncInv /\ RuleSync!Write => SyncInv'
<1> SUFFICES ASSUME SyncInv, RuleSync!Write PROVE SyncInv'
  OBVIOUS
<1>0. job.pc = "write" /\ job.checked /\ UNCHANGED <<rulesync_settings, receipt, manual>>
  BY DEF RuleSync!Write
<1>r. \A o \in rows : IsRow(o) /\ (o.by = "sync" => o.cf)
  BY DEF SyncInv, SyncShaped, RowsAreRemembered
<1>1. CASE RuleSync!Stop("router") /\ UNCHANGED <<rows, late>>
  <2>1. PICK p, e : p = "undo" /\ job' = [job EXCEPT !.pc = p, !.error = e]
    BY <1>1 DEF RuleSync!Stop
  <2>2. IsJob(job') /\ Kept(job, job') /\ job'.pc = "undo" /\ job'.journal = job.journal
    BY <2>1 DEF SyncInv, SyncShaped, IsJob, Kept
  <2> QED BY <1>0, <1>1, <2>2, JobEnds
<1>2. ASSUME NEW n, RuleSync!Change(rows \cup {RuleSync!Object(n, RuleSync!Fresh(n))}, <<n, RuleSync!Fresh(n)>>, "add")
      PROVE  SyncInv'
  <2>1. PICK g, o, i, p : /\ g = RuleSync!Fresh(n) /\ o = RuleSync!Object(n, g) /\ i = <<n, g>> /\ p = "add"
                          /\ RuleSync!Change(rows \cup {o}, i, p)
    BY <1>2
  <2>2. IsRow(o) /\ o.cf /\ o.net = n /\ o.gen = g
    BY <2>1, ObjectIsRow
  <2>3. CASE rows' = rows \cup {o}
    <3>1. RuleSync!Change(rows', i, p)
      BY <2>1, <2>3
    <3> QED BY <1>0, <1>r, <2>1, <2>2, <2>3, <3>1, ChangeIsOne
  <2>4. CASE rows' # rows \cup {o}
    <3>1. UNCHANGED <<rows, late>> /\ \E kind : RuleSync!Stop(kind)
      BY <2>1, <2>4 DEF RuleSync!Change
    <3>2. RuleSync!Change(rows', i, p)
      BY <2>1, <2>4, <3>1 DEF RuleSync!Change
    <3> QED BY <1>0, <1>r, <2>1, <3>1, <3>2, ChangeIsOne
  <2> QED BY <2>3, <2>4
<1>3. ASSUME NEW i, RuleSync!Change({o \in rows : <<o.net, o.gen>> # i}, i, "delete") PROVE SyncInv'
  <2>1. PICK p, left : p = "delete" /\ left = {o \in rows : <<o.net, o.gen>> # i} /\ RuleSync!Change(left, i, p)
    BY <1>3
  <2>2. rows' = left \/ (UNCHANGED <<rows, late>> /\ \E kind : RuleSync!Stop(kind))
    BY <2>1 DEF RuleSync!Change
  <2>3. RuleSync!Change(rows', i, p)
    BY <2>1, <2>2 DEF RuleSync!Change
  <2>4. rows' \subseteq rows
    BY <2>1, <2>2
  <2> QED BY <1>0, <1>r, <2>1, <2>3, <2>4, ChangeIsOne
<1> QED BY <1>1, <1>2, <1>3 DEF RuleSync!Write

LEMMA SyncVerifiedKeeps == SyncInv /\ RuleSync!Verified => SyncInv'
<1> SUFFICES ASSUME SyncInv, RuleSync!Verified PROVE SyncInv'
  OBVIOUS
<1>0. job.pc = "write" /\ UNCHANGED <<rulesync_settings, receipt, rows, manual, late>>
  BY DEF RuleSync!Verified
<1>1. CASE \E e : job' = [job EXCEPT !.pc = "undo", !.error = e]
  <2>1. PICK p, e : p = "undo" /\ job' = [job EXCEPT !.pc = p, !.error = e]
    BY <1>1
  <2>2. IsJob(job') /\ Kept(job, job') /\ job'.pc = "undo" /\ job'.journal = job.journal
    BY <2>1 DEF SyncInv, SyncShaped, IsJob, Kept
  <2> QED BY <1>0, <2>2, JobEnds
<1>2. CASE job' = [job EXCEPT !.pc = "manifest"] /\ RuleSync!Removed \cap RuleSync!Of(rows) = {}
  <2>0. IsJob(job') /\ Kept(job, job') /\ job'.pc = "manifest" /\ job'.journal = job.journal
    BY <1>2 DEF SyncInv, SyncShaped, IsJob, Kept
  <2>1. SyncShaped'
    BY <1>0, <2>0 DEF SyncInv, SyncShaped, Kept
  <2>2. JobIsAlone' /\ DirtyWaits' /\ WritesAreFew'
    BY <1>0, <2>0, BaseIsSame DEF SyncInv, JobIsAlone, DirtyWaits, WritesAreFew, Pending, Kept
  <2>3. RuleSync!NewIds' = RuleSync!NewIds
    BY <2>0, AddedStays DEF RuleSync!NewIds, Kept
  <2>4. Remembered(RuleSync!NewIds)
    BY <1>0, <1>2 DEF SyncInv, RowsAreRemembered, Remembered, RuleSync!NewIds, RuleSync!Of
  <2>5. RowsAreRemembered'
    BY <1>0, <2>0, <2>3, <2>4 DEF SyncInv, RowsAreRemembered, Remembered, Pending, JobIsAlone
  <2> QED BY <2>1, <2>2, <2>5 DEF SyncInv
<1> QED BY <1>1, <1>2 DEF RuleSync!Verified, RuleSync!Stop

LEMMA SyncManifestKeeps == SyncInv /\ RuleSync!SaveManifest => SyncInv'
<1> SUFFICES ASSUME SyncInv, RuleSync!SaveManifest PROVE SyncInv'
  OBVIOUS
<1>0. /\ job.pc = "manifest" /\ UNCHANGED <<receipt, rows, manual, late>>
      /\ IsSettings(rulesync_settings') /\ rulesync_settings'.control = rulesync_settings.control
      /\ rulesync_settings'.local = rulesync_settings.local
      /\ IsJob(job') /\ Kept(job, job') /\ job'.pc = "baseline" /\ job'.journal = job.journal
  <2>1. PICK m : rulesync_settings' = [rulesync_settings EXCEPT !.manifest = m]
    BY DEF RuleSync!SaveManifest
  <2>2. IsJob(job') /\ Kept(job, job') /\ job'.pc = "baseline" /\ job'.journal = job.journal
    BY DEF RuleSync!SaveManifest, SyncInv, SyncShaped, IsJob, Kept
  <2> QED BY <2>1, <2>2, SettingsRelease DEF RuleSync!SaveManifest, SyncInv, SyncShaped
<1>1. SyncShaped'
  BY <1>0 DEF SyncInv, SyncShaped, Kept
<1>2. RuleSync!Stands(rulesync_settings)' <=> RuleSync!Stands(rulesync_settings)
  BY <1>0 DEF RuleSync!Stands, Kept
<1>3. JobIsAlone' /\ DirtyWaits' /\ WritesAreFew'
  BY <1>0, <1>2 DEF SyncInv, JobIsAlone, DirtyWaits, WritesAreFew, Pending, Kept
<1>4. RuleSync!NewIds' = RuleSync!NewIds
  BY <1>0, AddedStays DEF RuleSync!NewIds, Kept
<1>5. RowsAreRemembered'
  BY <1>0, <1>4 DEF SyncInv, RowsAreRemembered, Remembered, Pending, JobIsAlone
<1> QED BY <1>1, <1>3, <1>5 DEF SyncInv

LEMMA SyncBaselineKeeps == SyncInv /\ RuleSync!SaveBaseline => SyncInv'
<1> SUFFICES ASSUME SyncInv, RuleSync!SaveBaseline PROVE SyncInv'
  OBVIOUS
<1>0. /\ job.pc = "baseline" /\ UNCHANGED <<rulesync_settings, rows, manual, late>>
      /\ IsJob(job') /\ IsBase(job'.base) /\ job'.base.ids = RuleSync!NewIds /\ job'.base.control = job.base.control
      /\ job'.base.local = job.base.local /\ job'.pc = "cache" /\ job'.journal = job.journal
      /\ receipt'.base = job'.base /\ receipt'.status = "running"
      /\ receipt' \in [status : {receipt'.status}, base : {receipt'.base}]
  <2>1. PICK b, i, g : i = RuleSync!NewIds /\ g = job.got /\ b = [job.base EXCEPT !.remote = g, !.ids = i]
    OBVIOUS
  <2>2. /\ receipt' = [status |-> "running", base |-> b] /\ job' = [job EXCEPT !.pc = "cache", !.base = b]
    BY <2>1 DEF RuleSync!SaveBaseline
  <2>3. IsBase(b) /\ b.ids = i /\ b.control = job.base.control /\ b.local = job.base.local
    BY <2>1 DEF SyncInv, SyncShaped, IsBase
  <2>4. IsJob(job') /\ job'.base = b /\ job'.pc = "cache" /\ job'.journal = job.journal
    BY <2>2 DEF SyncInv, SyncShaped, IsJob
  <2>5. receipt'.base = b /\ receipt'.status = "running" /\ receipt' \in [status : {receipt'.status}, base : {receipt'.base}]
    BY <2>2
  <2>6. job.pc = "baseline" /\ UNCHANGED <<rulesync_settings, rows, manual, late>>
    BY DEF RuleSync!SaveBaseline
  <2> QED BY <2>1, <2>3, <2>4, <2>5, <2>6
<1>1. SyncShaped'
  BY <1>0 DEF SyncInv, SyncShaped
<1>2. RuleSync!Stands(rulesync_settings)' <=> RuleSync!Stands(rulesync_settings)
  BY <1>0 DEF RuleSync!Stands
<1>3. JobIsAlone' /\ DirtyWaits' /\ WritesAreFew'
  BY <1>0, <1>2 DEF SyncInv, JobIsAlone, DirtyWaits, WritesAreFew, Pending
<1>4. RowsAreRemembered'
  BY <1>0 DEF SyncInv, RowsAreRemembered, Remembered, Pending, JobIsAlone
<1> QED BY <1>1, <1>3, <1>4 DEF SyncInv

LEMMA SyncCacheKeeps == SyncInv /\ RuleSync!CacheSources => SyncInv'
<1> SUFFICES ASSUME SyncInv, RuleSync!CacheSources PROVE SyncInv'
  OBVIOUS
<1>0. job.pc = "cache" /\ UNCHANGED <<rulesync_settings, rows, manual, late>>
  BY DEF RuleSync!CacheSources
<1>1. CASE receipt' = [receipt EXCEPT !.status = "synced"] /\ job' = RuleSync!NoJob
  <2>0. receipt' \in [status : {receipt'.status}, base : {receipt'.base}] /\ receipt'.base = receipt.base
    BY <1>1, ReceiptChanges DEF SyncInv, SyncShaped
  <2>1. SyncShaped'
    BY <1>0, <1>1, <2>0, NoRecords DEF SyncInv, SyncShaped
  <2>2. ~late.dirty /\ manual.pc = "none" /\ Remembered(receipt.base.ids)
    BY <1>0 DEF SyncInv, DirtyWaits, JobIsAlone, RowsAreRemembered, Pending
  <2>3. JobIsAlone' /\ DirtyWaits' /\ WritesAreFew'
    BY <1>0, <1>1, <2>2, NoRecords DEF SyncInv, JobIsAlone, DirtyWaits, WritesAreFew, Pending
  <2>4. RowsAreRemembered'
    BY <1>0, <1>1, <2>0, <2>2, NoRecords DEF SyncInv, RowsAreRemembered, Remembered, Pending
  <2> QED BY <2>1, <2>3, <2>4 DEF SyncInv
<1>2. CASE job' = [job EXCEPT !.pc = "end", !.error = "other"] /\ UNCHANGED receipt
  <2>0. IsJob(job') /\ Kept(job, job') /\ job'.pc = "end" /\ job'.journal = job.journal
    BY <1>2 DEF SyncInv, SyncShaped, IsJob, Kept
  <2>1. SyncShaped'
    BY <1>0, <1>2, <2>0 DEF SyncInv, SyncShaped, Kept
  <2>2. JobIsAlone' /\ DirtyWaits' /\ WritesAreFew'
    BY <1>0, <1>2, <2>0, BaseIsSame DEF SyncInv, JobIsAlone, DirtyWaits, WritesAreFew, Pending, Kept
  <2>3. RowsAreRemembered'
    BY <1>0, <1>2, <2>0 DEF SyncInv, RowsAreRemembered, Remembered, Pending, Kept, JobIsAlone
  <2> QED BY <2>1, <2>2, <2>3 DEF SyncInv
<1> QED BY <1>1, <1>2 DEF RuleSync!CacheSources, RuleSync!Refuse

LEMMA SyncUndoneKeeps == SyncInv /\ RuleSync!Undone => SyncInv'
<1> SUFFICES ASSUME SyncInv, RuleSync!Undone PROVE SyncInv'
  OBVIOUS
<1>0. /\ job.pc = "undo" /\ job.journal = <<>> /\ UNCHANGED <<rulesync_settings, receipt, rows, manual, late>>
      /\ IsJob(job') /\ Kept(job, job') /\ job'.pc = "end" /\ job'.journal = job.journal
  BY DEF RuleSync!Undone, SyncInv, SyncShaped, IsJob, Kept
<1>1. SyncShaped'
  BY <1>0 DEF SyncInv, SyncShaped, Kept
<1>2. JobIsAlone' /\ DirtyWaits' /\ WritesAreFew'
  BY <1>0, BaseIsSame DEF SyncInv, JobIsAlone, DirtyWaits, WritesAreFew, Pending, Kept
<1>3. RowsAreRemembered'
  BY <1>0, NothingAdded DEF SyncInv, RowsAreRemembered, Remembered, Pending, Kept, JobIsAlone
<1> QED BY <1>1, <1>2, <1>3 DEF SyncInv

LEMMA SyncPanelEndsKeeps == SyncInv /\ RuleSync!PanelEnds => SyncInv'
<1> SUFFICES ASSUME SyncInv, RuleSync!PanelEnds PROVE SyncInv'
  OBVIOUS
<1>0. /\ job' = RuleSync!NoJob /\ manual' = RuleSync!NoRelease /\ UNCHANGED <<rulesync_settings, receipt, rows>>
      /\ late' \in [writes : Nat, dirty : BOOLEAN] /\ late'.writes = late.writes
      /\ late'.dirty => late.dirty \/ job.journal # <<>>
  <2>1. PICK d : d = (late.dirty \/ job.journal # <<>>)
    OBVIOUS
  <2>2. d \in BOOLEAN
    BY <2>1 DEF SyncInv, SyncShaped
  <2>3. late' = [late EXCEPT !.dirty = d]
    BY <2>1 DEF RuleSync!PanelEnds
  <2>4. late' \in [writes : Nat, dirty : BOOLEAN] /\ late'.writes = late.writes /\ late'.dirty = d
    BY <2>2, <2>3, LateChanges DEF SyncInv, SyncShaped
  <2> QED BY <2>1, <2>4 DEF RuleSync!PanelEnds
<1>1. SyncShaped'
  BY <1>0, NoRecords DEF SyncInv, SyncShaped
<1>2. ~Pending => receipt.status = "running"
  BY DEF SyncInv, JobIsAlone
<1>3. job.journal # <<>> => ~Pending
  BY DEF SyncInv, JobIsAlone, Pending
<1>4. JobIsAlone' /\ DirtyWaits' /\ WritesAreFew'
  BY <1>0, <1>2, <1>3, NoRecords DEF SyncInv, JobIsAlone, DirtyWaits, WritesAreFew, Pending
<1>5. RowsAreRemembered'
  BY <1>0, <1>2, NoRecords DEF SyncInv, RowsAreRemembered, Remembered, Pending
<1> QED BY <1>1, <1>4, <1>5 DEF SyncInv

LEMMA SyncEndKeeps == SyncInv /\ RuleSync!End => SyncInv'
<1> SUFFICES ASSUME SyncInv, RuleSync!End PROVE SyncInv'
  OBVIOUS
<1>0. /\ job.pc = "end" /\ job' = RuleSync!NoJob /\ UNCHANGED <<rows, manual, late>> /\ IsSettings(rulesync_settings')
      /\ receipt' \in [status : {receipt'.status}, base : {receipt'.base}]
      /\ receipt'.status = (IF RuleSync!Unread \/ job.error \in {"router", "rollback"} THEN "paused" ELSE "failed")
      /\ receipt'.base = RuleSync!Seen
  <2>1. PICK m : rulesync_settings' = rulesync_settings \/ rulesync_settings' = [rulesync_settings EXCEPT !.manifest = m]
    BY DEF RuleSync!End, RuleSync!Ending
  <2>2. IsSettings(rulesync_settings')
    BY <2>1, SettingsRelease DEF SyncInv, SyncShaped
  <2>3. PICK s, b : /\ s = (IF RuleSync!Unread \/ job.error \in {"router", "rollback"} THEN "paused" ELSE "failed")
                    /\ b = RuleSync!Seen /\ receipt' = [status |-> s, base |-> b]
    BY DEF RuleSync!End, RuleSync!Ending
  <2>4. receipt' \in [status : {receipt'.status}, base : {receipt'.base}] /\ receipt'.status = s /\ receipt'.base = b
    BY <2>3
  <2> QED BY <2>2, <2>3, <2>4 DEF RuleSync!End, RuleSync!Ending
<1>1. manual.pc = "none"
  BY <1>0 DEF SyncInv, JobIsAlone, Pending
<1>2. CASE job.begun /\ ~RuleSync!Unread
  <2>1. PICK b, i : /\ i = RuleSync!OnPolicy(job.base.ids) \cup RuleSync!Enrolled(RuleSync!Statics(job.base))
                    /\ b = [job.base EXCEPT !.ids = i]
    OBVIOUS
  <2>2. b = RuleSync!Seen
    BY <1>2, <2>1 DEF RuleSync!Seen, RuleSync!Read
  <2>3. IsBase(b) /\ b.ids = i
    BY <2>1 DEF SyncInv, SyncShaped, IsBase
  <2>4. Remembered(job.base.ids) => Remembered(i)
    <3> SUFFICES ASSUME Remembered(job.base.ids), NEW o \in rows, o.by = "sync" PROVE <<o.net, o.gen>> \in i
      BY DEF Remembered
    <3>1. <<o.net, o.gen>> \in job.base.ids /\ o.cf
      BY DEF Remembered, SyncInv, RowsAreRemembered
    <3>2. PICK d : d = <<o.net, o.gen>>
      OBVIOUS
    <3>5. d[1] = o.net
      BY <3>2
    <3>3. CASE o.net \in PolicyNets
      BY <2>1, <3>1, <3>2, <3>3, <3>5 DEF RuleSync!OnPolicy
    <3>4. CASE o.net \notin PolicyNets
      <4>1. o.net \in RuleSync!Statics(job.base)
        BY <3>1, <3>2, <3>4, <3>5 DEF RuleSync!Statics
      <4> QED BY <2>1, <3>1, <4>1 DEF RuleSync!Enrolled, RuleSync!Of
    <3> QED BY <3>3, <3>4
  <2>5. IsBase(receipt'.base) /\ (Remembered(job.base.ids) => Remembered(receipt'.base.ids))
    BY <1>0, <2>2, <2>3, <2>4
  <2>6. SyncShaped'
    BY <1>0, <2>5, NoRecords DEF SyncInv, SyncShaped
  <2>7. JobIsAlone' /\ DirtyWaits' /\ WritesAreFew'
    BY <1>0, <1>1, NoRecords DEF SyncInv, JobIsAlone, DirtyWaits, WritesAreFew, Pending
  <2>8. RowsAreRemembered'
    BY <1>0, <1>1, <2>5, NoRecords DEF SyncInv, RowsAreRemembered, Remembered, Pending
  <2> QED BY <2>6, <2>7, <2>8 DEF SyncInv
<1>3. CASE ~(job.begun /\ ~RuleSync!Unread)
  <2>1. RuleSync!Seen = job.base
    BY <1>3 DEF RuleSync!Seen
  <2>2. SyncShaped'
    BY <1>0, <2>1, NoRecords DEF SyncInv, SyncShaped
  <2>3. JobIsAlone' /\ DirtyWaits' /\ WritesAreFew'
    BY <1>0, <1>1, NoRecords DEF SyncInv, JobIsAlone, DirtyWaits, WritesAreFew, Pending
  <2>4. RowsAreRemembered'
    BY <1>0, <1>1, <2>1, NoRecords DEF SyncInv, RowsAreRemembered, Remembered, Pending
  <2> QED BY <2>2, <2>3, <2>4 DEF SyncInv
<1> QED BY <1>2, <1>3

LEMMA JournalShrinks ==
  ASSUME Sequential(job.journal), job.journal # <<>>, NEW q, q = SubSeq(job.journal, 1, Len(job.journal) - 1),
         job'.journal = q, NEW step, step = job.journal[Len(job.journal)]
  PROVE  /\ Sequential(q)
         /\ step.op = "add" => RuleSync!Added \subseteq RuleSync!Added' \cup {step.id}
         /\ step.op = "delete" => RuleSync!Added = RuleSync!Added'
<1>1. PICK S : job.journal \in Seq(S)
  BY DEF Sequential
<1>2. q \in Seq(S) /\ RuleSync!ToSet(job.journal) = RuleSync!ToSet(q) \cup {step}
  BY <1>1, ToSetOfFront
<1>3. RuleSync!ToSet(job.journal)' = RuleSync!ToSet(q)
  BY DEF RuleSync!ToSet
<1> QED BY <1>2, <1>3 DEF Sequential, RuleSync!Added

LEMMA SyncUndoKeeps == SyncInv /\ RuleSync!UndoStep => SyncInv'
<1> SUFFICES ASSUME SyncInv, RuleSync!UndoStep PROVE SyncInv'
  OBVIOUS
<1>0. job.pc = "undo" /\ job.journal # <<>> /\ UNCHANGED <<rulesync_settings, receipt, manual>>
  BY DEF RuleSync!UndoStep
<1>1. PICK q, step : q = SubSeq(job.journal, 1, Len(job.journal) - 1) /\ step = job.journal[Len(job.journal)]
  OBVIOUS
<1>r. PICK k : k = [job EXCEPT !.journal = q]
  OBVIOUS
<1>2. IsJob(k) /\ Kept(job, k) /\ k.pc = "undo" /\ k.journal = q
  BY <1>0, <1>r DEF SyncInv, SyncShaped, IsJob, Kept
<1>3. ~late.dirty /\ Remembered(job.base.ids \cup RuleSync!Added) /\ \A o \in rows : o.by = "sync" => o.cf
  BY <1>0 DEF SyncInv, DirtyWaits, RowsAreRemembered
<1>4. CASE job' = k /\ UNCHANGED late /\ ((step.op = "add" /\ rows' = {o \in rows : <<o.net, o.gen>> # step.id})
                                          \/ (step.op = "delete" /\ UNCHANGED rows))
  <2>1. /\ Sequential(q) /\ (step.op = "add" => RuleSync!Added \subseteq RuleSync!Added' \cup {step.id})
        /\ (step.op = "delete" => RuleSync!Added = RuleSync!Added')
    BY <1>0, <1>1, <1>2, <1>4, JournalShrinks DEF SyncInv, SyncShaped
  <2>2. SyncShaped'
    BY <1>0, <1>2, <1>4, <2>1 DEF SyncInv, SyncShaped, Kept
  <2>3. JobIsAlone' /\ DirtyWaits' /\ WritesAreFew'
    BY <1>0, <1>2, <1>4, BaseIsSame DEF SyncInv, JobIsAlone, DirtyWaits, WritesAreFew, Pending, Kept
  <2>4. Remembered(job.base.ids \cup RuleSync!Added)'
    BY <1>2, <1>3, <1>4, <2>1 DEF Remembered, Kept
  <2>5. RowsAreRemembered'
    BY <1>0, <1>2, <1>3, <1>4, <2>4 DEF SyncInv, RowsAreRemembered, Pending, JobIsAlone, Kept
  <2> QED BY <2>2, <2>3, <2>5 DEF SyncInv
<1>5. CASE /\ step.op = "delete" /\ UNCHANGED late /\ step.id \notin RuleSync!Of(rows)
           /\ rows' = rows \cup {RuleSync!Object(step.id[1], RuleSync!Fresh(step.id[1]))}
           /\ job' = [k EXCEPT !.base.ids = (@ \ {step.id}) \cup {<<step.id[1], RuleSync!Fresh(step.id[1])>>}]
  <2>1. PICK n, g, o, i : /\ n = step.id[1] /\ g = RuleSync!Fresh(n) /\ o = RuleSync!Object(n, g)
                          /\ i = (job.base.ids \ {step.id}) \cup {<<n, g>>}
    OBVIOUS
  <2>2. rows' = rows \cup {o} /\ job' = [k EXCEPT !.base.ids = i]
    BY <1>2, <1>5, <2>1 DEF Kept
  <2>3. IsRow(o) /\ o.cf /\ o.net = n /\ o.gen = g
    BY <2>1, ObjectIsRow
  <2>4. /\ IsJob(job') /\ IsBase(job'.base) /\ job'.base.ids = i /\ job'.base.control = job.base.control
        /\ job'.base.local = job.base.local /\ job'.pc = "undo" /\ job'.journal = q
    <3>1. k.base = job.base /\ IsBase(k.base)
      BY <1>2 DEF SyncInv, SyncShaped, Kept
    <3>2. PICK b : b = [k.base EXCEPT !.ids = i]
      OBVIOUS
    <3>3. job' = [k EXCEPT !.base = b]
      BY <1>2, <2>2, <3>2 DEF IsJob
    <3>4. IsBase(b) /\ b.ids = i /\ b.control = job.base.control /\ b.local = job.base.local
      BY <3>1, <3>2 DEF IsBase
    <3>5. IsJob(job') /\ job'.base = b /\ job'.pc = k.pc /\ job'.journal = k.journal
      BY <1>2, <3>3 DEF IsJob
    <3> QED BY <1>2, <3>4, <3>5
  <2>5. Sequential(q) /\ RuleSync!Added = RuleSync!Added'
    BY <1>0, <1>1, <1>5, <2>4, JournalShrinks DEF SyncInv, SyncShaped
  <2>6. SyncShaped'
    BY <1>0, <1>5, <2>2, <2>3, <2>4, <2>5 DEF SyncInv, SyncShaped
  <2>7. RuleSync!Stands(rulesync_settings)' <=> RuleSync!Stands(rulesync_settings)
    BY <1>0, <2>4 DEF RuleSync!Stands
  <2>8. JobIsAlone' /\ DirtyWaits' /\ WritesAreFew'
    BY <1>0, <1>5, <2>4, <2>7 DEF SyncInv, JobIsAlone, DirtyWaits, WritesAreFew, Pending
  <2>9. Remembered(job.base.ids \cup RuleSync!Added)'
    <3>1. \A p \in rows : p.by = "sync" => <<p.net, p.gen>> \in i \cup RuleSync!Added
      BY <1>3, <1>5, <2>1 DEF Remembered, RuleSync!Of
    <3>2. <<o.net, o.gen>> \in i
      BY <2>1, <2>3
    <3> QED BY <2>2, <2>4, <2>5, <3>1, <3>2 DEF Remembered
  <2>10. \A p \in rows' : p.by = "sync" => p.cf
    BY <1>3, <2>2, <2>3
  <2>11. RowsAreRemembered'
    BY <1>0, <2>4, <2>9, <2>10 DEF SyncInv, RowsAreRemembered, Pending, JobIsAlone
  <2> QED BY <2>6, <2>8, <2>11 DEF SyncInv
<1>6. CASE job' = [job EXCEPT !.pc = "end", !.error = "rollback"] /\ late' = [late EXCEPT !.dirty = TRUE] /\ UNCHANGED rows
  <2>1. IsJob(job') /\ Kept(job, job') /\ job'.pc = "end" /\ job'.error = "rollback" /\ job'.journal = job.journal
    BY <1>6 DEF SyncInv, SyncShaped, IsJob, Kept
  <2>2. late' \in [writes : Nat, dirty : BOOLEAN] /\ late'.writes = late.writes
    <3>1. PICK d : d \in BOOLEAN /\ d = TRUE
      OBVIOUS
    <3>2. late' = [late EXCEPT !.dirty = d]
      BY <1>6, <3>1
    <3> QED BY <3>1, <3>2, LateChanges DEF SyncInv, SyncShaped
  <2>3. SyncShaped'
    BY <1>0, <1>6, <2>1, <2>2 DEF SyncInv, SyncShaped, Kept
  <2>4. JobIsAlone' /\ DirtyWaits' /\ WritesAreFew'
    BY <1>0, <2>1, <2>2, BaseIsSame DEF SyncInv, JobIsAlone, DirtyWaits, WritesAreFew, Pending, Kept
  <2>5. RowsAreRemembered'
    BY <1>0, <1>6, <2>1 DEF SyncInv, RowsAreRemembered, Remembered, Pending, JobIsAlone
  <2> QED BY <2>3, <2>4, <2>5 DEF SyncInv
<1>7. k = [job EXCEPT !.journal = SubSeq(@, 1, Len(@) - 1)]
  BY <1>1, <1>r
<1> QED BY <1>1, <1>4, <1>5, <1>6, <1>7 DEF RuleSync!UndoStep

LEMMA NextIsOfTheRouter == [Next]_vars => [RuleSync!SyncNext]_RuleSyncVars
BY DEF Next, vars

LEMMA SyncKeeps == SyncInv /\ [Next]_vars => SyncInv'
<1> SUFFICES ASSUME SyncInv, [Next]_vars PROVE SyncInv'
  OBVIOUS
<1>1. CASE UNCHANGED RuleSyncVars
  BY <1>1, SyncStands DEF RuleSyncVars
<1>2. CASE RuleSync!SyncNext
  <2>1. CASE RuleSync!JobStep
    BY <2>1, SyncFetchKeeps, SyncInspectKeeps, SyncRecheckKeeps, SyncWriteKeeps, SyncVerifiedKeeps, SyncManifestKeeps,
       SyncBaselineKeeps, SyncCacheKeeps, SyncUndoKeeps, SyncUndoneKeeps, SyncEndKeeps DEF RuleSync!JobStep
  <2>2. CASE RuleSync!Upstream \/ RuleSync!RefreshCache
    BY <2>2, SyncStands DEF RuleSync!Upstream, RuleSync!RefreshCache
  <2> QED BY <1>2, <2>1, <2>2, SyncEditKeeps, SyncSwitchKeeps, SyncByHandKeeps, SyncReleaseKeeps, SyncCaptureKeeps,
             SyncStartKeeps, SyncCancelledKeeps, SyncBeginKeeps, SyncPanelEndsKeeps DEF RuleSync!SyncNext
<1> QED BY <1>1, <1>2, NextIsOfTheRouter

-------------------------------------------------------------------------------
(* What a step of the router's job may do, as the properties of RouterRuleSync say it.  *)
WaitStep == RuleSync!JobWrites => ~late.dirty
EnrolledStep ==
  RuleSync!JobWrites => /\ RuleSync!Of(rows \ rows') \subseteq receipt.base.ids
                        /\ {o.net : o \in rows' \ rows} \subseteq job.got \cup receipt.base.local

LEMMA UnfinishedStays == SyncInv => WaitStep
BY DEF SyncInv, DirtyWaits, WaitStep, RuleSync!JobWrites

LEMMA OnlyWriteWrites == [RuleSync!SyncNext]_RuleSyncVars /\ RuleSync!JobWrites => RuleSync!Write
<1> SUFFICES ASSUME [RuleSync!SyncNext]_RuleSyncVars, job.pc = "write", job' # job, rows' # rows PROVE RuleSync!Write
  BY DEF RuleSync!JobWrites
<1>1. CASE RuleSync!JobStep
  BY <1>1 DEF RuleSync!JobStep, RuleSync!Fetch, RuleSync!Inspect, RuleSync!Recheck, RuleSync!Verified, RuleSync!SaveManifest,
     RuleSync!SaveBaseline, RuleSync!CacheSources, RuleSync!UndoStep, RuleSync!Undone, RuleSync!End, RuleSync!Ending
<1>2. CASE ~RuleSync!JobStep
  BY <1>2 DEF RuleSyncVars, RuleSync!SyncNext, RuleSync!EditSettings, RuleSync!Switch, RuleSync!Upstream, RuleSync!RefreshCache,
     RuleSync!ByHand, RuleSync!Release, RuleSync!Capture, RuleSync!StartJob, RuleSync!Cancelled, RuleSync!Begin, RuleSync!PanelEnds
<1> QED BY <1>1, <1>2

LEMMA EnrolledChange == SyncInv /\ [RuleSync!SyncNext]_RuleSyncVars => EnrolledStep
<1> SUFFICES ASSUME SyncInv, [RuleSync!SyncNext]_RuleSyncVars, RuleSync!JobWrites
             PROVE  /\ RuleSync!Of(rows \ rows') \subseteq receipt.base.ids
                    /\ {o.net : o \in rows' \ rows} \subseteq job.got \cup receipt.base.local
  BY DEF EnrolledStep
<1>0. RuleSync!Write /\ rows' # rows
  BY OnlyWriteWrites DEF RuleSync!JobWrites
<1>1. /\ job.add \subseteq job.got \cup receipt.base.local /\ job.drop \subseteq receipt.base.ids
  BY <1>0 DEF RuleSync!Write, SyncInv, JobIsAlone
<1>2. CASE \E n \in job.add : rows' = rows \cup {RuleSync!Object(n, RuleSync!Fresh(n))}
  <2>1. PICK n, g, o : n \in job.add /\ o = RuleSync!Object(n, g) /\ rows' = rows \cup {o}
    BY <1>2
  <2>2. o.net = n
    BY <2>1, ObjectIsRow
  <2> QED BY <1>1, <2>1, <2>2 DEF RuleSync!Of
<1>3. CASE \E i \in job.drop : rows' = {o \in rows : <<o.net, o.gen>> # i}
  BY <1>1, <1>3 DEF RuleSync!Of
<1> QED BY <1>0, <1>2, <1>3 DEF RuleSync!Write, RuleSync!Change

LEMMA EditStops == SyncInv => RuleSync!EditStopsJob
BY DEF SyncInv, WritesAreFew, RuleSync!EditStopsJob

LEMMA NothingForgotten == SyncInv => RuleSync!NothingIsForgotten
BY DEF SyncInv, RowsAreRemembered, Remembered, Pending, RuleSync!NothingIsForgotten, RuleSync!Of

(* What is written to a router or a device without a person changes only what was enrolled, waits   *)
(* after an unfinished write, stops for an edit, forgets nothing it created, brings only what is      *)
(* followed or switched on, and is confirmed only when the device runs it; a device whose edit is      *)
(* taken back while its download runs is the exception rule_sync.py has.                                *)
THEOREM AutomationHolds == ASSUME ~TakenBackLate PROVE Spec => AutomationIsCareful
<1>1. Init => SyncInv /\ DeviceInv
  BY SyncStarts, DeviceStarts
<1>2. SyncInv /\ DeviceInv /\ [Next]_vars => SyncInv' /\ DeviceInv'
  BY SyncKeeps, DeviceKeeps
<1>3. SyncInv => RuleSync!EditStopsJob /\ RuleSync!NothingIsForgotten
  BY EditStops, NothingForgotten
<1>4. SyncInv /\ [Next]_vars => WaitStep /\ EnrolledStep
  BY UnfinishedStays, EnrolledChange, NextIsOfTheRouter
<1>5. DeviceInv /\ [Next]_vars => OnlyRulesStep /\ AcknowledgedStep /\ DownloadStep
  BY DeviceSteps
<1>6. WaitStep /\ EnrolledStep => [WaitStep]_RuleSyncVars /\ [EnrolledStep]_RuleSyncVars
  OBVIOUS
<1>7. OnlyRulesStep /\ AcknowledgedStep /\ DownloadStep =>
        [OnlyRulesStep]_DeviceVars /\ [AcknowledgedStep]_DeviceVars /\ [DownloadStep]_DeviceVars
  OBVIOUS
<1>8. Spec => /\ []RuleSync!EditStopsJob /\ []RuleSync!NothingIsForgotten
              /\ [][WaitStep]_RuleSyncVars /\ [][EnrolledStep]_RuleSyncVars
              /\ [][OnlyRulesStep]_DeviceVars /\ [][AcknowledgedStep]_DeviceVars /\ [][DownloadStep]_DeviceVars
  BY <1>1, <1>2, <1>3, <1>4, <1>5, <1>6, <1>7, PTL DEF Spec
<1>9. /\ [][WaitStep]_RuleSyncVars <=> RuleSync!UnfinishedWaits
      /\ [][EnrolledStep]_RuleSyncVars <=> RuleSync!OnlyEnrolledChange
  BY DEF WaitStep, EnrolledStep, RuleSyncVars, RuleSync!syncVars, RuleSync!UnfinishedWaits, RuleSync!OnlyEnrolledChange
<1>10. /\ [][OnlyRulesStep]_DeviceVars <=> Device!OnlyRulesMove
       /\ [][AcknowledgedStep]_DeviceVars <=> Device!AcknowledgedIsLive
       /\ [][DownloadStep]_DeviceVars <=> Device!OffMeansNoDownload
  BY DEF OnlyRulesStep, AcknowledgedStep, DownloadStep, DeviceVars, Device!ruleSyncVars, Device!OnlyRulesMove,
         Device!AcknowledgedIsLive, Device!OffMeansNoDownload
<1>11. Spec => Follow!OnlyUpstreamIsPublished /\ Follow!EditSurvives /\ Follow!ConnectedWhenConfirmed
  BY FollowIsCareful
<1> QED BY <1>8, <1>9, <1>10, <1>11 DEF AutomationIsCareful

-------------------------------------------------------------------------------
(* What holds for the tables of a router: numbers, and what is given step by step. *)

(* Every set of numbers that is not empty has a least one.                         *)
LEMMA Least == ASSUME NEW S \in SUBSET Nat, S # {} PROVE \E n \in S : \A m \in S : n <= m
<1> DEFINE Before == {pair \in Nat \X Nat : pair[1] < pair[2]}
<1>1. IsWellFoundedOn(Before, Nat)
  BY NatLessThanWellFounded, Zenon DEF OpToRel
<1>2. PICK n \in S : \A m \in S : <<m, n>> \notin Before
  <2> HIDE DEF Before
  <2> QED BY <1>1, WFMin
<1>3. ASSUME NEW m \in S PROVE ~(m < n)
  <2>1. <<m, n>> \in Nat \X Nat
    OBVIOUS
  <2> QED BY <1>2, <2>1
<1> QED BY <1>3

(* What holds at 0 and is handed on by every step holds at the end.               *)
LEMMA StepByStep ==
  ASSUME NEW n \in Nat, NEW T, 0 \in T, \A k \in 1..n : k - 1 \in T => k \in T
  PROVE  \A k \in 0..n : k \in T
<1> DEFINE Left == {k \in 0..n : k \notin T}
<1>1. SUFFICES ASSUME Left # {} PROVE FALSE
  OBVIOUS
<1>2. Left \in SUBSET Nat
  OBVIOUS
<1>3. PICK k \in Left : \A m \in Left : k <= m
  <2> HIDE DEF Left
  <2> QED BY <1>1, <1>2, Least
<1>4. k \in 0..n /\ k \notin T
  OBVIOUS
<1>5. k # 0 /\ k - 1 \in 0..n /\ k \in 1..n /\ ~(k <= k - 1)
  BY <1>4
<1>6. k - 1 \notin Left
  BY <1>3, <1>5
<1> QED BY <1>4, <1>5, <1>6

Chain(f, n, S, base, g) == f \in [0..n -> S] /\ f[0] = base /\ \A k \in 1..n : f[k] = g[<<k, f[k - 1]>>]

(* A function that is given by its value at 0 and by each value from the one       *)
(* before exists.                                                                  *)
LEMMA Recursion ==
  ASSUME NEW S, NEW base \in S, NEW n \in Nat, NEW g \in [(1..n) \X S -> S]
  PROVE  \E f : Chain(f, n, S, base, g)
<1> DEFINE T == {k \in 0..n : \E f : Chain(f, k, S, base, g)}
<1>1. 0 \in T
  <2>1. Chain([j \in 0..0 |-> base], 0, S, base, g) /\ 0 \in 0..n
    BY DEF Chain
  <2> QED BY <2>1
<1>2. ASSUME NEW k \in 1..n, k - 1 \in T PROVE k \in T
  <2>1. PICK f : Chain(f, k - 1, S, base, g)
    BY <1>2
  <2> DEFINE h == [j \in 0..k |-> IF j = k THEN g[<<k, f[k - 1]>>] ELSE f[j]]
  <2>2. f[k - 1] \in S /\ <<k, f[k - 1]>> \in (1..n) \X S
    BY <2>1 DEF Chain
  <2>3. h \in [0..k -> S]
    BY <2>1, <2>2 DEF Chain
  <2>4. h[0] = base
    BY <2>1 DEF Chain
  <2>5. ASSUME NEW j \in 1..k PROVE h[j] = g[<<j, h[j - 1]>>]
    <3>1. j - 1 \in 0..k /\ j - 1 # k /\ j \in 0..k
      OBVIOUS
    <3>2. h[j - 1] = f[j - 1]
      BY <3>1
    <3>3. CASE j = k
      BY <3>1, <3>2, <3>3
    <3>4. CASE j # k
      <4>1. j \in 1..(k - 1)
        BY <3>4
      <4> QED BY <2>1, <3>1, <3>2, <3>4, <4>1 DEF Chain
    <3> QED BY <3>3, <3>4
  <2> HIDE DEF h
  <2>6. Chain(h, k, S, base, g)
    BY <2>3, <2>4, <2>5 DEF Chain
  <2> QED BY <2>6
<1>3. n \in T
  <2>1. \A k \in 1..n : k - 1 \in T => k \in T
    BY <1>2
  <2> HIDE DEF T
  <2>2. \A k \in 0..n : k \in T
    BY <1>1, <2>1, StepByStep
  <2> QED BY <2>2
<1> QED BY <1>3

(* ------------------------- what a router does with a packet ------------------ *)
(* The tables hold what a router may hold, and the policies can be put in order:  *)
(* the broad ones first.                                                          *)
ForwardingInv ==
  /\ routes \subseteq TableRows
  /\ rules \in Seq(NatRules)
  /\ policies \subseteq DevicePolicies /\ IsFiniteSet(policies)
  /\ \A p, o \in policies : p.net = o.net => p = o
  /\ \E list \in [1..Cardinality(policies) -> policies] : Forwarding!BroadFirst(list)

(* Cardinality is the same operator everywhere.                                   *)
LEMMA SameCardinality == \A S : Forwarding!Cardinality(S) = Cardinality(S)
  BY DEF Forwarding!Cardinality, Cardinality

LEMMA NetsAreFinite ==
  ASSUME NEW r \in TableRows
  PROVE  IsFiniteSet(r.net) /\ Cardinality(r.net) \in Nat /\ Forwarding!Cardinality(r.net) \in Nat
BY ForwardingAssumption, FS_CardinalityType, SameCardinality

(* Among routes that hold an address there are longest ones.                      *)
LEMMA SomeAreLongest ==
  ASSUME NEW rs \in SUBSET TableRows, NEW x, NEW r \in rs, x \in r.net
  PROVE  Forwarding!Longest(rs, x) # {}
<1> DEFINE sizes == {Cardinality(o.net) : o \in {o \in rs : x \in o.net}}
<1>1. sizes \in SUBSET Nat /\ sizes # {}
  BY NetsAreFinite
<1>2. PICK n \in sizes : \A m \in sizes : n <= m
  <2> HIDE DEF sizes
  <2> QED BY <1>1, Least
<1>3. PICK l \in rs : x \in l.net /\ n = Cardinality(l.net)
  BY <1>2
<1>4. \A o \in rs : x \in o.net => Cardinality(l.net) <= Cardinality(o.net)
  BY <1>2, <1>3
<1>5. l \in Forwarding!Longest(rs, x)
  BY <1>3, <1>4, SameCardinality DEF Forwarding!Longest
<1> QED BY <1>5

Live(group) == {r \in group : r.active}
LEMMA PreferredAre ==
  ASSUME NEW group
  PROVE  /\ Forwarding!Preferred(group) \subseteq group /\ Live(group) \subseteq Forwarding!Preferred(group)
         /\ Forwarding!Preferred(group) # {} <=> Live(group) # {}
         /\ Live(Forwarding!Preferred(group)) = Live(group)
BY DEF Forwarding!Preferred, Live

OwnIn(g) == CHOOSE r \in Live(g) : (\E o \in Live(g) : o.managed) => r.managed
LEMMA OwnIsLive ==
  ASSUME NEW g, Live(g) # {}
  PROVE  OwnIn(g) \in Live(g)
<1>1. \E r \in Live(g) : (\E o \in Live(g) : o.managed) => r.managed
  OBVIOUS
<1> QED BY <1>1 DEF OwnIn

SelectedNets == UNION {Forwarding!SelectedNet(x) : x \in Target}
LEMMA CandidatesAre ==
  ASSUME Forwarding!Candidates # {}
  PROVE  /\ Forwarding!Covered /\ ~Forwarding!Conflict
         /\ \/ /\ Forwarding!Anchors # {} /\ \A r \in Forwarding!Anchors : r.hop = "gateway"
               /\ Forwarding!Candidates = {OwnIn(Forwarding!Anchors)}
            \/ Forwarding!Candidates = {OwnIn(Forwarding!Preferred(Forwarding!Group(n))) : n \in SelectedNets}
BY DEF Forwarding!Candidates, OwnIn, Live, SelectedNets

(* An address of the target goes where the selected routes go: an active route     *)
(* that is as long as theirs is inside the target and selected itself (select).    *)
LEMMA ForwardedAsSelected ==
  ASSUME ForwardingInv, NEW x \in Target, Forwarding!SelectedNet(x) # {}, NEW r \in Forwarding!Forwards(x)
  PROVE  r \in Forwarding!Selected
<1>1. PICK n \in Forwarding!SelectedNet(x) : TRUE
  OBVIOUS
<1>2. n \in Forwarding!Inside /\ x \in n /\ Forwarding!Preferred(Forwarding!Group(n)) # {}
  BY DEF Forwarding!SelectedNet
<1>3. PICK o \in Live(Forwarding!Group(n)) : TRUE
  BY <1>2, PreferredAre
<1>4. o \in routes /\ o.active /\ o.net = n /\ n \subseteq Target
  BY <1>2, <1>3 DEF Live, Forwarding!Group, Forwarding!Inside
<1>5. /\ r \in routes /\ r.active /\ x \in r.net
      /\ \A s \in routes : s.active /\ x \in s.net => Cardinality(r.net) <= Cardinality(s.net)
  BY SameCardinality DEF Forwarding!Forwards, Forwarding!Longest
<1>6. r \in TableRows /\ o \in TableRows /\ IsFiniteSet(r.net) /\ Cardinality(r.net) \in Nat /\ Cardinality(n) \in Nat
  BY <1>4, <1>5, NetsAreFinite DEF ForwardingInv
<1>7. r.net \subseteq Target
  <2>1. SUFFICES ASSUME Target \subseteq r.net PROVE r.net = n
    BY <1>4, <1>5, <1>6, ForwardingAssumption DEF Apart
  <2>2. n \in SUBSET r.net
    BY <1>4, <2>1
  <2>3. Cardinality(n) <= Cardinality(r.net) /\ (Cardinality(r.net) = Cardinality(n) => r.net = n)
    BY <1>6, <2>2, FS_Subset
  <2>4. Cardinality(r.net) <= Cardinality(n)
    BY <1>2, <1>4, <1>5
  <2> QED BY <1>6, <2>3, <2>4
<1>8. r \in Live(Forwarding!Group(r.net)) /\ r.net \in Forwarding!Inside
  BY <1>5, <1>7 DEF Live, Forwarding!Group, Forwarding!Inside
<1>9. r \in Forwarding!Preferred(Forwarding!Group(r.net))
  BY <1>8, PreferredAre
<1>10. r.net \in Forwarding!SelectedNet(x)
  <2>1. ASSUME NEW m \in Forwarding!Inside, x \in m, Forwarding!Preferred(Forwarding!Group(m)) # {}
        PROVE  Cardinality(r.net) <= Cardinality(m)
    <3>1. PICK s \in Live(Forwarding!Group(m)) : TRUE
      BY <2>1, PreferredAre
    <3> QED BY <1>5, <2>1, <3>1 DEF Live, Forwarding!Group
  <2> QED BY <1>5, <1>8, <1>9, <2>1, SameCardinality DEF Forwarding!SelectedNet
<1> QED BY <1>9, <1>10 DEF Forwarding!Selected

LEMMA EvidenceIsSound ==
  ASSUME ForwardingInv
  PROVE  Forwarding!RouteEvidenceIsSound
<1> SUFFICES ASSUME Forwarding!RouteStatus \in {"synced", "adoptable"}
             PROVE  /\ \A x \in Target : Forwarding!Forwards(x) # {} /\ \A r \in Forwarding!Forwards(x) : r.hop = "gateway"
                    /\ Target \subseteq UNION {r.net : r \in Forwarding!Candidates}
                    /\ \A r \in Forwarding!Candidates : r.active /\ r.hop = "gateway"
  BY DEF Forwarding!RouteEvidenceIsSound
<1>1. Forwarding!Candidates # {}
  BY DEF Forwarding!RouteStatus
<1>2. Forwarding!Covered /\ ~Forwarding!Conflict
  BY <1>1, CandidatesAre
<1>3. ASSUME NEW n \in SelectedNets
      PROVE  LET own == OwnIn(Forwarding!Preferred(Forwarding!Group(n)))
             IN  own.active /\ own.hop = "gateway" /\ own.net = n /\ own \in routes
  <2> DEFINE g == Forwarding!Preferred(Forwarding!Group(n))
             own == OwnIn(g)
  <2>1. g # {} /\ g \subseteq Forwarding!Selected
    BY DEF SelectedNets, Forwarding!SelectedNet, Forwarding!Selected
  <2>2. Live(g) # {} /\ g \subseteq Forwarding!Group(n)
    BY <2>1, PreferredAre
  <2>3. own \in Live(g)
    BY <2>2, OwnIsLive
  <2> HIDE DEF own, g
  <2>4. own.active /\ own \in g /\ own.net = n /\ own \in routes
    BY <2>2, <2>3 DEF Live, Forwarding!Group
  <2>5. own.hop = "gateway"
    BY <1>2, <2>1, <2>4 DEF Forwarding!Conflict
  <2> QED BY <2>4, <2>5 DEF own, g
<1>4. ASSUME NEW x \in Target PROVE Forwarding!Forwards(x) # {} /\ \A r \in Forwarding!Forwards(x) : r.hop = "gateway"
  <2>1. Forwarding!SelectedNet(x) # {}
    BY <1>2 DEF Forwarding!Covered
  <2>2. PICK n \in Forwarding!SelectedNet(x) : x \in n /\ Forwarding!Preferred(Forwarding!Group(n)) # {}
    BY <2>1 DEF Forwarding!SelectedNet
  <2>3. PICK o \in Live(Forwarding!Group(n)) : TRUE
    BY <2>2, PreferredAre
  <2>4. o \in {r \in routes : r.active} /\ x \in o.net /\ {r \in routes : r.active} \in SUBSET TableRows
    BY <2>2, <2>3 DEF Live, Forwarding!Group, ForwardingInv
  <2>5. Forwarding!Forwards(x) # {}
    BY <2>4, SomeAreLongest DEF Forwarding!Forwards
  <2> QED BY <1>2, <2>1, <2>5, ForwardedAsSelected DEF Forwarding!Conflict
<1>5. CASE /\ Forwarding!Anchors # {} /\ \A r \in Forwarding!Anchors : r.hop = "gateway"
           /\ Forwarding!Candidates = {OwnIn(Forwarding!Anchors)}
  <2> DEFINE own == OwnIn(Forwarding!Anchors)
  <2>1. own \in Live(Forwarding!Anchors)
    BY <1>5, PreferredAre, OwnIsLive DEF Forwarding!Anchors
  <2> HIDE DEF own
  <2>2. own.active /\ own \in Forwarding!Anchors /\ own \in Forwarding!Group(Target)
    BY <2>1, PreferredAre DEF Live, Forwarding!Anchors
  <2>3. own.net = Target
    BY <2>2 DEF Forwarding!Group
  <2>4. Forwarding!Candidates = {own}
    BY <1>5 DEF own
  <2> QED BY <1>4, <1>5, <2>2, <2>3, <2>4
<1>6. CASE Forwarding!Candidates = {OwnIn(Forwarding!Preferred(Forwarding!Group(n))) : n \in SelectedNets}
  <2>1. ASSUME NEW x \in Target PROVE \E r \in Forwarding!Candidates : x \in r.net
    <3>1. PICK n \in Forwarding!SelectedNet(x) : x \in n
      BY <1>2 DEF Forwarding!Covered, Forwarding!SelectedNet
    <3>2. n \in SelectedNets
      BY DEF SelectedNets
    <3> QED BY <1>3, <1>6, <3>1, <3>2
  <2> QED BY <1>3, <1>4, <1>6, <2>1
<1> QED BY <1>1, <1>5, <1>6, CandidatesAre

(* --------------------------- who is exempt from NAT -------------------------- *)
ClientPairs == ClientSources \X Target
PendingSets == (SUBSET ClientPairs) \cup {Forwarding!Decided}

LEMMA LeftIsTyped ==
  ASSUME NEW pairs \in PendingSets, NEW rule
  PROVE  Forwarding!Left(pairs, rule) \in PendingSets
BY DEF PendingSets, Forwarding!Left

(* The pairs are decided rule by rule (preserves_sources).                         *)
LEMMA PendingIs ==
  ASSUME NEW chain \in Seq(NatRules)
  PROVE  \E f \in [0..Len(chain) -> PendingSets] :
           /\ Forwarding!Pending(chain) = f[Len(chain)]
           /\ f[0] = ClientPairs
           /\ \A k \in 1..Len(chain) : f[k] = Forwarding!Left(f[k - 1], chain[k])
<1> DEFINE n == Len(chain)
           g == [x \in (1..n) \X PendingSets |-> Forwarding!Left(x[2], chain[x[1]])]
           Good(f) == f = [k \in 0..n |-> IF k = 0 THEN ClientSources \X Target ELSE Forwarding!Left(f[k - 1], chain[k])]
           pending == CHOOSE f : Good(f)
<1>1. n \in Nat /\ ClientPairs \in PendingSets /\ \A k \in 1..n : chain[k] \in NatRules
  BY DEF PendingSets
<1>2. g \in [(1..n) \X PendingSets -> PendingSets]
  BY LeftIsTyped
<1>3. PICK f : Chain(f, n, PendingSets, ClientPairs, g)
  <2> HIDE DEF g, n
  <2> QED BY <1>1, <1>2, Recursion
<1>4. ASSUME NEW k \in 1..n PROVE f[k] = Forwarding!Left(f[k - 1], chain[k]) /\ k \in 0..n /\ k # 0
  <2>1. k - 1 \in 0..n
    OBVIOUS
  <2>2. <<k, f[k - 1]>> \in (1..n) \X PendingSets
    BY <1>3, <2>1 DEF Chain
  <2> QED BY <1>3, <2>2 DEF Chain
<1>5. Good(f)
  <2>1. f = [k \in 0..n |-> f[k]] /\ f[0] = ClientSources \X Target
    BY <1>3 DEF Chain, ClientPairs
  <2>2. \A k \in 0..n : k # 0 => k \in 1..n
    OBVIOUS
  <2>3. \A k \in 0..n : f[k] = IF k = 0 THEN ClientSources \X Target ELSE Forwarding!Left(f[k - 1], chain[k])
    BY <1>4, <2>1, <2>2
  <2> HIDE DEF n
  <2> QED BY <2>1, <2>3
<1>6. Good(pending)
  <2> HIDE DEF Good
  <2> QED BY <1>5
<1>7. Forwarding!Pending(chain) = pending[n]
  BY DEF Forwarding!Pending
<1> HIDE DEF pending
<1>8. ASSUME NEW k \in 1..n PROVE pending[k] = Forwarding!Left(pending[k - 1], chain[k])
  <2>1. k \in 0..n /\ k # 0
    BY <1>4
  <2> QED BY <1>6, <2>1
<1>9. pending[0] = ClientPairs /\ 0 \in 0..n
  BY <1>1, <1>6 DEF ClientPairs
<1> DEFINE T == {k \in 0..n : pending[k] \in PendingSets}
<1>10. \A k \in 0..n : k \in T
  <2>1. 0 \in T
    BY <1>1, <1>9
  <2>2. ASSUME NEW k \in 1..n, k - 1 \in T PROVE k \in T
    BY <1>8, <2>2, LeftIsTyped
  <2> HIDE DEF T, n
  <2> QED BY <1>1, <2>1, <2>2, StepByStep
<1>11. pending \in [0..n -> PendingSets]
  <2>1. pending = [k \in 0..n |-> pending[k]]
    BY <1>6
  <2> QED BY <1>10, <2>1
<1> QED BY <1>7, <1>8, <1>9, <1>11

(* A rule that does not translate the pair p, and a rule that certainly exempts it. *)
Hits(rule, p) == p[1] \in rule.src /\ p[2] \in rule.dst
Harmless(rule, p) ==
  Hits(rule, p) /\ Forwarding!OutMatches(rule, Forwarding!Egress) # "no" => rule.action \in {"accept", "log"}
Exempts(rule, p) == Hits(rule, p) /\ Forwarding!Discharges(rule)
Before(chain, k, p) == \A i \in 1..k : Harmless(chain[i], p)
Judged(chain, k, pairs) ==
  \A p \in ClientPairs :
    IF p \in pairs THEN Before(chain, k, p)
    ELSE \E j \in 1..k : Exempts(chain[j], p) /\ Before(chain, j, p)

LEMMA DecidedIsApart == Forwarding!Decided \notin SUBSET ClientPairs
  BY ForwardingAssumption DEF Forwarding!Decided, ClientPairs

LEMMA LeftIsJudged ==
  ASSUME NEW chain \in Seq(NatRules), NEW k \in 1..Len(chain), NEW pairs \in SUBSET ClientPairs,
         Judged(chain, k - 1, pairs), Forwarding!Left(pairs, chain[k]) # Forwarding!Decided
  PROVE  Judged(chain, k, Forwarding!Left(pairs, chain[k]))
<1> DEFINE rule == chain[k]
           left == Forwarding!Left(pairs, rule)
           hit == {p \in pairs : Hits(rule, p)}
<1>1. pairs # Forwarding!Decided
  BY DecidedIsApart
<1> DEFINE free == hit = {} \/ Forwarding!OutMatches(rule, Forwarding!Egress) = "no" \/ rule.action = "log"
<1>2. left = IF free THEN pairs ELSE IF rule.action # "accept" THEN Forwarding!Decided
               ELSE IF Forwarding!Discharges(rule) THEN pairs \ hit ELSE pairs
  BY <1>1 DEF Forwarding!Left, Hits
<1>3. left # pairs => rule.action = "accept" /\ Forwarding!Discharges(rule) /\ left = pairs \ hit
  <2> HIDE DEF left, hit, free
  <2> QED BY <1>2 DEF left
<1>4. left = pairs => free \/ rule.action = "accept"
  <2> HIDE DEF left, hit, free
  <2> QED BY <1>2 DEF left
<1>A. left = pairs => \A p \in pairs : Harmless(rule, p)
  <2> HIDE DEF left
  <2> QED BY <1>4 DEF Harmless
<1> HIDE DEF left
<1>5. ASSUME NEW p \in ClientPairs, p \in left PROVE Before(chain, k, p)
  <2>1. p \in pairs /\ Harmless(rule, p)
    BY <1>3, <1>A, <1>5 DEF Harmless
  <2>2. Before(chain, k - 1, p)
    BY <2>1 DEF Judged
  <2>3. \A i \in 1..k : i = k \/ i \in 1..(k - 1)
    OBVIOUS
  <2> QED BY <2>1, <2>2, <2>3 DEF Before
<1>6. ASSUME NEW p \in ClientPairs, p \notin left PROVE \E j \in 1..k : Exempts(chain[j], p) /\ Before(chain, j, p)
  <2>1. CASE p \in pairs
    <3>1. Hits(rule, p) /\ rule.action = "accept" /\ Forwarding!Discharges(rule)
      BY <1>3, <1>6, <2>1
    <3>2. Before(chain, k - 1, p)
      BY <2>1 DEF Judged
    <3>3. \A i \in 1..k : i = k \/ i \in 1..(k - 1)
      OBVIOUS
    <3>4. Before(chain, k, p)
      BY <3>1, <3>2, <3>3 DEF Before, Harmless
    <3> QED BY <3>1, <3>4 DEF Exempts
  <2>2. CASE p \notin pairs
    <3>1. PICK j \in 1..(k - 1) : Exempts(chain[j], p) /\ Before(chain, j, p)
      BY <2>2 DEF Judged
    <3>2. j \in 1..k
      OBVIOUS
    <3> QED BY <3>1, <3>2
  <2> QED BY <2>1, <2>2
<1> QED BY <1>5, <1>6 DEF Judged, left

LEMMA AllAreJudged ==
  ASSUME NEW chain \in Seq(NatRules), Forwarding!PreservesSources(chain)
  PROVE  \E pairs : Judged(chain, Len(chain), pairs)
<1>1. PICK f \in [0..Len(chain) -> PendingSets] :
           /\ Forwarding!Pending(chain) = f[Len(chain)]
           /\ f[0] = ClientPairs
           /\ \A k \in 1..Len(chain) : f[k] = Forwarding!Left(f[k - 1], chain[k])
  BY PendingIs
<1> DEFINE n == Len(chain)
           T == {k \in 0..n : f[k] = Forwarding!Decided \/ Judged(chain, k, f[k])}
<1>2. n \in Nat /\ 0 \in 0..n
  OBVIOUS
<1>3. 0 \in T
  <2>1. \A p \in ClientPairs : Before(chain, 0, p)
    BY DEF Before
  <2> QED BY <1>1, <1>2, <2>1 DEF Judged
<1>4. ASSUME NEW k \in 1..n, k - 1 \in T PROVE k \in T
  <2>1. k - 1 \in 0..n /\ k \in 0..n
    OBVIOUS
  <2>2. f[k - 1] \in PendingSets /\ f[k] = Forwarding!Left(f[k - 1], chain[k])
    BY <1>1, <2>1
  <2>3. CASE f[k - 1] = Forwarding!Decided
    BY <2>1, <2>2, <2>3 DEF Forwarding!Left
  <2>4. CASE f[k - 1] # Forwarding!Decided
    <3>1. f[k - 1] \in SUBSET ClientPairs /\ Judged(chain, k - 1, f[k - 1])
      BY <1>4, <2>2, <2>4 DEF PendingSets
    <3>2. f[k] # Forwarding!Decided => Judged(chain, k, f[k])
      BY <2>2, <3>1, LeftIsJudged
    <3> QED BY <2>1, <3>2
  <2> QED BY <2>3, <2>4
<1>5. n \in T
  <2>1. \A k \in 0..n : k \in T
    <3> HIDE DEF T, n
    <3> QED BY <1>2, <1>3, <1>4, StepByStep
  <2> QED BY <1>2, <2>1
<1> QED BY <1>1, <1>5 DEF Forwarding!PreservesSources

(* What the egress says about a rule is so for the packet.                         *)
LEMMA SurelyMatches ==
  ASSUME NEW rule, NEW s, NEW d, Exempts(rule, <<s, d>>)
  PROVE  Forwarding!May(rule, s, d) = {TRUE} /\ rule.action = "accept"
<1>1. s \in rule.src /\ d \in rule.dst /\ rule.action = "accept" /\ ~rule.other /\ Forwarding!OutMatches(rule, Forwarding!Egress) = "yes"
  BY DEF Exempts, Hits, Forwarding!Discharges
<1>2. rule.out \in {"any", "lan"}
  BY <1>1 DEF Forwarding!OutMatches, Forwarding!Egress
<1> QED BY <1>1, <1>2 DEF Forwarding!May

LEMMA MayOnlyHit ==
  ASSUME NEW rule \in NatRules, NEW s, NEW d, TRUE \in Forwarding!May(rule, s, d)
  PROVE  Hits(rule, <<s, d>>) /\ Forwarding!OutMatches(rule, Forwarding!Egress) # "no"
<1>1. s \in rule.src /\ d \in rule.dst
  BY DEF Forwarding!May
<1>2. rule.out # "wan"
  BY <1>1 DEF Forwarding!May
<1>3. Forwarding!Egress \in {"lan", "unknown"}
  BY DEF Forwarding!Egress
<1>4. rule.out \in {"any", "lan", "list"}
  BY <1>2, ForwardingAssumption
<1>5. Forwarding!OutMatches(rule, Forwarding!Egress) # "no"
  BY <1>3, <1>4 DEF Forwarding!OutMatches
<1> QED BY <1>1, <1>5 DEF Hits

LEMMA NoneTranslates ==
  ASSUME NEW chain \in Seq(NatRules), NEW pairs, Judged(chain, Len(chain), pairs), NEW s \in ClientSources, NEW d \in Target
  PROVE  ~Forwarding!MayTranslate(chain, s, d)
<1> SUFFICES ASSUME NEW i \in DOMAIN chain, Forwarding!Translates(chain[i]), TRUE \in Forwarding!May(chain[i], s, d),
                    \A j \in 1..(i - 1) : chain[j].action # "log" => FALSE \in Forwarding!May(chain[j], s, d)
             PROVE  FALSE
  BY DEF Forwarding!MayTranslate
<1> DEFINE p == <<s, d>>
<1>1. p \in ClientPairs /\ i \in 1..Len(chain) /\ chain[i] \in NatRules
  BY DEF ClientPairs
<1>2. ~Harmless(chain[i], p)
  BY <1>1, MayOnlyHit DEF Harmless, Forwarding!Translates
<1>3. ~Before(chain, Len(chain), p)
  BY <1>1, <1>2 DEF Before
<1>4. PICK j \in 1..Len(chain) : Exempts(chain[j], p) /\ Before(chain, j, p)
  BY <1>1, <1>3 DEF Judged
<1>5. ~(i <= j)
  BY <1>1, <1>2, <1>4 DEF Before
<1>6. j \in 1..(i - 1)
  BY <1>1, <1>5
<1> QED BY <1>4, <1>6, SurelyMatches

LEMMA ExemptionHolds ==
  ASSUME ForwardingInv
  PROVE  Forwarding!ExemptionIsSound
<1> SUFFICES ASSUME Forwarding!AssessBypass(rules) \in {"synced", "adoptable", "not_required", "missing"},
                    NEW s \in ClientSources, NEW d \in Target
             PROVE  ~Forwarding!MayTranslate(Forwarding!Published, s, d)
  BY DEF Forwarding!ExemptionIsSound
<1>1. rules \in Seq(NatRules)
  BY DEF ForwardingInv
<1>2. CASE Forwarding!AssessNat(rules) = "not_required"
  <2>1. Forwarding!Published = rules
    BY <1>2 DEF Forwarding!Published, Forwarding!AssessBypass
  <2>2. ASSUME NEW i \in DOMAIN rules, Forwarding!Translates(rules[i]), TRUE \in Forwarding!May(rules[i], s, d) PROVE FALSE
    <3>1. rules[i] \in NatRules
      BY <1>1
    <3>2. Forwarding!OutMatches(rules[i], Forwarding!Egress) # "no" /\ rules[i].action = "masquerade"
      BY <2>2, <3>1, MayOnlyHit DEF Forwarding!Translates
    <3> DEFINE may == {k \in DOMAIN rules : rules[k].action \notin {"accept", "log"} /\ Forwarding!OutMatches(rules[k], Forwarding!Egress) # "no"}
    <3>3. may = {}
      BY <1>2, SMT DEF Forwarding!AssessNat
    <3> QED BY <3>2, <3>3
  <2> QED BY <2>1, <2>2 DEF Forwarding!MayTranslate
<1>3. CASE Forwarding!AssessNat(rules) # "not_required" /\ Forwarding!PreservesSources(rules)
  <2>1. Forwarding!Published = rules
    BY <1>3 DEF Forwarding!Published, Forwarding!AssessBypass
  <2>2. PICK pairs : Judged(rules, Len(rules), pairs)
    BY <1>1, <1>3, AllAreJudged
  <2> QED BY <1>1, <2>1, <2>2, NoneTranslates
<1>4. CASE Forwarding!AssessNat(rules) # "not_required" /\ ~Forwarding!PreservesSources(rules)
  <2>1. Forwarding!AssessBypass(rules) = "missing"
    <3>1. Forwarding!AssessBypass(rules) \in {"unknown", Forwarding!AssessNat(rules)}
      BY <1>4 DEF Forwarding!AssessBypass
    <3>2. Forwarding!AssessNat(rules) \in {"unknown", "missing"}
      BY <1>4, SMT DEF Forwarding!AssessNat
    <3> QED BY <3>1, <3>2
  <2> DEFINE new == Forwarding!NewExemption
  <2>2. Forwarding!Published = <<new>> \o rules
    BY <2>1 DEF Forwarding!Published
  <2>3. new.action = "accept" /\ Forwarding!May(new, s, d) = {TRUE}
    BY DEF Forwarding!NewExemption, Forwarding!May
  <2> HIDE DEF new
  <2>4. (<<new>> \o rules)[1] = new /\ DOMAIN (<<new>> \o rules) = 1..(Len(rules) + 1)
    BY <1>1
  <2> DEFINE chain == <<new>> \o rules
  <2>5. ASSUME NEW i \in DOMAIN chain, Forwarding!Translates(chain[i]),
               \A j \in 1..(i - 1) : chain[j].action # "log" => FALSE \in Forwarding!May(chain[j], s, d)
        PROVE  FALSE
    <3> HIDE DEF chain
    <3>1. i # 1 /\ i \in 1..(Len(rules) + 1) /\ Len(rules) \in Nat
      BY <1>1, <2>3, <2>4, <2>5 DEF Forwarding!Translates, chain
    <3>2. 1 \in 1..(i - 1)
      BY <3>1
    <3>3. chain[1] = new
      BY <2>4 DEF chain
    <3> QED BY <2>3, <2>5, <3>2, <3>3
  <2> QED BY <2>2, <2>5 DEF Forwarding!MayTranslate
<1> QED BY <1>2, <1>3, <1>4

(* ------------------------- which policy a device takes ----------------------- *)
HoldersOf(list, k, a) == {i \in 1..k : a \in list[i].net}
LastIsSmart(list, k, a) ==
  \E i \in HoldersOf(list, k, a) : list[i].mode = "smart" /\ \A j \in HoldersOf(list, k, a) : j <= i
Corrected(list, k, s) == IF list[k].mode = "smart" THEN s \cup list[k].net ELSE s \ list[k].net

(* The policies correct one another, one after the other (smart_sources).          *)
LEMMA SmartIs ==
  ASSUME NEW S, NEW list \in Seq(S)
  PROVE  \E f : /\ Forwarding!Smart(list) = f[Len(list)]
                /\ f[0] = {}
                /\ \A k \in 1..Len(list) : f[k] = Corrected(list, k, f[k - 1])
<1> DEFINE n == Len(list)
           A == UNION {list[i].net : i \in 1..n}
           g == [x \in (1..n) \X SUBSET A |-> Corrected(list, x[1], x[2])]
           Good(f) == f = [k \in 0..n |-> IF k = 0 THEN {} ELSE
                             IF list[k].mode = "smart" THEN f[k - 1] \cup list[k].net ELSE f[k - 1] \ list[k].net]
           smart == CHOOSE f : Good(f)
<1>1. n \in Nat /\ {} \in SUBSET A
  OBVIOUS
<1>2. g \in [(1..n) \X SUBSET A -> SUBSET A]
  <2>1. ASSUME NEW k \in 1..n, NEW s \in SUBSET A PROVE Corrected(list, k, s) \in SUBSET A
    <3>1. list[k].net \subseteq A
      OBVIOUS
    <3> HIDE DEF A
    <3> QED BY <3>1 DEF Corrected
  <2> HIDE DEF A, n
  <2> QED BY <2>1
<1>3. PICK f : Chain(f, n, SUBSET A, {}, g)
  <2> HIDE DEF g, n, A
  <2> QED BY <1>1, <1>2, Recursion
<1>4. ASSUME NEW k \in 1..n PROVE f[k] = Corrected(list, k, f[k - 1]) /\ k \in 0..n /\ k # 0
  <2>1. k - 1 \in 0..n
    OBVIOUS
  <2> HIDE DEF A
  <2>2. <<k, f[k - 1]>> \in (1..n) \X SUBSET A
    BY <1>3, <2>1 DEF Chain
  <2>3. g[<<k, f[k - 1]>>] = Corrected(list, k, f[k - 1])
    BY <2>2
  <2>4. f[k] = g[<<k, f[k - 1]>>]
    <3> HIDE DEF g, n
    <3> QED BY <1>3 DEF Chain
  <2> QED BY <2>3, <2>4
<1>5. Good(f)
  <2>1. f = [k \in 0..n |-> f[k]] /\ f[0] = {}
    BY <1>3 DEF Chain
  <2>2. \A k \in 0..n : k # 0 => k \in 1..n
    OBVIOUS
  <2>3. \A k \in 0..n : f[k] = IF k = 0 THEN {} ELSE
          IF list[k].mode = "smart" THEN f[k - 1] \cup list[k].net ELSE f[k - 1] \ list[k].net
    BY <1>4, <2>1, <2>2 DEF Corrected
  <2> HIDE DEF n
  <2> QED BY <2>1, <2>3
<1>6. Good(smart)
  <2> HIDE DEF Good
  <2> QED BY <1>5
<1>7. Forwarding!Smart(list) = smart[n]
  BY DEF Forwarding!Smart
<1> HIDE DEF smart
<1>8. ASSUME NEW k \in 1..n PROVE smart[k] = Corrected(list, k, smart[k - 1])
  <2>1. k \in 0..n /\ k # 0
    BY <1>4
  <2> QED BY <1>6, <2>1 DEF Corrected
<1>9. smart[0] = {}
  <2>1. 0 \in 0..n
    BY <1>1
  <2> QED BY <1>6, <2>1
<1> QED BY <1>7, <1>8, <1>9

(* The last policy that holds an address decides.                                  *)
LEMMA LastDecides ==
  ASSUME NEW S, NEW list \in Seq(S), NEW a
  PROVE  a \in Forwarding!Smart(list) <=> LastIsSmart(list, Len(list), a)
<1>1. PICK f : /\ Forwarding!Smart(list) = f[Len(list)]
               /\ f[0] = {}
               /\ \A k \in 1..Len(list) : f[k] = Corrected(list, k, f[k - 1])
  BY SmartIs
<1> DEFINE n == Len(list)
           T == {k \in 0..n : a \in f[k] <=> LastIsSmart(list, k, a)}
<1>2. n \in Nat /\ 0 \in 0..n
  OBVIOUS
<1>3. 0 \in T
  BY <1>1, <1>2 DEF LastIsSmart, HoldersOf
<1>4. ASSUME NEW k \in 1..n, k - 1 \in T PROVE k \in T
  <2>1. k \in 0..n /\ k - 1 \in Nat /\ k \in Nat /\ k \in 1..k /\ \A i \in 1..k : i = k \/ i \in 1..(k - 1)
    OBVIOUS
  <2>2. f[k] = Corrected(list, k, f[k - 1])
    BY <1>1
  <2>3. a \in f[k - 1] <=> LastIsSmart(list, k - 1, a)
    BY <1>4
  <2>4. CASE a \in list[k].net
    <3>1. a \in f[k] <=> list[k].mode = "smart"
      BY <2>2, <2>4 DEF Corrected
    <3>2. k \in HoldersOf(list, k, a) /\ \A j \in HoldersOf(list, k, a) : j <= k
      BY <2>1, <2>4 DEF HoldersOf
    <3>3. \A i \in HoldersOf(list, k, a) : k <= i => i = k
      BY <2>1 DEF HoldersOf
    <3>4. LastIsSmart(list, k, a) <=> list[k].mode = "smart"
      BY <3>2, <3>3 DEF LastIsSmart
    <3> QED BY <2>1, <3>1, <3>4
  <2>5. CASE a \notin list[k].net
    <3>1. a \in f[k] <=> a \in f[k - 1]
      BY <2>2, <2>5 DEF Corrected
    <3>2. HoldersOf(list, k, a) = HoldersOf(list, k - 1, a)
      BY <2>1, <2>5 DEF HoldersOf
    <3> QED BY <2>1, <2>3, <3>1, <3>2 DEF LastIsSmart
  <2> QED BY <2>4, <2>5
<1>5. n \in T
  <2>1. \A k \in 0..n : k \in T
    <3> HIDE DEF T, n
    <3> QED BY <1>2, <1>3, <1>4, StepByStep
  <2> QED BY <1>2, <2>1
<1> QED BY <1>1, <1>5

(* Among numbers up to k that is not none there is a last.                         *)
LEMMA Last == ASSUME NEW k \in Nat, NEW S \in SUBSET (1..k), S # {} PROVE \E i \in S : \A j \in S : j <= i
<1> DEFINE rest == {k - j : j \in S}
<1>1. rest \in SUBSET Nat /\ rest # {}
  <2>1. \A j \in S : k - j \in Nat
    OBVIOUS
  <2> QED BY <2>1
<1>2. PICK m \in rest : \A o \in rest : m <= o
  <2> HIDE DEF rest
  <2> QED BY <1>1, Least
<1>3. PICK i \in S : m = k - i
  BY <1>2
<1>4. ASSUME NEW j \in S PROVE j <= i
  <2>1. k - i <= k - j
    BY <1>2, <1>3
  <2> QED BY <2>1
<1> QED BY <1>4

LEMMA OrderedIs ==
  ASSUME ForwardingInv
  PROVE  /\ Forwarding!Ordered \in Seq(policies) /\ Forwarding!BroadFirst(Forwarding!Ordered)
         /\ DOMAIN Forwarding!Ordered = 1..Len(Forwarding!Ordered)
<1> DEFINE n == Cardinality(policies)
           list == CHOOSE l \in [1..n -> policies] : Forwarding!BroadFirst(l)
<1>1. n \in Nat
  BY FS_CardinalityType DEF ForwardingInv
<1>2. Forwarding!Ordered = list
  BY SameCardinality DEF Forwarding!Ordered
<1>3. \E l \in [1..n -> policies] : Forwarding!BroadFirst(l)
  BY DEF ForwardingInv
<1> HIDE DEF n
<1>4. list \in [1..n -> policies] /\ Forwarding!BroadFirst(list)
  BY <1>3
<1> HIDE DEF list
<1>5. list \in Seq(policies)
  BY <1>1, <1>4
<1> QED BY <1>2, <1>4, <1>5

(* Policies that hold one address and are equally narrow are one.                  *)
LEMMA NarrowestIsOne ==
  ASSUME ForwardingInv, NEW p \in policies, NEW o \in policies, NEW a, a \in p.net, a \in o.net,
         Cardinality(p.net) = Cardinality(o.net)
  PROVE  p = o
<1>1. p \in DevicePolicies /\ o \in DevicePolicies
  BY DEF ForwardingInv
<1>2. IsFiniteSet(p.net) /\ IsFiniteSet(o.net) /\ Apart(p.net, o.net)
  BY <1>1, ForwardingAssumption
<1>3. p.net \subseteq o.net \/ o.net \subseteq p.net
  BY <1>2 DEF Apart
<1>4. p.net = o.net
  BY <1>2, <1>3, FS_Subset
<1> QED BY <1>4 DEF ForwardingInv

LEMMA NarrowestWins ==
  ASSUME ForwardingInv
  PROVE  Forwarding!NarrowestPolicyWins
<1> DEFINE list == Forwarding!Ordered
           n == Len(list)
           Narrowest(a, p) == a \in p.net /\ p.mode = "smart" /\ \A o \in policies : a \in o.net => Cardinality(p.net) <= Cardinality(o.net)
<1>1. /\ list \in Seq(policies) /\ DOMAIN list = 1..n /\ n \in Nat
      /\ \A p \in policies : \E i \in 1..n : list[i] = p
      /\ \A i, j \in 1..n : i < j => Cardinality(list[j].net) <= Cardinality(list[i].net)
  BY OrderedIs, SameCardinality DEF Forwarding!BroadFirst
<1> HIDE DEF list
<1>2. ASSUME NEW i \in 1..n
      PROVE  list[i] \in policies /\ Cardinality(list[i].net) \in Nat
  <2>1. list[i] \in policies /\ list[i] \in DevicePolicies
    BY <1>1 DEF ForwardingInv
  <2> QED BY <2>1, ForwardingAssumption, FS_CardinalityType
<1>3. ASSUME NEW a, LastIsSmart(list, n, a) PROVE \E p \in policies : Narrowest(a, p)
  <2>1. PICK i \in HoldersOf(list, n, a) : list[i].mode = "smart" /\ \A j \in HoldersOf(list, n, a) : j <= i
    BY <1>3 DEF LastIsSmart
  <2>2. i \in 1..n /\ a \in list[i].net /\ list[i] \in policies
    BY <1>2, <2>1 DEF HoldersOf
  <2>3. ASSUME NEW o \in policies, a \in o.net PROVE Cardinality(list[i].net) <= Cardinality(o.net)
    <3>1. PICK j \in 1..n : list[j] = o
      BY <1>1
    <3>2. j <= i
      BY <2>1, <2>3, <3>1 DEF HoldersOf
    <3> QED BY <1>1, <1>2, <2>2, <3>1, <3>2
  <2> QED BY <2>1, <2>2, <2>3
<1>4. ASSUME NEW a, NEW p \in policies, Narrowest(a, p) PROVE LastIsSmart(list, n, a)
  <2>1. PICK i \in 1..n : list[i] = p
    BY <1>1
  <2>2. i \in HoldersOf(list, n, a) /\ HoldersOf(list, n, a) \in SUBSET (1..n)
    BY <1>4, <2>1 DEF HoldersOf
  <2>3. PICK l \in HoldersOf(list, n, a) : \A j \in HoldersOf(list, n, a) : j <= l
    BY <1>1, <2>2, Last
  <2>4. l \in 1..n /\ a \in list[l].net /\ list[l] \in policies /\ Cardinality(list[l].net) \in Nat /\ Cardinality(p.net) \in Nat
    BY <1>2, <2>1, <2>3 DEF HoldersOf
  <2>5. Cardinality(p.net) <= Cardinality(list[l].net)
    BY <1>4, <2>4
  <2>6. Cardinality(list[l].net) <= Cardinality(p.net)
    <3>1. i <= l
      BY <2>2, <2>3
    <3> QED BY <1>1, <2>1, <2>4, <3>1
  <2>7. p = list[l]
    BY <1>4, <2>4, <2>5, <2>6, NarrowestIsOne
  <2> QED BY <1>4, <2>3, <2>7 DEF LastIsSmart
<1>5. \A a : a \in Forwarding!Smart(list) <=> LastIsSmart(list, n, a)
  BY <1>1, LastDecides
<1>6. \A a : a \in Forwarding!SmartSources <=> a # GatewayAddress /\ \E p \in policies : Narrowest(a, p)
  <2> HIDE DEF Narrowest, n
  <2> QED BY <1>3, <1>4, <1>5 DEF Forwarding!SmartSources, list
<1> QED BY <1>6, SameCardinality DEF Forwarding!NarrowestPolicyWins

(* ------------------------------- the tables change --------------------------- *)
BroadIn(list, set) ==
  /\ \A p \in set : \E i \in DOMAIN list : list[i] = p
  /\ \A i, j \in DOMAIN list : i < j => Cardinality(list[j].net) <= Cardinality(list[i].net)
LEMMA BroadIs == \A list : Forwarding!BroadFirst(list) <=> BroadIn(list, policies)
  BY SameCardinality DEF Forwarding!BroadFirst, BroadIn

(* A policy finds its place in front of the first that is narrower.                *)
LEMMA PlaceInOrder ==
  ASSUME NEW n \in Nat, NEW set \in SUBSET DevicePolicies, NEW p \in DevicePolicies,
         NEW list \in [1..n -> set], BroadIn(list, set)
  PROVE  \E l \in [1..(n + 1) -> set \cup {p}] : BroadIn(l, set \cup {p})
<1> DEFINE size(i) == Cardinality(list[i].net)
           own == Cardinality(p.net)
           Narrower == {j \in 1..(n + 1) : j = n + 1 \/ size(j) < own}
<1>1. own \in Nat /\ \A i \in 1..n : list[i] \in set /\ size(i) \in Nat
  BY ForwardingAssumption, FS_CardinalityType
<1>2. PICK place \in Narrower : \A j \in Narrower : place <= j
  <2>1. n + 1 \in Narrower /\ Narrower \in SUBSET Nat
    OBVIOUS
  <2> HIDE DEF Narrower
  <2> QED BY <2>1, Least
<1>3. place \in 1..(n + 1) /\ (place = n + 1 \/ size(place) < own)
  OBVIOUS
<1>4. \A j \in 1..n : j < place => own <= size(j)
  <2> SUFFICES ASSUME NEW j \in 1..n, j < place PROVE own <= size(j)
    OBVIOUS
  <2>1. j \notin Narrower
    <3> HIDE DEF Narrower
    <3> QED BY <1>2, <1>3
  <2>2. ~(size(j) < own)
    BY <2>1
  <2> QED BY <1>1, <2>2
<1>5. \A j \in 1..n : place <= j => size(j) <= own
  <2> SUFFICES ASSUME NEW j \in 1..n, place <= j PROVE size(j) <= own
    OBVIOUS
  <2>1. place \in 1..n /\ size(place) < own
    BY <1>3
  <2>2. size(j) <= size(place)
    <3>1. CASE place = j
      BY <1>1, <2>1, <3>1
    <3>2. CASE place < j
      BY <2>1, <3>2 DEF BroadIn
    <3> QED BY <1>3, <3>1, <3>2
  <2> QED BY <1>1, <2>1, <2>2
<1> DEFINE l == [i \in 1..(n + 1) |-> IF i < place THEN list[i] ELSE IF i = place THEN p ELSE list[i - 1]]
<1> HIDE DEF Narrower
<1>6. ASSUME NEW i \in 1..(n + 1)
      PROVE  /\ i < place => i \in 1..n /\ l[i] = list[i]
             /\ i = place => l[i] = p
             /\ i > place => i - 1 \in 1..n /\ l[i] = list[i - 1] /\ place <= i - 1
  BY <1>3
<1>7. l \in [1..(n + 1) -> set \cup {p}] /\ DOMAIN l = 1..(n + 1)
  <2>1. \A i \in 1..(n + 1) : l[i] \in set \cup {p}
    BY <1>1, <1>3, <1>6
  <2> QED BY <2>1
<1> HIDE DEF l
<1>8. ASSUME NEW o \in set \cup {p} PROVE \E i \in 1..(n + 1) : l[i] = o
  <2>1. CASE o = p
    BY <1>3, <1>6, <2>1
  <2>2. CASE o \in set
    <3>1. PICK j \in 1..n : list[j] = o
      BY <2>2 DEF BroadIn
    <3>2. CASE j < place
      <4>1. j \in 1..(n + 1)
        OBVIOUS
      <4> QED BY <1>6, <3>1, <3>2, <4>1
    <3>3. CASE place <= j
      <4>1. j + 1 \in 1..(n + 1) /\ j + 1 > place /\ (j + 1) - 1 = j
        BY <1>3, <3>3
      <4> QED BY <1>6, <3>1, <4>1
    <3> QED BY <1>3, <3>2, <3>3
  <2> QED BY <2>1, <2>2
<1>9. ASSUME NEW i \in 1..(n + 1), NEW j \in 1..(n + 1), i < j
      PROVE  Cardinality(l[j].net) <= Cardinality(l[i].net)
  <2>1. \A a, b \in 1..n : a < b => size(b) <= size(a)
    BY DEF BroadIn
  <2> HIDE DEF size, own
  <2>2. \A a \in 1..n : Cardinality(list[a].net) = size(a)
    BY DEF size
  <2>3. Cardinality(p.net) = own
    BY DEF own
  <2>4. CASE i < place /\ j < place
    BY <1>6, <1>9, <2>1, <2>2, <2>4
  <2>5. CASE i < place /\ j = place
    BY <1>4, <1>6, <2>2, <2>3, <2>5
  <2>6. CASE i < place /\ j > place
    <3>1. own <= size(i) /\ size(j - 1) <= own
      BY <1>4, <1>5, <1>6, <2>6
    <3>2. size(j - 1) <= size(i)
      BY <1>1, <1>6, <2>6, <3>1
    <3> QED BY <1>6, <2>2, <2>6, <3>2
  <2>7. CASE i = place /\ j > place
    BY <1>5, <1>6, <2>2, <2>3, <2>7
  <2>8. CASE i > place /\ j > place
    <3>1. i - 1 < j - 1
      BY <1>9
    <3> QED BY <1>6, <2>1, <2>2, <2>8, <3>1
  <2> QED BY <1>3, <1>9, <2>4, <2>5, <2>6, <2>7, <2>8
<1>10. BroadIn(l, set \cup {p})
  BY <1>7, <1>8, <1>9 DEF BroadIn
<1> QED BY <1>7, <1>10

LEMMA ForwardingStarts == ASSUME Forwarding!ForwardingInit PROVE ForwardingInv
<1>1. routes = {} /\ rules = <<>> /\ policies = {}
  BY DEF Forwarding!ForwardingInit
<1>2. Cardinality(policies) = 0 /\ IsFiniteSet(policies)
  BY <1>1, FS_EmptySet
<1>3. <<>> \in [1..0 -> policies] /\ BroadIn(<<>>, policies)
  BY <1>1 DEF BroadIn
<1>4. \E list \in [1..Cardinality(policies) -> policies] : Forwarding!BroadFirst(list)
  BY <1>2, <1>3, BroadIs
<1> QED BY <1>1, <1>2, <1>4 DEF ForwardingInv

LEMMA RouteIsAdded == ASSUME ForwardingInv, Forwarding!AddRoute PROVE ForwardingInv'
<1>1. routes' \subseteq TableRows /\ rules' = rules /\ policies' = policies
  BY DEF Forwarding!AddRoute, ForwardingInv
<1> QED BY <1>1 DEF ForwardingInv, Forwarding!BroadFirst

LEMMA RuleIsAdded == ASSUME ForwardingInv, Forwarding!AddRule PROVE ForwardingInv'
<1>1. rules' \in Seq(NatRules) /\ routes' = routes /\ policies' = policies
  BY DEF Forwarding!AddRule, ForwardingInv
<1> QED BY <1>1 DEF ForwardingInv, Forwarding!BroadFirst

LEMMA PolicyIsAdded == ASSUME ForwardingInv, Forwarding!AddPolicy PROVE ForwardingInv'
<1>1. PICK p \in DevicePolicies : /\ \A o \in policies : o.net # p.net
                                  /\ policies' = policies \cup {p} /\ routes' = routes /\ rules' = rules
  BY DEF Forwarding!AddPolicy
<1>2. /\ policies' \subseteq DevicePolicies /\ IsFiniteSet(policies') /\ Cardinality(policies') = Cardinality(policies) + 1
      /\ Cardinality(policies) \in Nat
  <2>1. p \notin policies
    BY <1>1
  <2> QED BY <1>1, <2>1, FS_AddElement, FS_CardinalityType DEF ForwardingInv
<1>3. \A q, o \in policies' : q.net = o.net => q = o
  BY <1>1 DEF ForwardingInv
<1>4. \E list \in [1..Cardinality(policies') -> policies'] : BroadIn(list, policies')
  <2>1. PICK list \in [1..Cardinality(policies) -> policies] : BroadIn(list, policies)
    BY BroadIs DEF ForwardingInv
  <2>2. policies \in SUBSET DevicePolicies
    BY DEF ForwardingInv
  <2>3. \E l \in [1..(Cardinality(policies) + 1) -> policies \cup {p}] : BroadIn(l, policies \cup {p})
    BY <1>2, <2>1, <2>2, PlaceInOrder
  <2> QED BY <1>1, <1>2, <2>3
<1>5. \A list : Forwarding!BroadFirst(list)' <=> BroadIn(list, policies')
  BY SameCardinality DEF Forwarding!BroadFirst, BroadIn
<1>6. \E list \in [1..Cardinality(policies') -> policies'] : Forwarding!BroadFirst(list)'
  BY <1>4, <1>5
<1> QED BY <1>1, <1>2, <1>3, <1>6 DEF ForwardingInv

LEMMA ForwardingKept == ASSUME ForwardingInv, [Next]_vars PROVE ForwardingInv'
<1>1. CASE Forwarding!ForwardingNext
  BY <1>1, RouteIsAdded, RuleIsAdded, PolicyIsAdded DEF Forwarding!ForwardingNext
<1>2. CASE UNCHANGED ForwardingVars
  <2>1. routes' = routes /\ rules' = rules /\ policies' = policies
    BY <1>2 DEF ForwardingVars
  <2> QED BY <2>1 DEF ForwardingInv, Forwarding!BroadFirst
<1>3. Forwarding!ForwardingNext \/ UNCHANGED ForwardingVars
  BY DEF Next, vars
<1> QED BY <1>1, <1>2, <1>3

(* What is reported as forwarded to the gateway or exempt from NAT is so for every *)
(* packet, and the narrowest device policy wins, for every table a router can hold *)
(* (base.py, routeros_nat.py, ros_policy.py).                                      *)
THEOREM ForwardingHolds == Spec => []ForwardingIsJudgedRight
<1>1. Init => ForwardingInv
  BY ForwardingStarts DEF Init
<1>2. ForwardingInv /\ [Next]_vars => ForwardingInv'
  BY ForwardingKept
<1>3. ForwardingInv => ForwardingIsJudgedRight
  BY EvidenceIsSound, ExemptionHolds, NarrowestWins DEF ForwardingIsJudgedRight
<1> QED BY <1>1, <1>2, <1>3, PTL DEF Spec
===============================================================================
