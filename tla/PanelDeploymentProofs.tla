------------------------ MODULE PanelDeploymentProofs ------------------------
(* Proofs about the panel's deployment coordination (PanelDeployment), for any *)
(* number of deployments, profiles, service types and concurrent requests.      *)
(*                                                                              *)
(* The argument is one inductive invariant, Inv. Its core is what a request may *)
(* still believe when it acts: an answer of the Agent is a copy of its journal   *)
(* that may be old (Past), a view is a record that may be old (PollOK), and the  *)
(* steps of the others never make such a belief wrong (Steady).                  *)
EXTENDS PanelDeployment, TLAPS

(* ----------------------------- the invariant ------------------------------- *)
Journals == [status : AgentStatus \cup {"none"}, manual : BOOLEAN, stamp : Nat,
             previous : Deployments \cup {Prior}, auto : BOOLEAN]
Replies == [kind : {"lost", "refused", "missing", "busy", "state"},
            status : AgentStatus \cup {"none"}, manual : BOOLEAN, stamp : Nat]
Stages == {"idle", "snapshot", "prepare", "remember", "upload", "post", "sent", "answered",
           "finish", "reread", "interrupted", "ask", "activate", "activating",
           "activateAnswered", "rollback", "rollbackAnswered"}
Bindings == [profile : Profiles \cup {None}, service : Services \cup {"none"}]
Requests == [pc : Stages, d : Deployments \cup {None}, binding : Bindings,
             view : Records \cup {Blank}, inflight : BOOLEAN, activate : BOOLEAN, reply : Replies]

(* What the variables hold, those of the requests and of the Agent included.    *)
Typed ==
  /\ TypeOK
  /\ pub \in Requests /\ op \in Requests /\ polls \in [Pollers -> Requests]
  /\ journal \in [Deployments -> Journals]

(* The candidate of d was ready once, and waits for no upload's own start.       *)
WasReady(d) == ~journal[d].auto /\ (journal[d].status = "ready" \/ journal[d].stamp >= 3)

(* u is a copy of d's journal, of this moment or of an earlier one.              *)
Past(d, u) ==
  /\ u.status \in AgentStatus /\ u.stamp > 0
  /\ journal[d] # NoJournal
  /\ u.status = "failed" => journal[d].status = "failed"
  /\ u.status = "rolled_back" => journal[d].status = "rolled_back" /\ journal[d].manual = u.manual
  /\ u.status = "succeeded" => journal[d].status = "succeeded" \/ journal[d].manual
  /\ u.manual => u.status \in {"rolling_back", "rolled_back", "rollback_failed"} /\ journal[d].manual
  /\ u.status = "rolling_back" => u.manual
  /\ u.status = "ready" => u.stamp = 2 /\ WasReady(d)

(* The preparation lock is the live publication's; nobody else touches a record  *)
(* whose upload has not been handled.                                            *)
Holding == {"prepare", "remember", "upload", "post", "sent", "answered", "finish"}
Unsent == {"prepare", "remember", "upload"}
Publisher ==
  /\ preparing = IF pub.pc \in Holding THEN {pub.d} ELSE {}
  /\ pub.pc # "idle" => pub.pc \in Holding \cup {"snapshot"} /\ pub.d \in Deployments
  /\ pub.pc = "snapshot" => deployments[pub.d] = Blank
  /\ pub.pc \in Unsent =>
       /\ deployments[pub.d].status = "preparing" /\ ~deployments[pub.d].submitted
       /\ ~deployments[pub.d].manual /\ deployments[pub.d].stamp = 0
  /\ pub.pc = "upload" => deployments[pub.d].prepared
  /\ pub.pc = "post" =>
       /\ deployments[pub.d].status = "uploading" /\ deployments[pub.d].submitted
       /\ journal[pub.d] = NoJournal
  /\ pub.pc \in {"sent", "answered", "finish"} =>
       deployments[pub.d] # Blank /\ deployments[pub.d].submitted
  /\ pub.pc = "sent" => journal[pub.d] # NoJournal
  /\ pub.pc = "answered" =>
       /\ pub.reply.kind \in {"lost", "refused", "state"}
       /\ pub.reply.kind = "refused" => journal[pub.d] = NoJournal
       /\ pub.reply.kind = "state" => Past(pub.d, pub.reply)

(* A journal exists only of an upload the panel has recorded; its stamps count   *)
(* the steps of the task, and only a rollback makes it manual.                   *)
JournalOK(d) ==
  /\ journal[d].status = "none" => journal[d] = NoJournal
  /\ journal[d] # NoJournal => deployments[d] # Blank /\ deployments[d].submitted /\ journal[d].stamp >= 1
  /\ journal[d].status = "receiving" => journal[d].stamp = 1
  /\ journal[d].status = "ready" => journal[d].stamp = 2 /\ ~journal[d].auto
  /\ journal[d].status \notin {"none", "receiving", "ready", "failed"} =>
       journal[d].auto \/ journal[d].stamp >= 3
  /\ journal[d].manual => journal[d].status \in {"rolling_back", "rolled_back", "rollback_failed"}
  /\ journal[d].status = "rolling_back" => journal[d].manual

(* The Agent works at one deployment at a time, and at none beside one whose     *)
(* rollback failed.                                                              *)
Engaged(d) == journal[d].status \in {"receiving", "starting", "rolling_back", "rollback_failed"}
Single == \A d, e \in Deployments : Engaged(d) /\ Engaged(e) => d = e

(* The deployments that succeeded and were not undone form a stack: each keeps   *)
(* what it replaced, and the one served is on top.                               *)
Serving(d) ==
  \/ journal[d].status \in {"succeeded", "rolling_back"}
  \/ journal[d].status = "rollback_failed" /\ journal[d].manual
Stack ==
  /\ live # Prior => Serving(live)
  /\ \A d \in Deployments : Serving(d) =>
       /\ journal[d].status # "succeeded" => live = d
       /\ journal[d].previous # live /\ journal[d].previous # d
       /\ journal[d].previous # Prior => Serving(journal[d].previous)
  /\ \A d, e \in Deployments :
       Serving(d) /\ Serving(e) /\ d # e => journal[d].previous # journal[e].previous

(* What a record says of the journal. *)
RecordOK(d) ==
  /\ deployments[d].submitted => deployments[d].prepared
  /\ deployments[d].status = "failed" => ~deployments[d].manual /\
       \/ journal[d].status \in {"none", "failed"}
       \/ journal[d].status = "ready" /\ deployments[d].service = "oxidns" /\ d \notin receipts
  /\ deployments[d].status = "rolled_back" =>
       journal[d].status = "rolled_back" /\ journal[d].manual = deployments[d].manual
  /\ deployments[d].status = "succeeded" =>
       ~deployments[d].manual /\ (journal[d].status = "succeeded" \/ journal[d].manual)
  /\ deployments[d].status = "ready" => deployments[d].stamp = 2 /\ WasReady(d)
  /\ deployments[d].status \in {"ready", "succeeded", "rolled_back", "rolling_back", "rollback_failed"}
       => journal[d] # NoJournal
  /\ deployments[d].manual =>
       /\ deployments[d].status \in {"rolling_back", "rolled_back", "rollback_failed", "unknown"}
       /\ journal[d].manual \/ (journal[d].status = "succeeded" /\ latest = d)
  /\ journal[d].manual => deployments[d].manual \/ deployments[d].status = "succeeded"
  /\ journal[d].status = "succeeded" /\ latest = d => live = d

(* A rollback of d was accepted, or is reserved by nobody who could still give   *)
(* the reservation up before it is.                                              *)
Elsewhere(d) == op.pc = "idle" \/ op.d # d
Reserved(d) == journal[d].manual \/ (deployments[d].manual /\ Elsewhere(d))
UnknownReserved(d) ==
  deployments[d].manual /\ deployments[d].status = "unknown" => Reserved(d)

(* The request that rolls back. *)
Operation ==
  op.pc # "idle" =>
    /\ op.pc \in {"rollback", "rollbackAnswered"} /\ op.d \in Deployments
    /\ journal[op.d] # NoJournal
    /\ journal[op.d].manual \/ deployments[op.d].manual
    /\ op.pc = "rollbackAnswered" /\ op.reply.kind = "state" => Past(op.d, op.reply) /\ op.reply.manual

(* No start of d was asked for under the rules in force. *)
Unvetted(d) == deployments[d].service = "oxidns" /\ d \notin receipts

(* A request that polls: what it read, and what it may still conclude. *)
Views(q) ==
  /\ q.d \in Deployments /\ deployments[q.d] # Blank
  /\ q.view # Blank /\ q.view.service = deployments[q.d].service
  /\ deployments[q.d].submitted \/ q.d \notin preparing
  /\ q.view.manual /\ q.view.status = "unknown" => Reserved(q.d)
  /\ q.view.status = "ready" => journal[q.d] # NoJournal
Concludes(q) ==
  /\ q.pc \in {"reread", "interrupted"} => q.d \notin preparing
  /\ q.pc \in {"ask", "answered"} /\ ~q.inflight => q.d \notin preparing
  /\ q.pc = "answered" =>
       /\ q.reply.kind \in {"lost", "missing", "state"}
       /\ q.reply.kind = "missing" /\ ~q.inflight => journal[q.d] = NoJournal
       /\ q.reply.kind = "state" => Past(q.d, q.reply)
       /\ q.reply.kind = "state" /\ q.reply.stamp <= 2 /\ ~journal[q.d].auto /\ Unvetted(q.d)
            => journal[q.d].stamp <= 2
  /\ q.pc = "activate" /\ q.view.status = "ready" /\ ~q.inflight /\ Unvetted(q.d)
       => journal[q.d].status = "ready"
  /\ q.pc \in {"activating", "activateAnswered"} => journal[q.d] # NoJournal
  /\ q.pc = "activating" => ~Unvetted(q.d)
  /\ q.pc = "activateAnswered" /\ q.reply.kind = "state" => Past(q.d, q.reply)
  /\ q.pc \in {"rollback", "rollbackAnswered"} => q.view.manual /\ q.view.status = "unknown"
  /\ q.pc = "rollbackAnswered" /\ q.reply.kind = "state" => Past(q.d, q.reply) /\ q.reply.manual
  /\ q.pc = "rollbackAnswered" /\ q.reply.kind = "refused" => journal[q.d].manual
PollStages == {"reread", "interrupted", "ask", "answered", "activate", "activating",
               "activateAnswered", "rollback", "rollbackAnswered"}
PollOK(q) == q.pc # "idle" => q.pc \in PollStages /\ Views(q) /\ Concludes(q)

Inv ==
  /\ Typed /\ Publisher /\ Single /\ Stack /\ Operation
  /\ \A d \in Deployments : JournalOK(d) /\ RecordOK(d) /\ UnknownReserved(d)
  /\ \A p \in Pollers : PollOK(polls[p])
  /\ OneUnfinished

(* ------------------------------ what others do ----------------------------- *)
(* What every step but the death of the process leaves as it was for a request   *)
(* that waits: tasks are kept, a journal only moves on, nothing unvetted starts.  *)
Steady(d) ==
  /\ deployments[d] # Blank =>
       /\ deployments'[d] # Blank /\ deployments'[d].service = deployments[d].service
       /\ deployments[d].submitted => deployments'[d].submitted
  /\ d \in preparing' => d \in preparing \/ deployments[d] = Blank
  /\ d \in receipts => d \in receipts'
  /\ journal[d] # NoJournal => journal'[d] # NoJournal /\ journal'[d].auto = journal[d].auto
  /\ journal[d] = NoJournal /\ d \notin preparing => journal'[d] = NoJournal
  /\ journal[d].manual => journal'[d].manual
  /\ journal[d].status = "failed" => journal'[d].status = "failed"
  /\ journal[d].status = "rolled_back" =>
       journal'[d].status = "rolled_back" /\ journal'[d].manual = journal[d].manual
  /\ journal[d].status = "succeeded" => journal'[d].status = "succeeded" \/ journal'[d].manual
  /\ WasReady(d) => WasReady(d)'
  /\ Unvetted(d) /\ journal[d] # NoJournal /\ ~journal[d].auto /\ journal[d].stamp <= 2
       => journal'[d].stamp <= 2
  /\ Unvetted(d) /\ journal[d].status = "ready" => journal'[d].status = "ready"
  /\ Reserved(d) => Reserved(d)'

(* An old copy of the journal stays one. *)
LEMMA PastStays ==
  ASSUME NEW d, NEW u, Steady(d), Past(d, u)
  PROVE  Past(d, u)'
  BY DEF Steady, Past

(* What a waiting request believes stays right whatever the others do.           *)
LEMMA BeliefStays ==
  ASSUME NEW q \in Requests, PollOK(q), \A d \in Deployments : Steady(d)
  PROVE  PollOK(q)'
  BY PastStays DEF PollOK, Views, Steady, Unvetted, Concludes, Past

(* What record_deployment may do to a record, and to what is shown as applied.   *)
LEMMA RecordEffect ==
  ASSUME TypeOK, NEW d \in Deployments, NEW u, NEW receipt, Record(d, u, receipt),
         u.status \in Status, u.manual \in BOOLEAN, u.stamp \in Nat
  PROVE  /\ TypeOK /\ deployments' \in [Deployments -> Records \cup {Blank}]
         /\ latest' = latest /\ applied' \in Deployments \cup {None}
         /\ \A e \in Deployments : e # d => deployments'[e] = deployments[e]
         /\ \/ UNCHANGED records
            \/ /\ deployments[d] \in Records /\ ~Refused(deployments[d], u, receipt)
               /\ deployments'[d] = Recorded(deployments[d], u)
               /\ deployments'[d] \in Records
               /\ applied' = AppliedAfter(d, deployments'[d])
  <1>1. CASE Refused(deployments[d], u, receipt)
    BY <1>1 DEF Record, records, TypeOK
  <1>2. CASE ~Refused(deployments[d], u, receipt)
    <2>1. deployments[d] \in Records
      BY <1>2 DEF TypeOK, Refused
    <2>2. Recorded(deployments[d], u) \in Records
      BY <2>1 DEF Recorded, Records
    <2>3. /\ deployments' = [deployments EXCEPT ![d] = Recorded(deployments[d], u)]
          /\ applied' = AppliedAfter(d, Recorded(deployments[d], u)) /\ latest' = latest
      BY <1>2 DEF Record
    <2>4. applied' \in Deployments \cup {None}
      BY <2>3 DEF AppliedAfter, TypeOK
    <2>5. QED
      BY <1>2, <2>1, <2>2, <2>3, <2>4 DEF TypeOK
  <1>3. QED
    BY <1>1, <1>2

LEMMA BlankIsNoRecord == Blank \notin Records /\ Blank.status = "none" /\ ~Blank.manual /\ ~Blank.submitted
  BY DEF Blank, Records, Status, AgentStatus

(* A request moved one record on, or none, and everything said of the records    *)
(* still holds.                                                                   *)
Kept ==
  /\ deployments' \in [Deployments -> Records \cup {Blank}]
  /\ \A e \in Deployments :
       /\ deployments'[e] = Blank <=> deployments[e] = Blank
       /\ deployments'[e].service = deployments[e].service
       /\ deployments'[e].profile = deployments[e].profile
       /\ deployments[e].submitted => deployments'[e].submitted
       /\ deployments'[e] # Blank /\ deployments'[e].status \notin Terminal
            => deployments[e].status \notin Terminal
       /\ Reserved(e) => Reserved(e)'
       /\ op' = op => (journal[e].manual \/ deployments[e].manual
                         => journal[e].manual \/ deployments'[e].manual)
       /\ RecordOK(e)' /\ UnknownReserved(e)'

(* Only the records, and who holds which request, change. *)
DeviceStays == UNCHANGED <<journal, live, latest, binding, receipts, upgrading>>
RequestEnds == op' = op \/ op'.pc = "idle"

LEMMA KeptWithoutChange ==
  ASSUME Inv, DeviceStays, deployments' = deployments, op' = op
  PROVE  Kept
  BY DEF Inv, Typed, TypeOK, DeviceStays, Kept, RecordOK, UnknownReserved, Reserved, Elsewhere, WasReady

(* What a report must rest on: the Agent's journal, an upload that never was, or  *)
(* no knowledge; the request that rolls back keeps its reservation.               *)
Basis(d, u) ==
  \/ Past(d, u) /\ u.manual \in BOOLEAN /\ u.stamp \in Nat
  \/ u = Report("failed") /\ journal[d] = NoJournal
  \/ u = Report("unknown")
  \/ /\ u = [Report("unknown") EXCEPT !.manual = TRUE]
     /\ journal[d].manual \/ deployments[d].manual
     /\ op'.pc = "idle"

LEMMA BasisReports ==
  ASSUME NEW d, NEW u, Basis(d, u)
  PROVE  u.status \in Status /\ u.manual \in BOOLEAN /\ u.stamp \in Nat
  <1>1. CASE Past(d, u) /\ u.manual \in BOOLEAN /\ u.stamp \in Nat
    BY <1>1 DEF Past, Status
  <1>2. CASE u = Report("failed")
    BY <1>2 DEF Report, Status, AgentStatus
  <1>3. CASE u = Report("unknown")
    BY <1>3 DEF Report, Status
  <1>4. CASE u = [Report("unknown") EXCEPT !.manual = TRUE]
    BY <1>4 DEF Report, Status
  <1>5. QED
    BY <1>1, <1>2, <1>3, <1>4 DEF Basis

LEMMA RecordKeeps ==
  ASSUME Inv, NEW d \in Deployments, NEW u, NEW receipt, Record(d, u, receipt),
         Basis(d, u), DeviceStays, RequestEnds
  PROVE  Kept /\ applied' \in Deployments \cup {None}
  <1> USE DEF Inv, Typed
  <1>1. u.status \in Status /\ u.manual \in BOOLEAN /\ u.stamp \in Nat
    BY BasisReports
  <1> DEFINE r == deployments[d]
             s == deployments'[d]
  <1>2. /\ deployments' \in [Deployments -> Records \cup {Blank}]
        /\ applied' \in Deployments \cup {None}
        /\ \A e \in Deployments : e # d => deployments'[e] = deployments[e]
    BY <1>1, RecordEffect
  <1>3. s = r \/ (/\ r \in Records /\ s \in Records /\ ~Refused(r, u, receipt)
                  /\ s = Recorded(r, u))
    BY <1>1, RecordEffect DEF records
  <1>4. \A e \in Deployments : Reserved(e) /\ deployments'[e] = deployments[e] => Reserved(e)'
    BY DEF Reserved, DeviceStays, RequestEnds, Elsewhere
  <1>5. \A e \in Deployments : deployments'[e] = deployments[e] =>
          RecordOK(e)' /\ UnknownReserved(e)'
    BY <1>4 DEF RecordOK, UnknownReserved, DeviceStays, WasReady
  <1>6. ASSUME s # r
        PROVE  /\ r \in Records
               /\ s # Blank /\ r # Blank /\ s.service = r.service /\ s.profile = r.profile
               /\ s.submitted = r.submitted /\ s.prepared = r.prepared
               /\ s.status = u.status /\ s.manual = (u.manual \/ r.manual)
               /\ s.stamp = IF u.stamp > 0 THEN u.stamp ELSE r.stamp
               /\ r.manual => u.manual
               /\ r.status \in Terminal => u.status = r.status
    BY <1>1, <1>3, <1>6, BlankIsNoRecord DEF Refused, Recorded, Records
  <1>7. ASSUME s # r
        PROVE  RecordOK(d)' /\ UnknownReserved(d)' /\ (Reserved(d) => Reserved(d)')
    <2> USE <1>6, <1>7, <1>1
    <2> RecordOK(d) /\ JournalOK(d)
      OBVIOUS
    <2>1. CASE Past(d, u)
      BY <2>1 DEF Past, RecordOK, UnknownReserved, Reserved, JournalOK, Elsewhere, DeviceStays,
                  RequestEnds, WasReady, Terminal, AgentStatus, NoJournal
    <2>2. CASE u = Report("failed") /\ journal[d] = NoJournal
      BY <2>2 DEF Report, NoJournal, Records, RecordOK, UnknownReserved, Reserved, DeviceStays
    <2>3. CASE u = Report("unknown")
      BY <2>3 DEF Report, RecordOK, UnknownReserved, Reserved, Elsewhere, DeviceStays,
                  RequestEnds, Terminal
    <2>4. CASE /\ u = [Report("unknown") EXCEPT !.manual = TRUE]
               /\ journal[d].manual \/ deployments[d].manual
               /\ op'.pc = "idle"
      BY <2>4 DEF Report, RecordOK, UnknownReserved, Reserved, Elsewhere, DeviceStays, Terminal
    <2>5. QED
      BY <2>1, <2>2, <2>3, <2>4 DEF Basis
  <1>8. \A e \in Deployments : RecordOK(e)' /\ UnknownReserved(e)' /\ (Reserved(e) => Reserved(e)')
    BY <1>2, <1>4, <1>5, <1>7
  <1>9. QED
    BY <1>2, <1>6, <1>8 DEF Kept

(* A definite refusal of the rollback gives back the success that was there.      *)
LEMMA CancelKeeps ==
  ASSUME Inv, NEW d \in Deployments, CancelManualRollback(d), DeviceStays, RequestEnds,
         op' = op => journal[d].manual,
         op'.pc = "idle" => journal[d].manual \/ (op.pc # "idle" /\ op.d = d)
  PROVE  Kept /\ applied' \in Deployments \cup {None}
  <1> USE DEF Inv, Typed
  <1> DEFINE r == deployments[d]
             s == deployments'[d]
  <1>1. /\ \A e \in Deployments : e # d => deployments'[e] = deployments[e]
        /\ s = r \/ (/\ r.status \in {"rolling_back", "unknown"} /\ r.manual
                     /\ s = [r EXCEPT !.status = "succeeded", !.manual = FALSE])
        /\ applied' = applied /\ deployments' \in [Deployments -> Records \cup {Blank}]
    <2>1. CASE r.status \in {"rolling_back", "unknown"} /\ r.manual
      <3>1. r \in Records
        BY <2>1, BlankIsNoRecord DEF TypeOK
      <3>2. [r EXCEPT !.status = "succeeded", !.manual = FALSE] \in Records
        BY <3>1 DEF Records, Status, AgentStatus
      <3>3. QED
        BY <2>1, <3>2 DEF CancelManualRollback, TypeOK
    <2>2. CASE ~(r.status \in {"rolling_back", "unknown"} /\ r.manual)
      BY <2>2 DEF CancelManualRollback, TypeOK
    <2>3. QED
      BY <2>1, <2>2
  <1>2. r # s => r \in Records
    BY <1>1, BlankIsNoRecord DEF TypeOK
  <1>3. \A e \in Deployments : Reserved(e) /\ deployments'[e] = deployments[e] => Reserved(e)'
    BY DEF Reserved, DeviceStays, RequestEnds, Elsewhere
  <1>4. \A e \in Deployments : deployments'[e] = deployments[e] =>
          RecordOK(e)' /\ UnknownReserved(e)'
    BY <1>3 DEF RecordOK, UnknownReserved, DeviceStays, WasReady
  <1>5. ASSUME s # r
        PROVE  RecordOK(d)' /\ UnknownReserved(d)' /\ (Reserved(d) => Reserved(d)')
    <2>1. /\ r \in Records /\ r.status \in {"rolling_back", "unknown"} /\ r.manual
          /\ s.status = "succeeded" /\ ~s.manual
          /\ s.submitted = r.submitted /\ s.prepared = r.prepared
      BY <1>1, <1>2, <1>5 DEF Records
    <2>2. RecordOK(d) /\ UnknownReserved(d) /\ JournalOK(d)
      OBVIOUS
    <2>3. QED
      BY <2>1, <2>2 DEF RecordOK, UnknownReserved, Reserved, Elsewhere, DeviceStays, RequestEnds,
                        JournalOK, NoJournal
  <1>6. s # r => s # Blank /\ r # Blank /\ s.service = r.service /\ s.profile = r.profile
                 /\ s.submitted = r.submitted /\ s.status = "succeeded"
    BY <1>1, <1>2, BlankIsNoRecord DEF Records
  <1>7. \A e \in Deployments : RecordOK(e)' /\ UnknownReserved(e)' /\ (Reserved(e) => Reserved(e)')
    BY <1>1, <1>3, <1>4, <1>5
  <1>8. applied' \in Deployments \cup {None}
    BY <1>1 DEF TypeOK
  <1>9. QED
    BY <1>1, <1>6, <1>7, <1>8 DEF Kept, Terminal

(* From the records being kept follows what the others rely on. *)
LEMMA KeptIsSteady ==
  ASSUME Inv, Kept, DeviceStays, \A e \in Deployments : e \in preparing' => e \in preparing
  PROVE  /\ \A e \in Deployments : Steady(e)
         /\ \A e \in Deployments : JournalOK(e)'
         /\ OneUnfinished' /\ Single' /\ Stack' /\ (op' = op => Operation')
  <1> USE DEF Inv
  <1>1. \A e \in Deployments : Steady(e)
    BY DEF Steady, Kept, DeviceStays, WasReady, Unvetted
  <1>2. \A e \in Deployments : JournalOK(e)'
    BY DEF JournalOK, Kept, DeviceStays
  <1>3. OneUnfinished'
    BY DEF OneUnfinished, Unfinished, Open, Kept, DeviceStays
  <1>4. Single' /\ Stack'
    BY DEF Single, Stack, Engaged, Serving, DeviceStays
  <1>5. op' = op => Operation'
    BY DEF Operation, Kept, DeviceStays, Past, WasReady
  <1>6. QED
    BY <1>1, <1>2, <1>3, <1>4, <1>5

(* -------------------------------- polling ---------------------------------- *)
Apart == \A e \in Deployments : e \in preparing /\ journal[e] = NoJournal => deployments'[e] = deployments[e]

(* One request moved to q, the others wait. *)
LEMMA OthersWait ==
  ASSUME Inv, \A d \in Deployments : Steady(d), NEW p \in Pollers, NEW q \in Requests,
         polls' = [polls EXCEPT ![p] = q], PollOK(q)'
  PROVE  polls' \in [Pollers -> Requests] /\ \A x \in Pollers : PollOK(polls[x])'
  BY BeliefStays DEF Inv, Typed

LEMMA PollingKeeps ==
  ASSUME Inv, Kept, DeviceStays, Apart, UNCHANGED <<preparing, pub, op>>,
         applied' \in Deployments \cup {None},
         polls' \in [Pollers -> Requests], \A x \in Pollers : PollOK(polls[x])'
  PROVE  Inv'
  <1>1. Typed'
    BY DEF Inv, Typed, TypeOK, Kept, DeviceStays
  <1>2. Publisher'
    BY DEF Inv, JournalOK, Apart, Publisher, Kept, DeviceStays, Holding, Unsent, Past, WasReady
  <1>3. QED
    BY <1>1, <1>2, KeptIsSteady DEF Inv, Kept

LEMMA IdleWaits == Idle \in Requests /\ Idle.pc = "idle" /\ PollOK(Idle)'
  BY DEF Idle, Requests, Stages, Bindings, Replies, Lost, PollOK

(* What holds at once when only the request p moves. *)
LEMMA OnlyPoll ==
  ASSUME Inv, UNCHANGED <<records, local, preparing, pub, op, agentVars>>
  PROVE  /\ Kept /\ DeviceStays /\ Apart /\ UNCHANGED <<preparing, pub, op>>
         /\ applied' \in Deployments \cup {None}
         /\ \A d \in Deployments : Steady(d)
  BY KeptWithoutChange, KeptIsSteady DEF DeviceStays, records, local, agentVars, Apart, Inv, Typed, TypeOK

LEMMA OnlyPollMoves ==
  ASSUME Inv, UNCHANGED <<records, local, preparing, pub, op, agentVars>>,
         NEW p \in Pollers, NEW q \in Requests, polls' = [polls EXCEPT ![p] = q], PollOK(q)'
  PROVE  Inv'
  BY OnlyPoll, OthersWait, PollingKeeps

(* The state of the request that moves. *)
LEMMA PollIs ==
  ASSUME Inv, NEW p \in Pollers
  PROVE  polls[p] \in Requests /\ PollOK(polls[p])
  BY DEF Inv, Typed

LEMMA Unmoved ==
  ASSUME Inv, UNCHANGED <<records, local, preparing, pub, op, agentVars>>, NEW q, Views(q)
  PROVE  Views(q)'
  BY DEF Views, Reserved, Elsewhere, records, local, agentVars

LEMMA PollStartKeeps ==
  ASSUME Inv, NEW p \in Pollers, NEW d \in Deployments, PollStart(p, d)
  PROVE  Inv'
  <1> DEFINE r == deployments[d]
  <1> DEFINE stage == IF r.submitted THEN "ask" ELSE "reread"
             inflight == d \in preparing
  <1>1. PICK a \in BOOLEAN :
          polls' = [polls EXCEPT ![p] =
            [Idle EXCEPT !.pc = stage, !.d = d, !.view = r, !.inflight = inflight, !.activate = a]]
    BY DEF PollStart
  <1> stage \in Stages /\ inflight \in BOOLEAN /\ (inflight <=> d \in preparing)
      /\ stage \in {"ask", "reread"} /\ (stage = "ask" <=> r.submitted)
    BY DEF Stages
  <1> HIDE DEF stage, inflight
  <1> PICK q : q = [Idle EXCEPT !.pc = stage, !.d = d, !.view = r, !.inflight = inflight, !.activate = a]
    OBVIOUS
  <1>2. r \in Records /\ r # Blank /\ (r.submitted \/ d \notin preparing)
    BY BlankIsNoRecord DEF PollStart, Open, Inv, Typed, TypeOK
  <1>3. q \in Requests /\ q.pc = stage /\ q.d = d /\ q.view = r /\ q.inflight = inflight
    BY <1>2, IdleWaits DEF Requests
  <1>4. /\ q.pc \in {"ask", "reread"} /\ (q.pc = "reread" => d \notin preparing)
        /\ q.inflight \/ d \notin preparing
    BY <1>2, <1>3
  <1>5. RecordOK(d) /\ UnknownReserved(d)
    BY DEF Inv
  <1>6. Views(q)
    BY <1>2, <1>3, <1>4, <1>5 DEF Views, RecordOK, UnknownReserved
  <1>7. UNCHANGED <<records, local, preparing, pub, op, agentVars>>
    BY DEF PollStart
  <1>8. PollOK(q)'
    BY <1>6, <1>7, Unmoved, <1>3, <1>4 DEF Concludes, PollOK, PollStages
  <1>9. QED
    BY <1>1, <1>3, <1>7, <1>8, OnlyPollMoves

(* What a request that answered goes on with: the activation, or nothing. *)
AnswersWith(p, q, r, pending) ==
  /\ polls' = [polls EXCEPT ![p] = q]
  /\ \/ q.pc = "idle"
     \/ q.pc = "activate" /\ q.d = polls[p].d /\ q.view = r /\ q.inflight = pending

LEMMA AnswerIs ==
  ASSUME Inv, NEW p \in Pollers, NEW r \in Records \cup {Blank}, NEW pending \in BOOLEAN,
         Answer(p, r, pending)
  PROVE  \E q \in Requests : AnswersWith(p, q, r, pending)
  <1> DEFINE a == [polls[p] EXCEPT !.pc = "activate", !.view = r, !.inflight = pending]
  <1>1. polls[p] \in Requests /\ Idle \in Requests /\ Idle.pc = "idle"
    BY PollIs, IdleWaits
  <1>2. a \in Requests /\ a.pc = "activate" /\ a.d = polls[p].d /\ a.view = r /\ a.inflight = pending
    BY <1>1 DEF Requests, Stages
  <1>3. polls' = [polls EXCEPT ![p] = IF polls[p].activate THEN a ELSE Idle]
    BY DEF Answer, Inv, Typed
  <1>4. CASE polls[p].activate
    <2>1. AnswersWith(p, a, r, pending)
      BY <1>2, <1>3, <1>4 DEF AnswersWith
    <2>2. QED
      BY <1>2, <2>1
  <1>5. CASE ~polls[p].activate
    <2>1. AnswersWith(p, Idle, r, pending)
      BY <1>1, <1>3, <1>5 DEF AnswersWith
    <2>2. QED
      BY <1>1, <2>1
  <1>6. QED
    BY <1>4, <1>5

LEMMA PollConcludes ==
  ASSUME Inv, Kept, DeviceStays, Apart, UNCHANGED <<preparing, pub, op>>,
         applied' \in Deployments \cup {None},
         NEW p \in Pollers, NEW q \in Requests, polls' = [polls EXCEPT ![p] = q], PollOK(q)'
  PROVE  Inv'
  <1>1. \A d \in Deployments : Steady(d)
    BY KeptIsSteady
  <1>2. QED
    BY <1>1, OthersWait, PollingKeeps

(* A view just read is a belief one may go on with. *)
LEMMA FreshView ==
  ASSUME Inv, NEW p \in Pollers, polls[p].pc # "idle",
         NEW q, q.d = polls[p].d, q.view = deployments[q.d]
  PROVE  Views(q)
  BY PollIs DEF PollOK, Views, Inv, RecordOK, UnknownReserved

LEMMA PollRereadKeeps ==
  ASSUME Inv, NEW p \in Pollers, PollReread(p)
  PROVE  Inv'
  <1> DEFINE d == polls[p].d
             r == deployments[d]
  <1>1. /\ polls[p].pc = "reread" /\ polls[p] \in Requests /\ Views(polls[p]) /\ Concludes(polls[p])
        /\ d \in Deployments /\ d \notin preparing /\ r # Blank
    BY PollIs DEF PollReread, PollOK, Views, Concludes
  <1>2. UNCHANGED <<records, local, preparing, pub, op, agentVars>>
    BY DEF PollReread
  <1>3. r \in Records /\ r \in Records \cup {Blank}
    BY <1>1 DEF Inv, Typed, TypeOK
  <1>4. CASE r.status \in Terminal /\ Answer(p, r, FALSE)
    <2>1. PICK q \in Requests : AnswersWith(p, q, r, FALSE)
      BY <1>3, <1>4, AnswerIs
    <2>2. PollOK(q)'
      BY <2>1, <1>1, <1>2, FreshView, Unmoved, <1>4 DEF PollOK, AnswersWith, Concludes, Terminal, PollStages
    <2>3. QED
      BY <1>2, <2>1, <2>2, OnlyPollMoves DEF AnswersWith
  <1>5. CASE /\ r.submitted
             /\ polls' = [polls EXCEPT ![p] = [@ EXCEPT !.pc = "ask", !.view = r,
                                                        !.inflight = d \in preparing]]
    <2> DEFINE inflight == d \in preparing
    <2>0. PICK q : q = [polls[p] EXCEPT !.pc = "ask", !.view = r, !.inflight = inflight]
      OBVIOUS
    <2>1. polls' = [polls EXCEPT ![p] = q]
      BY <1>5, <2>0 DEF Inv, Typed
    <2> inflight \in BOOLEAN
      OBVIOUS
    <2> HIDE DEF inflight
    <2>2. q \in Requests /\ q.pc = "ask" /\ q.d = d /\ q.view = r
      BY <1>1, <1>3, <2>0 DEF Requests, Stages
    <2>3. Views(q)'
      BY <1>1, <1>2, <2>2, FreshView, Unmoved
    <2>4. Concludes(q)'
      BY <1>1, <1>2, <2>2 DEF Concludes
    <2>5. PollOK(q)'
      BY <2>2, <2>3, <2>4 DEF PollOK, PollStages
    <2>6. QED
      BY <1>2, <2>1, <2>2, <2>5, OnlyPollMoves
  <1>6. CASE Goto(p, "interrupted")
    <2> PICK q : q = [polls[p] EXCEPT !.pc = "interrupted"]
      OBVIOUS
    <2>1. polls' = [polls EXCEPT ![p] = q]
      BY <1>6 DEF Inv, Typed, Goto
    <2>2. q \in Requests /\ q.pc = "interrupted" /\ q.d = d /\ q.view = polls[p].view
      BY <1>1 DEF Requests, Stages
    <2>3. Views(q)
      BY <1>1, <2>2 DEF Views
    <2>4. Views(q)' /\ Concludes(q)'
      BY <1>1, <1>2, <2>2, <2>3, Unmoved DEF Concludes
    <2>5. PollOK(q)'
      BY <2>2, <2>4 DEF PollOK, PollStages
    <2>6. QED
      BY <1>2, <2>1, <2>2, <2>5, OnlyPollMoves
  <1>7. QED
    BY <1>1, <1>4, <1>5, <1>6 DEF PollReread

LEMMA PollInterruptedKeeps ==
  ASSUME Inv, NEW p \in Pollers, PollInterrupted(p)
  PROVE  Inv'
  <1> DEFINE d == polls[p].d
  <1>1. /\ Views(polls[p]) /\ d \in Deployments /\ d \notin preparing
        /\ Record(d, Report("failed"), "interrupted") /\ polls' = [polls EXCEPT ![p] = Idle]
        /\ UNCHANGED <<local, preparing, pub, op, agentVars, bounds>>
    BY PollIs DEF PollInterrupted, PollOK, Views, Concludes, Return
  <1>2. CASE deployments[d].submitted
    <2>1. UNCHANGED records
      BY <1>1, <1>2 DEF Record, Refused
    <2>2. QED
      BY <1>1, <2>1, IdleWaits, OnlyPollMoves
  <1>3. CASE ~deployments[d].submitted
    <2>1. latest' = latest /\ (\A e \in Deployments : e # d => deployments'[e] = deployments[e])
      <3>1. Report("failed").status \in Status /\ Report("failed").manual \in BOOLEAN
            /\ Report("failed").stamp \in Nat
        BY DEF Report, Status, AgentStatus
      <3>2. QED
        BY <1>1, <3>1, RecordEffect DEF Inv, Typed
    <2>2. DeviceStays /\ RequestEnds /\ UNCHANGED <<preparing, pub, op>>
      BY <1>1, <2>1 DEF DeviceStays, RequestEnds, local, agentVars
    <2>3. Basis(d, Report("failed"))
      BY <1>1, <1>3 DEF Basis, Inv, JournalOK
    <2>4. Kept /\ applied' \in Deployments \cup {None}
      BY <1>1, <2>2, <2>3, RecordKeeps
    <2>5. Apart
      BY <1>1, <2>1 DEF Apart
    <2>6. QED
      BY <1>1, <2>2, <2>4, <2>5, IdleWaits, PollConcludes
  <1>4. QED
    BY <1>2, <1>3

(* A copy of the journal is one of this moment. *)
LEMMA CopyIsPast ==
  ASSUME NEW d \in Deployments, journal[d] \in Journals, JournalOK(d), journal[d] # NoJournal
  PROVE  /\ Past(d, Copy(journal[d])) /\ Copy(journal[d]) \in Replies
         /\ Copy(journal[d]).kind = "state" /\ Copy(journal[d]).stamp = journal[d].stamp
         /\ Copy(journal[d]).manual = journal[d].manual /\ Copy(journal[d]).status = journal[d].status
  BY DEF Past, Copy, JournalOK, Journals, Replies, WasReady, NoJournal

LEMMA LostIsReply ==
  /\ Lost \in Replies /\ Lost.kind = "lost" /\ Refusal \in Replies /\ Refusal.kind = "refused"
  /\ NotFound \in Replies /\ NotFound.kind = "missing"
  /\ [Lost EXCEPT !.kind = "busy"] \in Replies /\ [Lost EXCEPT !.kind = "busy"].kind = "busy"
  BY DEF Lost, Refusal, NotFound, Replies

LEMMA PollAskKeeps ==
  ASSUME Inv, NEW p \in Pollers, PollAsk(p)
  PROVE  Inv'
  <1> DEFINE d == polls[p].d
             j == journal[d]
  <1>1. /\ polls[p].pc = "ask" /\ polls[p] \in Requests /\ Views(polls[p]) /\ Concludes(polls[p])
        /\ d \in Deployments /\ UNCHANGED <<records, local, preparing, pub, op, agentVars>>
    BY PollIs DEF PollAsk, PollOK, Views
  <1>2. j \in Journals /\ JournalOK(d)
    BY <1>1 DEF Inv, Typed
  <1>3. PICK reply : /\ reply \in {Lost, IF j = NoJournal THEN NotFound ELSE Copy(j)}
                     /\ polls' = [polls EXCEPT ![p].pc = "answered", ![p].reply = reply]
    BY DEF PollAsk
  <1>4. /\ reply \in Replies /\ reply.kind \in {"lost", "missing", "state"}
        /\ reply.kind = "missing" => j = NoJournal
        /\ reply.kind = "state" => Past(d, reply) /\ reply.stamp = j.stamp
    BY <1>1, <1>2, <1>3, CopyIsPast, LostIsReply
  <1> PICK q : q = [polls[p] EXCEPT !.pc = "answered", !.reply = reply]
    OBVIOUS
  <1>5. polls' = [polls EXCEPT ![p] = q]
    BY <1>3 DEF Inv, Typed
  <1>6. /\ q \in Requests /\ q.pc = "answered" /\ q.d = d /\ q.view = polls[p].view
        /\ q.reply = reply /\ q.inflight = polls[p].inflight
    BY <1>1, <1>4 DEF Requests, Stages
  <1>7. Views(q)
    BY <1>1, <1>6 DEF Views
  <1>8. Views(q)'
    BY <1>1, <1>7, Unmoved
  <1>9. Concludes(q)'
    BY <1>4, <1>6, PastStays, OnlyPoll, <1>1 DEF agentVars, Concludes
  <1>10. QED
    BY <1>1, <1>5, <1>6, <1>8, <1>9, OnlyPollMoves DEF PollOK, PollStages

(* An answer that settles nothing hands back the view it started from. *)
LEMMA PendingKeeps ==
  ASSUME Inv, NEW p \in Pollers, polls[p].pc # "idle", Answer(p, polls[p].view, TRUE),
         UNCHANGED <<records, local, preparing, pub, op, agentVars>>
  PROVE  Inv'
  <1>1. polls[p] \in Requests /\ Views(polls[p])
    BY PollIs DEF PollOK
  <1>2. polls[p].view \in Records \cup {Blank}
    BY <1>1 DEF Requests
  <1>3. PICK q \in Requests : AnswersWith(p, q, polls[p].view, TRUE)
    BY <1>2, AnswerIs
  <1>4. PollOK(q)'
    BY <1>3, <1>1, Unmoved DEF PollOK, AnswersWith, Views, Concludes, PollStages
  <1>5. QED
    BY <1>3, <1>4, OnlyPollMoves DEF AnswersWith

LEMMA PollPendingKeeps ==
  ASSUME Inv, NEW p \in Pollers, PollPending(p)
  PROVE  Inv'
  BY PendingKeeps DEF PollPending

LEMMA PollRollbackAgainKeeps ==
  ASSUME Inv, NEW p \in Pollers, PollRollbackAgain(p)
  PROVE  Inv'
  <1>1. /\ polls[p].pc = "answered" /\ polls[p] \in Requests /\ Views(polls[p])
        /\ polls[p].view.manual /\ polls[p].view.status = "unknown"
        /\ UNCHANGED <<records, local, preparing, pub, op, agentVars>>
    BY PollIs DEF PollRollbackAgain, RollbackUnconfirmed, PollOK
  <1> PICK q : q = [polls[p] EXCEPT !.pc = "rollback"]
    OBVIOUS
  <1>2. polls' = [polls EXCEPT ![p] = q]
    BY DEF PollRollbackAgain, Goto, Inv, Typed
  <1>3. q \in Requests /\ q.pc = "rollback" /\ q.d = polls[p].d /\ q.view = polls[p].view
    BY <1>1 DEF Requests, Stages
  <1>4. Views(q)
    BY <1>1, <1>3 DEF Views
  <1>5. Views(q)' /\ Concludes(q)'
    BY <1>1, <1>3, <1>4, Unmoved DEF Concludes
  <1>6. QED
    BY <1>1, <1>2, <1>3, <1>5, OnlyPollMoves DEF PollOK, PollStages

(* A status request that recorded an answer goes on with the record it left.     *)
LEMMA GoesOnWithRecord ==
  ASSUME Inv, Kept, DeviceStays, Apart, UNCHANGED <<preparing, pub, op>>,
         applied' \in Deployments \cup {None},
         NEW p \in Pollers, polls[p].pc # "idle",
         NEW r, r = deployments'[polls[p].d], Answer(p, r, FALSE),
         r.status = "ready" /\ Unvetted(polls[p].d) => journal[polls[p].d].status = "ready"
  PROVE  Inv'
  <1> PICK d : d = polls[p].d
    OBVIOUS
  <1>1. Views(polls[p]) /\ d \in Deployments /\ polls[p].pc \in PollStages
    BY PollIs DEF PollOK, Views
  <1>2. r \in Records \cup {Blank} /\ r # Blank
    BY <1>1 DEF Kept, Views
  <1>3. PICK q \in Requests : AnswersWith(p, q, r, FALSE)
    BY <1>2, AnswerIs
  <1>4. PollOK(q)'
    BY <1>3, <1>1, <1>2 DEF PollOK, AnswersWith, Kept, Views, UnknownReserved, RecordOK, Unvetted, DeviceStays,
       Concludes, PollStages
  <1>5. QED
    BY <1>3, <1>4, PollConcludes DEF AnswersWith

LEMMA FromAgentIs ==
  ASSUME NEW reply \in Replies
  PROVE  /\ FromAgent(reply).status = reply.status /\ FromAgent(reply).manual = reply.manual
         /\ FromAgent(reply).stamp = reply.stamp
         /\ reply.manual \in BOOLEAN /\ reply.stamp \in Nat
         /\ \A d : Past(d, reply) <=> Past(d, FromAgent(reply))
  BY DEF FromAgent, Replies, Past

LEMMA PollRecordKeeps ==
  ASSUME Inv, NEW p \in Pollers, PollRecord(p)
  PROVE  Inv'
  <1> PICK d : d = polls[p].d
    OBVIOUS
  <1> DEFINE reply == polls[p].reply
             r == deployments[d]
             j == journal[d]
  <1>1. /\ polls[p].pc = "answered" /\ polls[p] \in Requests /\ Views(polls[p]) /\ Concludes(polls[p])
        /\ d \in Deployments /\ reply \in Replies
        /\ UNCHANGED <<local, preparing, pub, op, agentVars, bounds>>
    BY PollIs DEF PollRecord, PollOK, Views, Requests
  <1>2. PICK u : /\ u = IF reply.kind = "missing" THEN Report("failed") ELSE FromAgent(reply)
                 /\ Record(d, u, "none") /\ Answer(p, deployments'[d], FALSE)
    BY DEF PollRecord
  <1>3. /\ Basis(d, u) /\ (d \notin preparing \/ j # NoJournal)
        /\ u.status = "ready" \/ u.stamp = 1 => reply.kind = "state" /\ reply.stamp <= 2
        /\ u.stamp = 0 \/ u.stamp > 0
    <2>1. CASE reply.kind = "missing" /\ ~polls[p].inflight /\ d \notin preparing
      BY <1>1, <1>2, <2>1 DEF Concludes, Report, Basis
    <2>2. CASE reply.kind = "state"
      BY <1>1, <1>2, <2>2, FromAgentIs DEF Concludes, Basis, Past
    <2>3. QED
      BY <2>1, <2>2 DEF PollRecord
  <1>4. u.status \in Status /\ u.manual \in BOOLEAN /\ u.stamp \in Nat
    BY <1>3, BasisReports
  <1>5. /\ latest' = latest /\ (\A e \in Deployments : e # d => deployments'[e] = deployments[e])
        /\ \/ UNCHANGED records
           \/ r \in Records /\ ~Refused(r, u, "none") /\ deployments'[d] = Recorded(r, u)
    BY <1>1, <1>2, <1>4, RecordEffect DEF Inv, Typed
  <1>6. DeviceStays /\ RequestEnds /\ UNCHANGED <<preparing, pub, op>>
    BY <1>1, <1>5 DEF DeviceStays, RequestEnds, local, agentVars
  <1>7. Kept /\ applied' \in Deployments \cup {None}
    BY <1>1, <1>2, <1>3, <1>6, RecordKeeps
  <1>8. Apart
    BY <1>3, <1>5 DEF Apart
  <1>9. ASSUME deployments'[d].status = "ready", Unvetted(d)
        PROVE  j.status = "ready"
    <2>1. RecordOK(d) /\ RecordOK(d)' /\ JournalOK(d) /\ j \in Journals
      BY <1>1, <1>7 DEF Kept, Inv, Typed
    <2>2. WasReady(d) /\ j # NoJournal
      BY <1>6, <1>9, <2>1 DEF RecordOK, WasReady, DeviceStays
    <2>3. reply.kind = "state" /\ reply.stamp <= 2
      <3>1. CASE r \in Records /\ deployments'[d] = Recorded(r, u)
        <4>1. u.status = "ready"
          BY <1>9, <3>1 DEF Recorded, Records
        <4>2. QED
          BY <1>3, <4>1
      <3>2. CASE UNCHANGED records
        <4>1. r.status = "ready" /\ r.stamp = 2 /\ r \in Records
          BY <1>1, <1>9, <2>1, <3>2, BlankIsNoRecord DEF RecordOK, records, Inv, Typed, TypeOK
        <4>2. ~r.manual
          BY <2>1, <4>1 DEF RecordOK
        <4>3. CASE Refused(r, u, "none")
          BY <4>1, <4>2, <4>3, BlankIsNoRecord, <1>3, <1>4 DEF Refused, Terminal
        <4>4. CASE ~Refused(r, u, "none")
          <5>1. deployments'[d] = Recorded(r, u)
            BY <1>1, <1>2, <4>4 DEF Record, Inv, Typed, TypeOK
          <5>2. u.status = "ready"
            BY <1>9, <4>1, <5>1 DEF Recorded, Records
          <5>3. QED
            BY <1>3, <5>2
        <4>5. QED
          BY <4>3, <4>4
      <3>3. QED
        BY <1>5, <3>1, <3>2
    <2>4. j.stamp <= 2
      BY <1>1, <1>9, <2>2, <2>3 DEF Concludes, WasReady
    <2>5. QED
      BY <2>1, <2>2, <2>4 DEF WasReady, Journals
  <1>10. PICK s : s = deployments'[d]
    OBVIOUS
  <1>11. QED
    BY <1>1, <1>2, <1>6, <1>7, <1>8, <1>9, <1>10, GoesOnWithRecord

LEMMA PollRolledBackKeeps ==
  ASSUME Inv, NEW p \in Pollers, PollRolledBack(p)
  PROVE  Inv'
  <1> PICK d : d = polls[p].d
    OBVIOUS
  <1> DEFINE reply == polls[p].reply
             r == deployments[d]
             j == journal[d]
  <1>1. /\ polls[p].pc = "rollbackAnswered" /\ polls[p] \in Requests
        /\ Views(polls[p]) /\ Concludes(polls[p])
        /\ d \in Deployments /\ reply \in Replies
        /\ UNCHANGED <<local, preparing, pub, op, agentVars, bounds>>
    BY PollIs DEF PollRolledBack, PollOK, Views, Requests
  <1>2. CASE reply.kind = "refused"
    <2>1. CancelManualRollback(d) /\ polls' = [polls EXCEPT ![p] = Idle]
      BY <1>2 DEF PollRolledBack, Return
    <2>2. journal[d].manual /\ journal[d] # NoJournal
      BY <1>1, <1>2 DEF Concludes, NoJournal
    <2>3. DeviceStays /\ RequestEnds /\ UNCHANGED <<preparing, pub, op>>
      BY <1>1, <2>1 DEF DeviceStays, RequestEnds, local, agentVars, CancelManualRollback
    <2>4. Kept /\ applied' \in Deployments \cup {None}
      BY <1>1, <2>1, <2>2, <2>3, CancelKeeps
    <2>5. Apart
      BY <1>1, <2>1, <2>2 DEF Apart, CancelManualRollback, Inv, Typed, TypeOK
    <2>6. QED
      BY <2>1, <2>3, <2>4, <2>5, IdleWaits, PollConcludes
  <1>3. CASE reply.kind = "state"
    <2>1. PICK u : u = FromAgent(reply) /\ Record(d, u, "none") /\ Answer(p, deployments'[d], FALSE)
      BY <1>3 DEF PollRolledBack
    <2>2. Past(d, u) /\ u.manual \in BOOLEAN /\ u.stamp \in Nat /\ u.manual
      BY <1>1, <1>3, <2>1, FromAgentIs DEF Concludes
    <2>3. Basis(d, u) /\ u.status \in Status
      BY <2>2, BasisReports DEF Basis
    <2>4. /\ latest' = latest /\ (\A e \in Deployments : e # d => deployments'[e] = deployments[e])
          /\ \/ UNCHANGED records
             \/ r \in Records /\ deployments'[d] = Recorded(r, u)
      BY <1>1, <2>1, <2>2, <2>3, RecordEffect DEF Inv, Typed
    <2>5. DeviceStays /\ RequestEnds /\ UNCHANGED <<preparing, pub, op>>
      BY <1>1, <2>4 DEF DeviceStays, RequestEnds, local, agentVars
    <2>6. Kept /\ applied' \in Deployments \cup {None}
      BY <1>1, <2>1, <2>3, <2>5, RecordKeeps
    <2>7. Apart
      BY <2>2, <2>4 DEF Apart, Past
    <2>8. deployments'[d].status # "ready"
      BY <2>2, <2>5, <1>1, <2>6 DEF Past, DeviceStays, Kept, RecordOK
    <2>9. PICK s : s = deployments'[d]
      OBVIOUS
    <2>10. QED
      BY <1>1, <2>1, <2>5, <2>6, <2>7, <2>8, <2>9, GoesOnWithRecord
  <1>4. CASE reply.kind \notin {"refused", "state"}
    BY <1>1, <1>4, PendingKeeps DEF PollRolledBack
  <1>5. QED
    BY <1>2, <1>3, <1>4

(* A candidate that was not vetted ends in a failure its journal will not refute. *)
LEMMA ExpireKeeps ==
  ASSUME Inv, NEW d \in Deployments, DeviceStays, RequestEnds, applied' = applied,
         deployments[d] # Blank, op' = op,
         deployments' = [deployments EXCEPT ![d].status = IF @ = "ready" THEN "failed" ELSE @],
         Unvetted(d), journal[d].status = "ready"
  PROVE  Kept /\ applied' \in Deployments \cup {None}
  <1> DEFINE r == deployments[d]
             s == deployments'[d]
  <1>1. r \in Records /\ RecordOK(d) /\ UnknownReserved(d) /\ JournalOK(d)
        /\ deployments \in [Deployments -> Records \cup {Blank}] /\ applied \in Deployments \cup {None}
    BY DEF Inv, Typed, TypeOK
  <1>2. /\ s = [r EXCEPT !.status = IF r.status = "ready" THEN "failed" ELSE r.status]
        /\ s \in Records /\ s # Blank /\ s.service = r.service /\ s.profile = r.profile
        /\ s.submitted = r.submitted /\ s.prepared = r.prepared /\ s.manual = r.manual
        /\ s.stamp = r.stamp
        /\ s.status = IF r.status = "ready" THEN "failed" ELSE r.status
    BY <1>1, BlankIsNoRecord DEF Records, Status, AgentStatus
  <1>3. deployments' \in [Deployments -> Records \cup {Blank}]
        /\ \A e \in Deployments : e # d => deployments'[e] = deployments[e]
    BY <1>1, <1>2
  <1>4. RecordOK(d)' /\ UnknownReserved(d)' /\ (Reserved(d) => Reserved(d)')
    BY <1>1, <1>2 DEF RecordOK, UnknownReserved, Reserved, Elsewhere, DeviceStays, Unvetted, WasReady
  <1>5. \A e \in Deployments : e # d =>
          RecordOK(e)' /\ UnknownReserved(e)' /\ (Reserved(e) => Reserved(e)')
    BY <1>3 DEF Inv, RecordOK, UnknownReserved, Reserved, Elsewhere, DeviceStays, WasReady
  <1>6. QED
    BY <1>1, <1>2, <1>3, <1>4, <1>5 DEF Kept, Terminal

LEMMA ActivateKeeps ==
  ASSUME Inv, NEW p \in Pollers, Activate(p)
  PROVE  Inv'
  <1> PICK d : d = polls[p].d
    OBVIOUS
  <1> DEFINE v == polls[p].view
  <1>1. /\ polls[p].pc = "activate" /\ polls[p] \in Requests
        /\ Views(polls[p]) /\ Concludes(polls[p]) /\ d \in Deployments
        /\ UNCHANGED <<local, preparing, pub, op, agentVars, bounds>>
    BY PollIs DEF Activate, PollOK, Views
  <1>2. CASE Return(p) /\ UNCHANGED records
    BY <1>1, <1>2, IdleWaits, OnlyPollMoves DEF Return
  <1>3. CASE /\ v.status = "ready" /\ Owned(v) /\ binding.service = "oxidns" /\ ~polls[p].inflight
             /\ d \notin receipts /\ Return(p)
             /\ deployments' = [deployments EXCEPT ![d].status = IF @ = "ready" THEN "failed" ELSE @]
             /\ UNCHANGED <<latest, applied>>
    <2>1. Unvetted(d) /\ journal[d].status = "ready" /\ journal[d] # NoJournal /\ deployments[d] # Blank
      BY <1>1, <1>3 DEF Unvetted, Owned, Views, Concludes
    <2>2. DeviceStays /\ RequestEnds /\ UNCHANGED <<preparing, pub, op>> /\ applied' = applied
      BY <1>1, <1>3 DEF DeviceStays, RequestEnds, local, agentVars
    <2>3. Kept /\ applied' \in Deployments \cup {None}
      BY <1>1, <1>3, <2>1, <2>2, ExpireKeeps
    <2>4. Apart
      BY <1>3, <2>1 DEF Apart, Inv, Typed, TypeOK
    <2>5. QED
      BY <1>3, <2>2, <2>3, <2>4, IdleWaits, PollConcludes DEF Return
  <1>4. CASE /\ v.status = "ready" /\ Owned(v) /\ (binding.service = "oxidns" => d \in receipts)
             /\ Goto(p, "activating") /\ UNCHANGED records
    <2> PICK q : q = [polls[p] EXCEPT !.pc = "activating"]
      OBVIOUS
    <2>1. polls' = [polls EXCEPT ![p] = q]
      BY <1>4 DEF Goto, Inv, Typed
    <2>2. q \in Requests /\ q.pc = "activating" /\ q.d = d /\ q.view = v
      BY <1>1 DEF Requests, Stages
    <2>3. Views(q)
      BY <1>1, <2>2 DEF Views
    <2>4. Views(q)'
      BY <1>1, <1>4, <2>3, Unmoved
    <2>5. journal'[d] # NoJournal /\ ~Unvetted(d)'
      BY <1>1, <1>4 DEF Views, Unvetted, Owned, records, local, agentVars
    <2>6. Concludes(q)'
      BY <2>2, <2>5 DEF Concludes
    <2>7. QED
      BY <1>1, <1>4, <2>1, <2>2, <2>4, <2>6, OnlyPollMoves DEF PollOK, PollStages
  <1>5. QED
    BY <1>2, <1>3, <1>4 DEF Activate

LEMMA ActivatedKeeps ==
  ASSUME Inv, NEW p \in Pollers, Activated(p)
  PROVE  Inv'
  <1> PICK d : d = polls[p].d
    OBVIOUS
  <1> DEFINE reply == polls[p].reply
  <1>1. /\ polls[p].pc = "activateAnswered" /\ polls[p] \in Requests /\ reply \in Replies
        /\ Views(polls[p]) /\ Concludes(polls[p]) /\ d \in Deployments /\ journal[d] # NoJournal
        /\ polls' = [polls EXCEPT ![p] = Idle]
        /\ UNCHANGED <<local, preparing, pub, op, agentVars, bounds>>
    BY PollIs DEF Activated, PollOK, Views, Concludes, Return, Requests
  <1>2. CASE UNCHANGED records
    BY <1>1, <1>2, IdleWaits, OnlyPollMoves
  <1>3. ASSUME NEW u, Record(d, u, "activation"), Basis(d, u)
        PROVE  Inv'
    BY <1>3, BasisReports, <1>1, RecordEffect, RecordKeeps, IdleWaits, PollConcludes DEF Inv, Typed, DeviceStays,
       RequestEnds, local, agentVars, Apart
  <1>4. CASE reply.kind = "lost"
    BY <1>4, <1>3 DEF Activated, Basis
  <1>5. CASE reply.kind = "state"
    BY <1>1, <1>5, FromAgentIs, <1>3 DEF Activated, Basis, Concludes
  <1>6. QED
    BY <1>2, <1>4, <1>5 DEF Activated

(* ------------------------------- the rollback ------------------------------ *)
LEMMA PublisherStays ==
  ASSUME Inv, Apart, UNCHANGED <<pub, preparing, journal>>,
         \A e \in Deployments : /\ deployments'[e] = Blank <=> deployments[e] = Blank
                                /\ deployments[e].submitted => deployments'[e].submitted
  PROVE  Publisher'
  BY DEF Inv, JournalOK, Apart, Publisher, Holding, Unsent, Past, WasReady

(* Nobody's request moves: each still believes what it did. *)
LEMMA AllWait ==
  ASSUME Inv, \A d \in Deployments : Steady(d), polls' = polls
  PROVE  polls' \in [Pollers -> Requests] /\ \A x \in Pollers : PollOK(polls[x])'
  BY BeliefStays DEF Inv, Typed

LEMMA ReserveRollbackKeeps ==
  ASSUME Inv, NEW d \in Deployments, ReserveRollback(d)
  PROVE  Inv'
  <1> DEFINE r == deployments[d]
             s == deployments'[d]
  <1>1. /\ r.status = "succeeded" /\ ~r.manual /\ latest = d /\ r.profile = binding.profile
        /\ ~upgrading /\ op.pc = "idle"
        /\ deployments' = [deployments EXCEPT ![d].status = "rolling_back", ![d].manual = TRUE]
        /\ op' = [Idle EXCEPT !.pc = "rollback", !.d = d]
        /\ UNCHANGED <<latest, applied, local, preparing, pub, polls, agentVars>>
    BY DEF ReserveRollback, Owned
  <1>2. /\ r \in Records /\ RecordOK(d) /\ JournalOK(d)
        /\ deployments \in [Deployments -> Records \cup {Blank}]
    BY <1>1, BlankIsNoRecord DEF Inv, Typed, TypeOK
  <1>3. /\ s = [r EXCEPT !.status = "rolling_back", !.manual = TRUE] /\ s \in Records
        /\ \A e \in Deployments : e # d => deployments'[e] = deployments[e]
        /\ deployments' \in [Deployments -> Records \cup {Blank}]
    BY <1>2, <1>1 DEF Records, Status, AgentStatus
  <1>4. /\ s.status = "rolling_back" /\ s.manual /\ s.submitted = r.submitted /\ s.prepared = r.prepared
        /\ s.service = r.service /\ s.profile = r.profile /\ s.stamp = r.stamp
        /\ s # Blank /\ r # Blank
    BY <1>2, <1>3, BlankIsNoRecord DEF Records
  <1>5. op' \in Requests /\ op'.pc = "rollback" /\ op'.d = d
    BY <1>1, IdleWaits DEF Requests, Stages
  <1>6. \A e \in Deployments : RecordOK(e)' /\ UnknownReserved(e)' /\ (Reserved(e) => Reserved(e)')
    BY <1>1, <1>2, <1>4, <1>3, <1>5 DEF RecordOK, UnknownReserved, Reserved, agentVars, local, Inv, Elsewhere,
       WasReady
  <1>7. \A e \in Deployments : Steady(e)
    BY <1>1, <1>3, <1>4, <1>6 DEF Steady, agentVars, local, WasReady, Unvetted
  <1>8. \A e \in Deployments : JournalOK(e)'
    BY <1>1, <1>3, <1>4 DEF Inv, JournalOK, agentVars
  <1>9. journal[d] # NoJournal
    BY <1>1, <1>2 DEF RecordOK
  <1>10. Publisher'
    <2>1. Apart
      BY <1>3, <1>9 DEF Apart
    <2>2. QED
      BY <1>1, <1>3, <1>4, <2>1, PublisherStays DEF agentVars
  <1>11. Operation'
    BY <1>1, <1>4, <1>5, <1>9 DEF Operation, agentVars
  <1>12. OneUnfinished'
    BY <1>1, <1>3, <1>4 DEF Inv, OneUnfinished, Unfinished, Open, Terminal, local
  <1>13. Single' /\ Stack'
    BY <1>1 DEF Inv, Single, Stack, Engaged, Serving, agentVars
  <1>14. Typed'
    BY <1>1, <1>3, <1>5 DEF Inv, Typed, TypeOK, local, agentVars
  <1>15. QED
    BY <1>1, <1>6, <1>7, <1>8, <1>10, <1>11, <1>12, <1>13, <1>14, AllWait DEF Inv

LEMMA RollbackAnsweredKeeps ==
  ASSUME Inv, RollbackAnswered
  PROVE  Inv'
  <1> PICK d : d = op.d
    OBVIOUS
  <1>1. /\ op.pc = "rollbackAnswered" /\ op.d = d /\ d \in Deployments /\ op.reply \in Replies
        /\ journal[d] # NoJournal /\ (journal[d].manual \/ deployments[d].manual)
        /\ (op.reply.kind = "state" => Past(d, op.reply))
        /\ op' = Idle /\ op'.pc = "idle" /\ op' \in Requests
        /\ UNCHANGED <<local, preparing, pub, polls, agentVars, bounds>>
    BY IdleWaits DEF RollbackAnswered, Inv, Typed, Operation, Requests
  <1>2. ASSUME NEW u, Record(d, u, "none"), Basis(d, u)
        PROVE  Kept /\ applied' \in Deployments \cup {None} /\ DeviceStays /\ Apart
    BY <1>2, BasisReports, <1>1, RecordEffect, RecordKeeps DEF Inv, Typed, DeviceStays, RequestEnds, local,
       agentVars, Apart
  <1>3. Kept /\ applied' \in Deployments \cup {None} /\ DeviceStays /\ Apart
    <2>1. CASE CancelManualRollback(d)
      <3>1. DeviceStays /\ RequestEnds
        BY <1>1, <2>1 DEF DeviceStays, RequestEnds, local, agentVars, CancelManualRollback
      <3>2. Kept /\ applied' \in Deployments \cup {None}
        <4>1. op' # op
          BY <1>1
        <4>2. QED
          BY <1>1, <2>1, <3>1, <4>1, CancelKeeps
      <3>3. Apart
        BY <1>1, <2>1 DEF Apart, CancelManualRollback, Inv, Typed, TypeOK
      <3>4. QED
        BY <3>1, <3>2, <3>3
    <2>2. CASE op.reply.kind = "state" /\ Record(d, FromAgent(op.reply), "none")
      BY <1>1, <2>2, FromAgentIs, <1>2 DEF Basis
    <2>3. CASE Record(d, [Report("unknown") EXCEPT !.manual = TRUE], "none")
      BY <1>1, <1>2, <2>3 DEF Basis
    <2>4. QED
      BY <1>1, <2>1, <2>2, <2>3 DEF RollbackAnswered
  <1>4. \A e \in Deployments : Steady(e) /\ JournalOK(e)'
    BY <1>1, <1>3, KeptIsSteady
  <1>5. OneUnfinished' /\ Single' /\ Stack'
    BY <1>1, <1>3, KeptIsSteady
  <1>6. Publisher'
    BY <1>1, <1>3, PublisherStays DEF Kept, agentVars
  <1>7. Operation'
    BY <1>1 DEF Operation
  <1>8. Typed'
    BY <1>1, <1>3 DEF Inv, Typed, TypeOK, Kept, DeviceStays
  <1>9. QED
    BY <1>1, <1>3, <1>4, <1>5, <1>6, <1>7, <1>8, AllWait DEF Inv, Kept

(* ----------------------------- the other owners ---------------------------- *)
LEMMA RebindKeeps ==
  ASSUME Inv, Rebind
  PROVE  Inv'
  <1>1. /\ ~upgrading /\ (binding'.profile # binding.profile => Unfinished = {})
        /\ binding' \in [profile : Profiles, service : Services]
        /\ UNCHANGED <<records, upgrading, receipts, preparing, requests, agentVars>>
    BY DEF Rebind
  <1>2. Typed'
    BY <1>1 DEF Inv, Typed, TypeOK, records, requests, agentVars
  <1>3. Publisher' /\ Single' /\ Stack' /\ Operation'
    BY <1>1 DEF Inv, Publisher, Single, Engaged, Stack, Serving, Operation, Past, WasReady,
                records, requests, agentVars
  <1>4. \A d \in Deployments : JournalOK(d)' /\ RecordOK(d)' /\ UnknownReserved(d)' /\ Steady(d)
    BY <1>1 DEF Inv, JournalOK, RecordOK, UnknownReserved, Reserved, Elsewhere, Steady, WasReady,
                Unvetted, records, requests, agentVars
  <1>5. OneUnfinished'
    BY <1>1 DEF Inv, OneUnfinished, Unfinished, Open, records
  <1>6. QED
    BY <1>1, <1>2, <1>3, <1>4, <1>5, AllWait DEF Inv, requests

LEMMA UpgradeKeeps ==
  ASSUME Inv, ReserveUpgrade \/ FinishUpgrade
  PROVE  Inv'
  <1>1. /\ upgrading' \in BOOLEAN
        /\ UNCHANGED <<records, binding, receipts, preparing, requests, agentVars>>
    BY DEF ReserveUpgrade, FinishUpgrade
  <1>2. Typed'
    BY <1>1 DEF Inv, Typed, TypeOK, records, requests, agentVars
  <1>3. Publisher' /\ Single' /\ Stack' /\ Operation'
    BY <1>1 DEF Inv, Publisher, Single, Engaged, Stack, Serving, Operation, Past, WasReady,
                records, requests, agentVars
  <1>4. \A d \in Deployments : JournalOK(d)' /\ RecordOK(d)' /\ UnknownReserved(d)' /\ Steady(d)
    BY <1>1 DEF Inv, JournalOK, RecordOK, UnknownReserved, Reserved, Elsewhere, Steady, WasReady,
                Unvetted, records, requests, agentVars
  <1>5. OneUnfinished'
    BY <1>1, PriorIsNoDeployment DEF Inv, OneUnfinished, Unfinished, Open, records, FinishUpgrade, ReserveUpgrade
  <1>6. QED
    BY <1>1, <1>2, <1>3, <1>4, <1>5, AllWait DEF Inv, requests

LEMMA CrashKeeps ==
  ASSUME Inv, Crash
  PROVE  Inv'
  <1>1. /\ pub' = Idle /\ op' = Idle /\ polls' = [p \in Pollers |-> Idle] /\ preparing' = {}
        /\ receipts' \subseteq receipts /\ Idle \in Requests /\ Idle.pc = "idle"
        /\ UNCHANGED <<records, binding, upgrading, agentVars>>
    BY IdleWaits DEF Crash
  <1>2. Typed'
    BY <1>1 DEF Inv, Typed, TypeOK, records, agentVars
  <1>3. Publisher' /\ Single' /\ Stack' /\ Operation' /\ OneUnfinished'
    BY <1>1 DEF Inv, Publisher, Holding, Unsent, Single, Engaged, Stack, Serving, Operation,
                OneUnfinished, Unfinished, Open, records, agentVars
  <1>4. \A d \in Deployments : JournalOK(d)' /\ RecordOK(d)' /\ UnknownReserved(d)'
    BY <1>1 DEF Inv, JournalOK, RecordOK, UnknownReserved, Reserved, Elsewhere, WasReady,
                records, agentVars
  <1>5. \A x \in Pollers : PollOK(polls[x])'
    BY <1>1 DEF PollOK
  <1>6. QED
    BY <1>2, <1>3, <1>4, <1>5 DEF Inv

(* ------------------------------ the publication ----------------------------- *)
LEMMA PublicationKeeps ==
  ASSUME Inv, Kept, DeviceStays, UNCHANGED <<op, polls>>, applied' \in Deployments \cup {None},
         pub' \in Requests, Publisher', \A e \in preparing' : e \in preparing
  PROVE  Inv'
  BY KeptIsSteady, AllWait DEF Inv, Typed, TypeOK, Kept, DeviceStays, Publisher

(* A step of the publication that touches no record. *)
LEMMA PublicationMoves ==
  ASSUME Inv, UNCHANGED <<records, local, polls, op, agentVars>>,
         pub' \in Requests, Publisher', \A e \in preparing' : e \in preparing
  PROVE  Inv'
  BY KeptWithoutChange, PublicationKeeps DEF DeviceStays, records, local, agentVars, Inv, Typed, TypeOK

LEMMA SnapshotKeeps ==
  ASSUME Inv, NEW d \in Deployments, Snapshot(d)
  PROVE  Inv'
  <1>1. /\ pub.pc = "idle" /\ deployments[d] = Blank /\ binding \in Bindings
        /\ pub' = [Idle EXCEPT !.pc = "snapshot", !.d = d, !.binding = binding]
        /\ UNCHANGED <<records, local, preparing, polls, op, agentVars>>
    BY DEF Snapshot, Exists, Inv, Typed, TypeOK, Bindings
  <1>2. pub' \in Requests /\ pub'.pc = "snapshot" /\ pub'.d = d
    BY <1>1, IdleWaits DEF Requests, Stages
  <1>3. Publisher'
    BY <1>1, <1>2 DEF Publisher, Holding, Unsent, Inv, records
  <1>4. QED
    BY <1>1, <1>2, <1>3, PublicationMoves

LEMMA BeginKeeps ==
  ASSUME Inv, Begin
  PROVE  Inv'
  <1> PICK d : d = pub.d
    OBVIOUS
  <1>1. /\ pub.pc = "snapshot" /\ d \in Deployments /\ deployments[d] = Blank /\ preparing = {}
        /\ pub \in Requests /\ UNCHANGED <<local, polls, op, agentVars>>
    BY DEF Begin, Inv, Typed, Publisher, Holding
  <1>2. CASE pub' = Idle /\ UNCHANGED <<records, preparing>>
    BY <1>2, IdleWaits, <1>1, PublicationMoves DEF Publisher, Holding, Unsent
  <1>3. CASE /\ ~upgrading /\ Unfinished = {}
             /\ deployments' = [deployments EXCEPT ![d] = Fresh(binding)]
             /\ latest' = d /\ preparing' = preparing \cup {d}
             /\ pub' = [pub EXCEPT !.pc = "prepare"] /\ applied' = applied
    <2>1. /\ Fresh(binding) \in Records /\ Fresh(binding).status = "preparing"
          /\ ~Fresh(binding).submitted /\ ~Fresh(binding).manual /\ Fresh(binding).stamp = 0
          /\ Fresh(binding).profile = binding.profile
      BY DEF Fresh, Blank, Records, Status, Inv, Typed, TypeOK
    <2>2. /\ deployments' \in [Deployments -> Records \cup {Blank}] /\ deployments'[d] = Fresh(binding)
          /\ deployments'[d] # Blank
          /\ \A e \in Deployments : e # d => deployments'[e] = deployments[e]
      BY <1>1, <1>3, <2>1, BlankIsNoRecord DEF Inv, Typed, TypeOK
    <2>3. journal[d] = NoJournal /\ ~journal[d].manual /\ journal[d].status = "none"
      <3> JournalOK(d)
        BY <1>1 DEF Inv
      <3> QED
        BY <1>1, BlankIsNoRecord DEF JournalOK, NoJournal
    <2>4. \A e \in Deployments : Steady(e)
      BY <1>1, <1>3, <2>1, <2>2, BlankIsNoRecord DEF Steady, local, agentVars, WasReady, Unvetted,
         Reserved, Elsewhere
    <2>5. RecordOK(d)' /\ UnknownReserved(d)' /\ JournalOK(d)'
      BY <1>1, <1>3, <2>1, <2>2, <2>3 DEF RecordOK, UnknownReserved, JournalOK, agentVars
    <2>6. ASSUME NEW e \in Deployments, e # d
          PROVE  RecordOK(e)' /\ UnknownReserved(e)' /\ JournalOK(e)'
      <3>1. /\ deployments'[e] = deployments[e] /\ RecordOK(e) /\ UnknownReserved(e) /\ JournalOK(e)
            /\ (deployments[e] = Blank \/ deployments[e].status \in Terminal)
        BY <1>3, <2>2, <2>6 DEF Inv, Unfinished, Open
      <3>2. deployments[e].manual => journal[e].manual
        BY <3>1, BlankIsNoRecord DEF RecordOK, Terminal
      <3>3. QED
        BY <1>1, <1>3, <2>6, <3>1, <3>2 DEF RecordOK, UnknownReserved, Reserved, Elsewhere, JournalOK,
           agentVars, local, WasReady
    <2>7. pub' \in Requests /\ pub'.pc = "prepare" /\ pub'.d = d
      BY <1>1, <1>3 DEF Requests, Stages
    <2>8. Publisher'
      BY <1>1, <1>3, <2>1, <2>2, <2>7 DEF Publisher, Holding, Unsent
    <2>9. Operation'
      BY <2>3, <1>1, <2>2 DEF Inv, Operation, agentVars, Past, WasReady
    <2>10. OneUnfinished'
      BY <1>3, <2>2, <1>1, <2>1 DEF Unfinished, Open, OneUnfinished, local
    <2>11. Single' /\ Stack'
      BY <1>1 DEF Inv, Single, Stack, Engaged, Serving, agentVars
    <2>12. Typed'
      BY <1>1, <1>3, <2>2, <2>7 DEF Inv, Typed, TypeOK, local, agentVars
    <2>13. QED
      BY <1>1, <2>4, <2>5, <2>6, <2>8, <2>9, <2>10, <2>11, <2>12, AllWait DEF Inv
  <1>4. QED
    BY <1>2, <1>3 DEF Begin

LEMMA PrepareFailsKeeps ==
  ASSUME Inv, PrepareFails
  PROVE  Inv'
  <1> PICK d : d = pub.d
    OBVIOUS
  <1>1. /\ pub.pc \in {"prepare", "remember"} /\ d \in Deployments /\ preparing = {d}
        /\ ~deployments[d].submitted
        /\ Record(d, Report("failed"), "none") /\ preparing' = {}
        /\ pub' = Idle /\ pub' \in Requests /\ pub'.pc = "idle"
        /\ UNCHANGED <<local, polls, op, agentVars>>
    BY IdleWaits DEF PrepareFails, Inv, Publisher, Holding, Unsent
  <1>2. Basis(d, Report("failed"))
    BY <1>1 DEF Basis, Inv, JournalOK
  <1>3. latest' = latest
    BY <1>1 DEF Record, records
  <1>4. DeviceStays /\ RequestEnds
    BY <1>1, <1>3 DEF DeviceStays, RequestEnds, local, agentVars
  <1>5. Kept /\ applied' \in Deployments \cup {None}
    BY <1>1, <1>2, <1>4, RecordKeeps
  <1>6. Publisher'
    BY <1>1 DEF Publisher, Holding, Unsent
  <1>7. QED
    BY <1>1, <1>4, <1>5, <1>6, PublicationKeeps

LEMMA PreparedKeeps ==
  ASSUME Inv, Prepared
  PROVE  Inv'
  BY PublicationMoves DEF Prepared, Inv, Typed, Requests, Stages, Publisher, Holding, Unsent, records

LEMMA RememberKeeps ==
  ASSUME Inv, Remember
  PROVE  Inv'
  <1> PICK d : d = pub.d
    OBVIOUS
  <1> DEFINE r == deployments[d]
             s == deployments'[d]
  <1>1. /\ pub.pc = "remember" /\ d \in Deployments /\ preparing = {d} /\ pub \in Requests
        /\ r.status = "preparing" /\ ~r.submitted /\ ~r.manual /\ r.stamp = 0
        /\ deployments' = [deployments EXCEPT ![d].prepared = TRUE]
        /\ receipts' \in {receipts, receipts \cup {d}}
        /\ pub' = [pub EXCEPT !.pc = "upload"]
        /\ UNCHANGED <<latest, applied, binding, upgrading, preparing, polls, op, agentVars>>
    BY DEF Remember, Inv, Typed, Publisher, Holding, Unsent
  <1>2. r \in Records /\ deployments \in [Deployments -> Records \cup {Blank}]
    BY <1>1, BlankIsNoRecord DEF Inv, Typed, TypeOK
  <1>3. /\ s = [r EXCEPT !.prepared = TRUE] /\ s \in Records
        /\ \A e \in Deployments : e # d => deployments'[e] = deployments[e]
        /\ deployments' \in [Deployments -> Records \cup {Blank}]
    BY <1>2, <1>1 DEF Records
  <1>4. /\ s.status = r.status /\ s.manual = r.manual /\ s.submitted = r.submitted /\ s.prepared
        /\ s.service = r.service /\ s.profile = r.profile /\ s.stamp = r.stamp
        /\ s # Blank /\ r # Blank
    BY <1>2, <1>3, BlankIsNoRecord DEF Records
  <1>5. journal[d] = NoJournal /\ journal[d].status = "none" /\ ~journal[d].manual
    <2> JournalOK(d)
      BY <1>1 DEF Inv
    <2> QED
      BY <1>1 DEF JournalOK, NoJournal
  <1>6. \A e \in Deployments : Steady(e)
    BY <1>1, <1>3, <1>4 DEF Steady, agentVars, WasReady, Unvetted, Reserved, Elsewhere
  <1>7. RecordOK(d)' /\ UnknownReserved(d)' /\ JournalOK(d)'
    BY <1>1, <1>4, <1>5 DEF RecordOK, UnknownReserved, JournalOK, agentVars
  <1>8. \A e \in Deployments : e # d => RecordOK(e)' /\ UnknownReserved(e)' /\ JournalOK(e)'
    BY <1>1, <1>3 DEF Inv, RecordOK, UnknownReserved, Reserved, Elsewhere, JournalOK, agentVars, WasReady
  <1>9. pub' \in Requests /\ pub'.pc = "upload" /\ pub'.d = d
    BY <1>1 DEF Requests, Stages
  <1>10. Publisher'
    BY <1>1, <1>4, <1>9 DEF Publisher, Holding, Unsent
  <1>11. Operation'
    BY <1>1, <1>3, <1>4 DEF Inv, Operation, agentVars, Past, WasReady
  <1>12. OneUnfinished'
    BY <1>1, <1>3, <1>4 DEF Inv, OneUnfinished, Unfinished, Open
  <1>13. Single' /\ Stack'
    BY <1>1 DEF Inv, Single, Stack, Engaged, Serving, agentVars
  <1>14. Typed'
    BY <1>1, <1>3, <1>9 DEF Inv, Typed, TypeOK, agentVars
  <1>15. QED
    BY <1>1, <1>6, <1>7, <1>8, <1>10, <1>11, <1>12, <1>13, <1>14, AllWait DEF Inv

LEMMA SubmitKeeps ==
  ASSUME Inv, Submit
  PROVE  Inv'
  <1> PICK d : d = pub.d
    OBVIOUS
  <1> DEFINE r == deployments[d]
             s == deployments'[d]
  <1>1. /\ pub.pc = "upload" /\ d \in Deployments /\ preparing = {d} /\ pub \in Requests
        /\ r.status = "preparing" /\ ~r.submitted /\ ~r.manual /\ r.stamp = 0 /\ r.prepared
        /\ UNCHANGED <<latest, applied, local, preparing, polls, op, agentVars>>
    BY DEF Submit, Inv, Typed, Publisher, Holding, Unsent
  <1>2. r \in Records /\ deployments \in [Deployments -> Records \cup {Blank}]
    BY <1>1, BlankIsNoRecord DEF Inv, Typed, TypeOK
  <1>3. deployments' = [deployments EXCEPT ![d] = [r EXCEPT !.status = "uploading", !.submitted = TRUE]]
    <2>1. ~Refused(r, Report("uploading"), "none")
      BY <1>1, <1>2, BlankIsNoRecord DEF Refused, Report, Terminal
    <2>2. QED
      BY <1>1, <2>1 DEF Submit
  <1>4. /\ s = [r EXCEPT !.status = "uploading", !.submitted = TRUE] /\ s \in Records
        /\ \A e \in Deployments : e # d => deployments'[e] = deployments[e]
        /\ deployments' \in [Deployments -> Records \cup {Blank}]
    BY <1>2, <1>1, <1>3 DEF Records, Status
  <1>5. /\ s.status = "uploading" /\ s.manual = r.manual /\ s.submitted /\ s.prepared
        /\ s.service = r.service /\ s.profile = r.profile /\ s.stamp = r.stamp
        /\ s # Blank /\ r # Blank
    BY <1>1, <1>2, <1>4, BlankIsNoRecord DEF Records
  <1>6. journal[d] = NoJournal /\ journal[d].status = "none" /\ ~journal[d].manual
    <2> JournalOK(d)
      BY <1>1 DEF Inv
    <2> QED
      BY <1>1 DEF JournalOK, NoJournal
  <1>7. DeviceStays
    BY <1>1 DEF DeviceStays, local, agentVars
  <1>8. Kept
    <2>1. RecordOK(d)' /\ UnknownReserved(d)' /\ (Reserved(d) => Reserved(d)')
      BY <1>1, <1>5, <1>6, <1>7 DEF RecordOK, UnknownReserved, Reserved, DeviceStays
    <2>2. \A e \in Deployments : e # d =>
            RecordOK(e)' /\ UnknownReserved(e)' /\ (Reserved(e) => Reserved(e)')
      BY <1>1, <1>4, <1>7 DEF Inv, RecordOK, UnknownReserved, Reserved, Elsewhere, DeviceStays, WasReady
    <2>3. QED
      BY <1>1, <1>4, <1>5, <2>1, <2>2 DEF Kept, Terminal
  <1>9. pub' \in Requests /\ pub'.pc = "post" /\ pub'.d = d
    BY <1>1 DEF Submit, Requests, Stages
  <1>10. Publisher'
    BY <1>1, <1>5, <1>6, <1>7, <1>9 DEF Publisher, Holding, Unsent, DeviceStays
  <1>11. QED
    BY <1>1, <1>7, <1>8, <1>9, <1>10, PublicationKeeps DEF Inv, Typed, TypeOK

LEMMA UploadAnsweredKeeps ==
  ASSUME Inv, UploadAnswered
  PROVE  Inv'
  <1> PICK d : d = pub.d
    OBVIOUS
  <1>1. /\ pub.pc = "answered" /\ d \in Deployments /\ preparing = {d} /\ pub \in Requests
        /\ pub.reply \in Replies /\ pub.reply.kind \in {"lost", "refused", "state"}
        /\ pub.reply.kind = "refused" => journal[d] = NoJournal
        /\ pub.reply.kind = "state" => Past(d, pub.reply)
        /\ deployments[d] # Blank /\ deployments[d].submitted
        /\ pub' = [pub EXCEPT !.pc = "finish"]
        /\ UNCHANGED <<local, preparing, polls, op, agentVars>>
    BY DEF UploadAnswered, Inv, Typed, Publisher, Holding, Requests
  <1>2. PICK u : Record(d, u, "upload") /\ Basis(d, u)
    BY <1>1, FromAgentIs DEF UploadAnswered, Basis
  <1>3. latest' = latest
    BY <1>2 DEF Record, records
  <1>4. DeviceStays /\ RequestEnds
    BY <1>1, <1>3 DEF DeviceStays, RequestEnds, local, agentVars
  <1>5. Kept /\ applied' \in Deployments \cup {None}
    BY <1>1, <1>2, <1>4, RecordKeeps
  <1>6. pub' \in Requests /\ pub'.pc = "finish" /\ pub'.d = d
    BY <1>1 DEF Requests, Stages
  <1>7. Publisher'
    BY <1>1, <1>5, <1>6 DEF Publisher, Holding, Unsent, Kept
  <1>8. QED
    BY <1>1, <1>4, <1>5, <1>6, <1>7, PublicationKeeps

LEMMA FinishPreparationKeeps ==
  ASSUME Inv, FinishPreparation
  PROVE  Inv'
  BY IdleWaits, PublicationMoves DEF FinishPreparation, Inv, Publisher, Holding, Unsent

(* -------------------------------- the Agent -------------------------------- *)
(* How the Agent moves a journal on: one step of its task, with its stamp.        *)
Moves(d, j) ==
  /\ j.auto = journal[d].auto /\ j.stamp = journal[d].stamp + 1
  /\ \/ /\ journal[d].status = "receiving" /\ j.manual = journal[d].manual
        /\ j.status = "failed" \/ j.status = (IF journal[d].auto THEN "starting" ELSE "ready")
     \/ /\ journal[d].status = "ready" /\ j.manual = journal[d].manual
        /\ j.status = "starting" /\ ~Unvetted(d)
     \/ /\ journal[d].status = "starting" /\ j.manual = journal[d].manual
        /\ j.status \in {"succeeded", "failed", "rolled_back", "rollback_failed"}
     \/ /\ journal[d].status = "succeeded" /\ j.status = "rolling_back" /\ j.manual
        /\ deployments[d].manual \/ deployments[d].status = "succeeded"
     \/ /\ journal[d].status = "rolling_back" /\ j.manual = journal[d].manual
        /\ j.status \in {"rolled_back", "rollback_failed"}
     \/ /\ journal[d].status = "rollback_failed" /\ j.manual = journal[d].manual
        /\ j.status = "rolled_back"

(* The upload arrived: the journal is created.                                    *)
Receives(d, j) ==
  /\ pub.pc = "post" /\ pub.d = d
  /\ j.status = "receiving" /\ j.stamp = 1 /\ ~j.manual

(* The journal of d becomes j. *)
Writes(d, j) == journal' = [journal EXCEPT ![d] = j] /\ (Moves(d, j) \/ Receives(d, j))
SameOperation == op'.d = op.d /\ (op'.pc = "idle" <=> op.pc = "idle")

LEMMA WrittenIsSteady ==
  ASSUME Inv, UNCHANGED <<records, local, preparing>>, SameOperation,
         NEW d \in Deployments, NEW j \in Journals, Writes(d, j)
  PROVE  /\ \A e \in Deployments : Steady(e) /\ JournalOK(e)'
         /\ journal' \in [Deployments -> Journals] /\ journal'[d] = j
         /\ \A e \in Deployments : e # d => journal'[e] = journal[e]
         /\ j # NoJournal /\ j.status # "none"
  <1>1. /\ journal' \in [Deployments -> Journals] /\ journal'[d] = j
        /\ \A e \in Deployments : e # d => journal'[e] = journal[e]
        /\ journal[d] \in Journals
    BY DEF Inv, Typed, Writes
  <1>2. \A e \in Deployments : e # d => Steady(e) /\ JournalOK(e)'
    BY <1>1 DEF Inv, records, local, Steady, JournalOK, WasReady, Unvetted, Reserved, Elsewhere, SameOperation
  <1>3. JournalOK(d) /\ deployments' = deployments /\ receipts' = receipts /\ preparing' = preparing
    BY DEF Inv, records, local
  <1>4. CASE Moves(d, j)
    <2>1. journal[d] # NoJournal /\ j # NoJournal /\ j.status # "none" /\ journal[d].status # "none"
      BY <1>1, <1>4 DEF Moves, NoJournal
    <2>2. JournalOK(d)'
      BY <1>1, <1>3, <1>4, <2>1 DEF Moves, JournalOK, Journals, AgentStatus
    <2>3. Steady(d)
      BY <1>1, <1>3, <1>4, <2>1 DEF Moves, JournalOK, Journals, Steady, WasReady, Unvetted, Reserved, Elsewhere, SameOperation
    <2>4. QED
      BY <1>1, <1>2, <2>1, <2>2, <2>3
  <1>5. CASE Receives(d, j)
    <2>1. /\ journal[d] = NoJournal /\ d \in preparing /\ deployments[d] # Blank /\ deployments[d].submitted
          /\ j # NoJournal
      BY <1>5, BlankIsNoRecord DEF Inv, Publisher, Holding, Receives, NoJournal
    <2>2. JournalOK(d)'
      BY <1>1, <1>3, <1>5, <2>1 DEF Receives, JournalOK
    <2>3. /\ journal[d].status = "none" /\ ~journal[d].manual /\ journal[d].stamp = 0
      BY <2>1 DEF NoJournal
    <2>4. Steady(d)
      BY <1>1, <1>3, <2>1, <2>3 DEF Steady, WasReady, Unvetted, Reserved, Elsewhere, SameOperation
    <2>5. QED
      BY <1>1, <1>2, <1>5, <2>1, <2>2, <2>4 DEF Receives
  <1>6. QED
    BY <1>4, <1>5 DEF Writes

(* What the records say of the journals, when what is served still follows.       *)
LEMMA RecordsHold ==
  ASSUME Inv, UNCHANGED <<records, local, preparing>>, SameOperation,
         NEW d \in Deployments, NEW j \in Journals, Writes(d, j),
         \A e \in Deployments : journal'[e].status = "succeeded" /\ latest = e => live' = e
  PROVE  \A e \in Deployments : RecordOK(e)' /\ UnknownReserved(e)'
  <1>1. /\ \A e \in Deployments : Steady(e) /\ JournalOK(e)'
        /\ journal'[d] = j /\ j # NoJournal
        /\ \A e \in Deployments : e # d => journal'[e] = journal[e]
    BY WrittenIsSteady
  <1>2. deployments' = deployments /\ latest' = latest /\ receipts' = receipts
    BY DEF records, local
  <1>3. \A e \in Deployments : UnknownReserved(e)'
    BY <1>1, <1>2 DEF Inv, UnknownReserved, Steady
  <1>4. \A e \in Deployments : e # d => RecordOK(e)'
    BY <1>1, <1>2 DEF Inv, RecordOK, WasReady
  <1>5. RecordOK(d) /\ JournalOK(d) /\ journal[d] \in Journals /\ deployments[d] \in Records \cup {Blank}
    BY DEF Inv, Typed, TypeOK
  <1>6. ASSUME Moves(d, j)
        PROVE  RecordOK(d)'
    BY <1>1, <1>6, <1>5, <1>2 DEF Moves, RecordOK, Unvetted, JournalOK, Steady
  <1>7. ASSUME Receives(d, j)
        PROVE  RecordOK(d)'
    BY <1>7, <1>5, <1>1, <1>2 DEF Inv, Publisher, Receives, NoJournal, RecordOK
  <1>8. QED
    BY <1>3, <1>4, <1>6, <1>7 DEF Writes

(* A step of the Agent, with the request it answers. *)
LEMMA AgentMoves ==
  ASSUME Inv, UNCHANGED <<records, local, preparing>>,
         journal' \in [Deployments -> Journals], live' \in Deployments \cup {Prior},
         pub' \in Requests, op' \in Requests, polls' \in [Pollers -> Requests],
         \A e \in Deployments : JournalOK(e)' /\ RecordOK(e)' /\ UnknownReserved(e)',
         \A x \in Pollers : PollOK(polls[x])',
         Single', Stack', Publisher', Operation'
  PROVE  Inv'
  BY DEF Inv, Typed, TypeOK, records, local, OneUnfinished, Unfinished, Open

(* The publication and the rollback that wait for an answer.                      *)
LEMMA WaitingStays ==
  ASSUME Inv, UNCHANGED <<records, local, preparing>>, SameOperation,
         NEW d \in Deployments, NEW j \in Journals, Writes(d, j)
  PROVE  /\ Moves(d, j) /\ pub' = pub => Publisher'
         /\ op' = op => Operation'
  <1>1. /\ \A e \in Deployments : Steady(e)
        /\ \A e \in Deployments : e # d => journal'[e] = journal[e]
    BY WrittenIsSteady
  <1>2. \A e \in Deployments : \A u : Past(e, u) => Past(e, u)'
    BY <1>1, PastStays
  <1>3. ASSUME Moves(d, j), pub' = pub
        PROVE  Publisher'
    <2>1. journal[d] # NoJournal
      BY <1>3 DEF Moves, NoJournal
    <2>2. \A e \in Deployments : journal[e] = NoJournal => journal'[e] = NoJournal
      BY <1>1, <2>1
    <2>3. \A e \in Deployments : journal[e] # NoJournal => journal'[e] # NoJournal
      BY <1>1 DEF Steady
    <2>4. deployments' = deployments /\ preparing' = preparing
      BY DEF records
    <2>5. Publisher
      BY DEF Inv
    <2> USE <1>2, <1>3, <2>2, <2>3, <2>4, <2>5
    <2>6. pub.pc = "answered" =>
            /\ pub.reply.kind = "refused" => journal'[pub.d] = NoJournal
            /\ pub.reply.kind = "state" => Past(pub.d, pub.reply)'
      BY DEF Publisher
    <2>7. QED
      BY <2>6 DEF Publisher
  <1>4. ASSUME op' = op
        PROVE  Operation'
    BY <1>1, <1>2, <1>4 DEF Inv, Operation, records, Steady
  <1>5. QED
    BY <1>3, <1>4

(* What the Agent works at, and what it serves. *)
LEMMA SingleStays ==
  ASSUME Inv, NEW d \in Deployments, NEW j \in Journals, journal' = [journal EXCEPT ![d] = j],
         Engaged(d) \/ \A e \in Deployments : ~Engaged(e)
  PROVE  Single'
  BY DEF Inv, Typed, Single, Engaged

(* Beside a task that is going on, whatever is served has simply succeeded.       *)
LEMMA OthersSucceeded ==
  ASSUME Inv, NEW d \in Deployments, Engaged(d), NEW e \in Deployments, e # d, Serving(e)
  PROVE  journal[e].status = "succeeded"
  BY DEF Inv, Single, Engaged, Serving

LEMMA StackStays ==
  ASSUME Inv, NEW d \in Deployments, NEW j \in Journals, journal' = [journal EXCEPT ![d] = j],
         live' = live,
         \/ ~Serving(d) /\ ~Serving(d)'
         \/ Serving(d) /\ Serving(d)' /\ live = d /\ j.previous = journal[d].previous
  PROVE  Stack'
  BY DEF Inv, Typed, Serving, Stack, TypeOK, Journals

(* A start that succeeded is on top of what was served. *)
LEMMA StackGrows ==
  ASSUME Inv, NEW d \in Deployments, NEW j \in Journals, journal' = [journal EXCEPT ![d] = j],
         journal[d].status = "starting", j.status = "succeeded", j.previous = live, live' = d
  PROVE  Stack'
  <1>1. journal'[d] = j /\ \A e \in Deployments : e # d => journal'[e] = journal[e]
    BY DEF Inv, Typed
  <1>2. Engaged(d) /\ ~Serving(d) /\ Serving(d)'
    BY <1>1 DEF Engaged, Serving
  <1>3. \A e \in Deployments : e # d => (Serving(e) <=> Serving(e)')
    BY <1>1 DEF Serving
  <1>4. \A e \in Deployments : Serving(e) => journal'[e].status = "succeeded"
    BY <1>1, <1>2, OthersSucceeded
  <1>5. live \in Deployments \cup {Prior} /\ live # d /\ (live # Prior => Serving(live))
    BY <1>2, PriorIsNoDeployment DEF Inv, Typed, TypeOK, Stack
  <1>6. \A e \in Deployments : Serving(e) =>
          /\ journal[e].previous # live /\ journal[e].previous # e
          /\ journal[e].previous # Prior => Serving(journal[e].previous)
          /\ journal[e].previous # d
    BY <1>2, PriorIsNoDeployment DEF Inv, Stack
  <1>7. \A e, f \in Deployments : Serving(e) /\ Serving(f) /\ e # f => journal[e].previous # journal[f].previous
    BY DEF Inv, Stack
  <1>8. \A e \in Deployments : journal[e].previous \in Deployments \cup {Prior}
    BY DEF Inv, Typed, Journals
  <1>9. \A e \in Deployments : Serving(e)' =>
          /\ journal'[e].status # "succeeded" => live' = e
          /\ journal'[e].previous # live' /\ journal'[e].previous # e
          /\ \A q \in Deployments : q = journal'[e].previous => Serving(q)'
          /\ journal'[e].previous \in Deployments \cup {Prior}
    <2> TAKE e \in Deployments
    <2>1. CASE e = d
      BY <1>1, <1>2, <1>3, <1>5, <2>1, PriorIsNoDeployment
    <2>2. CASE e # d
      BY <1>1, <1>2, <1>3, <1>4, <1>6, <1>8, <2>2, PriorIsNoDeployment
    <2>3. QED
      BY <2>1, <2>2
  <1>10. \A e, f \in Deployments : Serving(e)' /\ Serving(f)' /\ e # f
           => journal'[e].previous # journal'[f].previous
    BY <1>1, <1>3, <1>6, <1>7
  <1>11. QED
    BY <1>2, <1>9, <1>10, PriorIsNoDeployment DEF Stack, Serving

(* A rollback brings back what was below. *)
LEMMA StackShrinks ==
  ASSUME Inv, NEW d \in Deployments, NEW j \in Journals, journal' = [journal EXCEPT ![d] = j],
         Engaged(d), Serving(d), j.status = "rolled_back", live' = journal[d].previous
  PROVE  Stack'
  <1>1. journal'[d] = j /\ \A e \in Deployments : e # d => journal'[e] = journal[e]
    BY DEF Inv, Typed
  <1>2. ~Serving(d)' /\ live = d
    BY <1>1 DEF Engaged, Serving, Inv, Stack
  <1>3. \A e \in Deployments : e # d => (Serving(e) <=> Serving(e)')
    BY <1>1 DEF Serving
  <1>4. \A e \in Deployments : Serving(e) /\ e # d => journal'[e].status = "succeeded"
    BY <1>1, OthersSucceeded
  <1>5. \A e \in Deployments : Serving(e) =>
          /\ journal[e].previous # d /\ journal[e].previous # e
          /\ journal[e].previous # Prior => Serving(journal[e].previous)
    BY <1>2 DEF Inv, Stack
  <1>6. \A e, f \in Deployments : Serving(e) /\ Serving(f) /\ e # f => journal[e].previous # journal[f].previous
    BY DEF Inv, Stack
  <1>7. \A e \in Deployments : journal[e].previous \in Deployments \cup {Prior}
    BY DEF Inv, Typed, Journals
  <1>8. /\ \A q \in Deployments : q = live' => Serving(q)'
        /\ live' \in Deployments \cup {Prior}
    BY <1>3, <1>5, <1>7, PriorIsNoDeployment
  <1>9. \A e \in Deployments : Serving(e)' =>
          /\ journal'[e].status # "succeeded" => live' = e
          /\ journal'[e].previous # live' /\ journal'[e].previous # e
          /\ \A q \in Deployments : q = journal'[e].previous => Serving(q)'
          /\ journal'[e].previous \in Deployments \cup {Prior}
    <2> TAKE e \in Deployments
    <2> HAVE Serving(e)'
    <2>1. e # d /\ Serving(e) /\ journal'[e] = journal[e]
      BY <1>1, <1>2, <1>3
    <2>2. QED
      BY <1>3, <1>4, <1>5, <1>6, <1>7, <2>1, PriorIsNoDeployment
  <1>10. \A e, f \in Deployments : Serving(e)' /\ Serving(f)' /\ e # f
           => journal'[e].previous # journal'[f].previous
    BY <1>1, <1>2, <1>3, <1>6
  <1>11. QED
    BY <1>8, <1>9, <1>10, PriorIsNoDeployment DEF Stack, Serving

(* The one that is being started is the latest. *)
LEMMA WorkIsLatest ==
  ASSUME Inv, NEW d \in Deployments, journal[d].status = "starting"
  PROVE  d = latest
  BY DEF Inv, NoJournal, RecordOK, JournalOK, Unfinished, Open, Terminal, OneUnfinished

(* A step of the Agent's own worker. *)
LEMMA WorkKeeps ==
  ASSUME Inv, UNCHANGED <<records, local, preparing, requests>>,
         NEW d \in Deployments, NEW j \in Journals, journal' = [journal EXCEPT ![d] = j],
         Moves(d, j), live' \in Deployments \cup {Prior},
         Single', Stack',
         \A e \in Deployments : journal'[e].status = "succeeded" /\ latest = e => live' = e
  PROVE  Inv'
  BY WrittenIsSteady, RecordsHold, WaitingStays, AllWait, AgentMoves DEF Writes, SameOperation, requests, Inv, Typed

(* Move, as a journal of its own. *)
LEMMA MoveIs ==
  ASSUME Inv, NEW d \in Deployments, NEW s \in AgentStatus, Move(d, s)
  PROVE  \E j \in Journals :
           /\ journal' = [journal EXCEPT ![d] = j]
           /\ j.status = s /\ j.stamp = journal[d].stamp + 1 /\ j.manual = journal[d].manual
           /\ j.previous = journal[d].previous /\ j.auto = journal[d].auto
  <1>1. journal[d] \in Journals /\ journal \in [Deployments -> Journals]
    BY DEF Inv, Typed
  <1> PICK k : k = journal[d]
    OBVIOUS
  <1> DEFINE j == [k EXCEPT !.status = s, !.stamp = @ + 1]
  <1>2. journal' = [journal EXCEPT ![d] = j]
    BY <1>1 DEF Move
  <1>3. j \in Journals
    <2>1. k \in Journals /\ k.stamp \in Nat /\ k.stamp + 1 \in Nat
      BY <1>1 DEF Journals
    <2>2. QED
      BY <2>1 DEF Journals
  <1>4. /\ j.status = s /\ j.stamp = journal[d].stamp + 1 /\ j.manual = journal[d].manual
        /\ j.previous = journal[d].previous /\ j.auto = journal[d].auto
    BY <1>1 DEF Journals
  <1>5. QED
    BY <1>2, <1>3, <1>4

(* A step that leaves what is served alone. *)
LEMMA QuietWorkKeeps ==
  ASSUME Inv, UNCHANGED <<records, local, preparing, requests, live>>,
         NEW d \in Deployments, NEW j \in Journals, journal' = [journal EXCEPT ![d] = j],
         Moves(d, j), Engaged(d), j.previous = journal[d].previous, j.status # "succeeded",
         journal[d].status \in {"rolling_back"} => j.status = "rollback_failed",
         journal[d].status = "rollback_failed" => ~journal[d].manual
  PROVE  Inv'
  <1>1. journal'[d] = j /\ (\A e \in Deployments : e # d => journal'[e] = journal[e]) /\ live' = live
    BY DEF Inv, Typed
  <1>2. JournalOK(d) /\ RecordOK(d) /\ journal[d] \in Journals
    BY DEF Inv, Typed
  <1>3. Single'
    BY SingleStays
  <1>4. Stack'
    BY <1>1, <1>2, StackStays DEF Serving, Moves, JournalOK, Inv, Stack, Engaged
  <1>5. \A e \in Deployments : journal'[e].status = "succeeded" /\ latest = e => live' = e
    BY <1>1 DEF Inv, RecordOK
  <1>6. live' \in Deployments \cup {Prior}
    BY <1>1 DEF Inv, Typed, TypeOK
  <1>7. QED
    BY <1>3, <1>4, <1>5, <1>6, WorkKeeps

(* A rollback that is done: what was below is served again. *)
LEMMA UndoneKeeps ==
  ASSUME Inv, UNCHANGED <<records, local, preparing, requests>>,
         NEW d \in Deployments, NEW j \in Journals, journal' = [journal EXCEPT ![d] = j],
         Moves(d, j), Engaged(d), Serving(d), j.status = "rolled_back", live' = journal[d].previous
  PROVE  Inv'
  <1>1. journal'[d] = j /\ (\A e \in Deployments : e # d => journal'[e] = journal[e])
        /\ journal[d] \in Journals
    BY DEF Inv, Typed
  <1>2. Single' /\ Stack'
    BY SingleStays, StackShrinks
  <1>3. \A e \in Deployments : journal'[e].status = "succeeded" /\ latest = e => live' = e
    <2>1. live = d
      BY DEF Inv, Stack, Engaged, Serving
    <2>2. QED
      BY <1>1, <2>1 DEF Inv, RecordOK
  <1>4. live' \in Deployments \cup {Prior}
    BY <1>1 DEF Journals
  <1>5. QED
    BY <1>2, <1>3, <1>4, WorkKeeps

LEMMA AgentWorkKeeps ==
  ASSUME Inv, NEW d \in Deployments, AgentWork(d)
  PROVE  Inv'
  <1>1. UNCHANGED <<records, local, preparing, requests>>
    BY DEF AgentWork
  <1>2. JournalOK(d) /\ journal[d] \in Journals /\ journal \in [Deployments -> Journals]
        /\ live \in Deployments \cup {Prior}
    BY DEF Inv, Typed, TypeOK
  <1>3. CASE journal[d].status = "receiving" /\ Move(d, "failed") /\ UNCHANGED live
    BY <1>3, MoveIs, <1>1, QuietWorkKeeps DEF AgentStatus, Moves, Engaged
  <1>4. CASE /\ journal[d].status = "receiving" /\ UNCHANGED live
             /\ Move(d, IF journal[d].auto THEN "starting" ELSE "ready")
    BY <1>4, MoveIs, <1>1, QuietWorkKeeps DEF AgentStatus, Moves, Engaged
  <1>5. CASE /\ journal[d].status = "starting" /\ live' = d
             /\ journal' = [journal EXCEPT ![d] =
                  [journal[d] EXCEPT !.status = "succeeded", !.stamp = journal[d].stamp + 1,
                                     !.previous = live]]
    <2> PICK k, l : k = journal[d] /\ l = live
      OBVIOUS
    <2> PICK j : j = [k EXCEPT !.status = "succeeded", !.stamp = k.stamp + 1, !.previous = l]
      OBVIOUS
    <2>0. k \in Journals /\ k.stamp + 1 \in Nat /\ l \in Deployments \cup {Prior}
      BY <1>2 DEF Journals
    <2>6. j \in Journals
      BY <2>0 DEF Journals, AgentStatus
    <2>7. journal' = [journal EXCEPT ![d] = j]
      BY <1>5
    <2>1. /\ journal' = [journal EXCEPT ![d] = j] /\ j \in Journals
          /\ j.status = "succeeded" /\ j.stamp = journal[d].stamp + 1 /\ j.manual = journal[d].manual
          /\ j.previous = live /\ j.auto = journal[d].auto
      BY <1>5, <2>0, <2>6, <2>7 DEF Journals
    <2>2. Moves(d, j) /\ Engaged(d)
      BY <1>5, <2>1 DEF Moves, Engaged
    <2>3. Single' /\ Stack'
      BY <1>5, <2>1, <2>2, SingleStays, StackGrows
    <2>4. \A e \in Deployments : journal'[e].status = "succeeded" /\ latest = e => live' = e
      BY <1>5, WorkIsLatest
    <2>5. QED
      BY <1>1, <1>5, <2>1, <2>2, <2>3, <2>4, WorkKeeps
  <1>6. CASE /\ journal[d].status = "starting" /\ UNCHANGED live
             /\ \E s \in {"failed", "rolled_back", "rollback_failed"} : Move(d, s)
    BY <1>6, MoveIs, <1>1, QuietWorkKeeps DEF AgentStatus, Moves, Engaged
  <1>7. CASE /\ journal[d].status = "rolling_back" /\ Move(d, "rolled_back")
             /\ live' = journal[d].previous
    BY <1>7, MoveIs, <1>1, UndoneKeeps DEF AgentStatus, Moves, Engaged, Serving
  <1>8. CASE journal[d].status = "rolling_back" /\ Move(d, "rollback_failed") /\ UNCHANGED live
    BY <1>8, MoveIs, <1>1, QuietWorkKeeps DEF AgentStatus, Moves, Engaged
  <1>9. QED
    BY <1>3, <1>4, <1>5, <1>6, <1>7, <1>8 DEF AgentWork

LEMMA AgentRecoverKeeps ==
  ASSUME Inv, NEW d \in Deployments, AgentRecover(d)
  PROVE  Inv'
  <1>1. /\ UNCHANGED <<records, local, preparing, requests>>
        /\ journal[d].status = "rollback_failed" /\ Move(d, "rolled_back")
        /\ journal[d].manual => live' = journal[d].previous
        /\ ~journal[d].manual => live' = live
    BY DEF AgentRecover
  <1>2. PICK j \in Journals :
          /\ journal' = [journal EXCEPT ![d] = j]
          /\ j.status = "rolled_back" /\ j.stamp = journal[d].stamp + 1 /\ j.manual = journal[d].manual
          /\ j.previous = journal[d].previous /\ j.auto = journal[d].auto
    BY <1>1, MoveIs DEF AgentStatus
  <1>3. Moves(d, j) /\ Engaged(d)
    BY <1>1, <1>2 DEF Moves, Engaged
  <1>4. CASE journal[d].manual
    <2>1. Serving(d)
      BY <1>1, <1>4 DEF Serving
    <2>2. QED
      BY <1>1, <1>2, <1>3, <1>4, <2>1, UndoneKeeps
  <1>5. CASE ~journal[d].manual
    BY <1>1, <1>2, <1>3, <1>5, QuietWorkKeeps
  <1>6. QED
    BY <1>4, <1>5

(* ------------------------ the Agent answers a request ----------------------- *)
LEMMA NothingMoves ==
  ASSUME Inv, UNCHANGED <<records, local, preparing, agentVars>>, SameOperation
  PROVE  /\ \A e \in Deployments : Steady(e) /\ JournalOK(e)' /\ RecordOK(e)' /\ UnknownReserved(e)'
         /\ Single' /\ Stack' /\ (pub' = pub => Publisher') /\ (op' = op => Operation')
         /\ journal' \in [Deployments -> Journals] /\ live' \in Deployments \cup {Prior}
  <1>1. /\ deployments' = deployments /\ latest' = latest /\ receipts' = receipts
        /\ preparing' = preparing /\ journal' = journal /\ live' = live
    BY DEF records, local, agentVars
  <1>2. \A e \in Deployments : Steady(e) /\ JournalOK(e)' /\ RecordOK(e)' /\ UnknownReserved(e)'
    BY <1>1 DEF Inv, Steady, WasReady, Unvetted, Reserved, Elsewhere, SameOperation, JournalOK,
                RecordOK, UnknownReserved
  <1>3. Single' /\ Stack'
    BY <1>1 DEF Inv, Single, Stack, Engaged, Serving
  <1>4. (pub' = pub => Publisher') /\ (op' = op => Operation')
    BY <1>1 DEF Inv, Publisher, Operation, Past, WasReady
  <1>5. journal' \in [Deployments -> Journals] /\ live' \in Deployments \cup {Prior}
    BY <1>1 DEF Inv, Typed, TypeOK
  <1>6. QED
    BY <1>2, <1>3, <1>4, <1>5

(* A step that gives d a new journal and leaves what is served alone. *)
LEMMA JournalMoves ==
  ASSUME Inv, UNCHANGED <<records, local, preparing, live>>, SameOperation,
         NEW d \in Deployments, NEW j \in Journals, Writes(d, j), Single',
         \/ ~Serving(d) /\ j.status \in {"receiving", "starting"}
         \/ Serving(d) /\ j.status = "rolling_back" /\ live = d /\ j.previous = journal[d].previous
  PROVE  /\ \A e \in Deployments : Steady(e) /\ JournalOK(e)' /\ RecordOK(e)' /\ UnknownReserved(e)'
         /\ Stack' /\ (Moves(d, j) /\ pub' = pub => Publisher') /\ (op' = op => Operation')
         /\ journal' \in [Deployments -> Journals] /\ live' \in Deployments \cup {Prior}
         /\ journal'[d] = j /\ j # NoJournal
  <1>1. /\ \A e \in Deployments : Steady(e) /\ JournalOK(e)'
        /\ journal' \in [Deployments -> Journals] /\ journal'[d] = j
        /\ \A e \in Deployments : e # d => journal'[e] = journal[e]
        /\ j # NoJournal
    BY WrittenIsSteady
  <1>2. \A e \in Deployments : journal'[e].status = "succeeded" /\ latest = e => live' = e
    BY <1>1 DEF Inv, RecordOK
  <1>3. \A e \in Deployments : RecordOK(e)' /\ UnknownReserved(e)'
    BY <1>2, RecordsHold
  <1>4. Stack'
    BY <1>1, StackStays DEF Serving, Writes
  <1>5. (Moves(d, j) /\ pub' = pub => Publisher') /\ (op' = op => Operation')
    BY WaitingStays
  <1>6. live' \in Deployments \cup {Prior}
    BY DEF Inv, Typed, TypeOK
  <1>7. QED
    BY <1>1, <1>3, <1>4, <1>5, <1>6

LEMMA NobodyWorks ==
  ASSUME ~AgentBusy, ~AgentBlocked
  PROVE  \A e \in Deployments : ~Engaged(e)
  BY DEF AgentBusy, AgentBlocked, Engaged, Working

(* A copy of the journal just written. *)
LEMMA NewCopyIsPast ==
  ASSUME NEW d \in Deployments, NEW j \in Journals, journal'[d] = j, JournalOK(d)', j # NoJournal
  PROVE  /\ Past(d, Copy(j))' /\ Copy(j) \in Replies /\ Copy(j).kind = "state"
         /\ Copy(j).stamp = j.stamp /\ Copy(j).manual = j.manual /\ Copy(j).status = j.status
  BY DEF Past, Copy, JournalOK, Journals, Replies, WasReady, NoJournal

LEMMA AgentUploadKeeps ==
  ASSUME Inv, AgentUpload
  PROVE  Inv'
  <1> PICK d : d = pub.d
    OBVIOUS
  <1>1. /\ pub.pc = "post" /\ d \in Deployments /\ preparing = {d} /\ pub \in Requests
        /\ deployments[d].status = "uploading" /\ deployments[d].submitted /\ journal[d] = NoJournal
        /\ deployments[d] # Blank
        /\ UNCHANGED <<records, local, preparing, polls, op, live>>
    BY BlankIsNoRecord DEF AgentUpload, Inv, Typed, Publisher, Holding
  <1>2. ASSUME NEW reply \in Replies, reply.kind \in {"lost", "refused"}, journal' = journal,
               pub' = [pub EXCEPT !.pc = "answered", !.reply = reply]
        PROVE  Inv'
    BY <1>1, <1>2, PublicationMoves DEF Requests, Stages, Publisher, Holding, Unsent, records, agentVars
  <1>3. CASE journal' = journal /\ pub' = [pub EXCEPT !.pc = "answered", !.reply = Lost]
    BY <1>2, <1>3, LostIsReply
  <1>4. CASE journal' = journal /\ pub' = [pub EXCEPT !.pc = "answered", !.reply = Refusal]
    BY <1>2, <1>4, LostIsReply
  <1>5. CASE /\ ~AgentBusy /\ ~AgentBlocked /\ pub' = [pub EXCEPT !.pc = "sent"]
             /\ journal' = [journal EXCEPT ![d] =
                  [status |-> "receiving", manual |-> FALSE, stamp |-> 1, previous |-> Prior,
                   auto |-> pub.activate]]
    <2> PICK a \in BOOLEAN : a = pub.activate
      BY <1>1 DEF Requests
    <2> PICK j : j = [status |-> "receiving", manual |-> FALSE, stamp |-> 1, previous |-> Prior,
                      auto |-> a]
      OBVIOUS
    <2>1. journal' = [journal EXCEPT ![d] = j] /\ j \in Journals
          /\ j.status = "receiving" /\ j.stamp = 1 /\ ~j.manual
      BY <1>5 DEF Journals, AgentStatus
    <2>2. Writes(d, j) /\ SameOperation
      BY <1>1, <2>1 DEF Writes, Receives, SameOperation
    <2>3. Single'
      BY <1>5, NobodyWorks, <1>1, <2>1, SingleStays
    <2>4. ~Serving(d)
      BY <1>1 DEF Serving, NoJournal
    <2>5. /\ \A e \in Deployments : Steady(e) /\ JournalOK(e)' /\ RecordOK(e)' /\ UnknownReserved(e)'
          /\ Stack' /\ Operation'
          /\ journal' \in [Deployments -> Journals] /\ live' \in Deployments \cup {Prior}
          /\ journal'[d] = j /\ j # NoJournal
      BY <1>1, <2>1, <2>2, <2>3, <2>4, JournalMoves
    <2>6. pub' \in Requests /\ pub'.pc = "sent" /\ pub'.d = d
      BY <1>1, <1>5 DEF Requests, Stages
    <2>7. Publisher'
      BY <1>1, <2>5, <2>6 DEF Publisher, Holding, Unsent, records
    <2>8. polls' \in [Pollers -> Requests] /\ \A x \in Pollers : PollOK(polls[x])'
      BY <1>1, <2>5, AllWait
    <2>9. op' \in Requests
      BY <1>1 DEF Inv, Typed
    <2>10. QED
      BY <1>1, <2>3, <2>5, <2>6, <2>7, <2>8, <2>9, AgentMoves
  <1>6. QED
    BY <1>1, <1>3, <1>4, <1>5 DEF AgentUpload

LEMMA AgentUploadReplyKeeps ==
  ASSUME Inv, AgentUploadReply
  PROVE  Inv'
  <1> PICK d : d = pub.d
    OBVIOUS
  <1>1. /\ pub.pc = "sent" /\ d \in Deployments /\ preparing = {d} /\ pub \in Requests
        /\ deployments[d] # Blank /\ deployments[d].submitted /\ journal[d] # NoJournal
        /\ journal[d] \in Journals /\ JournalOK(d)
        /\ UNCHANGED <<records, local, preparing, polls, op, agentVars>>
    BY DEF AgentUploadReply, Inv, Typed, Publisher, Holding
  <1>2. PICK reply \in {Lost, Copy(journal[d])} :
          pub' = [pub EXCEPT !.pc = "answered", !.reply = reply]
    BY DEF AgentUploadReply
  <1>3. reply \in Replies /\ reply.kind \in {"lost", "state"} /\ (reply.kind = "state" => Past(d, reply))
    BY <1>1, CopyIsPast, LostIsReply
  <1>4. pub' \in Requests /\ pub'.pc = "answered" /\ pub'.d = d /\ pub'.reply = reply
    BY <1>1, <1>2, <1>3 DEF Requests, Stages
  <1>5. Past(d, reply) => Past(d, reply)'
    BY <1>1 DEF Past, WasReady, agentVars
  <1>6. Publisher'
    BY <1>1, <1>3, <1>4, <1>5 DEF Publisher, Holding, Unsent, records, agentVars
  <1>7. QED
    BY <1>1, <1>4, <1>6, PublicationMoves

(* The answer reaches the request p, which goes on at stage pc.                    *)
LEMMA PollHears ==
  ASSUME Inv, \A e \in Deployments : Steady(e), NEW p \in Pollers,
         NEW pc \in {"activateAnswered", "rollbackAnswered"}, NEW reply \in Replies,
         polls' = [polls EXCEPT ![p].pc = pc, ![p].reply = reply],
         polls[p].pc # "idle", NEW d \in Deployments, d = polls[p].d,
         journal'[d] # NoJournal,
         pc = "rollbackAnswered" => polls[p].pc = "rollback",
         reply.kind = "state" => Past(d, reply)',
         pc = "rollbackAnswered" /\ reply.kind = "state" => reply.manual,
         pc = "rollbackAnswered" /\ reply.kind = "refused" => journal'[d].manual
  PROVE  polls' \in [Pollers -> Requests] /\ \A x \in Pollers : PollOK(polls[x])'
  <1> PICK o : o = polls[p]
    OBVIOUS
  <1>1. o \in Requests /\ PollOK(o) /\ o.pc # "idle"
    BY PollIs
  <1> PICK q : q = [o EXCEPT !.pc = pc, !.reply = reply]
    OBVIOUS
  <1>2. /\ q \in Requests /\ q.pc = pc /\ q.reply = reply /\ q.d = d /\ q.view = o.view
        /\ q.inflight = o.inflight
    BY <1>1 DEF Requests, Stages
  <1>3. polls' = [polls EXCEPT ![p] = q]
    BY <1>1 DEF Inv, Typed
  <1>4. PollOK(o)'
    BY <1>1, BeliefStays
  <1>5. Views(o)' /\ Concludes(o)
    BY <1>1, <1>4 DEF PollOK
  <1>6. Views(q)'
    BY <1>2, <1>5 DEF Views
  <1>7. pc = "rollbackAnswered" => q.view.manual /\ q.view.status = "unknown"
    BY <1>2, <1>5 DEF Concludes
  <1>8. Concludes(q)'
    BY <1>2, <1>7 DEF Concludes
  <1>9. PollOK(q)'
    BY <1>2, <1>6, <1>8 DEF PollOK, PollStages
  <1>10. QED
    BY <1>2, <1>3, <1>9, OthersWait

LEMMA AgentActivateKeeps ==
  ASSUME Inv, NEW p \in Pollers, AgentActivate(p)
  PROVE  Inv'
  <1> PICK d : d = polls[p].d
    OBVIOUS
  <1>1. /\ polls[p].pc = "activating" /\ d \in Deployments /\ journal[d] # NoJournal /\ ~Unvetted(d)
        /\ journal[d] \in Journals /\ JournalOK(d)
        /\ UNCHANGED <<records, local, preparing, pub, op, live>>
    BY PollIs DEF AgentActivate, Inv, Typed, PollOK, Views, Concludes
  <1>2. SameOperation /\ pub' = pub /\ op' = op /\ pub' \in Requests /\ op' \in Requests
    BY <1>1 DEF SameOperation, Inv, Typed
  <1>3. ASSUME NEW reply \in Replies, journal' = journal,
               polls' = [polls EXCEPT ![p].pc = "activateAnswered", ![p].reply = reply],
               reply.kind = "state" => Past(d, reply)
        PROVE  Inv'
    BY <1>1, <1>2, <1>3, NothingMoves, PastStays, PollHears, AgentMoves DEF agentVars
  <1>4. ASSUME ~AgentBusy, ~AgentBlocked, journal[d].status = "ready", Move(d, "starting"),
               NEW reply, reply \in {Lost, Copy(journal'[d])},
               polls' = [polls EXCEPT ![p].pc = "activateAnswered", ![p].reply = reply]
        PROVE  Inv'
    <2>1. PICK j \in Journals :
            /\ journal' = [journal EXCEPT ![d] = j]
            /\ j.status = "starting" /\ j.stamp = journal[d].stamp + 1 /\ j.manual = journal[d].manual
            /\ j.previous = journal[d].previous /\ j.auto = journal[d].auto
      BY <1>1, <1>4, MoveIs DEF AgentStatus
    <2>2. Moves(d, j) /\ Writes(d, j)
      BY <1>1, <1>4, <2>1 DEF Moves, Writes
    <2>3. Single'
      BY <1>4, NobodyWorks, <1>1, <2>1, SingleStays
    <2>4. ~Serving(d)
      BY <1>4 DEF Serving
    <2>5. /\ \A e \in Deployments : Steady(e) /\ JournalOK(e)' /\ RecordOK(e)' /\ UnknownReserved(e)'
          /\ Stack' /\ Publisher' /\ Operation'
          /\ journal' \in [Deployments -> Journals] /\ live' \in Deployments \cup {Prior}
          /\ journal'[d] = j /\ j # NoJournal
      BY <1>1, <1>2, <2>1, <2>2, <2>3, <2>4, JournalMoves
    <2>6. reply \in Replies /\ (reply.kind = "state" => Past(d, reply)')
      BY <1>1, <2>5, NewCopyIsPast, <1>4, LostIsReply
    <2>7. polls' \in [Pollers -> Requests] /\ \A x \in Pollers : PollOK(polls[x])'
      BY <1>1, <1>4, <2>5, <2>6, PollHears
    <2>8. QED
      BY <1>1, <1>2, <2>3, <2>5, <2>7, AgentMoves
  <1>5. Past(d, Copy(journal[d])) /\ Copy(journal[d]) \in Replies
    BY <1>1, CopyIsPast
  <1>6. QED
    BY <1>3, <1>4, <1>5, LostIsReply DEF AgentActivate

(* A refusal means that the rollback had been accepted before.                     *)
LEMMA RefusalMeansAccepted ==
  ASSUME Inv, NEW d \in Deployments, journal[d].manual \/ deployments[d].manual,
         ~AgentBusy, AgentBlocked \/ journal[d].status # "succeeded" \/ live # d
  PROVE  journal[d].manual
  <1> SUFFICES ASSUME ~journal[d].manual
               PROVE  FALSE
    OBVIOUS
  <1>1. journal[d].status = "succeeded" /\ latest = d /\ live = d
    BY DEF Inv, RecordOK
  <1>2. PICK e \in Deployments : journal[e].status = "rollback_failed"
    BY <1>1 DEF AgentBusy, AgentBlocked, Working
  <1>3. e # d
    BY <1>1, <1>2
  <1>4. ~journal[e].manual
    BY <1>1, <1>2, <1>3 DEF Inv, Stack, Serving
  <1>5. RecordOK(e) /\ JournalOK(e) /\ journal[e] # NoJournal
    BY <1>2 DEF Inv, NoJournal
  <1>6. e \in Unfinished
    BY <1>2, <1>4, <1>5 DEF RecordOK, JournalOK, Unfinished, Open, Terminal
  <1>7. QED
    BY <1>1, <1>3, <1>6 DEF Inv, OneUnfinished

(* The Agent handles a request for a rollback that the panel holds reserved.        *)
LEMMA RollbackIsHandled ==
  ASSUME Inv, UNCHANGED <<records, local, preparing, live>>, SameOperation,
         NEW d \in Deployments, journal[d].manual \/ deployments[d].manual, journal[d] # NoJournal,
         NEW reply, AgentRollback(d, reply)
  PROVE  /\ \A e \in Deployments : Steady(e) /\ JournalOK(e)' /\ RecordOK(e)' /\ UnknownReserved(e)'
         /\ Single' /\ Stack' /\ (pub' = pub => Publisher') /\ (op' = op => Operation')
         /\ journal' \in [Deployments -> Journals] /\ live' \in Deployments \cup {Prior}
         /\ reply \in Replies
         /\ reply.kind = "state" => Past(d, reply)' /\ reply.manual
         /\ reply.kind = "refused" => journal'[d].manual
         /\ journal'[d] # NoJournal /\ (journal'[d].manual \/ deployments'[d].manual)
  <1>1. journal[d] \in Journals /\ journal \in [Deployments -> Journals] /\ JournalOK(d)
        /\ deployments' = deployments
    BY DEF Inv, Typed, records
  <1>2. CASE journal' = journal
    <2>1. /\ \A e \in Deployments : Steady(e) /\ JournalOK(e)' /\ RecordOK(e)' /\ UnknownReserved(e)'
          /\ Single' /\ Stack' /\ (pub' = pub => Publisher') /\ (op' = op => Operation')
          /\ journal' \in [Deployments -> Journals] /\ live' \in Deployments \cup {Prior}
      BY <1>2, NothingMoves DEF agentVars
    <2>2. CASE reply = Lost \/ reply = [Lost EXCEPT !.kind = "busy"]
      BY <1>1, <1>2, <2>1, <2>2, LostIsReply
    <2>3. CASE reply = Copy(journal[d]) /\ journal[d].manual
      BY <1>1, <2>3, CopyIsPast, <2>1, PastStays, <1>2
    <2>4. CASE /\ reply = Refusal /\ ~AgentBusy
               /\ AgentBlocked \/ journal[d].status # "succeeded" \/ live # d
      BY <1>1, <1>2, <2>1, <2>4, LostIsReply, RefusalMeansAccepted
    <2>5. CASE /\ ~AgentBusy /\ ~AgentBlocked /\ journal[d].status = "succeeded" /\ live = d
               /\ journal' = [journal EXCEPT ![d] =
                    [journal[d] EXCEPT !.status = "rolling_back", !.manual = TRUE,
                                       !.stamp = journal[d].stamp + 1]]
      BY <1>1, <2>5, <1>2 DEF Journals
    <2>6. QED
      BY <1>2, <2>2, <2>3, <2>4, <2>5 DEF AgentRollback
  <1>3. CASE /\ ~AgentBusy /\ ~AgentBlocked /\ journal[d].status = "succeeded" /\ live = d
             /\ journal' = [journal EXCEPT ![d] =
                  [journal[d] EXCEPT !.status = "rolling_back", !.manual = TRUE,
                                     !.stamp = journal[d].stamp + 1]]
             /\ reply \in {Lost, Copy(journal'[d])}
    <2> PICK k : k = journal[d]
      OBVIOUS
    <2> PICK j : j = [k EXCEPT !.status = "rolling_back", !.manual = TRUE, !.stamp = k.stamp + 1]
      OBVIOUS
    <2>1. k \in Journals /\ k.stamp + 1 \in Nat
      BY <1>1 DEF Journals
    <2>2. /\ j \in Journals /\ j.status = "rolling_back" /\ j.manual /\ j.stamp = k.stamp + 1
          /\ j.previous = k.previous /\ j.auto = k.auto
      BY <2>1 DEF Journals, AgentStatus
    <2>3. journal' = [journal EXCEPT ![d] = j]
      BY <1>3
    <2>4. Moves(d, j) /\ Writes(d, j)
      BY <1>1, <1>3, <2>2, <2>3 DEF Moves, Writes, JournalOK
    <2>5. Single'
      BY <1>3, NobodyWorks, <2>2, <2>3, SingleStays
    <2>6. Serving(d)
      BY <1>3 DEF Serving
    <2>7. /\ \A e \in Deployments : Steady(e) /\ JournalOK(e)' /\ RecordOK(e)' /\ UnknownReserved(e)'
          /\ Stack' /\ (pub' = pub => Publisher') /\ (op' = op => Operation')
          /\ journal' \in [Deployments -> Journals] /\ live' \in Deployments \cup {Prior}
          /\ journal'[d] = j /\ j # NoJournal
      BY <1>3, <2>2, <2>4, <2>5, <2>6, JournalMoves
    <2>8. /\ Past(d, Copy(j))' /\ Copy(j) \in Replies /\ Copy(j).manual /\ Copy(j).kind = "state"
      BY <2>2, <2>7, NewCopyIsPast
    <2>9. reply = Lost \/ reply = Copy(j)
      BY <1>3, <2>7
    <2>10. QED
      BY <1>1, <2>2, <2>5, <2>7, <2>8, <2>9, LostIsReply
  <1>4. QED
    BY <1>2, <1>3 DEF AgentRollback

LEMMA AgentPollRollbackKeeps ==
  ASSUME Inv, NEW p \in Pollers, AgentPollRollback(p)
  PROVE  Inv'
  <1> PICK d : d = polls[p].d
    OBVIOUS
  <1>1. /\ polls[p].pc = "rollback" /\ d \in Deployments /\ Reserved(d)
        /\ UNCHANGED <<records, local, preparing, pub, op, live>>
    BY PollIs DEF AgentPollRollback, PollOK, Views, Concludes
  <1>2. PICK reply : /\ AgentRollback(d, reply)
                     /\ polls' = [polls EXCEPT ![p].pc = "rollbackAnswered", ![p].reply = reply]
    BY DEF AgentPollRollback
  <1>3. SameOperation /\ pub' = pub /\ op' = op /\ pub' \in Requests /\ op' \in Requests
    BY <1>1 DEF SameOperation, Inv, Typed
  <1>4. (journal[d].manual \/ deployments[d].manual) /\ journal[d] # NoJournal
    BY <1>1 DEF Inv, RecordOK, JournalOK, Reserved, NoJournal
  <1>5. /\ \A e \in Deployments : Steady(e) /\ JournalOK(e)' /\ RecordOK(e)' /\ UnknownReserved(e)'
        /\ Single' /\ Stack' /\ Publisher' /\ Operation'
        /\ journal' \in [Deployments -> Journals] /\ live' \in Deployments \cup {Prior}
        /\ reply \in Replies
        /\ reply.kind = "state" => Past(d, reply)' /\ reply.manual
        /\ reply.kind = "refused" => journal'[d].manual
        /\ journal'[d] # NoJournal
    BY <1>1, <1>2, <1>3, <1>4, RollbackIsHandled
  <1>6. polls' \in [Pollers -> Requests] /\ \A x \in Pollers : PollOK(polls[x])'
    BY <1>1, <1>2, <1>5, PollHears
  <1>7. QED
    BY <1>1, <1>3, <1>5, <1>6, AgentMoves

LEMMA AgentOpRollbackKeeps ==
  ASSUME Inv, AgentOpRollback
  PROVE  Inv'
  <1> PICK d : d = op.d
    OBVIOUS
  <1>1. /\ op.pc = "rollback" /\ d \in Deployments /\ op \in Requests
        /\ journal[d] # NoJournal /\ (journal[d].manual \/ deployments[d].manual)
        /\ UNCHANGED <<records, local, preparing, pub, polls, live>>
    BY DEF AgentOpRollback, Inv, Typed, Operation
  <1>2. PICK reply : /\ AgentRollback(d, reply)
                     /\ reply \in RollbackReplies(d)
                     /\ op' = [op EXCEPT !.pc = "rollbackAnswered", !.reply = reply]
    BY DEF AgentOpRollback
  <1>3. op'.pc = "rollbackAnswered" /\ op'.d = d /\ op'.reply = reply
    BY <1>1, <1>2 DEF Requests
  <1>4. SameOperation /\ pub' = pub /\ pub' \in Requests
    BY <1>1, <1>3 DEF SameOperation, Inv, Typed
  <1>5. /\ \A e \in Deployments : Steady(e) /\ JournalOK(e)' /\ RecordOK(e)' /\ UnknownReserved(e)'
        /\ Single' /\ Stack' /\ Publisher'
        /\ journal' \in [Deployments -> Journals] /\ live' \in Deployments \cup {Prior}
        /\ reply \in Replies
        /\ reply.kind = "state" => Past(d, reply)' /\ reply.manual
        /\ journal'[d] # NoJournal /\ (journal'[d].manual \/ deployments'[d].manual)
    BY <1>1, <1>2, <1>4, RollbackIsHandled
  <1>6. op' \in Requests
    BY <1>1, <1>2, <1>5 DEF Requests, Stages
  <1>7. Operation'
    BY <1>1, <1>3, <1>5 DEF Operation
  <1>8. polls' \in [Pollers -> Requests] /\ \A x \in Pollers : PollOK(polls[x])'
    BY <1>1, <1>5, AllWait
  <1>9. QED
    BY <1>1, <1>4, <1>5, <1>6, <1>7, <1>8, AgentMoves

(* -------------------------------- theorems --------------------------------- *)
LEMMA InitInv == Init => Inv
  <1> SUFFICES ASSUME Init PROVE Inv
    OBVIOUS
  <1>1. /\ \A d \in Deployments : deployments[d] = Blank /\ journal[d] = NoJournal
        /\ \A p \in Pollers : polls[p] = Idle
        /\ pub = Idle /\ op = Idle /\ preparing = {} /\ live = Prior /\ latest = None
    BY DEF Init
  <1>2. Idle \in Requests /\ Idle.pc = "idle"
    BY IdleWaits
  <1>3. NoJournal \in Journals /\ NoJournal.status = "none" /\ ~NoJournal.manual
    BY DEF NoJournal, Journals
  <1>4. Typed
    BY <1>1, <1>2, <1>3 DEF Init, TypeOK, Typed
  <1>5. Publisher /\ Operation
    BY <1>1, <1>2 DEF Publisher, Operation, Holding, Unsent
  <1>6. Single /\ Stack
    BY <1>1, <1>3 DEF Single, Stack, Engaged, Serving
  <1>7. \A d \in Deployments : JournalOK(d) /\ RecordOK(d) /\ UnknownReserved(d)
    BY <1>1, <1>3, BlankIsNoRecord DEF JournalOK, RecordOK, UnknownReserved
  <1>8. (\A p \in Pollers : PollOK(polls[p])) /\ OneUnfinished
    BY <1>1, <1>2 DEF PollOK, OneUnfinished, Unfinished, Open, Init
  <1>9. QED
    BY <1>4, <1>5, <1>6, <1>7, <1>8 DEF Inv

LEMMA PublicationAllKeeps == Inv /\ Publication => Inv'
  BY SnapshotKeeps, BeginKeeps, PrepareFailsKeeps, PreparedKeeps, RememberKeeps, SubmitKeeps,
     UploadAnsweredKeeps, FinishPreparationKeeps DEF Publication

LEMMA PollingAllKeeps ==
  ASSUME Inv, NEW p \in Pollers, Polling(p)
  PROVE  Inv'
  BY PollStartKeeps, PollRereadKeeps, PollInterruptedKeeps, PollAskKeeps, PollPendingKeeps,
     PollRecordKeeps, PollRollbackAgainKeeps, PollRolledBackKeeps, ActivateKeeps, ActivatedKeeps
     DEF Polling

LEMMA AgentAllKeeps == Inv /\ Agent => Inv'
  BY AgentUploadKeeps, AgentUploadReplyKeeps, AgentOpRollbackKeeps, AgentWorkKeeps,
     AgentRecoverKeeps, AgentActivateKeeps, AgentPollRollbackKeeps DEF Agent

LEMMA StutterKeeps == Inv /\ UNCHANGED vars => Inv'
  BY NothingMoves, PublicationMoves DEF vars, requests, SameOperation, Inv, Typed

LEMMA NextKeeps == Inv /\ [Next]_vars => Inv'
  BY PublicationAllKeeps, ReserveRollbackKeeps, RollbackAnsweredKeeps, AgentAllKeeps,
     PollingAllKeeps, RebindKeeps, UpgradeKeeps, CrashKeeps, StutterKeeps DEF Next, Rolling

LEMMA InvAlways == Spec => []Inv
  <1>1. Init => Inv
    BY InitInv
  <1>2. Inv /\ [Next]_vars => Inv'
    BY NextKeeps
  <1>3. QED
    BY <1>1, <1>2, PTL DEF Spec

(* Only a change of the binding and a death of the panel are counted.               *)
LEMMA OthersAreNotCounted == Next => UNCHANGED bounds \/ Rebind \/ Crash
  <1>1. Publication => UNCHANGED bounds
    BY DEF Publication, Snapshot, Begin, PrepareFails, Prepared, Remember, Submit, UploadAnswered, FinishPreparation
  <1>2. Rolling => UNCHANGED bounds
    BY DEF Rolling, ReserveRollback, RollbackAnswered
  <1>3. Agent => UNCHANGED bounds
    BY DEF Agent, AgentUpload, AgentUploadReply, AgentOpRollback, AgentWork, AgentRecover, AgentActivate, AgentPollRollback
  <1>4. ASSUME NEW p \in Pollers, Polling(p) PROVE UNCHANGED bounds
    BY <1>4 DEF Polling, PollStart, PollReread, PollInterrupted, PollAsk, PollPending, PollRecord, PollRollbackAgain,
               PollRolledBack, Activate, Activated
  <1>5. ReserveUpgrade \/ FinishUpgrade => UNCHANGED bounds
    BY DEF ReserveUpgrade, FinishUpgrade
  <1>6. QED
    BY <1>1, <1>2, <1>3, <1>4, <1>5 DEF Next

(* Every variable keeps its form, whatever is polled, published or rolled back at    *)
(* the same time: the panel's records, bindings and locks, what each request          *)
(* remembers, the Agent's journal, and the counters (agents/manager.py).              *)
EveryVariableTyped == Typed /\ rebinds \in Nat /\ crashes \in Nat
THEOREM TypeCorrect == Spec => []EveryVariableTyped
  <1>1. Inv => Typed
    BY DEF Inv
  <1>2. Init => rebinds \in Nat /\ crashes \in Nat
    BY DEF Init
  <1>3. (rebinds \in Nat /\ crashes \in Nat) /\ [Next]_vars => (rebinds \in Nat /\ crashes \in Nat)'
    BY OthersAreNotCounted DEF Rebind, Crash, bounds, vars
  <1>4. QED
    BY <1>1, <1>2, <1>3, InvAlways, PTL DEF Spec, EveryVariableTyped

(* At most one task of an Agent is unfinished, the latest one, of its own profile,  *)
(* and never beside an upgrade, for any number of concurrent requests               *)
(* (begin_deployment, rollback_deployment, upgrades.start).                          *)
THEOREM OneTask == Spec => []OneUnfinished
  <1>1. Inv => OneUnfinished
    BY DEF Inv
  <1>2. QED
    BY <1>1, InvAlways, PTL

(* What the panel calls failed, rolled back or succeeded is what the Agent's        *)
(* journal says, but for a rollback that two overlapping polls overlooked           *)
(* (record_deployment, get_deployment).                                              *)
THEOREM OutcomeHolds == Spec => []OutcomeIsTrue
  <1>1. Inv => OutcomeIsTrue
    BY PriorIsNoDeployment DEF OutcomeIsTrue, Inv, RecordOK, Serving, Stack, Overlooked
  <1>2. QED
    BY <1>1, InvAlways, PTL

(* The Agent's journal becomes one of a manual rollback only under a reservation     *)
(* of the latest deployment (rollback_deployment, and the repetition in               *)
(* get_deployment).                                                                   *)
LEMMA RollbackIsReserved ==
  ASSUME Inv, [Next]_vars, NEW d \in Deployments, ~journal[d].manual, journal'[d].manual
  PROVE  deployments[d].manual /\ latest = d
  <1>1. journal \in [Deployments -> Journals] /\ RecordOK(d)
    BY DEF Inv, Typed
  <1>2. SUFFICES deployments[d].manual
    BY <1>1, <1>2 DEF RecordOK
  <1>3. CASE journal' = journal
    BY <1>3
  <1>4. CASE AgentUpload
    BY <1>1, <1>4 DEF AgentUpload
  <1>5. CASE \E e \in Deployments : AgentWork(e) \/ AgentRecover(e)
    <2>1. PICK e \in Deployments : AgentWork(e) \/ AgentRecover(e)
      BY <1>5
    <2>2. CASE d # e
      BY <1>1, <2>1, <2>2 DEF AgentWork, AgentRecover, Move
    <2>3. CASE d = e
      <3>1. journal[d] \in Journals
        BY <1>1
      <3>2. journal'[d].manual = journal[d].manual
        <4>1. CASE \E s : Move(d, s)
          BY <1>1, <3>1, <4>1 DEF Move, Journals
        <4>2. CASE journal' = [journal EXCEPT ![d] =
                     [journal[d] EXCEPT !.status = "succeeded", !.stamp = journal[d].stamp + 1,
                                        !.previous = live]]
          BY <1>1, <3>1, <4>2 DEF Journals
        <4>3. QED
          BY <2>1, <2>3, <4>1, <4>2 DEF AgentWork, AgentRecover
      <3>3. QED
        BY <3>2
    <2>4. QED
      BY <2>2, <2>3
  <1>6. ASSUME NEW p \in Pollers, AgentActivate(p)
        PROVE  FALSE
    BY <1>1, <1>6 DEF AgentActivate, Move, Journals
  <1>7. ASSUME NEW e \in Deployments, NEW reply, AgentRollback(e, reply),
               journal[e].manual \/ deployments[e].manual
        PROVE  deployments[d].manual
    BY <1>1, <1>7 DEF AgentRollback
  <1>8. CASE \E p \in Pollers : AgentPollRollback(p)
    BY <1>8, PollIs, <1>7 DEF AgentPollRollback, PollOK, Views, Concludes, Reserved
  <1>9. CASE AgentOpRollback
    BY <1>9, <1>7 DEF AgentOpRollback, Inv, Operation
  <1>10. CASE Publication
    BY <1>3, <1>10 DEF Publication, Snapshot, Begin, PrepareFails, Prepared, Remember, Submit,
                       UploadAnswered, FinishPreparation, agentVars
  <1>11. CASE \E p \in Pollers : Polling(p)
    BY <1>3, <1>11 DEF Polling, PollStart, PollReread, PollInterrupted, PollAsk, PollPending,
                       PollRecord, PollRollbackAgain, PollRolledBack, Activate, Activated, agentVars
  <1>12. CASE Rolling \/ Rebind \/ ReserveUpgrade \/ FinishUpgrade \/ Crash \/ UNCHANGED vars
    BY <1>3, <1>12 DEF Rolling, ReserveRollback, RollbackAnswered, Rebind, ReserveUpgrade,
                       FinishUpgrade, Crash, agentVars, vars
  <1>13. CASE AgentUploadReply
    BY <1>3, <1>13 DEF AgentUploadReply, agentVars
  <1>14. QED
    BY <1>4, <1>5, <1>6, <1>8, <1>9, <1>10, <1>11, <1>12, <1>13 DEF Next, Agent

(* The Agent rolls a deployment back only while the panel holds it reserved and it   *)
(* is the latest one: a repeated request never undoes a later publication            *)
(* (rollback_deployment, manualRollbackHandler).                                      *)
THEOREM RollbackOnRequest == Spec => RolledBackOnRequest
  <1>1. Inv /\ [Next]_vars =>
          [\A d \in Deployments :
             ~journal[d].manual /\ journal'[d].manual => deployments[d].manual /\ latest = d]_vars
    BY RollbackIsReserved
  <1>2. QED
    BY <1>1, InvAlways, PTL DEF Spec, RolledBackOnRequest

(* A record that has ended keeps its status; only a reserved rollback opens it.      *)
LEMMA RecordIsFinal ==
  ASSUME Inv, NEW d \in Deployments, NEW u, NEW receipt, Record(d, u, receipt),
         NEW e \in Deployments, deployments[e].status \in Terminal
  PROVE  deployments'[e].status = deployments[e].status
  <1>1. deployments \in [Deployments -> Records \cup {Blank}]
    BY DEF Inv, Typed, TypeOK
  <1>2. CASE Refused(deployments[d], u, receipt)
    BY <1>2 DEF Record, records
  <1>3. CASE ~Refused(deployments[d], u, receipt)
    <2>1. deployments' = [deployments EXCEPT ![d] = Recorded(deployments[d], u)]
      BY <1>3 DEF Record
    <2>2. CASE e # d
      BY <1>1, <2>1, <2>2
    <2>3. CASE e = d
      BY <1>1, <1>3, <2>3, BlankIsNoRecord, <2>1 DEF Refused, Terminal, Recorded, Records
    <2>4. QED
      BY <2>2, <2>3
  <1>4. QED
    BY <1>2, <1>3

LEMMA CancelIsFinal ==
  ASSUME Inv, NEW d \in Deployments, CancelManualRollback(d),
         NEW e \in Deployments, deployments[e].status \in Terminal
  PROVE  deployments'[e].status = deployments[e].status
  BY DEF Inv, Typed, TypeOK, CancelManualRollback, Terminal

LEMMA FinalIsKept ==
  ASSUME Inv, [Next]_vars, NEW e \in Deployments, deployments[e].status \in Terminal,
         deployments[e].status # deployments'[e].status
  PROVE  deployments[e].status = "succeeded" /\ deployments'[e].status = "rolling_back"
  <1>1. deployments \in [Deployments -> Records \cup {Blank}]
    BY DEF Inv, Typed, TypeOK
  <1>2. deployments' # deployments
    OBVIOUS
  <1>3. ASSUME Publication
        PROVE  FALSE
    <2>1. pub.pc # "idle" => pub.d \in Deployments
      BY DEF Inv, Publisher
    <2>2. CASE Prepared \/ FinishPreparation \/ \E d \in Deployments : Snapshot(d)
      BY <1>2, <2>2 DEF Snapshot, Prepared, FinishPreparation, records
    <2>3. CASE Begin
      BY <2>1, <2>3, BlankIsNoRecord, <1>1 DEF Begin, Inv, Publisher, Terminal, records
    <2>4. CASE PrepareFails
      BY <2>1, <2>4, RecordIsFinal DEF PrepareFails
    <2>5. CASE UploadAnswered
      BY <2>1, <2>5, RecordIsFinal DEF UploadAnswered
    <2>6. CASE Remember \/ Submit
      BY <2>1, <2>6, <1>1 DEF Remember, Submit, Inv, Publisher, Unsent, Terminal
    <2>7. QED
      BY <1>3, <2>2, <2>3, <2>4, <2>5, <2>6 DEF Publication
  <1>4. ASSUME NEW p \in Pollers, Polling(p)
        PROVE  FALSE
    <2>1. polls[p].pc # "idle" => polls[p].d \in Deployments
      BY PollIs DEF PollOK, Views
    <2>2. CASE (\E d \in Deployments : PollStart(p, d)) \/ PollReread(p) \/ PollAsk(p)
                 \/ PollPending(p) \/ PollRollbackAgain(p)
      BY <1>2, <2>2 DEF PollStart, PollReread, PollAsk, PollPending, PollRollbackAgain, records
    <2>3. CASE PollInterrupted(p)
      BY <2>1, <2>3, RecordIsFinal DEF PollInterrupted
    <2>4. CASE PollRecord(p)
      BY <2>1, <2>4, RecordIsFinal DEF PollRecord
    <2>5. CASE PollRolledBack(p)
      BY <1>2, <2>1, <2>5, RecordIsFinal, CancelIsFinal DEF PollRolledBack, records
    <2>6. CASE Activated(p)
      BY <1>2, <2>1, <2>6, RecordIsFinal DEF Activated, records
    <2>7. CASE Activate(p)
      <3>1. polls[p].d \in Deployments /\ deployments' # deployments
        BY <1>2, <2>1, <2>7 DEF Activate
      <3>2. deployments' = [deployments EXCEPT ![polls[p].d].status = IF @ = "ready" THEN "failed" ELSE @]
        BY <2>7, <3>1 DEF Activate, records
      <3>3. deployments'[e].status = deployments[e].status
        BY <1>1, <3>1, <3>2, BlankIsNoRecord DEF Terminal
      <3>4. QED
        BY <3>3
    <2>8. QED
      BY <1>4, <2>2, <2>3, <2>4, <2>5, <2>6, <2>7 DEF Polling
  <1>5. CASE \E d \in Deployments : ReserveRollback(d)
    BY <1>5, <1>1, BlankIsNoRecord DEF ReserveRollback, Records
  <1>6. ASSUME RollbackAnswered
        PROVE  FALSE
    BY <1>6, RecordIsFinal, CancelIsFinal DEF RollbackAnswered, Inv, Operation
  <1>7. ASSUME Agent
        PROVE  FALSE
    BY <1>2, <1>7 DEF Agent, AgentUpload, AgentUploadReply, AgentOpRollback, AgentWork, AgentRecover,
                      AgentActivate, AgentPollRollback, records
  <1>8. ASSUME Rebind \/ ReserveUpgrade \/ FinishUpgrade \/ Crash \/ UNCHANGED vars
        PROVE  FALSE
    BY <1>2, <1>8 DEF Rebind, ReserveUpgrade, FinishUpgrade, Crash, vars, records
  <1>9. QED
    BY <1>3, <1>4, <1>5, <1>6, <1>7, <1>8 DEF Next, Rolling

(* A late receipt or an overlapping poll never changes a final status; only a         *)
(* reserved rollback reopens a success (record_deployment's guards).                   *)
THEOREM FinalStays == Spec => OutcomeIsFinal
  <1>1. Inv /\ [Next]_vars =>
          [\A d \in Deployments :
             deployments[d].status \in Terminal /\ deployments[d].status # deployments'[d].status
             => deployments[d].status = "succeeded" /\ deployments'[d].status = "rolling_back"]_vars
    BY FinalIsKept
  <1>2. QED
    BY <1>1, InvAlways, PTL DEF Spec, OutcomeIsFinal

(* ------------------------- the content that is applied ---------------------- *)
(* The content shown as applied is the latest success, or the one before a task   *)
(* that has not established its own; it is served, unless the task now is.         *)
Adopted ==
  applied # None =>
    IF applied = latest
    THEN \/ deployments[applied].status = "succeeded"
         \/ deployments[applied].manual /\ deployments[applied].status \notin Terminal
    ELSE /\ latest # None /\ ~deployments[latest].manual /\ deployments[latest].status # "succeeded"
         /\ deployments[applied].status = "succeeded"
         /\ live = applied \/ Overlooked(applied) \/ live = latest

(* The Agent's service type is never edited. *)
OneService == \E s \in Services : Services = {s}

LEMMA AdoptedIsServed == Inv /\ Adopted => AppliedIsServed
  <1> SUFFICES ASSUME Inv, Adopted, applied # None, Unfinished = {}
               PROVE  live = applied \/ Overlooked(applied)
    BY DEF AppliedIsServed
  <1>1. applied \in Deployments /\ RecordOK(applied) /\ JournalOK(applied)
        /\ (deployments[applied] = Blank \/ deployments[applied].status \in Terminal)
    BY DEF Inv, Typed, TypeOK, Unfinished, Open
  <1>2. CASE applied = latest
    BY <1>1, <1>2, BlankIsNoRecord DEF Adopted, RecordOK, Overlooked
  <1>3. CASE applied # latest
    <2>1. latest \in Deployments
      BY <1>3 DEF Adopted, Inv, Typed, TypeOK
    <2>2. /\ RecordOK(latest) /\ JournalOK(latest)
          /\ (deployments[latest] = Blank \/ deployments[latest].status \in {"failed", "rolled_back"})
      BY <1>3, <2>1 DEF Adopted, Inv, Unfinished, Open, Terminal
    <2>3. ~Serving(latest)
      BY <2>2 DEF JournalOK, Serving, NoJournal, RecordOK
    <2>4. live # latest
      BY <2>1, <2>3, PriorIsNoDeployment DEF Inv, Stack
    <2>5. QED
      BY <1>3, <2>4 DEF Adopted
  <1>4. QED
    BY <1>2, <1>3

(* A step of the Agent: what it serves is the task's own, or an overlooked rollback  *)
(* took it away.                                                                      *)
LEMMA AgentAdopts ==
  ASSUME Inv, Adopted, UNCHANGED records,
         \A e \in Deployments : journal[e].manual => journal'[e].manual,
         \/ live' = live
         \/ live' = latest
         \/ live \in Deployments /\ journal[live].manual
  PROVE  Adopted'
  BY DEF Adopted, records, Inv, Typed, TypeOK, RecordOK, Overlooked

(* A report on one task: only a success it owns becomes the applied content.         *)
LEMMA RecordAdopts ==
  ASSUME OneService, Inv, Inv', Adopted, NEW d \in Deployments, NEW u, NEW receipt,
         Record(d, u, receipt), Basis(d, u), UNCHANGED <<journal, live>>
  PROVE  Adopted'
  <1> DEFINE r == deployments[d]
             s == deployments'[d]
  <1>1. /\ latest' = latest /\ \A e \in Deployments : e # d => deployments'[e] = deployments[e]
        /\ \/ UNCHANGED records
           \/ /\ r \in Records /\ ~Refused(r, u, receipt) /\ s = Recorded(r, u)
              /\ applied' = AppliedAfter(d, s)
    BY BasisReports, RecordEffect DEF Inv, Typed
  <1>2. CASE UNCHANGED records
    BY <1>2 DEF Adopted, Overlooked, records
  <1>3. CASE /\ r \in Records /\ ~Refused(r, u, receipt) /\ s = Recorded(r, u)
             /\ applied' = AppliedAfter(d, s)
    <2>1. /\ s.status = u.status /\ s.manual = (u.manual \/ r.manual)
          /\ s.service = r.service /\ s.profile = r.profile /\ r # Blank
          /\ r.manual => u.manual
          /\ r.status \in Terminal => u.status = r.status
          /\ r.service \in Services
      BY <1>3, BlankIsNoRecord DEF Recorded, Refused, Records
    <2>2. RecordOK(d) /\ RecordOK(d)' /\ JournalOK(d)
      BY DEF Inv
    <2>3. (r.status \notin Terminal => d = latest /\ r.profile = binding.profile)
      BY <2>1 DEF Inv, OneUnfinished, Unfinished, Open
    <2>4. r.status \notin Terminal => Owned(s)
      BY <2>1, <2>3 DEF Owned, OneService, Inv, Typed, TypeOK
    <2>5. CASE applied' # applied
      BY <1>3, <2>5, PriorIsNoDeployment, <1>1 DEF AppliedAfter, Adopted
    <2>6. CASE applied' = applied /\ applied = d /\ d = latest /\ applied # None
      BY <2>6, <1>3, PriorIsNoDeployment, <2>1, <2>2, <1>1 DEF Adopted, AppliedAfter, RecordOK, Terminal
    <2>7. CASE applied' = applied /\ applied # d /\ d = latest /\ applied # None
      <3>1. ~r.manual /\ r.status # "succeeded" /\ deployments[applied].status = "succeeded"
            /\ (live = applied \/ Overlooked(applied) \/ live = latest) /\ applied \in Deployments
        BY <2>7 DEF Adopted, Inv, Typed, TypeOK
      <3>2. ~s.manual
        <4>1. ~journal[d].manual
          BY <2>2, <3>1 DEF RecordOK
        <4>2. ~u.manual
          BY <3>1, <4>1 DEF Basis, Past, Report
        <4>3. QED
          BY <2>1, <3>1, <4>2
      <3>3. s.status # "succeeded"
        BY <2>1, <2>4, <3>1, <1>3, <2>7, <3>2 DEF AppliedAfter
      <3>4. QED
        BY <1>1, <2>7, <3>1, <3>2, <3>3 DEF Adopted, Overlooked
    <2>8. CASE applied' = applied /\ d # latest /\ applied # None
      BY <2>1, <2>3, <2>8, <2>2, <1>1 DEF RecordOK, Inv, Typed, TypeOK, Adopted, Overlooked
    <2>9. CASE applied' = applied /\ applied = None
      BY <2>9 DEF Adopted
    <2>10. QED
      BY <2>5, <2>6, <2>7, <2>8, <2>9
  <1>4. QED
    BY <1>1, <1>2, <1>3

(* A step that moves the unfinished task on without deciding it.                     *)
LEMMA TaskAdopts ==
  ASSUME Inv, Adopted, NEW d \in Deployments, Open(deployments[d]), ~deployments[d].manual,
         \A e \in Deployments : e # d => deployments'[e] = deployments[e],
         ~deployments'[d].manual, deployments'[d].status # "succeeded",
         UNCHANGED <<latest, applied, journal, live>>
  PROVE  Adopted'
  BY PriorIsNoDeployment DEF Inv, OneUnfinished, Unfinished, Open, Typed, TypeOK, Adopted, Terminal, Overlooked

LEMMA CancelAdopts ==
  ASSUME Inv, Adopted, NEW d \in Deployments, CancelManualRollback(d), UNCHANGED <<journal, live>>
  PROVE  Adopted'
  <1>1. deployments \in [Deployments -> Records \cup {Blank}] /\ applied \in Deployments \cup {None}
        /\ latest' = latest /\ applied' = applied
    BY DEF Inv, Typed, TypeOK, CancelManualRollback
  <1>2. \A e \in Deployments : e # d => deployments'[e] = deployments[e]
    BY <1>1 DEF CancelManualRollback
  <1>3. CASE deployments[d].status \in {"rolling_back", "unknown"} /\ deployments[d].manual
    BY <1>1, <1>3, BlankIsNoRecord DEF Inv, OneUnfinished, Unfinished, Open, Terminal, Adopted,
       CancelManualRollback, Records
  <1>4. CASE ~(deployments[d].status \in {"rolling_back", "unknown"} /\ deployments[d].manual)
    <2>1. deployments' = deployments
      BY <1>1, <1>4 DEF CancelManualRollback
    <2>2. QED
      BY <1>1, <2>1 DEF Adopted, Overlooked
  <1>5. QED
    BY <1>3, <1>4

LEMMA StillAdopted ==
  ASSUME Adopted, UNCHANGED <<records, journal, live>>
  PROVE  Adopted'
  BY DEF Adopted, Overlooked, records

LEMMA PublicationAdopts ==
  ASSUME OneService, Inv, Inv', Adopted, Publication
  PROVE  Adopted'
  <1> PICK d : d = pub.d
    OBVIOUS
  <1>1. pub.pc # "idle" => d \in Deployments
    BY DEF Inv, Publisher
  <1>2. deployments \in [Deployments -> Records \cup {Blank}] /\ applied \in Deployments \cup {None}
    BY DEF Inv, Typed, TypeOK
  <1>3. CASE UNCHANGED <<records, journal, live>>
    BY <1>3, StillAdopted
  <1>4. CASE Begin /\ ~UNCHANGED records
    <2>1. /\ d \in Deployments /\ deployments[d] = Blank /\ Unfinished = {}
          /\ deployments' = [deployments EXCEPT ![d] = Fresh(binding)]
          /\ latest' = d /\ applied' = applied /\ journal' = journal /\ live' = live
      BY <1>1, <1>4 DEF Begin, records, agentVars, Inv, Publisher
    <2>2. deployments'[d].status = "preparing" /\ ~deployments'[d].manual
      BY <1>2, <2>1 DEF Fresh, Blank
    <2>3. ASSUME applied # None
          PROVE  /\ applied # d /\ applied \in Deployments /\ deployments[applied].status = "succeeded"
                 /\ live = applied \/ Overlooked(applied)
      BY <2>1, <2>3, AdoptedIsServed, <1>2, BlankIsNoRecord DEF AppliedIsServed, Adopted, Unfinished, Open
    <2>4. QED
      BY <1>2, <2>1, <2>2, <2>3, PriorIsNoDeployment DEF Adopted, Overlooked
  <1>5. CASE PrepareFails
    BY <1>1, <1>5, RecordAdopts DEF PrepareFails, agentVars, Unsent, Basis, Inv, Publisher, JournalOK
  <1>6. CASE Remember \/ Submit
    <2>1. /\ d \in Deployments /\ UNCHANGED <<latest, applied, journal, live>>
          /\ deployments[d].status = "preparing" /\ ~deployments[d].manual
      BY <1>1, <1>6 DEF Remember, Submit, agentVars, Inv, Publisher, Unsent
    <2>2. deployments[d] \in Records /\ Open(deployments[d])
      BY <1>2, <2>1, BlankIsNoRecord DEF Open, Terminal
    <2>3. \A e \in Deployments : e # d => deployments'[e] = deployments[e]
      BY <1>2, <1>6, <2>1 DEF Remember, Submit
    <2>4. ~deployments'[d].manual /\ deployments'[d].status # "succeeded"
      <3>1. CASE Remember
        BY <1>2, <2>1, <2>2, <3>1 DEF Remember, Records
      <3>2. CASE Submit
        BY <1>2, <2>1, <2>2, <3>2 DEF Submit, Records
      <3>3. QED
        BY <1>6, <3>1, <3>2
    <2>5. QED
      BY <2>1, <2>2, <2>3, <2>4, TaskAdopts
  <1>7. CASE UploadAnswered
    BY <1>7, RecordAdopts, FromAgentIs DEF UploadAnswered, Inv, Typed, Publisher, Requests, agentVars, Basis
  <1>8. QED
    BY <1>3, <1>4, <1>5, <1>6, <1>7 DEF Publication, Snapshot, Begin, Prepared, FinishPreparation, agentVars

LEMMA PollingAdopts ==
  ASSUME OneService, Inv, Inv', Adopted, NEW p \in Pollers, Polling(p)
  PROVE  Adopted'
  <1> PICK d : d = polls[p].d
    OBVIOUS
  <1> DEFINE reply == polls[p].reply
  <1>1. /\ polls[p] \in Requests /\ reply \in Replies
        /\ polls[p].pc # "idle" => d \in Deployments /\ Views(polls[p]) /\ Concludes(polls[p])
        /\ journal' = journal /\ live' = live
    <2>1. polls[p] \in Requests /\ PollOK(polls[p])
      BY PollIs
    <2>2. journal' = journal /\ live' = live
      BY DEF Polling, PollStart, PollReread, PollInterrupted, PollAsk, PollPending, PollRecord,
             PollRollbackAgain, PollRolledBack, Activate, Activated, agentVars
    <2>3. QED
      BY <2>1, <2>2 DEF PollOK, Views, Requests
  <1>2. CASE UNCHANGED records
    BY <1>1, <1>2, StillAdopted
  <1>3. CASE PollInterrupted(p) /\ ~UNCHANGED records
    BY <1>1, <1>3, RecordAdopts DEF PollInterrupted, Concludes, Record, Refused, Basis, Inv, JournalOK
  <1>4. CASE PollRecord(p)
    BY <1>4, <1>1, RecordAdopts, FromAgentIs DEF PollRecord, Concludes, Basis
  <1>5. CASE PollRolledBack(p) /\ ~UNCHANGED records
    <2>1. d \in Deployments /\ Concludes(polls[p]) /\ polls[p].pc = "rollbackAnswered"
      BY <1>1, <1>5 DEF PollRolledBack
    <2>2. CASE reply.kind = "refused"
      <3>1. CancelManualRollback(d)
        BY <1>5, <2>2 DEF PollRolledBack
      <3>2. QED
        BY <1>1, <2>1, <3>1, CancelAdopts
    <2>3. CASE reply.kind = "state"
      BY <1>5, <2>3, <1>1, <2>1, FromAgentIs, RecordAdopts DEF PollRolledBack, Basis, Concludes
    <2>4. QED
      BY <1>5, <2>2, <2>3 DEF PollRolledBack
  <1>6. CASE Activate(p) /\ ~UNCHANGED records
    BY <1>1, <1>6, BlankIsNoRecord, TaskAdopts DEF Activate, Inv, Typed, TypeOK, Open, Terminal, RecordOK, Records,
       Blank, records
  <1>7. CASE Activated(p) /\ ~UNCHANGED records
    BY <1>1, <1>7, RecordAdopts, FromAgentIs DEF Activated, Basis, Concludes
  <1>8. QED
    BY <1>2, <1>3, <1>4, <1>5, <1>6, <1>7 DEF Polling, PollStart, PollReread, PollAsk, PollPending, PollRollbackAgain

LEMMA RollingAdopts ==
  ASSUME OneService, Inv, Inv', Adopted, Rolling
  PROVE  Adopted'
  <1>1. CASE \E d \in Deployments : ReserveRollback(d)
    BY <1>1, BlankIsNoRecord DEF ReserveRollback, agentVars, Inv, Typed, TypeOK, Records, Adopted, Terminal
  <1>2. CASE RollbackAnswered
    BY <1>2, IdleWaits, CancelAdopts, FromAgentIs, RecordAdopts DEF RollbackAnswered, Inv, Typed, Operation,
       Requests, agentVars, Basis
  <1>3. QED
    BY <1>1, <1>2 DEF Rolling

LEMMA AgentAllAdopts ==
  ASSUME Inv, Adopted, Agent
  PROVE  Adopted'
  <1>1. journal \in [Deployments -> Journals] /\ UNCHANGED records
    BY DEF Inv, Typed, Agent, AgentUpload, AgentUploadReply, AgentOpRollback, AgentWork, AgentRecover,
           AgentActivate, AgentPollRollback
  <1>2. ASSUME NEW d \in Deployments, NEW s, Move(d, s)
        PROVE  \A e \in Deployments : journal'[e].manual = journal[e].manual
    BY <1>1, <1>2 DEF Move, Journals
  <1>3. ASSUME NEW d \in Deployments, NEW reply, AgentRollback(d, reply), live' = live
        PROVE  Adopted'
    BY <1>1, <1>3, AgentAdopts DEF AgentRollback, Journals
  <1>4. CASE AgentUpload
    BY <1>4, <1>1, AgentAdopts DEF AgentUpload, Inv, Publisher, NoJournal
  <1>5. CASE AgentUploadReply
    BY <1>1, <1>5, StillAdopted DEF AgentUploadReply, agentVars
  <1>6. CASE AgentOpRollback
    BY <1>6, <1>3 DEF AgentOpRollback, Inv, Operation
  <1>7. ASSUME NEW d \in Deployments, AgentWork(d)
        PROVE  Adopted'
    BY <1>1, <1>2, AgentAdopts, WorkIsLatest, <1>7 DEF Journals, Inv, Stack, Serving, JournalOK, AgentWork
  <1>8. ASSUME NEW d \in Deployments, AgentRecover(d)
        PROVE  Adopted'
    BY <1>8, <1>1, <1>2, AgentAdopts DEF AgentRecover, Inv, Stack, Serving
  <1>9. ASSUME NEW p \in Pollers, AgentActivate(p)
        PROVE  Adopted'
    BY <1>9, PollIs, <1>1, <1>2, AgentAdopts DEF AgentActivate, PollOK, Views
  <1>10. ASSUME NEW p \in Pollers, AgentPollRollback(p)
         PROVE  Adopted'
    BY <1>10, PollIs, <1>3 DEF AgentPollRollback, PollOK, Views
  <1>11. QED
    BY <1>4, <1>5, <1>6, <1>7, <1>8, <1>9, <1>10 DEF Agent

LEMMA NextAdopts ==
  ASSUME OneService, Inv, Adopted, [Next]_vars
  PROVE  Adopted'
  BY NextKeeps, StillAdopted, PublicationAdopts, PollingAdopts, RollingAdopts, AgentAllAdopts DEF Rebind,
     ReserveUpgrade, FinishUpgrade, Crash, vars, agentVars, Next

(* The content shown as applied is what the Agent serves once nothing is unfinished,  *)
(* as long as its service type is not edited under a running deployment: the theorem   *)
(* takes one service type, for then no edit exists (record_deployment's baseline).      *)
THEOREM AppliedServed ==
  ASSUME OneService
  PROVE  Spec => []AppliedIsServed
  <1>1. Init => Inv /\ Adopted
    <2>1. Init => Adopted
      BY DEF Init, Adopted
    <2>2. QED
      BY <2>1, InitInv
  <1>2. (Inv /\ Adopted) /\ [Next]_vars => (Inv /\ Adopted)'
    BY NextKeeps, NextAdopts
  <1>3. Inv /\ Adopted => AppliedIsServed
    BY AdoptedIsServed
  <1>4. QED
    BY <1>1, <1>2, <1>3, PTL DEF Spec
=============================================================================
