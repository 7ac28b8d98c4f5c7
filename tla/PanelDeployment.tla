--------------------------- MODULE PanelDeployment ---------------------------
(* The panel's side of one Agent's deployments (agents/manager.py and the     *)
(* push-config route): the records kept in the Agent's entry of the system    *)
(* configuration, the requests that read and write them concurrently, and the *)
(* Agent behind an unreliable network.                                        *)
(*                                                                            *)
(* Every transaction of the repository is one step; what happens between two  *)
(* transactions of a handler (network calls, preparation) may interleave with *)
(* the steps of every other request and with the death of the panel process.  *)
EXTENDS Naturals, FiniteSets

CONSTANTS
  Deployments,   \* deployment IDs
  Profiles,      \* profiles an Agent may be bound to
  None,          \* no deployment
  Prior,         \* what the Agent ran before the first deployment
  Pollers,       \* requests that ask for a status or activate, at the same time
  Services,      \* service types the Agent may be given: "oxidns", "mihomo"
  MaxRebinds,    \* bound: changes of the Agent's profile or service type
  MaxCrashes     \* bound: deaths of the panel process

ASSUME PriorIsNoDeployment == Prior \notin Deployments /\ None \notin Deployments

VARIABLES
  deployments,   \* agent["deployments"]: ID -> record, Blank when absent
  latest,        \* agent["latest_deployment"]["deployment_id"]
  applied,       \* agent["applied_content"]["deployment_id"]
  binding,       \* agent["profile_id"] and agent["service_type"]
  upgrading,     \* _upgrade_busy(agent)
  receipts,      \* IDs whose validation receipt names the rules in force
  preparing,     \* IDs whose preparation lock a live request holds
  pub,           \* the request that publishes
  polls,         \* the requests that ask for a status, or activate
  op,            \* the request that rolls back
  journal,       \* the Agent's journal of each deployment
  live,          \* the deployment whose files the Agent serves
  rebinds, crashes

records == <<deployments, latest, applied>>
requests == <<pub, polls, op>>
agentVars == <<journal, live>>
bounds == <<rebinds, crashes>>
local == <<binding, upgrading, receipts>>
vars == <<records, local, preparing, requests, agentVars, bounds>>

Terminal == {"succeeded", "failed", "rolled_back"}
AgentStatus == {"receiving", "ready", "starting", "succeeded", "failed",
                "rolled_back", "rolling_back", "rollback_failed"}
Status == AgentStatus \cup {"preparing", "uploading", "unknown"}

Blank == [status |-> "none", submitted |-> FALSE, manual |-> FALSE, stamp |-> 0,
          profile |-> None, service |-> "none", prepared |-> FALSE]
Fresh(b) == [Blank EXCEPT !.status = "preparing", !.profile = b.profile, !.service = b.service]
NoJournal == [status |-> "none", manual |-> FALSE, stamp |-> 0,
              previous |-> Prior, auto |-> FALSE]

(* An answer is a copy of the journal taken when the Agent handled the call,  *)
(* a refusal (4xx), a 404, or nothing: the connection broke.                  *)
Lost == [kind |-> "lost", status |-> "none", manual |-> FALSE, stamp |-> 0]
Refusal == [Lost EXCEPT !.kind = "refused"]
NotFound == [Lost EXCEPT !.kind = "missing"]
Copy(j) == [kind |-> "state", status |-> j.status, manual |-> j.manual, stamp |-> j.stamp]

Idle == [pc |-> "idle", d |-> None, binding |-> [profile |-> None, service |-> "none"],
         view |-> Blank, inflight |-> FALSE, activate |-> FALSE, reply |-> Lost]

Exists(d) == deployments[d] # Blank
Open(r) == r # Blank /\ r.status \notin Terminal
Unfinished == {d \in Deployments : Open(deployments[d])}
Owned(r) == r.profile = binding.profile /\ r.service = binding.service

(* ------------------------- record_deployment ------------------------------ *)
(* What a request reports about a deployment: a status the panel concluded    *)
(* (stamp 0), or a copy of the Agent's journal with the time it was written.  *)
Report(s) == [status |-> s, manual |-> FALSE, stamp |-> 0]
FromAgent(reply) == [status |-> reply.status, manual |-> reply.manual, stamp |-> reply.stamp]

Refused_TerminalRegresses(r, u, receipt) ==
  r = Blank \/ (receipt = "interrupted" /\ r.submitted) \/ (r.manual /\ ~u.manual)

Refused(r, u, receipt) ==
  LET final == Terminal \cup {"rollback_failed"} IN
  \/ r = Blank
  \/ receipt = "interrupted" /\ r.submitted
  \/ receipt = "upload" /\ u.status \notin final
       /\ r.status \notin {"preparing", "uploading", "receiving"}
  \/ receipt = "activation" /\ u.status \notin final /\ r.status \notin {"ready", "unknown"}
  \/ r.manual /\ ~u.manual
  \/ r.status \in Terminal /\ u.status # r.status
  \/ u.stamp > 0 /\ u.stamp < r.stamp

Recorded(r, u) ==
  [r EXCEPT !.status = u.status, !.manual = u.manual \/ r.manual,
            !.stamp = IF u.stamp > 0 THEN u.stamp ELSE r.stamp]

AppliedAfter_KeptByRollback(d, r) ==
  IF latest = d /\ r.status = "succeeded" /\ Owned(r) THEN d ELSE applied

(* Only a confirmed activation of the latest deployment, still of the Agent's *)
(* own profile and service, establishes which content is applied.             *)
AppliedAfter(d, r) ==
  IF latest # d THEN applied
  ELSE CASE r.manual /\ r.status = "rolled_back" -> None
         [] r.status = "succeeded" /\ Owned(r) -> IF r.prepared THEN d ELSE None
         [] OTHER -> applied

Record(d, u, receipt) ==
  IF Refused(deployments[d], u, receipt)
  THEN UNCHANGED records
  ELSE LET r == Recorded(deployments[d], u) IN
       /\ deployments' = [deployments EXCEPT ![d] = r]
       /\ applied' = AppliedAfter(d, r)
       /\ UNCHANGED latest

(* ------------------------------ publication -------------------------------- *)
(* push_config_to_agent reads the Agent, its profile and its configuration    *)
(* before it reserves the deployment.                                          *)
Snapshot(d) ==
  /\ pub.pc = "idle" /\ ~Exists(d) /\ journal[d] = NoJournal
  /\ pub' = [Idle EXCEPT !.pc = "snapshot", !.d = d, !.binding = binding]
  /\ UNCHANGED <<records, local, preparing, polls, op, agentVars, bounds>>

Begin ==
  LET d == pub.d IN
  /\ pub.pc = "snapshot"
  /\ IF upgrading \/ Unfinished # {}
     THEN pub' = Idle /\ UNCHANGED <<records, preparing>>
     ELSE /\ deployments' = [deployments EXCEPT ![d] = Fresh(binding)]
          /\ latest' = d
          /\ preparing' = preparing \cup {d}
          /\ pub' = [pub EXCEPT !.pc = "prepare"]
          /\ UNCHANGED applied
  /\ UNCHANGED <<local, polls, op, agentVars, bounds>>

(* Preparation fails, the device has moved to another profile or service, or  *)
(* the Agent does not support the protocol: the task ends before any upload.  *)
PrepareFails ==
  /\ pub.pc \in {"prepare", "remember"}
  /\ Record(pub.d, Report("failed"), "none")
  /\ preparing' = preparing \ {pub.d}
  /\ pub' = Idle
  /\ UNCHANGED <<local, polls, op, agentVars, bounds>>

Prepared ==
  /\ pub.pc = "prepare"
  /\ pub.binding = binding
  /\ pub.binding.profile = deployments[pub.d].profile
  /\ pub' = [pub EXCEPT !.pc = "remember"]
  /\ UNCHANGED <<records, local, preparing, polls, op, agentVars, bounds>>

(* The ownership of the task is checked again in the transaction that stores  *)
(* the fingerprint of its content.                                             *)
Remember ==
  /\ pub.pc = "remember"
  /\ deployments[pub.d].profile = pub.binding.profile
  /\ binding.service = pub.binding.service
  /\ deployments' = [deployments EXCEPT ![pub.d].prepared = TRUE]
  /\ receipts' = IF binding.service = "oxidns" THEN receipts \cup {pub.d} ELSE receipts
  /\ pub' = [pub EXCEPT !.pc = "upload"]
  /\ UNCHANGED <<latest, applied, binding, upgrading, preparing, polls, op, agentVars, bounds>>

(* "uploading" and "submitted" are stored before the request leaves.           *)
Submit ==
  /\ pub.pc = "upload"
  /\ LET r == deployments[pub.d] IN
     deployments' = [deployments EXCEPT ![pub.d] =
       IF Refused(r, Report("uploading"), "none") THEN r
       ELSE [r EXCEPT !.status = "uploading", !.submitted = TRUE]]
  /\ \E activate \in BOOLEAN : pub' = [pub EXCEPT !.pc = "post", !.activate = activate]
  /\ UNCHANGED <<latest, applied, local, preparing, polls, op, agentVars, bounds>>

UploadAnswered ==
  LET u == CASE pub.reply.kind = "lost" -> Report("unknown")
             [] pub.reply.kind = "refused" -> Report("failed")
             [] OTHER -> FromAgent(pub.reply)
  IN
  /\ pub.pc = "answered"
  /\ Record(pub.d, u, "upload")
  /\ pub' = [pub EXCEPT !.pc = "finish"]
  /\ UNCHANGED <<local, preparing, polls, op, agentVars, bounds>>

FinishPreparation ==
  /\ pub.pc = "finish"
  /\ preparing' = preparing \ {pub.d}
  /\ pub' = Idle
  /\ UNCHANGED <<records, local, polls, op, agentVars, bounds>>

(* --------------------------- status and activation ------------------------- *)
Goto(p, pc) == polls' = [polls EXCEPT ![p].pc = pc]
Return(p) == polls' = [polls EXCEPT ![p] = Idle]

(* get_deployment answers with a state; activate_deployment goes on from it.  *)
Answer(p, r, pending) ==
  polls' = [polls EXCEPT ![p] =
    IF @.activate THEN [@ EXCEPT !.pc = "activate", !.view = r, !.inflight = pending] ELSE Idle]

(* The record is read, then whether its upload may still be on its way.        *)
PollStart(p, d) ==
  LET r == deployments[d] IN
  /\ polls[p].pc = "idle"
  /\ Open(r) /\ Owned(r)
  /\ r.submitted \/ d \notin preparing
  /\ \E activate \in BOOLEAN :
       polls' = [polls EXCEPT ![p] =
         [Idle EXCEPT !.pc = IF r.submitted THEN "ask" ELSE "reread", !.d = d, !.view = r,
                      !.inflight = d \in preparing, !.activate = activate]]
  /\ UNCHANGED <<records, local, preparing, pub, op, agentVars, bounds>>

(* Nothing was uploaded when the lock was found free: read again, and look    *)
(* again, before the task is called interrupted.                               *)
PollReread_Waits(p) ==
  LET r == deployments[polls[p].d] IN
  /\ polls[p].pc = "reread"
  /\ Answer(p, r, FALSE)
  /\ UNCHANGED <<records, local, preparing, pub, op, agentVars, bounds>>

PollReread(p) ==
  LET r == deployments[polls[p].d] IN
  /\ polls[p].pc = "reread"
  /\ CASE r.status \in Terminal -> Answer(p, r, FALSE)
       [] r.status \notin Terminal /\ r.submitted ->
            polls' = [polls EXCEPT ![p] = [@ EXCEPT !.pc = "ask", !.view = r,
                                                    !.inflight = polls[p].d \in preparing]]
       [] r.status \notin Terminal /\ ~r.submitted ->
            IF polls[p].d \in preparing THEN Answer(p, r, FALSE) ELSE Goto(p, "interrupted")
  /\ UNCHANGED <<records, local, preparing, pub, op, agentVars, bounds>>

PollInterrupted(p) ==
  /\ polls[p].pc = "interrupted"
  /\ Record(polls[p].d, Report("failed"), "interrupted")
  /\ Return(p)
  /\ UNCHANGED <<local, preparing, pub, op, agentVars, bounds>>

(* The Agent handles GET /api/deployments/<id>, or the connection breaks.      *)
PollAsk(p) ==
  LET j == journal[polls[p].d] IN
  /\ polls[p].pc = "ask"
  /\ \E reply \in {Lost, IF j = NoJournal THEN NotFound ELSE Copy(j)} :
       polls' = [polls EXCEPT ![p].pc = "answered", ![p].reply = reply]
  /\ UNCHANGED <<records, local, preparing, pub, op, agentVars, bounds>>

(* The journal still says "succeeded" although the panel asked for a rollback. *)
RollbackUnconfirmed(p) ==
  /\ polls[p].view.manual
  /\ polls[p].reply.kind = "state" /\ polls[p].reply.status = "succeeded"
  /\ ~polls[p].reply.manual

PollPending(p) ==
  LET v == polls[p].view
      d == polls[p].d IN
  /\ polls[p].pc = "answered"
  /\ \/ polls[p].reply.kind = "lost"
     \/ RollbackUnconfirmed(p) /\ v.status # "unknown"
     \/ polls[p].reply.kind = "missing"
          /\ (v.manual \/ polls[p].inflight \/ d \in preparing)
  /\ Answer(p, v, TRUE)
  /\ UNCHANGED <<records, local, preparing, pub, op, agentVars, bounds>>

PollRecord_TrustsNotFound(p) ==
  /\ polls[p].pc = "answered" /\ polls[p].reply.kind = "missing"
  /\ Record(polls[p].d, Report("failed"), "none")
  /\ Answer(p, deployments'[polls[p].d], FALSE)
  /\ UNCHANGED <<local, preparing, pub, op, agentVars, bounds>>

PollRecord(p) ==
  LET d == polls[p].d
      reply == polls[p].reply
      u == IF reply.kind = "missing" THEN Report("failed") ELSE FromAgent(reply)
  IN
  /\ polls[p].pc = "answered"
  /\ \/ reply.kind = "missing" /\ ~polls[p].view.manual
          /\ ~polls[p].inflight /\ d \notin preparing
     \/ reply.kind = "state" /\ ~RollbackUnconfirmed(p)
  /\ Record(d, u, "none")
  /\ Answer(p, deployments'[d], FALSE)
  /\ UNCHANGED <<local, preparing, pub, op, agentVars, bounds>>

(* An unknown rollback is asked for again: the Agent handles it only once.     *)
PollRollbackAgain(p) ==
  /\ polls[p].pc = "answered" /\ RollbackUnconfirmed(p)
  /\ polls[p].view.status = "unknown"
  /\ Goto(p, "rollback")
  /\ UNCHANGED <<records, local, preparing, pub, op, agentVars, bounds>>

(* A definite refusal makes the publication stand as it was before the request. *)
CancelManualRollback(d) ==
  LET r == deployments[d] IN
  /\ deployments' = [deployments EXCEPT ![d] =
       IF r.status \in {"rolling_back", "unknown"} /\ r.manual
       THEN [r EXCEPT !.status = "succeeded", !.manual = FALSE] ELSE r]
  /\ UNCHANGED <<latest, applied>>

PollRolledBack(p) ==
  LET d == polls[p].d
      reply == polls[p].reply IN
  /\ polls[p].pc = "rollbackAnswered"
  /\ CASE reply.kind = "refused" -> CancelManualRollback(d) /\ Return(p)
       [] reply.kind = "state" -> Record(d, FromAgent(reply), "none")
                                   /\ Answer(p, deployments'[d], FALSE)
       [] OTHER -> UNCHANGED records /\ Answer(p, polls[p].view, TRUE)
  /\ UNCHANGED <<local, preparing, pub, op, agentVars, bounds>>

(* activate_deployment goes on only from a candidate known to be ready.  For  *)
(* OxiDNS it must have been confirmed just now, and vetted by the rules in    *)
(* force; a candidate that was not is ended, unless it has moved on.           *)
Activate(p) ==
  LET d == polls[p].d
      v == polls[p].view
      oxidns == binding.service = "oxidns" IN
  /\ polls[p].pc = "activate"
  /\ IF v.status # "ready" \/ ~Owned(v) \/ (oxidns /\ polls[p].inflight)
     THEN Return(p) /\ UNCHANGED records
     ELSE IF oxidns /\ d \notin receipts
     THEN /\ Return(p)
          /\ deployments' = [deployments EXCEPT ![d].status = IF @ = "ready" THEN "failed" ELSE @]
          /\ UNCHANGED <<latest, applied>>
     ELSE Goto(p, "activating") /\ UNCHANGED records
  /\ UNCHANGED <<local, preparing, pub, op, agentVars, bounds>>

Activated(p) ==
  LET d == polls[p].d
      reply == polls[p].reply IN
  /\ polls[p].pc = "activateAnswered"
  /\ CASE reply.kind = "lost" -> Record(d, Report("unknown"), "activation")
       [] reply.kind = "state" -> Record(d, FromAgent(reply), "activation")
       [] OTHER -> UNCHANGED records
  /\ Return(p)
  /\ UNCHANGED <<local, preparing, pub, op, agentVars, bounds>>

(* --------------------------------- rollback -------------------------------- *)
(* The rollback is reserved before the request leaves, so that no publication, *)
(* upgrade or second rollback starts beside it.                                *)
ReserveRollback_AnyDeployment(d) ==
  /\ op.pc = "idle" /\ ~upgrading
  /\ ~deployments[d].manual /\ deployments[d].status = "succeeded"
  /\ deployments' = [deployments EXCEPT ![d].status = "rolling_back", ![d].manual = TRUE]
  /\ op' = [Idle EXCEPT !.pc = "rollback", !.d = d]
  /\ UNCHANGED <<latest, applied, local, preparing, pub, polls, agentVars, bounds>>

ReserveRollback_AfterRequest(d) ==
  /\ op.pc = "idle" /\ ~upgrading /\ latest = d /\ deployments[d].status = "succeeded"
  /\ op' = [Idle EXCEPT !.pc = "rollback", !.d = d]
  /\ UNCHANGED <<records, local, preparing, pub, polls, agentVars, bounds>>

ReserveRollback(d) ==
  LET r == deployments[d] IN
  /\ op.pc = "idle"
  /\ ~upgrading /\ latest = d /\ Owned(r)
  /\ ~r.manual /\ r.status = "succeeded"
  /\ deployments' = [deployments EXCEPT ![d].status = "rolling_back", ![d].manual = TRUE]
  /\ op' = [Idle EXCEPT !.pc = "rollback", !.d = d]
  /\ UNCHANGED <<latest, applied, local, preparing, pub, polls, agentVars, bounds>>

RollbackAnswered ==
  /\ op.pc = "rollbackAnswered"
  /\ CASE op.reply.kind \in {"refused", "busy"} -> CancelManualRollback(op.d)
       [] op.reply.kind = "state" -> Record(op.d, FromAgent(op.reply), "none")
       [] OTHER -> Record(op.d, [Report("unknown") EXCEPT !.manual = TRUE], "none")
  /\ op' = Idle
  /\ UNCHANGED <<local, preparing, pub, polls, agentVars, bounds>>

(* ------------------------- the Agent's other owners ------------------------ *)
(* update_agent, register_agent and rebind_profile_agents change the profile   *)
(* only when nothing is unfinished; the service type is not guarded so.        *)
Rebind ==
  /\ rebinds < MaxRebinds /\ ~upgrading
  /\ \E b \in [profile : Profiles, service : Services] :
       /\ b # binding
       /\ b.profile # binding.profile => Unfinished = {}
       /\ binding' = b
  /\ rebinds' = rebinds + 1
  /\ UNCHANGED <<records, upgrading, receipts, preparing, requests, agentVars, crashes>>

(* upgrades.start reserves the Agent only when its latest deployment is over.  *)
ReserveUpgrade ==
  /\ ~upgrading
  /\ latest # None => deployments[latest].status \in Terminal
  /\ upgrading' = TRUE
  /\ UNCHANGED <<records, binding, receipts, preparing, requests, agentVars, bounds>>

FinishUpgrade ==
  /\ upgrading
  /\ upgrading' = FALSE
  /\ UNCHANGED <<records, binding, receipts, preparing, requests, agentVars, bounds>>

(* The panel process dies: its requests are gone and its file locks with them. *)
(* The next one may be a new build, whose rules are not those of the receipts. *)
Crash ==
  /\ crashes < MaxCrashes
  /\ crashes' = crashes + 1
  /\ pub' = Idle /\ op' = Idle /\ polls' = [p \in Pollers |-> Idle]
  /\ preparing' = {}
  /\ receipts' \in {receipts, {}}
  /\ UNCHANGED <<records, binding, upgrading, agentVars, rebinds>>

(* --------------------------------- the Agent ------------------------------- *)
(* What the panel may observe of the Agent's deployment engine (module         *)
(* Deployment): the journal of each deployment and which one is served.        *)
Working == {"receiving", "starting", "rolling_back"}
AgentBusy == \E d \in Deployments : journal[d].status \in Working
AgentBlocked == \E d \in Deployments : journal[d].status \in {"starting", "rolling_back", "rollback_failed"}
Move(d, s) == journal' = [journal EXCEPT ![d].status = s, ![d].stamp = @ + 1]

(* The upload arrives, is refused, or breaks off before the journal exists.    *)
AgentUpload ==
  LET d == pub.d IN
  /\ pub.pc = "post"
  /\ \/ journal' = journal /\ pub' = [pub EXCEPT !.pc = "answered", !.reply = Lost]
     \/ journal' = journal /\ (AgentBusy \/ AgentBlocked)
          /\ pub' = [pub EXCEPT !.pc = "answered", !.reply = Refusal]
     \/ /\ ~AgentBusy /\ ~AgentBlocked
        /\ journal' = [journal EXCEPT ![d] =
             [status |-> "receiving", manual |-> FALSE, stamp |-> 1, previous |-> Prior,
              auto |-> pub.activate]]
        /\ pub' = [pub EXCEPT !.pc = "sent"]
  /\ UNCHANGED <<records, local, preparing, polls, op, live, bounds>>

AgentUploadReply ==
  /\ pub.pc = "sent"
  /\ \E reply \in {Lost, Copy(journal[pub.d])} :
       pub' = [pub EXCEPT !.pc = "answered", !.reply = reply]
  /\ UNCHANGED <<records, local, preparing, polls, op, agentVars, bounds>>

(* Reception ends in a verified candidate, which starts at once when the       *)
(* upload asked for it; a start succeeds, fails, or is rolled back.            *)
AgentWork(d) ==
  LET j == journal[d] IN
  /\ \/ j.status = "receiving" /\ Move(d, "failed") /\ UNCHANGED live
     \/ j.status = "receiving" /\ Move(d, IF j.auto THEN "starting" ELSE "ready") /\ UNCHANGED live
     \/ /\ j.status = "starting" /\ live' = d
        /\ journal' = [journal EXCEPT ![d] = [j EXCEPT !.status = "succeeded", !.stamp = j.stamp + 1,
                                                       !.previous = live]]
     \/ j.status = "starting" /\ (\E s \in {"failed", "rolled_back", "rollback_failed"} : Move(d, s))
          /\ UNCHANGED live
     \/ j.status = "rolling_back" /\ Move(d, "rolled_back") /\ live' = j.previous
     \/ j.status = "rolling_back" /\ Move(d, "rollback_failed") /\ UNCHANGED live
  /\ UNCHANGED <<records, local, preparing, requests, bounds>>

(* RecoverDeployments runs again when the Agent restarts.                      *)
AgentRecover(d) ==
  LET j == journal[d] IN
  /\ j.status = "rollback_failed"
  /\ Move(d, "rolled_back")
  /\ live' = IF j.manual THEN j.previous ELSE live
  /\ UNCHANGED <<records, local, preparing, requests, bounds>>

AgentActivate(p) ==
  LET d == polls[p].d
      j == journal[d]
      answer(reply) == polls' = [polls EXCEPT ![p].pc = "activateAnswered", ![p].reply = reply]
  IN
  /\ polls[p].pc = "activating"
  /\ \/ journal' = journal /\ answer(Lost)
     \/ journal' = journal /\ (AgentBusy \/ AgentBlocked) /\ answer(Refusal)
     \/ journal' = journal /\ j.status # "ready" /\ answer(Copy(j))
     \/ /\ ~AgentBusy /\ ~AgentBlocked /\ j.status = "ready"
        /\ Move(d, "starting")
        /\ \E reply \in {Lost, Copy(journal'[d])} : answer(reply)
  /\ UNCHANGED <<records, local, preparing, pub, op, live, bounds>>

RollbackReplies(d) ==
  {Lost, Refusal, [Lost EXCEPT !.kind = "busy"], Copy(journal[d]),
   Copy([journal[d] EXCEPT !.status = "rolling_back", !.manual = TRUE, !.stamp = @ + 1])}

(* manualRollbackHandler: the operation lock first, then what was done already, *)
(* what is in the way, and whether this is the deployment being served.         *)
AgentRollback(d, reply) ==
  LET j == journal[d] IN
  \/ journal' = journal /\ reply = Lost
  \/ journal' = journal /\ AgentBusy /\ reply = [Lost EXCEPT !.kind = "busy"]
  \/ /\ ~AgentBusy /\ j.manual /\ j.status = "rolled_back"
     /\ journal' = journal /\ reply = Copy(j)
  \/ /\ ~AgentBusy /\ ~(j.manual /\ j.status = "rolled_back")
     /\ (AgentBlocked \/ j.status # "succeeded" \/ live # d)
     /\ journal' = journal /\ reply = Refusal
  \/ /\ ~AgentBusy /\ ~AgentBlocked /\ j.status = "succeeded" /\ live = d
     /\ journal' = [journal EXCEPT ![d] = [j EXCEPT !.status = "rolling_back", !.manual = TRUE,
                                                    !.stamp = j.stamp + 1]]
     /\ reply \in {Lost, Copy(journal'[d])}

AgentPollRollback(p) ==
  /\ polls[p].pc = "rollback"
  /\ \E reply \in RollbackReplies(polls[p].d) :
       /\ AgentRollback(polls[p].d, reply)
       /\ polls' = [polls EXCEPT ![p].pc = "rollbackAnswered", ![p].reply = reply]
  /\ UNCHANGED <<records, local, preparing, pub, op, live, bounds>>

AgentOpRollback ==
  /\ op.pc = "rollback"
  /\ \E reply \in RollbackReplies(op.d) :
       /\ AgentRollback(op.d, reply)
       /\ op' = [op EXCEPT !.pc = "rollbackAnswered", !.reply = reply]
  /\ UNCHANGED <<records, local, preparing, pub, polls, live, bounds>>

Init ==
  /\ deployments = [d \in Deployments |-> Blank]
  /\ latest = None /\ applied = None
  /\ binding \in [profile : Profiles, service : Services]
  /\ upgrading = FALSE /\ receipts = {} /\ preparing = {}
  /\ pub = Idle /\ op = Idle /\ polls = [p \in Pollers |-> Idle]
  /\ journal = [d \in Deployments |-> NoJournal]
  /\ live = Prior
  /\ rebinds = 0 /\ crashes = 0

Publication ==
  \/ \E d \in Deployments : Snapshot(d)
  \/ Begin \/ PrepareFails \/ Prepared \/ Remember \/ Submit
  \/ UploadAnswered \/ FinishPreparation
Polling(p) ==
  \/ \E d \in Deployments : PollStart(p, d)
  \/ PollReread(p) \/ PollInterrupted(p) \/ PollAsk(p) \/ PollPending(p) \/ PollRecord(p)
  \/ PollRollbackAgain(p) \/ PollRolledBack(p) \/ Activate(p) \/ Activated(p)
Rolling ==
  \/ \E d \in Deployments : ReserveRollback(d)
  \/ RollbackAnswered
Agent ==
  \/ AgentUpload \/ AgentUploadReply \/ AgentOpRollback
  \/ \E d \in Deployments : AgentWork(d) \/ AgentRecover(d)
  \/ \E p \in Pollers : AgentActivate(p) \/ AgentPollRollback(p)
Next ==
  \/ Publication \/ Rolling \/ Agent
  \/ \E p \in Pollers : Polling(p)
  \/ Rebind \/ ReserveUpgrade \/ FinishUpgrade \/ Crash

Spec == Init /\ [][Next]_vars

(* The panel keeps asking about an unfinished deployment while its page is     *)
(* open, a request that is answered comes back, a connection does not break    *)
(* for ever, and the Agent's worker goes on.                                    *)
PollHeard(p) == PollAsk(p) /\ polls'[p].reply.kind # "lost"
RollbackHeard(p) == AgentPollRollback(p) /\ polls'[p].reply.kind # "lost"
Fairness ==
  /\ WF_vars(Begin) /\ WF_vars(PrepareFails) /\ WF_vars(Remember) /\ WF_vars(Submit)
  /\ WF_vars(UploadAnswered) /\ WF_vars(FinishPreparation) /\ WF_vars(RollbackAnswered)
  /\ WF_vars(AgentUpload) /\ WF_vars(AgentUploadReply) /\ WF_vars(AgentOpRollback)
  /\ \A d \in Deployments : WF_vars(AgentWork(d)) /\ WF_vars(AgentRecover(d))
  /\ \A p \in Pollers :
       /\ WF_vars(Polling(p)) /\ SF_vars(PollHeard(p)) /\ SF_vars(RollbackHeard(p))
       /\ WF_vars(AgentActivate(p)) /\ WF_vars(AgentPollRollback(p))
FairSpec == Spec /\ Fairness

(* -------------------------------- properties ------------------------------- *)
(* Every record has the fields record_deployment keeps, and only an absent one *)
(* has no status.                                                              *)
Records == [status : Status, submitted : BOOLEAN, manual : BOOLEAN, stamp : Nat,
            profile : Profiles, service : Services, prepared : BOOLEAN]

TypeOK ==
  /\ deployments \in [Deployments -> Records \cup {Blank}]
  /\ latest \in Deployments \cup {None} /\ applied \in Deployments \cup {None}
  /\ binding \in [profile : Profiles, service : Services]
  /\ upgrading \in BOOLEAN
  /\ receipts \subseteq Deployments /\ preparing \subseteq Deployments
  /\ live \in Deployments \cup {Prior}

(* An Agent has at most one unfinished task: the latest deployment, of the      *)
(* profile it is bound to, and never beside an upgrade (begin_deployment,        *)
(* rollback_deployment, update_agent and upgrades.start each check the others). *)
OneUnfinished ==
  /\ \A d \in Unfinished : d = latest /\ deployments[d].profile = binding.profile
  /\ upgrading => Unfinished = {}

(* A rollback the Agent accepted and the panel gave up: two polls repeat a lost *)
(* request, the Agent refuses the second because the first failed, and           *)
(* _cancel_manual_rollback writes "succeeded" over it (get_deployment).           *)
Overlooked(d) == journal[d].manual /\ ~deployments[d].manual

(* A final status is what the Agent's journal says, whatever answers were lost, *)
(* late or out of order, and wherever the panel died: a 404 or an interrupted    *)
(* preparation is taken for a failure only when nothing was uploaded             *)
(* (get_deployment, record_deployment). A rollback that was overlooked is the    *)
(* one exception, and it takes two polls at the same time.                       *)
OutcomeIsTrue ==
  \A d \in Deployments :
    /\ deployments[d].status = "failed" => live # d /\ journal[d].status # "starting"
    /\ deployments[d].status = "rolled_back" => journal[d].status = "rolled_back"
    /\ deployments[d].status = "succeeded" /\ ~Overlooked(d) =>
         journal[d].status = "succeeded" /\ (live = d \/ latest # d)

(* A late receipt or an overlapping poll never changes a final status; only a   *)
(* reserved rollback reopens a success (record_deployment's guards).             *)
OutcomeIsFinal ==
  [][\A d \in Deployments :
       deployments[d].status \in Terminal /\ deployments[d].status # deployments'[d].status
       => deployments[d].status = "succeeded" /\ deployments'[d].status = "rolling_back"]_vars

(* The content the panel shows as applied is what the Agent serves once nothing *)
(* is unfinished (record_deployment's baseline, dropped by a manual rollback),    *)
(* as long as its service type is not edited under a running deployment.         *)
AppliedIsServed ==
  applied # None /\ Unfinished = {} => live = applied \/ Overlooked(applied)

(* The Agent rolls a deployment back only while the panel holds it reserved, so *)
(* a repeated request never undoes a later publication (rollback_deployment).    *)
RolledBackOnRequest ==
  [][\A d \in Deployments :
       ~journal[d].manual /\ journal'[d].manual => deployments[d].manual /\ latest = d]_vars

(* A publication that was begun ends, or waits as a candidate for its           *)
(* activation, even when the panel dies on the way (the preparation lock, the    *)
(* status stored before the upload, get_deployment).                             *)
PublicationResolves ==
  \A d \in Deployments :
    Open(deployments[d]) /\ ~deployments[d].manual
      ~> ~Open(deployments[d]) \/ deployments[d].status = "ready" \/ deployments[d].manual

(* A reserved rollback is resolved by polling its deployment, as                *)
(* docs/AGENT_OXIDNS.md says.                                                    *)
RollbackResolves ==
  \A d \in Deployments : deployments[d].manual ~> ~Open(deployments[d])
====
