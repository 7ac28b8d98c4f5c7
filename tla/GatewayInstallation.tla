------------------------- MODULE GatewayInstallation -------------------------
(* Installing a Linux gateway (agents/gateway_installation.py): a session frozen on one    *)
(* saved configuration registers a Mihomo and an OxiDNS Agent, binds the pair, and          *)
(* publishes Mihomo first. Answers are lost, the panel restarts, people publish by hand.     *)
(* A look at the pair and the call behind it are one step where the call's own transaction    *)
(* repeats what matters (begin, upload, activation); the record of the end has no such check. *)
EXTENDS Naturals, FiniteSets

CONSTANTS
  Sessions,              \* installation sessions, numbered from 1
  MaxAgentIds, MaxTasks, \* bounds on Agent records and deployments
  MaxEvents              \* bound on what people and faults do

VARIABLES
  edition, ready,        \* the revision of the saved configuration; it passes the gateway's checks
  session,               \* what is stored of each session
  agents,                \* service -> the record with the target's name and address
  credentials,           \* service -> the Agent id whose token the machine keeps
  tasks, latest,         \* deployments, and the last one begun of each service
  worker,                \* session -> the thread that publishes, behind the session's lease
  given, events          \* Agent ids given out, events so far

gatewayVars == <<edition, ready, session, agents, credentials, tasks, latest, worker, given, events>>

Services == {"mihomo", "oxidns"}
NoSession == [phase |-> "none", edition |-> 0, ids |-> [v \in Services |-> 0], registered |-> [v \in Services |-> 0],
              deployments |-> [v \in Services |-> [id |-> 0, status |-> "none"]]]
NoAgent == [id |-> 0, owner |-> 0, bound |-> FALSE]
NoTask == [status |-> "none", healthy |-> FALSE]
Final == {"succeeded", "failed", "rolled_back"}
Failed == {"failed", "rolled_back", "rollback_failed"}
Tasks == 1..MaxTasks
FreshTasks == {t \in Tasks : tasks[t].status = "none" /\ \A s \in Sessions, v \in Services : session[s].deployments[v].id # t}

GatewayInit ==
  /\ edition = 0 /\ ready = TRUE /\ session = [s \in Sessions |-> NoSession]
  /\ agents = [v \in Services |-> NoAgent] /\ credentials = [v \in Services |-> 0]
  /\ tasks = [t \in Tasks |-> NoTask] /\ latest = [v \in Services |-> 0]
  /\ worker = [s \in Sessions |-> [pc |-> "idle", service |-> "mihomo"]] /\ given = 0 /\ events = 0

Event == events < MaxEvents /\ events' = events + 1
Open(v) == latest[v] # 0 /\ tasks[latest[v]].status \notin Final

-----------------------------------------------------------------------------
(* The wizard saves both drafts in one transaction when its preview finds no blocker; other   *)
(* pages may edit the configuration later. A session freezes a revision that passes.          *)
PrepareDrafts ==
  /\ Event /\ edition' = edition + 1 /\ ready' = TRUE
  /\ UNCHANGED <<session, agents, credentials, tasks, latest, worker, given>>

EditConfiguration ==
  /\ Event /\ edition' = edition + 1 /\ ready' \in BOOLEAN
  /\ UNCHANGED <<session, agents, credentials, tasks, latest, worker, given>>

Saved(s) == edition = session[s].edition /\ ready

Create(s) ==
  /\ session[s].phase = "none" /\ ready /\ \A o \in Sessions : o < s => session[o].phase # "none"
  /\ \A o \in Sessions : session[o].phase # "none" => session[o].edition # edition
  /\ session' = [session EXCEPT ![s].phase = "waiting", ![s].edition = edition]
  /\ UNCHANGED <<edition, ready, agents, credentials, tasks, latest, worker, given, events>>

(* The installer registers a service. A record this session created is handed out again,      *)
(* any other needs its token. The session's receipt is written after the record, and the answer  *)
(* may be lost after either.                                                                    *)
Register(s, v) ==
  LET there == agents[v].id # 0
      owned == there /\ agents[v].owner = s
      id == IF there THEN agents[v].id ELSE given + 1 IN
  /\ session[s].phase # "none"
  /\ IF owned THEN agents[v].bound /\ session[s].ids[v] \in {0, id}
     ELSE session[s].ids[v] # 0 => there /\ id = session[s].ids[v]
  /\ there => (owned \/ credentials[v] = id)
  /\ there /\ ~agents[v].bound => ~Open(v)
  /\ ~there => given < MaxAgentIds
  /\ given' = IF there THEN given ELSE given + 1
  /\ agents' = [agents EXCEPT ![v] = [id |-> id, owner |-> IF there THEN agents[v].owner ELSE s, bound |-> TRUE]]
  /\ \/ session' = session /\ credentials' = credentials
     \/ /\ session' = [session EXCEPT ![s].registered[v] = id]
        /\ credentials' \in {credentials, [credentials EXCEPT ![v] = id]}
  /\ UNCHANGED <<edition, ready, tasks, latest, worker, events>>

(* Both proofs are checked in one transaction, then both records are bound to the target.      *)
Enroll(s) ==
  /\ session[s].phase # "none"
  /\ \A v \in Services :
       /\ credentials[v] # 0 /\ agents[v].id = credentials[v]
       /\ session[s].ids[v] \in {0, agents[v].id} /\ session[s].registered[v] \in {0, agents[v].id}
       /\ ~agents[v].bound => session[s].ids[v] = 0 /\ ~Open(v)
  /\ agents' = [v \in Services |-> [agents[v] EXCEPT !.bound = TRUE]]
  /\ session' = [session EXCEPT ![s].ids = credentials, ![s].phase = IF @ = "waiting" THEN "enrolled" ELSE @]
  /\ UNCHANGED <<edition, ready, credentials, tasks, latest, worker, given, events>>

(* People rename, move or delete a bound Agent, or publish to it from its own page.             *)
Unbind(v) ==
  /\ agents[v].id # 0 /\ Event
  /\ agents' = [agents EXCEPT ![v].bound = FALSE]
  /\ UNCHANGED <<edition, ready, session, credentials, tasks, latest, worker, given>>

Delete(v) ==
  /\ agents[v].id # 0 /\ Event
  /\ agents' = [agents EXCEPT ![v] = NoAgent] /\ latest' = [latest EXCEPT ![v] = 0]
  /\ UNCHANGED <<edition, ready, session, credentials, tasks, worker, given>>

PublishByHand(v) ==
  /\ agents[v].id # 0 /\ ~Open(v) /\ Event
  /\ \E t \in FreshTasks : tasks' = [tasks EXCEPT ![t].status = "sent"] /\ latest' = [latest EXCEPT ![v] = t]
  /\ UNCHANGED <<edition, ready, session, agents, credentials, worker, given>>

RollBack(v) ==
  /\ agents[v].id # 0 /\ latest[v] # 0 /\ tasks[latest[v]].status = "succeeded" /\ Event
  /\ tasks' = [tasks EXCEPT ![latest[v]].status = "rolling_back"]
  /\ UNCHANGED <<edition, ready, session, agents, credentials, latest, worker, given>>

(* The Agent: an upload may end ready when the answer to it was uncertain, a rollback may be       *)
(* refused, and one that failed is completed by the recovery.                                      *)
Ends == [sent |-> {"ready", "succeeded", "failed", "rollback_failed"}, rollback_failed |-> {"rolled_back"},
         rolling_back |-> {"rolled_back", "rollback_failed", "succeeded"}]
AgentEnds(t) ==
  /\ tasks[t].status \in DOMAIN Ends
  /\ \E status \in Ends[tasks[t].status] :
       tasks' = [tasks EXCEPT ![t] = [status |-> status, healthy |-> @.healthy \/ status = "succeeded"]]
  /\ UNCHANGED <<edition, ready, session, agents, credentials, latest, worker, given, events>>

-----------------------------------------------------------------------------
(* Publishing: the pair is checked before every step that acts.                                    *)
PairOk(s) ==
  /\ edition = session[s].edition
  /\ \A v \in Services :
       /\ session[s].ids[v] # 0 /\ agents[v].id = session[s].ids[v] /\ agents[v].bound
       /\ LET t == session[s].deployments[v].id IN t # 0 /\ tasks[t].status # "none" => latest[v] = t

Renewed(s, v) == session[s].deployments[v].id = 0 \/ session[s].deployments[v].status \in Failed

(* A person starts, continues or, once a task failed, retries; only missing and failed ids are     *)
(* replaced.                                                                                        *)
Publish(s) ==
  /\ worker[s].pc = "idle" /\ session[s].phase \notin {"none", "published"} /\ PairOk(s) /\ Event
  /\ LET failed == \E v \in Services : session[s].deployments[v].status \in Failed
         new == {v \in Services : Renewed(s, v)}
         empty == \A v \in Services : session[s].deployments[v].id = 0 IN
     IF failed \/ empty
     THEN \E ids \in [new -> FreshTasks] :
            /\ \A v, w \in new : v # w => ids[v] # ids[w]
            /\ session' = [session EXCEPT ![s].phase = "publishing", ![s].deployments =
                             [v \in Services |-> IF v \in new THEN [id |-> ids[v], status |-> "preparing"] ELSE @[v]]]
     ELSE session' = [session EXCEPT ![s].phase = "publishing"]
  /\ worker' = [worker EXCEPT ![s] = [pc |-> "start", service |-> "mihomo"]]
  /\ UNCHANGED <<edition, ready, agents, credentials, tasks, latest, given>>

Task(s) == session[s].deployments[worker[s].service].id
Settled == UNCHANGED <<edition, ready, agents, credentials, given, events>>
GiveUp(s) ==
  /\ worker' = [worker EXCEPT ![s].pc = "idle"]
  /\ session' = [session EXCEPT ![s].phase = "publish_failed"]

(* The service's task is begun once: an id already recorded is only looked at.                      *)
Begin(s) ==
  LET v == worker[s].service IN
  /\ worker[s].pc = "start"
  /\ IF ~PairOk(s) \/ (tasks[Task(s)].status = "none" /\ Open(v))
     THEN GiveUp(s) /\ UNCHANGED <<tasks, latest>>
     ELSE IF tasks[Task(s)].status # "none"
     THEN worker' = [worker EXCEPT ![s].pc = "wait"] /\ UNCHANGED <<session, tasks, latest>>
     ELSE /\ tasks' = [tasks EXCEPT ![Task(s)].status = "preparing"] /\ latest' = [latest EXCEPT ![v] = Task(s)]
          /\ worker' = [worker EXCEPT ![s].pc = "prepare"] /\ UNCHANGED session
  /\ Settled

(* Files are built from the saved revision; the pair is checked again before they are sent.           *)
Send(s) ==
  /\ worker[s].pc = "prepare"
  /\ IF Saved(s) /\ PairOk(s)
     THEN /\ tasks' = [tasks EXCEPT ![Task(s)].status = "sent"]
          /\ worker' = [worker EXCEPT ![s].pc = "wait"] /\ UNCHANGED session
     ELSE tasks' = [tasks EXCEPT ![Task(s)].status = "failed"] /\ GiveUp(s)
  /\ UNCHANGED latest /\ Settled

Advance(s, status) ==
  IF status # "succeeded" THEN worker[s]
  ELSE IF worker[s].service = "mihomo" THEN [pc |-> "start", service |-> "oxidns"] ELSE [pc |-> "final", service |-> "oxidns"]

Unsettled == {"sent", "ready", "rolling_back"}
(* Waiting: what the task shows is stored, then the worker goes on, gives up, activates an upload       *)
(* that is only ready, or asks again. A task left by a panel that stopped while preparing fails.         *)
Wait(s) ==
  LET preparing == tasks[Task(s)].status = "preparing"
      status == IF preparing THEN "failed" ELSE tasks[Task(s)].status
      seen == [session EXCEPT ![s].deployments[worker[s].service].status = status] IN
  /\ worker[s].pc = "wait"
  /\ \/ /\ status \in Failed \/ (status \in Unsettled /\ ~PairOk(s))
        /\ worker' = [worker EXCEPT ![s].pc = "idle"]
        /\ session' = [seen EXCEPT ![s].phase = "publish_failed"]
        /\ tasks' = [tasks EXCEPT ![Task(s)].status = status]
     \/ /\ status = "succeeded" \/ (status \in Unsettled /\ PairOk(s))
        /\ worker' = [worker EXCEPT ![s] = Advance(s, status)] /\ session' = seen
        /\ tasks' = IF status = "ready" THEN [tasks EXCEPT ![Task(s)].status = "sent"] ELSE tasks
  /\ UNCHANGED latest /\ Settled

(* Five minutes are over, or an Agent is not online: the ids stay for a later continuation.               *)
TimeOut(s) ==
  /\ worker[s].pc \in {"start", "wait", "final"} /\ GiveUp(s)
  /\ UNCHANGED <<tasks, latest>> /\ Settled

(* The pair is looked at once more; then the end is recorded, whatever happened in between.                *)
LastLook(s) ==
  /\ worker[s].pc = "final"
  /\ IF PairOk(s) THEN worker' = [worker EXCEPT ![s].pc = "publish"] /\ UNCHANGED session ELSE GiveUp(s)
  /\ UNCHANGED <<tasks, latest>> /\ Settled

Finish(s) ==
  /\ worker[s].pc = "publish"
  /\ worker' = [worker EXCEPT ![s].pc = "idle"]
  /\ session' = [session EXCEPT ![s].phase = "published"]
  /\ UNCHANGED <<tasks, latest>> /\ Settled

Restart ==
  /\ Event /\ worker' = [s \in Sessions |-> [worker[s] EXCEPT !.pc = "idle"]]
  /\ UNCHANGED <<edition, ready, session, agents, credentials, tasks, latest, given>>

GatewayNext ==
  \/ PrepareDrafts \/ EditConfiguration \/ Restart
  \/ \E s \in Sessions :
       \/ Create(s) \/ Enroll(s) \/ Publish(s) \/ Begin(s) \/ Send(s) \/ Wait(s) \/ TimeOut(s)
       \/ LastLook(s) \/ Finish(s)
       \/ \E v \in Services : Register(s, v)
  \/ \E v \in Services : Unbind(v) \/ Delete(v) \/ PublishByHand(v) \/ RollBack(v)
  \/ \E t \in Tasks : AgentEnds(t)
GatewaySpec == GatewayInit /\ [][GatewayNext]_gatewayVars

(* OxiDNS is started only after the session's Mihomo deployment was healthy. A session says published *)
(* only of two deployments that were healthy, and decided so when both were the last of their Agents;  *)
(* another may begin between that look and the record (the page then says the target has changed).     *)
MihomoFirst ==
  [][\A s \in Sessions :
       LET t == session[s].deployments IN
       /\ (t["oxidns"].id # 0 /\ tasks[t["oxidns"].id].status = "none" /\ tasks'[t["oxidns"].id].status # "none"
             => tasks[t["mihomo"].id].healthy)
       /\ (worker[s].pc # "publish" /\ worker'[s].pc = "publish" => \A v \in Services : latest[v] = t[v].id)
       /\ (session[s].phase # "published" /\ session'[s].phase = "published"
             => \A v \in Services : tasks[t[v].id].healthy)]_gatewayVars

(* Continuing or retrying replaces a task only when it failed, so a healthy Mihomo is not deployed    *)
(* again, and a session never changes the pair it was bound to.                                        *)
RetryKeepsWhatWorked ==
  [][\A s \in Sessions, v \in Services :
       /\ LET t == session[s].deployments[v].id IN
          t # 0 /\ session'[s].deployments[v].id # t => tasks[t].status \in Failed
       /\ session[s].ids[v] # 0 => session'[s].ids[v] = session[s].ids[v]]_gatewayVars
=============================================================================
