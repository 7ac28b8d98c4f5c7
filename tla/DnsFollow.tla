------------------------------ MODULE DnsFollow ------------------------------
(* Publications of an OxiDNS Agent that follow those of a Mihomo Agent              *)
(* (agents/dns_follow.py): a worker that ends and restarts at any point watches the   *)
(* source, points one upstream of the target at the listener it finds, publishes only  *)
(* that, and updates the draft when nobody else has.                                   *)
EXTENDS Naturals

CONSTANTS
  Addresses,             \* where the source's DNS may listen
  MaxReleases,           \* bound on publications of the source
  MaxDrafts,             \* bound on edits of the target's draft
  MaxUpsets              \* bound on manual publications, rollbacks and bindings of the target, and on crashes

VARIABLES
  source,                \* the latest publication of the source and the listener that is live
  draft,                 \* the target's settings in its profile
  applied,               \* the content the panel knows the target runs (applied_content)
  device,                \* what the target runs
  child,                 \* the target's latest deployment, as recorded, and the Agent's own answer
  binding, state, task,  \* dns_follow, dns_follow_state, dns_follow_job
  round,                 \* the worker inside one round, which holds the job lock
  upsets

followVars == <<source, draft, applied, device, child, binding, state, task, round, upsets>>

Any == CHOOSE a \in Addresses : TRUE
Running == {"preparing", "publishing"}
Terminal == {"succeeded", "failed", "rolled_back"}
NoTask == [set |-> FALSE, from |-> [addr |-> Any, other |-> 0], addr |-> Any]
Plain == [addr |-> Any, other |-> 0]
None == <<0, 0, 0>>
Manual == <<0, 0, 1>>
Restored == <<0, 0, 2>>
ChildOf(s) == <<binding.id, s.release, s.attempt>>
NoState == [status |-> "none", release |-> 0, attempt |-> 0, retry |-> FALSE, child |-> None]
NoRound == [pc |-> "idle", release |-> 0, seen |-> Plain, addr |-> Any, base |-> [addr |-> Any, other |-> 0, by |-> Manual]]
NoChild == [id |-> None, status |-> "succeeded", sent |-> FALSE, agent |-> "none", undone |-> FALSE,
            content |-> Plain, before |-> Plain]

FollowInit ==
  /\ source = [release |-> 0, status |-> "none", undone |-> FALSE, live |-> Any, next |-> Any, last |-> Any]
  /\ draft = Plain /\ device = draft
  /\ applied = [addr |-> Any, other |-> 0, by |-> Manual]
  /\ child = NoChild
  /\ binding = [bound |-> FALSE, id |-> 0, after |-> 0, signature |-> Any]
  /\ state = NoState /\ task = NoTask /\ round = NoRound
  /\ upsets = 0

-----------------------------------------------------------------------------
(* What people and the source do meanwhile. The manager refuses most of it while the     *)
(* follow is "preparing" or "publishing"; it is allowed here at any time, which also     *)
(* stands for requests that passed that check before the status was written.            *)
SourcePublishes ==
  /\ source.release < MaxReleases /\ source.status # "running"
  /\ \E a \in Addresses : source' = [source EXCEPT !.release = @ + 1, !.status = "running", !.undone = FALSE, !.next = a]
  /\ UNCHANGED <<draft, applied, device, child, binding, state, task, round, upsets>>

SourceEnds ==
  /\ source.status = "running"
  /\ source' \in {[source EXCEPT !.status = "succeeded", !.live = source.next, !.last = source.live],
                  [source EXCEPT !.status = "failed"]}
  /\ UNCHANGED <<draft, applied, device, child, binding, state, task, round, upsets>>

SourceRollback ==
  /\ upsets < MaxUpsets /\ source.status = "succeeded" /\ ~source.undone
  /\ source' = [source EXCEPT !.undone = TRUE, !.live = source.last]
  /\ upsets' = upsets + 1
  /\ UNCHANGED <<draft, applied, device, child, binding, state, task, round>>

EditDraft ==
  /\ draft.other < MaxDrafts
  /\ draft' \in {[draft EXCEPT !.other = @ + 1]} \cup {[addr |-> a, other |-> draft.other + 1] : a \in Addresses \ {draft.addr}}
  /\ UNCHANGED <<source, applied, device, child, binding, state, task, round, upsets>>

Unfinished(c) == c.status \notin Terminal

TargetPublishes ==
  /\ upsets < MaxUpsets /\ ~Unfinished(child)
  /\ device' = draft /\ applied' = [addr |-> draft.addr, other |-> draft.other, by |-> Manual]
  /\ child' = [NoChild EXCEPT !.id = Manual]
  /\ upsets' = upsets + 1
  /\ UNCHANGED <<source, draft, binding, state, task, round>>

(* A person returns the target to what it ran before the publication.                   *)
TargetRollback ==
  /\ upsets < MaxUpsets /\ child.id \notin {None, Manual} /\ child.status = "succeeded" /\ ~child.undone
  /\ device' = child.before /\ applied' = [addr |-> child.before.addr, other |-> child.before.other, by |-> Restored]
  /\ child' = [child EXCEPT !.undone = TRUE]
  /\ upsets' = upsets + 1
  /\ UNCHANGED <<source, draft, binding, state, task, round>>

(* The job lock: bindings and retries are refused while a round runs, and while a        *)
(* publication of the binding is not confirmed.                                          *)
Mutable == round.pc = "idle" /\ state.status \notin Running

Configure ==
  /\ Mutable /\ upsets < MaxUpsets
  /\ binding' = [bound |-> TRUE, id |-> binding.id + 1, after |-> source.release, signature |-> draft.addr]
  /\ state' = [NoState EXCEPT !.status = "waiting"] /\ task' = NoTask
  /\ upsets' = upsets + 1
  /\ UNCHANGED <<source, draft, applied, device, child, round>>

Disable ==
  /\ Mutable /\ binding.bound
  /\ binding' = [binding EXCEPT !.bound = FALSE] /\ state' = NoState /\ task' = NoTask
  /\ UNCHANGED <<source, draft, applied, device, child, round, upsets>>

Retry ==
  /\ Mutable /\ binding.bound /\ state.status = "failed" /\ upsets < MaxUpsets
  /\ child.id = state.child => ~Unfinished(child)
  /\ state' = [state EXCEPT !.status = "waiting", !.retry = TRUE, !.attempt = @ + 1, !.child = None]
  /\ task' = NoTask
  /\ upsets' = upsets + 1
  /\ UNCHANGED <<source, draft, applied, device, child, binding, round>>

-----------------------------------------------------------------------------
(* The Agent's side of a publication, and what the panel's poll learns of it. A rollback that  *)
(* fails may leave either content running.                                                    *)
AgentEnds ==
  /\ child.agent = "running"
  /\ \/ /\ child' = [child EXCEPT !.agent = "succeeded"] /\ device' = child.content
     \/ /\ \E r \in {"failed", "rolled_back"} : child' = [child EXCEPT !.agent = r] /\ UNCHANGED device
     \/ /\ child' = [child EXCEPT !.agent = "rollback_failed"] /\ device' \in {device, child.content}
  /\ UNCHANGED <<source, draft, applied, binding, state, task, round, upsets>>

(* Recovery, which a person asks for (-recover-and-exit), completes the rollback.              *)
AgentRecovers ==
  /\ child.agent = "rollback_failed"
  /\ child' = [child EXCEPT !.agent = "rolled_back"] /\ device' = child.before
  /\ UNCHANGED <<source, draft, applied, binding, state, task, round, upsets>>

(* Reading a deployment refreshes its record: the Agent's final answer, or a failure when   *)
(* its preparation is gone and it was never sent. applied_content follows a success; a failed *)
(* rollback is no end.                                                                       *)
Polled ==
  IF ~Unfinished(child) \/ child.id = Manual THEN child
  ELSE IF child.agent \in Terminal THEN [child EXCEPT !.status = child.agent]
  ELSE IF ~child.sent /\ round.pc \notin {"reserved", "job"} THEN [child EXCEPT !.status = "failed"] ELSE child
Remembered(c) ==
  IF c.status = "succeeded" /\ Unfinished(child) THEN [addr |-> c.content.addr, other |-> c.content.other, by |-> c.id] ELSE applied

Poll ==
  /\ Unfinished(child)
  /\ child' = Polled /\ applied' = Remembered(Polled)
  /\ UNCHANGED <<source, draft, device, binding, state, task, round, upsets>>

Quiet == UNCHANGED <<source, draft, device, binding, upsets>>
Failed == state' = [state EXCEPT !.status = "failed"] /\ round' = NoRound

(* A release is followed once, and again when a person asked for it.                         *)
Starts == state.release # source.release \/ state.retry

Follow ==
  /\ state.status \notin Running
  /\ source.status = "succeeded" /\ ~source.undone /\ source.release # binding.after /\ Starts
  /\ LET attempt == IF state.release = source.release THEN state.attempt ELSE 0
         next == [status |-> "preparing", release |-> source.release, attempt |-> attempt, retry |-> FALSE,
                  child |-> None] IN
     /\ state' = [next EXCEPT !.child = ChildOf(next)]
     /\ round' = [NoRound EXCEPT !.pc = "read", !.release = source.release, !.base = applied]

(* A round: a publication under way is taken up again, or the latest release is followed.     *)
Tick ==
  /\ round.pc = "idle" /\ binding.bound
  /\ Follow \/ (state.status \in Running /\ round' = [NoRound EXCEPT !.pc = "resume"] /\ UNCHANGED state)
  /\ Quiet /\ UNCHANGED <<applied, child, task>>

(* The publish snapshot; the bound upstream must be as it was bound.                          *)
ReadSnapshot ==
  /\ round.pc = "read"
  /\ IF draft.addr # binding.signature THEN Failed
     ELSE round' = [round EXCEPT !.pc = "endpoint", !.seen = draft] /\ UNCHANGED state
  /\ Quiet /\ UNCHANGED <<applied, child, task>>

StillLatest == source.release = round.release /\ source.status = "succeeded" /\ ~source.undone

(* The source answers for the release asked about only while that one is live, the target      *)
(* confirms that it still runs the last success.                                               *)
Endpoint ==
  /\ round.pc = "endpoint"
  /\ IF StillLatest /\ applied = round.base
     THEN round' = [round EXCEPT !.pc = "compare", !.addr = source.live] /\ UNCHANGED state
     ELSE Failed
  /\ Quiet /\ UNCHANGED <<applied, child, task>>

(* The snapshot must generate exactly what the target runs: nothing else waits unpublished.    *)
Unpublished == [addr |-> round.base.addr, other |-> round.base.other] # round.seen

Compare ==
  /\ round.pc = "compare"
  /\ IF Unpublished THEN Failed
     ELSE IF round.seen.addr = round.addr
     THEN state' = [state EXCEPT !.status = "succeeded", !.child = None] /\ round' = NoRound
     ELSE round' = [round EXCEPT !.pc = "reserve"] /\ UNCHANGED state
  /\ Quiet /\ UNCHANGED <<applied, child, task>>

Reserve ==
  /\ round.pc = "reserve"
  /\ IF ~StillLatest \/ applied # round.base \/ Unfinished(child) \/ child.id = state.child
     THEN Failed /\ UNCHANGED child
     ELSE /\ child' = [NoChild EXCEPT !.id = state.child, !.status = "preparing", !.before = device,
                                      !.content = [round.seen EXCEPT !.addr = round.addr]]
          /\ round' = [round EXCEPT !.pc = "reserved"] /\ UNCHANGED state
  /\ Quiet /\ UNCHANGED <<applied, task>>

SetJob ==
  /\ round.pc = "reserved"
  /\ task' = [set |-> TRUE, from |-> round.seen, addr |-> round.addr]
  /\ state' = [state EXCEPT !.status = "publishing"]
  /\ round' = [round EXCEPT !.pc = "job"]
  /\ Quiet /\ UNCHANGED <<applied, child>>

(* Sent; the answer may be lost, and the Agent may refuse.                                    *)
Publish ==
  /\ round.pc = "job"
  /\ child' \in {[child EXCEPT !.sent = TRUE, !.status = "publishing", !.agent = "running"],
                 [child EXCEPT !.status = "failed"]}
  /\ round' = [NoRound EXCEPT !.pc = "resume"]
  /\ Quiet /\ UNCHANGED <<applied, state, task>>

(* The recorded deployment decides; nothing recorded means the preparation was cut off, and    *)
(* a reservation that was never sent is closed.                                                 *)
Resume ==
  /\ round.pc = "resume"
  /\ IF ~task.set \/ child.id # state.child
     THEN /\ Failed /\ UNCHANGED applied
          /\ child' = IF child.id = state.child /\ Unfinished(child) /\ ~child.sent THEN [child EXCEPT !.status = "failed"] ELSE child
     ELSE /\ child' = Polled /\ applied' = Remembered(Polled)
          /\ IF Polled.status = "succeeded" /\ ~Polled.undone
             THEN round' = [round EXCEPT !.pc = "check"] /\ UNCHANGED state
             ELSE IF Polled.status \in Terminal THEN Failed
             ELSE state' = [state EXCEPT !.status = "publishing"] /\ round' = NoRound
  /\ Quiet /\ UNCHANGED task

(* Before it is called a success: the target still runs the child, the source the release.      *)
FinalCheck ==
  /\ round.pc = "check"
  /\ IF applied.by = state.child /\ child.id = state.child
        /\ source.release = state.release /\ source.status = "succeeded" /\ ~source.undone
     THEN round' = [round EXCEPT !.pc = "finalize"] /\ UNCHANGED state
     ELSE Failed
  /\ Quiet /\ UNCHANGED <<applied, child, task>>

Candidate == [task.from EXCEPT !.addr = task.addr]
Swap_Blind == TRUE
(* The draft takes the new upstream unless it was edited since the snapshot.                     *)
Swap == draft \in {task.from, Candidate}

Finalize ==
  /\ round.pc = "finalize"
  /\ draft' = IF Swap THEN Candidate ELSE draft
  /\ round' = [round EXCEPT !.pc = IF Swap THEN "sign" ELSE "done"]
  /\ UNCHANGED <<source, device, binding, upsets, applied, child, state, task>>

Sign ==
  /\ round.pc = "sign"
  /\ binding' = [binding EXCEPT !.signature = task.addr]
  /\ round' = [round EXCEPT !.pc = "done"]
  /\ UNCHANGED <<source, draft, device, upsets, applied, child, state, task>>

Succeed ==
  /\ round.pc = "done"
  /\ state' = [state EXCEPT !.status = "succeeded"] /\ round' = NoRound
  /\ Quiet /\ UNCHANGED <<applied, child, task>>

Crash ==
  /\ upsets < MaxUpsets /\ round.pc # "idle"
  /\ round' = NoRound /\ upsets' = upsets + 1
  /\ UNCHANGED <<source, draft, applied, device, child, binding, state, task>>

RoundStep == ReadSnapshot \/ Endpoint \/ Compare \/ Reserve \/ SetJob \/ Publish \/ Resume \/ FinalCheck
             \/ Finalize \/ Sign \/ Succeed
FollowNext ==
  \/ SourcePublishes \/ SourceEnds \/ SourceRollback \/ EditDraft \/ TargetPublishes \/ TargetRollback
  \/ Configure \/ Disable \/ Retry \/ AgentEnds \/ AgentRecovers \/ Poll \/ Tick \/ RoundStep \/ Crash
FollowSpec == FollowInit /\ [][FollowNext]_followVars
(* The worker polls every five seconds; publications on an Agent have time limits. Nothing makes  *)
(* a failed rollback recover.                                                                     *)
FollowFairness == WF_followVars(Tick) /\ WF_followVars(RoundStep) /\ WF_followVars(AgentEnds) /\ WF_followVars(SourceEnds)

-----------------------------------------------------------------------------
(* An automatic publication, or its recovery, changes the followed upstream and nothing else:      *)
(* what a person left unpublished in the draft is not brought to the device by it.                  *)
OnlyUpstreamIsPublished == [][AgentEnds \/ AgentRecovers => device'.other = device.other]_followVars

(* The draft is never put back over an edit made while the publication ran.                         *)
EditSurvives == [][RoundStep => draft'.other = draft.other]_followVars

(* The draft takes an upstream only after the target ran it and while the source still listens       *)
(* there, whatever was published or rolled back on either side in the meantime.                       *)
ConnectedWhenConfirmed == [][round.pc = "check" /\ round'.pc = "finalize" => device.addr = source.live]_followVars

(* A successful release of the source ends in a result for it, unless something newer or a person      *)
(* takes over, or the target waits for the recovery of a rollback that failed: then the release stays   *)
(* "publishing", neither retried nor given up, until the target has recovered.                           *)
Superseded(r) == source.release # r \/ source.undone \/ source.status # "succeeded" \/ ~binding.bound \/ binding.after = r
AwaitsRecovery == child.id = state.child /\ child.agent = "rollback_failed"
ReleaseIsAnswered ==
  \A r \in 1..MaxReleases :
    (source.release = r /\ source.status = "succeeded" /\ binding.bound)
      ~> (Superseded(r) \/ AwaitsRecovery \/ (state.release = r /\ state.status \in {"succeeded", "failed"}))
=============================================================================
